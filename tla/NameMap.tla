------------------------------- MODULE NameMap -------------------------------
(****************************************************************************)
(* What the ID database promises: a partial map from keys to names.  A key  *)
(* is entered with its name, a later name for the same key hides the one    *)
(* before, a name is forgotten only when everything is, and each answer is  *)
(* what the map holds at that moment.                                       *)
(****************************************************************************)
EXTENDS Sequences

CONSTANTS
  Query,            \* what a name is asked for
  Answered(_, _)    \* the answer a map gives to a query

VARIABLES
  names,  \* the map: a function on the keys entered
  shown   \* the answers given, in order

NoNames == [k \in {} |-> k]

Init == names = NoNames /\ shown = <<>>

Enter(k) ==
  /\ names' = [x \in DOMAIN names \cup {k} |-> IF x = k THEN names'[k] ELSE names[x]]
  /\ UNCHANGED shown

Answer(q) ==
  /\ shown' = Append(shown, [query |-> q, answer |-> Answered(names, q)])
  /\ UNCHANGED names

Forget ==
  /\ names' = NoNames
  /\ UNCHANGED shown

Next ==
  \/ \E k \in DOMAIN names' : Enter(k)
  \/ \E q \in Query : Answer(q)
  \/ Forget

Spec == Init /\ [][Next]_<<names, shown>>
=============================================================================
