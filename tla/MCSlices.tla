------------------------------ MODULE MCSlices ------------------------------
(* Command lines of lsub on a space of six slices, of which two may be      *)
(* selected.                                                                *)
EXTENDS Slices

E == [opt |-> "e"]
V == [opt |-> "v"]
X == [opt |-> "x"]
P(n) == [opt |-> "p", port |-> n]
S(gs) == [opt |-> "s", groups |-> gs]
G(s, ids) == [space |-> s, ids |-> ids]

SmallDecoded == [s \in Space |-> IF s = "cfg0" THEN {1, 2, 3} ELSE {1, 2}]

(* Entities with no capability, with all, and with some that differ from    *)
(* space to space, on both sides of those that have a printer.              *)
SomeBitmaps ==
  {[s \in Space |-> {}], [s \in Space |-> Slice \ {0}],
   [s \in Space |-> CASE s = "cfg0" -> {1, 3, 4} [] s = "cfg1" -> {2} [] s = "port" -> {1}],
   [s \in Space |-> CASE s = "cfg0" -> {2} [] s = "cfg1" -> {1, 5} [] s = "port" -> {2, 3}]}

(* One slice, two, a default, a whole space, and numbers that are refused.  *)
Lists == {{0}, {1}, {3}, {4}, {0, 2}, Slice, {1, Bad}}
Selections ==
  {<<G(s, ids)>> : s \in Space, ids \in Lists \cup {{}}}
    \cup {<<G("none", {0})>>, <<>>}
    \cup {<<G("cfg0", {1}), G(s, {i})>> : s \in Space, i \in {1, 2, Bad}}

Ports == {<<>>} \cup {<<P(n)>> : n \in 0 .. PortNum}

VerboseLines ==
  {<<E, V, S(gs)>> \o p : gs \in Selections, p \in Ports} \cup {<<V, E>>, <<E, X, V>>, <<E>>, <<X>>}

HexLines ==
  {<<E>> \o p \o <<X, S(gs)>> : gs \in Selections, p \in Ports}
    \cup {<<E, X, P(0), S(gs), S(hs)>> : gs \in Selections, hs \in Selections}

RepeatedLines ==
  {<<E, S(gs), S(hs), V, P(0)>> : gs \in Selections, hs \in Selections}

AllLines == VerboseLines \cup HexLines \cup RepeatedLines
=============================================================================
