------------------------------ MODULE MueLists ------------------------------
(****************************************************************************)
(* "lsub -l": under each primary entity (UBE0) the management entities of   *)
(* its mue_list and under each of these the entities of its ue_list, then   *)
(* its own ue_list.  A file is read while lines of another are still to be  *)
(* read.  The driver may change the files at any time, so each one that is  *)
(* opened holds any of the lists considered.                                *)
(****************************************************************************)
EXTENDS Integers, Sequences, FiniteSets, SequencesExt

CONSTANTS
  Uent,        \* the numbers of the entities
  Info,        \* of each: entity_idx, primary_entity and is_mue
  ListFiles,   \* what a mue_list or ue_list may hold: numbers and syntax errors
  SyntaxError  \* a line without a number

ASSUME UentAssumption == Uent \subseteq Nat \ {0}
ASSUME UentsFiniteAssumption == IsFiniteSet(Uent)
ASSUME InfoAssumption == Info \in [Uent -> [idx : Nat, primary : Nat, mue : BOOLEAN]]
ASSUME ListFilesAssumption == ListFiles \subseteq Seq(Nat \cup {SyntaxError})
ASSUME SyntaxErrorAssumption == SyntaxError \notin Nat

VARIABLES
  found,     \* uacc->uents, what the scan found, the last first
  only,      \* the entity named by -e, or 0
  todo,      \* the entities that show_mue_ue_list has not come to
  mueLines,  \* the lines left of the mue_list being read
  ueLines,   \* the lines left of the ue_list being read
  mueFile,   \* history: which of the files that is
  owner,     \* the entity whose ue_list is read
  level,     \* 1 if it is read within a mue_list
  files,     \* history: the lists that were opened, in order
  rows,      \* what has been printed
  mueAt      \* the place in the three functions

mueVars ==
  <<found, only, todo, mueLines, ueLines, owner, level, files, mueFile, rows, mueAt>>

MueInit ==
  /\ found = <<>> /\ only = 0 /\ todo = <<>>
  /\ mueLines = <<>> /\ ueLines = <<>> /\ owner = 0 /\ level = 0
  /\ files = <<>> /\ mueFile = 0 /\ rows = <<>>
  /\ mueAt = "none"

(* ub_get_uent_by_uent_num.                                                 *)
Known(n) == n \in ToSet(found)

(* What sysfs_get_if_mue and the attribute files said during the scan.      *)
Role(u) ==
  CASE Info[u].idx = 0 -> "primary"
    [] Info[u].idx # 0 /\ Info[u].primary = u -> "pool"
    [] Info[u].idx # 0 /\ Info[u].primary # u -> IF Info[u].mue THEN "mue" ELSE "ue"

RowOf(u, role, file) == [uent |-> u, role |-> role, file |-> file]

----------------------------------------------------------------------------
ShowMueUeList(u) ==
  /\ mueAt = "none"
  /\ only' = u /\ todo' = found /\ mueAt' = "next"
  /\ UNCHANGED <<found, mueLines, ueLines, owner, level, files, mueFile, rows>>

Selected(u) == IF only = 0 THEN Info[u].idx = 0 ELSE u = only

SkipUent ==
  /\ mueAt = "next" /\ todo # <<>> /\ ~Selected(Head(todo))
  /\ todo' = Tail(todo)
  /\ UNCHANGED <<found, only, mueLines, ueLines, owner, level, files, mueFile, rows, mueAt>>

ShowRole ==
  /\ mueAt = "next" /\ todo # <<>> /\ Selected(Head(todo))
  /\ LET u == Head(todo)
     IN /\ rows' = Append(rows, RowOf(u, Role(u), 0))
        /\ IF Info[u].idx = 0
           THEN mueAt' = "mue_list" /\ UNCHANGED todo
           ELSE mueAt' = "next" /\ todo' = Tail(todo)
  /\ UNCHANGED <<found, only, mueLines, ueLines, owner, level, files, mueFile>>

MueDone ==
  /\ mueAt = "next" /\ todo = <<>>
  /\ mueAt' = "done"
  /\ UNCHANGED <<found, only, todo, mueLines, ueLines, owner, level, files, mueFile, rows>>

(* sysfs_get_ue_list(u, l) is called.                                       *)
CallUeList(u, l) == owner' = u /\ level' = l /\ mueAt' = "ue_list"

OpenMueList(f) ==
  /\ mueAt = "mue_list"
  /\ mueLines' = f
  /\ files' = Append(files, [of |-> Head(todo), lines |-> f])
  /\ mueFile' = Len(files')
  /\ mueAt' = "mue"
  /\ UNCHANGED <<found, only, todo, ueLines, owner, level, rows>>

(* The file cannot be opened, or it has been read to its end.               *)
MueListEnds ==
  /\ mueAt = "mue_list" \/ (mueAt = "mue" /\ mueLines = <<>>)
  /\ CallUeList(Head(todo), 0)
  /\ UNCHANGED <<found, only, todo, mueLines, ueLines, files, mueFile, rows>>

(* Mutant: an entity that the scan did not find is passed over.             *)
Rest_PassesOver(s) == Tail(s)

(* Behind a line: a syntax error is passed over, a number that the scan did *)
(* not find ends the list.                                                  *)
Rest(s) ==
  IF Head(s) = SyntaxError \/ Known(Head(s)) THEN Tail(s) ELSE <<>>

MueLine ==
  /\ mueAt = "mue" /\ mueLines # <<>>
  /\ mueLines' = Rest(mueLines)
  /\ IF Known(Head(mueLines))
     THEN /\ rows' = Append(rows, RowOf(Head(mueLines), "its_mue", mueFile))
          /\ CallUeList(Head(mueLines), 1)
     ELSE UNCHANGED <<rows, owner, level, mueAt>>
  /\ UNCHANGED <<found, only, todo, ueLines, files, mueFile>>

OpenUeList(f) ==
  /\ mueAt = "ue_list"
  /\ ueLines' = f
  /\ files' = Append(files, [of |-> owner, lines |-> f])
  /\ mueAt' = "ue"
  /\ UNCHANGED <<found, only, todo, mueLines, owner, level, mueFile, rows>>

UeLine ==
  /\ mueAt = "ue" /\ ueLines # <<>>
  /\ ueLines' = Rest(ueLines)
  /\ rows' = IF Known(Head(ueLines))
             THEN Append(rows, RowOf(Head(ueLines), "its_ue", Len(files)))
             ELSE rows
  /\ UNCHANGED <<found, only, todo, mueLines, owner, level, files, mueFile, mueAt>>

(* Back in sysfs_get_mue_list, or in show_mue_ue_list.                      *)
UeListEnds ==
  /\ mueAt = "ue_list" \/ (mueAt = "ue" /\ ueLines = <<>>)
  /\ IF level = 1
     THEN mueAt' = "mue" /\ UNCHANGED todo
     ELSE mueAt' = "next" /\ todo' = Tail(todo)
  /\ UNCHANGED <<found, only, mueLines, ueLines, owner, level, files, mueFile, rows>>

MueStep ==
  \/ SkipUent \/ ShowRole \/ MueLine \/ MueListEnds \/ UeLine \/ UeListEnds \/ MueDone
  \/ \E f \in ListFiles : OpenMueList(f) \/ OpenUeList(f)

----------------------------------------------------------------------------
Roles == {"primary", "pool", "mue", "ue", "its_mue", "its_ue"}
ListLines == Seq(Nat \cup {SyntaxError})

MueTypeOK ==
  /\ found \in Seq(Uent) /\ only \in Nat /\ todo \in Seq(Uent)
  /\ mueLines \in ListLines /\ ueLines \in ListLines
  /\ owner \in Uent \cup {0} /\ level \in {0, 1}
  /\ files \in Seq([of : Uent, lines : ListLines]) /\ mueFile \in 0 .. Len(files)
  /\ rows \in Seq([uent : Uent, role : Roles, file : 0 .. Len(files)])
  /\ mueAt \in {"none", "next", "mue_list", "mue", "ue_list", "ue", "done"}

(* The elements of s that are in S, in their order.                         *)
Picks(t, e, S) == IF e \in S THEN Append(t, e) ELSE t

Picked(s, S) ==
  LET upTo[n \in 0 .. Len(s)] ==
        IF n = 0 THEN <<>> ELSE Picks(upTo[n - 1], s[n], S)
  IN upTo[Len(s)]

Uents(s) == [n \in DOMAIN s |-> s[n].uent]

(* What a list shows: the entities named before the first one that the scan *)
(* did not find.                                                            *)
Unknown(x) == x # SyntaxError /\ ~Known(x)

AllKnown(f, n) == \A m \in 1 .. n : ~Unknown(f[m])

Shows(f) ==
  LET end == CHOOSE n \in 0 .. Len(f) :
               AllKnown(f, n) /\ (n < Len(f) => Unknown(f[n + 1]))
  IN Picked(SubSeq(f, 1, end), Nat)

Under(n) == Uents(Picked(rows, [uent : Nat, role : Roles, file : {n}]))

(* The entities that -l selects.                                            *)
Asked == {u \in Uent : u = only \/ (only = 0 /\ Role(u) = "primary")}

(* Each entity that -l selects is shown once, and under it and its mues the *)
(* whole of every list up to a number the scan did not find, in order:      *)
(* reading one ue_list within a mue_list disturbs neither.                  *)
ListsShownExactly ==
  mueAt = "done" /\ found # <<>> =>
    /\ Under(0) = Picked(found, Asked)
    /\ \A n \in DOMAIN files : Under(n) = Shows(files[n].lines)
=============================================================================
