---------------------------- MODULE ParentMarking ----------------------------
(****************************************************************************)
(* What the passes of preset_all_uent_par promise, without lists, passes    *)
(* and flags: on a graph built beforehand, marked nodes mark neighbours, as *)
(* many at a time as they like, and marking is over only when no neighbour  *)
(* of a marked node is left.                                                *)
(****************************************************************************)
CONSTANT Node

VARIABLES
  graph,   \* the edges over which a mark is passed on
  marked,  \* the nodes marked
  stage    \* "build", "mark", or "fixed" when nothing more can be marked

vars == <<graph, marked, stage>>

Init == graph = {} /\ marked = {} /\ stage = "build"

(* The graph is built, and the nodes to start from are chosen.              *)
Build ==
  /\ stage = "build"
  /\ graph' \subseteq Node \X Node /\ marked' \subseteq Node
  /\ stage' \in {"build", "mark"}

Mark(u) ==
  /\ stage = "mark" /\ u \in marked
  /\ marked \subseteq marked'
  /\ \A e \in marked' \ marked : <<u, e>> \in graph
  /\ UNCHANGED <<graph, stage>>

Fix ==
  /\ stage = "mark"
  /\ \A x \in graph : x[1] \in marked => x[2] \in marked
  /\ stage' = "fixed"
  /\ UNCHANGED <<graph, marked>>

(* What was built is taken down.                                            *)
Clear ==
  /\ stage = "fixed"
  /\ stage' = "build"
  /\ UNCHANGED <<graph, marked>>

Next == Build \/ (\E u \in Node : Mark(u)) \/ Fix \/ Clear

Spec == Init /\ [][Next]_vars
=============================================================================
