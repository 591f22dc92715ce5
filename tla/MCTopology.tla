----------------------------- MODULE MCTopology -----------------------------
(* Small fabrics for TLC. *)
EXTENDS Topology, FiniteSets

(* Every way of cabling the ports of S that are still free, given c. *)
RECURSIVE Matchings(_, _)
Matchings(c, S) ==
  IF S = {} THEN {c}
  ELSE LET x == CHOOSE y \in S : TRUE
       IN Matchings(c, S \ {x}) \cup
          UNION {Matchings([c EXCEPT ![x] = y, ![y] = x], S \ {x, y}) :
                   y \in {z \in S : z[1] # x[1]}}

AllCablings == Matchings([x \in Port |-> NoPort], Port)

(* Those that leave one cable's ports free at most. *)
DenseCablings == {c \in AllCablings : Cardinality({x \in Port : c[x] = NoPort}) <= 2}

=============================================================================
