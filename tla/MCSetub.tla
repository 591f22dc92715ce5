------------------------------ MODULE MCSetub ------------------------------
(****************************************************************************)
(* Command lines for setub, and the configuration spaces they work on.      *)
(****************************************************************************)
EXTENDS Setub

At(u, p, w, v) == [opt |-> "s", uent |-> u, position |-> p, width |-> w, value |-> v]
Arg(o, a) == [opt |-> o, arg |-> a]

LinesOver(options, max) == UNION {[1 .. n -> options] : n \in 1 .. max}

(* Reads and writes of overlapping registers of two entities, up to the     *)
(* last byte; the unaligned, the too large and the malformed ones.          *)
Overlapping ==
  {At(u, r[1], r[2], v) : u \in {1, 2}, r \in {<<4, 4>>, <<6, 2>>, <<7, 1>>},
                          v \in {Absent, 1}}
    \cup {At(1, 6, 2, 3), At(1, 6, 4, Absent)}

SlotChoices ==
  Overlapping
    \cup {At(1, 4, 4, 10), At(1, 6, 2, 4), At(1, 7, 1, 2),
          At(1, 7, 2, 1), At(1, 8, 1, Absent),
          At(3, 4, 4, Absent), At(Invalid, 4, 4, 1), At(1, 4, Invalid, 1),
          At(1, Absent, Invalid, Absent)}

SlotLines == LinesOver(SlotChoices, 2) \cup LinesOver(Overlapping, 3)

InstanceChoices ==
  {Arg("b", op) : op \in {CREATE, DESTROY, BIND, UNBIND, Invalid}}
    \cup {Arg(o, g) : o \in {"g", "d"}, g \in {1, 2, Invalid}}
    \cup {Arg("e", 5), Arg("u", 7), [opt |-> "h"],
          At(1, 4, 4, 1), At(1, 6, 4, 1)}

(* Three options of any kind, and four different ones in every order.       *)
InstanceLines ==
  LinesOver(InstanceChoices, 3)
    \cup {c \in [1 .. 4 -> InstanceChoices] : \A i, j \in 1 .. 4 : c[i].opt = c[j].opt => i = j}

AllLines == SlotLines \cup InstanceLines

OneEntityLines ==
  {c \in SlotLines : \A i \in DOMAIN c : c[i].uent = 1}

(* Every byte of every space tells where it is.                             *)
Contents == [u \in Uent |-> [a \in Address |-> (u + a + (a \div 2)) % Base]]
=============================================================================
