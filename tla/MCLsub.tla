------------------------------- MODULE MCLsub -------------------------------
(****************************************************************************)
(* A few entities, command lines for each command, and small ID databases:  *)
(* every file of up to two lines of an alphabet, and longer ones that use   *)
(* what a line leaves to the next.  The hash is the code's own.             *)
(****************************************************************************)
EXTENDS Lsub

L(nest, tag, id, name) == [nest |-> nest, tag |-> tag, id |-> id, name |-> name]

V1 == L(0, "V", 1, "v1")
D1 == L(1, "4", 1, "d1")
S3 == L(2, "4+4", 3, "s3")
D2 == L(1, "4", 2, "d2")
C0 == L(0, "C", 0, "c0")
C1 == L(0, "C", 1, "c1")
U0 == L(1, "2", 0, "c00")
U80 == L(1, "2", 80, "c1x")
P3 == L(2, "2", 3, "p3")
W1 == L(0, "S", 1, "")
X0 == L(0, "X", 0, "")
Hash0 == L(0, "#", 0, "")
Long == L(0, "long", 0, "")
Wrong == L(0, "?", 0, "")
NoName == L(1, "4", 1, "")

Alphabet == {V1, D1, C0, U0, U80, W1, X0, Hash0, Long, Wrong, NoName}

MCFiles ==
  BoundedSeq(Alphabet, 2) \cup
  {<<V1, D1, S3, D2>>, <<V1, D1, L(0, "V", 1, "w1"), D2>>,
   <<V1, W1, L(1, "4", 2, "d2"), V1>>, <<W1, V1>>, <<C0, W1, V1, W1, D1>>,
   <<C0, U0, P3, L(1, "2", 80, "c0x")>>, <<C0, P3, C1, U80>>, <<C0, Hash0, U0>>,
   <<C1, X0, U80, C0, U0>>, <<C1, U80, P3, C0>>, <<C1, U80, P3, L(2, "2", 4, "p4"), C1>>,
   <<C0, U0, C1, U80>>,
   <<C1, L(1, "2", 255, "c1all"), U80>>, <<X0, D1, V1>>}

(* Entities 1 and 3 are of one kind, so their name is asked for twice.      *)
Kind1 == [vendor |-> 1, device |-> 1, base |-> 1, sub |-> 80]
Kind2 == [vendor |-> 1, device |-> 2, base |-> 0, sub |-> 0]
MCIdOf == <<Kind1, Kind2, Kind1>>
MCQuery == {Kind1, Kind2}

(* id_pair, and id_hash over the numbers of the category, 4099 buckets.     *)
Pair(x, y) == x * 65536 + y
CatNumber == [unset |-> 0, unknown |-> 0, vendor |-> 1, device |-> 2, subsystem |-> 3,
              gen_subsystem |-> 4, class |-> 5, subclass |-> 6, progif |-> 7]
Bit(x, n) == (x \div 2^n) % 2
Xor(x, y) ==
  LET low[n \in 0 .. 31] ==
        IF n = 0 THEN 0
        ELSE low[n - 1] + 2^(n - 1) * ((Bit(x, n - 1) + Bit(y, n - 1)) % 2)
  IN low[31]
IdHash(k) ==
  Xor(Xor(Pair(k.vendor, k.device), Pair(k.subsys, 0) * 8),
      Xor(Pair(k.base, k.sub) * 32, CatNumber[k.cat] * 128)) % 4099

(* Tabulated (by @@) for the keys that the files and queries above lead to. *)
HashOf ==
  [k \in [cat : Cats, vendor : {0, 1}, device : {0, 1, 2, 80, 255},
          subsys : {0, 3, 4}, base : {0, 1}, sub : {0, 80, 255}] |-> IdHash(k)]
    @@ <<>>
MCHash(k) == HashOf[k]

----------------------------------------------------------------------------
(* Entity 1 is a primary with the mue 2, entity 3 is an ue of it.           *)
MCInfo ==
  << [idx |-> 0, primary |-> 1, mue |-> TRUE],
     [idx |-> 1, primary |-> 1, mue |-> TRUE],
     [idx |-> 2, primary |-> 3, mue |-> FALSE] >>
MCListFiles ==
  {<<>>, <<SyntaxError, 3>>, <<2, 9, 3>>, <<3, 2>>, <<2>>}

F(o) == [opt |-> o]
E(u) == [opt |-> "e", uent |-> u]
R(c) == [opt |-> "r", cna |-> c]
Bad(o) == [opt |-> o, refused |-> TRUE]

MCCommandLines ==
  {<<>>, <<F("i"), F("k")>>, <<F("n"), E(2)>>, <<F("h")>>,
   <<R(0), E(1)>>, <<E(2), R(1), F("l")>>, <<E(9), R(2)>>, <<R(3)>>, <<R(8), E(1)>>, 
   <<F("l")>>, <<F("l"), E(2)>>, <<F("b"), F("l"), E(3)>>, <<F("l"), F("t")>>,
   <<F("v"), F("b")>>, <<F("b"), F("E")>>, <<F("n"), F("X")>>,
   <<Bad("e"), F("l")>>, <<E(1), Bad("r")>>, <<F("s"), F("p"), F("x")>>}
=============================================================================
