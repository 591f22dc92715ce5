---------------------------- MODULE RoutesProofs ----------------------------
(****************************************************************************)
(* What lsub -r reads for every number of ports and entries, every cna and  *)
(* every width of the registers.                                            *)
(****************************************************************************)
EXTENDS Routes, TLAPS

USE WidthAssumption

----------------------------------------------------------------------------
(* Arithmetic.                                                              *)

LEMMA ProductGrows ==
  ASSUME NEW a \in Nat, NEW b \in Nat, NEW c \in Nat, NEW d \in Nat, a <= b, c <= d
  PROVE  a * c <= b * d
<1>1. a * c <= b * c
  OBVIOUS
<1>2. b * c <= b * d
  OBVIOUS
<1> QED
  BY <1>1, <1>2

LEMMA Division ==
  ASSUME NEW a \in Nat, NEW b \in Nat \ {0}
  PROVE  a \div b \in Nat /\ b * (a \div b) <= a /\ a < b * (a \div b) + b
  OBVIOUS

LEMMA QuotientGrows ==
  ASSUME NEW a \in Nat, NEW b \in Nat, NEW c \in Nat \ {0}, a <= b
  PROVE  a \div c <= b \div c
<1> DEFINE p == a \div c
           q == b \div c
<1>1. p \in Nat /\ q \in Nat /\ c * p <= a /\ b < c * q + c
  BY Division
<1> HIDE DEF p, q
<1>2. CASE p > q
  <2>1. c * (q + 1) <= c * p
    BY <1>1, <1>2, ProductGrows
  <2> QED
    BY <1>1, <2>1
<1> QED
  BY <1>1, <1>2 DEF p, q

----------------------------------------------------------------------------
Widest == (RegLimit - 2) \div PortsPerWord + 1

(* The width of an entry on an entity with ports: enough bits, and no wrap. *)
LEMMA Width ==
  ASSUME NEW n \in 1 .. RegLimit - 1
  PROVE  EBW(n) \in 1 .. Widest /\ n <= EBW(n) * PortsPerWord
<1>1. n - 1 \in Nat /\ n - 1 <= RegLimit - 2 /\ RegLimit - 2 \in Nat
  OBVIOUS
<1>2. n - 1 < Word /\ Word \in Nat \ {0}
  BY RoomAssumption
<1>3. (n - 1) % Word = n - 1
  BY <1>1, <1>2
<1>4. EBW(n) = (n - 1) \div PortsPerWord + 1
  BY <1>3 DEF EBW
<1> DEFINE q == (n - 1) \div PortsPerWord
<1>5. q \in Nat /\ n - 1 < PortsPerWord * q + PortsPerWord
  BY <1>1, Division
<1>6. q <= (RegLimit - 2) \div PortsPerWord /\ (RegLimit - 2) \div PortsPerWord \in Nat
  BY <1>1, QuotientGrows, Division
<1>7. EBW(n) = q + 1
  BY <1>4
<1> HIDE DEF q
<1>8. (q + 1) * PortsPerWord = PortsPerWord * q + PortsPerWord
  BY <1>5
<1> QED
  BY <1>5, <1>6, <1>7, <1>8 DEF Widest

(* Where the entry of a cna is, and that it does not wrap.                  *)
LEMMA Address ==
  ASSUME NEW n \in 1 .. RegLimit - 1, NEW c \in 0 .. RegLimit - 2
  PROVE  /\ EntryAt(n, c) = DefaultAt + (c + 1) * EBW(n)
         /\ (c + 1) * EBW(n) \in Nat
         /\ EntryAt(n, c) + EBW(n) <= SliceLen
<1> DEFINE w == EBW(n)
<1>1. w \in Nat /\ w <= Widest /\ Widest \in Nat /\ w > 0
  <2>1. w \in 1 .. Widest
    BY Width
  <2>2. Widest \in Nat
    BY Division DEF Widest
  <2> HIDE DEF w
  <2> QED
    BY <2>1, <2>2
<1>2. RegLimit * Widest < Word /\ DefaultAt + RegLimit * Widest <= SliceLen
  BY RoomAssumption DEF Widest
<1>3. EntryAt(n, c) = DefaultAt + (((c + 1) * w) % Word)
  BY DEF EntryAt
<1> HIDE DEF w
<1>4. (c + 1) * w + w = (c + 2) * w /\ (c + 1) * w \in Nat
  BY <1>1
<1>5. (c + 2) * w <= RegLimit * Widest /\ RegLimit * Widest \in Nat
  BY <1>1, ProductGrows
<1>6. (c + 1) * w < Word
  BY <1>1, <1>2, <1>4, <1>5
<1> DEFINE a == (c + 1) * w
<1>7. a \in Nat /\ a < Word /\ a + w <= RegLimit * Widest
  BY <1>4, <1>5, <1>6
<1>8. EntryAt(n, c) = DefaultAt + (a % Word)
  BY <1>3
<1> HIDE DEF a
<1>9. a % Word = a
  BY <1>7
<1>10. EntryAt(n, c) = DefaultAt + a /\ a + w <= RegLimit * Widest
  BY <1>7, <1>8, <1>9
<1>11. DefaultAt + a + w <= SliceLen
  BY <1>1, <1>2, <1>5, <1>7, <1>10
<1> QED
  BY <1>7, <1>10, <1>11 DEF w, a

(* Two entries of one table have no double word in common.                  *)
LEMMA EntriesApart ==
  ASSUME NEW n \in 1 .. RegLimit - 1,
         NEW c \in 0 .. RegLimit - 2, NEW d \in 0 .. RegLimit - 2, c < d
  PROVE  Apart(Entry(n, c), Entry(n, d)) /\ Apart(Entry(n, d), Entry(n, c))
<1> DEFINE w == EBW(n)
<1>1. w \in Nat
  BY Width
<1>2. /\ EntryAt(n, c) = DefaultAt + (c + 1) * w
      /\ EntryAt(n, d) = DefaultAt + (d + 1) * w
  BY Address
<1>3. Entry(n, c).len = w /\ Entry(n, c).at = EntryAt(n, c) /\ Entry(n, d).at = EntryAt(n, d)
  BY DEF Entry
<1> HIDE DEF w
<1>4. (c + 1) * w + w = (c + 2) * w /\ (c + 2) * w <= (d + 1) * w
  BY <1>1, ProductGrows
<1>5. (c + 1) * w \in Nat /\ (d + 1) * w \in Nat
  BY <1>1
<1>6. EntryAt(n, c) + w <= EntryAt(n, d)
  BY <1>1, <1>2, <1>4, <1>5
<1> QED
  BY <1>3, <1>6 DEF Apart

----------------------------------------------------------------------------
(* What has been read is the default table or the entry asked for, of an    *)
(* entity that has an entry for the cna.                                    *)
TablesRead ==
  /\ tables \subseteq {DefaultTable(portNums), Entry(portNums, routeReq.cna)}
  /\ rt \in {"none", "support", "ports", "entries"} => tables = {}
  /\ rt \in {"default", "exact"} \/ tables # {} => routeReq.cna < entryNum

LEMMA TablesTyped ==
  ASSUME NEW n \in 0 .. RegLimit - 1, NEW c \in Nat
  PROVE  /\ DefaultTable(n) \in [of : {"default", "entry"}, at : Nat, len : Nat]
         /\ Entry(n, c) \in [of : {"default", "entry"}, at : Nat, len : Nat]
<1>1. Word \in Nat \ {0}
  BY RoomAssumption
<1>2. (n - 1) % Word \in Nat
  BY <1>1
<1>3. EBW(n) \in Nat
  <2> DEFINE m == (n - 1) % Word
  <2>1. EBW(n) = m \div PortsPerWord + 1
    BY DEF EBW
  <2> HIDE DEF m
  <2>2. m \in Nat
    BY <1>2 DEF m
  <2> QED
    BY <2>1, <2>2, Division
<1>4. (c + 1) * EBW(n) \in Nat
  BY <1>3
<1>5. EntryAt(n, c) \in Nat
  BY <1>1, <1>4 DEF EntryAt
<1> QED
  BY <1>3, <1>5 DEF DefaultTable, Entry

LEMMA InitRoutes == RoutesInit => RoutesTypeOK /\ TablesRead
  BY DEF RoutesInit, RoutesTypeOK, TablesRead, NoRoute

LEMMA StepRoutes ==
  RoutesTypeOK /\ TablesRead /\ [RoutesNext]_routeVars => RoutesTypeOK' /\ TablesRead'
<1> SUFFICES ASSUME RoutesTypeOK, TablesRead, [RoutesNext]_routeVars
             PROVE  RoutesTypeOK' /\ TablesRead'
  OBVIOUS
<1> USE DEF RoutesTypeOK, TablesRead, Continue, routeVars
<1>1. ASSUME NEW k \in BOOLEAN, NEW c \in Nat, ShowRouteTbl([known |-> k, cna |-> c])
      PROVE  RoutesTypeOK' /\ TablesRead'
  BY <1>1 DEF ShowRouteTbl
<1>2. CASE GiveUpRoutes
  BY <1>2 DEF GiveUpRoutes
<1>3. CASE Supported
  BY <1>3 DEF Supported
<1>4. CASE ReadPortNums
  BY <1>4 DEF ReadPortNums
<1>5. CASE ReadEntryNum
  BY <1>5 DEF ReadEntryNum, InTable
<1>6. CASE ShowDefaultRouteTbl
  <2>1. DefaultTable(portNums) \in [of : {"default", "entry"}, at : Nat, len : Nat]
    BY TablesTyped
  <2>2. /\ UNCHANGED <<routeReq, portNums, entryNum>>
        /\ tables' \subseteq tables \cup {DefaultTable(portNums)}
        /\ routeReq.cna < entryNum
        /\ rt' \in {"exact", "done"}
    BY <1>6 DEF ShowDefaultRouteTbl
  <2> QED
    BY <2>1, <2>2
<1>7. CASE ShowExactRouteTbl
  <2>1. Entry(portNums, routeReq.cna) \in [of : {"default", "entry"}, at : Nat, len : Nat]
    BY TablesTyped
  <2>2. /\ UNCHANGED <<routeReq, portNums, entryNum>>
        /\ tables' \subseteq tables \cup {Entry(portNums, routeReq.cna)}
        /\ routeReq.cna < entryNum
        /\ rt' \in {"exact", "done"}
    BY <1>7 DEF ShowExactRouteTbl
  <2> QED
    BY <2>1, <2>2
<1>8. CASE UNCHANGED routeVars
  BY <1>8
<1> QED
  BY <1>1, <1>2, <1>3, <1>4, <1>5, <1>6, <1>7, <1>8 DEF RoutesNext, RouteStep

LEMMA ReadsExact == RoutesTypeOK /\ TablesRead => RouteReadsExact
<1> SUFFICES ASSUME RoutesTypeOK, TablesRead, portNums # 0, NEW t \in tables
             PROVE  /\ t.at + t.len <= SliceLen
                    /\ portNums <= t.len * PortsPerWord
                    /\ t.of = "entry" =>
                         /\ Apart(t, DefaultTable(portNums))
                         /\ \A c \in 0 .. entryNum - 1 :
                              c # routeReq.cna => Apart(t, Entry(portNums, c))
  BY DEF RouteReadsExact
<1> DEFINE n == portNums
           cna == routeReq.cna
           w == EBW(n)
<1>1. n \in 1 .. RegLimit - 1 /\ cna \in Nat /\ cna < entryNum /\ entryNum \in 0 .. RegLimit - 1
  BY DEF RoutesTypeOK, TablesRead
<1>2. cna \in 0 .. RegLimit - 2 /\ \A c \in 0 .. entryNum - 1 : c \in 0 .. RegLimit - 2
  BY <1>1
<1>3. w \in Nat \ {0} /\ n <= w * PortsPerWord
  BY <1>1, Width
<1>4. CASE t = DefaultTable(n)
  <2>1. t.of = "default" /\ t.at = DefaultAt /\ t.len = w
    BY <1>4 DEF DefaultTable
  <2>2. EntryAt(n, 0) = DefaultAt + (0 + 1) * w /\ EntryAt(n, 0) + w <= SliceLen
    BY <1>1, <1>2, Address
  <2>3. DefaultAt + w <= SliceLen
    BY <1>3, <2>2
  <2> QED
    BY <1>3, <2>1, <2>3
<1>5. CASE t = Entry(n, cna)
  <2>1. t.at = EntryAt(n, cna) /\ t.len = w
    BY <1>5 DEF Entry
  <2>2. /\ EntryAt(n, cna) = DefaultAt + (cna + 1) * w
        /\ EntryAt(n, cna) + w <= SliceLen
    BY <1>1, <1>2, Address
  <2>3. Apart(t, DefaultTable(n))
    <3>1. 1 * w <= (cna + 1) * w
      BY <1>1, <1>3, ProductGrows
    <3>2. DefaultAt + w <= t.at
      BY <1>1, <1>3, <2>1, <2>2, <3>1
    <3> QED
      BY <2>1, <3>2 DEF Apart, DefaultTable
  <2>4. ASSUME NEW c \in 0 .. entryNum - 1, c # cna
        PROVE  Apart(t, Entry(n, c))
    <3>1. c < cna \/ cna < c
      BY <1>1, <2>4
    <3> QED
      BY <1>1, <1>2, <1>5, <3>1, EntriesApart
  <2> QED
    BY <1>3, <2>1, <2>2, <2>3, <2>4
<1> QED
  BY <1>4, <1>5 DEF TablesRead

(* The routing table read, for every cna that the table has: on an entity   *)
(* with ports nothing outside the slice, nothing of another's entry and all *)
(* of the one asked for.                                                    *)
THEOREM RouteIsExact == RoutesSpec => []RouteReadsExact
  BY InitRoutes, StepRoutes, ReadsExact, PTL DEF RoutesSpec
=============================================================================
