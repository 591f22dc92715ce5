------------------------------- MODULE Routes --------------------------------
(****************************************************************************)
(* "lsub -r <cna> -e <entity>": the routing table of an entity is read from *)
(* its own slice of the configuration space, at addresses computed from the *)
(* entity's number of ports and the cna.  Addresses count double words from *)
(* the start of that slice.  What the registers hold is the entity's        *)
(* choice; each read may fail.                                              *)
(****************************************************************************)
EXTENDS Integers

CONSTANTS
  RegLimit,      \* a register of 16 bits holds less: 2^16
  Word,          \* unsigned int wraps here: 2^32
  PortsPerWord,  \* CFG_DWORD_LEN in bits: 32
  DefaultAt,     \* ROUTE_TBL_DEFAULT_ROUTE_TBL: 0x10
  SliceLen       \* length of ROUTE_TABLE, 0xF000_0000 to 0xFFFF_FFFF

ASSUME WidthAssumption ==
  /\ RegLimit \in Nat \ {0, 1} /\ PortsPerWord \in Nat \ {0}
  /\ DefaultAt \in Nat /\ SliceLen \in Nat /\ Word \in Nat

(* The code's values give 2^16 * 2^11 + 16 at most.                         *)
ASSUME RoomAssumption ==
  LET widest == (RegLimit - 2) \div PortsPerWord + 1
  IN /\ RegLimit * widest < Word /\ RegLimit <= Word
     /\ DefaultAt + RegLimit * widest <= SliceLen

VARIABLES
  routeReq,  \* [known, cna]: is -e an entity of the scan, and the argument of -r
  portNums,  \* CFG0_PORT_NUMBER as read
  entryNum,  \* ROUTE_TBL_NUM_OF_TLB_ENTRY as read
  tables,    \* history: the stretches of the slice that were read
  rt         \* the next register or table, or "done"

routeVars == <<routeReq, portNums, entryNum, tables, rt>>

NoRoute == [known |-> FALSE, cna |-> 0]

RoutesInit ==
  /\ routeReq = NoRoute
  /\ portNums = 0 /\ entryNum = 0 /\ tables = {}
  /\ rt = "none"

(* Mutant: the last, partly filled double word is not counted.              *)
EBW_Short(n) == IF n < PortsPerWord THEN 1 ELSE n \div PortsPerWord

(* ROUTE_TBL_ROUTE_TBL_EBW: one bit per port, in whole double words.  With  *)
(* no ports the subtraction wraps.                                          *)
EBW(n) == ((n - 1) % Word) \div PortsPerWord + 1

(* Mutant: the entry of cna 0 is where the default table is.                *)
EntryAt_OnDefault(n, cna) == DefaultAt + ((cna * EBW(n)) % Word)

(* ROUTE_TBL_ROUTE_TBL_ENTRY.                                               *)
EntryAt(n, cna) == DefaultAt + (((cna + 1) * EBW(n)) % Word)

DefaultTable(n) == [of |-> "default", at |-> DefaultAt, len |-> EBW(n)]
Entry(n, cna) == [of |-> "entry", at |-> EntryAt(n, cna), len |-> EBW(n)]

----------------------------------------------------------------------------
(* show_route_tbl: without an entity nothing is shown.                      *)
ShowRouteTbl(req) ==
  /\ rt = "none"
  /\ routeReq' = req
  /\ rt' = IF req.known THEN "support" ELSE "done"
  /\ UNCHANGED <<portNums, entryNum, tables>>

Continue(at) == rt' = at /\ UNCHANGED routeReq

(* A register cannot be read, or says that there is no routing table.       *)
GiveUpRoutes ==
  /\ rt \in {"support", "ports", "entries"}
  /\ Continue("done")
  /\ UNCHANGED <<portNums, entryNum, tables>>

Supported ==
  /\ rt = "support"
  /\ Continue("ports")
  /\ UNCHANGED <<portNums, entryNum, tables>>

ReadPortNums ==
  /\ rt = "ports"
  /\ portNums' \in 0 .. RegLimit - 1
  /\ Continue("entries")
  /\ UNCHANGED <<entryNum, tables>>

InTable(cna, n) == cna < n

ReadEntryNum ==
  /\ rt = "entries"
  /\ entryNum' \in 0 .. RegLimit - 1
  /\ Continue(IF InTable(routeReq.cna, entryNum') THEN "default" ELSE "done")
  /\ UNCHANGED <<portNums, tables>>

(* show_default_route_tbl; whatever goes wrong in it, the exact table comes *)
(* next.                                                                    *)
ShowDefaultRouteTbl ==
  /\ rt = "default"
  /\ tables' \in {tables, tables \cup {DefaultTable(portNums)}}
  /\ Continue("exact")
  /\ UNCHANGED <<portNums, entryNum>>

(* show_exact_route_tbl, which reads the entry only if the two bits that    *)
(* say so could be read and are set.                                        *)
ShowExactRouteTbl ==
  /\ rt = "exact"
  /\ tables' \in {tables, tables \cup {Entry(portNums, routeReq.cna)}}
  /\ Continue("done")
  /\ UNCHANGED <<portNums, entryNum>>

RouteStep ==
  \/ GiveUpRoutes \/ Supported \/ ReadPortNums \/ ReadEntryNum
  \/ ShowDefaultRouteTbl \/ ShowExactRouteTbl

RoutesNext ==
  \/ \E k \in BOOLEAN, c \in Nat : ShowRouteTbl([known |-> k, cna |-> c])
  \/ RouteStep

RoutesSpec == RoutesInit /\ [][RoutesNext]_routeVars

----------------------------------------------------------------------------
RoutesTypeOK ==
  /\ routeReq \in [known : BOOLEAN, cna : Nat]
  /\ portNums \in 0 .. RegLimit - 1 /\ entryNum \in 0 .. RegLimit - 1
  /\ tables \subseteq [of : {"default", "entry"}, at : Nat, len : Nat]
  /\ rt \in {"none", "support", "ports", "entries", "default", "exact", "done"}

Apart(a, b) == a.at + a.len <= b.at \/ b.at + b.len <= a.at

(* What is read belongs to the table asked for: on an entity with ports it  *)
(* lies inside the slice (lsub.h:60), the entry of one cna shares no double *)
(* word with the default table or the entry of another, and its bits are    *)
(* enough for all ports.                                                    *)
RouteReadsExact ==
  portNums # 0 =>
    \A t \in tables :
      /\ t.at + t.len <= SliceLen
      /\ portNums <= t.len * PortsPerWord
      /\ t.of = "entry" =>
           /\ Apart(t, DefaultTable(portNums))
           /\ \A c \in 0 .. entryNum - 1 :
                c # routeReq.cna => Apart(t, Entry(portNums, c))
=============================================================================
