------------------------------ MODULE Printers ------------------------------
(****************************************************************************)
(* How "lsub -v" reads a slice of a configuration space and which of its    *)
(* registers it prints: the basic slice of each space, from a table that    *)
(* ends where the slice does, and the capabilities, each with a printer     *)
(* that first asks whether the slice is long enough.                        *)
(*                                                                          *)
(* Registers are double-words, numbered from the start of the slice; what   *)
(* they hold is left out, except for the size in the header and the number  *)
(* of slots of SHP.  data_buf records which slice each of its words is of.  *)
(****************************************************************************)
EXTENDS Integers, FiniteSetsExt

CONSTANTS
  Selected, \* slices that may be selected
  Sizes,    \* sizes that a header may hold
  Slots     \* slot numbers that SHP may hold

DWord == 4                 \* CFG_DWORD_LEN, bytes
BufferLen == 256           \* CFG_SLICE_LEN in double-words
Word == 0 .. BufferLen - 1

ASSUME SizesAssumption == Sizes \subseteq Nat
ASSUME SlotsAssumption == Slots \subseteq 0 .. 2 ^ 16 - 1  \* 16 bits

(* n double-words from a on; who must be "any", "primary" (UBE0) or         *)
(* "controller" (the bus controller) for the register to be printed.        *)
Reg(a, n, w) == [at |-> a, words |-> a .. a + n - 1, who |-> w]

(* cfg0_basic_array.                                                        *)
Cfg0Basic ==
  {Reg(r[1], r[2], "any") : r \in
     {<<1, 1>>, <<2, 8>>, <<10, 4>>, <<14, 4>>, <<18, 4>>, <<22, 4>>, <<26, 1>>,
      <<31, 1>>, <<32, 1>>, <<35, 1>>, <<36, 1>>, <<39, 4>>, <<43, 1>>}}
    \cup {Reg(33, 1, "primary"), Reg(38, 1, "primary"), Reg(37, 1, "controller")}

(* cfg1_ers looks at the system page size, the start address and the UBA,   *)
(* far behind the size of the region; the entity is one that supports them. *)
Ers(k) == [at |-> 13 + k,
           words |-> {13 + k, 33} \cup 16 + 2 * k .. 17 + 2 * k \cup 22 + 2 * k .. 23 + 2 * k,
           who |-> "any"]

Cfg1Basic ==
  {Reg(r[1], r[2], "any") : r \in
     {<<1, 8>>, <<9, 4>>, <<28, 2>>, <<33, 1>>, <<41, 1>>, <<45, 1>>, <<46, 1>>, <<47, 1>>}}
    \cup {Ers(k) : k \in 0 .. 2}
    \cup {Reg(34, 2, "controller"), Reg(36, 1, "controller")}

(* The reset looks back at the port type.                                   *)
PortBasic ==
  {Reg(r[1], r[2], "primary") : r \in {<<1, 8>>, <<9, 1>>, <<10, 5>>, <<15, 1>>}}
    \cup {[at |-> 16, words |-> {9, 16}, who |-> "primary"]}

Basic == [cfg0 |-> Cfg0Basic, cfg1 |-> Cfg1Basic, port |-> PortBasic]

(* A printer of a capability: the least data_len in bytes and the least     *)
(* slice_size in double-words with which it goes on after the header, who   *)
(* it prints anything for, and what it reads.                               *)
Cap(bytes, size, who, regs) ==
  [bytes |-> bytes, size |-> size, who |-> who, regs |-> regs]

SHP == <<"cfg0", 2>>

ErrRecord == Cap(DWord * 30, 0, "any", {Reg(18, 12, "primary")})

ErrInfo ==
  Cap(DWord * 49, 0, "any",
      {Reg(16, 1, "any"), Reg(18, 1, "primary"), Reg(19, 1, "any"),
       Reg(20, 28, "any"), Reg(48, 2, "any")})

(* The information of a correctable error, two double-words at 0x13, laps   *)
(* over the consumer pointer at 0x14.                                       *)
Emq ==
  Cap(DWord * 27, 0, "any",
      {Reg(a, 1, "primary") : a \in {2} \cup 4 .. 9 \cup {16, 20, 24}}
        \cup {Reg(a, 1, "any") : a \in {17, 21, 25}}
        \cup {Reg(a, 2, "any") : a \in {19, 22, 26}})

Decoder ==
  Cap(37, 37, "primary",
      {Reg(1, 2, "any"), Reg(3, 5, "controller"), Reg(16, 5, "any"), Reg(32, 5, "any")})

Jetty == Cap(2, 2, "any", {Reg(1, 1, "any")})
IntType1 == Cap(10, 10, "any", {Reg(1, 9, "any")})
IntType2 == Cap(11, 11, "any", {Reg(1, 10, "any")})
UbMem == Cap(2, 2, "controller", {Reg(1, 1, "any")})

(* pl_cap, pl_config and pl_status.                                         *)
LinkCap == {Reg(1, 12, "any"), Reg(32, 3, "any")}
LinkData ==
  {Reg(r[1], r[2], "any") : r \in {<<64, 12>>, <<96, 8>>, <<104, 1>>, <<112, 17>>, <<129, 1>>}}
LinkPhy == {Reg(144, 2, "any"), Reg(148, 7, "any")}
LinkStatus == {Reg(160, 13, "any"), Reg(192, 4, "any"), Reg(198, 1, "any")}
Link == Cap(199, 0, "primary", LinkCap \cup LinkData \cup LinkPhy \cup LinkStatus)

LinkLog == Cap(17, 0, "primary", {Reg(1, 1, "any"), Reg(3, 6, "any"), Reg(10, 1, "any")})
DataRate == Cap(16, 0, "primary", {Reg(1, 2, "any"), Reg(6, 2, "any")})
Qdlws == Cap(4, 4, "primary", {Reg(1, 3, "any")})
LmsmSt == Cap(5, 0, "primary", {Reg(2, 1, "any")})
PortErrRecord == Cap(30, 0, "primary", {Reg(18, 12, "any")})

Capability ==
  {"cfg0"} \X (3 .. 5) \cup {"cfg1"} \X {1, 2, 3, 4, 6}
    \cup {"port"} \X ({1, 2} \cup 4 .. 12 \cup {15, 20, 21})

Printer ==
  [x \in Capability |->
     CASE x = <<"cfg0", 3>> -> ErrRecord
       [] x = <<"cfg0", 4>> -> ErrInfo
       [] x = <<"cfg0", 5>> -> Emq
       [] x = <<"cfg1", 1>> -> Decoder
       [] x = <<"cfg1", 2>> -> Jetty
       [] x = <<"cfg1", 3>> -> IntType1
       [] x = <<"cfg1", 4>> -> IntType2
       [] x = <<"cfg1", 6>> -> UbMem
       [] x = <<"port", 1>> -> Link
       [] x = <<"port", 2>> -> LinkLog
       [] x[1] = "port" /\ x[2] \in 4 .. 12 -> DataRate
       [] x = <<"port", 15>> -> Qdlws
       [] x = <<"port", 20>> -> LmsmSt
       [] x = <<"port", 21>> -> PortErrRecord]

EYE == <<"port", 14>>

Space == <<"cfg0", "cfg1", "port">>
BasicSlice == {<<Space[k], 0>> : k \in DOMAIN Space}
Slice == BasicSlice \cup {SHP, EYE} \cup Capability

ASSUME SelectedAssumption == Selected \subseteq Slice

VARIABLES
  who,       \* what the entity is: "primary" and "controller"
  slice,     \* the slice being read, or the last one; None before the first
  asked,     \* size in the header that slice_read read first
  data_buf,  \* the slice each word of cfg_info.data_buf was read from
  size,      \* size in the header within data_buf
  slot_num,  \* SHP_SLOT_NUM within data_buf
  printed,   \* words printed for the slice
  phase

None == <<"cfg0", -1>>  \* before every slice
Zero == <<"none", 0>>   \* of a word that memset left behind
buffer == <<data_buf, size, slot_num>>
vars == <<who, slice, asked, buffer, printed, phase>>

----------------------------------------------------------------------------
Init ==
  /\ who \in SUBSET {"primary", "controller"}
  /\ slice = None /\ asked = 0
  /\ data_buf = [w \in Word |-> Zero] /\ size = 0 /\ slot_num = 0
  /\ printed = {} /\ phase = "idle"

May(w) == w = "any" \/ w \in who

(* show_slice takes the spaces in turn, each from slice 0 on.               *)
Rank(x) == 1000 * (CHOOSE k \in DOMAIN Space : Space[k] = x[1]) + x[2]

Cleared_Never == data_buf  \* mutant: data_buf is used as the last slice left it
Cleared == [w \in Word |-> Zero]

(* lsub_cfg0_basic, lsub_cfg0_cap, ...: memset before slice_read.           *)
Start(x) ==
  /\ phase = "idle"
  /\ Rank(slice) < Rank(x)
  /\ x[1] = "port" => May("primary")
  /\ slice' = x /\ printed' = {}
  /\ data_buf' = Cleared /\ size' = 0 /\ slot_num' = 0
  /\ phase' = "header"
  /\ UNCHANGED <<who, asked>>

ReadHeader ==
  /\ phase = "header"
  /\ asked' \in Sizes
  /\ phase' = "body"
  /\ UNCHANGED <<who, slice, buffer, printed>>

data_len == DWord * Min({asked, BufferLen})

(* The entity may have changed the header since it was read.                *)
ReadBody ==
  /\ phase = "body"
  /\ data_len > 0
  /\ data_buf' = [w \in Word |-> IF DWord * w < data_len THEN slice ELSE data_buf[w]]
  /\ size' \in Sizes
  /\ slot_num' \in IF slice = SHP /\ data_len > DWord THEN Slots ELSE {slot_num}
  /\ phase' = "print"
  /\ UNCHANGED <<who, slice, asked, printed>>

(* Nothing is copied to data_buf.  A read of length 0 is an error, too.     *)
ReadFails ==
  /\ phase \in {"header", "body"}
  /\ phase' = "idle"
  /\ UNCHANGED <<who, slice, asked, buffer, printed>>

WordsOf(regs) == UNION {r.words : r \in {r \in regs : May(r.who)}}

(* The rows of a table ascend, so that break and skip are the same.         *)
BasicWords == WordsOf({r \in Basic[slice[1]] : DWord * r.at < data_len})

(* Mutant: the room for all slots but the last is asked for.                *)
SlotsFit_AllButLast == slot_num > 0 /\ data_len >= DWord * (16 + (slot_num - 2) * 16)

(* SHP_SLOT_LEN of the last slot.                                           *)
SlotsFit == slot_num > 0 /\ data_len >= DWord * (16 + (slot_num - 1) * 16)

(* Capability, control and status of each slot.                             *)
SlotWords == UNION {2 + 16 * i .. 13 + 16 * i : i \in 0 .. slot_num - 1}

(* Mutant: slice_size is not looked at, only the bytes of data_len.         *)
LongEnough_AnySize(p) == data_len >= p.bytes

LongEnough(p) == data_len >= p.bytes /\ size >= p.size

(* One state per lane from 4 on.                                            *)
EyeWords == {2} \cup 4 .. size - 1
EyeFits == data_len >= 4 /\ size >= 4

(* The words printed after the head, if the printer goes on.                *)
Body(x) ==
  CASE x \in BasicSlice -> BasicWords
    [] x = SHP -> SlotWords
    [] x = EYE -> EyeWords
    [] OTHER -> WordsOf(Printer[x].regs)

GoesOn(x) ==
  CASE x \in BasicSlice -> TRUE
    [] x = SHP -> SlotsFit
    [] x = EYE -> EyeFits
    [] OTHER -> LongEnough(Printer[x])

(* The header, with which the number of slots is printed.                   *)
Heading(x) == IF x = SHP THEN {0, 1} ELSE {0}

PrintSlice ==
  /\ phase = "print"
  /\ printed' =
       IF slice \in Capability /\ ~ May(Printer[slice].who) THEN {}
       ELSE Heading(slice) \cup (IF GoesOn(slice) THEN Body(slice) ELSE {})
  /\ phase' = "idle"
  /\ UNCHANGED <<who, slice, asked, buffer>>

(* show_slice has come to its last slice.                                   *)
Return ==
  /\ phase = "idle"
  /\ phase' = "done"
  /\ UNCHANGED <<who, slice, asked, buffer, printed>>

Done == phase = "done" /\ UNCHANGED vars

Next ==
  \/ (\E x \in Selected : Start(x)) \/ ReadHeader \/ ReadBody \/ ReadFails \/ PrintSlice
  \/ Return \/ Done

Spec == Init /\ [][Next]_vars

----------------------------------------------------------------------------
(* The eye monitor has a lane for every word that its header counts, and    *)
(* cap14_eye_monitor.c:36-55 relies on "The size of SLICE is fixed to 1 KB" *)
(* (lsub.h:170): a header with more is not refused.                         *)
EyeTooLong == slice = EYE /\ size > BufferLen

(* Type invariant.  No printer goes beyond data_buf, however many slots SHP *)
(* says it has (shp.c:107-118) and cap1_link with its registers up to 0xc6  *)
(* included; only the eye monitor does, if its slice is longer than 1 KB.   *)
TypeOK ==
  /\ who \subseteq {"primary", "controller"}
  /\ slice \in Slice \cup {None} /\ asked \in Sizes \cup {0}
  /\ data_buf \in [Word -> Slice \cup {Zero}]
  /\ size \in Sizes \cup {0} /\ slot_num \in Slots \cup {0}
  /\ printed \subseteq Nat /\ (printed \subseteq Word \/ EyeTooLong)
  /\ phase \in {"idle", "header", "body", "print", "done"}

(* One buffer serves all slices, and a short slice leaves most of it alone: *)
(* still nothing that is printed for a slice is of one shown earlier, also  *)
(* when a read failed in between or the header changed under the reads      *)
(* (cap.c and basic.c of each space, ls-slice.c:16-38).                     *)
OwnWords == \A w \in printed \cap Word : data_buf[w] \in {slice, Zero}

(* The capabilities whose printer asks for all that it reads, in the unit   *)
(* that it is given in.                                                     *)
Guarded == {SHP, EYE, <<"cfg0", 3>>, <<"port", 15>>} \cup {x \in Slice : x[1] = "cfg1" /\ x[2] # 0}

(* Guarded capabilities are printed wholly or not at all after the header,  *)
(* and with nothing the entity did not return, unless the header changes    *)
(* between the two reads; a slice of the full 1 KB is printed wholly, and   *)
(* of a longer one nothing is said for the eye monitor.                     *)
WholeOrNothing ==
  slice \in Guarded /\ ~ EyeTooLong /\ size = asked /\ printed # {} =>
    /\ printed \in {Heading(slice), Heading(slice) \cup Body(slice)}
    /\ \A w \in printed \ (Heading(slice) \ {0}) : data_buf[w] = slice
    /\ asked = BufferLen /\ slot_num <= 16 => Body(slice) \subseteq printed

(* The comments in the loops over the tables, "make sure pos + offset <     *)
(* data_len" and "Do not exceed the data length" (cfg0/basic.c:336,         *)
(* cfg1/basic.c:291, port/basic.c:197): a register of a basic slice is      *)
(* printed only if the slice holds all of it.                               *)
BasicWithinData ==
  slice \in BasicSlice => \A w \in printed : DWord * w < data_len

=============================================================================
