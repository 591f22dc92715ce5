--------------------------- MODULE PrintersProofs ---------------------------
(****************************************************************************)
(* What the printers of lsub -v read and print for every size a header may  *)
(* hold, every number of slots, every choice of slices and every change of  *)
(* the header between two reads.                                            *)
(****************************************************************************)
EXTENDS Printers, TLAPS



----------------------------------------------------------------------------
(* The tables.  Every register of every printer lies within data_buf.       *)

LEMMA RegWithin ==
  ASSUME NEW a \in Nat, NEW n \in Nat, NEW w, a + n <= BufferLen
  PROVE  Reg(a, n, w).words \subseteq Word
  BY DEF Reg, Word, BufferLen

Within(regs) == \A r \in regs : r.words \subseteq Word

LEMMA RowsWithin ==
  ASSUME NEW T, NEW w,
         \A r \in T : r[1] \in Nat /\ r[2] \in Nat /\ r[1] + r[2] <= BufferLen
  PROVE  Within({Reg(r[1], r[2], w) : r \in T})
  BY RegWithin DEF Within

LEMMA BothWithin == \A R, S : Within(R) /\ Within(S) => Within(R \cup S)
  BY DEF Within

LEMMA Cfg0Within == Within(Cfg0Basic)
<1> DEFINE T == {<<1, 1>>, <<2, 8>>, <<10, 4>>, <<14, 4>>, <<18, 4>>, <<22, 4>>, <<26, 1>>,
                 <<31, 1>>, <<32, 1>>, <<35, 1>>, <<36, 1>>, <<39, 4>>, <<43, 1>>}
<1>1. \A r \in T : r[1] \in Nat /\ r[2] \in Nat /\ r[1] + r[2] <= BufferLen
  BY DEF BufferLen
<1>2. Cfg0Basic = {Reg(r[1], r[2], "any") : r \in T}
                    \cup {Reg(33, 1, "primary"), Reg(38, 1, "primary"), Reg(37, 1, "controller")}
  BY DEF Cfg0Basic
<1> HIDE DEF T
<1>3. Within({Reg(r[1], r[2], "any") : r \in T})
  BY <1>1, RowsWithin
<1>4. Within({Reg(33, 1, "primary"), Reg(38, 1, "primary"), Reg(37, 1, "controller")})
  BY DEF Within, Reg, Word, BufferLen
<1> QED
  BY <1>2, <1>3, <1>4, BothWithin

LEMMA Cfg1Within == Within(Cfg1Basic)
<1> DEFINE T == {<<1, 8>>, <<9, 4>>, <<28, 2>>, <<33, 1>>, <<41, 1>>, <<45, 1>>, <<46, 1>>,
                 <<47, 1>>}
<1>1. \A r \in T : r[1] \in Nat /\ r[2] \in Nat /\ r[1] + r[2] <= BufferLen
  BY DEF BufferLen
<1>2. Cfg1Basic = ({Reg(r[1], r[2], "any") : r \in T} \cup {Ers(k) : k \in 0 .. 2})
                    \cup {Reg(34, 2, "controller"), Reg(36, 1, "controller")}
  BY DEF Cfg1Basic
<1> HIDE DEF T
<1>3. Within({Reg(r[1], r[2], "any") : r \in T})
  BY <1>1, RowsWithin
<1>4. Within({Ers(k) : k \in 0 .. 2})
  BY DEF Within, Ers, Word, BufferLen
<1>5. Within({Reg(34, 2, "controller"), Reg(36, 1, "controller")})
  BY DEF Within, Reg, Word, BufferLen
<1> QED
  BY <1>2, <1>3, <1>4, <1>5, BothWithin

LEMMA PortWithin == Within(PortBasic)
<1> DEFINE T == {<<1, 8>>, <<9, 1>>, <<10, 5>>, <<15, 1>>}
<1>1. \A r \in T : r[1] \in Nat /\ r[2] \in Nat /\ r[1] + r[2] <= BufferLen
  BY DEF BufferLen
<1>2. PortBasic = {Reg(r[1], r[2], "primary") : r \in T}
                    \cup {[at |-> 16, words |-> {9, 16}, who |-> "primary"]}
  BY DEF PortBasic
<1> HIDE DEF T
<1>3. Within({Reg(r[1], r[2], "primary") : r \in T})
  BY <1>1, RowsWithin
<1>4. Within({[at |-> 16, words |-> {9, 16}, who |-> "primary"]})
  BY DEF Within, Word, BufferLen
<1> QED
  BY <1>2, <1>3, <1>4, BothWithin

LEMMA LinkWithin == Within(Link.regs)
<1> DEFINE T == {<<64, 12>>, <<96, 8>>, <<104, 1>>, <<112, 17>>, <<129, 1>>}
<1>1. \A r \in T : r[1] \in Nat /\ r[2] \in Nat /\ r[1] + r[2] <= BufferLen
  BY DEF BufferLen
<1>2. LinkData = {Reg(r[1], r[2], "any") : r \in T}
  BY DEF LinkData
<1> HIDE DEF T
<1>3. Within(LinkData)
  BY <1>1, <1>2, RowsWithin
<1>4. Within(LinkCap) /\ Within(LinkPhy) /\ Within(LinkStatus)
  BY DEF LinkCap, LinkPhy, LinkStatus, Within, Reg, Word, BufferLen
<1>5. Link.regs = LinkCap \cup LinkData \cup LinkPhy \cup LinkStatus
  BY DEF Link, Cap
<1> QED
  BY <1>3, <1>4, <1>5, BothWithin

LEMMA CapsWithin ==
  /\ Within(ErrRecord.regs) /\ Within(ErrInfo.regs) /\ Within(Emq.regs)
  /\ Within(Decoder.regs) /\ Within(Jetty.regs) /\ Within(IntType1.regs)
  /\ Within(IntType2.regs) /\ Within(UbMem.regs) /\ Within(Link.regs)
  /\ Within(LinkLog.regs) /\ Within(DataRate.regs) /\ Within(Qdlws.regs)
  /\ Within(LmsmSt.regs) /\ Within(PortErrRecord.regs)
<1> USE DEF Within, Reg, Cap, Word, BufferLen
<1>1. Within(ErrRecord.regs) /\ Within(ErrInfo.regs)
  BY DEF ErrRecord, ErrInfo
<1>2. Within(Emq.regs) /\ Within(Decoder.regs)
  BY DEF Emq, Decoder
<1>3. Within(Jetty.regs) /\ Within(IntType1.regs) /\ Within(IntType2.regs) /\ Within(UbMem.regs)
  BY DEF Jetty, IntType1, IntType2, UbMem
<1>4. Within(Link.regs)
  BY LinkWithin
<1>5. Within(LinkLog.regs) /\ Within(DataRate.regs) /\ Within(Qdlws.regs)
  BY DEF LinkLog, DataRate, Qdlws
<1>6. Within(LmsmSt.regs) /\ Within(PortErrRecord.regs)
  BY DEF LmsmSt, PortErrRecord
<1> QED
  BY <1>1, <1>2, <1>3, <1>4, <1>5, <1>6

LEMMA PrinterWithin ==
  ASSUME NEW x \in Capability PROVE Within(Printer[x].regs)
<1>1. CASE x[1] = "cfg0"
  <2>1. x \in {<<"cfg0", 3>>, <<"cfg0", 4>>, <<"cfg0", 5>>}
    BY <1>1 DEF Capability
  <2>2. Printer[x] \in {ErrRecord, ErrInfo, Emq}
    BY <2>1 DEF Printer
  <2> QED
    BY <2>2, CapsWithin
<1>2. CASE x[1] = "cfg1"
  <2>1. x \in {<<"cfg1", 1>>, <<"cfg1", 2>>, <<"cfg1", 3>>, <<"cfg1", 4>>, <<"cfg1", 6>>}
    BY <1>2 DEF Capability
  <2>2. Printer[x] \in {Decoder, Jetty, IntType1, IntType2, UbMem}
    BY <2>1 DEF Printer
  <2> QED
    BY <2>2, CapsWithin
<1>3. CASE x[1] = "port"
  <2>1. \/ x \in {<<"port", 1>>, <<"port", 2>>, <<"port", 15>>, <<"port", 20>>, <<"port", 21>>}
        \/ x[2] \in 4 .. 12
    BY <1>3 DEF Capability
  <2>2. CASE x \in {<<"port", 1>>, <<"port", 2>>, <<"port", 15>>, <<"port", 20>>, <<"port", 21>>}
    <3>1. Printer[x] \in {Link, LinkLog, Qdlws, LmsmSt, PortErrRecord}
      BY <2>2 DEF Printer
    <3> QED
      BY <3>1, CapsWithin
  <2>3. CASE x[2] \in 4 .. 12
    <3>1. Printer[x] = DataRate
      BY <1>3, <2>3 DEF Printer
    <3> QED
      BY <3>1, CapsWithin
  <2> QED
    BY <2>1, <2>2, <2>3
<1> QED
  BY <1>1, <1>2, <1>3 DEF Capability

LEMMA WordsWithin == \A regs : Within(regs) => WordsOf(regs) \subseteq Word
  BY DEF Within, WordsOf

----------------------------------------------------------------------------
(* The length of the data.                                                  *)

LEMMA DataLength ==
  ASSUME asked \in Sizes \cup {0}
  PROVE  data_len \in Nat /\ data_len <= DWord * BufferLen
<1> DEFINE m == Min({asked, BufferLen})
<1>1. asked \in Nat /\ BufferLen \in Nat
  BY SizesAssumption DEF BufferLen
<1>2. \E x \in {asked, BufferLen} : \A y \in {asked, BufferLen} : x <= y
  BY <1>1
<1>3. m \in {asked, BufferLen} /\ \A y \in {asked, BufferLen} : m <= y
  BY <1>2 DEF Min
<1>4. data_len = DWord * m
  BY DEF data_len
<1> HIDE DEF m
<1>5. m \in Nat /\ m <= BufferLen
  BY <1>1, <1>3
<1> QED
  BY <1>4, <1>5 DEF DWord, BufferLen

----------------------------------------------------------------------------
(* Types.                                                                   *)

LEMMA NoneIsNoSlice == None \notin Slice
<1>1. \A x \in BasicSlice : x[2] = 0
  BY DEF BasicSlice
<1>2. \A x \in Capability : x[2] \in Nat
  BY DEF Capability
<1>3. SHP[2] = 2 /\ EYE[2] = 14 /\ None[2] = -1
  BY DEF SHP, EYE, None
<1>4. \A x \in Slice : x[2] \in Nat
  BY <1>1, <1>2, <1>3 DEF Slice
<1> QED
  BY <1>3, <1>4

Control ==
  /\ who \subseteq {"primary", "controller"}
  /\ slice \in Slice \cup {None} /\ asked \in Sizes \cup {0}
  /\ data_buf \in [Word -> Slice \cup {Zero}]
  /\ size \in Sizes \cup {0} /\ slot_num \in Slots \cup {0}
  /\ phase \in {"idle", "header", "body", "print", "done"}
  /\ phase \in {"header", "body", "print"} => slice \in Slice /\ printed = {}

LEMMA StepControl == Control /\ [Next]_vars => Control'
<1> SUFFICES ASSUME Control, [Next]_vars PROVE Control'
  OBVIOUS
<1> USE DEF Control, buffer
<1>1. ASSUME NEW x \in Selected, Start(x) PROVE Control'
  <2>1. x \in Slice
    BY SelectedAssumption
  <2> QED
    BY <1>1, <2>1 DEF Start, Cleared, BufferLen
<1>2. CASE ReadHeader
  BY <1>2 DEF ReadHeader
<1>3. CASE ReadBody
  BY <1>3 DEF ReadBody
<1>4. CASE ReadFails \/ PrintSlice \/ Return
  BY <1>4 DEF ReadFails, PrintSlice, Return
<1>5. CASE Done \/ UNCHANGED vars
  BY <1>5 DEF Done, vars
<1> QED
  BY <1>1, <1>2, <1>3, <1>4, <1>5 DEF Next

LEMMA ControlInvariant == Spec => []Control
<1>1. Init => Control
  BY DEF Init, Control, buffer, EYE, None
<1> QED
  BY <1>1, StepControl, PTL DEF Spec

----------------------------------------------------------------------------
(* What is printed lies within data_buf, except for a long eye monitor.     *)

Inside == printed \subseteq Nat /\ (printed \subseteq Word \/ EyeTooLong)

LEMMA SlotsWithin == Control /\ SlotsFit => SlotWords \subseteq Word
<1> SUFFICES ASSUME Control, SlotsFit, NEW i \in 0 .. slot_num - 1
             PROVE  2 + 16 * i .. 13 + 16 * i \subseteq Word
  BY DEF SlotWords
<1>1. data_len \in Nat /\ data_len <= 1024
  BY DataLength DEF Control, DWord, BufferLen
<1>2. slot_num \in Int
  BY SlotsAssumption DEF Control
<1>3. data_len >= 4 * (16 + (slot_num - 1) * 16)
  BY DEF SlotsFit, DWord
<1>4. i \in Nat /\ i <= slot_num - 1
  BY <1>2
<1>5. 13 + 16 * i < 256
  BY <1>1, <1>2, <1>3, <1>4
<1> QED
  BY <1>4, <1>5 DEF Word, BufferLen

LEMMA SlicesApart == SHP \notin BasicSlice /\ EYE \notin BasicSlice /\ SHP # EYE
<1>1. \A x \in BasicSlice : x[2] = 0
  BY DEF BasicSlice
<1>2. SHP[2] = 2 /\ EYE[2] = 14
  BY DEF SHP, EYE
<1> QED
  BY <1>1, <1>2

LEMMA BodyWithin ==
  ASSUME Control, slice \in Slice, GoesOn(slice)
  PROVE  /\ Body(slice) \subseteq Nat
         /\ Body(slice) \subseteq Word \/ EyeTooLong
<1> USE DEF EyeTooLong
<1>0. Word \subseteq Nat
  BY DEF Word, BufferLen
<1>1. CASE slice \in BasicSlice
  <2>1. Within(Basic[slice[1]])
    BY <1>1, Cfg0Within, Cfg1Within, PortWithin DEF BasicSlice, Space, Basic
  <2>2. BasicWords \subseteq Word
    BY <2>1, WordsWithin DEF BasicWords, Within
  <2>3. Body(slice) = BasicWords
    BY <1>1, SlicesApart DEF Body
  <2> QED
    BY <1>0, <2>2, <2>3
<1>2. CASE slice = SHP
  <2>1. Body(slice) = SlotWords /\ SlotsFit
    BY <1>2, SlicesApart DEF Body, GoesOn
  <2> QED
    BY <1>0, <2>1, SlotsWithin
<1>3. CASE slice = EYE
  <2>1. size \in Nat
    BY SizesAssumption DEF Control
  <2>2. EyeWords \subseteq Nat
    BY <2>1 DEF EyeWords
  <2>3. size <= BufferLen => EyeWords \subseteq Word
    BY <2>1 DEF EyeWords, Word, BufferLen
  <2>4. Body(slice) = EyeWords
    BY <1>3, SlicesApart DEF Body
  <2>5. size <= BufferLen \/ size > BufferLen
    BY <2>1 DEF BufferLen
  <2> QED
    BY <1>3, <2>2, <2>3, <2>4, <2>5
<1>4. CASE slice \notin BasicSlice /\ slice # SHP /\ slice # EYE
  <2>1. slice \in Capability
    BY <1>4 DEF Slice
  <2>2. Body(slice) = WordsOf(Printer[slice].regs)
    BY <1>4 DEF Body
  <2> QED
    BY <1>0, <2>1, <2>2, PrinterWithin, WordsWithin
<1> QED
  BY <1>1, <1>2, <1>3, <1>4

LEMMA PrintedWithin ==
  ASSUME Control, slice \in Slice, PrintSlice PROVE Inside'
<1>1. Heading(slice) \subseteq Word /\ Word \subseteq Nat
  BY DEF Heading, Word, BufferLen
<1>2. printed' \subseteq Heading(slice) \cup (IF GoesOn(slice) THEN Body(slice) ELSE {})
  BY DEF PrintSlice
<1>3. EyeTooLong' = EyeTooLong
  BY DEF PrintSlice, EyeTooLong, buffer
<1> QED
  BY <1>1, <1>2, <1>3, BodyWithin DEF Inside

(* For every size in a header and every number of slots, no printer goes    *)
(* beyond data_buf, unless it is the eye monitor's and its own slice claims *)
(* to be longer than 1 KB; and every variable has its type.                 *)
THEOREM PrintersTyped == Spec => []TypeOK
<1>1. Init => Inside
  BY DEF Init, Inside
<1>2. Control /\ Inside /\ [Next]_vars => Inside'
  <2> SUFFICES ASSUME Control, Inside, [Next]_vars PROVE Inside'
    OBVIOUS
  <2>1. CASE PrintSlice
    BY <2>1, PrintedWithin DEF PrintSlice, Control
  <2>2. ASSUME printed' = {}
        PROVE  Inside'
    BY <2>2 DEF Inside
  <2>3. ASSUME UNCHANGED <<slice, size, printed>>
        PROVE  Inside'
    BY <2>3 DEF Inside, EyeTooLong
  <2>4. CASE ReadBody
    BY <2>2, <2>4 DEF ReadBody, Control
  <2> QED
    BY <2>1, <2>2, <2>3, <2>4
       DEF Next, Start, ReadHeader, ReadFails, Return, Done, vars, buffer
<1>3. Control /\ Inside => TypeOK
  BY DEF Control, Inside, TypeOK
<1> QED
  BY <1>1, <1>2, <1>3, ControlInvariant, PTL DEF Spec

----------------------------------------------------------------------------
(* The words of data_buf are of the slice being read, or cleared; when a    *)
(* read fails, nothing of an earlier slice is there either.                 *)
OwnBuffer ==
  /\ phase # "done" /\ slice # None => \A w \in Word : data_buf[w] \in {slice, Zero}
  /\ OwnWords

LEMMA StepOwnBuffer == Control /\ OwnBuffer /\ [Next]_vars => OwnBuffer'
<1> SUFFICES ASSUME Control, OwnBuffer, [Next]_vars PROVE OwnBuffer'
  OBVIOUS
<1> USE DEF OwnBuffer, OwnWords, buffer
<1>1. ASSUME NEW x \in Selected, Start(x) PROVE OwnBuffer'
  BY <1>1 DEF Start, Cleared
<1>2. CASE ReadHeader \/ ReadFails \/ Return
  BY <1>2 DEF ReadHeader, ReadFails, Return
<1>3. CASE ReadBody
  BY <1>3 DEF ReadBody
<1>4. CASE PrintSlice
  <2>1. slice \in Slice /\ slice # None
    BY <1>4, NoneIsNoSlice DEF PrintSlice, Control
  <2> QED
    BY <1>4, <2>1 DEF PrintSlice
<1>5. CASE Done \/ UNCHANGED vars
  BY <1>5 DEF Done, vars
<1> QED
  BY <1>1, <1>2, <1>3, <1>4, <1>5 DEF Next

(* Nothing that is printed for a slice was read for an earlier one.         *)
THEOREM SliceShowsItself == Spec => []OwnWords
<1>1. Init => OwnBuffer
  BY DEF Init, OwnBuffer, OwnWords
<1>2. OwnBuffer => OwnWords
  BY DEF OwnBuffer
<1> QED
  BY <1>1, <1>2, ControlInvariant, StepOwnBuffer, PTL DEF Spec

----------------------------------------------------------------------------
(* Printers that ask for all they read.  What was read is in data_buf up to *)
(* data_len; nothing is printed before the slice has been read.             *)

LEMMA DataLengthIs ==
  ASSUME asked \in Sizes \cup {0}
  PROVE  /\ asked \in Nat
         /\ data_len = IF asked <= 256 THEN 4 * asked ELSE 1024
<1> DEFINE m == Min({asked, BufferLen})
<1>1. asked \in Nat /\ BufferLen \in Nat
  BY SizesAssumption DEF BufferLen
<1>2. \E x \in {asked, BufferLen} : \A y \in {asked, BufferLen} : x <= y
  BY <1>1
<1>3. m \in {asked, BufferLen} /\ \A y \in {asked, BufferLen} : m <= y
  BY <1>2 DEF Min
<1>4. data_len = DWord * m
  BY DEF data_len
<1> HIDE DEF m
<1> QED
  BY <1>1, <1>3, <1>4 DEF DWord, BufferLen

ReadSoFar ==
  phase = "print" =>
    /\ data_len > 0
    /\ \A w \in Word : DWord * w < data_len => data_buf[w] = slice

LEMMA StepReadSoFar == Control /\ ReadSoFar /\ [Next]_vars => ReadSoFar'
<1> SUFFICES ASSUME Control, ReadSoFar, [Next]_vars PROVE ReadSoFar'
  OBVIOUS
<1> USE DEF ReadSoFar, buffer
<1>1. ASSUME NEW x \in Selected, Start(x) PROVE ReadSoFar'
  BY <1>1 DEF Start
<1>2. CASE ReadHeader \/ ReadFails \/ PrintSlice \/ Return
  BY <1>2 DEF ReadHeader, ReadFails, PrintSlice, Return
<1>3. CASE ReadBody
  <2>1. /\ data_len > 0 /\ data_len' = data_len /\ slice' = slice /\ printed' = {}
        /\ data_buf' = [w \in Word |->
                          IF DWord * w < data_len THEN slice ELSE data_buf[w]]
    BY <1>3 DEF ReadBody, Control, data_len
  <2> QED
    BY <2>1
<1>4. CASE Done \/ UNCHANGED vars
  BY <1>4 DEF Done, vars, data_len
<1> QED
  BY <1>1, <1>2, <1>3, <1>4 DEF Next

(* What the printers of the guarded capabilities read, in double-words.     *)
Below(regs, n) == \A r \in regs : \A w \in r.words : w \in Nat /\ w < n

LEMMA GuardedBelow ==
  /\ ErrRecord.bytes = 120 /\ ErrRecord.size = 0 /\ Below(ErrRecord.regs, 30)
  /\ Qdlws.bytes = 4 /\ Qdlws.size = 4 /\ Below(Qdlws.regs, 4)
  /\ Decoder.bytes = 37 /\ Decoder.size = 37 /\ Below(Decoder.regs, 37)
  /\ Jetty.bytes = 2 /\ Jetty.size = 2 /\ Below(Jetty.regs, 2)
  /\ IntType1.bytes = 10 /\ IntType1.size = 10 /\ Below(IntType1.regs, 10)
  /\ IntType2.bytes = 11 /\ IntType2.size = 11 /\ Below(IntType2.regs, 11)
  /\ UbMem.bytes = 2 /\ UbMem.size = 2 /\ Below(UbMem.regs, 2)
<1> USE DEF Cap, Reg, Below, DWord
<1>1. ErrRecord.bytes = 120 /\ ErrRecord.size = 0 /\ Below(ErrRecord.regs, 30)
  BY DEF ErrRecord
<1>2. Qdlws.bytes = 4 /\ Qdlws.size = 4 /\ Below(Qdlws.regs, 4)
  BY DEF Qdlws
<1>3. Decoder.bytes = 37 /\ Decoder.size = 37 /\ Below(Decoder.regs, 37)
  BY DEF Decoder
<1>4. Jetty.bytes = 2 /\ Jetty.size = 2 /\ Below(Jetty.regs, 2)
  BY DEF Jetty
<1>5. IntType1.bytes = 10 /\ IntType1.size = 10 /\ Below(IntType1.regs, 10)
  BY DEF IntType1
<1>6. IntType2.bytes = 11 /\ IntType2.size = 11 /\ Below(IntType2.regs, 11)
  BY DEF IntType2
<1>7. UbMem.bytes = 2 /\ UbMem.size = 2 /\ Below(UbMem.regs, 2)
  BY DEF UbMem
<1> QED
  BY <1>1, <1>2, <1>3, <1>4, <1>5, <1>6, <1>7

(* A guarded capability with a printer: how many double-words make it go on *)
(* are as many as it reads, and a slice of 1 KB has as many.                *)
LEMMA GuardedPrinter ==
  ASSUME NEW x \in Guarded, x # SHP, x # EYE
  PROVE  /\ x \in Capability
         /\ \E n \in Nat : /\ Below(Printer[x].regs, n) /\ n <= 256
                           /\ Printer[x].bytes \in Nat /\ Printer[x].size \in Nat
                           /\ Printer[x].bytes <= 4 * n /\ Printer[x].size <= n
                           /\ \/ Printer[x].bytes >= 4 * n
                              \/ Printer[x].size >= n
<1>1. x \in {<<"cfg0", 3>>, <<"port", 15>>, <<"cfg1", 1>>, <<"cfg1", 2>>,
             <<"cfg1", 3>>, <<"cfg1", 4>>, <<"cfg1", 6>>}
  <2>1. CASE x \in {<<"cfg0", 3>>, <<"port", 15>>}
    BY <2>1
  <2>2. CASE x \in Slice /\ x[1] = "cfg1" /\ x[2] # 0
    <3>1. x \notin BasicSlice
      BY <2>2 DEF BasicSlice
    <3>2. x \in Capability
      BY <2>2, <3>1 DEF Slice
    <3>3. \A y \in 3 .. 5, z \in {1, 2} \cup 4 .. 12 \cup {15, 20, 21} :
            x # <<"cfg0", y>> /\ x # <<"port", z>>
      BY <2>2
    <3>4. x \in {"cfg1"} \X {1, 2, 3, 4, 6}
      BY <3>2, <3>3 DEF Capability
    <3> QED
      BY <3>4
  <2> QED
    BY <2>1, <2>2 DEF Guarded
<1>2. x \in Capability
  BY <1>1 DEF Capability
<1>3. CASE x = <<"cfg0", 3>>
  <2>1. Printer[x] = ErrRecord
    BY <1>2, <1>3 DEF Printer
  <2> QED
    BY <1>2, <2>1, GuardedBelow
<1>4. CASE x = <<"port", 15>>
  <2>1. Printer[x] = Qdlws
    BY <1>2, <1>4 DEF Printer
  <2> QED
    BY <1>2, <2>1, GuardedBelow
<1>5. CASE x = <<"cfg1", 1>>
  <2>1. Printer[x] = Decoder
    BY <1>2, <1>5 DEF Printer
  <2> QED
    BY <1>2, <2>1, GuardedBelow
<1>6. CASE x = <<"cfg1", 2>>
  <2>1. Printer[x] = Jetty
    BY <1>2, <1>6 DEF Printer
  <2> QED
    BY <1>2, <2>1, GuardedBelow
<1>7. CASE x = <<"cfg1", 3>>
  <2>1. Printer[x] = IntType1
    BY <1>2, <1>7 DEF Printer
  <2> QED
    BY <1>2, <2>1, GuardedBelow
<1>8. CASE x = <<"cfg1", 4>>
  <2>1. Printer[x] = IntType2
    BY <1>2, <1>8 DEF Printer
  <2> QED
    BY <1>2, <2>1, GuardedBelow
<1>9. CASE x = <<"cfg1", 6>>
  <2>1. Printer[x] = UbMem
    BY <1>2, <1>9 DEF Printer
  <2> QED
    BY <1>2, <2>1, GuardedBelow
<1> QED
  BY <1>1, <1>3, <1>4, <1>5, <1>6, <1>7, <1>8, <1>9

LEMMA SlotsRead ==
  ASSUME Control, NEW w \in SlotWords
  PROVE  /\ SlotsFit => w \in Nat /\ 4 * w < data_len
         /\ asked = BufferLen /\ slot_num <= 16 => SlotsFit
<1>1. PICK k \in 0 .. slot_num - 1 : w \in 2 + 16 * k .. 13 + 16 * k
  BY DEF SlotWords
<1>2. slot_num \in Nat /\ slot_num > 0 /\ k <= slot_num - 1 /\ k \in Nat
  <2>1. slot_num \in Int
    BY SlotsAssumption DEF Control
  <2> QED
    BY <1>1, <2>1
<1>3. w \in Nat /\ w <= 13 + 16 * k
  BY <1>1, <1>2
<1>4. data_len \in Nat /\ (asked = BufferLen => data_len = 1024)
  BY DataLengthIs DEF Control, BufferLen
<1> QED
  BY <1>2, <1>3, <1>4 DEF SlotsFit, DWord

LEMMA GuardedPrints ==
  ASSUME Control, slice \in Guarded, ~ EyeTooLong, size = asked
  PROVE  /\ GoesOn(slice) => \A w \in Body(slice) : w \in Nat /\ 4 * w < data_len
         /\ asked = BufferLen /\ slot_num <= 16 =>
              GoesOn(slice) \/ Body(slice) = {}
<1>1. /\ asked \in Nat /\ data_len = IF asked <= 256 THEN 4 * asked ELSE 1024
  BY DataLengthIs DEF Control
<1>2. CASE slice = SHP
  <2>1. Body(slice) = SlotWords /\ GoesOn(slice) = SlotsFit
    BY <1>2, SlicesApart DEF Body, GoesOn
  <2> QED
    BY <2>1, SlotsRead
<1>3. CASE slice = EYE
  <2>1. Body(slice) = EyeWords /\ GoesOn(slice) = EyeFits
    BY <1>3, SlicesApart DEF Body, GoesOn
  <2>2. asked <= 256
    BY <1>1, <1>3 DEF EyeTooLong, BufferLen
  <2>3. EyeFits => \A w \in EyeWords : w \in Nat /\ 4 * w < data_len
    BY <1>1, <2>2 DEF EyeFits, EyeWords
  <2>4. asked = BufferLen => EyeFits
    BY <1>1 DEF EyeFits, BufferLen
  <2> QED
    BY <2>1, <2>3, <2>4
<1>4. CASE slice # SHP /\ slice # EYE
  <2>1. slice \in Capability
    BY <1>4, GuardedPrinter
  <2>2. slice \notin BasicSlice
    BY <2>1 DEF Capability, BasicSlice
  <2> DEFINE p == Printer[slice]
  <2>3. PICK n \in Nat :
          /\ Below(p.regs, n) /\ n <= 256
          /\ p.bytes \in Nat /\ p.size \in Nat
          /\ p.bytes <= 4 * n /\ p.size <= n
          /\ p.bytes >= 4 * n \/ p.size >= n
    BY <1>4, GuardedPrinter
  <2>4. Body(slice) = WordsOf(p.regs) /\ GoesOn(slice) = LongEnough(p)
    BY <1>4, <2>2 DEF Body, GoesOn
  <2> HIDE DEF p
  <2>5. LongEnough(p) => 4 * n <= data_len
    BY <1>1, <2>3 DEF LongEnough
  <2>6. \A w \in WordsOf(p.regs) : w \in Nat /\ w < n
    BY <2>3 DEF WordsOf, Below
  <2>7. asked = BufferLen => LongEnough(p)
    BY <1>1, <2>3 DEF LongEnough, BufferLen
  <2>8. data_len \in Nat
    BY <1>1
  <2> QED
    BY <2>3, <2>4, <2>5, <2>6, <2>7, <2>8
<1> QED
  BY <1>2, <1>3, <1>4

LEMMA PrintsWholeOrNothing ==
  ASSUME Control, ReadSoFar, PrintSlice
  PROVE  WholeOrNothing'
<1>1. /\ slice' = slice /\ size' = size /\ asked' = asked /\ slot_num' = slot_num
      /\ data_buf' = data_buf /\ who' = who /\ phase = "print"
  BY DEF PrintSlice, buffer
<1>2. Heading(slice)' = Heading(slice) /\ Body(slice)' = Body(slice)
  BY <1>1 DEF Heading, Body, BasicWords, SlotWords, EyeWords, WordsOf, May, data_len
<1> SUFFICES ASSUME slice \in Guarded, ~ EyeTooLong, size = asked, printed' # {}
             PROVE  /\ printed' \in {Heading(slice), Heading(slice) \cup Body(slice)}
                    /\ \A w \in printed' \ (Heading(slice) \ {0}) : data_buf[w] = slice
                    /\ asked = BufferLen /\ slot_num <= 16 => Body(slice) \subseteq printed'
  BY <1>1, <1>2 DEF WholeOrNothing, EyeTooLong
<1>3. printed' = Heading(slice) \cup (IF GoesOn(slice) THEN Body(slice) ELSE {})
  BY DEF PrintSlice
<1>4. /\ data_len > 0
      /\ \A w \in Word : DWord * w < data_len => data_buf[w] = slice
  BY <1>1 DEF ReadSoFar
<1>5. data_buf[0] = slice
  BY <1>4 DEF Word, DWord, BufferLen
<1>6. GoesOn(slice) => \A w \in Body(slice) : data_buf[w] = slice
  <2>1. slice \in Slice
    BY <1>1 DEF Control
  <2> QED
    BY <1>4, <2>1, BodyWithin, GuardedPrints DEF DWord
<1>7. asked = BufferLen /\ slot_num <= 16 => GoesOn(slice) \/ Body(slice) = {}
  BY GuardedPrints
<1> QED
  BY <1>3, <1>5, <1>6, <1>7

LEMMA StepWholeOrNothing ==
  Control /\ ReadSoFar /\ WholeOrNothing /\ [Next]_vars => WholeOrNothing'
<1> SUFFICES ASSUME Control, ReadSoFar, WholeOrNothing, [Next]_vars
             PROVE  WholeOrNothing'
  OBVIOUS
<1>1. CASE (\E x \in Selected : Start(x)) \/ ReadHeader \/ ReadBody
  <2>1. printed' = {}
    BY <1>1 DEF Start, ReadHeader, ReadBody, Control
  <2> QED
    BY <2>1 DEF WholeOrNothing
<1>2. CASE PrintSlice
  BY <1>2, PrintsWholeOrNothing
<1>3. CASE ReadFails \/ Return \/ Done \/ UNCHANGED vars
  <2>1. UNCHANGED <<who, slice, asked, data_buf, size, slot_num, printed>>
    BY <1>3 DEF ReadFails, Return, Done, vars, buffer
  <2> QED
    BY <2>1 DEF WholeOrNothing, EyeTooLong, Heading, Body, BasicWords, SlotWords, EyeWords,
       WordsOf, May, data_len
<1> QED
  BY <1>1, <1>2, <1>3 DEF Next

(* A capability whose printer asks for all it reads is printed wholly or    *)
(* not at all, with nothing that was not read, as long as its header keeps  *)
(* its size and an eye monitor's slice is no longer than 1 KB.              *)
THEOREM CapabilityWhole == Spec => []WholeOrNothing
<1>1. Init => ReadSoFar /\ WholeOrNothing
  BY DEF Init, ReadSoFar, WholeOrNothing
<1>2. Control /\ (ReadSoFar /\ WholeOrNothing) /\ [Next]_vars
        => (ReadSoFar /\ WholeOrNothing)'
  BY StepReadSoFar, StepWholeOrNothing
<1> QED
  BY <1>1, <1>2, ControlInvariant, PTL DEF Spec
=============================================================================
