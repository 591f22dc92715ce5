---------------------------- MODULE SetubProofs ----------------------------
(****************************************************************************)
(* Theorems about Setub, for all entities, configuration spaces, byte sizes *)
(* and command lines.                                                       *)
(****************************************************************************)
EXTENDS Setub, TLAPS

USE DEF Invalid, Absent, Closed, EINVAL, Flagged

(* A product of naturals is a natural; the solver does not find it alone.   *)
LEMMA NatTimes ==
  ASSUME NEW x \in Nat, NEW y \in Nat
  PROVE  x * y \in Nat
  OBVIOUS

(* The weight of each digit, as numbers.                                    *)
LEMMA PlaceTyped ==
  /\ Place(0) \in Nat /\ Place(1) \in Nat /\ Place(2) \in Nat
  /\ Place(3) \in Nat /\ Place(4) \in Nat
  /\ Place(0) > 0 /\ Place(1) > 0 /\ Place(2) > 0 /\ Place(3) > 0
<1>1. /\ Place(0) = 1 /\ Place(1) = Base /\ Place(2) = Base * Base
      /\ Place(3) = Base * Base * Base /\ Place(4) = Base * Base * Base * Base
  BY DEF Place
<1>2. Base \in Nat /\ Base > 0
  BY BaseAssumption
<1>3. Base * Base \in Nat /\ Base * Base > 0
  BY <1>2
<1>4. (Base * Base) * Base \in Nat /\ (Base * Base) * Base > 0
  BY <1>2, <1>3
<1>5. ((Base * Base) * Base) * Base \in Nat
  BY <1>2, <1>4, NatTimes
<1> QED
  BY <1>1, <1>2, <1>3, <1>4, <1>5

(* A digit of a number is a byte.                                           *)
LEMMA DigitTyped ==
  ASSUME NEW value \in Nat, NEW i \in 0 .. 3
  PROVE  Digit(value, i) \in Byte
<1>1. i = 0 \/ i = 1 \/ i = 2 \/ i = 3
  OBVIOUS
<1>2. Place(i) \in Nat /\ Place(i) > 0
  BY <1>1, PlaceTyped
<1>3. value \div Place(i) \in Int
  BY <1>2
<1>4. (value \div Place(i)) % Base \in 0 .. Base - 1
  BY <1>3, BaseAssumption
<1> QED
  BY <1>4 DEF Digit, Byte

(* Writing a register leaves a configuration space of bytes.                *)
LEMMA StoreTyped ==
  ASSUME NEW space \in [Address -> Byte], NEW position \in Address,
         NEW width \in Width, NEW value \in Nat
  PROVE  Store(space, position, width, value) \in [Address -> Byte]
<1> SUFFICES ASSUME NEW a \in Address
             PROVE  (IF a - position \in 0 .. width - 1
                     THEN Digit(value, a - position) ELSE space[a]) \in Byte
  BY DEF Store
<1>1. CASE a - position \in 0 .. width - 1
  <2>1. a - position \in 0 .. 3
    BY <1>1 DEF Width
  <2> QED
    BY <1>1, <2>1, DigitTyped
<1>2. CASE a - position \notin 0 .. width - 1
  BY <1>2
<1> QED
  BY <1>1, <1>2

(* A register that starts at an aligned position ends within the            *)
(* configuration space, and its value is a natural.                         *)
LEMMA AlignedEnd ==
  ASSUME NEW position \in Address, NEW width \in Width, position % width = 0
  PROVE  position + width - 1 \in Address
<1>1. MaxPosition \in Nat /\ MaxPosition % 4 = 3 /\ position \in 0 .. MaxPosition
  BY PositionAssumption DEF Address
<1>2. CASE width = 1
  BY <1>1, <1>2 DEF Address
<1>3. CASE width = 2
  <2>1. position % 2 = 0
    BY <1>3
  <2>2. position + 1 <= MaxPosition
    BY <1>1, <2>1
  <2> QED
    BY <1>1, <1>3, <2>2 DEF Address
<1>4. CASE width = 4
  <2>1. position % 4 = 0
    BY <1>4
  <2>2. position + 3 <= MaxPosition
    BY <1>1, <2>1
  <2> QED
    BY <1>1, <1>4, <2>2 DEF Address
<1> QED
  BY <1>2, <1>3, <1>4 DEF Width

LEMMA LoadTyped ==
  ASSUME NEW space \in [Address -> Byte], NEW position \in Address,
         NEW width \in Width, position % width = 0
  PROVE  Load(space, position, width) \in Nat
<1>1. position + width - 1 \in Address
  BY AlignedEnd
<1>2. \A a \in Address : space[a] \in Nat
  BY BaseAssumption DEF Byte
<1>3. position \in Nat /\ Base \in Nat
  BY BaseAssumption DEF Address
<1>4. CASE width = 1
  BY <1>2, <1>4 DEF Load
<1>5. CASE width = 2
  <2>1. position + 1 \in Address
    BY <1>1, <1>3, <1>5 DEF Address
  <2>2. Base * space[position + 1] \in Nat
    BY <1>2, <1>3, <2>1, NatTimes
  <2>3. Load(space, position, width) = space[position] + Base * space[position + 1]
    BY <1>5 DEF Load
  <2> QED
    BY <1>2, <2>2, <2>3
<1>6. CASE width = 4
  <2>1. position + 1 \in Address /\ position + 2 \in Address /\ position + 3 \in Address
    BY <1>1, <1>3, <1>6, PositionAssumption DEF Address
  <2>2. /\ space[position + 1] \in Nat /\ space[position + 2] \in Nat
        /\ space[position + 3] \in Nat /\ Place(2) \in Nat /\ Place(3) \in Nat
    BY <1>2, <2>1, PlaceTyped
  <2>3. Base * space[position + 1] \in Nat
    BY <1>3, <2>2, NatTimes
  <2>4. Place(2) * space[position + 2] \in Nat
    BY <2>2, NatTimes
  <2>5. Place(3) * space[position + 3] \in Nat
    BY <2>2, NatTimes
  <2>6. Load(space, position, width) =
          space[position] + Base * space[position + 1]
            + Place(2) * space[position + 2] + Place(3) * space[position + 3]
    BY <1>6 DEF Load
  <2> QED
    BY <1>2, <2>3, <2>4, <2>5, <2>6
<1> QED
  BY <1>4, <1>5, <1>6 DEF Width

----------------------------------------------------------------------------
(* An option that getopt returns as -s has the fields of one.               *)
LEMMA SlotFields ==
  ASSUME NEW o \in Options, o.opt = "s"
  PROVE  o \in SlotOption
  BY DEF Options, SlotOption, ParaOption, ParaName, IdleOption

LEMMA ParaFields ==
  ASSUME NEW o \in Options, o.opt \in ParaName
  PROVE  o \in ParaOption
  BY DEF Options, SlotOption, ParaOption, ParaName, IdleOption

(* Between opening the file and the access, the option is an accepted -s;   *)
(* an operation is under way only if one was given.                         *)
Pending ==
  /\ phase = "access" =>
       /\ optind <= Len(cmd) /\ Option.opt = "s" /\ Accepted(Option)
       /\ fd \in Uent
  /\ phase \in {"instance", "request"} => para["b"] # Absent
  /\ phase = "request" => ParametersGiven

Inv == TypeOK /\ Pending

(* The values an access records.                                            *)
LEMMA AcceptedFields ==
  ASSUME TypeOK, optind <= Len(cmd), Option.opt = "s", Accepted(Option)
  PROVE  /\ Option.uent \in Uent /\ Option.position \in Address
         /\ Option.width \in Width /\ Option.position % Option.width = 0
         /\ Writeable(Option) => Option.value \in Nat
         /\ Load(config[Option.uent], Option.position, Option.width) \in Nat
<1>1. Option \in SlotOption
  BY SlotFields DEF TypeOK, Option
<1>2. /\ Option.uent \in Uent /\ Option.position \in Address
      /\ Option.width \in Width /\ Option.position % Option.width = 0
  BY DEF TypeOK, Accepted, Parsed, ParsedPosition
<1>3. Writeable(Option) => Option.value \in Nat
  BY <1>1 DEF Accepted, Parsed, ParsedValue, SlotOption, Number, Writeable
<1>4. config[Option.uent] \in [Address -> Byte]
  BY <1>2 DEF TypeOK
<1> QED
  BY <1>2, <1>3, <1>4, LoadTyped

(* Recording an access of an accepted option keeps the types.               *)
LEMMA RecordTyped ==
  ASSUME TypeOK, optind <= Len(cmd), Option.opt = "s", Accepted(Option),
         NEW ok \in BOOLEAN, NEW value \in Nat \cup {Flagged}, Record(ok, value),
         config' \in [Uent -> [Address -> Byte]], fd' = fd
  PROVE  TypeOK'
<1> DEFINE access ==
      [uent |-> Option.uent, on |-> fd, ok |-> ok, writeable |-> Writeable(Option),
       position |-> Option.position, width |-> Option.width, value |-> value,
       register |-> Load(config[Option.uent], Option.position, Option.width)]
<1>1. access \in AccessRecord
  BY AcceptedFields DEF AccessRecord, TypeOK, Writeable
<1>2. accesses' = Append(accesses, access)
  BY DEF Record
<1>3. accesses' \in Seq(AccessRecord)
  BY <1>1, <1>2 DEF TypeOK
<1> QED
  BY <1>3 DEF TypeOK, Record

LEMMA RequestTyped ==
  ASSUME TypeOK, para["b"] # Absent, ParametersGiven
  PROVE  Request \in Requests
<1>1. /\ para["b"] \in Nat /\ para["g"] \in Nat
      /\ OrZero(para["e"]) \in Nat /\ OrZero(para["u"]) \in Nat
  BY DEF TypeOK, ParaName, ParametersGiven, OrZero
<1>2. CASE para["b"] = CREATE
  BY <1>1, <1>2 DEF Request, Requests
<1>3. CASE para["b"] = DESTROY
  BY <1>1, <1>3 DEF Request, Requests, CREATE, DESTROY
<1>4. CASE para["b"] \in {BIND, UNBIND}
  <2>1. para["d"] \in Nat
    BY <1>4 DEF ParametersGiven, TypeOK, ParaName
  <2>2. Request = [sub_cmd |-> para["b"], guid |-> para["g"], dev |-> para["d"]]
    BY <1>4 DEF Request, CREATE, DESTROY, BIND, UNBIND
  <2> QED
    BY <1>1, <1>4, <2>1, <2>2 DEF Requests
<1> QED
  BY <1>2, <1>3, <1>4 DEF TypeOK, Operation

----------------------------------------------------------------------------
LEMMA InitTyped ==
  ASSUME Init
  PROVE  Inv
<1>1. /\ cmd \in Seq(Options) /\ config \in [Uent -> [Address -> Byte]]
      /\ accesses \in Seq(AccessRecord)
  BY ConfigAssumption, CommandLinesAssumption DEF Init
<1>2. /\ para \in [ParaName -> Nat \cup {Absent}]
      /\ para["b"] \in Operation \cup {Absent}
  BY DEF Init, ParaName
<1>3. /\ optind \in Nat \ {0} /\ ret \in {0, EINVAL} /\ uents \subseteq Uent
      /\ fd \in Uent \cup {Closed} /\ present \subseteq Uent /\ request \in Requests
  BY DEF Init, Requests
<1>4. /\ cluster \in BOOLEAN /\ modeChanged \in BOOLEAN /\ mode = "unread"
      /\ phase = "scan"
  BY DEF Init
<1>5. TypeOK
  BY <1>1, <1>2, <1>3, <1>4 DEF TypeOK
<1>6. Pending
  BY <1>4 DEF Pending
<1> QED
  BY <1>5, <1>6 DEF Inv

(* Each step keeps the types.                                               *)
LEMMA StepTyped ==
  ASSUME Inv, [Next]_vars
  PROVE  TypeOK'
<1> USE DEF Inv
<1>1. CASE Scan
  BY <1>1 DEF Scan, TypeOK, machine
<1>2. CASE Idle
  BY <1>2 DEF Idle, TypeOK, machine
<1>3. CASE SetPara
  <2>1. Option \in ParaOption
    BY <1>3, ParaFields DEF SetPara, Taking, TypeOK, Option
  <2>2. para' = [para EXCEPT ![Option.opt] = Option.arg]
    BY <1>3 DEF SetPara, Stored
  <2>3. Option.arg \in Nat /\ (Option.opt = "b" => Option.arg \in Operation)
    BY <1>3, <2>1
       DEF SetPara, ParaOption, Operation, CREATE, DESTROY, BIND, UNBIND
  <2>4. Option.opt \in ParaName
    BY <1>3 DEF SetPara, Taking
  <2>5. para' \in [ParaName -> Nat \cup {Absent}]
    BY <2>2, <2>3, <2>4 DEF TypeOK
  <2>6. para'["b"] \in Operation \cup {Absent}
    BY <2>2, <2>3, <2>4 DEF TypeOK, ParaName
  <2> QED
    BY <1>3, <2>5, <2>6 DEF SetPara, Taking, TypeOK, machine
<1>4. CASE RefusePara \/ MissingReg
  BY <1>4 DEF RefusePara, MissingReg, GiveUp, TypeOK, machine
<1>5. CASE RefuseSlot
  BY <1>5 DEF RefuseSlot, RefusedStatus, TypeOK, machine
<1>6. CASE Setup
  <2>1. Option.uent \in Uent
    BY <1>6, AcceptedFields DEF Setup, Slot, Taking
  <2> QED
    BY <1>6, <2>1 DEF Setup, OpenOf, TypeOK, machine
<1>7. CASE SetupFails
  <2>1. (IF Writeable(Option) THEN Option.value ELSE 0) \in Nat
    BY <1>7, AcceptedFields DEF SetupFails, Slot, Taking
  <2> QED
    BY <1>7, <2>1, RecordTyped DEF SetupFails, Slot, Taking, TypeOK, Record
<1>8. CASE Write
  <2>1. /\ Option.position \in Address /\ Option.width \in Width
        /\ Option.value \in Nat
    BY <1>8, AcceptedFields DEF Write, Pending
  <2>2. config[fd] \in [Address -> Byte]
    BY <1>8 DEF Write, TypeOK
  <2>3. Store(config[fd], Option.position, Option.width, Option.value)
          \in [Address -> Byte]
    BY <2>1, <2>2, StoreTyped
  <2>4. config' \in [Uent -> [Address -> Byte]]
    BY <1>8, <2>3 DEF Write, TypeOK
  <2> QED
    BY <1>8, <2>1, <2>4, RecordTyped DEF Write, Pending, Record
<1>9. CASE Read
  <2>1. /\ Option.position \in Address /\ Option.width \in Width
        /\ Option.position % Option.width = 0
    BY <1>9, AcceptedFields DEF Read, Pending
  <2>2. config[fd] \in [Address -> Byte]
    BY <1>9 DEF Read, TypeOK
  <2>3. Load(config[fd], Option.position, Option.width) \in Nat
    BY <2>1, <2>2, LoadTyped
  <2>4. PICK value \in {Load(config[fd], Option.position, Option.width), Flagged} :
          Record(TRUE, value)
    BY <1>9 DEF Read
  <2>5. value \in Nat \cup {Flagged}
    BY <2>3, <2>4
  <2> QED
    BY <1>9, <2>4, <2>5, RecordTyped DEF Read, Pending, Record, TypeOK
<1>10. CASE AccessFails
  <2>1. (IF Writeable(Option) THEN Option.value ELSE 0) \in Nat
    BY <1>10, AcceptedFields DEF AccessFails, Pending
  <2> QED
    BY <1>10, <2>1, RecordTyped DEF AccessFails, Pending, Record, TypeOK
<1>11. CASE OptionsDone
  BY <1>11 DEF OptionsDone, TypeOK, machine
<1>12. CASE ParametersRefused \/ CheckCluster
  BY <1>12 DEF ParametersRefused, CheckCluster, TypeOK, machine
<1>13. CASE OptBi
  <2>1. Request \in Requests
    BY <1>13, RequestTyped DEF OptBi, Pending
  <2> QED
    BY <1>13, <2>1 DEF OptBi, TypeOK, machine
<1>14. CASE Cleanup
  BY <1>14 DEF Cleanup, TypeOK, machine
<1>15. ASSUME NEW u \in Uent, Unplug(u)
       PROVE  TypeOK'
  BY <1>15 DEF Unplug, TypeOK
<1>16. CASE ChangeMode
  BY <1>16 DEF ChangeMode, TypeOK
<1>17. CASE UNCHANGED vars
  BY <1>17 DEF vars, machine, TypeOK
<1> QED
  BY <1>1, <1>2, <1>3, <1>4, <1>5, <1>6, <1>7, <1>8, <1>9, <1>10, <1>11, <1>12,
     <1>13, <1>14, <1>15, <1>16, <1>17 DEF Next, Tool, Exited

LEMMA StepPending ==
  ASSUME Inv, [Next]_vars
  PROVE  Pending'
<1> USE DEF Inv
<1>1. CASE Setup
  <2>1. /\ optind <= Len(cmd) /\ Option.opt = "s" /\ Accepted(Option)
        /\ Option.uent \in Uent
    BY <1>1, AcceptedFields DEF Setup, Slot, Taking
  <2>2. fd' \in Uent /\ phase' = "access"
    BY <1>1, <2>1 DEF Setup, OpenOf, TypeOK
  <2> QED
    BY <1>1, <2>1, <2>2
       DEF Setup, Pending, Option, Accepted, Parsed, ParsedPosition, ParsedValue,
           Writeable, machine
<1>2. CASE OptionsDone
  BY <1>2 DEF OptionsDone, Proceeds, Pending
<1>3. CASE Scan \/ Idle \/ SetPara \/ RefuseSlot
  BY <1>3 DEF Scan, Idle, SetPara, RefuseSlot, Taking, Pending
<1>4. CASE RefusePara \/ MissingReg \/ ParametersRefused \/ OptBi \/ Cleanup
  BY <1>4 DEF RefusePara, MissingReg, GiveUp, ParametersRefused, OptBi, Cleanup, Pending
<1>5. CASE SetupFails \/ Write \/ Read \/ AccessFails
  BY <1>5 DEF SetupFails, Write, Read, AccessFails, Record, Pending
<1>6. CASE (\E u \in Uent : Unplug(u)) \/ ChangeMode \/ UNCHANGED vars
  BY <1>6 DEF Unplug, ChangeMode, vars, machine, ParametersGiven, Pending, Option, Accepted, Parsed, ParsedPosition,
              ParsedValue, Writeable
<1>7. CASE CheckCluster
  BY <1>7 DEF CheckCluster, ParametersGiven, Pending
<1> QED
  BY <1>1, <1>2, <1>3, <1>4, <1>5, <1>6, <1>7 DEF Next, Tool, Exited

THEOREM Invariant == Spec => []Inv
<1>1. Init => Inv
  BY InitTyped
<1>2. Inv /\ [Next]_vars => Inv'
  BY StepTyped, StepPending DEF Inv
<1> QED
  BY <1>1, <1>2, PTL DEF Spec

(* TypeOK for every run of setub.                                           *)
THEOREM TypeCorrect == Spec => []TypeOK
<1>1. Inv => TypeOK
  BY DEF Inv
<1> QED
  BY <1>1, Invariant, PTL

(* The alignment test of parse_width together with the bound on the first   *)
(* byte in parse_position keeps every register inside the space; what an    *)
(* access transfers passes the end for the flags of the last register only. *)
THEOREM AccessesStayInside == Spec => []WithinConfigSpace
<1>1. Inv => WithinConfigSpace
  <2> SUFFICES ASSUME Inv, phase = "access"
               PROVE  /\ Option.position + Option.width - 1 \in Address
                      /\ Option.position + Transferred(Option) - 1 \notin Address =>
                           /\ ~ Writeable(Option)
                           /\ Option.position + Option.width = MaxPosition + 1
    BY DEF WithinConfigSpace
  <2>1. /\ Option.position \in Address /\ Option.width \in Width
        /\ Option.position % Option.width = 0
    BY AcceptedFields DEF Inv, Pending
  <2>2. Option.position + Option.width - 1 \in Address
    BY <2>1, AlignedEnd
  <2>3. ASSUME Option.position + Transferred(Option) - 1 \notin Address
        PROVE  ~ Writeable(Option)
    BY <2>2, <2>3 DEF Transferred
  <2>4. ASSUME Option.position + Transferred(Option) - 1 \notin Address
        PROVE  Option.position + Option.width = MaxPosition + 1
    <3>1. Transferred(Option) = 2 * Option.width
      BY <2>3, <2>4 DEF Transferred
    <3>2. CASE Option.position + Option.width - 1 = MaxPosition
      BY <2>1, <3>2, PositionAssumption DEF Address, Width
    <3>3. CASE Option.position + Option.width - 1 # MaxPosition
      <4> PICK p \in Address, w \in Width : p = Option.position /\ w = Option.width
        BY <2>1
      <4>1. p + w \in Address
        BY <2>2, <3>3, PositionAssumption DEF Address, Width
      <4>2. (p + w) % w = 0
        BY <2>1 DEF Width, Address
      <4>3. p + w + w - 1 \in Address
        BY <4>1, <4>2, AlignedEnd
      <4>4. p + w + w - 1 = p + 2 * w - 1
        BY PositionAssumption DEF Address, Width
      <4> QED
        BY <2>4, <3>1, <4>3, <4>4
    <3> QED
      BY <3>2, <3>3
  <2> QED
    BY <2>2, <2>3, <2>4
<1> QED
  BY <1>1, Invariant, PTL

----------------------------------------------------------------------------
(* The status follows the last -s among the options taken so far.           *)
AcceptedUpTo(n) ==
  \A i \in 1 .. n :
    cmd[i].opt = "s" /\ (\A j \in i + 1 .. n : cmd[j].opt # "s") => Accepted(cmd[i])

ParsedUpTo(n) ==
  \A i \in 1 .. n : cmd[i].opt \in ParaName => cmd[i].arg # Invalid

Status ==
  /\ optind <= Len(cmd) + 1
  /\ ParsedUpTo(optind - 1)
  /\ phase = "scan" => optind = 1
  /\ phase \in {"option", "access", "instance", "request"} =>
       (ret = 0 <=> AcceptedUpTo(optind - 1))
  /\ phase \in {"instance", "request"} => optind = Len(cmd) + 1 /\ ret = 0
  /\ phase \notin {"cleanup", "exited"} => request = None
  /\ phase \in {"cleanup", "exited"} =>
       \/ /\ request = None /\ ret # 0
          /\ optind <= Len(cmd) \/ cmd = <<>>
       \/ /\ optind = Len(cmd) + 1
          /\ ret = 0 <=> AcceptedUpTo(Len(cmd))
          /\ request # None => ret = 0

LEMMA UpToSlot ==
  ASSUME NEW n \in Nat, cmd[n + 1].opt = "s"
  PROVE  AcceptedUpTo(n + 1) <=> Accepted(cmd[n + 1])
<1>1. ASSUME AcceptedUpTo(n + 1)
      PROVE  Accepted(cmd[n + 1])
  <2>1. n + 1 \in 1 .. n + 1 /\ \A j \in n + 1 + 1 .. n + 1 : cmd[j].opt # "s"
    OBVIOUS
  <2> QED
    BY <1>1, <2>1 DEF AcceptedUpTo
<1>2. ASSUME Accepted(cmd[n + 1])
      PROVE  AcceptedUpTo(n + 1)
  <2> SUFFICES ASSUME NEW i \in 1 .. n + 1,
                      \A j \in i + 1 .. n + 1 : cmd[j].opt # "s"
               PROVE  Accepted(cmd[i])
    BY DEF AcceptedUpTo
  <2>1. i = n + 1
    <3>1. SUFFICES ASSUME i # n + 1
                   PROVE  FALSE
      OBVIOUS
    <3>2. n + 1 \in i + 1 .. n + 1
      BY <3>1
    <3> QED
      BY <3>2
  <2> QED
    BY <1>2, <2>1
<1> QED
  BY <1>1, <1>2

LEMMA UpToOther ==
  ASSUME NEW n \in Nat, cmd[n + 1].opt # "s"
  PROVE  AcceptedUpTo(n + 1) <=> AcceptedUpTo(n)
<1>1. \A i \in 1 .. n :
        (\A j \in i + 1 .. n + 1 : cmd[j].opt # "s")
          <=> (\A j \in i + 1 .. n : cmd[j].opt # "s")
  <2> TAKE i \in 1 .. n
  <2>1. \A j \in i + 1 .. n + 1 : j \in i + 1 .. n \/ j = n + 1
    OBVIOUS
  <2>2. \A j \in i + 1 .. n : j \in i + 1 .. n + 1
    OBVIOUS
  <2> QED
    BY <2>1, <2>2
<1>2. \A i \in 1 .. n + 1 : i \in 1 .. n \/ i = n + 1
  OBVIOUS
<1>3. \A i \in 1 .. n : i \in 1 .. n + 1
  OBVIOUS
<1> QED
  BY <1>1, <1>2, <1>3 DEF AcceptedUpTo

(* What the options taken so far were does not change.                      *)
LEMMA UpToStable ==
  ASSUME UNCHANGED <<cmd, uents>>
  PROVE  /\ \A n \in Nat : AcceptedUpTo(n)' <=> AcceptedUpTo(n)
         /\ \A n \in Nat : ParsedUpTo(n)' <=> ParsedUpTo(n)
  BY DEF AcceptedUpTo, ParsedUpTo, Accepted, Parsed, ParsedPosition, ParsedValue,
         Writeable

(* An option that is no -s leaves the status, an accepted one clears it and *)
(* a refused one sets it.                                                   *)
LEMMA TakenKeepsStatus ==
  ASSUME Inv, Status, phase \in {"option", "access"}, optind <= Len(cmd),
         optind' = optind + 1, phase' = "option", UNCHANGED <<cmd, uents, request>>,
         Option.opt \in ParaName => Option.arg # Invalid,
         IF Option.opt = "s" THEN ret' = 0 <=> Accepted(Option) ELSE ret' = ret
  PROVE  Status'
<1>1. optind \in Nat /\ optind - 1 \in Nat /\ optind - 1 + 1 = optind
      /\ Len(cmd) \in Nat
  BY DEF Inv, TypeOK
<1>2. /\ AcceptedUpTo(optind - 1)' <=> AcceptedUpTo(optind)
      /\ ParsedUpTo(optind - 1)' <=> ParsedUpTo(optind)
  <2>1. optind' - 1 = optind
    BY <1>1
  <2> QED
    BY <2>1 DEF AcceptedUpTo, ParsedUpTo, Accepted, Parsed, ParsedPosition,
                ParsedValue, Writeable
<1>3. ret' = 0 <=> AcceptedUpTo(optind)
  <2>1. CASE Option.opt = "s"
    BY <1>1, <2>1, UpToSlot DEF Option
  <2>2. CASE Option.opt # "s"
    BY <1>1, <2>2, UpToOther DEF Option, Status
  <2> QED
    BY <2>1, <2>2
<1>4. ParsedUpTo(optind)
  <2>1. \A i \in 1 .. optind : i \in 1 .. optind - 1 \/ i = optind
    BY <1>1
  <2> QED
    BY <2>1 DEF Status, ParsedUpTo, Option
<1>5. request' = None
  BY DEF Status
<1> QED
  BY <1>1, <1>2, <1>3, <1>4, <1>5 DEF Status

LEMMA StepStatus ==
  ASSUME Inv, Status, [Next]_vars
  PROVE  Status'
<1>1. optind \in Nat /\ optind - 1 \in Nat /\ Len(cmd) \in Nat
  BY DEF Inv, TypeOK
<1>2. CASE Scan
  <2>1. optind' = 1 /\ cmd' = cmd /\ request' = None
    BY <1>2 DEF Scan, Status
  <2>2. AcceptedUpTo(0)' /\ ParsedUpTo(0)'
    BY DEF AcceptedUpTo, ParsedUpTo
  <2>3. (optind - 1)' = 0
    BY <2>1
  <2>4. 1 <= Len(cmd) \/ cmd = <<>>
    BY <1>1 DEF Inv, TypeOK
  <2>5. CASE ret' = 0 /\ phase' = "option"
    BY <1>1, <2>1, <2>2, <2>3, <2>5 DEF Status
  <2>6. CASE ret' = EINVAL /\ phase' = "cleanup"
    BY <1>1, <2>1, <2>2, <2>3, <2>4, <2>6 DEF Status
  <2> QED
    BY <1>2, <2>5, <2>6 DEF Scan
<1>3. CASE Idle
  BY <1>3, TakenKeepsStatus DEF Idle, Taking, ParaName
<1>4. CASE SetPara
  BY <1>4, TakenKeepsStatus DEF SetPara, Taking, ParaName
<1>5. CASE RefuseSlot
  <2>1. ret' = EINVAL /\ ~ Accepted(Option) /\ Option.opt = "s"
    BY <1>5 DEF RefuseSlot, RefusedStatus, Taking
  <2> QED
    BY <1>5, <2>1, TakenKeepsStatus DEF RefuseSlot, Taking, ParaName
<1>6. CASE SetupFails
  BY <1>6, TakenKeepsStatus DEF SetupFails, Slot, Taking, Record, ParaName
<1>7. CASE Write \/ Read \/ AccessFails
  BY <1>7, TakenKeepsStatus
     DEF Write, Read, AccessFails, Record, ParaName, Inv, Pending
<1>8. CASE RefusePara \/ MissingReg
  <2>1. /\ ret' = EINVAL /\ phase' = "cleanup" /\ optind <= Len(cmd)
        /\ UNCHANGED <<cmd, optind, uents, request>> /\ phase = "option"
    BY <1>8 DEF RefusePara, MissingReg, GiveUp, Taking
  <2>2. ParsedUpTo(optind - 1)'
    BY <1>1, <2>1, UpToStable DEF Status
  <2> QED
    BY <1>1, <2>1, <2>2 DEF Status
<1>9. CASE UNCHANGED <<cmd, optind, uents, ret>>
           /\ (Setup \/ OptionsDone \/ ParametersRefused \/ CheckCluster \/ OptBi
               \/ Cleanup \/ (\E u \in Uent : Unplug(u)) \/ ChangeMode
               \/ UNCHANGED vars)
  <2>1. /\ AcceptedUpTo(optind - 1)' <=> AcceptedUpTo(optind - 1)
        /\ ParsedUpTo(optind - 1)' <=> ParsedUpTo(optind - 1)
        /\ AcceptedUpTo(Len(cmd))' <=> AcceptedUpTo(Len(cmd))
    BY <1>1, <1>9, UpToStable
  <2>2. CASE Setup
    BY <1>9, <2>1, <2>2 DEF Setup, Slot, Taking, Status
  <2>3. CASE OptionsDone
    <3>1. optind = Len(cmd) + 1 /\ optind - 1 = Len(cmd)
      BY <1>1, <2>3 DEF OptionsDone, Status
    <3> QED
      BY <1>9, <2>1, <2>3, <3>1 DEF OptionsDone, Proceeds, Status
  <2>4. CASE ParametersRefused \/ OptBi
    <3>1. optind = Len(cmd) + 1 /\ optind - 1 = Len(cmd) /\ ret = 0
          /\ AcceptedUpTo(Len(cmd)) /\ phase' = "cleanup"
      BY <1>1, <2>4 DEF ParametersRefused, OptBi, Status
    <3> QED
      BY <1>9, <2>1, <2>4, <3>1 DEF Status
  <2>5. CASE Cleanup
    BY <1>9, <2>1, <2>5 DEF Cleanup, Status
  <2>6. CASE (\E u \in Uent : Unplug(u)) \/ ChangeMode \/ UNCHANGED vars
    BY <1>9, <2>1, <2>6 DEF Unplug, ChangeMode, vars, Status
  <2>7. CASE CheckCluster
    <3>1. optind = Len(cmd) + 1 /\ optind - 1 = Len(cmd) /\ ret = 0
          /\ AcceptedUpTo(Len(cmd)) /\ phase' \in {"request", "cleanup"}
          /\ request' = None
      BY <1>1, <2>7 DEF CheckCluster, Status
    <3> QED
      BY <1>9, <2>1, <2>7, <3>1 DEF Status
  <2> QED
    BY <1>9, <2>2, <2>3, <2>4, <2>5, <2>6, <2>7
<1>10. CASE Setup \/ OptionsDone \/ ParametersRefused \/ CheckCluster \/ OptBi
           \/ Cleanup \/ (\E u \in Uent : Unplug(u)) \/ ChangeMode \/ UNCHANGED vars
  BY <1>9, <1>10
     DEF Setup, OptionsDone, ParametersRefused, CheckCluster, OptBi, Cleanup, Unplug,
         ChangeMode, vars
<1> QED
  BY <1>2, <1>3, <1>4, <1>5, <1>6, <1>7, <1>8, <1>10 DEF Next, Tool, Exited

LEMMA StatusInvariant == Spec => []Status
<1>1. Init => Status
  <2> SUFFICES ASSUME Init
               PROVE  Status
    OBVIOUS
  <2>1. cmd \in Seq(Options)
    BY CommandLinesAssumption DEF Init
  <2> QED
    BY <2>1 DEF Init, Status, ParsedUpTo
<1>2. Inv /\ Status /\ [Next]_vars => Status'
  BY StepStatus
<1> QED
  BY <1>1, <1>2, Invariant, PTL DEF Spec

(* The last -s of a whole command line.                                     *)
LEMMA LastSlot == cmd \in Seq(Options) => (LastSlotAccepted <=> AcceptedUpTo(Len(cmd)))
<1> SUFFICES ASSUME cmd \in Seq(Options)
             PROVE  LastSlotAccepted <=> AcceptedUpTo(Len(cmd))
  OBVIOUS
<1>1. DOMAIN cmd = 1 .. Len(cmd)
  OBVIOUS
<1> QED
  BY <1>1 DEF LastSlotAccepted, AcceptedUpTo

(* A request is sent only after every option was taken without one that     *)
(* ends the loop, and with the status left at 0 by the last -s.             *)
THEOREM RequestsFollowSuccess == Spec => []NoRequestAfterFailure
<1>1. Inv /\ Status => NoRequestAfterFailure
  <2> SUFFICES ASSUME Inv, Status, request # None
               PROVE  LastSlotAccepted
                      /\ \A i \in DOMAIN cmd : cmd[i].opt \in ParaName
                                               => cmd[i].arg # Invalid
    BY DEF NoRequestAfterFailure
  <2>1. cmd \in Seq(Options) /\ Len(cmd) \in Nat /\ DOMAIN cmd = 1 .. Len(cmd)
    BY DEF Inv, TypeOK
  <2>2. optind = Len(cmd) + 1 /\ optind - 1 = Len(cmd) /\ AcceptedUpTo(Len(cmd))
    BY <2>1 DEF Status
  <2> QED
    BY <2>1, <2>2, LastSlot DEF Status, ParsedUpTo
<1> QED
  BY <1>1, Invariant, StatusInvariant, PTL

(* The exit status tells of the last -s only.                               *)
THEOREM ExitStatusTold == Spec => []ExitStatus
<1>1. Inv /\ Status => ExitStatus
  <2> SUFFICES ASSUME Inv, Status
               PROVE  ExitStatus
    OBVIOUS
  <2>1. cmd \in Seq(Options) /\ Len(cmd) \in Nat /\ optind \in Nat
    BY DEF Inv, TypeOK
  <2> QED
    BY <2>1, LastSlot DEF Status, ExitStatus
<1> QED
  BY <1>1, Invariant, StatusInvariant, PTL

----------------------------------------------------------------------------
(* Only entities that the command line names are ever opened or accessed.   *)
Named(u) == \E i \in DOMAIN cmd : cmd[i].opt = "s" /\ cmd[i].uent = u

NamedOnly ==
  /\ fd # Closed => Named(fd)
  /\ \A i \in DOMAIN accesses :
       /\ Named(accesses[i].uent)
       /\ accesses[i].ok => Named(accesses[i].on)

LEMMA RecordNamed ==
  ASSUME Inv, NamedOnly, optind <= Len(cmd), Option.opt = "s",
         NEW ok \in BOOLEAN, NEW value, Record(ok, value), fd' = fd,
         ok => fd # Closed
  PROVE  NamedOnly'
<1>1. cmd' = cmd
  BY DEF Record
<1>2. Named(Option.uent)
  <2>1. optind \in DOMAIN cmd
    BY DEF Inv, TypeOK
  <2> QED
    BY <2>1 DEF Named, Option
<1> DEFINE access ==
      [uent |-> Option.uent, on |-> fd, ok |-> ok, writeable |-> Writeable(Option),
       position |-> Option.position, width |-> Option.width, value |-> value,
       register |-> Load(config[Option.uent], Option.position, Option.width)]
<1>3. accesses' = Append(accesses, access)
  BY DEF Record
<1>4. access.uent = Option.uent /\ access.on = fd /\ access.ok = ok
  OBVIOUS
<1> HIDE DEF access
<1>5. accesses \in Seq(AccessRecord)
  BY DEF Inv, TypeOK
<1>6. \A i \in DOMAIN accesses' :
        \/ i \in DOMAIN accesses /\ accesses'[i] = accesses[i]
        \/ accesses'[i] = access
  BY <1>3, <1>5
<1>7. \A i \in DOMAIN accesses' :
        Named(accesses'[i].uent) /\ (accesses'[i].ok => Named(accesses'[i].on))
  BY <1>2, <1>4, <1>6 DEF NamedOnly
<1> QED
  BY <1>1, <1>7 DEF NamedOnly, Named

LEMMA StepNamed ==
  ASSUME Inv, NamedOnly, [Next]_vars
  PROVE  NamedOnly'
<1>1. CASE Setup
  <2>1. optind \in DOMAIN cmd /\ Option.opt = "s"
    BY <1>1 DEF Setup, Slot, Taking, Inv, TypeOK
  <2>2. fd' \in {fd, Option.uent} /\ (fd = Closed => fd' = Option.uent)
        /\ UNCHANGED <<cmd, accesses>>
    BY <1>1 DEF Setup, OpenOf
  <2>3. Named(fd')
    BY <2>1, <2>2 DEF NamedOnly, Named, Option
  <2> QED
    BY <2>2, <2>3 DEF NamedOnly, Named
<1>2. CASE SetupFails
  BY <1>2, RecordNamed DEF SetupFails, Slot, Taking, Record
<1>3. CASE Write
  <2>1. optind <= Len(cmd) /\ Option.opt = "s" /\ fd # Closed
    BY <1>3, UentAssumption DEF Write, Inv, Pending
  <2>2. Record(TRUE, Option.value) /\ fd' = fd
    BY <1>3 DEF Write, Record
  <2> QED
    BY <2>1, <2>2, RecordNamed
<1>4. CASE Read
  <2>1. optind <= Len(cmd) /\ Option.opt = "s" /\ fd # Closed
    BY <1>4, UentAssumption DEF Read, Inv, Pending
  <2>2. fd' = fd /\ \E value : Record(TRUE, value)
    BY <1>4 DEF Read, Record
  <2> QED
    BY <2>1, <2>2, RecordNamed
<1>5. CASE AccessFails
  BY <1>5, RecordNamed DEF AccessFails, Record, Inv, Pending
<1>6. CASE Cleanup
  BY <1>6 DEF Cleanup, NamedOnly, Named
<1>7. CASE Scan \/ Idle \/ SetPara \/ RefusePara \/ MissingReg \/ RefuseSlot
           \/ OptionsDone \/ ParametersRefused \/ CheckCluster \/ OptBi
           \/ (\E u \in Uent : Unplug(u)) \/ ChangeMode \/ UNCHANGED vars
  <2>1. UNCHANGED <<cmd, fd, accesses>>
    BY <1>7 DEF Scan, Idle, SetPara, RefusePara, MissingReg, GiveUp, RefuseSlot,
                OptionsDone, ParametersRefused, CheckCluster, OptBi, Unplug,
                ChangeMode, vars
  <2> QED
    BY <2>1 DEF NamedOnly, Named
<1> QED
  BY <1>1, <1>2, <1>3, <1>4, <1>5, <1>6, <1>7 DEF Next, Tool, Exited

(* With one entity on the command line, the descriptor that all accesses    *)
(* share is that entity's.                                                  *)
THEOREM SharedDescriptorExact == Spec => []SingleEntityExact
<1>1. Init => NamedOnly
  BY DEF Init, NamedOnly
<1>2. Inv /\ NamedOnly /\ [Next]_vars => NamedOnly'
  BY StepNamed
<1>3. NamedOnly => SingleEntityExact
  BY DEF NamedOnly, Named, SingleEntityExact
<1> QED
  BY <1>1, <1>2, <1>3, Invariant, PTL DEF Spec

----------------------------------------------------------------------------
(* Between the check and the ioctl: what the check saw is the mode unless   *)
(* it could not be read or has changed since.                               *)
Checked ==
  /\ phase = "request" /\ cluster /\ mode # "unreadable" /\ ~ modeChanged
       => Allowed(TRUE)
  /\ ClusterBindsIDEV

LEMMA StepChecked ==
  ASSUME Inv, Status, Checked, [Next]_vars
  PROVE  Checked'
<1>1. CASE CheckCluster
  <2>1. /\ request = None /\ UNCHANGED <<request, cluster, modeChanged, para>>
    BY <1>1 DEF CheckCluster, Status, machine
  <2>2. ClusterBindsIDEV'
    BY <2>1 DEF ClusterBindsIDEV
  <2>3. ASSUME phase' = "request", cluster, mode' # "unreadable"
        PROVE  Allowed(TRUE)
    <3>1. mode' = "on"
      BY <1>1, <2>3 DEF CheckCluster
    <3>2. Allowed(mode' = "on")
      BY <1>1, <2>3 DEF CheckCluster
    <3> QED
      BY <3>1, <3>2 DEF Allowed
  <2>4. Allowed(TRUE)' <=> Allowed(TRUE)
    BY <2>1 DEF Allowed
  <2> QED
    BY <2>1, <2>2, <2>3, <2>4 DEF Checked
<1>2. CASE OptBi
  <2>1. /\ UNCHANGED <<cluster, mode, modeChanged>> /\ phase' = "cleanup"
        /\ (request' = Request \/ request' = request)
    BY <1>2 DEF OptBi, machine
  <2>2. CASE request' = Request
    <3> SUFFICES ASSUME cluster, mode # "unreadable", ~ modeChanged,
                        Request.sub_cmd \in {BIND, UNBIND}
                 PROVE  Request.dev \in IDEV
      BY <2>1, <2>2 DEF Checked, ClusterBindsIDEV
    <3>1. para["b"] \in {BIND, UNBIND}
      BY DEF Request, CREATE, DESTROY, BIND, UNBIND
    <3>2. para["d"] \in IDEV
      BY <1>2, <3>1 DEF OptBi, Checked, Allowed
    <3> QED
      BY <3>1, <3>2 DEF Request, CREATE, DESTROY, BIND, UNBIND
  <2> QED
    BY <2>1, <2>2 DEF Checked, ClusterBindsIDEV
<1>3. CASE ChangeMode
  BY <1>3 DEF ChangeMode, Checked, ClusterBindsIDEV
<1>4. ASSUME UNCHANGED <<cluster, modeChanged, mode, request>>,
             phase' # "request" \/ (phase = "request" /\ UNCHANGED para)
      PROVE  Checked'
  BY <1>4 DEF Checked, ClusterBindsIDEV, Allowed
<1> QED
  BY <1>1, <1>2, <1>3, <1>4
     DEF Next, Tool, Scan, Idle, SetPara, RefusePara, MissingReg, GiveUp, RefuseSlot,
         Setup, SetupFails, Write, Read, AccessFails, Record, OptionsDone, Taking, Slot,
         ParametersRefused, Cleanup, Unplug, Exited, vars, machine

(* In cluster mode no entity but one of type IDEV is bound or unbound, if   *)
(* the mode could be read and did not change after it was.                  *)
THEOREM ClusterProtected == Spec => []ClusterBindsIDEV
<1>1. Init => Checked
  BY DEF Init, Checked, ClusterBindsIDEV
<1>2. Inv /\ Status /\ Checked /\ [Next]_vars => Checked'
  BY StepChecked
<1>3. Checked => ClusterBindsIDEV
  BY DEF Checked
<1> QED
  BY <1>1, <1>2, <1>3, Invariant, StatusInvariant, PTL DEF Spec

----------------------------------------------------------------------------
(* What the first n options say last of a parameter.                        *)
GivenUpTo(p, n) == LastOf(cmd, {i \in 1 .. n : cmd[i].opt = p})

LEMMA GreatestChosen ==
  ASSUME NEW S \in SUBSET Nat, NEW n \in S, \A m \in S : m <= n
  PROVE  (CHOOSE x \in S : \A m \in S : m <= x) = n
<1> DEFINE c == CHOOSE x \in S : \A m \in S : m <= x
<1>1. c \in S /\ \A m \in S : m <= c
  OBVIOUS
<1> HIDE DEF c
<1>2. c <= n /\ n <= c /\ c \in Nat /\ n \in Nat
  BY <1>1
<1>3. c = n
  BY <1>2
<1> QED
  BY <1>3 DEF c

LEMMA GivenNext ==
  ASSUME NEW n \in Nat, NEW p
  PROVE  GivenUpTo(p, n + 1) =
           IF cmd[n + 1].opt = p THEN cmd[n + 1].arg ELSE GivenUpTo(p, n)
<1> DEFINE I == {i \in 1 .. n + 1 : cmd[i].opt = p}
           J == {i \in 1 .. n : cmd[i].opt = p}
<1>1. CASE cmd[n + 1].opt = p
  <2>1. n + 1 \in I /\ I # {} /\ I \in SUBSET Nat /\ \A i \in I : i <= n + 1
    BY <1>1
  <2>2. GivenUpTo(p, n + 1) = cmd[CHOOSE i \in I : \A j \in I : j <= i].arg
    BY <2>1 DEF GivenUpTo, LastOf
  <2> HIDE DEF I
  <2>3. (CHOOSE i \in I : \A j \in I : j <= i) = n + 1
    BY <2>1, GreatestChosen
  <2> QED
    BY <1>1, <2>2, <2>3
<1>2. CASE cmd[n + 1].opt # p
  <2>1. I = J
    BY <1>2
  <2> QED
    BY <1>2, <2>1 DEF GivenUpTo
<1> QED
  BY <1>1, <1>2

(* The parameters follow the options taken; a request, the whole line.      *)
Following ==
  /\ \A p \in ParaName : para[p] = GivenUpTo(p, optind - 1)
  /\ RequestMatchesCommandLine

LEMMA StepFollowing ==
  ASSUME Inv, Status, Following, [Next]_vars
  PROVE  Following'
<1> DEFINE Keeps == cmd' = cmd /\ (request' = request \/ request' = None)
<1>1. ASSUME Keeps
      PROVE  RequestMatchesCommandLine'
  BY <1>1 DEF Following, RequestMatchesCommandLine, Given
<1>2. ASSUME Keeps, UNCHANGED <<para, optind>>
      PROVE  Following'
  BY <1>1, <1>2 DEF Following, GivenUpTo
<1>3. ASSUME Keeps, optind' = optind + 1,
             \A p \in ParaName :
               para'[p] = IF Option.opt = p THEN Option.arg ELSE para[p]
      PROVE  Following'
  <2>1. optind - 1 \in Nat /\ (optind - 1) + 1 = optind /\ optind' - 1 = (optind - 1) + 1
    BY <1>3 DEF Inv, TypeOK
  <2>2. \A p : GivenUpTo(p, (optind - 1) + 1) =
          IF cmd[(optind - 1) + 1].opt = p
          THEN cmd[(optind - 1) + 1].arg ELSE GivenUpTo(p, optind - 1)
    BY <2>1, GivenNext
  <2>3. \A p : GivenUpTo(p, optind) =
          IF cmd[optind].opt = p THEN cmd[optind].arg ELSE GivenUpTo(p, optind - 1)
    BY <2>1, <2>2
  <2>4. \A p \in ParaName : para'[p] = GivenUpTo(p, optind)
    BY <1>3, <2>3 DEF Following, Option
  <2>5. optind' - 1 = optind /\ cmd' = cmd
    BY <1>3, <2>1
  <2>6. \A p \in ParaName : (GivenUpTo(p, optind - 1))' = GivenUpTo(p, optind)
    BY <2>5 DEF GivenUpTo
  <2> QED
    BY <1>1, <1>3, <2>4, <2>6 DEF Following
<1>4. CASE SetPara
  <2>1. para' = [para EXCEPT ![Option.opt] = Option.arg] /\ Option.opt \in ParaName
    BY <1>4 DEF SetPara, Stored, Taking
  <2>2. \A p \in ParaName : para'[p] = IF Option.opt = p THEN Option.arg ELSE para[p]
    BY <2>1 DEF Inv, TypeOK
  <2> QED
    BY <1>3, <1>4, <2>2 DEF SetPara
<1>5. CASE Idle \/ RefuseSlot
  <2>1. Option.opt \notin ParaName
    BY <1>5 DEF Idle, RefuseSlot, Taking, ParaName
  <2> QED
    BY <1>3, <1>5, <2>1 DEF Idle, RefuseSlot
<1>6. CASE SetupFails \/ Write \/ Read \/ AccessFails
  <2>1. Option.opt = "s"
    BY <1>6 DEF SetupFails, Slot, Taking, Write, Read, AccessFails, Inv, Pending
  <2>2. Option.opt \notin ParaName
    BY <2>1 DEF ParaName
  <2> QED
    BY <1>3, <1>6, <2>2 DEF SetupFails, Write, Read, AccessFails, Record
<1>7. CASE OptBi
  <2>1. UNCHANGED <<cmd, para, optind>> /\ (request' = Request \/ request' = request)
    BY <1>7 DEF OptBi
  <2>2. CASE request' = Request
    <3>1. DOMAIN cmd = 1 .. optind - 1
      <4>1. cmd \in Seq(Options) /\ optind = Len(cmd) + 1
        BY <1>7 DEF OptBi, Status, Inv, TypeOK
      <4>2. optind - 1 = Len(cmd) /\ DOMAIN cmd = 1 .. Len(cmd)
        BY <4>1
      <4> QED
        BY <4>2
    <3>2. \A p \in ParaName : para[p] = Given(p)
      BY <3>1 DEF Following, GivenUpTo, Given
    <3>3. para["b"] \in Operation
      BY <1>7 DEF OptBi, Inv, Pending, TypeOK
    <3>4. /\ Request.sub_cmd = para["b"] /\ Request.guid = para["g"]
          /\ para["b"] = CREATE =>
               Request.eid = OrZero(para["e"]) /\ Request.upi = OrZero(para["u"])
          /\ para["b"] \in {BIND, UNBIND} => Request.dev = para["d"]
      BY <3>3 DEF Request, Operation, CREATE, DESTROY, BIND, UNBIND
    <3>5. \A p \in ParaName : Given(p)' = Given(p)
      BY <2>1 DEF Given
    <3>6. RequestMatchesCommandLine'
      BY <2>2, <3>2, <3>4, <3>5 DEF RequestMatchesCommandLine, ParaName, OrZero
    <3> QED
      BY <2>1, <3>6 DEF Following, GivenUpTo
  <2> QED
    BY <1>2, <2>1, <2>2
<1>8. CASE Scan \/ RefusePara \/ MissingReg \/ Setup \/ OptionsDone
           \/ ParametersRefused \/ CheckCluster \/ Cleanup
           \/ (\E u \in Uent : Unplug(u)) \/ ChangeMode \/ UNCHANGED vars
  BY <1>2, <1>8 DEF Scan, RefusePara, MissingReg, GiveUp, Setup, OptionsDone,
                    ParametersRefused, CheckCluster, Cleanup, Unplug, ChangeMode, vars
<1> QED
  BY <1>4, <1>5, <1>6, <1>7, <1>8 DEF Next, Tool, Exited

(* The kernel is asked for what the command line says last of each          *)
(* parameter.                                                               *)
THEOREM RequestIsCommandLine == Spec => []RequestMatchesCommandLine
<1>1. Init => Following
  <2> SUFFICES ASSUME Init PROVE Following
    OBVIOUS
  <2>1. optind - 1 = 0 /\ \A p : {i \in 1 .. 0 : cmd[i].opt = p} = {}
    BY DEF Init
  <2>2. \A p : GivenUpTo(p, optind - 1) = Absent
    BY <2>1 DEF GivenUpTo, LastOf
  <2> QED
    BY <2>2 DEF Init, Following, RequestMatchesCommandLine
<1>2. Inv /\ Status /\ Following /\ [Next]_vars => Following'
  BY StepFollowing
<1>3. Following => RequestMatchesCommandLine
  BY DEF Following
<1> QED
  BY <1>1, <1>2, <1>3, Invariant, StatusInvariant, PTL DEF Spec

----------------------------------------------------------------------------
(* A register holds the digits of the number written to it.                 *)
LEMMA Distribute ==
  ASSUME NEW a \in Nat, NEW b \in Nat, NEW c \in Nat
  PROVE  a * (b + c) = a * b + a * c
  OBVIOUS

LEMMA Associate ==
  ASSUME NEW a \in Nat, NEW b \in Nat, NEW c \in Nat
  PROVE  (a * b) * c = a * (b * c)
  OBVIOUS

LEMMA ProductGrows ==
  ASSUME NEW a \in Nat, NEW b \in Nat, NEW c \in Nat, b <= c
  PROVE  a * b <= a * c
  OBVIOUS

LEMMA ProductLess ==
  ASSUME NEW c \in Nat, NEW x \in Nat, NEW y \in Nat, c * x < c * y
  PROVE  x < y
<1>1. CASE y <= x
  <2>1. c * y <= c * x
    BY <1>1
  <2> QED
    BY <2>1, NatTimes
<1> QED
  BY <1>1

LEMMA Division ==
  ASSUME NEW a \in Nat, NEW b \in Nat \ {0}
  PROVE  /\ a \div b \in Nat /\ a % b \in 0 .. b - 1
         /\ a = b * (a \div b) + (a % b)
  OBVIOUS

LEMMA Quotient ==
  ASSUME NEW b \in Nat \ {0}, NEW q \in Nat, NEW r \in 0 .. b - 1
  PROVE  (b * q + r) \div b = q
<1> DEFINE a == b * q + r
           p == a \div b
<1>1. a \in Nat /\ b * q \in Nat
  BY NatTimes
<1>2. p \in Nat /\ a % b \in 0 .. b - 1 /\ a = b * p + (a % b)
  BY <1>1, Division
<1>3. b * (p + 1) = b * p + b /\ b * (q + 1) = b * q + b
  BY <1>2
<1>4. b * p \in Nat /\ b * (p + 1) \in Nat /\ b * (q + 1) \in Nat
  BY <1>2, NatTimes
<1>5. b * p < b * (q + 1) /\ b * q < b * (p + 1)
  BY <1>1, <1>2, <1>3, <1>4
<1>6. p < q + 1 /\ q < p + 1
  <2> HIDE DEF p, a
  <2> QED
    BY <1>2, <1>5, ProductLess
<1> HIDE DEF p
<1>7. p = q
  BY <1>2, <1>6
<1> QED
  BY <1>7 DEF p

(* Dividing twice is dividing by the product.                               *)
LEMMA DivideTwice ==
  ASSUME NEW a \in Nat, NEW b \in Nat \ {0}, NEW c \in Nat \ {0}
  PROVE  /\ b * c \in Nat \ {0}
         /\ a \div (b * c) = (a \div b) \div c
<1> DEFINE p == a \div b
           q == p \div c
<1>1. p \in Nat /\ a % b \in 0 .. b - 1 /\ a = b * p + (a % b)
  BY Division
<1>2. q \in Nat /\ p % c \in 0 .. c - 1 /\ p = c * q + (p % c)
  BY <1>1, Division
<1> HIDE DEF p, q
<1> DEFINE s == p % c
           u == a % b
<1> HIDE DEF s, u
<1>3. s \in 0 .. c - 1 /\ u \in 0 .. b - 1 /\ p = c * q + s /\ a = b * p + u
  BY <1>1, <1>2 DEF s, u
<1>4. c * q \in Nat /\ b * (c * q) \in Nat /\ b * s \in Nat /\ b * c \in Nat
  BY <1>2, <1>3, NatTimes
<1>5. b * s <= b * (c - 1) /\ b * (c - 1) + b = b * c
  <2>1. s \in Nat /\ c - 1 \in Nat /\ s <= c - 1
    BY <1>3
  <2>2. b * (c - 1) + b * 1 = b * ((c - 1) + 1) /\ b * 1 = b
    BY <2>1, Distribute
  <2>3. (c - 1) + 1 = c
    OBVIOUS
  <2> QED
    BY <2>1, <2>2, <2>3, ProductGrows
<1>6. b * (c - 1) \in Nat
  BY NatTimes
<1>7. b * c > 0 /\ b * s + u \in 0 .. b * c - 1
  BY <1>3, <1>4, <1>5, <1>6
<1>8. b * p = (b * c) * q + b * s
  <2>1. b * (c * q + s) = b * (c * q) + b * s
    BY <1>3, <1>4, Distribute
  <2>2. (b * c) * q = b * (c * q)
    BY <1>2, Associate
  <2> QED
    BY <1>3, <2>1, <2>2
<1>9. a = (b * c) * q + (b * s + u)
  <2>1. (b * c) * q \in Nat
    BY <1>2, <1>4, NatTimes
  <2> QED
    BY <1>3, <1>4, <1>8, <2>1
<1>10. a \div (b * c) = q
  <2>1. b * c \in Nat \ {0}
    BY <1>4, <1>7
  <2> QED
    BY <1>2, <1>7, <1>9, <2>1, Quotient
<1> QED
  BY <1>4, <1>7, <1>10 DEF p, q

(* A number below Base ^ width is the sum of its weighted digits.           *)
LEMMA TwoDigits ==
  ASSUME NEW v \in Nat, v < Place(2)
  PROVE  v = Digit(v, 0) + Base * Digit(v, 1)
<1> DEFINE q == v \div Base
<1>1. Base \in Nat \ {0}
  BY BaseAssumption
<1>2. q \in Nat /\ v % Base \in 0 .. Base - 1 /\ v = Base * q + (v % Base)
  BY <1>1, Division
<1>3. Digit(v, 0) = v % Base /\ Digit(v, 1) = q % Base
  <2>1. v \div 1 = v
    OBVIOUS
  <2> QED
    BY <2>1 DEF Digit, Place
<1> HIDE DEF q
<1>4. Base * q < Base * Base /\ Base * q \in Nat
  BY <1>1, <1>2, NatTimes DEF Place
<1>5. q < Base
  BY <1>1, <1>2, <1>4, ProductLess
<1>6. q % Base = q
  BY <1>1, <1>2, <1>5
<1>7. Digit(v, 0) = v % Base /\ Digit(v, 1) = q
  BY <1>3, <1>6
<1>8. v = Digit(v, 0) + Base * Digit(v, 1)
  <2> HIDE DEF Digit
  <2>1. Base * q + (v % Base) = (v % Base) + Base * q
    BY <1>2, <1>4
  <2> QED
    BY <1>2, <1>7, <2>1
<1> QED
  BY <1>8

LEMMA FourDigits ==
  ASSUME NEW v \in Nat, v < Place(4)
  PROVE  v = Digit(v, 0) + Base * Digit(v, 1) + Place(2) * Digit(v, 2)
               + Place(3) * Digit(v, 3)
<1> DEFINE high == v \div Place(2)
           low == v % Place(2)
<1>1. Base \in Nat \ {0} /\ Place(2) = Base * Base /\ Place(2) \in Nat \ {0}
  BY BaseAssumption, PlaceTyped DEF Place
<1>2. /\ high \in Nat /\ low \in 0 .. Place(2) - 1 /\ low \in Nat
      /\ v = Place(2) * high + low
  <2>1. high \in Nat /\ low \in 0 .. Place(2) - 1 /\ v = Place(2) * high + low
    BY <1>1, Division
  <2> HIDE DEF high, low
  <2> QED
    BY <1>1, <2>1
<1> HIDE DEF high, low
<1>3. Place(3) = Place(2) * Base /\ Place(4) = Place(2) * Place(2)
  <2>1. Base * Base * Base * Base = (Base * Base) * (Base * Base)
    BY <1>1
  <2> QED
    BY <2>1 DEF Place
<1>4. Place(0) = 1 /\ Place(1) = Base
  BY DEF Place
<1>5. Digit(v, 2) = Digit(high, 0) /\ Digit(v, 3) = Digit(high, 1)
  <2>1. v \div Place(3) = high \div Base
    BY <1>1, <1>3, DivideTwice DEF high
  <2>2. high \div 1 = high
    BY <1>2
  <2> QED
    BY <1>4, <2>1, <2>2 DEF Digit, high
<1>6. Digit(v, 0) = Digit(low, 0) /\ Digit(v, 1) = Digit(low, 1)
  <2> DEFINE b == low \div Base
  <2>1. b \in Nat /\ low % Base \in 0 .. Base - 1 /\ low = Base * b + (low % Base)
    BY <1>1, <1>2, Division
  <2>2. Place(2) * high = Base * (Base * high)
    BY <1>1, <1>2
  <2>3. Base * high \in Nat /\ Base * high + b \in Nat
    <3>1. Base * high \in Nat
      BY <1>1, <1>2, NatTimes
    <3> QED
      BY <2>1, <3>1
  <2>4. v = Base * (Base * high) + (Base * b + (low % Base))
    BY <1>2, <2>1, <2>2
  <2>5. Base * (Base * high) + Base * b = Base * (Base * high + b)
    BY <1>1, <2>1, <2>3
  <2>6. Base * (Base * high) \in Nat /\ Base * b \in Nat
    BY <1>1, <2>1, <2>3, NatTimes
  <2>7. v = Base * (Base * high + b) + (low % Base)
    BY <2>1, <2>4, <2>5, <2>6
  <2>8. v \div Base = Base * high + b
    BY <1>1, <2>1, <2>3, <2>7, Quotient
  <2>9. v % Base = low % Base
    <3>1. v % Base \in 0 .. Base - 1 /\ v = Base * (v \div Base) + (v % Base)
      BY <1>1, Division
    <3>2. Base * (Base * high + b) \in Nat
      BY <1>1, <2>3, NatTimes
    <3> QED
      BY <2>1, <2>7, <2>8, <3>1, <3>2
  <2>10. (Base * high + b) % Base = b % Base
    <3> DEFINE c == b \div Base
    <3>1. c \in Nat /\ b % Base \in 0 .. Base - 1 /\ b = Base * c + (b % Base)
      BY <1>1, <2>1, Division
    <3> HIDE DEF c, b
    <3>2. high + c \in Nat /\ Base * (high + c) = Base * high + Base * c
      <4>1. Base \in Nat /\ high \in Nat /\ c \in Nat
        BY <1>1, <1>2, <3>1
      <4> QED
        BY <4>1, Distribute
    <3>3. Base * high + b = Base * (high + c) + (b % Base)
      BY <1>1, <1>2, <3>1, <3>2, NatTimes
    <3>4. (Base * high + b) \div Base = high + c
      BY <1>1, <3>1, <3>2, <3>3, Quotient
    <3>5. /\ (Base * high + b) % Base \in 0 .. Base - 1
          /\ Base * high + b = Base * ((Base * high + b) \div Base) + ((Base * high + b) % Base)
      BY <1>1, <2>3, Division
    <3>6. Base * (high + c) \in Nat
      BY <1>1, <3>2, NatTimes
    <3> QED
      BY <3>1, <3>3, <3>4, <3>5, <3>6
  <2>11. v \div 1 = v /\ low \div 1 = low
    BY <1>2
  <2> QED
    BY <1>4, <2>8, <2>9, <2>10, <2>11 DEF Digit
<1>7. high < Place(2)
  <2>1. Place(2) * high < Place(2) * Place(2) /\ Place(2) * high \in Nat
    BY <1>1, <1>2, <1>3, NatTimes
  <2> QED
    BY <1>1, <1>2, <2>1, ProductLess
<1>8. low = Digit(v, 0) + Base * Digit(v, 1)
  BY <1>1, <1>2, <1>6, TwoDigits
<1>9. high = Digit(v, 2) + Base * Digit(v, 3)
  BY <1>2, <1>5, <1>7, TwoDigits
<1>10. Digit(v, 0) \in Nat /\ Digit(v, 1) \in Nat /\ Digit(v, 2) \in Nat /\ Digit(v, 3) \in Nat
  BY DigitTyped DEF Byte
<1>11. Place(2) * high = Place(2) * Digit(v, 2) + Place(2) * (Base * Digit(v, 3))
  BY <1>1, <1>9, <1>10
<1>12. Place(2) * (Base * Digit(v, 3)) = Place(3) * Digit(v, 3)
  <2> HIDE DEF Digit
  <2>1. Place(2) * (Base * Digit(v, 3)) = (Place(2) * Base) * Digit(v, 3)
    BY <1>1, <1>10
  <2> QED
    BY <1>3, <2>1
<1>13. /\ Base * Digit(v, 1) \in Nat /\ Place(2) * Digit(v, 2) \in Nat
       /\ Place(3) * Digit(v, 3) \in Nat
  BY <1>1, <1>10, NatTimes, PlaceTyped
<1> QED
  BY <1>2, <1>8, <1>10, <1>11, <1>12, <1>13

----------------------------------------------------------------------------
(* The register an access is to shows the value written.                    *)
Holds(c, x) ==
  \A k \in 0 .. x.width - 1 : c[x.on][x.position + k] = Digit(x.value, k)

Legal(x) ==
  /\ x.ok => x.on \in Uent
  /\ x.position % x.width = 0
  /\ x.writeable => x.value \in Nat /\ x.value < Place(x.width)

LEMMA StoreHolds ==
  ASSUME NEW space \in [Address -> Byte], NEW position \in Address,
         NEW width \in Width, NEW value, position % width = 0
  PROVE  \A k \in 0 .. width - 1 :
           Store(space, position, width, value)[position + k] = Digit(value, k)
<1> SUFFICES ASSUME NEW k \in 0 .. width - 1
             PROVE  Store(space, position, width, value)[position + k] = Digit(value, k)
  OBVIOUS
<1>1. position + width - 1 \in Address
  BY AlignedEnd
<1>2. position \in Nat /\ width \in Nat /\ MaxPosition \in Nat
  BY PositionAssumption DEF Address, Width
<1>3. position + k \in Address
  BY <1>1, <1>2 DEF Address
<1>4. (position + k) - position = k
  BY <1>2
<1> QED
  BY <1>3, <1>4 DEF Store

LEMMA LoadHolds ==
  ASSUME NEW space, NEW position \in Nat, NEW width \in Width, NEW value \in Nat,
         value < Place(width),
         \A k \in 0 .. width - 1 : space[position + k] = Digit(value, k)
  PROVE  Load(space, position, width) = value
<1>1. position + 0 = position
  OBVIOUS
<1>2. CASE width = 1
  <2>1. Place(1) = Base /\ Base \in Nat /\ Base > 1 /\ Place(0) = 1
    BY BaseAssumption DEF Place
  <2>2. value \div 1 = value /\ value % Base = value
    BY <1>2, <2>1
  <2>3. space[position] = value
    BY <1>1, <1>2, <2>1, <2>2 DEF Digit
  <2> QED
    BY <1>2, <2>3 DEF Load
<1>3. CASE width = 2
  <2>1. space[position] = Digit(value, 0) /\ space[position + 1] = Digit(value, 1)
    BY <1>1, <1>3
  <2>2. value = Digit(value, 0) + Base * Digit(value, 1)
    BY <1>3, TwoDigits
  <2>3. Load(space, position, width) = space[position] + Base * space[position + 1]
    BY <1>3 DEF Load
  <2> QED
    BY <2>1, <2>2, <2>3
<1>4. CASE width = 4
  <2>1. /\ space[position] = Digit(value, 0) /\ space[position + 1] = Digit(value, 1)
        /\ space[position + 2] = Digit(value, 2) /\ space[position + 3] = Digit(value, 3)
    BY <1>1, <1>4
  <2>2. value = Digit(value, 0) + Base * Digit(value, 1)
                  + Place(2) * Digit(value, 2) + Place(3) * Digit(value, 3)
    BY <1>4, FourDigits
  <2>3. Load(space, position, width) =
          space[position] + Base * space[position + 1]
            + Place(2) * space[position + 2] + Place(3) * space[position + 3]
    BY <1>4 DEF Load
  <2> QED
    BY <2>1, <2>2, <2>3
<1> QED
  BY <1>2, <1>3, <1>4 DEF Width

(* A write that was not overwritten since.                                  *)
Overwrites(x, y) == x.ok /\ x.writeable /\ Overlap(x, y)

Lasting(i) ==
  /\ accesses[i].ok /\ accesses[i].writeable
  /\ \A k \in i + 1 .. Len(accesses) : ~ Overwrites(accesses[k], accesses[i])

Held ==
  /\ \A i \in DOMAIN accesses : Legal(accesses[i])
  /\ \A i \in DOMAIN accesses : Lasting(i) => Holds(config, accesses[i])
  /\ ReadBack

(* ReadBack for two of the accesses.                                        *)
Returned(all, i, j) ==
  /\ i < j /\ all[i].ok /\ all[j].ok /\ all[i].writeable /\ ~ all[j].writeable
  /\ all[j].value # Flagged
  /\ all[i].on = all[j].on /\ all[i].position = all[j].position
  /\ all[i].width = all[j].width
  /\ \A k \in i + 1 .. j - 1 : ~ Overwrites(all[k], all[i])
  => all[j].value = all[i].value

LEMMA AllReturned ==
  (\A i, j \in DOMAIN accesses' : Returned(accesses', i, j)) => ReadBack'
  BY DEF ReadBack, Returned, Overwrites

(* A further access: the registers written before keep their values unless  *)
(* it overwrites them, it writes its own, or it reads one of them.          *)
LEMMA AccessHeld ==
  ASSUME Held, accesses \in Seq(AccessRecord), NEW x \in AccessRecord,
         accesses' = Append(accesses, x), Legal(x),
         x.ok /\ x.writeable => Holds(config', x),
         \A i \in DOMAIN accesses :
           /\ accesses[i].ok /\ accesses[i].writeable
           /\ Holds(config, accesses[i]) /\ ~ Overwrites(x, accesses[i])
           => Holds(config', accesses[i]),
         \A i \in DOMAIN accesses :
           /\ accesses[i].ok /\ accesses[i].writeable /\ Holds(config, accesses[i])
           /\ x.ok /\ ~ x.writeable /\ x.value # Flagged
           /\ accesses[i].on = x.on /\ accesses[i].position = x.position
           /\ accesses[i].width = x.width
           => x.value = accesses[i].value
  PROVE  Held'
<1> PICK n \in Nat : n = Len(accesses)
  OBVIOUS
<1>1. /\ n = Len(accesses) /\ DOMAIN accesses = 1 .. n /\ Len(accesses') = n + 1
      /\ DOMAIN accesses' = 1 .. n + 1
      /\ accesses'[n + 1] = x /\ \A i \in 1 .. n : accesses'[i] = accesses[i]
  OBVIOUS
<1>2. \A i \in 1 .. n + 1 : Legal(accesses'[i])
  BY <1>1 DEF Held
<1>3. ASSUME NEW i \in 1 .. n, Lasting(i)'
      PROVE  Lasting(i) /\ ~ Overwrites(x, accesses[i]) /\ Holds(config', accesses'[i])
  <2>1. /\ accesses[i].ok /\ accesses[i].writeable
        /\ \A k \in i + 1 .. n + 1 : ~ Overwrites(accesses'[k], accesses[i])
    BY <1>1, <1>3 DEF Lasting
  <2>2. n + 1 \in i + 1 .. n + 1 /\ \A k \in i + 1 .. n : k \in i + 1 .. n + 1 /\ k \in 1 .. n
    BY <1>1
  <2>3. ~ Overwrites(x, accesses[i])
    BY <1>1, <2>1, <2>2
  <2>4. \A k \in i + 1 .. n : ~ Overwrites(accesses[k], accesses[i])
    BY <1>1, <2>1, <2>2
  <2>5. Lasting(i)
    BY <1>1, <2>1, <2>4 DEF Lasting
  <2> QED
    BY <1>1, <2>1, <2>3, <2>5 DEF Held
<1>4. \A i \in 1 .. n + 1 : Lasting(i)' => Holds(config', accesses'[i])
  <2>1. Lasting(n + 1)' => Holds(config', accesses'[n + 1])
    BY <1>1 DEF Lasting
  <2>2. \A i \in 1 .. n + 1 : i \in 1 .. n \/ i = n + 1
    BY <1>1
  <2> QED
    BY <1>3, <2>1, <2>2
<1>5. ReadBack'
  <2> SUFFICES ASSUME NEW i \in 1 .. n + 1, NEW j \in 1 .. n + 1
               PROVE  Returned(accesses', i, j)
    BY <1>1, AllReturned
  <2> SUFFICES ASSUME i < j, accesses'[i].ok, accesses'[j].ok,
                      accesses'[i].writeable, ~ accesses'[j].writeable,
                      accesses'[j].value # Flagged,
                      accesses'[i].on = accesses'[j].on,
                      accesses'[i].position = accesses'[j].position,
                      accesses'[i].width = accesses'[j].width,
                      \A k \in i + 1 .. j - 1 : ~ Overwrites(accesses'[k], accesses'[i])
               PROVE  accesses'[j].value = accesses'[i].value
    BY DEF Returned
  <2>1. i \in 1 .. n /\ accesses'[i] = accesses[i]
    BY <1>1
  <2>2. CASE j \in 1 .. n
    <3>1. \A k \in i + 1 .. j - 1 : k \in 1 .. n /\ ~ Overwrites(accesses[k], accesses[i])
      BY <1>1, <2>1, <2>2
    <3> QED
      BY <1>1, <2>1, <2>2, <3>1 DEF Held, ReadBack, Overwrites
  <2>3. CASE j = n + 1
    <3>1. \A k \in i + 1 .. n : k \in i + 1 .. j - 1 /\ k \in 1 .. n
      BY <1>1, <2>1, <2>3
    <3>2. \A k \in i + 1 .. n : ~ Overwrites(accesses[k], accesses[i])
      BY <1>1, <2>1, <3>1
    <3>3. Lasting(i)
      BY <1>1, <2>1, <3>2 DEF Lasting
    <3>4. Holds(config, accesses[i])
      BY <1>1, <2>1, <3>3 DEF Held
    <3>5. accesses'[j] = x
      BY <1>1, <2>3
    <3>6. /\ x.ok /\ ~ x.writeable /\ x.value # Flagged /\ i \in DOMAIN accesses
          /\ accesses[i].ok /\ accesses[i].writeable /\ accesses[i].on = x.on
          /\ accesses[i].position = x.position /\ accesses[i].width = x.width
      BY <1>1, <2>1, <3>5
    <3>7. x.value = accesses[i].value
      BY <3>4, <3>6
    <3> QED
      BY <2>1, <3>5, <3>7
  <2>4. j \in 1 .. n \/ j = n + 1
    BY <1>1
  <2> QED
    BY <2>2, <2>3, <2>4
<1> QED
  BY <1>1, <1>2, <1>4, <1>5 DEF Held

(* The access an action records.                                            *)
Recorded(ok, value) ==
  [uent |-> Option.uent, on |-> fd, ok |-> ok, writeable |-> Writeable(Option),
   position |-> Option.position, width |-> Option.width, value |-> value,
   register |-> Load(config[Option.uent], Option.position, Option.width)]

LEMMA RecordedTyped ==
  ASSUME TypeOK, optind <= Len(cmd), Option.opt = "s", Accepted(Option),
         NEW ok \in BOOLEAN, NEW value \in Nat \cup {Flagged}, Record(ok, value),
         Writeable(Option) => value = Option.value,
         ok => fd \in Uent
  PROVE  /\ Recorded(ok, value) \in AccessRecord /\ Legal(Recorded(ok, value))
         /\ accesses' = Append(accesses, Recorded(ok, value))
<1>1. Recorded(ok, value) \in AccessRecord
  BY AcceptedFields DEF Recorded, AccessRecord, TypeOK, Writeable
<1>2. Writeable(Option) => Option.value < Place(Option.width)
  <2>1. Option.width = 1 \/ Option.width = 2 \/ Option.width = 4
    BY AcceptedFields DEF Width
  <2>2. Place(Option.width) \in Nat
    BY <2>1, PlaceTyped
  <2> QED
    BY <2>2 DEF Accepted, Parsed, ParsedValue
<1>3. Legal(Recorded(ok, value))
  BY <1>2, AcceptedFields DEF Legal, Recorded
<1> QED
  BY <1>1, <1>3 DEF Record, Recorded

(* A failed access.                                                         *)
LEMMA FailedHeld ==
  ASSUME Inv, Held, optind <= Len(cmd), Option.opt = "s", Accepted(Option),
         UNCHANGED config, Record(FALSE, IF Writeable(Option) THEN Option.value ELSE 0)
  PROVE  Held'
<1> DEFINE value == IF Writeable(Option) THEN Option.value ELSE 0
           x == Recorded(FALSE, value)
<1>1. value \in Nat
  BY AcceptedFields DEF Inv
<1>2. x \in AccessRecord /\ Legal(x) /\ accesses' = Append(accesses, x)
  BY <1>1, RecordedTyped DEF Inv
<1>3. ~ x.ok
  BY DEF Recorded
<1> HIDE DEF x
<1> QED
  BY <1>2, <1>3, AccessHeld DEF Inv, TypeOK

LEMMA ReadHeld ==
  ASSUME Inv, Held, Read
  PROVE  Held'
<1> PICK value \in {Load(config[fd], Option.position, Option.width), Flagged} :
       Record(TRUE, value)
  BY DEF Read
<1> DEFINE x == Recorded(TRUE, value)
<1>1. /\ optind <= Len(cmd) /\ Option.opt = "s" /\ Accepted(Option) /\ fd \in Uent
      /\ ~ Writeable(Option) /\ config' = config /\ Record(TRUE, value)
  BY DEF Read, Inv, Pending
<1>2. /\ Option.position \in Address /\ Option.width \in Width
      /\ Option.position % Option.width = 0
  BY <1>1, AcceptedFields DEF Inv
<1>3. value \in Nat \cup {Flagged}
  BY <1>1, <1>2, LoadTyped DEF Inv, TypeOK
<1>4. x \in AccessRecord /\ Legal(x) /\ accesses' = Append(accesses, x)
  BY <1>1, <1>3, RecordedTyped DEF Inv
<1>5. /\ ~ x.writeable /\ x.on = fd /\ x.position = Option.position
      /\ x.width = Option.width /\ x.value = value
  BY <1>1 DEF Recorded
<1>6. accesses \in Seq(AccessRecord)
  BY DEF Inv, TypeOK
<1>7. ASSUME NEW i \in DOMAIN accesses,
             accesses[i].writeable, x.value # Flagged, Holds(config, accesses[i]), accesses[i].on = x.on,
             accesses[i].position = x.position, accesses[i].width = x.width
      PROVE  x.value = accesses[i].value
  <2>1. accesses[i] \in AccessRecord /\ Legal(accesses[i])
    BY <1>6 DEF Held
  <2>2. accesses[i].value \in Nat /\ accesses[i].value < Place(Option.width)
    BY <1>5, <1>7, <2>1 DEF AccessRecord, Legal
  <2>3. \A k \in 0 .. Option.width - 1 :
          config[fd][Option.position + k] = Digit(accesses[i].value, k)
    BY <1>5, <1>7 DEF Holds
  <2>4. Option.position \in Nat
    BY <1>2, PositionAssumption DEF Address
  <2>5. Load(config[fd], Option.position, Option.width) = accesses[i].value
    BY <1>2, <2>2, <2>3, <2>4, LoadHolds
  <2> QED
    BY <1>5, <1>7, <2>5
<1> HIDE DEF x
<1> QED
  BY <1>1, <1>4, <1>5, <1>6, <1>7, AccessHeld DEF Overwrites

LEMMA WriteHeld ==
  ASSUME Inv, Held, Write
  PROVE  Held'
<1> DEFINE x == Recorded(TRUE, Option.value)
           space == Store(config[fd], Option.position, Option.width, Option.value)
<1>1. /\ optind <= Len(cmd) /\ Option.opt = "s" /\ Accepted(Option) /\ fd \in Uent
      /\ Writeable(Option) /\ Record(TRUE, Option.value)
      /\ config' = [config EXCEPT ![fd] = space]
  BY DEF Write, Inv, Pending
<1>2. /\ Option.position \in Address /\ Option.width \in Width
      /\ Option.position % Option.width = 0 /\ Option.value \in Nat
  BY <1>1, AcceptedFields DEF Inv
<1>3. x \in AccessRecord /\ Legal(x) /\ accesses' = Append(accesses, x)
  BY <1>1, <1>2, RecordedTyped DEF Inv
<1>4. /\ x.writeable /\ x.ok /\ x.on = fd /\ x.position = Option.position
      /\ x.width = Option.width /\ x.value = Option.value
  BY <1>1 DEF Recorded
<1>5. accesses \in Seq(AccessRecord) /\ config \in [Uent -> [Address -> Byte]]
  BY DEF Inv, TypeOK
<1>6. config'[fd] = space /\ \A u \in Uent \ {fd} : config'[u] = config[u]
  BY <1>1, <1>5
<1>7. Holds(config', x)
  <2>1. \A k \in 0 .. Option.width - 1 :
          space[Option.position + k] = Digit(Option.value, k)
    BY <1>1, <1>2, <1>5, StoreHolds
  <2> QED
    BY <1>4, <1>6, <2>1 DEF Holds
<1> HIDE DEF x
<1>8. ASSUME NEW i \in DOMAIN accesses,
             accesses[i].ok, Holds(config, accesses[i]), ~ Overwrites(x, accesses[i])
      PROVE  Holds(config', accesses[i])
  <2> DEFINE w == accesses[i]
  <2>1. w \in AccessRecord /\ Legal(w)
    BY <1>5 DEF Held
  <2>2. /\ w.position \in Address /\ w.width \in Width /\ w.on \in Uent
        /\ w.position % w.width = 0
    BY <1>8, <2>1 DEF AccessRecord, Legal
  <2>3. CASE w.on # fd
    BY <1>6, <1>8, <2>2, <2>3 DEF Holds
  <2>4. CASE w.on = fd
    <3> SUFFICES ASSUME NEW k \in 0 .. w.width - 1
                 PROVE  space[w.position + k] = config[fd][w.position + k]
      BY <1>6, <1>8, <2>4 DEF Holds
    <3>1. w.position + w.width - 1 \in Address
      BY <2>2, AlignedEnd
    <3>2. /\ w.position \in Nat /\ w.width \in Nat /\ MaxPosition \in Nat
          /\ Option.position \in Nat /\ Option.width \in Nat
      BY <1>2, <2>2, PositionAssumption DEF Address, Width
    <3>3. w.position + k \in Address
      BY <3>1, <3>2 DEF Address
    <3>4. \/ Option.position >= w.position + w.width
          \/ w.position >= Option.position + Option.width
      BY <1>4, <1>8, <2>4, <3>2 DEF Overwrites, Overlap
    <3>5. (w.position + k) - Option.position \notin 0 .. Option.width - 1
      BY <3>2, <3>4
    <3> QED
      BY <3>3, <3>5 DEF Store
  <2> QED
    BY <2>3, <2>4
<1> QED
  BY <1>3, <1>4, <1>5, <1>7, <1>8, AccessHeld

(* What was written reads back, for every width, size of byte and history   *)
(* of accesses that did not overwrite it.                                   *)
THEOREM WritesReadBack == Spec => []ReadBack
<1>1. Init => Held
  BY DEF Init, Held, ReadBack
<1>2. Inv /\ Held /\ [Next]_vars => Held'
  <2> SUFFICES ASSUME Inv, Held, [Next]_vars
               PROVE  Held'
    OBVIOUS
  <2>1. CASE Read
    BY <2>1, ReadHeld
  <2>2. CASE Write
    BY <2>2, WriteHeld
  <2>3. CASE SetupFails
    BY <2>3, FailedHeld DEF SetupFails, Slot, Taking
  <2>4. CASE AccessFails
    BY <2>4, FailedHeld DEF AccessFails, Inv, Pending
  <2>5. CASE UNCHANGED <<config, accesses>>
    BY <2>5 DEF Held, Lasting, ReadBack
  <2> QED
    BY <2>1, <2>2, <2>3, <2>4, <2>5
       DEF Next, Tool, Scan, Idle, SetPara, RefusePara, MissingReg, GiveUp, RefuseSlot,
           Setup, OptionsDone, ParametersRefused, CheckCluster, OptBi, Cleanup, Unplug,
           ChangeMode, Exited, vars, machine
<1>3. Held => ReadBack
  BY DEF Held
<1> QED
  BY <1>1, <1>2, <1>3, Invariant, PTL DEF Spec
=============================================================================
