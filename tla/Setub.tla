-------------------------------- MODULE Setub --------------------------------
(****************************************************************************)
(* One run of setub: the options are taken one after the other; each -s     *)
(* reads or writes a register at once, the others fill in the parameters of *)
(* a bus-instance operation, which is sent to the kernel after the last     *)
(* option.  Beside the tool, entities may be unplugged.                     *)
(*                                                                          *)
(* A number the parser refuses is Invalid, one that is missing is Absent.   *)
(* A configuration space is an array of bytes; Base is how many values a    *)
(* byte has (256), and the host stores the low byte first.                  *)
(****************************************************************************)
EXTENDS Integers, Sequences, FiniteSets

CONSTANTS
  Uent,          \* the entity numbers
  MaxPosition,   \* MAX_POSITION, the last byte of a configuration space
  Base,          \* number of values of a byte
  Guid,          \* the GUIDs a command line may name
  IDEV,          \* those of entities of type UBUS_GUID_TYPE_IDEV
  CommandLines,  \* the command lines considered
  InitialConfig, \* what the configuration spaces hold before the run
  MaxUnplug      \* how many entities are unplugged during the run

Invalid == -1
Absent == -2
Closed == -1     \* uacc->fd before the first open
Flagged == -3    \* what a read shows if the driver flags a byte of it as failed
EINVAL == -22

CREATE == 0      \* UBUS_CMD_BI_*
DESTROY == 1
BIND == 2
UNBIND == 3
None == [sub_cmd |-> Absent]

Address == 0 .. MaxPosition
Byte == 0 .. Base - 1
Width == {1, 2, 4}
Number == Nat \cup {Invalid, Absent}

(* -s <uent> <position>.<width>[=<value>]                                   *)
SlotOption ==
  [opt : {"s"}, uent : Nat \cup {Invalid}, position : Number,
   width : Width \cup {Invalid}, value : Number]
(* -b <operation>, -g <guid>, -d <guid>, -e <eid>, -u <upi>                 *)
ParaName == {"b", "g", "d", "e", "u"}
Operation == {CREATE, DESTROY, BIND, UNBIND}
ParaOption ==
  [opt : {"b"}, arg : Operation \cup {Invalid}]
    \cup [opt : ParaName \ {"b"}, arg : Nat \cup {Invalid}]
(* -h, and the options getopt does not know                                 *)
IdleOption == [opt : {"h", "?"}]
Options == SlotOption \cup ParaOption \cup IdleOption

ASSUME UentAssumption == Uent \subseteq Nat /\ IsFiniteSet(Uent)
ASSUME PositionAssumption == MaxPosition \in Nat /\ MaxPosition % 4 = 3
ASSUME BaseAssumption == Base \in Nat /\ Base > 1
ASSUME GuidAssumption == Guid \subseteq Nat /\ IDEV \subseteq Guid
ASSUME MaxUnplugAssumption == MaxUnplug \in Nat
ASSUME ConfigAssumption == InitialConfig \in [Uent -> [Address -> Byte]]
ASSUME CommandLinesAssumption ==
  CommandLines \subseteq Seq(Options)

VARIABLES
  cmd,      \* the command line
  optind,   \* the option getopt returns next
  para,     \* bi_para; Absent is a zero flag
  ret,      \* the exit status so far
  uents,    \* the entities the scan found
  fd,       \* uacc->fd: Closed, or the entity whose config file is open
  present,  \* the entities the kernel holds
  config,   \* their configuration spaces
  cluster,  \* whether the bus runs in cluster mode
  modeChanged, \* history: the mode changed after the tool had looked at it
  mode,     \* what ub_check_cluster found: "unread" before, or "unreadable"
  request,  \* the ioctl the kernel received, or None
  accesses, \* history: the register accesses made for the -s options
  phase

machine == <<present, config, cluster, modeChanged>>
vars == <<cmd, optind, para, ret, uents, fd, machine, mode, request, accesses, phase>>

----------------------------------------------------------------------------
(* The bytes of a register, and a register written byte by byte.            *)
Place(i) == CASE i = 0 -> 1
              [] i = 1 -> Base
              [] i = 2 -> Base * Base
              [] i = 3 -> Base * Base * Base
              [] i = 4 -> Base * Base * Base * Base

Digit(value, i) == (value \div Place(i)) % Base

Store(space, position, width, value) ==
  [a \in Address |->
     IF a - position \in 0 .. width - 1
     THEN Digit(value, a - position) ELSE space[a]]

Load(space, position, width) ==
  CASE width = 1 -> space[position]
    [] width = 2 -> space[position] + Base * space[position + 1]
    [] width = 4 -> space[position] + Base * space[position + 1]
                    + Place(2) * space[position + 2]
                    + Place(3) * space[position + 3]

Writeable(o) == o.value # Absent

(* The bytes an access asks for.  A read asks for as many again, which tell *)
(* the bytes that the driver could not read.                                *)
Transferred(o) == IF Writeable(o) THEN o.width ELSE 2 * o.width

(* Mutant: parse_width does not look at the alignment.                      *)
ParsedPosition_NoAlignment(o) ==
  o.position \in Address /\ o.width \in Width

ParsedPosition(o) ==
  /\ o.position \in Address
  /\ o.width \in Width
  /\ o.position % o.width = 0

(* Mutant: parse_value does not look at the width.                          *)
ParsedValue_AnyRange(o) == Writeable(o) => o.value # Invalid

ParsedValue(o) == Writeable(o) => o.value \in 0 .. Place(o.width) - 1

Parsed(o) == o.uent # Invalid /\ ParsedPosition(o) /\ ParsedValue(o)

(* An -s option that reaches the access methods.                            *)
Accepted(o) == Parsed(o) /\ o.uent \in uents

----------------------------------------------------------------------------
Init ==
  /\ cmd \in CommandLines
  /\ optind = 1
  /\ para = [p \in ParaName |-> Absent]
  /\ ret = 0
  /\ uents = {}
  /\ fd = Closed
  /\ present = Uent
  /\ config = InitialConfig
  /\ cluster \in BOOLEAN /\ modeChanged = FALSE
  /\ mode = "unread"
  /\ request = None
  /\ accesses = <<>>
  /\ phase = "scan"

(* ub_init and ub_scan_devices.                                             *)
Scan ==
  /\ phase = "scan"
  /\ \/ uents' = present /\ ret' = 0 /\ phase' = "option"
     \/ uents' = {} /\ ret' = EINVAL /\ phase' = "cleanup"
  /\ UNCHANGED <<cmd, optind, para, fd, machine, mode, request, accesses>>

(* The option being processed, of one of the given kinds.                   *)
Option == cmd[optind]
Taking(kinds) ==
  phase = "option" /\ optind <= Len(cmd) /\ Option.opt \in kinds

(* Nothing follows an -s: optind >= argc.                                   *)
NoReg == optind = Len(cmd) /\ Option.position = Absent

(* An error that ends get_setub_opt.                                        *)
GiveUp ==
  /\ ret' = EINVAL
  /\ phase' = "cleanup"
  /\ UNCHANGED <<cmd, optind, para, uents, fd, machine, mode, request, accesses>>

Idle ==
  /\ Taking({"h", "?"})
  /\ optind' = optind + 1
  /\ UNCHANGED <<cmd, para, ret, uents, fd, machine, mode, request, accesses, phase>>

(* Mutant: the first of several options of a kind is kept.                  *)
Stored_FirstWins(o) ==
  [para EXCEPT ![o.opt] = IF @ = Absent THEN o.arg ELSE @]

Stored(o) == [para EXCEPT ![o.opt] = o.arg]

SetPara ==
  /\ Taking(ParaName) /\ Option.arg # Invalid
  /\ para' = Stored(Option)
  /\ optind' = optind + 1
  /\ UNCHANGED <<cmd, ret, uents, fd, machine, mode, request, accesses, phase>>

RefusePara == Taking(ParaName) /\ Option.arg = Invalid /\ GiveUp

MissingReg == Taking({"s"}) /\ NoReg /\ GiveUp

(* Mutant: the status of the last -s stays.                                 *)
RefusedStatus_Kept == ret

RefusedStatus == EINVAL

(* parse_uent_num, parse_op or the search in execute fails: the status is   *)
(* noted, and the next option is taken all the same.                        *)
RefuseSlot ==
  /\ Taking({"s"}) /\ ~ NoReg /\ ~ Accepted(Option)
  /\ ret' = RefusedStatus
  /\ optind' = optind + 1
  /\ UNCHANGED <<cmd, para, uents, fd, machine, mode, request, accesses, phase>>

Slot == Taking({"s"}) /\ Accepted(Option)

(* execute ignores what the access returned; a failed read shows the 0 that *)
(* parse_op left in op->value.                                              *)
Record(ok, value) ==
  /\ accesses' = Append(accesses,
       [uent |-> Option.uent, on |-> fd, ok |-> ok, writeable |-> Writeable(Option),
        position |-> Option.position, width |-> Option.width, value |-> value,
        register |-> Load(config[Option.uent], Option.position, Option.width)])
  /\ ret' = 0
  /\ optind' = optind + 1
  /\ phase' = "option"
  /\ UNCHANGED <<cmd, para, uents, fd, present, cluster, modeChanged, mode, request>>

(* Mutant: the first entity found is opened.                                *)
OpenOf_FirstScanned(u) ==
  IF fd = Closed THEN CHOOSE v \in uents : \A w \in uents : v <= w ELSE fd

(* sysfs_setup: the config file of the first entity that is accessed, kept  *)
(* open for all that follow.                                                *)
OpenOf(u) == IF fd = Closed THEN u ELSE fd
Setup ==
  /\ Slot
  /\ fd = Closed => Option.uent \in present
  /\ fd' = OpenOf(Option.uent)
  /\ phase' = "access"
  /\ UNCHANGED <<cmd, optind, para, ret, uents, machine, mode, request, accesses>>

SetupFails ==
  /\ Slot /\ fd = Closed
  /\ Record(FALSE, IF Writeable(Option) THEN Option.value ELSE 0)
  /\ UNCHANGED config

Write ==
  /\ phase = "access" /\ Writeable(Option) /\ fd \in present
  /\ config' = [config EXCEPT ![fd] =
       Store(@, Option.position, Option.width, Option.value)]
  /\ Record(TRUE, Option.value)

(* A byte that is flagged is warned of and shown like the others.           *)
Read ==
  /\ phase = "access" /\ ~ Writeable(Option) /\ fd \in present
  /\ \E value \in {Load(config[fd], Option.position, Option.width), Flagged} :
       Record(TRUE, value)
  /\ UNCHANGED config

(* pread or pwrite fails or is short, as a read of the last register may be *)
(* whose flags would lie behind the end of the space.                       *)
AccessFails ==
  /\ phase = "access"
  /\ Record(FALSE, IF Writeable(Option) THEN Option.value ELSE 0)
  /\ UNCHANGED config

(* Mutant: main does not look at the status.                                *)
Proceeds_AnyStatus == para["b"] # Absent

(* main: a bus-instance operation follows if the last status is 0.          *)
Proceeds == ret = 0 /\ para["b"] # Absent

OptionsDone ==
  /\ phase = "option" /\ optind > Len(cmd)
  /\ phase' = IF Proceeds THEN "instance" ELSE "cleanup"
  /\ UNCHANGED <<cmd, optind, para, ret, uents, fd, machine, mode, request, accesses>>

(* Mutant: only creation asks for -g, the others take what is there.        *)
ParametersGiven_CreateOnly ==
  /\ para["b"] # DESTROY => para["g"] # Absent
  /\ para["b"] \in {BIND, UNBIND} => para["d"] # Absent

(* The parameters check_bi_ops_para asks for.                               *)
ParametersGiven ==
  /\ para["g"] # Absent
  /\ para["b"] \in {BIND, UNBIND} => para["d"] # Absent

(* Mutant: unbinding is not looked at.                                      *)
Allowed_BindOnly(inCluster) ==
  inCluster /\ para["b"] = BIND => para["d"] \in IDEV

(* Its last test, with what ub_check_cluster returned.                      *)
Allowed(inCluster) ==
  inCluster /\ para["b"] \in {BIND, UNBIND} => para["d"] \in IDEV

OrZero(arg) == IF arg = Absent THEN 0 ELSE arg

(* ub_create_bi_init ... ub_unbind_bi_init.                                 *)
Request ==
  CASE para["b"] = CREATE ->
         [sub_cmd |-> CREATE, guid |-> para["g"],
          eid |-> OrZero(para["e"]), upi |-> OrZero(para["u"])]
    [] para["b"] = DESTROY -> [sub_cmd |-> DESTROY, guid |-> para["g"]]
    [] OTHER -> [sub_cmd |-> para["b"], guid |-> para["g"], dev |-> para["d"]]

ParametersRefused ==
  /\ phase = "instance" /\ ~ ParametersGiven
  /\ phase' = "cleanup"
  /\ UNCHANGED <<cmd, optind, para, ret, uents, fd, machine, mode, request, accesses>>

(* ub_check_cluster: a mode that cannot be read is no cluster mode.         *)
CheckCluster ==
  /\ phase = "instance" /\ ParametersGiven
  /\ \/ mode' = IF cluster THEN "on" ELSE "off"
     \/ mode' = "unreadable"
  /\ phase' = IF Allowed(mode' = "on") THEN "request" ELSE "cleanup"
  /\ UNCHANGED <<cmd, optind, para, ret, uents, fd, machine, request, accesses>>

(* ub_opt_bi; what the ioctl returns is printed and forgotten.              *)
OptBi ==
  /\ phase = "request"
  /\ \/ request' = Request
     \/ UNCHANGED request   \* /dev/unified_bus cannot be opened
  /\ phase' = "cleanup"
  /\ UNCHANGED <<cmd, optind, para, ret, uents, fd, machine, mode, accesses>>

(* The entities are freed; nothing looks at uents any more.                 *)
Cleanup ==
  /\ phase = "cleanup"
  /\ fd' = Closed
  /\ phase' = "exited"
  /\ UNCHANGED <<cmd, optind, para, ret, uents, machine, mode, request, accesses>>

Unplug(u) ==
  /\ phase # "exited"
  /\ u \in present /\ Cardinality(Uent \ present) < MaxUnplug
  /\ present' = present \ {u}
  /\ UNCHANGED <<cmd, optind, para, ret, uents, fd, config, cluster, modeChanged,
                 mode, request, accesses, phase>>

(* The mode of the bus changes.  Before the tool looks at it that is        *)
(* another mode to begin with, and nobody sees it after the ioctl.          *)
ChangeMode ==
  /\ phase = "request" /\ ~ modeChanged
  /\ cluster' = ~ cluster /\ modeChanged' = TRUE
  /\ UNCHANGED <<cmd, optind, para, ret, uents, fd, present, config, mode, request,
                 accesses, phase>>

Tool ==
  \/ Scan \/ Idle \/ SetPara \/ RefusePara \/ MissingReg \/ RefuseSlot
  \/ Setup \/ SetupFails \/ Write \/ Read \/ AccessFails
  \/ OptionsDone \/ ParametersRefused \/ CheckCluster \/ OptBi \/ Cleanup

Exited == phase = "exited" /\ UNCHANGED vars

Next == Tool \/ (\E u \in Uent : Unplug(u)) \/ ChangeMode \/ Exited

Spec == Init /\ [][Next]_vars /\ WF_vars(Tool)

----------------------------------------------------------------------------
AccessRecord ==
  [uent : Uent, on : Uent \cup {Closed}, ok : BOOLEAN, writeable : BOOLEAN,
   position : Address, width : Width, value : Nat \cup {Flagged},
   register : Nat]

Requests ==
  [sub_cmd : {CREATE}, guid : Nat, eid : Nat, upi : Nat]
    \cup [sub_cmd : {DESTROY}, guid : Nat]
    \cup [sub_cmd : {BIND, UNBIND}, guid : Nat, dev : Nat]
    \cup {None}

(* Type invariant.  A request carries every field of its kind (Request):    *)
(* none is sent with a GUID that was not given (check_bi_ops_para).         *)
TypeOK ==
  /\ cmd \in Seq(Options)
  /\ optind \in Nat \ {0}
  /\ para \in [ParaName -> Nat \cup {Absent}]
  /\ para["b"] \in Operation \cup {Absent}
  /\ ret \in {0, EINVAL}
  /\ uents \subseteq Uent
  /\ fd \in Uent \cup {Closed}
  /\ present \subseteq Uent
  /\ config \in [Uent -> [Address -> Byte]]
  /\ cluster \in BOOLEAN /\ modeChanged \in BOOLEAN
  /\ mode \in {"unread", "unreadable", "off", "on"}
  /\ request \in Requests
  /\ accesses \in Seq(AccessRecord)
  /\ phase \in {"scan", "option", "access", "instance", "request", "cleanup",
                "exited"}

(* The register that is about to be accessed lies within the configuration  *)
(* space, to its last byte, although parse_position checks the first byte   *)
(* only: parse_width's alignment test does the rest.  The transfer passes   *)
(* the end for the flags of the very last register only (sysfs_ub_read).    *)
WithinConfigSpace ==
  phase = "access" =>
    /\ Option.position + Option.width - 1 \in Address
    /\ Option.position + Transferred(Option) - 1 \notin Address =>
         ~ Writeable(Option) /\ Option.position + Option.width = MaxPosition + 1

(* When every -s of the command line names the same entity, each access     *)
(* that succeeds is to that entity, also when the entity is unplugged half  *)
(* way and when the first attempts to open its config file fail             *)
(* (sysfs_setup).                                                           *)
SingleEntityExact ==
  (\A i, j \in DOMAIN cmd :
     cmd[i].opt = "s" /\ cmd[j].opt = "s" => cmd[i].uent = cmd[j].uent)
    => \A i \in DOMAIN accesses : accesses[i].ok => accesses[i].on = accesses[i].uent

Overlap(x, y) ==
  /\ x.on = y.on
  /\ x.position < y.position + y.width
  /\ y.position < x.position + x.width

(* A register that was written and not overwritten in between reads back as *)
(* the value on the command line, for each width: no digit of it was cut    *)
(* off (parse_value's range) and none went to the wrong byte.  Of a read    *)
(* with flagged bytes nothing is known.                                     *)
ReadBack ==
  \A i, j \in DOMAIN accesses :
    LET w == accesses[i]  r == accesses[j]
    IN /\ i < j /\ w.ok /\ r.ok /\ w.writeable /\ ~ r.writeable
       /\ r.value # Flagged
       /\ w.on = r.on /\ w.position = r.position /\ w.width = r.width
       /\ \A k \in i + 1 .. j - 1 :
            ~ (accesses[k].ok /\ accesses[k].writeable /\ Overlap(accesses[k], w))
       => r.value = w.value

LastOf(line, I) ==
  IF I = {} THEN Absent ELSE line[CHOOSE i \in I : \A j \in I : j <= i].arg

Given(p) == LastOf(cmd, {i \in DOMAIN cmd : cmd[i].opt = p})

(* What the kernel is asked for is what the command line says last of each  *)
(* parameter, wherever on the line it stands (get_setub_opt, ub_*_bi_init). *)
RequestMatchesCommandLine ==
  request # None =>
    /\ request.sub_cmd = Given("b") /\ request.guid = Given("g")
    /\ request.sub_cmd = CREATE =>
         request.eid = OrZero(Given("e")) /\ request.upi = OrZero(Given("u"))
    /\ request.sub_cmd \in {BIND, UNBIND} => request.dev = Given("d")

(* In cluster mode only entities of type IDEV are bound or unbound          *)
(* (check_bi_ops_para), provided the mode could be read: if not,            *)
(* ub_check_cluster answers as it does without a cluster.  A mode that      *)
(* changes between the check and the ioctl is not seen either.              *)
ClusterBindsIDEV ==
  request # None /\ cluster /\ mode # "unreadable" /\ ~ modeChanged
    => (request.sub_cmd \in {BIND, UNBIND} => request.dev \in IDEV)

LastSlotAccepted ==
  \A i \in DOMAIN cmd :
    cmd[i].opt = "s" /\ (\A j \in i + 1 .. Len(cmd) : cmd[j].opt # "s")
      => Accepted(cmd[i])

(* No operation reaches the kernel from a command line with a parameter     *)
(* that does not parse, or whose last register access was refused, before   *)
(* or after the -b (main).                                                  *)
NoRequestAfterFailure ==
  request # None =>
    /\ LastSlotAccepted
    /\ \A i \in DOMAIN cmd : cmd[i].opt \in ParaName => cmd[i].arg # Invalid

(* What the exit status tells: every option was taken, and the last -s was  *)
(* legal.  It says nothing of an earlier -s, nor of an access or an ioctl   *)
(* that failed (get_setub_opt, execute, ub_opt_bi).                         *)
ExitStatus ==
  phase = "exited" =>
    /\ ret = 0 => optind > Len(cmd) /\ LastSlotAccepted
    /\ cmd # <<>> /\ optind > Len(cmd) /\ LastSlotAccepted => ret = 0

(* A claim of the manual page: "Before starting each operation sequence,    *)
(* you must select the entity that the operation will affect" (setub.man).  *)
(* The code keeps the first entity's config file open for all (sysfs_setup).*)
AccessesNamedEntity ==
  \A i \in DOMAIN accesses : accesses[i].ok => accesses[i].on = accesses[i].uent

(* A claim of the manual page: "Read the register value which entity number *)
(* is 00001, and show the value" (setub.man).  The code shows 0 when the    *)
(* read fails (execute); a read with flagged bytes is left out here.        *)
ReadsShowRegister ==
  \A i \in DOMAIN accesses :
    ~ accesses[i].writeable /\ accesses[i].value # Flagged =>
      accesses[i].value = accesses[i].register
=============================================================================
