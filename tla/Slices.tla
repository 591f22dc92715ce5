------------------------------- MODULE Slices -------------------------------
(****************************************************************************)
(* One run of "lsub -e <entity> [-p <port>] [-s <slices>]* -v|-x": the      *)
(* options select slices of the configuration space of one entity, the      *)
(* selection is checked, and the slices are read and printed.               *)
(*                                                                          *)
(* What a slice holds is left out, except for the capability bitmap of the  *)
(* basic slice, which decides what else is read.  The number of slices and  *)
(* the range of the uint8_t counts are constants (256 both in the code).    *)
(****************************************************************************)
EXTENDS Integers, Sequences, FiniteSets

CONSTANTS
  MaxSlice,      \* MAX_SLICE, slices per space
  CountRange,    \* values of the counts cfg0_slice_count, ...
  LsMaxSlice,    \* LS_MAX_SLICE
  Decoded,       \* the capabilities each space has a printer for
  VerboseCfg0,   \* capabilities -v shows of cfg0 if nothing is selected
  PortDefault,   \* capabilities that "port" without a list stands for
  PortNum,       \* ports of the entity
  Bitmaps,       \* the capabilities an entity may have, for each space
  CommandLines   \* the command lines considered

Space == {"cfg0", "cfg1", "port"}
Slice == 0 .. MaxSlice - 1

Bad == MaxSlice          \* a slice number that is refused
InvalidPort == PortNum + 1

(* -s: groups, each with a prefix and a list of slices; {} is no list.      *)
Group == [space : Space \cup {"none"}, ids : SUBSET (Slice \cup {Bad})]
Options ==
  [opt : {"s"}, groups : Seq(Group)]
    \cup [opt : {"p"}, port : 0 .. PortNum]  \* PortNum: one the entity has not
    \cup [opt : {"e", "v", "x"}]

ASSUME SliceAssumption == MaxSlice \in Nat \ {0} /\ LsMaxSlice \in Nat
ASSUME CountAssumption == CountRange \in Nat \ {0}
ASSUME DecodedAssumption == Decoded \in [Space -> SUBSET (Slice \ {0})]
ASSUME DefaultAssumption == VerboseCfg0 \subseteq Slice /\ PortDefault \subseteq Slice
ASSUME BitmapsAssumption == Bitmaps \subseteq [Space -> SUBSET (Slice \ {0})]
ASSUME PortAssumption == PortNum \in Nat
ASSUME CommandLinesAssumption == CommandLines \subseteq Seq(Options)

VARIABLES
  cmd, optind,
  sel,      \* cfg0_slice, cfg1_slice, port_slice: the slices that are set
  cnt,      \* cfg0_slice_count, cfg1_slice_count, port_slice_count
  port,     \* ls_cmd.port
  given,    \* which of -e, -v and -x were given
  message,  \* the reason printed when a run is refused
  caps,     \* the entity's capability bitmaps; they do not change
  primary,  \* whether the entity is UBE0
  bits,     \* the bitmaps kept in cfg_info; Unread until bit 0 is set
  queue,    \* slices that show_slice has not come to yet
  shown,    \* the slices read and printed
  missed,   \* history: a read failed
  cut,      \* history: spaces whose basic slice ended within the bitmap
  phase

Unread == {-1}
command == <<cmd, optind, sel, cnt, port, given>>
entity == <<caps, primary>>
vars == <<command, message, entity, bits, queue, shown, missed, cut, phase>>

----------------------------------------------------------------------------
Init ==
  /\ cmd \in CommandLines /\ optind = 1
  /\ sel = [s \in Space |-> {}] /\ cnt = [s \in Space |-> 0]
  /\ port = InvalidPort /\ given = {}
  /\ message = "none"
  /\ caps \in Bitmaps /\ primary \in BOOLEAN
  /\ bits = [s \in Space |-> Unread]
  /\ queue = {} /\ shown = {} /\ missed = FALSE /\ cut = {}
  /\ phase = "options"

Option == cmd[optind]
Taking(kinds) == phase = "options" /\ optind <= Len(cmd) /\ Option.opt \in kinds

Refuse(text) ==
  /\ message' = text
  /\ phase' = "exit"
  /\ UNCHANGED <<entity, bits, queue, shown, missed, cut>>

GiveFlag ==
  /\ Taking({"e", "v", "x"})
  /\ given' = given \cup {Option.opt}
  /\ optind' = optind + 1
  /\ UNCHANGED <<cmd, sel, cnt, port, message, entity, bits, queue, shown, missed, cut, phase>>

GivePort ==
  /\ Taking({"p"})
  /\ port' = Option.port
  /\ optind' = optind + 1
  /\ UNCHANGED <<cmd, sel, cnt, given, message, entity, bits, queue, shown, missed, cut, phase>>

(* parse_entity or parse_port refuses the number.                           *)
RefuseNumber ==
  /\ Taking({"e", "p"})
  /\ Refuse("invalid_number")
  /\ UNCHANGED command

(* Mutant: the number is not compared with MAX_SLICE.                       *)
Valid_AnyNumber(g) == g.space \in Space

(* parse_slice_context accepts a group.                                     *)
Valid(g) == g.space \in Space /\ Bad \notin g.ids

Chosen(g) ==
  IF g.ids # {} THEN g.ids
  ELSE {0} \cup IF g.space = "port" THEN PortDefault ELSE {}

StoredBefore(n, s) ==
  sel[s] \cup UNION {Chosen(Option.groups[k]) :
                       k \in {k \in 1 .. n - 1 : Option.groups[k].space = s}}
Selected(s) == StoredBefore(Len(Option.groups) + 1, s)

(* Mutant: only the first -s of a space is counted.                         *)
Counted_First(s) == IF cnt[s] = 0 THEN Cardinality(Selected(s)) % CountRange ELSE cnt[s]

(* calc_slice_cnt adds all slices that are set, those of earlier -s options *)
(* too, to counts of one byte.                                              *)
Counted(s) == (cnt[s] + Cardinality(Selected(s))) % CountRange

Sum(f) == f["cfg0"] + f["cfg1"] + f["port"]

GiveSlices ==
  /\ Taking({"s"})
  /\ \A k \in DOMAIN Option.groups : Valid(Option.groups[k])
  /\ Sum([s \in Space |-> Counted(s)]) <= LsMaxSlice
  /\ sel' = [s \in Space |-> Selected(s)]
  /\ cnt' = [s \in Space |-> Counted(s)]
  /\ optind' = optind + 1
  /\ UNCHANGED <<cmd, port, given, message, entity, bits, queue, shown, missed, cut, phase>>

(* The groups before the one that is refused have been stored, and some of  *)
(* its own slices.                                                          *)
InvalidSlice ==
  /\ Taking({"s"})
  /\ \E k \in DOMAIN Option.groups :
       /\ ~ Valid(Option.groups[k])
       /\ \A j \in 1 .. k - 1 : Valid(Option.groups[j])
       /\ \E part \in SUBSET (Option.groups[k].ids \ {Bad}) :
            sel' = [s \in Space |-> StoredBefore(k, s)
                                      \cup {i \in part : s = Option.groups[k].space}]
  /\ Refuse("invalid_slice")
  /\ UNCHANGED <<cmd, optind, cnt, port, given>>

TooManySlices ==
  /\ Taking({"s"})
  /\ \A k \in DOMAIN Option.groups : Valid(Option.groups[k])
  /\ Sum([s \in Space |-> Counted(s)]) > LsMaxSlice
  /\ sel' = [s \in Space |-> Selected(s)]
  /\ cnt' = [s \in Space |-> Counted(s)]
  /\ Refuse("too_many_slices")
  /\ UNCHANGED <<cmd, optind, port, given>>

(* The scan, and cmd_option_further_proc.  Without -v and -x another        *)
(* command runs; check_ls_cmd gives up if no entity, or none that was       *)
(* found, is named.                                                         *)
OptionsDone ==
  /\ phase = "options" /\ optind > Len(cmd)
  /\ \/ {"v", "x"} \cap given # {} /\ "e" \in given /\ phase' = "check"
     \/ phase' = "exit"
  /\ UNCHANGED <<command, message, entity, bits, queue, shown, missed, cut>>

(* -v goes before -x.                                                       *)
Verbose == "v" \in given
Hex == ~ Verbose

(* check_ls_cmd after its default selection.                                *)
Default ==
  IF Verbose /\ Sum(cnt) = 0
  THEN [s \in Space |-> CASE s = "cfg0" -> sel[s] \cup {0} \cup VerboseCfg0
                          [] s = "cfg1" -> sel[s] \cup {0}
                          [] s = "port" -> sel[s]]
  ELSE sel

PortMissing_Never == FALSE  \* mutant: -p is not asked for
PortMissing == port = InvalidPort /\ cnt["port"] # 0
PortUnknown == port # InvalidPort /\ port >= PortNum

Listing(chosen) == {x \in Space \X Slice : x[2] \in chosen[x[1]]}

(* show_hex stops at the first slice, looking at all spaces for each number.*)
Rank(x) == 3 * x[2] + (CASE x[1] = "cfg0" -> 0 [] x[1] = "cfg1" -> 1 [] x[1] = "port" -> 2)
FirstOf(S) == {x \in S : \A y \in S : Rank(x) <= Rank(y)}

Check ==
  /\ phase = "check"
  /\ Hex => Sum(cnt) = 1
  /\ ~ PortMissing /\ ~ PortUnknown
  /\ sel' = Default
  /\ queue' = IF Hex THEN FirstOf(Listing(Default)) ELSE Listing(Default)
  /\ phase' = "show"
  /\ UNCHANGED <<cmd, optind, cnt, port, given, message, entity, bits, shown, missed, cut>>

CheckFails ==
  /\ phase = "check"
  /\ sel' = Default
  /\ \/ Hex /\ Sum(cnt) # 1 /\ Refuse("select_one_slice")
     \/ (Hex => Sum(cnt) = 1) /\ PortMissing /\ Refuse("no_port_selected")
     \/ (Hex => Sum(cnt) = 1) /\ ~ PortMissing /\ port # InvalidPort
          /\ Refuse("port_refused")  \* too large, or the port number is not readable
  /\ UNCHANGED <<cmd, optind, cnt, port, given>>

----------------------------------------------------------------------------
(* show_slice takes the spaces one after the other, each from slice 0 on.   *)
Order(x) == x[2] + MaxSlice * (CASE x[1] = "cfg0" -> 0 [] x[1] = "cfg1" -> 1
                                 [] x[1] = "port" -> 2)
IsNext(x) == x \in queue /\ \A y \in queue : Order(x) <= Order(y)

(* Mutant: every space looks at the bitmap of cfg0.                          *)
Looked_AnySpace(s) == IF bits[s] = Unread THEN caps["cfg0"] \cup {0} ELSE bits[s]

(* The bitmap of a space as ..._check_capid leaves it.                      *)
Looked(s) == IF bits[s] = Unread THEN caps[s] \cup {0} ELSE bits[s]

Skipped(s) == s = "port" /\ ~ primary

Finish(x) ==
  /\ queue' = queue \ {x}
  /\ UNCHANGED <<command, message, entity, phase>>

(* What is left of a bitmap behind whose first n bits the slice ends.       *)
FirstBits(s, n) == {i \in caps[s] : i < n}

(* lsub_cfg0_basic, ...: the bitmap is saved on the way, with zeros for what*)
(* the slice does not hold, unless the slice ends before it (n = 0).        *)
ShowBasic(x) ==
  /\ phase = "show" /\ Verbose /\ IsNext(x) /\ x[2] = 0 /\ ~ Skipped(x[1])
  /\ shown' = shown \cup {x}
  /\ \/ UNCHANGED <<bits, cut>>
     \/ \E n \in 1 .. MaxSlice :
          /\ bits' = [bits EXCEPT ![x[1]] = FirstBits(x[1], n) \cup {0}]
          /\ cut' = cut \cup {s \in {x[1]} : FirstBits(s, n) # caps[s]}
  /\ Finish(x) /\ UNCHANGED missed

SkipBasic(x) ==
  /\ phase = "show" /\ Verbose /\ IsNext(x) /\ x[2] = 0 /\ Skipped(x[1])
  /\ Finish(x) /\ UNCHANGED <<shown, bits, missed, cut>>

(* lsub_cfg0_cap, ...: the number is compared before the bitmap is read.    *)
ShowCap(x) ==
  /\ phase = "show" /\ Verbose /\ IsNext(x) /\ x[2] # 0
  /\ x[2] \in Decoded[x[1]]
  /\ bits' = [bits EXCEPT ![x[1]] = Looked(x[1])]
  /\ shown' = IF x[2] \in Looked(x[1]) /\ ~ Skipped(x[1]) THEN shown \cup {x} ELSE shown
  /\ Finish(x) /\ UNCHANGED <<missed, cut>>

SkipCap(x) ==
  /\ phase = "show" /\ Verbose /\ IsNext(x) /\ x[2] # 0
  /\ x[2] \notin Decoded[x[1]]
  /\ bits' \in {bits, [bits EXCEPT ![x[1]] = Looked(x[1])]}
  /\ Finish(x) /\ UNCHANGED <<shown, missed, cut>>

(* show_hex_dump, behind ..._check_capid, for which the basic slice is      *)
(* always supported once the bitmap was read.                               *)
ShowHex(x) ==
  /\ phase = "show" /\ Hex /\ IsNext(x)
  /\ bits' = [bits EXCEPT ![x[1]] = Looked(x[1])]
  /\ shown' = IF x[2] \in Looked(x[1]) THEN shown \cup {x} ELSE shown
  /\ Finish(x) /\ UNCHANGED <<missed, cut>>

(* The slice, or the bitmap if it is not known yet, cannot be read.         *)
ReadFails(x) ==
  /\ phase = "show" /\ IsNext(x)
  /\ missed' = TRUE
  /\ bits' \in {bits, [bits EXCEPT ![x[1]] = Looked(x[1])]}
  /\ Finish(x) /\ UNCHANGED <<shown, cut>>

ShowDone ==
  /\ phase = "show" /\ queue = {}
  /\ phase' = "done"
  /\ UNCHANGED <<command, message, entity, bits, queue, shown, missed, cut>>

Show(x) ==
  ShowBasic(x) \/ SkipBasic(x) \/ ShowCap(x) \/ SkipCap(x) \/ ShowHex(x) \/ ReadFails(x)

Tool ==
  \/ GiveFlag \/ GivePort \/ RefuseNumber \/ GiveSlices \/ InvalidSlice \/ TooManySlices
  \/ OptionsDone \/ Check \/ CheckFails
  \/ (\E x \in Space \X Slice : Show(x)) \/ ShowDone

Exited == phase \in {"exit", "done"} /\ UNCHANGED vars

Next == Tool \/ Exited

Spec == Init /\ [][Next]_vars /\ WF_vars(Tool)

----------------------------------------------------------------------------
(* Every slice that is set exists: the arrays cfg0_slice, cfg1_slice and    *)
(* port_slice are not written beyond their ends (lsub.c:217-221).           *)
TypeOK ==
  /\ cmd \in Seq(Options) /\ optind \in 1 .. Len(cmd) + 1
  /\ sel \in [Space -> SUBSET Slice] /\ cnt \in [Space -> 0 .. CountRange - 1]
  /\ port \in Nat /\ given \subseteq {"e", "v", "x"}
  /\ message \in {"none", "invalid_number", "invalid_slice", "too_many_slices",
                   "select_one_slice", "no_port_selected", "port_refused"}
  /\ caps \in [Space -> SUBSET (Slice \ {0})] /\ primary \in BOOLEAN
  /\ bits \in [Space -> {Unread} \cup SUBSET Slice]
  /\ queue \subseteq Space \X Slice /\ shown \subseteq Space \X Slice
  /\ missed \in BOOLEAN /\ cut \subseteq Space
  /\ phase \in {"options", "check", "show", "exit", "done"}

Supported(x) ==
  /\ x[1] = "port" => primary
  /\ x[2] # 0 => x[2] \in Decoded[x[1]] \cap caps[x[1]]

(* -v prints of the selected slices exactly those the entity has and a      *)
(* printer exists for, whichever slice comes first, although the bitmap of  *)
(* a space is read once and kept (cap.c of each space); only a failed read  *)
(* takes one away, or a basic slice that ends within its bitmap, and this   *)
(* in its own space.                                                        *)
ShownExactly ==
  Verbose /\ phase \in {"show", "done"} =>
    /\ shown \subseteq {x \in Listing(sel) : Supported(x)}
    /\ phase = "done" /\ ~ missed =>
         {x \in Listing(sel) : Supported(x) /\ (x[2] = 0 \/ x[1] \notin cut)} \subseteq shown

(* No space has so many slices selected that a count of one byte wraps.     *)
NoWrap == \A s \in Space : Cardinality(sel[s]) < CountRange - LsMaxSlice

(* -x is given one slice, all that was selected, however many -s options    *)
(* the selection was spread over (lsub.c:304-309, 409-444).                 *)
HexSole ==
  Hex /\ phase \in {"show", "done"} /\ NoWrap =>
    /\ Cardinality(Listing(sel)) = 1
    /\ queue \cup shown \subseteq Listing(sel)

(* The slices of a port are only read when a port the entity has was named, *)
(* whatever the order of -p and -s (lsub.c:311-318).                        *)
PortSlicesNeedPort ==
  phase \in {"show", "done"} /\ NoWrap /\ (\E i \in Slice : <<"port", i>> \in queue \cup shown)
    => port < PortNum

(* The claim of the message "Too many slices, only 8 of them" (lsub.c:24):  *)
(* a selection is refused with it only when it has more slices than that.   *)
RefusedOnlyAboveLimit ==
  message = "too_many_slices" => Cardinality(Listing(sel)) > LsMaxSlice

=============================================================================
