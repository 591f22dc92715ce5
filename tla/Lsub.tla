-------------------------------- MODULE Lsub --------------------------------
(****************************************************************************)
(* One run of lsub: its options, the scan, the command they choose, and the *)
(* cleanup.  The list of entities with the ID database (Ids), the routing   *)
(* table (Routes) and the management lists (MueLists) are run in full; the  *)
(* other commands are one step here and have modules of their own           *)
(* (Topology, Slices, BusInstances).                                        *)
(****************************************************************************)
EXTENDS Ids, Routes, MueLists

CONSTANTS
  IdOf,         \* vendor, device and class of each entity
  CommandLines  \* the command lines considered

(* "X" is an option that getopt does not know or that lacks its argument,   *)
(* "refused" an argument that the option's parser refuses; -p, -s and -E    *)
(* have no effect on the commands below.                                    *)
Flags == {"t", "l", "n", "k", "b", "v", "x"}
LsubOptions ==
  [opt : Flags \cup {"h", "i", "p", "s", "E", "X"}]
    \cup [opt : {"e"}, uent : Nat \ {0}] \cup [opt : {"r"}, cna : Nat]
    \cup [opt : {"e", "r", "p", "s", "E"}, refused : {TRUE}]

ASSUME IdOfAssumption == IdOf \in [Uent -> Query]
ASSUME CommandLinesAssumption == CommandLines \subseteq Seq(LsubOptions)

VARIABLES
  args,    \* the options still to be taken
  given,   \* the flags set
  uentNum, \* ls_cmd.uent_num
  cna,     \* ls_cmd.cna
  list,    \* list_show_flag
  ret,     \* what main returns
  acc,     \* uacc is allocated
  devs,    \* the length of g_first_dev
  toList,  \* the entities that show_list has not come to
  listed,  \* the lines that show_list has printed
  step     \* the place in main

choice == <<args, given, uentNum, cna, list>>
memory == <<acc, devs>>
listing == <<toList, listed>>
lsubVars == <<idsVars, routeVars, mueVars, choice, memory, listing, ret, step>>

LsubInit ==
  /\ IdsInit /\ RoutesInit /\ MueInit
  /\ args \in CommandLines
  /\ given = {} /\ uentNum = 0 /\ cna = 0 /\ list = FALSE
  /\ ret = "0" /\ acc = FALSE /\ devs = 0
  /\ toList = <<>> /\ listed = <<>>
  /\ step = "alloc"

----------------------------------------------------------------------------
Goto(s) == step' = s

(* A step of main outside the commands.                                     *)
InMain == UNCHANGED <<routeVars, mueVars, listing>>

AllocAcc ==
  /\ step = "alloc"
  /\ acc' = TRUE /\ Goto("init")
  /\ InMain /\ UNCHANGED <<idsVars, choice, devs, ret>>

AllocAccFails ==
  /\ step = "alloc"
  /\ ret' = "ENOMEM" /\ Goto("exit")
  /\ InMain /\ UNCHANGED <<idsVars, choice, memory>>

InitAcc ==
  /\ step = "init"
  /\ list' = TRUE /\ Goto("options")
  /\ InMain /\ UNCHANGED <<idsVars, args, given, uentNum, cna, memory, ret>>

(* No access method works: there is no /sys/bus/ub.                         *)
InitAccFails ==
  /\ step = "init"
  /\ ret' = "EINVAL" /\ Goto("cleanup")
  /\ InMain /\ UNCHANGED <<idsVars, choice, memory>>

Option == Head(args)
Taking(opts) ==
  step = "options" /\ args # <<>> /\ Option.opt \in opts /\ "refused" \notin DOMAIN Option
Taken == args' = Tail(args) /\ InMain /\ UNCHANGED <<memory, ret, step>>

GiveFlag ==
  /\ Taking(Flags)
  /\ given' = given \cup {Option.opt}
  /\ Taken /\ UNCHANGED <<idsVars, uentNum, cna, list>>

GiveHelp ==
  /\ Taking({"h"})
  /\ list' = FALSE
  /\ Taken /\ UNCHANGED <<idsVars, given, uentNum, cna>>

GiveIdsFile ==
  /\ Taking({"i"})
  /\ SetIdsFilePath
  /\ Taken /\ UNCHANGED <<given, uentNum, cna, list>>

GiveEntity ==
  /\ Taking({"e"})
  /\ uentNum' = Option.uent
  /\ Taken /\ UNCHANGED <<idsVars, given, cna, list>>

GiveCna ==
  /\ Taking({"r"})
  /\ cna' = Option.cna /\ given' = given \cup {"r"}
  /\ Taken /\ UNCHANGED <<idsVars, uentNum, list>>

GiveOther ==
  /\ Taking({"p", "s", "E"})
  /\ Taken /\ UNCHANGED <<idsVars, given, uentNum, cna, list>>

(* Mutant: the run goes on behind an option that is refused.                *)
OptionRefused_GoesOn ==
  /\ step = "options" /\ args # <<>>
  /\ Option.opt = "X" \/ "refused" \in DOMAIN Option
  /\ args' = Tail(args) /\ ret' = "EINVAL"
  /\ InMain /\ UNCHANGED <<idsVars, given, uentNum, cna, list, memory, step>>

OptionRefused ==
  /\ step = "options" /\ args # <<>>
  /\ Option.opt = "X" \/ "refused" \in DOMAIN Option
  /\ ret' = "EINVAL" /\ Goto("cleanup")
  /\ InMain /\ UNCHANGED <<idsVars, choice, memory>>

OptionsTaken ==
  /\ step = "options" /\ args = <<>>
  /\ Goto("scan")
  /\ InMain /\ UNCHANGED <<idsVars, choice, memory, ret>>

----------------------------------------------------------------------------
(* The scan: sysfs_ub_scan in readdir's order, then a device for each       *)
(* entity.  What is still in use when it gives up is left to the cleanup.   *)
OutOfMain == UNCHANGED <<only, todo, mueLines, ueLines, owner, level, files,
                         mueFile, rows, mueAt>>

ScanUent(u) ==
  /\ step = "scan" /\ ~Known(u)
  /\ found' = <<u>> \o found
  /\ OutOfMain
  /\ UNCHANGED <<idsVars, routeVars, listing, choice, memory, ret, step>>

ScanEnds ==
  /\ step = "scan"
  /\ Goto("devices")
  /\ InMain /\ UNCHANGED <<idsVars, choice, memory, ret>>

AddDevice ==
  /\ step = "devices" /\ devs < Len(found)
  /\ devs' = devs + 1
  /\ InMain /\ UNCHANGED <<idsVars, choice, acc, ret, step>>

ScanFails ==
  /\ \/ step = "scan" /\ found = <<>> /\ ret' = "ENOENT"
     \/ step = "scan" /\ ret' = "ENOMEM"
     \/ step = "devices" /\ devs < Len(found) /\ ret' = "ENXIO"
  /\ Goto("cleanup")
  /\ InMain /\ UNCHANGED <<idsVars, choice, memory>>

ScanDone ==
  /\ step = "devices" /\ devs = Len(found)
  /\ Goto("command")
  /\ InMain /\ UNCHANGED <<idsVars, choice, memory, ret>>

----------------------------------------------------------------------------
(* cmd_option_further_proc runs the first command that was given.           *)
Priority == <<"v", "x", "t", "r", "l", "b">>
Chosen(c) ==
  /\ step = "command" /\ c \in given
  /\ \E n \in DOMAIN Priority :
       Priority[n] = c /\ \A m \in 1 .. n - 1 : Priority[m] \notin given
NoneChosen == step = "command" /\ given \cap ToSet(Priority) = {}

(* show_verbose, show_hex, show_topo or show_bi_info; or nothing to do.     *)
OtherCommand ==
  /\ (\E c \in {"v", "x", "t", "b"} : Chosen(c)) \/ (NoneChosen /\ ~list)
  /\ Goto("cleanup")
  /\ InMain /\ UNCHANGED <<idsVars, choice, memory, ret>>

StartRoutes ==
  /\ Chosen("r")
  /\ ShowRouteTbl([known |-> Known(uentNum), cna |-> cna])
  /\ Goto("routes")
  /\ UNCHANGED <<idsVars, mueVars, listing, choice, memory, ret>>

InRoutes ==
  /\ step = "routes"
  /\ IF rt = "done"
     THEN Goto("cleanup") /\ UNCHANGED routeVars
     ELSE RouteStep /\ UNCHANGED step
  /\ UNCHANGED <<idsVars, mueVars, listing, choice, memory, ret>>

StartMueLists ==
  /\ Chosen("l")
  /\ ShowMueUeList(uentNum)
  /\ Goto("mue")
  /\ UNCHANGED <<idsVars, routeVars, listing, choice, memory, ret>>

InMueLists ==
  /\ step = "mue"
  /\ IF mueAt = "done"
     THEN Goto("cleanup") /\ UNCHANGED mueVars
     ELSE MueStep /\ UNCHANGED step
  /\ UNCHANGED <<idsVars, routeVars, listing, choice, memory, ret>>

(* show_list.                                                               *)
StartList ==
  /\ NoneChosen /\ list
  /\ toList' = found
  /\ Goto("list")
  /\ UNCHANGED <<idsVars, routeVars, mueVars, listed, choice, memory, ret>>

InList == UNCHANGED <<routeVars, mueVars, choice, memory, ret>>

(* Mutant: the entities before the one named are listed with it.            *)
Wanted_FromThere(u) == uentNum \in {0} \cup ToSet(toList)

Wanted(u) == uentNum \in {0, u}

(* Mutant: a "continue" that does not get to the next entity.               *)
ListSkip_Stays ==
  /\ step = "list" /\ toList # <<>> /\ ~Wanted(Head(toList))
  /\ InList /\ UNCHANGED <<idsVars, listing, step>>

ListSkip ==
  /\ step = "list" /\ toList # <<>> /\ ~Wanted(Head(toList))
  /\ toList' = Tail(toList)
  /\ InList /\ UNCHANGED <<idsVars, listed, step>>

ListNumeric ==
  /\ step = "list" /\ toList # <<>> /\ Wanted(Head(toList)) /\ "n" \in given
  /\ listed' = Append(listed, [uent |-> Head(toList), named |-> 0])
  /\ toList' = Tail(toList)
  /\ InList /\ UNCHANGED <<idsVars, step>>

(* ub_lookup_name, which may load the file first.                           *)
AskName ==
  /\ step = "list" /\ toList # <<>> /\ Wanted(Head(toList)) /\ "n" \notin given
  /\ Ask(IdOf[Head(toList)])
  /\ Goto("name")
  /\ InList /\ UNCHANGED listing

ListNamed ==
  /\ step = "name"
  /\ LookupName
  /\ IF db' = "idle"
     THEN /\ listed' = Append(listed, [uent |-> Head(toList), named |-> Len(shown')])
          /\ toList' = Tail(toList)
          /\ Goto("list")
     ELSE UNCHANGED <<listing, step>>
  /\ InList

ListDone ==
  /\ step = "list" /\ toList = <<>>
  /\ Goto("cleanup")
  /\ InList /\ UNCHANGED <<idsVars, listing>>

(* Mutant: the devices are only freed if all of them were made.             *)
CleanUp_WholeScan ==
  /\ step = "cleanup"
  /\ FreeIds
  /\ found' = <<>> /\ acc' = FALSE
  /\ devs' = IF devs = Len(found) THEN 0 ELSE devs
  /\ Goto("exit")
  /\ OutOfMain /\ UNCHANGED <<routeVars, listing, choice, ret>>

(* ub_cleanup, on every way out but that of AllocAccFails.                  *)
CleanUp ==
  /\ step = "cleanup"
  /\ FreeIds
  /\ found' = <<>> /\ devs' = 0 /\ acc' = FALSE
  /\ Goto("exit")
  /\ OutOfMain /\ UNCHANGED <<routeVars, listing, choice, ret>>

LsubTool ==
  \/ AllocAcc \/ AllocAccFails \/ InitAcc \/ InitAccFails
  \/ GiveFlag \/ GiveHelp \/ GiveIdsFile \/ GiveEntity \/ GiveCna \/ GiveOther
  \/ OptionRefused \/ OptionsTaken
  \/ (\E u \in Uent : ScanUent(u)) \/ ScanEnds \/ AddDevice \/ ScanFails \/ ScanDone
  \/ OtherCommand \/ StartRoutes \/ InRoutes \/ StartMueLists \/ InMueLists
  \/ StartList \/ ListSkip \/ ListNumeric \/ AskName \/ ListNamed \/ ListDone
  \/ CleanUp

LsubExited == step = "exit" /\ UNCHANGED lsubVars

LsubNext == LsubTool \/ LsubExited

LsubSpec == LsubInit /\ [][LsubNext]_lsubVars /\ WF_lsubVars(LsubTool)

----------------------------------------------------------------------------
LsubTypeOK ==
  /\ IdsTyped /\ RoutesTypeOK /\ MueTypeOK
  /\ args \in Seq(LsubOptions) /\ given \subseteq Flags \cup {"r"}
  /\ uentNum \in Nat /\ cna \in Nat /\ list \in BOOLEAN
  /\ ret \in {"0", "ENOMEM", "EINVAL", "ENOENT", "ENXIO"}
  /\ acc \in BOOLEAN /\ devs \in 0 .. Len(found)
  /\ toList \in Seq(Uent) /\ listed \in Seq([uent : Uent, named : 0 .. Len(shown)])
  /\ step \in {"alloc", "init", "options", "scan", "devices", "command", "routes",
               "mue", "list", "name", "cleanup", "exit"}

(* Whatever fails and wherever the run is broken off, what was allocated is *)
(* freed before main returns: uacc, entities, devices, the hash and the     *)
(* resolved path, of which there is never more than one (ub_cleanup).       *)
NothingLeaked ==
  /\ PathOwned
  /\ step = "exit" =>
       ~acc /\ found = <<>> /\ devs = 0 /\ table = <<>> /\ ~hashed /\ heap = 0

(* A run that returns an error has shown nothing: no option after the one   *)
(* that is refused, and no command after half a scan, has an effect.        *)
ErrorMeansSilence ==
  ret # "0" => listed = <<>> /\ shown = <<>> /\ rows = <<>> /\ tables = {}

(* The list has one line for each entity of the scan, or for the one that   *)
(* -e names, in order, and each line bears the name asked for this entity,  *)
(* however often the load of the database was tried in between (show_list). *)
EachListedOnce ==
  step = "list" /\ toList = <<>> =>
    /\ Uents(listed) = Picked(found, {u \in Uent : uentNum \in {0, u}})
    /\ \A n \in DOMAIN listed :
         "n" \notin given => shown[listed[n].named].query = IdOf[listed[n].uent]

(* lsub ends, whatever fails and whatever the files hold.                   *)
LsubEnds == <>(step = "exit")
=============================================================================
