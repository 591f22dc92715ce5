------------------------------ MODULE Topology ------------------------------
(****************************************************************************)
(* One run of "lsub -t": scan the entities that sysfs lists, read every     *)
(* entity's direct_link file, mark the parent of each entity in passes over *)
(* the device list, print the tree, and free the list of bus controllers.   *)
(*                                                                          *)
(* The tool is one sequential process; what runs beside it is the kernel,   *)
(* which plugs and unplugs entities and re-cables ports between two reads.  *)
(* The order in which readdir returns entities is the order of their        *)
(* numbers here; the code never compares two numbers for order.  A port     *)
(* list is a set: its order only decides which branch is printed first, and *)
(* every order is explored.                                                 *)
(****************************************************************************)
EXTENDS Integers, Sequences, FiniteSets

CONSTANTS
  N,        \* number of UB entities the fabric can hold
  PortNum,  \* port numbers an entity has
  MaxChurn, \* how often the fabric changes while the tool reads it
  Cablings  \* the cablings a run may start from

ASSUME NAssumption == N \in Nat
ASSUME PortNumAssumption == IsFiniteSet(PortNum)
ASSUME MaxChurnAssumption == MaxChurn \in Nat

Uent == 1 .. N
UB_HOST_DEV_PARENT == N + 1  \* 0xFFFFFFFE: above every 20-bit entity number
UB_INIT_PARENT == N + 2      \* 0xFFFFFFFF
NoUbc == N + 2               \* (unsigned int)~0: the attribute file is unreadable

Port == Uent \X PortNum
NoPort == <<0, 0>>           \* the NULL port

(* A port is in one cable at most, and a cable joins two entities.          *)
ASSUME CablingsAssumption ==
  Cablings \subseteq
    {c \in [Port -> Port \cup {NoPort}] :
       \A x \in Port : c[x] # NoPort => c[x][1] # x[1] /\ c[c[x]] = x}

VARIABLES
  (* the kernel's side *)
  present,  \* entities under /sys/bus/ub/devices
  cable,    \* the port at the other end of each port, or NoPort
  churn,    \* changes of the fabric so far
  (* what the scan recorded of each entity *)
  devs,     \* the device list g_first_dev
  ctrl,     \* entities whose type and class make them bus controllers
  ubc,      \* ubc_uent_num
  (* what grow_topo builds *)
  chain,    \* g_ubc.chain, the list of bus controllers
  tail,     \* the last pointer of that list: "null" or "garbage"
  ports,    \* route_tb->port_ls of each entity
  link,     \* link_port of each port
  par,      \* par_uent_num
  scaned,   \* entities whose ports were traversed
  keep,     \* keep_scan_flag
  (* what show_topo has printed *)
  printed,  \* the printed flags
  bracket,  \* how many times an entity was shown as [num]
  drawn,    \* ports whose branch was drawn
  todo,     \* ports a call of show_src_port has not drawn yet
  stack,    \* the entities of the active show_src_port calls
  (* control *)
  phase, rest

fabric == <<present, cable, churn>>
scan == <<devs, ctrl, ubc>>
topo == <<chain, tail, ports, link, par, scaned, keep>>
output == <<printed, bracket, drawn, todo, stack>>
vars == <<fabric, scan, topo, output, phase, rest>>

Phases == {"scan", "link", "preset", "show", "done", "failed", "exit"}

(* The device a list traversal visits next: rest holds those still ahead.   *)
IsNext(u) == u \in rest /\ \A v \in rest : u <= v

----------------------------------------------------------------------------
(* Before the run the fabric holds any entities, any of them controllers,   *)
(* each in the domain of one of them or in none.                            *)
Init ==
  /\ present \in SUBSET Uent
  /\ cable \in Cablings
  /\ \A x \in Port : cable[x] # NoPort => x[1] \in present
  /\ churn = 0
  /\ devs = {}
  /\ ctrl \in SUBSET Uent
  /\ ubc \in [Uent -> Uent \cup {NoUbc}]
  /\ \A u \in Uent : ubc[u] \in ctrl \cup {NoUbc} /\ (u \in ctrl => ubc[u] = u)
  /\ chain = {} /\ tail = "null"
  /\ ports = [u \in Uent |-> {}]
  /\ link = [x \in Port |-> NoPort]
  /\ par = [u \in Uent |-> UB_INIT_PARENT]
  /\ scaned = {} /\ keep = FALSE
  /\ printed = {} /\ drawn = {} /\ stack = <<>>
  /\ bracket = [u \in Uent |-> 0]
  /\ todo = [u \in Uent |-> {}]
  /\ phase = "scan" /\ rest = Uent

----------------------------------------------------------------------------
(* The kernel.  Each change counts against MaxChurn; none matters once the  *)
(* last direct_link file has been read.                                     *)
Churn ==
  /\ phase \in {"scan", "link"}
  /\ churn < MaxChurn
  /\ churn' = churn + 1
  /\ UNCHANGED <<scan, topo, output, phase, rest>>

Uncable(c, S) ==
  [x \in Port |-> IF x[1] \in S \/ (c[x] # NoPort /\ c[x][1] \in S)
                  THEN NoPort ELSE c[x]]

Unplug(u) ==
  /\ Churn
  /\ u \in present
  /\ present' = present \ {u}
  /\ cable' = Uncable(cable, {u})

Plug(u) ==
  /\ Churn
  /\ u \notin present
  /\ present' = present \cup {u}
  /\ UNCHANGED cable

Disconnect(x) ==
  /\ Churn
  /\ cable[x] # NoPort
  /\ cable' = [cable EXCEPT ![x] = NoPort, ![cable[x]] = NoPort]
  /\ UNCHANGED present

(* A cable is plugged into x and y, out of whatever it was in before.       *)
Connect(x, y) ==
  /\ Churn
  /\ x[1] # y[1] /\ {x[1], y[1]} \subseteq present
  /\ cable' = [z \in Port |-> CASE z = x -> y [] z = y -> x
                               [] z \notin {x, y} /\ cable[z] \in {x, y} -> NoPort
                               [] OTHER -> cable[z]]
  /\ UNCHANGED present

Kernel ==
  \/ \E u \in Uent : Unplug(u) \/ Plug(u)
  \/ \E x \in Port : Disconnect(x) \/ \E y \in Port : Connect(x, y)

----------------------------------------------------------------------------
(* Scanning: readdir returns the next entity, its attributes are read and   *)
(* it joins the lists.  An entity the kernel removes between the two reads  *)
(* is listed all the same, with every attribute ~0; a failed allocation     *)
(* ends the run before anything is printed.                                 *)
ScanUent(u) ==
  /\ phase = "scan" /\ IsNext(u)
  /\ rest' = rest \ {u}
  /\ devs' = IF u \in present THEN devs \cup {u} ELSE devs
  /\ UNCHANGED <<fabric, ctrl, ubc, topo, output, phase>>

ScanVanishing(u) ==
  /\ phase = "scan" /\ IsNext(u)
  /\ u \in present /\ churn < MaxChurn
  /\ churn' = churn + 1
  /\ present' = present \ {u}
  /\ cable' = Uncable(cable, {u})
  /\ rest' = rest \ {u}
  /\ devs' = devs \cup {u}
  /\ ctrl' = ctrl \ {u}
  /\ ubc' = [ubc EXCEPT ![u] = NoUbc]
  /\ UNCHANGED <<topo, output, phase>>

ScanFails ==
  /\ phase = "scan" /\ rest # {}
  /\ phase' = "failed"
  /\ UNCHANGED <<fabric, scan, topo, output, rest>>

ScanDone ==
  /\ phase = "scan" /\ rest = {}
  /\ phase' = "link" /\ rest' = devs
  /\ UNCHANGED <<fabric, scan, topo, output>>

----------------------------------------------------------------------------
(* grow_topo's first loop.  A bus controller is appended to the chain,      *)
(* whose last pointer stays uninitialised until the loop ends or fails.     *)
AppendUbc(u) ==
  IF u \in ctrl
  THEN /\ chain' = chain \cup {u}
       /\ par' = [par EXCEPT ![u] = UB_HOST_DEV_PARENT]
  ELSE UNCHANGED <<chain, par>>

DirectLink(u) == {p \in PortNum : cable[<<u, p>>] # NoPort}

(* Is the port a line names allocated?                                      *)
Allocated(x) == x[1] \in devs /\ x[2] \in ports[x[1]]

(* Mutant: the peer is taken from the line without looking it up.           *)
AllocPorts_NoLookup(u, S) ==
  /\ ports' = [ports EXCEPT ![u] = S]
  /\ link' = [x \in Port |-> IF x[1] = u /\ x[2] \in S THEN cable[x] ELSE link[x]]

(* Mutant: the peer is not made to point back.                              *)
AllocPorts_OneWay(u, S) ==
  /\ ports' = [ports EXCEPT ![u] = S]
  /\ link' = [x \in Port |-> IF x[1] = u /\ x[2] \in S /\ Allocated(cable[x])
                             THEN cable[x] ELSE link[x]]

(* sysfs_get_direct_link on the lines S of u's file: ub_alloc_port links a  *)
(* new port to the peer the line names when that peer has been allocated,   *)
(* and makes the peer point back, whatever the peer pointed to before.      *)
AllocPorts(u, S) ==
  /\ ports' = [ports EXCEPT ![u] = S]
  /\ link' = [x \in Port |->
       CASE x[1] = u /\ x[2] \in S ->
              IF Allocated(cable[x]) THEN cable[x] ELSE NoPort
         [] x[1] # u /\ Allocated(x) /\ cable[x][1] = u /\ cable[x][2] \in S ->
              cable[x]
         [] OTHER -> link[x]]

LinkUent(u) ==
  /\ phase = "link" /\ IsNext(u)
  /\ u \in present
  /\ AppendUbc(u)
  /\ tail' = IF u \in ctrl THEN "garbage" ELSE tail
  /\ AllocPorts(u, DirectLink(u))
  /\ rest' = rest \ {u}
  /\ UNCHANGED <<fabric, scan, scaned, keep, output, phase>>

(* A failure ends grow_topo with the chain terminated: no memory for a      *)
(* controller's node, no direct_link file, or no memory for a port after    *)
(* some lines of the file were taken in.                                    *)
UbcAllocFails(u) ==
  /\ phase = "link" /\ IsNext(u)
  /\ u \in ctrl
  /\ tail' = "null"
  /\ phase' = "failed"
  /\ UNCHANGED <<fabric, scan, chain, ports, link, par, scaned, keep, output, rest>>

LinkFails(u) ==
  /\ phase = "link" /\ IsNext(u)
  /\ AppendUbc(u)
  /\ \/ u \notin present /\ UNCHANGED <<ports, link>>
     \/ \E S \in SUBSET DirectLink(u) : S # DirectLink(u) /\ AllocPorts(u, S)
  /\ tail' = "null"
  /\ phase' = "failed"
  /\ UNCHANGED <<fabric, scan, scaned, keep, output, rest>>

(* Mutant: the loop ends without terminating the chain.                     *)
LinkDone_NoTerminator ==
  /\ phase = "link" /\ rest = {}
  /\ phase' = "preset" /\ rest' = devs /\ keep' = FALSE
  /\ UNCHANGED <<fabric, scan, chain, tail, ports, link, par, scaned, output>>

LinkDone ==
  /\ phase = "link" /\ rest = {}
  /\ tail' = "null"
  /\ phase' = "preset" /\ rest' = devs /\ keep' = FALSE
  /\ UNCHANGED <<fabric, scan, chain, ports, link, par, scaned, output>>

----------------------------------------------------------------------------
(* show_src_port of u has a branch to e.                                    *)
Linked(u, e) == \E p \in ports[u] : link[<<u, p>>] # NoPort /\ link[<<u, p>>][1] = e

(* Mutants: an entity that has a parent is given another; an entity of      *)
(* another controller's domain is adopted.                                  *)
Adopted_Reparent(u) == {e \in Uent : Linked(u, e) /\ ubc[e] = ubc[u]}
Adopted_AnyDomain(u) == {e \in Uent : Linked(u, e) /\ par[e] = UB_INIT_PARENT}

(* preset_sub_uent: the entities u becomes the parent of.                   *)
Adopted(u) == {e \in Uent : Linked(u, e) /\ par[e] = UB_INIT_PARENT /\ ubc[e] = ubc[u]}

PresetUent(u) ==
  /\ phase = "preset" /\ IsNext(u)
  /\ rest' = rest \ {u}
  /\ IF par[u] = UB_INIT_PARENT \/ u \in scaned
     THEN UNCHANGED <<par, scaned, keep>>
     ELSE /\ par' = [e \in Uent |-> IF e \in Adopted(u) THEN u ELSE par[e]]
          /\ keep' = (keep \/ Adopted(u) # {})
          /\ scaned' = scaned \cup {u}
  /\ UNCHANGED <<fabric, scan, chain, tail, ports, link, output, phase>>

(* Mutants: one pass only; the flag is not reset before a pass.             *)
PresetPassDone_OnePass ==
  /\ phase = "preset" /\ rest = {}
  /\ rest' = chain /\ phase' = "show"
  /\ UNCHANGED <<fabric, scan, topo, output>>

PresetPassDone_NoReset ==
  /\ phase = "preset" /\ rest = {}
  /\ IF keep THEN rest' = devs /\ UNCHANGED phase ELSE rest' = chain /\ phase' = "show"
  /\ UNCHANGED <<fabric, scan, topo, output>>

(* Another pass as long as the last one changed something.                  *)
PresetPassDone ==
  /\ phase = "preset" /\ rest = {}
  /\ IF keep
     THEN rest' = devs /\ keep' = FALSE /\ UNCHANGED phase
     ELSE rest' = chain /\ phase' = "show" /\ UNCHANGED keep
  /\ UNCHANGED <<fabric, scan, chain, tail, ports, link, par, scaned, output>>

----------------------------------------------------------------------------
(* [num] and a call of show_src_port.                                       *)
Expand(e, left) ==
  /\ printed' = printed \cup {e}
  /\ bracket' = [bracket EXCEPT ![e] = IF @ = 0 THEN 1 ELSE 2]  \* 2: or more
  /\ todo' = [left EXCEPT ![e] = ports[e]]
  /\ stack' = Append(stack, e)

(* "num" and no more, or no entity at all behind an unlinked port.          *)
Quote(left) == todo' = left /\ UNCHANGED <<printed, bracket, stack>>

(* Mutants: the printed flag, or the parent, is not looked at.              *)
ShowOneUent_Again(e, scanNum, scanUbc, left) ==
  IF par[e] = scanNum /\ ubc[e] = scanUbc THEN Expand(e, left) ELSE Quote(left)
ShowOneUent_AnyScanner(e, scanNum, scanUbc, left) ==
  IF ubc[e] = scanUbc /\ e \notin printed THEN Expand(e, left) ELSE Quote(left)

(* show_one_uent: an entity is expanded the first time its parent shows it. *)
ShowOneUent(e, scanNum, scanUbc, left) ==
  IF par[e] = scanNum /\ ubc[e] = scanUbc /\ e \notin printed
  THEN Expand(e, left) ELSE Quote(left)

(* show_topo_ubc on the next controller of the chain.                       *)
ShowUbc(c) ==
  /\ phase = "show" /\ stack = <<>> /\ IsNext(c)
  /\ rest' = rest \ {c}
  /\ ShowOneUent(c, UB_HOST_DEV_PARENT, ubc[c], todo)
  /\ UNCHANGED <<fabric, scan, topo, drawn, phase>>

Top == stack[Len(stack)]

(* show_src_port takes its next port, and show_dst_port the other end.      *)
ShowPort(p) ==
  /\ phase = "show" /\ stack # <<>>
  /\ p \in todo[Top]
  /\ drawn' = drawn \cup {<<Top, p>>}
  /\ LET left == [todo EXCEPT ![Top] = @ \ {p}]
         peer == link[<<Top, p>>]
     IN IF peer = NoPort
        THEN Quote(left)
        ELSE ShowOneUent(peer[1], Top, ubc[Top], left)
  /\ UNCHANGED <<fabric, scan, topo, phase, rest>>

ShowReturn ==
  /\ phase = "show" /\ stack # <<>> /\ todo[Top] = {}
  /\ stack' = SubSeq(stack, 1, Len(stack) - 1)
  /\ UNCHANGED <<fabric, scan, topo, printed, bracket, drawn, todo, phase, rest>>

ShowDone ==
  /\ phase = "show" /\ stack = <<>> /\ rest = {}
  /\ phase' = "done"
  /\ UNCHANGED <<fabric, scan, topo, output, rest>>

(* ub_free_ubc follows the chain to its last pointer and frees every node.  *)
Cleanup ==
  /\ phase \in {"done", "failed"}
  /\ chain' = {}
  /\ phase' = "exit"
  /\ UNCHANGED <<fabric, scan, tail, ports, link, par, scaned, keep, output, rest>>

Exited == phase = "exit" /\ UNCHANGED vars

----------------------------------------------------------------------------
Tool ==
  \/ \E u \in Uent : \/ ScanUent(u) \/ LinkUent(u)
                     \/ UbcAllocFails(u) \/ LinkFails(u)
                     \/ PresetUent(u) \/ ShowUbc(u)
  \/ ScanFails \/ ScanDone \/ LinkDone \/ PresetPassDone
  \/ \E p \in PortNum : ShowPort(p)
  \/ ShowReturn \/ ShowDone \/ Cleanup

Next == Tool \/ Kernel \/ (\E u \in Uent : ScanVanishing(u)) \/ Exited

(* Nothing blocks the tool: as long as it has a step it takes one.          *)
Spec == Init /\ [][Next]_vars /\ WF_vars(Tool)

----------------------------------------------------------------------------
Typed ==
  /\ present \in SUBSET Uent /\ cable \in [Port -> Port \cup {NoPort}]
  /\ churn \in 0 .. MaxChurn
  /\ devs \in SUBSET Uent /\ ctrl \in SUBSET Uent
  /\ ubc \in [Uent -> Uent \cup {NoUbc}]
  /\ chain \in SUBSET Uent /\ tail \in {"null", "garbage"}
  /\ ports \in [Uent -> SUBSET PortNum] /\ link \in [Port -> Port \cup {NoPort}]
  /\ par \in [Uent -> Uent \cup {UB_HOST_DEV_PARENT, UB_INIT_PARENT}]
  /\ scaned \in SUBSET Uent /\ keep \in BOOLEAN
  /\ printed \in SUBSET Uent /\ bracket \in [Uent -> 0 .. 2]
  /\ drawn \in SUBSET Port /\ todo \in [Uent -> SUBSET PortNum]
  /\ stack \in Seq(Uent)
  /\ phase \in Phases /\ rest \in SUBSET Uent

(* A pointer leads to a node that is in a list.                             *)
PointersValid ==
  /\ chain \subseteq devs \cap ctrl
  /\ \A u \in Uent : ports[u] # {} => u \in devs
  /\ \A x \in Port : link[x] # NoPort => Allocated(x) /\ Allocated(link[x])

(* The type invariant: every variable has its type, and no list node or     *)
(* link_port points outside the lists the scan and the link files built.    *)
TypeOK == Typed /\ PointersValid

Parented == {u \in Uent : par[u] # UB_INIT_PARENT}

(* The reference: the entities of the controllers' domains that a walk over *)
(* the links, never leaving a domain, reaches from a controller.            *)
ClosedUnderLinks(S) ==
  \A u \in S, e \in Uent : Linked(u, e) /\ ubc[e] = ubc[u] => e \in S
Reachable ==
  {u \in Uent : \A S \in SUBSET Uent : chain \subseteq S /\ ClosedUnderLinks(S) => u \in S}

(* The parent numbers form a forest: no entity is its own ancestor, however *)
(* the links changed while they were read, so the recursion of the printing *)
(* functions ends.                                                          *)
Forest ==
  \A S \in SUBSET Parented : S # {} => \E u \in S : par[u] \notin S

(* What the passes of preset_all_uent_par leave, whatever the order of the  *)
(* device list: the entities with a parent are those a walk over the links  *)
(* reaches from a controller without leaving its domain.                    *)
MarkedIsReachable ==
  phase \in {"show", "done"} => Parented = Reachable

(* The diagram is complete and has no repetition: when show_topo returns,   *)
(* each reachable entity was shown in brackets once, no other was, and each *)
(* port of a shown entity has its branch.                                   *)
DiagramComplete ==
  phase = "done" =>
    /\ \A u \in Uent : bracket[u] = IF u \in Reachable THEN 1 ELSE 0
    /\ drawn = {x \in Port : x[1] \in Reachable /\ x[2] \in ports[x[1]]}

(* A nested call of show_src_port is for a child of the caller's entity, in *)
(* the same domain: the recursion is never deeper than the forest.          *)
RecursionFollowsParents ==
  \A i \in 2 .. Len(stack) :
    par[stack[i]] = stack[i - 1] /\ ubc[stack[i]] = ubc[stack[i - 1]]

(* ub_free_ubc never follows an uninitialised pointer, on whatever path the *)
(* run ended.                                                               *)
ChainTerminated ==
  phase \in {"preset", "show", "done", "failed"} => tail = "null"

(* "Establish a bidirectional connection" (common.c:236): as long as the    *)
(* fabric is at rest the peer of a port's peer is the port, at every moment *)
(* of the reading, in whatever order the two files are read.                *)
LinksAreSymmetric ==
  churn = 0 => \A x \in Port : link[x] # NoPort => link[link[x]] = x

(* The parent of an entity is decided once.                                 *)
ParentDecidedOnce ==
  [][\A u \in Parented : par'[u] = par[u]]_vars

(* "Show a topo-like diagram containing all entities, ports and connections *)
(* between them" (lsub.man): every scanned entity is shown, [num] or "num". *)
AllEntitiesShown ==
  phase = "done" =>
    \A u \in devs : bracket[u] # 0 \/ \E x \in drawn : link[x] # NoPort /\ link[x][1] = u

(* The refinement: the passes mark along the links inside a domain until    *)
(* nothing is left to be marked.                                            *)
Domains == {x \in Uent \X Uent : Linked(x[1], x[2]) /\ ubc[x[2]] = ubc[x[1]]}
Stage ==
  CASE phase = "preset" -> "mark"
    [] phase \in {"show", "done"} -> "fixed"
    [] phase \in {"scan", "link", "failed", "exit"} -> "build"

Passes == INSTANCE ParentMarking
            WITH Node <- Uent, graph <- Domains, marked <- Parented, stage <- Stage

MarkingSpec == Passes!Spec

(* Whatever the fabric does, the run ends.                                  *)
RunEnds == <>(phase = "exit")
=============================================================================
