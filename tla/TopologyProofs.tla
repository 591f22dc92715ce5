--------------------------- MODULE TopologyProofs ---------------------------
(****************************************************************************)
(* What lsub -t guarantees for every number of entities and ports, every    *)
(* cabling, every kind and domain of the entities and every way the fabric  *)
(* changes during the run.                                                  *)
(****************************************************************************)
EXTENDS Topology, SequenceTheorems, FiniteSetTheorems, TLAPS

USE NAssumption, MaxChurnAssumption

LEMMA NoPortIsNone == NoPort \notin Port
  BY DEF NoPort, Port, Uent

(* An unlinked port, or a port outside Port, is not allocated.              *)
LEMMA NoPortNotAllocated == Typed => ~ Allocated(NoPort)
  BY DEF Typed, Allocated, NoPort, Uent

----------------------------------------------------------------------------
(* Type correctness.                                                        *)

LEMMA InitTyped == Init => Typed
<1> SUFFICES ASSUME Init PROVE Typed
  OBVIOUS
<1>1. cable \in [Port -> Port \cup {NoPort}]
  BY CablingsAssumption DEF Init
<1>2. churn \in 0 .. MaxChurn
  BY DEF Init
<1>3. /\ ports \in [Uent -> SUBSET PortNum] /\ todo \in [Uent -> SUBSET PortNum]
      /\ link \in [Port -> Port \cup {NoPort}]
  BY DEF Init
<1>4. par \in [Uent -> Uent \cup {UB_HOST_DEV_PARENT, UB_INIT_PARENT}]
  BY DEF Init
<1>5. bracket \in [Uent -> 0 .. 2]
  BY DEF Init
<1>6. stack \in Seq(Uent)
  BY DEF Init
<1> QED
  BY <1>1, <1>2, <1>3, <1>4, <1>5, <1>6 DEF Init, Typed, Phases

LEMMA AllocPortsTyped ==
  ASSUME Typed, NEW u \in Uent, NEW S \in SUBSET PortNum, AllocPorts(u, S)
  PROVE  /\ ports' \in [Uent -> SUBSET PortNum]
         /\ link' \in [Port -> Port \cup {NoPort}]
  BY DEF Typed, AllocPorts

LEMMA UncableTyped ==
  ASSUME Typed, NEW S
  PROVE  Uncable(cable, S) \in [Port -> Port \cup {NoPort}]
  BY DEF Typed, Uncable

LEMMA ShowOneUentTyped ==
  ASSUME Typed, NEW e \in Uent, NEW n, NEW d, NEW left \in [Uent -> SUBSET PortNum],
         ShowOneUent(e, n, d, left)
  PROVE  /\ printed' \in SUBSET Uent /\ bracket' \in [Uent -> 0 .. 2]
         /\ todo' \in [Uent -> SUBSET PortNum] /\ stack' \in Seq(Uent)
<1>1. CASE Expand(e, left)
  <2>1. stack' \in Seq(Uent)
    BY <1>1 DEF Expand, Typed
  <2>2. todo' \in [Uent -> SUBSET PortNum]
    BY <1>1 DEF Expand, Typed
  <2>3. bracket' \in [Uent -> 0 .. 2]
    BY <1>1 DEF Expand, Typed
  <2> QED
    BY <1>1, <2>1, <2>2, <2>3 DEF Expand, Typed
<1>2. CASE Quote(left)
  BY <1>2 DEF Quote, Typed
<1> QED
  BY <1>1, <1>2 DEF ShowOneUent

(* The entity on top of the stack, and the ports it has left without p.     *)
LEMMA TopTyped ==
  ASSUME Typed, stack # <<>>
  PROVE  /\ Len(stack) \in Nat \ {0}
         /\ Top \in Uent
         /\ \A p : [todo EXCEPT ![Top] = @ \ {p}] \in [Uent -> SUBSET PortNum]
<1>1. stack \in Seq(Uent)
  BY DEF Typed
<1>2. Len(stack) \in Nat \ {0}
  BY <1>1
<1>3. Top \in Uent
  BY <1>1, <1>2 DEF Top
<1> QED
  BY <1>2, <1>3 DEF Typed

LEMMA StepTyped == Typed /\ [Next]_vars => Typed'
<1> SUFFICES ASSUME Typed, [Next]_vars PROVE Typed'
  OBVIOUS
<1> USE DEF Typed, Phases, vars, fabric, scan, topo, output
<1>1. ASSUME NEW u \in Uent, Unplug(u) PROVE Typed'
  BY <1>1, UncableTyped DEF Unplug, Churn
<1>2. ASSUME NEW u \in Uent, Plug(u) PROVE Typed'
  BY <1>2 DEF Plug, Churn
<1>3. ASSUME NEW x \in Port, Disconnect(x) PROVE Typed'
  BY <1>3 DEF Disconnect, Churn
<1>4. ASSUME NEW x \in Port, NEW y \in Port, Connect(x, y) PROVE Typed'
  BY <1>4 DEF Connect, Churn
<1>5. ASSUME NEW u \in Uent, ScanUent(u) PROVE Typed'
  BY <1>5 DEF ScanUent
<1>6. ASSUME NEW u \in Uent, ScanVanishing(u) PROVE Typed'
  BY <1>6, UncableTyped DEF ScanVanishing
<1>7. CASE ScanFails
  BY <1>7 DEF ScanFails
<1>8. CASE ScanDone
  BY <1>8 DEF ScanDone
<1>9. ASSUME NEW u \in Uent, LinkUent(u) PROVE Typed'
  <2>1. DirectLink(u) \in SUBSET PortNum
    BY DEF DirectLink
  <2> QED
    BY <1>9, <2>1, AllocPortsTyped DEF LinkUent, AppendUbc
<1>10. ASSUME NEW u \in Uent, UbcAllocFails(u) PROVE Typed'
  BY <1>10 DEF UbcAllocFails
<1>11. ASSUME NEW u \in Uent, LinkFails(u) PROVE Typed'
  <2>1. /\ ports' \in [Uent -> SUBSET PortNum]
        /\ link' \in [Port -> Port \cup {NoPort}]
    BY <1>11, AllocPortsTyped DEF LinkFails, DirectLink
  <2> QED
    BY <1>11, <2>1 DEF LinkFails, AppendUbc
<1>12. CASE LinkDone
  BY <1>12 DEF LinkDone
<1>13. ASSUME NEW u \in Uent, PresetUent(u) PROVE Typed'
  BY <1>13 DEF PresetUent
<1>14. CASE PresetPassDone
  BY <1>14 DEF PresetPassDone
<1>15. ASSUME NEW c \in Uent, ShowUbc(c) PROVE Typed'
  BY <1>15, ShowOneUentTyped DEF ShowUbc
<1>16. ASSUME NEW p \in PortNum, ShowPort(p) PROVE Typed'
  <2>1. /\ Top \in Uent
        /\ [todo EXCEPT ![Top] = @ \ {p}] \in [Uent -> SUBSET PortNum]
        /\ <<Top, p>> \in Port
    BY <1>16, TopTyped DEF ShowPort, Port
  <2>2. CASE link[<<Top, p>>] = NoPort
    BY <1>16, <2>1, <2>2 DEF ShowPort, Quote
  <2>3. CASE link[<<Top, p>>] # NoPort
    <3>1. link[<<Top, p>>][1] \in Uent
      BY <2>1, <2>3 DEF Port
    <3>2. /\ printed' \in SUBSET Uent /\ bracket' \in [Uent -> 0 .. 2]
          /\ todo' \in [Uent -> SUBSET PortNum] /\ stack' \in Seq(Uent)
      BY <1>16, <2>1, <2>3, <3>1, ShowOneUentTyped DEF ShowPort
    <3> QED
      BY <1>16, <2>1, <3>2 DEF ShowPort
  <2> QED
    BY <2>2, <2>3
<1>17. CASE ShowReturn
  BY <1>17 DEF ShowReturn
<1>18. CASE ShowDone
  BY <1>18 DEF ShowDone
<1>19. CASE Cleanup
  BY <1>19 DEF Cleanup
<1>20. CASE UNCHANGED vars
  BY <1>20
<1> QED
  BY <1>1, <1>2, <1>3, <1>4, <1>5, <1>6, <1>7, <1>8, <1>9, <1>10, <1>11, <1>12,
     <1>13, <1>14, <1>15, <1>16, <1>17, <1>18, <1>19, <1>20
     DEF Next, Tool, Kernel, Exited

----------------------------------------------------------------------------
(* Pointers.  An entity's file is read once, before which it has no port.   *)
Reading ==
  /\ phase = "scan" => /\ chain = {} /\ devs \cap rest = {}
                       /\ \A u \in Uent : ports[u] = {}
                       /\ \A x \in Port : link[x] = NoPort
  /\ phase = "link" => rest \subseteq devs /\ \A u \in rest : ports[u] = {}

LEMMA InitPointers == Init => PointersValid /\ Reading
  BY DEF Init, PointersValid, Reading

LEMMA AllocPortsValid ==
  ASSUME Typed, PointersValid, NEW u \in devs, ports[u] = {},
         NEW S \in SUBSET PortNum, AllocPorts(u, S), UNCHANGED devs
  PROVE  /\ \A x \in Port : link'[x] # NoPort => Allocated(x)' /\ Allocated(link[x])'
         /\ \A v \in Uent : ports'[v] # {} => v \in devs'
         /\ \A v \in Uent \ {u} : ports'[v] = ports[v]
<1>1. /\ u \in Uent /\ ports' \in [Uent -> SUBSET PortNum] /\ ports'[u] = S
      /\ \A v \in Uent \ {u} : ports'[v] = ports[v]
  BY DEF Typed, AllocPorts
<1>2. \A x : Allocated(x) => Allocated(x)'
  BY <1>1 DEF Allocated, Typed
<1>3. ASSUME NEW x \in Port, link'[x] # NoPort
      PROVE  Allocated(x)' /\ Allocated(link[x])'
  <2>1. CASE x[1] = u /\ x[2] \in S
    <3>1. Allocated(cable[x]) /\ link'[x] = cable[x]
      BY <1>3, <2>1 DEF AllocPorts
    <3> QED
      BY <1>1, <1>2, <2>1, <3>1 DEF Allocated
  <2>2. CASE x[1] # u /\ Allocated(x) /\ cable[x][1] = u /\ cable[x][2] \in S
    <3>1. link'[x] = cable[x]
      BY <2>2 DEF AllocPorts
    <3> QED
      BY <1>1, <1>2, <2>2, <3>1 DEF Allocated
  <2>3. CASE /\ ~ (x[1] = u /\ x[2] \in S)
             /\ ~ (x[1] # u /\ Allocated(x) /\ cable[x][1] = u /\ cable[x][2] \in S)
    <3>1. link'[x] = link[x]
      BY <2>3 DEF AllocPorts
    <3> QED
      BY <1>2, <1>3, <3>1 DEF PointersValid
  <2> QED
    BY <2>1, <2>2, <2>3
<1> QED
  BY <1>1, <1>3 DEF PointersValid

LEMMA StepPointers ==
  Typed /\ PointersValid /\ Reading /\ [Next]_vars => PointersValid' /\ Reading'
<1> SUFFICES ASSUME Typed, PointersValid, Reading, [Next]_vars
             PROVE  PointersValid' /\ Reading'
  OBVIOUS
<1> USE DEF vars, fabric, scan, topo, output
<1>1. CASE UNCHANGED <<scan, chain, ports, link, phase, rest>>
  BY <1>1 DEF PointersValid, Reading, Allocated
<1>2. ASSUME NEW u \in Uent, ScanUent(u) \/ ScanVanishing(u)
      PROVE  PointersValid' /\ Reading'
  <2>1. /\ phase = "scan" /\ phase' = "scan" /\ u \in rest /\ rest' = rest \ {u}
        /\ devs' \in {devs, devs \cup {u}}
        /\ UNCHANGED <<chain, ports, link>>
    BY <1>2 DEF ScanUent, ScanVanishing, IsNext
  <2> QED
    BY <2>1 DEF PointersValid, Reading, Typed
<1>3. CASE ScanFails \/ ScanDone
  BY <1>3 DEF ScanFails, ScanDone, PointersValid, Reading, Typed, Allocated
<1>4. ASSUME NEW u \in Uent, LinkUent(u)
      PROVE  PointersValid' /\ Reading'
  <2>1. /\ phase = "link" /\ phase' = "link" /\ u \in devs /\ ports[u] = {}
        /\ rest' = rest \ {u} /\ AppendUbc(u) /\ AllocPorts(u, DirectLink(u))
        /\ UNCHANGED scan
    BY <1>4 DEF LinkUent, IsNext, Reading
  <2>2. DirectLink(u) \in SUBSET PortNum
    BY DEF DirectLink
  <2>3. /\ \A x \in Port : link'[x] # NoPort => Allocated(x)' /\ Allocated(link[x])'
        /\ \A v \in Uent : ports'[v] # {} => v \in devs'
        /\ \A v \in Uent \ {u} : ports'[v] = ports[v]
    BY <2>1, <2>2, AllocPortsValid
  <2>4. chain' \subseteq devs' \cap ctrl'
    BY <2>1 DEF AppendUbc, PointersValid
  <2> QED
    BY <2>1, <2>3, <2>4 DEF PointersValid, Reading, Typed
<1>5. ASSUME NEW u \in Uent, UbcAllocFails(u)
      PROVE  PointersValid' /\ Reading'
  BY <1>5 DEF UbcAllocFails, PointersValid, Reading, Allocated
<1>6. ASSUME NEW u \in Uent, LinkFails(u)
      PROVE  PointersValid' /\ Reading'
  <2>1. /\ phase' = "failed" /\ u \in devs /\ ports[u] = {} /\ AppendUbc(u)
        /\ UNCHANGED scan
    BY <1>6 DEF LinkFails, IsNext, Reading
  <2>2. chain' \subseteq devs' \cap ctrl'
    BY <2>1 DEF AppendUbc, PointersValid
  <2>3. CASE UNCHANGED <<ports, link>>
    BY <2>1, <2>2, <2>3 DEF PointersValid, Reading, Allocated
  <2>4. ASSUME NEW S \in SUBSET DirectLink(u), AllocPorts(u, S)
        PROVE  PointersValid' /\ Reading'
    <3>1. S \in SUBSET PortNum
      BY DEF DirectLink
    <3>2. /\ \A x \in Port : link'[x] # NoPort => Allocated(x)' /\ Allocated(link[x])'
          /\ \A v \in Uent : ports'[v] # {} => v \in devs'
      BY <2>1, <2>4, <3>1, AllocPortsValid
    <3> QED
      BY <2>1, <2>2, <3>2 DEF PointersValid, Reading
  <2> QED
    BY <1>6, <2>3, <2>4 DEF LinkFails
<1>7. CASE LinkDone \/ PresetPassDone \/ ShowDone
  BY <1>7 DEF LinkDone, PresetPassDone, ShowDone, PointersValid, Reading, Allocated
<1>8. ASSUME NEW u \in Uent, PresetUent(u) \/ ShowUbc(u)
      PROVE  PointersValid' /\ Reading'
  <2>1. phase' \in {"preset", "show"} /\ UNCHANGED <<scan, chain, ports, link>>
    BY <1>8 DEF PresetUent, ShowUbc
  <2> QED
    BY <2>1 DEF PointersValid, Reading, Allocated
<1>9. ASSUME NEW p \in PortNum, ShowPort(p)
      PROVE  PointersValid' /\ Reading'
  BY <1>1, <1>9 DEF ShowPort
<1>10. CASE ShowReturn
  BY <1>1, <1>10 DEF ShowReturn
<1>11. CASE Cleanup
  BY <1>11 DEF Cleanup, PointersValid, Reading, Allocated
<1>12. CASE Kernel
  BY <1>1, <1>12 DEF Kernel, Churn, Unplug, Plug, Disconnect, Connect
<1>13. CASE Exited \/ UNCHANGED vars
  BY <1>1, <1>13 DEF Exited
<1> QED
  BY <1>2, <1>3, <1>4, <1>5, <1>6, <1>7, <1>8, <1>9, <1>10, <1>11, <1>12, <1>13
     DEF Next, Tool

(* Every variable of a run has its type and every pointer leads to a listed *)
(* entity or an allocated port.                                             *)
THEOREM TypeCorrect == Spec => []TypeOK
<1>1. Init => Typed /\ PointersValid /\ Reading
  BY InitTyped, InitPointers
<1>2. Typed /\ PointersValid /\ Reading /\ [Next]_vars
        => (Typed /\ PointersValid /\ Reading)'
  BY StepTyped, StepPointers
<1>3. Typed /\ PointersValid => TypeOK
  BY DEF TypeOK
<1> QED
  BY <1>1, <1>2, <1>3, PTL DEF Spec
----------------------------------------------------------------------------
(* The marking.  In words: the controllers of the chain are the entities    *)
(* whose parent is the host; a parent has had its ports traversed and       *)
(* leads to its child over a link inside its domain; everything that a      *)
(* traversed entity leads to inside its domain has a parent; a parent is    *)
(* set before the passes only for controllers; and a pass that has changed  *)
(* nothing so far has left no entity with a parent behind untraversed.      *)
Marking ==
  /\ phase # "exit" => \A u \in Uent : u \in chain <=> par[u] = UB_HOST_DEV_PARENT
  /\ Parented \subseteq devs
  /\ \A u, v \in Uent : par[u] = v => v \in scaned /\ Linked(v, u) /\ ubc[u] = ubc[v]
  /\ scaned \subseteq Parented
  /\ \A v \in scaned, e \in Uent : Linked(v, e) /\ ubc[e] = ubc[v] => e \in Parented
  /\ phase \in {"scan", "link", "failed"} => scaned = {}
  /\ phase = "preset" /\ ~keep => Parented \ rest \subseteq scaned
  /\ phase \in {"show", "done"} => Parented \subseteq scaned

LEMMA ParentConstants ==
  /\ UB_HOST_DEV_PARENT \notin Uent /\ UB_INIT_PARENT \notin Uent
  /\ UB_HOST_DEV_PARENT # UB_INIT_PARENT
  BY DEF UB_HOST_DEV_PARENT, UB_INIT_PARENT, Uent

LEMMA InitMarking == Init => Marking /\ Forest
<1> SUFFICES ASSUME Init PROVE Marking /\ Forest
  OBVIOUS
<1>1. Parented = {}
  BY DEF Init, Parented
<1>2. \A u \in Uent : par[u] = UB_INIT_PARENT
  BY DEF Init
<1> QED
  BY <1>1, <1>2, ParentConstants DEF Init, Marking, Forest

(* A step that leaves the marking and the links alone.                      *)
LEMMA MarkingFrame ==
  ASSUME Marking, Forest, UNCHANGED <<devs, chain, ports, link, par, scaned, ubc>>,
         phase \in {"scan", "link", "failed"} => phase' \in {"scan", "link", "failed"},
         phase' = "preset" => phase = "preset" /\ UNCHANGED <<keep, rest>>,
         phase' \in {"show", "done"} => phase \in {"show", "done"},
         phase' \in {"scan", "link", "failed"} => scaned = {},
         phase = "exit" => phase' = "exit"
  PROVE  Marking' /\ Forest'
<1>1. Parented' = Parented
  BY DEF Parented
<1>2. \A u, e : Linked(u, e)' = Linked(u, e)
  BY DEF Linked
<1>3. Forest'
  BY <1>1 DEF Forest
<1>4. /\ phase' \in {"show", "done"} => Parented' \subseteq scaned'
      /\ phase' = "preset" /\ ~keep' => Parented' \ rest' \subseteq scaned'
  BY <1>1 DEF Marking
<1> QED
  BY <1>1, <1>2, <1>3, <1>4 DEF Marking

(* Before the passes, a parent is the host.                                 *)
LEMMA NoParentBeforePasses ==
  ASSUME Typed, Marking, phase \in {"scan", "link"}
  PROVE  \A u \in Uent : par[u] \in {UB_HOST_DEV_PARENT, UB_INIT_PARENT}
  BY DEF Marking, Typed

(* A step of the scan or of the link loop, which may mark u as a controller.*)
LEMMA MarkingBeforePasses ==
  ASSUME Typed, Marking, phase \in {"scan", "link"}, phase' \in {"scan", "link", "failed"},
         NEW u \in devs', devs \subseteq devs', AppendUbc(u) \/ UNCHANGED <<chain, par>>,
         UNCHANGED scaned, Typed'
  PROVE  Marking' /\ Forest'
<1>1. scaned = {} /\ \A v \in Uent : v \in chain <=> par[v] = UB_HOST_DEV_PARENT
  BY DEF Marking
<1>2. u \in Uent
  BY DEF Typed
<1>3. \A v \in Uent : v \in chain' <=> par'[v] = UB_HOST_DEV_PARENT
  BY <1>1, <1>2, ParentConstants DEF AppendUbc, Typed
<1>4. \A v \in Uent : par'[v] \in {UB_HOST_DEV_PARENT, UB_INIT_PARENT}
  BY <1>2, NoParentBeforePasses DEF AppendUbc, Typed
<1>5. Parented' \subseteq Parented \cup {u}
  BY <1>2 DEF AppendUbc, Typed, Parented
<1>6. Forest'
  BY <1>4, ParentConstants DEF Forest, Parented
<1> QED
  BY <1>1, <1>3, <1>4, <1>5, <1>6, ParentConstants DEF Marking

LEMMA PresetMarking ==
  ASSUME Typed, PointersValid, Marking, Forest, NEW u \in Uent, PresetUent(u)
  PROVE  Marking' /\ Forest'
<1> USE DEF fabric, scan, topo, output
<1>1. /\ phase = "preset" /\ phase' = "preset" /\ u \in rest /\ rest' = rest \ {u}
      /\ UNCHANGED <<scan, chain, tail, ports, link>>
  BY DEF PresetUent, IsNext
<1>2. CASE par[u] = UB_INIT_PARENT \/ u \in scaned
  <2>1. UNCHANGED <<par, scaned, keep>>
    BY <1>2 DEF PresetUent
  <2>2. u \notin Parented \/ u \in scaned
    BY <1>2 DEF Parented
  <2>3. \A v, e : Linked(v, e)' = Linked(v, e)
    BY <1>1 DEF Linked
  <2> QED
    BY <1>1, <2>1, <2>2, <2>3 DEF Marking, Forest, Parented
<1>3. CASE par[u] # UB_INIT_PARENT /\ u \notin scaned
  <2> DEFINE E == Adopted(u)
  <2>1. /\ par' = [e \in Uent |-> IF e \in E THEN u ELSE par[e]]
        /\ keep' = (keep \/ E # {})
        /\ scaned' = scaned \cup {u}
    BY <1>3 DEF PresetUent
  <2>2. /\ E \subseteq Uent /\ E \cap Parented = {} /\ u \in Parented
        /\ \A e \in E : Linked(u, e) /\ ubc[e] = ubc[u]
    BY <1>3 DEF Adopted, Parented
  <2>3. \A v, e : Linked(v, e)' = Linked(v, e)
    BY <1>1 DEF Linked
  <2>4. /\ \A e \in Uent : e \in E => par'[e] = u
        /\ \A e \in Uent : e \notin E => par'[e] = par[e]
    BY <2>1
  <2>5. Parented' = Parented \cup E
    BY <2>2, <2>4, ParentConstants DEF Parented
  <2>6. E \subseteq devs
    <3>1. ASSUME NEW e \in E PROVE e \in devs
      <4>1. PICK p \in ports[u] : link[<<u, p>>] # NoPort /\ link[<<u, p>>][1] = e
        BY <2>2 DEF Linked
      <4>2. <<u, p>> \in Port
        BY DEF Port, Typed
      <4> QED
        BY <4>1, <4>2 DEF PointersValid, Allocated
    <3> QED
      BY <3>1
  <2> HIDE DEF E
  <2>7. \A v \in Uent : v \in chain' <=> par'[v] = UB_HOST_DEV_PARENT
    <3>1. \A v \in E : par[v] = UB_INIT_PARENT
      BY <2>2 DEF Parented
    <3> QED
      BY <1>1, <2>4, <3>1, ParentConstants DEF Marking
  <2>8. \A w, v \in Uent : par'[w] = v => v \in scaned' /\ Linked(v, w)' /\ (ubc[w] = ubc[v])'
    BY <1>1, <2>1, <2>2, <2>3, <2>4 DEF Marking
  <2>9. ASSUME NEW v \in scaned', NEW e \in Uent, Linked(v, e)', (ubc[e] = ubc[v])'
        PROVE  e \in Parented'
    <3>1. CASE v \in scaned
      BY <1>1, <2>3, <2>5, <2>9, <3>1 DEF Marking
    <3>2. CASE v = u
      BY <1>1, <2>3, <2>5, <2>9, <3>2 DEF Adopted, Parented, E
    <3> QED
      BY <2>1, <3>1, <3>2
  <2>10. ~keep' => Parented' \ rest' \subseteq scaned'
    BY <1>1, <2>1, <2>5 DEF Marking
  <2>11. Forest'
    <3> SUFFICES ASSUME NEW S \in SUBSET Parented', S # {}
                 PROVE  \E w \in S : par'[w] \notin S
      BY DEF Forest
    <3>1. CASE S \cap Parented = {}
      BY <2>2, <2>4, <2>5, <3>1
    <3>2. CASE S \cap Parented # {}
      <4>1. PICK w \in S \cap Parented : par[w] \notin S \cap Parented
        BY <3>2 DEF Forest
      <4>2. w \in Uent /\ par'[w] = par[w]
        BY <2>2, <2>4, <4>1 DEF Parented
      <4>3. par[w] \in Uent => par[w] \in Parented
        BY <4>2 DEF Marking
      <4>4. par[w] \in Uent \/ par[w] \notin S
        BY <2>2, <2>5 DEF Parented
      <4> QED
        BY <4>1, <4>2, <4>3, <4>4
    <3> QED
      BY <3>1, <3>2
  <2> QED
    BY <1>1, <2>1, <2>2, <2>5, <2>6, <2>7, <2>8, <2>9, <2>10, <2>11 DEF Marking
<1> QED
  BY <1>2, <1>3
LEMMA StepMarking ==
  Typed /\ Typed' /\ PointersValid /\ Reading /\ Marking /\ Forest /\ [Next]_vars
    => Marking' /\ Forest'
<1> SUFFICES ASSUME Typed, Typed', PointersValid, Reading, Marking, Forest, [Next]_vars
             PROVE  Marking' /\ Forest'
  OBVIOUS
<1> USE DEF vars, fabric, scan, topo, output
<1>1. ASSUME NEW u \in Uent, ScanUent(u) \/ ScanVanishing(u)
      PROVE  Marking' /\ Forest'
  <2>1. /\ phase = "scan" /\ phase' = "scan" /\ UNCHANGED <<chain, par, scaned>>
        /\ devs \subseteq devs'
    BY <1>1 DEF ScanUent, ScanVanishing
  <2>2. CASE devs' = {}
    <3>1. Parented = {} /\ Parented' = {}
      BY <2>1, <2>2 DEF Marking, Parented
    <3>2. scaned = {} /\ \A v \in Uent : par[v] = UB_INIT_PARENT
      BY <3>1 DEF Marking, Parented
    <3> QED
      BY <2>1, <3>1, <3>2, ParentConstants DEF Marking, Forest
  <2>3. CASE devs' # {}
    BY <2>1, <2>3, MarkingBeforePasses
  <2> QED
    BY <2>2, <2>3
<1>2. CASE ScanFails \/ ScanDone
  <2>1. /\ phase' \in {"link", "failed"} /\ phase = "scan"
        /\ UNCHANGED <<devs, chain, ports, link, par, scaned, ubc>>
    BY <1>2 DEF ScanFails, ScanDone
  <2> QED
    BY <2>1, MarkingFrame DEF Marking
<1>3. ASSUME NEW u \in Uent, LinkUent(u) \/ LinkFails(u)
      PROVE  Marking' /\ Forest'
  <2>1. /\ phase = "link" /\ phase' \in {"link", "failed"} /\ u \in devs /\ devs' = devs
        /\ AppendUbc(u) /\ UNCHANGED scaned
    BY <1>3 DEF LinkUent, LinkFails, IsNext, Reading
  <2> QED
    BY <2>1, MarkingBeforePasses
<1>4. ASSUME NEW u \in Uent, UbcAllocFails(u)
      PROVE  Marking' /\ Forest'
  BY <1>4, MarkingFrame DEF UbcAllocFails, Marking
<1>5. CASE LinkDone
  <2>1. /\ phase = "link" /\ phase' = "preset" /\ rest' = devs /\ keep' = FALSE
        /\ UNCHANGED <<devs, chain, ports, link, par, scaned, ubc>>
    BY <1>5 DEF LinkDone
  <2> QED
    BY <2>1 DEF Marking, Forest, Parented, Linked
<1>6. ASSUME NEW u \in Uent, PresetUent(u)
      PROVE  Marking' /\ Forest'
  BY <1>6, PresetMarking
<1>7. CASE PresetPassDone
  <2>1. /\ phase = "preset" /\ rest = {}
        /\ UNCHANGED <<devs, chain, ports, link, par, scaned, ubc>>
    BY <1>7 DEF PresetPassDone
  <2>2. CASE keep
    <3>1. rest' = devs /\ phase' = "preset"
      BY <1>7, <2>1, <2>2 DEF PresetPassDone
    <3> QED
      BY <2>1, <3>1 DEF Marking, Forest, Parented, Linked
  <2>3. CASE ~keep
    <3>1. phase' = "show"
      BY <1>7, <2>3 DEF PresetPassDone
    <3>2. Parented \ rest \subseteq scaned
      BY <2>1, <2>3 DEF Marking
    <3>3. Parented \subseteq scaned
      BY <2>1, <3>2
    <3> QED
      BY <2>1, <3>1, <3>3 DEF Marking, Forest, Parented, Linked
  <2> QED
    BY <2>2, <2>3
<1>8. CASE \/ \E c \in Uent : ShowUbc(c)
           \/ \E p \in PortNum : ShowPort(p)
           \/ ShowReturn \/ ShowDone
  <2>1. /\ phase = "show" /\ phase' \in {"show", "done"}
        /\ UNCHANGED <<devs, chain, ports, link, par, scaned, ubc>>
    BY <1>8 DEF ShowUbc, ShowPort, ShowReturn, ShowDone
  <2> QED
    BY <2>1, MarkingFrame
<1>9. CASE Cleanup
  BY <1>9 DEF Cleanup, Marking, Forest, Parented, Linked
<1>10. CASE Kernel \/ Exited \/ UNCHANGED vars
  <2>1. UNCHANGED <<devs, chain, ports, link, par, scaned, ubc, keep, phase, rest>>
    BY <1>10 DEF Kernel, Churn, Unplug, Plug, Disconnect, Connect, Exited
  <2> QED
    BY <2>1, MarkingFrame DEF Marking
<1> QED
  BY <1>1, <1>2, <1>3, <1>4, <1>5, <1>6, <1>7, <1>8, <1>9, <1>10 DEF Next, Tool

(* The inductive invariant of the marking.                                  *)
MarkingInv == Typed /\ PointersValid /\ Reading /\ Marking /\ Forest

LEMMA MarkingInvariant == Spec => []MarkingInv
<1>1. Init => MarkingInv
  BY InitTyped, InitPointers, InitMarking DEF MarkingInv
<1>2. MarkingInv /\ [Next]_vars => MarkingInv'
  BY StepTyped, StepPointers, StepMarking DEF MarkingInv
<1> QED
  BY <1>1, <1>2, PTL DEF Spec

(* The parent numbers form a forest, whatever the fabric did while it was   *)
(* read: the recursive printing of the tree cannot run in a circle.         *)
THEOREM ParentsFormForest == Spec => []Forest
<1>1. MarkingInv => Forest
  BY DEF MarkingInv
<1> QED
  BY <1>1, MarkingInvariant, PTL

LEMMA MarkingReaches == MarkingInv => MarkedIsReachable
<1> SUFFICES ASSUME MarkingInv, phase \in {"show", "done"} PROVE Parented = Reachable
  BY DEF MarkedIsReachable
<1> USE DEF MarkingInv
<1>1. ASSUME NEW u \in Parented, NEW S \in SUBSET Uent,
             chain \subseteq S, ClosedUnderLinks(S)
      PROVE  u \in S
  <2> SUFFICES ASSUME u \notin S PROVE FALSE
    OBVIOUS
  <2>1. PICK x \in Parented \ S : par[x] \notin Parented \ S
    BY DEF Forest
  <2>2. x \in Uent /\ par[x] \in Uent \cup {UB_HOST_DEV_PARENT}
    BY <2>1 DEF Parented, Typed
  <2>3. CASE par[x] = UB_HOST_DEV_PARENT
    BY <1>1, <2>1, <2>2, <2>3 DEF Marking
  <2>4. CASE par[x] \in Uent
    <3>1. par[x] \in Parented /\ Linked(par[x], x) /\ ubc[x] = ubc[par[x]]
      BY <2>2, <2>4 DEF Marking
    <3> QED
      BY <1>1, <2>1, <2>2, <3>1 DEF ClosedUnderLinks
  <2> QED
    BY <2>2, <2>3, <2>4
<1>2. chain \subseteq Parented /\ ClosedUnderLinks(Parented)
  BY ParentConstants DEF Marking, Parented, ClosedUnderLinks, Typed
<1> QED
  BY <1>1, <1>2 DEF Reachable, Parented

(* The passes over the device list stop with exactly the entities that a    *)
(* walk over the links reaches from a controller inside its domain.         *)
THEOREM PassesMarkReachable == Spec => []MarkedIsReachable
  BY MarkingInvariant, MarkingReaches, PTL

(* A parent, once set, is never replaced.                                   *)
THEOREM ParentsAreStable == Spec => ParentDecidedOnce
<1>1. MarkingInv /\ [Next]_vars => [\A u \in Parented : par'[u] = par[u]]_vars
  <2> SUFFICES ASSUME MarkingInv, [Next]_vars, NEW u \in Parented PROVE par'[u] = par[u]
    OBVIOUS
  <2> USE DEF MarkingInv, vars, topo
  <2>1. ASSUME NEW v \in Uent, LinkUent(v) \/ LinkFails(v) PROVE par'[u] = par[u]
    <3>1. par[u] = UB_HOST_DEV_PARENT
      BY <2>1, NoParentBeforePasses DEF LinkUent, LinkFails, Parented
    <3> QED
      BY <2>1, <3>1 DEF LinkUent, LinkFails, AppendUbc, Parented, Typed
  <2>2. ASSUME NEW v \in Uent, PresetUent(v) PROVE par'[u] = par[u]
    BY <2>2 DEF PresetUent, Adopted, Parented
  <2>3. CASE UNCHANGED par
    BY <2>3
  <2>4. CASE ~ \E v \in Uent : LinkUent(v) \/ LinkFails(v) \/ PresetUent(v)
    <3>1. UNCHANGED par
      BY <2>4 DEF Next, Tool, Kernel, Churn, Unplug, Plug, Disconnect, Connect, ScanUent,
                  ScanVanishing, ScanFails, ScanDone, UbcAllocFails, LinkDone, PresetPassDone,
                  ShowUbc, ShowPort, ShowReturn, ShowDone, Cleanup, Exited
    <3> QED
      BY <3>1
  <2> QED
    BY <2>1, <2>2, <2>4
<1> QED
  BY <1>1, MarkingInvariant, PTL DEF Spec, ParentDecidedOnce

(* On every path, cleanup finds the chain of controllers terminated.        *)
THEOREM CleanupIsSafe == Spec => []ChainTerminated
<1> DEFINE Inv == /\ phase = "scan" => tail = "null"
                  /\ ChainTerminated
<1> USE DEF ChainTerminated
<1>1. Init => Inv
  BY DEF Init
<1>2. Inv /\ [Next]_vars => Inv'
  BY DEF vars, topo, Next, Tool, Kernel, Churn, Unplug, Plug, Disconnect, Connect, ScanUent,
         ScanVanishing, ScanFails, ScanDone, LinkUent, LinkFails, UbcAllocFails, LinkDone,
         PresetUent, PresetPassDone, ShowUbc, ShowPort, ShowReturn, ShowDone, Cleanup, Exited
<1>3. Inv => ChainTerminated
  OBVIOUS
<1> QED
  BY <1>1, <1>2, <1>3, PTL DEF Spec
----------------------------------------------------------------------------
(* The drawing.  Nothing is printed before the passes end.  Afterwards an   *)
(* entity has its brackets once it is printed, the branches drawn are those *)
(* of the printed entities that no active call still has to draw, a drawn   *)
(* branch to a child has printed the child, and so has every controller of  *)
(* the chain that was passed.                                               *)
Frames(td) ==
  /\ \A i \in 1 .. Len(stack) : stack[i] \in printed
  /\ \A u \in Uent : td[u] \subseteq ports[u]
  /\ \A u \in Uent : td[u] # {} => \E i \in 1 .. Len(stack) : stack[i] = u

Branches(td, pr) ==
  {x \in Port : x[1] \in pr /\ x[2] \in ports[x[1]] /\ x[2] \notin td[x[1]]}

ChildrenPrinted(td, pr) ==
  \A u \in printed : \A p \in ports[u] \ td[u] :
    link[<<u, p>>] # NoPort /\ par[link[<<u, p>>][1]] = u => link[<<u, p>>][1] \in pr

Drawing ==
  /\ phase \in {"scan", "link", "preset", "failed"} => printed = {} /\ stack = <<>>
  /\ printed \subseteq Parented
  /\ \A u \in Uent : bracket[u] = IF u \in printed THEN 1 ELSE 0
  /\ Frames(todo)
  /\ drawn = Branches(todo, printed)
  /\ ChildrenPrinted(todo, printed)
  /\ phase = "show" => rest \subseteq chain /\ chain \ rest \subseteq printed
  /\ phase = "done" => stack = <<>> /\ chain \subseteq printed

LEMMA InitDrawing == Init => Drawing
<1> SUFFICES ASSUME Init PROVE Drawing
  OBVIOUS
<1>1. /\ printed = {} /\ drawn = {} /\ stack = <<>> /\ phase = "scan"
      /\ \A u \in Uent : bracket[u] = 0 /\ todo[u] = {} /\ ports[u] = {}
  BY DEF Init
<1>2. Frames(todo)
  BY <1>1 DEF Frames
<1>3. drawn = Branches(todo, printed)
  BY <1>1 DEF Branches
<1> QED
  BY <1>1, <1>2, <1>3 DEF Drawing, ChildrenPrinted

(* Before the passes end nothing is printed, so the lists may still change. *)
LEMMA DrawingBefore ==
  ASSUME Typed, Typed', Drawing, printed = {}, stack = <<>>, UNCHANGED output,
         phase' \notin {"show", "done"}
  PROVE  Drawing'
<1> USE DEF output
<1>1. \A u \in Uent : todo[u] = {} /\ bracket[u] = 0
  BY DEF Drawing, Frames
<1>2. drawn = {}
  BY DEF Drawing, Branches
<1>3. Frames(todo)'
  BY <1>1 DEF Frames
<1>4. (drawn = Branches(todo, printed))'
  BY <1>2 DEF Branches
<1> QED
  BY <1>1, <1>3, <1>4 DEF Drawing, ChildrenPrinted

LEMMA DrawingFrame ==
  ASSUME Drawing, UNCHANGED <<ports, link, par, output>>
  PROVE  /\ (printed \subseteq Parented)'
         /\ (\A u \in Uent : bracket[u] = IF u \in printed THEN 1 ELSE 0)'
         /\ Frames(todo)'
         /\ (drawn = Branches(todo, printed))'
         /\ ChildrenPrinted(todo, printed)'
  BY DEF Drawing, Frames, Branches, ChildrenPrinted, output, Parented

(* A branch that shows an entity not yet printed.                           *)
LEMMA ExpandDraws ==
  ASSUME Typed, Marking, Drawing, UNCHANGED <<ports, link, par>>,
         NEW e \in Uent, e \notin printed, e \in Parented,
         NEW left \in [Uent -> SUBSET PortNum], Expand(e, left),
         Frames(left), drawn' = Branches(left, printed), ChildrenPrinted(left, printed \cup {e})
  PROVE  /\ (printed \subseteq Parented)'
         /\ (\A u \in Uent : bracket[u] = IF u \in printed THEN 1 ELSE 0)'
         /\ Frames(todo)'
         /\ (drawn = Branches(todo, printed))'
         /\ ChildrenPrinted(todo, printed)'
<1>1. /\ printed' = printed \cup {e}
      /\ todo' \in [Uent -> SUBSET PortNum] /\ todo'[e] = ports[e]
      /\ \A u \in Uent \ {e} : todo'[u] = left[u]
  BY DEF Expand, Typed
<1>2. /\ stack \in Seq(Uent) /\ stack' = Append(stack, e)
      /\ Len(stack') = Len(stack) + 1 /\ stack'[Len(stack) + 1] = e
      /\ \A i \in 1 .. Len(stack) : stack'[i] = stack[i]
      /\ Len(stack) \in Nat
  BY DEF Expand, Typed
<1>3. (\A u \in Uent : bracket[u] = IF u \in printed THEN 1 ELSE 0)'
  BY <1>1 DEF Expand, Drawing, Typed
<1>4. Frames(todo)'
  <2>1. \A i \in 1 .. Len(stack') : stack'[i] \in printed'
    BY <1>1, <1>2 DEF Frames
  <2>2. \A u \in Uent : todo'[u] \subseteq ports'[u]
    BY <1>1 DEF Frames
  <2>3. ASSUME NEW u \in Uent, todo'[u] # {}
        PROVE  \E i \in 1 .. Len(stack') : stack'[i] = u
    <3>1. CASE u = e
      BY <1>2, <3>1
    <3>2. CASE u # e
      <4>1. PICK i \in 1 .. Len(stack) : stack[i] = u
        BY <1>1, <2>3, <3>2 DEF Frames
      <4> QED
        BY <1>2, <4>1
    <3> QED
      BY <3>1, <3>2
  <2> QED
    BY <2>1, <2>2, <2>3 DEF Frames
<1>5. (drawn = Branches(todo, printed))'
  <2>1. \A x \in Port : x[1] \in Uent
    BY DEF Port
  <2> QED
    BY <1>1, <2>1 DEF Branches
<1>6. ChildrenPrinted(todo, printed)'
  BY <1>1 DEF ChildrenPrinted, Typed
<1> QED
  BY <1>1, <1>3, <1>4, <1>5, <1>6 DEF Drawing, Parented

(* A branch that only quotes an entity, or shows none.                      *)
LEMMA QuoteDraws ==
  ASSUME Typed, Drawing, UNCHANGED <<ports, link, par>>, NEW left, Quote(left),
         Frames(left), drawn' = Branches(left, printed), ChildrenPrinted(left, printed)
  PROVE  /\ (printed \subseteq Parented)'
         /\ (\A u \in Uent : bracket[u] = IF u \in printed THEN 1 ELSE 0)'
         /\ Frames(todo)'
         /\ (drawn = Branches(todo, printed))'
         /\ ChildrenPrinted(todo, printed)'
  BY DEF Quote, Drawing, Frames, Branches, ChildrenPrinted, Parented

LEMMA ShowUbcDraws ==
  ASSUME Typed, Marking, Drawing, NEW c \in Uent, ShowUbc(c)
  PROVE  Drawing'
<1> USE DEF scan, topo
<1>1. /\ phase = "show" /\ phase' = "show" /\ c \in rest /\ rest' = rest \ {c}
      /\ UNCHANGED <<ports, link, par, chain, drawn>>
  BY DEF ShowUbc, IsNext
<1>2. c \in chain /\ par[c] = UB_HOST_DEV_PARENT /\ c \in Parented
  BY <1>1, ParentConstants DEF Drawing, Marking, Parented
<1>3. /\ Frames(todo) /\ drawn' = Branches(todo, printed)
      /\ ChildrenPrinted(todo, printed) /\ ChildrenPrinted(todo, printed \cup {c})
      /\ todo \in [Uent -> SUBSET PortNum]
  BY <1>1 DEF Drawing, ChildrenPrinted, Typed
<1>4. CASE c \notin printed
  <2>1. Expand(c, todo)
    BY <1>2, <1>4 DEF ShowUbc, ShowOneUent
  <2>2. c \in printed' /\ printed \subseteq printed'
    BY <2>1 DEF Expand
  <2> QED
    BY <1>1, <1>2, <1>3, <1>4, <2>1, <2>2, ExpandDraws DEF Drawing
<1>5. CASE c \in printed
  <2>1. Quote(todo) /\ printed' = printed
    BY <1>5 DEF ShowUbc, ShowOneUent, Quote
  <2> QED
    BY <1>1, <1>3, <1>5, <2>1, QuoteDraws DEF Drawing
<1> QED
  BY <1>4, <1>5

LEMMA ShowPortDraws ==
  ASSUME Typed, PointersValid, Marking, Drawing, NEW p \in PortNum, ShowPort(p)
  PROVE  Drawing'
<1> USE DEF scan, topo
<1> DEFINE u == Top
           left == [todo EXCEPT ![u] = @ \ {p}]
           peer == link[<<u, p>>]
<1>1. /\ phase = "show" /\ phase' = "show" /\ p \in todo[u] /\ stack # <<>>
      /\ UNCHANGED <<ports, link, par, chain, rest>>
      /\ drawn' = drawn \cup {<<u, p>>}
  BY DEF ShowPort
<1>2. u \in Uent /\ left \in [Uent -> SUBSET PortNum] /\ Len(stack) \in Nat \ {0}
  BY <1>1, TopTyped
<1>3. u \in printed /\ p \in ports[u] /\ <<u, p>> \in Port
  BY <1>1, <1>2 DEF Drawing, Frames, Top, Port
<1>4. /\ left[u] = todo[u] \ {p}
      /\ \A v \in Uent \ {u} : left[v] = todo[v]
  BY <1>2 DEF Typed
<1> HIDE DEF u, left
<1>5. Frames(left)
  BY <1>2, <1>4 DEF Drawing, Frames
<1>6. drawn' = Branches(left, printed)
  <2>1. drawn = Branches(todo, printed)
    BY DEF Drawing
  <2>2. ASSUME NEW x \in Port
        PROVE  x \in Branches(left, printed) <=> x \in Branches(todo, printed) \/ x = <<u, p>>
    <3>1. x[1] \in Uent /\ (x = <<u, p>> <=> x[1] = u /\ x[2] = p)
      BY DEF Port
    <3> QED
      BY <1>1, <1>3, <1>4, <3>1 DEF Branches
  <2>3. Branches(left, printed) \subseteq Port /\ Branches(todo, printed) \subseteq Port
    BY DEF Branches
  <2> QED
    BY <1>1, <1>3, <2>1, <2>2, <2>3
<1>7. ASSUME NEW pr, printed \subseteq pr,
             peer # NoPort /\ par[peer[1]] = u => peer[1] \in pr
      PROVE  ChildrenPrinted(left, pr)
  <2> SUFFICES ASSUME NEW v \in printed, NEW q \in ports[v] \ left[v], link[<<v, q>>] # NoPort,
                      par[link[<<v, q>>][1]] = v
               PROVE  link[<<v, q>>][1] \in pr
    BY DEF ChildrenPrinted
  <2>1. CASE v = u /\ q = p
    BY <1>7, <2>1
  <2>2. CASE ~(v = u /\ q = p)
    <3>1. v \in Uent
      BY DEF Typed
    <3>2. q \in ports[v] \ todo[v]
      BY <1>4, <2>2, <3>1
    <3> QED
      BY <1>7, <3>2 DEF Drawing, ChildrenPrinted
  <2> QED
    BY <2>1, <2>2
<1>8. CASE peer = NoPort
  <2>1. Quote(left)
    BY <1>8 DEF ShowPort, left, u
  <2>2. ChildrenPrinted(left, printed)
    BY <1>7, <1>8
  <2>3. printed' = printed
    BY <2>1 DEF Quote
  <2> QED
    BY <1>1, <1>5, <1>6, <2>1, <2>2, <2>3, QuoteDraws DEF Drawing
<1>9. CASE peer # NoPort
  <2> DEFINE e == peer[1]
  <2>1. e \in Uent
    BY <1>3, <1>9 DEF Typed, Port
  <2>2. ShowOneUent(e, u, ubc[u], left)
    BY <1>9 DEF ShowPort, left, u
  <2>3. par[e] = u => ubc[e] = ubc[u] /\ e \in Parented
    BY <1>2, <2>1, ParentConstants DEF Marking, Parented
  <2>4. CASE par[e] = u /\ e \notin printed
    <3>1. Expand(e, left)
      BY <2>2, <2>3, <2>4 DEF ShowOneUent
    <3>2. ChildrenPrinted(left, printed \cup {e})
      BY <1>7
    <3>3. printed \subseteq printed'
      BY <3>1 DEF Expand
    <3>4. /\ (printed \subseteq Parented)'
          /\ (\A v \in Uent : bracket[v] = IF v \in printed THEN 1 ELSE 0)'
          /\ Frames(todo)'
          /\ (drawn = Branches(todo, printed))'
          /\ ChildrenPrinted(todo, printed)'
      BY <1>1, <1>2, <1>5, <1>6, <2>1, <2>3, <2>4, <3>1, <3>2, ExpandDraws
    <3> QED
      BY <1>1, <3>3, <3>4 DEF Drawing
  <2>5. CASE ~(par[e] = u /\ e \notin printed)
    <3>1. Quote(left)
      BY <2>2, <2>5 DEF ShowOneUent
    <3>2. ChildrenPrinted(left, printed)
      BY <1>7, <2>5
    <3>3. printed' = printed
      BY <3>1 DEF Quote
    <3> QED
      BY <1>1, <1>5, <1>6, <3>1, <3>2, <3>3, QuoteDraws DEF Drawing
  <2> QED
    BY <2>4, <2>5
<1> QED
  BY <1>8, <1>9

(* A stack without its last entity.                                         *)
LEMMA PoppedStack ==
  ASSUME NEW s \in Seq(Uent), Len(s) \in Nat \ {0}
  PROVE  /\ Len(SubSeq(s, 1, Len(s) - 1)) = Len(s) - 1
         /\ \A i \in 1 .. Len(s) - 1 : SubSeq(s, 1, Len(s) - 1)[i] = s[i]
<1> DEFINE n == Len(s) - 1
<1>1. n \in Nat /\ \A i \in 1 .. n : s[i] \in Uent
  OBVIOUS
<1>2. /\ Len(SubSeq(s, 1, n)) = IF 1 <= n THEN n - 1 + 1 ELSE 0
      /\ \A i \in 1 .. n - 1 + 1 : SubSeq(s, 1, n)[i] = s[1 + i - 1]
  BY <1>1, SubSeqProperties
<1> HIDE DEF n
<1>3. Len(SubSeq(s, 1, n)) = n /\ \A i \in 1 .. n : SubSeq(s, 1, n)[i] = s[i]
  BY <1>1, <1>2
<1> QED
  BY <1>3 DEF n

LEMMA ShowReturnDraws ==
  ASSUME Typed, Drawing, ShowReturn
  PROVE  Drawing'
<1> USE DEF scan, topo
<1>1. /\ phase = "show" /\ phase' = "show" /\ stack # <<>> /\ todo[Top] = {}
      /\ stack' = SubSeq(stack, 1, Len(stack) - 1)
      /\ UNCHANGED <<ports, link, par, chain, rest, printed, bracket, drawn, todo>>
  BY DEF ShowReturn
<1>2. stack \in Seq(Uent) /\ Len(stack) \in Nat \ {0}
  BY <1>1, TopTyped DEF Typed
<1>3. /\ Len(stack') = Len(stack) - 1
      /\ \A i \in 1 .. Len(stack) - 1 : stack'[i] = stack[i]
  BY <1>1, <1>2, PoppedStack
<1>4. Frames(todo)'
  <2>1. ASSUME NEW u \in Uent, todo[u] # {}
        PROVE  \E i \in 1 .. Len(stack') : stack'[i] = u
    <3>1. PICK i \in 1 .. Len(stack) : stack[i] = u
      BY <2>1 DEF Drawing, Frames
    <3>2. i # Len(stack)
      BY <1>1, <2>1, <3>1 DEF Top
    <3> QED
      BY <1>2, <1>3, <3>1, <3>2
  <2> QED
    BY <1>1, <1>2, <1>3, <2>1 DEF Drawing, Frames
<1> QED
  BY <1>1, <1>4 DEF Drawing, Branches, ChildrenPrinted, Parented

LEMMA StepDrawing ==
  MarkingInv /\ MarkingInv' /\ Drawing /\ [Next]_vars => Drawing'
<1> SUFFICES ASSUME MarkingInv, MarkingInv', Drawing, [Next]_vars PROVE Drawing'
  OBVIOUS
<1> USE DEF MarkingInv, vars, fabric, scan, topo
<1>1. ASSUME phase \in {"scan", "link", "preset"}, phase' \notin {"show", "done"},
             UNCHANGED output
      PROVE  Drawing'
  BY <1>1, DrawingBefore DEF Drawing
<1>2. CASE \/ \E u \in Uent : \/ ScanUent(u) \/ ScanVanishing(u) \/ LinkUent(u)
                              \/ UbcAllocFails(u) \/ LinkFails(u) \/ PresetUent(u)
           \/ ScanFails \/ ScanDone \/ LinkDone
  BY <1>1, <1>2 DEF ScanUent, ScanVanishing, LinkUent, UbcAllocFails, LinkFails, PresetUent,
                    ScanFails, ScanDone, LinkDone
<1>3. CASE PresetPassDone
  <2>1. CASE keep
    BY <1>1, <1>3, <2>1 DEF PresetPassDone
  <2>2. CASE ~keep
    <3>1. /\ phase = "preset" /\ phase' = "show" /\ rest' = chain
          /\ UNCHANGED <<ports, link, par, chain, output>>
      BY <1>3, <2>2 DEF PresetPassDone
    <3> QED
      BY <3>1, DrawingFrame DEF Drawing
  <2> QED
    BY <2>1, <2>2
<1>4. ASSUME NEW c \in Uent, ShowUbc(c) PROVE Drawing'
  BY <1>4, ShowUbcDraws
<1>5. ASSUME NEW p \in PortNum, ShowPort(p) PROVE Drawing'
  BY <1>5, ShowPortDraws
<1>6. CASE ShowReturn
  BY <1>6, ShowReturnDraws
<1>7. CASE ShowDone
  <2>1. /\ phase = "show" /\ phase' = "done" /\ stack = <<>> /\ rest = {}
        /\ UNCHANGED <<ports, link, par, chain, output>>
    BY <1>7 DEF ShowDone
  <2>2. UNCHANGED stack
    BY <2>1 DEF output
  <2>3. chain \subseteq printed /\ printed' = printed
    BY <2>1 DEF Drawing, output
  <2> QED
    BY <2>1, <2>2, <2>3, DrawingFrame DEF Drawing
<1>8. CASE Cleanup
  <2>1. /\ phase' = "exit" /\ UNCHANGED <<ports, link, par, output>>
    BY <1>8 DEF Cleanup
  <2> QED
    BY <2>1, DrawingFrame DEF Drawing
<1>9. CASE Kernel \/ Exited \/ UNCHANGED vars
  <2>1. UNCHANGED <<ports, link, par, chain, output, phase, rest>>
    BY <1>9 DEF Kernel, Churn, Unplug, Plug, Disconnect, Connect, Exited
  <2>2. UNCHANGED <<printed, stack>>
    BY <2>1 DEF output
  <2> QED
    BY <2>1, <2>2, DrawingFrame DEF Drawing
<1> QED
  BY <1>2, <1>3, <1>4, <1>5, <1>6, <1>7, <1>8, <1>9 DEF Next, Tool

LEMMA DrawingCompletes == MarkingInv /\ Drawing => DiagramComplete
<1> SUFFICES ASSUME MarkingInv, Drawing, phase = "done"
             PROVE  /\ \A u \in Uent : bracket[u] = IF u \in Reachable THEN 1 ELSE 0
                    /\ drawn = {x \in Port : x[1] \in Reachable /\ x[2] \in ports[x[1]]}
  BY DEF DiagramComplete
<1>1. Parented = Reachable
  BY MarkingReaches DEF MarkedIsReachable
<1>2. \A u \in Uent : todo[u] = {}
  BY DEF Drawing, Frames
<1>3. Parented \subseteq printed
  <2> SUFFICES ASSUME Parented \ printed # {} PROVE FALSE
    OBVIOUS
  <2>1. PICK x \in Parented \ printed : par[x] \notin Parented \ printed
    BY DEF MarkingInv, Forest
  <2>2. x \in Uent /\ par[x] \in Uent \cup {UB_HOST_DEV_PARENT}
    BY <2>1 DEF MarkingInv, Typed, Parented
  <2>3. CASE par[x] = UB_HOST_DEV_PARENT
    BY <2>1, <2>2, <2>3 DEF MarkingInv, Marking, Drawing
  <2>4. CASE par[x] \in Uent
    <3>1. par[x] \in printed /\ Linked(par[x], x)
      BY <2>1, <2>2, <2>4 DEF MarkingInv, Marking
    <3> QED
      BY <1>2, <2>1, <3>1 DEF Linked, Drawing, ChildrenPrinted, MarkingInv, Typed
  <2> QED
    BY <2>2, <2>3, <2>4
<1>4. printed = Reachable
  BY <1>1, <1>3 DEF Drawing
<1>5. \A x \in Port : x[1] \in Uent
  BY DEF Port
<1>6. drawn = {x \in Port : x[1] \in Reachable /\ x[2] \in ports[x[1]]}
  <2>1. drawn = Branches(todo, printed)
    BY DEF Drawing
  <2> QED
    BY <1>2, <1>4, <1>5, <2>1 DEF Branches
<1>7. \A u \in Uent : bracket[u] = IF u \in Reachable THEN 1 ELSE 0
  BY <1>4 DEF Drawing
<1> QED
  BY <1>6, <1>7

(* When show_topo returns, every entity that a walk over the links reaches  *)
(* from a controller inside its domain was shown in brackets exactly once,  *)
(* no other entity was, and every port of a shown entity has its branch.    *)
THEOREM DiagramIsComplete == Spec => []DiagramComplete
<1>1. Init => Drawing
  BY InitDrawing
<1>2. MarkingInv /\ MarkingInv' /\ Drawing /\ [Next]_vars => Drawing'
  BY StepDrawing
<1> QED
  BY <1>1, <1>2, MarkingInvariant, DrawingCompletes, PTL DEF Spec

----------------------------------------------------------------------------
(* The passes implement ParentMarking, links are symmetric on a fabric at   *)
(* rest, and the recursion of the drawing goes from parents to children.    *)

(* The refinement.                                                          *)

LEMMA InitPasses == Init => Passes!Init
<1> SUFFICES ASSUME Init PROVE Passes!Init
  OBVIOUS
<1>1. /\ phase = "scan" /\ \A u \in Uent : ports[u] = {} /\ par[u] = UB_INIT_PARENT
  BY DEF Init
<1>2. Stage = "build"
  BY <1>1 DEF Stage
<1>3. Domains = {}
  BY <1>1 DEF Domains, Linked
<1>4. Parented = {}
  BY <1>1 DEF Parented
<1> QED
  BY <1>2, <1>3, <1>4 DEF Passes!Init

(* A step before the passes, or after a run that failed or was cleaned up.  *)
LEMMA StepBuilds ==
  ASSUME phase \in {"scan", "link", "failed", "exit"},
         phase' \in {"scan", "link", "failed", "exit", "preset"}
  PROVE  Passes!Next
<1>1. Stage = "build" /\ Stage' \in {"build", "mark"}
  BY DEF Stage
<1>2. Domains' \subseteq Uent \X Uent /\ Parented' \subseteq Uent
  BY DEF Domains, Parented
<1> QED
  BY <1>1, <1>2 DEF Passes!Next, Passes!Build

(* A step that changes nothing of what the passes are about.                *)
LEMMA StepStutters ==
  ASSUME UNCHANGED <<ports, link, par, ubc>>, Stage' = Stage
  PROVE  UNCHANGED Passes!vars
<1>1. Domains' = Domains
  BY DEF Domains, Linked
<1>2. Parented' = Parented
  BY DEF Parented
<1> QED
  BY <1>1, <1>2 DEF Passes!vars

(* A turn of a pass marks what it adopts.                                   *)
LEMMA PresetMarks ==
  ASSUME Typed, NEW u \in Uent, PresetUent(u)
  PROVE  [Passes!Next]_(Passes!vars)
<1> USE DEF scan
<1>1. /\ phase = "preset" /\ phase' = "preset" /\ UNCHANGED <<ports, link, ubc>>
  BY DEF PresetUent
<1>2. Stage = "mark" /\ Stage' = "mark"
  BY <1>1 DEF Stage
<1>3. CASE par[u] = UB_INIT_PARENT \/ u \in scaned
  BY <1>1, <1>2, <1>3, StepStutters DEF PresetUent
<1>4. CASE ~(par[u] = UB_INIT_PARENT \/ u \in scaned)
  <2>1. par' = [e \in Uent |-> IF e \in Adopted(u) THEN u ELSE par[e]]
    BY <1>4 DEF PresetUent
  <2>2. u \in Parented
    BY <1>4 DEF Parented
  <2>3. Parented \subseteq Parented'
    BY <2>1, ParentConstants DEF Parented
  <2>4. \A e \in Parented' \ Parented : e \in Adopted(u)
    BY <2>1 DEF Parented
  <2>5. \A e \in Adopted(u) : <<u, e>> \in Domains
    BY DEF Adopted, Domains
  <2>6. Domains' = Domains
    BY <1>1 DEF Domains, Linked
  <2>7. Passes!Mark(u)
    BY <1>2, <2>2, <2>3, <2>4, <2>5, <2>6 DEF Passes!Mark
  <2> QED
    BY <2>7 DEF Passes!Next
<1> QED
  BY <1>3, <1>4

(* When a pass has changed nothing there is nothing left to be marked.      *)
LEMMA LastPassFixes ==
  ASSUME MarkingInv, PresetPassDone
  PROVE  [Passes!Next]_(Passes!vars)
<1> USE DEF scan, MarkingInv
<1>1. /\ phase = "preset" /\ rest = {} /\ UNCHANGED <<ports, link, par, ubc>>
  BY DEF PresetPassDone
<1>2. CASE keep
  <2>1. phase' = "preset"
    BY <1>1, <1>2 DEF PresetPassDone
  <2> QED
    BY <1>1, <2>1, StepStutters DEF Stage
<1>3. CASE ~keep
  <2>1. Stage = "mark" /\ Stage' = "fixed"
    BY <1>1, <1>3 DEF PresetPassDone, Stage
  <2>2. Parented \subseteq scaned
    BY <1>1, <1>3 DEF Marking
  <2>3. \A x \in Domains : x[1] \in Parented => x[2] \in Parented
    BY <2>2 DEF Marking, Domains
  <2>4. Domains' = Domains /\ Parented' = Parented
    BY <1>1 DEF Domains, Linked, Parented
  <2> QED
    BY <2>1, <2>3, <2>4 DEF Passes!Next, Passes!Fix
<1> QED
  BY <1>2, <1>3

LEMMA StepPasses == MarkingInv /\ [Next]_vars => [Passes!Next]_(Passes!vars)
<1> SUFFICES ASSUME MarkingInv, [Next]_vars PROVE [Passes!Next]_(Passes!vars)
  OBVIOUS
<1> USE DEF vars, fabric, scan, topo, output
<1>1. Typed
  BY DEF MarkingInv
<1>2. CASE \/ \E u \in Uent : \/ ScanUent(u) \/ ScanVanishing(u) \/ LinkUent(u)
                              \/ UbcAllocFails(u) \/ LinkFails(u)
           \/ ScanFails \/ ScanDone \/ LinkDone
  <2>1. phase \in {"scan", "link"} /\ phase' \in {"scan", "link", "failed", "preset"}
    BY <1>2 DEF ScanUent, ScanVanishing, LinkUent, UbcAllocFails, LinkFails,
                ScanFails, ScanDone, LinkDone
  <2> QED
    BY <2>1, StepBuilds
<1>3. ASSUME NEW u \in Uent, PresetUent(u) PROVE [Passes!Next]_(Passes!vars)
  BY <1>1, <1>3, PresetMarks
<1>4. CASE PresetPassDone
  BY <1>4, LastPassFixes
<1>5. CASE \/ \E u \in Uent : ShowUbc(u)
           \/ \E p \in PortNum : ShowPort(p)
           \/ ShowReturn \/ ShowDone
  <2>1. /\ phase = "show" /\ phase' \in {"show", "done"}
        /\ UNCHANGED <<ports, link, par, ubc>>
    BY <1>5 DEF ShowUbc, ShowPort, ShowReturn, ShowDone
  <2> QED
    BY <2>1, StepStutters DEF Stage
<1>6. CASE Cleanup
  <2>1. /\ phase \in {"done", "failed"} /\ phase' = "exit"
        /\ UNCHANGED <<ports, link, par, ubc>>
    BY <1>6 DEF Cleanup
  <2>2. CASE phase = "failed"
    BY <2>1, <2>2, StepBuilds
  <2>3. CASE phase = "done"
    <3>1. Stage = "fixed" /\ Stage' = "build"
      BY <2>1, <2>3 DEF Stage
    <3>2. Domains' = Domains /\ Parented' = Parented
      BY <2>1 DEF Domains, Linked, Parented
    <3> QED
      BY <3>1, <3>2 DEF Passes!Next, Passes!Clear
  <2> QED
    BY <2>1, <2>2, <2>3
<1>7. CASE Kernel \/ Exited \/ UNCHANGED vars
  <2>1. UNCHANGED <<ports, link, par, ubc, phase>>
    BY <1>7 DEF Kernel, Churn, Unplug, Plug, Disconnect, Connect, Exited
  <2> QED
    BY <2>1, StepStutters DEF Stage
<1> QED
  BY <1>2, <1>3, <1>4, <1>5, <1>6, <1>7 DEF Next, Tool

(* preset_all_uent_par implements ParentMarking: whatever the order of the  *)
(* device list, a parent is given along a link inside a domain to an entity *)
(* that has none, and the passes stop when there is no such entity left.    *)
THEOREM PassesImplementMarking == Spec => MarkingSpec
<1>1. Init => Passes!Init
  BY InitPasses
<1>2. MarkingInv /\ [Next]_vars => [Passes!Next]_(Passes!vars)
  BY StepPasses
<1> QED
  BY <1>1, <1>2, MarkingInvariant, PTL DEF Spec, MarkingSpec, Passes!Spec

----------------------------------------------------------------------------
(* Symmetry.  As long as nothing has changed, cables join two ports of two  *)
(* entities, and a link is a cable of which both ends have been read.       *)
LinksAreCables ==
  churn = 0 =>
    /\ \A x \in Port : cable[x] # NoPort => cable[x][1] # x[1] /\ cable[cable[x]] = x
    /\ \A x \in Port : link[x] # NoPort => link[x] = cable[x] /\ link[cable[x]] = x

LEMMA InitCables == Init => LinksAreCables
  BY CablingsAssumption DEF Init, LinksAreCables

LEMMA AllocPortsSymmetric ==
  ASSUME MarkingInv, LinksAreCables, NEW u \in Uent, NEW S \in SUBSET PortNum,
         AllocPorts(u, S), UNCHANGED <<cable, churn>>
  PROVE  LinksAreCables'
<1> USE DEF LinksAreCables
<1> SUFFICES ASSUME churn = 0, NEW x \in Port, link'[x] # NoPort
             PROVE  link'[x] = cable[x] /\ link'[cable[x]] = x
  OBVIOUS
<1>1. \A y \in Port :
        link'[y] = CASE y[1] = u /\ y[2] \in S ->
                          IF Allocated(cable[y]) THEN cable[y] ELSE NoPort
                     [] y[1] # u /\ Allocated(y) /\ cable[y][1] = u /\ cable[y][2] \in S ->
                          cable[y]
                     [] OTHER -> link[y]
  BY DEF AllocPorts
<1>2. link'[x] = cable[x] /\ cable[x] # NoPort
  BY <1>1
<1> DEFINE y == cable[x]
<1>3. y \in Port /\ y[1] # x[1] /\ cable[y] = x
  BY <1>2 DEF MarkingInv, Typed
<1>4. x # NoPort
  BY NoPortIsNone
<1>5. CASE x[1] = u /\ x[2] \in S
  <2>1. Allocated(y)
    BY <1>1, <1>5, <1>2
  <2> QED
    BY <1>1, <1>2, <1>3, <1>5, <2>1
<1>6. CASE x[1] # u /\ Allocated(x) /\ cable[x][1] = u /\ cable[x][2] \in S
  BY <1>1, <1>2, <1>3, <1>6
<1>7. CASE /\ ~(x[1] = u /\ x[2] \in S)
           /\ ~(x[1] # u /\ Allocated(x) /\ cable[x][1] = u /\ cable[x][2] \in S)
  <2>1. link[x] = y /\ link[y] = x /\ Allocated(x)
    BY <1>1, <1>7, <1>2 DEF MarkingInv, PointersValid
  <2> QED
    BY <1>1, <1>2, <1>3, <2>1
<1> QED
  BY <1>5, <1>6, <1>7

LEMMA StepCables == MarkingInv /\ LinksAreCables /\ [Next]_vars => LinksAreCables'
<1> SUFFICES ASSUME MarkingInv, LinksAreCables, [Next]_vars PROVE LinksAreCables'
  OBVIOUS
<1> USE DEF vars, fabric, scan, topo, output
<1>1. ASSUME NEW u \in Uent, LinkUent(u) \/ LinkFails(u) PROVE LinksAreCables'
  <2>1. CASE UNCHANGED link
    BY <1>1, <2>1 DEF LinkUent, LinkFails, LinksAreCables
  <2>2. ASSUME NEW S \in SUBSET DirectLink(u), AllocPorts(u, S) PROVE LinksAreCables'
    <3>1. S \in SUBSET PortNum
      BY DEF DirectLink
    <3> QED
      BY <1>1, <2>2, <3>1, AllocPortsSymmetric DEF LinkUent, LinkFails
  <2> QED
    BY <1>1, <2>1, <2>2 DEF LinkUent, LinkFails
<1>2. CASE Kernel \/ \E u \in Uent : ScanVanishing(u)
  <2>1. churn' = churn + 1
    BY <1>2 DEF Kernel, Churn, Unplug, Plug, Disconnect, Connect, ScanVanishing
  <2>2. churn \in Nat
    BY DEF MarkingInv, Typed
  <2>3. churn' # 0
    BY <2>1, <2>2
  <2> QED
    BY <2>3 DEF LinksAreCables
<1>3. CASE UNCHANGED <<cable, churn, link>>
  BY <1>3 DEF LinksAreCables
<1>4. CASE ~ \/ Kernel
             \/ \E u \in Uent : ScanVanishing(u) \/ LinkUent(u) \/ LinkFails(u)
  <2>1. UNCHANGED <<cable, churn, link>>
    BY <1>4 DEF Next, Tool, ScanUent, ScanFails, ScanDone, UbcAllocFails, LinkDone,
                PresetUent, PresetPassDone, ShowUbc, ShowPort, ShowReturn, ShowDone,
                Cleanup, Exited
  <2> QED
    BY <1>3, <2>1
<1> QED
  BY <1>1, <1>2, <1>4

(* On a fabric at rest the peer of a port's peer is the port, from the      *)
(* first file that is read to the last, in whatever order.                  *)
THEOREM LinksStaySymmetric == Spec => []LinksAreSymmetric
<1>1. LinksAreCables => LinksAreSymmetric
  BY DEF LinksAreCables, LinksAreSymmetric
<1> QED
  BY <1>1, InitCables, StepCables, MarkingInvariant, PTL DEF Spec

----------------------------------------------------------------------------
(* The recursion.  The stack is empty whenever a parent may still change.   *)

LEMMA EmptyStackFollows ==
  ASSUME stack' = <<>> PROVE RecursionFollowsParents'
  BY DEF RecursionFollowsParents

LEMMA StepRecursion ==
  ASSUME MarkingInv, Drawing, RecursionFollowsParents, [Next]_vars
  PROVE  RecursionFollowsParents'
<1> USE DEF vars, fabric, scan, topo, output
<1>1. CASE phase \in {"scan", "link", "preset", "failed", "done"}
  <2>1. stack = <<>>
    BY <1>1 DEF Drawing
  <2>2. UNCHANGED stack
    BY <1>1 DEF Next, Tool, Kernel, Churn, Unplug, Plug, Disconnect, Connect, ScanUent,
                ScanVanishing, ScanFails, ScanDone, LinkUent, LinkFails, UbcAllocFails,
                LinkDone, PresetUent, PresetPassDone, ShowUbc, ShowPort, ShowReturn,
                ShowDone, Cleanup, Exited
  <2> QED
    BY <2>1, <2>2, EmptyStackFollows
<1>2. CASE UNCHANGED <<par, ubc, stack>>
  BY <1>2 DEF RecursionFollowsParents
<1>3. ASSUME NEW c \in Uent, ShowUbc(c) PROVE RecursionFollowsParents'
  <2>1. stack = <<>> /\ stack' \in {<<>>, Append(<<>>, c)}
    BY <1>3 DEF ShowUbc, ShowOneUent, Expand, Quote
  <2>2. Len(stack') \in {0, 1}
    BY <2>1
  <2>3. \A i \in 2 .. Len(stack') : FALSE
    <3>1. CASE Len(stack') = 0
      BY <3>1
    <3>2. CASE Len(stack') = 1
      BY <3>2
    <3> QED
      BY <2>2, <3>1, <3>2
  <2> QED
    BY <2>3 DEF RecursionFollowsParents
<1>4. ASSUME NEW p \in PortNum, ShowPort(p) PROVE RecursionFollowsParents'
  <2>1. stack # <<>> /\ UNCHANGED <<par, ubc>>
    BY <1>4 DEF ShowPort
  <2>2. /\ Len(stack) \in Nat \ {0} /\ Top \in Uent /\ stack \in Seq(Uent)
    BY <2>1, TopTyped DEF MarkingInv, Typed
  <2>3. CASE UNCHANGED stack
    BY <1>2, <2>1, <2>3
  <2>4. CASE ~ UNCHANGED stack
    <3> DEFINE e == link[<<Top, p>>][1]
    <3>1. /\ link[<<Top, p>>] # NoPort
          /\ \E left : ShowOneUent(e, Top, ubc[Top], left)
      BY <1>4, <2>4 DEF ShowPort, Quote
    <3>2. par[e] = Top /\ ubc[e] = ubc[Top] /\ stack' = Append(stack, e)
      BY <2>4, <3>1 DEF ShowOneUent, Expand, Quote
    <3>3. e \in Uent
      <4>1. <<Top, p>> \in Port
        BY <2>2 DEF Port
      <4> QED
        BY <3>1, <4>1 DEF MarkingInv, Typed, Port
    <3> HIDE DEF e
    <3>4. /\ Len(stack') = Len(stack) + 1 /\ stack'[Len(stack) + 1] = e
          /\ \A i \in 1 .. Len(stack) : stack'[i] = stack[i]
      BY <2>2, <3>2, <3>3
    <3>5. stack'[Len(stack)] = Top
      BY <2>2, <3>4 DEF Top
    <3>6. ASSUME NEW i \in 2 .. Len(stack')
          PROVE  par[stack'[i]] = stack'[i - 1] /\ ubc[stack'[i]] = ubc[stack'[i - 1]]
      <4>1. CASE i = Len(stack) + 1
        BY <2>2, <3>2, <3>4, <3>5, <4>1
      <4>2. CASE i # Len(stack) + 1
        <5>1. i \in 2 .. Len(stack) /\ i - 1 \in 1 .. Len(stack) /\ i \in 1 .. Len(stack)
          BY <2>2, <3>4, <4>2
        <5> QED
          BY <3>4, <5>1 DEF RecursionFollowsParents
      <4> QED
        BY <4>1, <4>2
    <3> QED
      BY <2>1, <3>6 DEF RecursionFollowsParents
  <2> QED
    BY <2>3, <2>4
<1>5. CASE ShowReturn
  <2>1. /\ stack # <<>> /\ UNCHANGED <<par, ubc>>
        /\ stack' = SubSeq(stack, 1, Len(stack) - 1)
    BY <1>5 DEF ShowReturn
  <2>2. Len(stack) \in Nat \ {0} /\ stack \in Seq(Uent)
    BY <2>1, TopTyped DEF MarkingInv, Typed
  <2>3. /\ Len(stack') = Len(stack) - 1
        /\ \A i \in 1 .. Len(stack) - 1 : stack'[i] = stack[i]
    BY <2>1, <2>2, PoppedStack
  <2>4. \A i \in 2 .. Len(stack') :
          i \in 2 .. Len(stack) /\ i \in 1 .. Len(stack) - 1 /\ i - 1 \in 1 .. Len(stack) - 1
    BY <2>2, <2>3
  <2> QED
    BY <2>1, <2>3, <2>4 DEF RecursionFollowsParents
<1>6. CASE phase \in {"show", "exit"}
  <2>1. CASE UNCHANGED <<par, ubc, stack>>
    BY <1>2, <2>1
  <2>2. CASE ~ \/ \E c \in Uent : ShowUbc(c)
               \/ \E p \in PortNum : ShowPort(p)
               \/ ShowReturn
    BY <1>2, <1>6, <2>2
       DEF Next, Tool, Kernel, Churn, Unplug, Plug, Disconnect, Connect, ScanUent,
           ScanVanishing, ScanFails, ScanDone, LinkUent, LinkFails, UbcAllocFails,
           LinkDone, PresetUent, PresetPassDone, ShowDone, Cleanup, Exited
  <2> QED
    BY <1>3, <1>4, <1>5, <2>2
<1> QED
  BY <1>1, <1>6 DEF MarkingInv, Typed, Phases

(* A call of show_src_port within another is for a child of the other's     *)
(* entity, so the recursion is as deep as the forest at most.               *)
THEOREM RecursionIsBounded == Spec => []RecursionFollowsParents
<1>1. Init => Drawing /\ RecursionFollowsParents
  BY InitDrawing DEF Init, RecursionFollowsParents
<1>2. MarkingInv /\ MarkingInv' /\ Drawing /\ RecursionFollowsParents /\ [Next]_vars
        => Drawing' /\ RecursionFollowsParents'
  BY StepDrawing, StepRecursion
<1> QED
  BY <1>1, <1>2, MarkingInvariant, PTL DEF Spec

----------------------------------------------------------------------------
(* Every run ends: a bound on the steps that are left, which each step of   *)
(* the tool lowers and none of the kernel's raises.                         *)

DrawingMost == Cardinality(Port) + 3 * N
PassesMost == N * (N + 1) + N

(* A pass that is followed by another gives a parent to some entity.        *)
PassesLeft ==
  (Cardinality(Uent \ Parented) + (IF keep THEN 1 ELSE 0)) * (N + 1) + Cardinality(rest)

(* An entity is put on the stack when it is printed.                        *)
DrawingLeft ==
  Cardinality(Port \ drawn) + Cardinality(rest) + 2 * Cardinality(Uent \ printed) + Len(stack)

StepsLeft ==
  CASE phase = "scan" -> 5 + DrawingMost + PassesMost + N + Cardinality(rest)
    [] phase = "link" -> 4 + DrawingMost + PassesMost + Cardinality(rest)
    [] phase = "preset" -> 3 + DrawingMost + PassesLeft
    [] phase = "show" -> 2 + DrawingLeft
    [] phase \in {"done", "failed"} -> 1
    [] phase = "exit" -> 0

Program == Tool \/ \E u \in Uent : ScanVanishing(u)

(* How many elements a set of entities or ports has.                        *)
LEMMA Finite ==
  /\ IsFiniteSet(Uent) /\ Cardinality(Uent) = N
  /\ IsFiniteSet(Port) /\ Cardinality(Port) = N * Cardinality(PortNum)
  /\ Cardinality(PortNum) \in Nat /\ Cardinality(Port) \in Nat
<1>1. IsFiniteSet(Uent) /\ Cardinality(Uent) = N
  BY FS_Interval DEF Uent
<1>2. Cardinality(PortNum) \in Nat
  BY PortNumAssumption, FS_CardinalityType
<1>3. IsFiniteSet(Port) /\ Cardinality(Port) = N * Cardinality(PortNum)
  BY <1>1, PortNumAssumption, FS_Product DEF Port
<1>4. Cardinality(Port) \in Nat
  BY <1>3, FS_CardinalityType
<1> QED
  BY <1>1, <1>2, <1>3, <1>4

LEMMA UentsCounted ==
  ASSUME NEW S \in SUBSET Uent
  PROVE  /\ IsFiniteSet(S) /\ Cardinality(S) \in 0 .. N
         /\ \A x \in S : Cardinality(S \ {x}) = Cardinality(S) - 1
         /\ \A T \in SUBSET S : Cardinality(T) <= Cardinality(S)
         /\ \A T \in SUBSET S : T # S => Cardinality(T) < Cardinality(S)
<1>1. IsFiniteSet(S) /\ Cardinality(S) <= N
  BY Finite, FS_Subset
<1>2. Cardinality(S) \in Nat
  BY <1>1, FS_CardinalityType
<1>3. \A x \in S : Cardinality(S \ {x}) = Cardinality(S) - 1
  BY <1>1, FS_RemoveElement
<1>4. ASSUME NEW T \in SUBSET S
      PROVE  /\ Cardinality(T) <= Cardinality(S)
             /\ T # S => Cardinality(T) < Cardinality(S)
  <2>1. IsFiniteSet(T) /\ Cardinality(T) <= Cardinality(S) /\ (Cardinality(S) = Cardinality(T) => S = T)
    BY <1>1, FS_Subset
  <2>2. Cardinality(T) \in Nat
    BY <2>1, FS_CardinalityType
  <2> QED
    BY <1>2, <2>1, <2>2
<1> QED
  BY <1>1, <1>2, <1>3, <1>4

LEMMA PortsCounted ==
  ASSUME NEW S \in SUBSET Port
  PROVE  /\ Cardinality(S) \in 0 .. Cardinality(Port)
         /\ \A x \in S : Cardinality(S \ {x}) = Cardinality(S) - 1
<1>1. IsFiniteSet(S) /\ Cardinality(S) <= Cardinality(Port)
  BY Finite, FS_Subset
<1>2. Cardinality(S) \in Nat
  BY <1>1, FS_CardinalityType
<1> QED
  BY <1>1, <1>2, Finite, FS_RemoveElement

LEMMA Constants ==
  /\ DrawingMost \in Nat /\ PassesMost \in Nat /\ N * (N + 1) \in Nat
  /\ DrawingMost = Cardinality(Port) + 3 * N
  BY Finite DEF DrawingMost, PassesMost

(* What is left is a number.                                                *)
LEMMA LeftIsNumber ==
  ASSUME Typed
  PROVE  /\ PassesLeft \in Nat /\ DrawingLeft \in Nat /\ Cardinality(rest) \in 0 .. N
         /\ StepsLeft \in Nat
<1>1. Cardinality(Uent \ Parented) \in Nat /\ Cardinality(Uent \ printed) \in Nat
  BY UentsCounted
<1>2. Cardinality(rest) \in 0 .. N
  BY UentsCounted DEF Typed
<1>3. Cardinality(Port \ drawn) \in Nat
  BY PortsCounted, Finite
<1>4. Len(stack) \in Nat
  BY DEF Typed
<1>5. PassesLeft \in Nat
  <2>1. \A a \in Nat, b \in Nat : a * b \in Nat
    OBVIOUS
  <2>2. Cardinality(Uent \ Parented) + (IF keep THEN 1 ELSE 0) \in Nat
    BY <1>1
  <2>3. (Cardinality(Uent \ Parented) + (IF keep THEN 1 ELSE 0)) * (N + 1) \in Nat
    BY <2>1, <2>2
  <2> QED
    BY <1>2, <2>3 DEF PassesLeft
<1>6. DrawingLeft \in Nat
  BY <1>1, <1>2, <1>3, <1>4 DEF DrawingLeft
<1>7. phase \in Phases
  BY DEF Typed
<1>8. StepsLeft \in Nat
  BY <1>2, <1>5, <1>6, <1>7, Constants DEF StepsLeft, Phases
<1> QED
  BY <1>2, <1>5, <1>6, <1>8

LEMMA ScanNearer ==
  ASSUME Typed, NEW u \in Uent, ScanUent(u) \/ ScanVanishing(u)
  PROVE  StepsLeft' < StepsLeft
<1>1. phase = "scan" /\ phase' = "scan" /\ u \in rest /\ rest' = rest \ {u}
  BY DEF ScanUent, ScanVanishing, IsNext
<1>2. Cardinality(rest') = Cardinality(rest) - 1 /\ Cardinality(rest) \in Nat
  BY <1>1, UentsCounted DEF Typed
<1> QED
  BY <1>1, <1>2, Constants DEF StepsLeft

LEMMA LinkNearer ==
  ASSUME Typed, NEW u \in Uent, LinkUent(u)
  PROVE  StepsLeft' < StepsLeft
<1>1. phase = "link" /\ phase' = "link" /\ u \in rest /\ rest' = rest \ {u}
  BY DEF LinkUent, IsNext
<1>2. Cardinality(rest') = Cardinality(rest) - 1 /\ Cardinality(rest) \in Nat
  BY <1>1, UentsCounted DEF Typed
<1> QED
  BY <1>1, <1>2, Constants DEF StepsLeft

LEMMA ProductsGrow ==
  /\ \A a \in Nat : a * (N + 1) \in Nat /\ (a + 1) * (N + 1) = a * (N + 1) + N + 1
  /\ \A a, b \in Nat : a <= b => /\ a * (N + 1) <= b * (N + 1)
                                 /\ a * (N + 1) \in Nat /\ b * (N + 1) \in Nat
<1>1. \A a \in Nat : a * (N + 1) \in Nat /\ (a + 1) * (N + 1) = a * (N + 1) + N + 1
  OBVIOUS
<1>2. ASSUME NEW a \in Nat, NEW b \in Nat, a <= b
      PROVE  a * (N + 1) <= b * (N + 1)
  <2>1. b = a + (b - a) /\ b - a \in Nat
    BY <1>2
  <2>2. b * (N + 1) = a * (N + 1) + (b - a) * (N + 1)
    OBVIOUS
  <2>3. (b - a) * (N + 1) \in Nat /\ a * (N + 1) \in Nat
    BY <1>1, <2>1
  <2> QED
    BY <2>2, <2>3
<1> QED
  BY <1>1, <1>2

LEMMA LoopsEnd ==
  ASSUME Typed, Marking, Drawing, ScanDone \/ LinkDone \/ ShowDone \/ Cleanup
  PROVE  StepsLeft' < StepsLeft
<1>1. Cardinality(rest) \in 0 .. N /\ Cardinality(devs) \in 0 .. N
  BY UentsCounted DEF Typed
<1>2. CASE ScanDone
  <2>1. phase = "scan" /\ phase' = "link" /\ rest' = devs
    BY <1>2 DEF ScanDone
  <2> QED
    BY <1>1, <2>1, Constants DEF StepsLeft
<1>3. CASE LinkDone
  <2>1. phase = "link" /\ phase' = "preset" /\ rest' = devs /\ keep' = FALSE /\ par' = par
    BY <1>3 DEF LinkDone
  <2>2. Cardinality((Uent \ Parented)') \in 0 .. N
    BY UentsCounted
  <2>3. /\ Cardinality((Uent \ Parented)') * (N + 1) \in Nat
        /\ Cardinality((Uent \ Parented)') * (N + 1) <= N * (N + 1)
    <3>1. \A a \in 0 .. N : a * (N + 1) \in Nat /\ a * (N + 1) <= N * (N + 1)
      OBVIOUS
    <3> QED
      BY <2>2, <3>1
  <2>4. PassesLeft' \in Nat /\ PassesLeft' <= PassesMost
    BY <1>1, <2>1, <2>2, <2>3 DEF PassesLeft, PassesMost
  <2> QED
    BY <1>1, <2>1, <2>4, Constants DEF StepsLeft
<1>4. CASE ShowDone
  <2>1. phase = "show" /\ phase' = "done"
    BY <1>4 DEF ShowDone
  <2> QED
    BY <2>1, LeftIsNumber DEF StepsLeft
<1>5. CASE Cleanup
  BY <1>5 DEF Cleanup, StepsLeft
<1> QED
  BY <1>2, <1>3, <1>4, <1>5

(* One entity less to come to; what a pass adopts is unparented no more.    *)
LEMMA PresetNearer ==
  ASSUME Typed, NEW u \in Uent, PresetUent(u)
  PROVE  StepsLeft' < StepsLeft
<1>1. /\ phase = "preset" /\ phase' = "preset" /\ u \in rest /\ rest' = rest \ {u}
  BY DEF PresetUent, IsNext
<1>2. Cardinality(rest') = Cardinality(rest) - 1 /\ Cardinality(rest) \in Nat
  BY <1>1, UentsCounted DEF Typed
<1> DEFINE free == Cardinality(Uent \ Parented)
           more == IF keep THEN 1 ELSE 0
<1>3. free \in Nat /\ free' \in Nat /\ more \in {0, 1} /\ more' \in {0, 1}
  BY UentsCounted
<1>4. free' + more' <= free + more
  <2>1. CASE par' = par /\ keep' = keep
    BY <2>1, <1>3 DEF Parented
  <2>2. CASE /\ par' = [e \in Uent |-> IF e \in Adopted(u) THEN u ELSE par[e]]
             /\ keep' = (keep \/ Adopted(u) # {})
    <3>1. (Uent \ Parented)' = (Uent \ Parented) \ Adopted(u)
      BY <2>2, ParentConstants DEF Parented, Adopted
    <3>2. Adopted(u) \subseteq Uent \ Parented
      BY DEF Adopted, Parented
    <3>3. CASE Adopted(u) = {}
      <4>1. (Uent \ Parented)' = Uent \ Parented /\ (keep' <=> keep)
        BY <2>2, <3>1, <3>3
      <4> QED
        BY <4>1, <1>3
    <3>4. CASE Adopted(u) # {}
      <4>1. (Uent \ Parented)' \in SUBSET (Uent \ Parented) /\ (Uent \ Parented)' # Uent \ Parented
        BY <3>1, <3>2, <3>4
      <4>2. free' < free
        BY <4>1, UentsCounted
      <4> QED
        BY <4>2, <1>3
    <3> QED
      BY <3>3, <3>4
  <2> QED
    BY <2>1, <2>2 DEF PresetUent
<1>5. (free' + more') * (N + 1) <= (free + more) * (N + 1)
      /\ (free' + more') * (N + 1) \in Nat /\ (free + more) * (N + 1) \in Nat
  <2>1. \A a, b \in Nat : a <= b => a * (N + 1) <= b * (N + 1) /\ a * (N + 1) \in Nat /\ b * (N + 1) \in Nat
    BY ProductsGrow
  <2>2. free' + more' \in Nat /\ free + more \in Nat
    BY <1>3
  <2> HIDE DEF free, more
  <2> QED
    BY <1>4, <2>1, <2>2
<1>6. PassesLeft' < PassesLeft /\ PassesLeft' \in Nat /\ PassesLeft \in Nat
  <2>1. /\ PassesLeft = (free + more) * (N + 1) + Cardinality(rest)
        /\ PassesLeft' = (free' + more') * (N + 1) + Cardinality(rest')
    BY DEF PassesLeft
  <2>2. Cardinality(rest') \in Nat
    BY <1>1, UentsCounted DEF Typed
  <2> HIDE DEF free, more
  <2> QED
    BY <1>2, <1>5, <2>1, <2>2
<1> QED
  BY <1>1, <1>6, Constants DEF StepsLeft

(* Another pass, or the drawing.                                            *)
LEMMA PassDoneNearer ==
  ASSUME Typed, Drawing, PresetPassDone
  PROVE  StepsLeft' < StepsLeft
<1>1. phase = "preset" /\ rest = {} /\ Cardinality(rest) = 0
  BY FS_EmptySet DEF PresetPassDone
<1> DEFINE free == Cardinality(Uent \ Parented)
<1>2. free \in Nat /\ par' = par /\ free' = free
  BY UentsCounted DEF PresetPassDone, Parented
<1>3. CASE keep
  <2>1. phase' = "preset" /\ rest' = devs /\ keep' = FALSE
    BY <1>3 DEF PresetPassDone
  <2>2. Cardinality(rest') \in 0 .. N
    BY <2>1, UentsCounted DEF Typed
  <2>3. free * (N + 1) \in Nat /\ (free + 1) * (N + 1) = free * (N + 1) + N + 1
    BY <1>2, ProductsGrow
  <2>4. /\ PassesLeft = (free + 1) * (N + 1) + 0
        /\ PassesLeft' = (free + 0) * (N + 1) + Cardinality(rest')
    BY <1>1, <1>2, <1>3, <2>1 DEF PassesLeft
  <2>5. free + 0 = free
    BY <1>2
  <2> HIDE DEF free
  <2>6. PassesLeft' < PassesLeft /\ PassesLeft' \in Nat /\ PassesLeft \in Nat
    BY <2>2, <2>3, <2>4, <2>5
  <2> QED
    BY <1>1, <2>1, <2>6, Constants DEF StepsLeft
<1>4. CASE ~ keep
  <2>1. phase' = "show" /\ rest' = chain /\ UNCHANGED <<drawn, printed, stack>>
    BY <1>4 DEF PresetPassDone, output
  <2>2. printed = {} /\ stack = <<>> /\ Len(stack) = 0
    BY <1>1, EmptySeq DEF Drawing
  <2>3. Cardinality(rest') \in 0 .. N /\ Cardinality(Uent \ printed) = N
    BY <2>1, <2>2, UentsCounted, Finite DEF Typed
  <2>4. Cardinality(Port \ drawn) \in 0 .. Cardinality(Port)
    BY PortsCounted
  <2>5. DrawingLeft' \in Nat /\ DrawingLeft' <= DrawingMost
    BY <2>1, <2>2, <2>3, <2>4, Constants, Finite DEF DrawingLeft
  <2> QED
    BY <1>1, <2>1, <2>5, Constants, LeftIsNumber DEF StepsLeft
<1> QED
  BY <1>3, <1>4

(* An entity is expanded when it had not been printed.                      *)
LEMMA ExpandedOrQuoted ==
  ASSUME Typed, NEW e \in Uent, NEW n, NEW c, NEW left, ShowOneUent(e, n, c, left)
  PROVE  /\ 2 * Cardinality(Uent \ printed') + Len(stack')
              <= 2 * Cardinality(Uent \ printed) + Len(stack)
         /\ Cardinality(Uent \ printed') \in Nat /\ Len(stack') \in Nat
         /\ Cardinality(Uent \ printed) \in Nat /\ Len(stack) \in Nat
<1>1. Cardinality(Uent \ printed') \in Nat /\ Cardinality(Uent \ printed) \in Nat
  BY UentsCounted
<1>2. stack \in Seq(Uent) /\ Len(stack) \in Nat
  BY DEF Typed
<1>3. CASE Expand(e, left) /\ e \notin printed
  <2>1. Uent \ printed' = (Uent \ printed) \ {e} /\ e \in Uent \ printed
    BY <1>3 DEF Expand
  <2>2. Cardinality(Uent \ printed') = Cardinality(Uent \ printed) - 1
    BY <2>1, UentsCounted
  <2>3. Len(stack') = Len(stack) + 1
    BY <1>2, <1>3, AppendProperties DEF Expand
  <2> QED
    BY <1>1, <1>2, <2>2, <2>3
<1>4. CASE Quote(left)
  BY <1>1, <1>2, <1>4 DEF Quote
<1> QED
  BY <1>3, <1>4 DEF ShowOneUent

LEMMA OneLess ==
  ASSUME NEW a \in Int, NEW b \in Int, NEW c \in Int, NEW d \in Int,
         NEW x \in Int, NEW y \in Int, NEW z \in Int, NEW w \in Int,
         x + y = a + b - 1, 2 * z + w <= 2 * c + d
  PROVE  /\ x + y + 2 * z + w < a + b + 2 * c + d
         /\ x + y + 2 * z + w \in Int /\ a + b + 2 * c + d \in Int
  OBVIOUS

LEMMA DrawingLess ==
  ASSUME Cardinality(Port \ drawn) \in Int, Cardinality(rest) \in Int,
         Cardinality(Uent \ printed) \in Int, Len(stack) \in Int,
         Cardinality(Port \ drawn') \in Int, Cardinality(rest') \in Int,
         Cardinality(Uent \ printed') \in Int, Len(stack') \in Int,
         Cardinality(Port \ drawn') + Cardinality(rest') =
           Cardinality(Port \ drawn) + Cardinality(rest) - 1,
         2 * Cardinality(Uent \ printed') + Len(stack')
           <= 2 * Cardinality(Uent \ printed) + Len(stack)
  PROVE  DrawingLeft' < DrawingLeft /\ DrawingLeft' \in Int /\ DrawingLeft \in Int
<1> DEFINE a == Cardinality(Port \ drawn)  x == Cardinality(Port \ drawn')
           b == Cardinality(rest)            y == Cardinality(rest')
           c == Cardinality(Uent \ printed)  z == Cardinality(Uent \ printed')
           d == Len(stack)                   w == Len(stack')
<1>1. /\ a \in Int /\ b \in Int /\ c \in Int /\ d \in Int
      /\ x \in Int /\ y \in Int /\ z \in Int /\ w \in Int
  OBVIOUS
<1>2. x + y = a + b - 1
  OBVIOUS
<1>3. 2 * z + w <= 2 * c + d
  OBVIOUS
<1>4. DrawingLeft = a + b + 2 * c + d
  BY DEF DrawingLeft
<1>5. DrawingLeft' = x + y + 2 * z + w
  BY DEF DrawingLeft
<1> HIDE DEF a, b, c, d, x, y, z, w
<1> QED
  BY <1>1, <1>2, <1>3, <1>4, <1>5, OneLess

LEMMA DrawingNearer ==
  ASSUME Typed, Drawing,
         \/ ShowReturn
         \/ \E c \in Uent : ShowUbc(c)
         \/ \E p \in PortNum : ShowPort(p)
  PROVE  StepsLeft' < StepsLeft
<1>1. /\ Cardinality(rest) \in Nat /\ Cardinality(Port \ drawn) \in Nat
      /\ Cardinality(Uent \ printed) \in Nat /\ Len(stack) \in Nat
  BY UentsCounted, PortsCounted, Finite DEF Typed
<1>2. phase = "show" /\ phase' = "show"
  BY DEF ShowReturn, ShowUbc, ShowPort
<1>3. ASSUME DrawingLeft' < DrawingLeft, DrawingLeft' \in Int, DrawingLeft \in Int
      PROVE  StepsLeft' < StepsLeft
  BY <1>2, <1>3 DEF StepsLeft
<1>4. CASE ShowReturn
  <2>1. stack \in Seq(Uent) /\ stack # <<>>
        /\ UNCHANGED <<printed, drawn, rest>>
        /\ stack' = SubSeq(stack, 1, Len(stack) - 1)
    BY <1>4 DEF ShowReturn, Typed
  <2>2. Len(stack) \in Nat \ {0}
    BY <2>1, EmptySeq
  <2>3. Len(stack') = Len(stack) - 1
    BY <2>1, <2>2, PoppedStack
  <2> QED
    BY <1>1, <1>3, <2>1, <2>3 DEF DrawingLeft
<1>5. ASSUME NEW c \in Uent, ShowUbc(c) PROVE StepsLeft' < StepsLeft
  <2>1. c \in rest /\ rest' = rest \ {c} /\ drawn' = drawn
        /\ ShowOneUent(c, UB_HOST_DEV_PARENT, ubc[c], todo)
    BY <1>5 DEF ShowUbc, IsNext
  <2>2. Cardinality(rest') = Cardinality(rest) - 1
    BY <2>1, UentsCounted DEF Typed
  <2>3. /\ 2 * Cardinality(Uent \ printed') + Len(stack')
             <= 2 * Cardinality(Uent \ printed) + Len(stack)
        /\ Cardinality(Uent \ printed') \in Nat /\ Len(stack') \in Nat
    BY <2>1, ExpandedOrQuoted
  <2>4. Cardinality(Port \ drawn') = Cardinality(Port \ drawn)
    BY <2>1
  <2>5. DrawingLeft' < DrawingLeft /\ DrawingLeft' \in Int /\ DrawingLeft \in Int
    <3>1. /\ Cardinality(Port \ drawn') + Cardinality(rest') =
              Cardinality(Port \ drawn) + Cardinality(rest) - 1
         /\ Cardinality(Port \ drawn') \in Int /\ Cardinality(rest') \in Int
      BY <1>1, <2>2, <2>4
    <3> QED
      BY <3>1, <1>1, <2>3, DrawingLess
  <2> QED
    BY <1>3, <2>5
<1>6. ASSUME NEW p \in PortNum, ShowPort(p) PROVE StepsLeft' < StepsLeft
  <2> DEFINE x == <<Top, p>>
             left == [todo EXCEPT ![Top] = @ \ {p}]
  <2>1. Top \in Uent /\ p \in todo[Top] /\ x \in Port
    BY <1>6, TopTyped DEF ShowPort, Port
  <2>2. drawn' = drawn \cup {x} /\ rest' = rest
    BY <1>6 DEF ShowPort
  <2>3. x \notin drawn
    BY <2>1 DEF Drawing, Branches
  <2>4. Cardinality(Port \ drawn') = Cardinality(Port \ drawn) - 1
    <3>1. Port \ drawn' = (Port \ drawn) \ {x} /\ x \in Port \ drawn
      BY <2>1, <2>2, <2>3
    <3> QED
      BY <3>1, PortsCounted
  <2>5. CASE link[x] = NoPort
    <3>1. UNCHANGED <<printed, stack>>
      BY <1>6, <2>5 DEF ShowPort, Quote
    <3> QED
      BY <1>1, <1>3, <2>2, <2>4, <3>1 DEF DrawingLeft
  <2>6. CASE link[x] # NoPort
    <3>1. link[x][1] \in Uent
      BY <2>1, <2>6 DEF Typed, Port
    <3>2. ShowOneUent(link[x][1], Top, ubc[Top], left)
      BY <1>6, <2>6 DEF ShowPort
    <3>3. /\ 2 * Cardinality(Uent \ printed') + Len(stack')
              <= 2 * Cardinality(Uent \ printed) + Len(stack)
         /\ Cardinality(Uent \ printed') \in Nat /\ Len(stack') \in Nat
      BY <3>1, <3>2, ExpandedOrQuoted
    <3>4. Cardinality(rest') = Cardinality(rest)
      BY <2>2
    <3>5. DrawingLeft' < DrawingLeft /\ DrawingLeft' \in Int /\ DrawingLeft \in Int
      <4>1. /\ Cardinality(Port \ drawn') + Cardinality(rest') =
                Cardinality(Port \ drawn) + Cardinality(rest) - 1
           /\ Cardinality(Port \ drawn') \in Int /\ Cardinality(rest') \in Int
        BY <1>1, <2>4, <3>4
      <4> QED
        BY <4>1, <1>1, <3>3, DrawingLess
    <3> QED
      BY <1>3, <3>5
  <2> QED
    BY <2>5, <2>6
<1> QED
  BY <1>4, <1>5, <1>6

LEMMA FailureNearer ==
  ASSUME Typed, \/ ScanFails \/ \E u \in Uent : UbcAllocFails(u) \/ LinkFails(u)
  PROVE  StepsLeft' < StepsLeft
<1>1. phase \in {"scan", "link"} /\ phase' = "failed"
  BY DEF ScanFails, UbcAllocFails, LinkFails
<1>2. Cardinality(rest) \in Nat
  BY UentsCounted DEF Typed
<1> QED
  BY <1>1, <1>2, Constants DEF StepsLeft

MostSteps == N * Cardinality(PortNum) + N * N + 7 * N + 5

LEMMA InitLeft == Init => StepsLeft \in 0 .. MostSteps
<1> SUFFICES ASSUME Init PROVE StepsLeft \in 0 .. MostSteps
  OBVIOUS
<1>1. phase = "scan" /\ Cardinality(rest) = N
  BY Finite DEF Init
<1>2. StepsLeft = 5 + DrawingMost + PassesMost + N + N
  BY <1>1 DEF StepsLeft
<1>3. N * (N + 1) = N * N + N /\ N * N \in Nat
  OBVIOUS
<1> QED
  BY <1>2, <1>3, Finite, Constants DEF MostSteps, PassesMost

LEMMA LeftCounts == Typed => StepsLeft \in Nat
  BY LeftIsNumber

LEMMA LeftCountsNext == Typed' => (StepsLeft \in Nat)'
  BY LeftCounts, PTL

LEMMA StepNearer ==
  MarkingInv /\ Drawing /\ [Next]_vars =>
    (Program => StepsLeft' < StepsLeft) /\ StepsLeft' <= StepsLeft
<1> SUFFICES ASSUME MarkingInv, Drawing, [Next]_vars
             PROVE  (Program => StepsLeft' < StepsLeft) /\ StepsLeft' <= StepsLeft
  OBVIOUS
<1>1. Typed /\ Marking /\ Typed'
  BY StepTyped DEF MarkingInv
<1>2. StepsLeft \in Nat /\ StepsLeft' \in Nat
  BY <1>1, LeftCounts, LeftCountsNext
<1>3. Program => StepsLeft' < StepsLeft
  BY <1>1, ScanNearer, LinkNearer, LoopsEnd, PresetNearer, PassDoneNearer, DrawingNearer, FailureNearer
     DEF Program, Tool
<1>4. CASE ~ Program
  <2>1. UNCHANGED <<par, keep, rest, drawn, printed, stack, phase>>
    BY <1>4 DEF Program, Next, Kernel, Churn, Unplug, Plug, Disconnect, Connect, Exited, vars, topo, output
  <2>2. StepsLeft' = StepsLeft
    BY <2>1 DEF StepsLeft, PassesLeft, DrawingLeft, Parented
  <2> QED
    BY <1>2, <1>4, <2>2
<1> QED
  BY <1>2, <1>3, <1>4

(* The bound, and that each step of the program takes one off at least,     *)
(* while nothing the kernel does adds one.                                  *)
RunsOut ==
  /\ [](StepsLeft \in 0 .. MostSteps)
  /\ [][Program => StepsLeft' < StepsLeft]_vars
  /\ [][StepsLeft' <= StepsLeft]_vars

(* lsub -t takes at most MostSteps steps, for every fabric, every order of  *)
(* the entities and every change during the run: no pass, no recursion and  *)
(* no list goes on for ever.                                                *)
THEOREM RunIsBounded == Spec => RunsOut
<1> DEFINE Bound == StepsLeft \in 0 .. MostSteps
           Nearer == Program => StepsLeft' < StepsLeft
           NoFurther == StepsLeft' <= StepsLeft
<1>1. MostSteps \in Nat
  <2>1. \A a, b \in Nat : a * b \in Nat
    OBVIOUS
  <2>2. N * Cardinality(PortNum) \in Nat /\ N * N \in Nat
    BY <2>1, Finite
  <2> QED
    BY <2>2 DEF MostSteps
<1>2. MarkingInv /\ MarkingInv' /\ Drawing /\ [Next]_vars => [Nearer]_vars /\ [NoFurther]_vars
  BY StepNearer
<1>3. MarkingInv /\ MarkingInv' /\ Drawing /\ Bound /\ [Next]_vars => Bound'
  <2> SUFFICES ASSUME MarkingInv, MarkingInv', Drawing, Bound, [Next]_vars PROVE Bound'
    OBVIOUS
  <2>1. StepsLeft' \in Nat /\ StepsLeft' <= StepsLeft
    BY StepNearer, LeftCountsNext DEF MarkingInv
  <2> QED
    BY <1>1, <2>1
<1>4. Init => Drawing /\ Bound
  BY InitDrawing, InitLeft
<1>5. MarkingInv /\ MarkingInv' /\ Drawing /\ [Next]_vars => Drawing'
  BY StepDrawing
<1>6. Spec => []Bound /\ [][Nearer]_vars /\ [][NoFurther]_vars
  <2> HIDE DEF Bound, Nearer, NoFurther
  <2> QED
    BY <1>2, <1>3, <1>4, <1>5, MarkingInvariant, PTL DEF Spec
<1> QED
  BY <1>6, PTL DEF RunsOut
=============================================================================
