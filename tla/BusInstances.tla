---------------------------- MODULE BusInstances ----------------------------
(****************************************************************************)
(* One run of "lsub -b": the scan notes the bus instance of every entity,   *)
(* then the list of instances is fetched page by page through one sysfs     *)
(* file -- its first line holds the count, and a number written to it sets  *)
(* the instance from which the next read starts -- and searched.            *)
(*                                                                          *)
(* The kernel's side is external.  It appends new instances to its list,    *)
(* closes the gap when one is destroyed, answers a read with one snapshot,  *)
(* and keeps one start for all readers of the file.  An instance stands for *)
(* the line that shows it: its GUID, type and UPI are never compared.       *)
(****************************************************************************)
EXTENDS Integers, Sequences, FiniteSets, SequencesExt

CONSTANTS
  Instance,  \* bus instances that may exist
  EidOf,     \* their EIDs
  Malformed, \* instances whose line sscanf refuses
  Uent,      \* the UB entities the scan finds
  Stranger,  \* an entity number it does not find
  Page,      \* MAX_CNT_PER_READ
  MaxChurn,  \* how many instances and bindings change during the run
  MaxOthers  \* how many other readers set the start during the run

ASSUME InstanceAssumption == IsFiniteSet(Instance) /\ Malformed \subseteq Instance
ASSUME EidAssumption == EidOf \in [Instance -> Nat]
ASSUME StrangerAssumption == Stranger \notin Uent
ASSUME PageAssumption == Page \in Nat \ {0}
ASSUME MaxChurnAssumption == MaxChurn \in Nat
ASSUME MaxOthersAssumption == MaxOthers \in Nat

Unbound == -1   \* what the scan notes of an entity without an instance
Unread == -2
None == "none"

VARIABLES
  (* the kernel *)
  table,     \* the instances, in the order the file lists them
  start,     \* where the next read of the file begins
  bound,     \* the instances each entity is bound to: one at most
  churn, others,
  born,      \* history: all instances since the tool began
  died,      \* history: those that were destroyed since then
  (* the tool *)
  query,     \* -E <eid>, -e <entity> or neither
  biEid,     \* bi_eid of each entity
  count,     \* the count in the first line
  i,         \* index of the page being fetched
  list,      \* uacc->bi
  answer,    \* the message printed
  shown,     \* the instances printed
  under,     \* the entities printed under an instance
  phase

kernel == <<table, start, bound, churn, others, born, died>>
result == <<answer, shown, under>>
vars == <<kernel, query, biEid, count, i, list, result, phase>>

Queries ==
  [kind : {"list"}]
    \cup [kind : {"instance"}, eid : {EidOf[b] : b \in Instance}]
    \cup [kind : {"entity"}, uent : Uent \cup {Stranger}]

Listed(b) == b \in ToSet(table)

----------------------------------------------------------------------------
(* Before the run the kernel holds a prefix of the instances, in order, and *)
(* entities are bound to some of them.                                      *)
Init ==
  /\ \E n \in 0 .. Len(SetToSeq(Instance)) :
       table = SubSeq(SetToSeq(Instance), 1, n)
  /\ start \in {0, 1}   \* left behind by an earlier reader
  /\ bound \in [Uent -> {{}} \cup {{b} : b \in ToSet(table)}]
  /\ churn = 0 /\ others = 0
  /\ born = ToSet(table) /\ died = {}
  /\ query \in Queries
  /\ biEid = [u \in Uent |-> Unread]
  /\ count = 0 /\ i = 0 /\ list = <<>>
  /\ answer = None /\ shown = <<>> /\ under = {}
  /\ phase = "scan"

EidAttribute(u) ==
  IF bound[u] = {} THEN Unbound ELSE EidOf[CHOOSE b \in bound[u] : TRUE]

ScanUent(u) ==
  /\ phase = "scan" /\ biEid[u] = Unread
  /\ biEid' = [biEid EXCEPT ![u] = EidAttribute(u)]
  /\ UNCHANGED <<kernel, query, count, i, list, result, phase>>

(* fopen and the first line; the read that counts starts anywhere.          *)
ReadCount ==
  /\ phase = "scan" /\ \A u \in Uent : biEid[u] # Unread
  /\ count' = Len(table)
  /\ phase' = "page"
  /\ UNCHANGED <<kernel, query, biEid, i, list, result>>

(* Without a list nothing is shown: it is freed, and show_bi_info returns.  *)
Abandon ==
  /\ list' = <<>>
  /\ phase' = "exit"
  /\ UNCHANGED <<kernel, query, biEid, count, i, result>>

ReadCountFails ==
  phase = "scan" /\ (\A u \in Uent : biEid[u] # Unread) /\ Abandon

(* Mutant: the last page is not fetched if it is full.                      *)
Cycle_RoundedDown == (count - 1) \div Page

Cycle == count \div Page
Left == count % Page

(* How many lines the page holds.                                           *)
PageLen == IF i # Cycle THEN Page ELSE Left

(* Mutant: a page starts with the last line of the one before.              *)
PageStart_OffByOne == i * Page + (IF i = 0 THEN 0 ELSE -1)

PageStart == i * Page

WriteStart ==
  /\ phase = "page" /\ i <= Cycle /\ PageLen # 0
  /\ start' = PageStart
  /\ phase' = "lines"
  /\ UNCHANGED <<table, bound, churn, others, born, died>>
  /\ UNCHANGED <<query, biEid, count, i, list, result>>

Smaller(m, n) == IF m <= n THEN m ELSE n

(* Mutant: the first line of a page is dropped.                             *)
Lines_FirstSkipped ==
  SubSeq(table, start + 2, Smaller(Len(table), start + PageLen))

(* The lines of one read, from the start on.                                *)
Lines == SubSeq(table, start + 1, Smaller(Len(table), start + PageLen))

(* Mutant: a line that does not parse is added too.                         *)
Parsed_Any(lines) == lines

Added(bis, b) == IF b \in Malformed THEN bis ELSE Append(bis, b)

Parsed(lines) ==
  LET upTo[n \in 0 .. Len(lines)] ==
        IF n = 0 THEN <<>> ELSE Added(upTo[n - 1], lines[n])
  IN upTo[Len(lines)]

(* All lines of a page are in the buffer of one read.                       *)
ReadPage ==
  /\ phase = "lines"
  /\ list' = list \o Parsed(Lines)
  /\ i' = i + 1
  /\ phase' = "page"
  /\ UNCHANGED <<kernel, query, biEid, count, result>>

(* A seek, the write or the read fails, or ub_add_bi is out of memory.      *)
PageFails == phase = "lines" /\ Abandon

PagesDone ==
  /\ phase = "page"
  /\ i > Cycle \/ PageLen = 0
  /\ phase' = "show"
  /\ UNCHANGED <<kernel, query, biEid, count, i, list, result>>

(* The first instance of the list with this EID.                            *)
First(eid) == SelectInSeq(list, LAMBDA b : EidOf[b] = eid)

ShowList ==
  /\ phase = "show" /\ query.kind = "list"
  /\ shown' = list /\ answer' = "list"
  /\ phase' = "free"
  /\ UNCHANGED <<kernel, query, biEid, count, i, list, under>>

(* Mutant: every entity bound to an instance is shown.                      *)
Under_All(eid) == {u \in Uent : biEid[u] # Unbound}

(* ub_show_bi_uent.                                                         *)
Under(eid) == {u \in Uent : biEid[u] = eid}

ShowInstance ==
  /\ phase = "show" /\ query.kind = "instance"
  /\ IF First(query.eid) # 0
     THEN /\ answer' = "found"
          /\ shown' = <<list[First(query.eid)]>>
          /\ under' = Under(query.eid)
     ELSE answer' = "no_such_instance" /\ UNCHANGED <<shown, under>>
  /\ phase' = "free"
  /\ UNCHANGED <<kernel, query, biEid, count, i, list>>

(* ub_show_uent_bi_info.                                                    *)
ShowStranger ==
  /\ phase = "show" /\ query.kind = "entity" /\ query.uent \notin Uent
  /\ answer' = "no_such_entity"
  /\ phase' = "free"
  /\ UNCHANGED <<kernel, query, biEid, count, i, list, shown, under>>

ShowEntity ==
  /\ phase = "show" /\ query.kind = "entity" /\ query.uent \in Uent
  /\ IF First(biEid[query.uent]) # 0
     THEN answer' = "found" /\ shown' = <<list[First(biEid[query.uent])]>>
     ELSE answer' = "somethings_wrong" /\ UNCHANGED shown
  /\ phase' = "free"
  /\ UNCHANGED <<kernel, query, biEid, count, i, list, under>>

Free ==
  /\ phase = "free"
  /\ list' = <<>>
  /\ phase' = "exit"
  /\ UNCHANGED <<kernel, query, biEid, count, i, result>>

----------------------------------------------------------------------------
(* Instances change only while the tool still reads.                        *)
Churn ==
  /\ phase \in {"scan", "page", "lines"} /\ churn < MaxChurn
  /\ churn' = churn + 1

Create(b) ==
  /\ Churn /\ b \notin born
  /\ table' = Append(table, b)
  /\ born' = born \cup {b}
  /\ UNCHANGED <<start, bound, others, died, query, biEid, count, i, list, result, phase>>

Destroy(b) ==
  /\ Churn /\ Listed(b) /\ \A u \in Uent : b \notin bound[u]
  /\ \E k \in DOMAIN table : table[k] = b /\ table' = RemoveAt(table, k)
  /\ died' = died \cup {b}
  /\ UNCHANGED <<start, bound, others, born, query, biEid, count, i, list, result, phase>>

Bind(u, b) ==
  /\ Churn /\ Listed(b) /\ bound[u] = {}
  /\ bound' = [bound EXCEPT ![u] = {b}]
  /\ UNCHANGED <<table, start, others, born, died, query, biEid, count, i, list, result, phase>>

Unbind(u) ==
  /\ Churn /\ bound[u] # {}
  /\ bound' = [bound EXCEPT ![u] = {}]
  /\ UNCHANGED <<table, start, others, born, died, query, biEid, count, i, list, result, phase>>

(* Another process asks for the page that starts at s.                      *)
OtherReader(s) ==
  /\ phase \in {"page", "lines"} /\ others < MaxOthers
  /\ others' = others + 1
  /\ start' = s
  /\ UNCHANGED <<table, bound, churn, born, died, query, biEid, count, i, list, result, phase>>

Kernel ==
  \/ \E b \in Instance : Create(b) \/ Destroy(b) \/ \E u \in Uent : Bind(u, b)
  \/ \E u \in Uent : Unbind(u)
  \/ \E s \in {0, Page} : OtherReader(s)

Tool ==
  \/ \E u \in Uent : ScanUent(u)
  \/ ReadCount \/ ReadCountFails \/ WriteStart \/ ReadPage \/ PageFails
  \/ PagesDone \/ ShowList \/ ShowInstance \/ ShowStranger \/ ShowEntity \/ Free

Exited == phase = "exit" /\ UNCHANGED vars

Next == Tool \/ Kernel \/ Exited

Spec == Init /\ [][Next]_vars /\ WF_vars(Tool)

----------------------------------------------------------------------------
(* Type invariant: the list holds instances only, never a line that did not *)
(* parse (ub_parse_instance_sys), and the page read is one that was counted.*)
TypeOK ==
  /\ table \in Seq(born) /\ born \subseteq Instance /\ died \subseteq born
  /\ start \in Nat /\ churn \in 0 .. MaxChurn /\ others \in 0 .. MaxOthers
  /\ bound \in [Uent -> SUBSET ToSet(table)]
  /\ query \in Queries
  /\ biEid \in [Uent -> Nat \cup {Unbound, Unread}]
  /\ count \in Nat /\ i \in 0 .. Cycle + 1
  /\ list \in Seq(born \ Malformed) /\ shown \in Seq(born \ Malformed)
  /\ under \subseteq Uent
  /\ answer \in {None, "list", "found", "no_such_instance", "no_such_entity",
                "somethings_wrong"}
  /\ phase \in {"scan", "page", "lines", "show", "free", "exit"}

(* The pages fit together: unless an instance is destroyed or another       *)
(* reader moves the start, the list is what the file held when its lines    *)
(* were counted, in order, with none missing at a page's edge -- whatever   *)
(* is created in the meantime and wherever an earlier reader left the start *)
(* (sysfs_get_bi).                                                          *)
ListComplete ==
  phase = "show" /\ died = {} /\ others = 0
    => list = Parsed(SubSeq(table, 1, count))

(* Destroying instances between two pages shifts the rest forward: one may  *)
(* be missed then, but none is listed twice.                                *)
NoDuplicates == others = 0 => IsInjective(list)

(* The instance that the scan found an entity bound to is still found in    *)
(* the list, which is read later: "somethings wrong" is never printed while *)
(* nothing is destroyed and no other reader moves the start.                *)
EntityInstanceFound ==
  answer = "somethings_wrong" /\ biEid[query.uent] # Unbound
  /\ died = {} /\ others = 0
    => \E b \in Malformed : EidOf[b] = biEid[query.uent]

(* On a system at rest "-b -E <eid>" finds an instance exactly when one     *)
(* with this EID is listed, and shows the entities bound to it.             *)
AnswerExact ==
  phase = "free" /\ query.kind = "instance" /\ churn = 0 /\ others = 0
    => LET here == {b \in ToSet(Parsed(table)) : EidOf[b] = query.eid}
       IN /\ answer = "found" <=> here # {}
          /\ answer = "found" =>
               under = {u \in Uent : \E b \in bound[u] : EidOf[b] = query.eid}
=============================================================================
