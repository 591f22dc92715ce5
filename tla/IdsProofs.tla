------------------------------ MODULE IdsProofs ------------------------------
(****************************************************************************)
(* What the ID database of lsub guarantees for every file, every hash and   *)
(* every sequence of names asked for, with every failure of a load.         *)
(****************************************************************************)
EXTENDS Ids, SequenceTheorems, WellFoundedInduction, TLAPS

----------------------------------------------------------------------------
(* Sequences and least numbers.                                             *)

LEMMA LeastMember ==
  ASSUME NEW S \in SUBSET Nat, S # {}
  PROVE  \E n \in S : \A m \in S : n <= m
<1> DEFINE R == OpToRel(<, Nat)
<1>1. IsWellFoundedOn(R, Nat)
  BY NatLessThanWellFounded
<1>2. \A m \in Nat, n \in Nat : m < n => <<m, n>> \in R
  BY DEF OpToRel
<1>3. PICK n \in S : \A m \in S : ~ (<<m, n>> \in R)
  <2> HIDE DEF R
  <2> QED
    BY <1>1, WFMin
<1>4. \A m \in S : ~(m < n)
  BY <1>2, <1>3
<1>5. \A m \in S : n <= m
  <2> HIDE DEF R
  <2>1. n \in Nat /\ \A m \in S : m \in Nat
    BY <1>3
  <2> QED
    BY <1>4, <2>1
<1> QED
  BY <1>3, <1>5

LEMMA LeastChosen ==
  ASSUME NEW S \in SUBSET Nat, NEW n \in S, \A m \in S : n <= m
  PROVE  (CHOOSE x \in S : \A m \in S : x <= m) = n
<1> DEFINE c == CHOOSE x \in S : \A m \in S : x <= m
<1>1. c \in S /\ \A m \in S : c <= m
  OBVIOUS
<1> HIDE DEF c
<1>2. c <= n /\ n <= c /\ c \in Nat /\ n \in Nat
  BY <1>1
<1>3. c = n
  BY <1>2
<1> QED
  BY <1>3 DEF c

LEMMA Prepend ==
  ASSUME NEW T, NEW s \in Seq(T), NEW e \in T
  PROVE  /\ <<e>> \o s \in Seq(T)
         /\ DOMAIN (<<e>> \o s) = 1 .. Len(s) + 1
         /\ (<<e>> \o s)[1] = e
         /\ \A n \in 1 .. Len(s) : (<<e>> \o s)[n + 1] = s[n]
<1>1. <<e>> \in Seq(T) /\ Len(<<e>>) = 1 /\ <<e>>[1] = e
  OBVIOUS
<1>2. /\ <<e>> \o s \in Seq(T)
      /\ Len(<<e>> \o s) = 1 + Len(s)
      /\ \A i \in 1 .. 1 + Len(s) :
           (<<e>> \o s)[i] = IF i <= 1 THEN <<e>>[i] ELSE s[i - 1]
  BY <1>1, ConcatProperties
<1>3. Len(s) \in Nat
  OBVIOUS
<1> DEFINE t == <<e>> \o s
<1> HIDE DEF t
<1>4. /\ t \in Seq(T) /\ Len(t) = 1 + Len(s)
      /\ \A i \in 1 .. 1 + Len(s) : t[i] = IF i <= 1 THEN <<e>>[i] ELSE s[i - 1]
  BY <1>2 DEF t
<1>5. DOMAIN t = 1 .. Len(s) + 1
  BY <1>3, <1>4
<1>6. t[1] = e
  BY <1>1, <1>3, <1>4
<1>7. \A n \in 1 .. Len(s) : t[n + 1] = s[n]
  BY <1>3, <1>4
<1> QED
  BY <1>4, <1>5, <1>6, <1>7 DEF t

----------------------------------------------------------------------------
(* Types.                                                                   *)

Entries == [key : Key, name : STRING]

DataTyped ==
  /\ table \in Seq(Entries)
  /\ lines \in Seq(Lines) /\ source \in Seq(Lines)
  /\ ids \in Key

LEMMA InitData == IdsInit => DataTyped
  BY SubConfigAssumption DEF IdsInit, DataTyped, KeyOf, Key, Cats

LEMMA NothingTyped == <<>> \in Seq(Lines) /\ <<>> \in Seq(Entries)
  OBVIOUS

LEMMA LineTyped ==
  ASSUME DataTyped, Reading
  PROVE  /\ Line \in Lines /\ Tail(lines) \in Seq(Lines)
         /\ Append(source, Line) \in Seq(Lines)
  BY HeadTailProperties DEF DataTyped, Reading, Line

LEMMA KeyTyped ==
  ASSUME NEW c \in Cats, NEW v \in Nat, NEW d \in Nat, NEW b \in Nat, NEW s \in Nat
  PROVE  KeyOf(c, v, d, b, s) \in Key
  BY DEF KeyOf, Key

(* A line that is taken as the item of key i.                               *)
LEMMA TakeData ==
  ASSUME DataTyped, Reading, NEW i \in Key, Take(i)
  PROVE  DataTyped'
<1> USE DEF DataTyped, path
<1>1. Line.name \in STRING
  BY LineTyped DEF Lines
<1>2. CASE Insert(i)
  <2>1. table' \in Seq(Entries)
    <3>1. [key |-> i, name |-> Line.name] \in Entries
      BY <1>1 DEF Entries
    <3> QED
      BY <1>2, <3>1, Prepend DEF Insert
  <2> QED
    BY <1>2, <2>1, LineTyped DEF Insert, Advance
<1>3. CASE InsertFails(i)
  BY <1>3, NothingTyped DEF InsertFails, EndLoad
<1> QED
  BY <1>2, <1>3 DEF Take

(* The keys that the lines lead to.                                         *)
LEMMA LineKeys ==
  ASSUME DataTyped, Reading
  PROVE  /\ \A c \in Cats : KeyOf(c, 0, 0, Line.id, SUB_CONFIG) \in Key
         /\ \A c \in Cats : KeyOf(c, Line.id, 0, 0, SUB_CONFIG) \in Key
         /\ KeyOf("gen_subsystem", Line.id, 0, 0, ids.sub) \in Key
         /\ [ids EXCEPT !.cat = "unknown", !.base = 0] \in Key
         /\ DeviceOf(ids) \in Key
         /\ [DeviceOf(ids) EXCEPT !.cat = "device"] \in Key
         /\ [ids EXCEPT !.sub = Line.id, !.subsys = 0] \in Key
         /\ [ids EXCEPT !.cat = "subclass", !.device = Line.id, !.subsys = 0] \in Key
         /\ [ids EXCEPT !.cat = "subsystem", !.subsys = Line.id] \in Key
         /\ [ids EXCEPT !.cat = "progif", !.subsys = Line.id] \in Key
<1>1. Line.id \in Nat
  BY LineTyped DEF Lines
<1>2. ids \in Key
  BY DEF DataTyped
<1> QED
  BY <1>1, <1>2, SubConfigAssumption DEF Key, KeyOf, DeviceOf, Cats

LEMMA ParseData == DataTyped /\ ParseLine => DataTyped'
<1> SUFFICES ASSUME DataTyped, ParseLine PROVE DataTyped'
  OBVIOUS
<1> USE DEF store, path
<1>1. CASE Ignored
  BY <1>1, LineTyped DEF Ignored, Advance, DataTyped
<1>2. CASE ClassLine
  BY <1>2, LineKeys, TakeData DEF ClassLine, Cats
<1>3. CASE VendorLine
  BY <1>3, LineKeys, TakeData DEF VendorLine, Cats
<1>4. CASE SubsystemLine
  BY <1>4, LineKeys, LineTyped, NothingTyped DEF SubsystemLine, Advance, Refuse, EndLoad, DataTyped
<1>5. CASE UnrecognizedLine
  BY <1>5, LineKeys, LineTyped DEF UnrecognizedLine, Advance, DataTyped
<1>6. CASE DeviceLine
  BY <1>6, LineKeys, TakeData DEF DeviceLine
<1>7. CASE SubsystemDeviceLine
  BY <1>7, LineKeys, TakeData DEF SubsystemDeviceLine
<1>8. CASE SubclassLine
  BY <1>8, LineKeys, TakeData DEF SubclassLine
<1>9. CASE LaterSubclassLine
  BY <1>9, LineKeys, TakeData DEF LaterSubclassLine
<1>10. CASE SubsystemNameLine
  BY <1>10, LineKeys, TakeData DEF SubsystemNameLine
<1>11. CASE ProgIfLine
  BY <1>11, LineKeys, TakeData DEF ProgIfLine
<1>12. CASE LineTooLong \/ Malformed
  BY <1>12, NothingTyped DEF LineTooLong, Malformed, Refuse, EndLoad, DataTyped
<1> QED
  BY <1>1, <1>2, <1>3, <1>4, <1>5, <1>6, <1>7, <1>8, <1>9, <1>10, <1>11, <1>12
     DEF ParseLine

LEMMA StepData == DataTyped /\ [IdsNext]_idsVars => DataTyped'
<1> SUFFICES ASSUME DataTyped, [IdsNext]_idsVars PROVE DataTyped'
  OBVIOUS
<1> USE DEF store, path, parse, idsVars
<1>1. CASE SetIdsFilePath
  BY <1>1 DEF SetIdsFilePath, DataTyped
<1>2. ASSUME NEW q \in Query, Ask(q) PROVE DataTyped'
  BY <1>2 DEF Ask, DataTyped
<1>3. ASSUME NEW f \in Files, Open(f) PROVE DataTyped'
  <2>1. f \in Seq(Lines) /\ KeyOf("unset", 0, 0, 0, SUB_CONFIG) \in Key
    BY FilesAssumption, SubConfigAssumption DEF KeyOf, Key, Cats
  <2> QED
    BY <1>3, <2>1 DEF Open, Resolve, DataTyped
<1>4. CASE PathFails \/ OpenFails
  BY <1>4 DEF PathFails, OpenFails, Resolve, DataTyped
<1>5. CASE ParseLine
  BY <1>5, ParseData
<1>6. CASE Loaded \/ ReadFails
  BY <1>6, NothingTyped DEF Loaded, ReadFails, Refuse, EndLoad, DataTyped
<1>7. CASE Answer \/ FreeIds
  BY <1>7, NothingTyped DEF Answer, FreeIds, DataTyped
<1>8. CASE UNCHANGED idsVars
  BY <1>8 DEF DataTyped
<1> QED
  BY <1>1, <1>2, <1>3, <1>4, <1>5, <1>6, <1>7, <1>8 DEF IdsNext, LookupName

----------------------------------------------------------------------------
ControlTyped ==
  /\ hashed \in BOOLEAN
  /\ idFile \in {"null", "static", "heap"} /\ freeName \in BOOLEAN
  /\ err \in Errors
  /\ db \in {"idle", "open", "parse", "answer", "closed"}

LEMMA StepControl == ControlTyped /\ [IdsNext]_idsVars => ControlTyped'
<1> SUFFICES ASSUME ControlTyped, [IdsNext]_idsVars PROVE ControlTyped'
  OBVIOUS
<1> USE DEF store, path, parse, idsVars, ControlTyped, Errors
<1>1. CASE SetIdsFilePath
  BY <1>1 DEF SetIdsFilePath
<1>2. ASSUME NEW q \in Query, Ask(q) PROVE ControlTyped'
  BY <1>2 DEF Ask
<1>3. ASSUME NEW f \in Files, Open(f) PROVE ControlTyped'
  BY <1>3 DEF Open, Resolve
<1>4. CASE PathFails
  BY <1>4 DEF PathFails
<1>5. CASE OpenFails
  BY <1>5 DEF OpenFails, Resolve
<1>6. CASE Loaded
  BY <1>6 DEF Loaded
<1>7. CASE ReadFails
  BY <1>7 DEF ReadFails, Refuse, EndLoad
<1>8. CASE Answer
  BY <1>8 DEF Answer
<1>9. CASE FreeIds
  BY <1>9 DEF FreeIds
<1>10. CASE ParseLine
  <2>1. ASSUME NEW i, Take(i) PROVE ControlTyped'
    BY <2>1 DEF Take, Insert, InsertFails, Advance, EndLoad
  <2>2. CASE Ignored \/ SubsystemLine \/ UnrecognizedLine
    BY <2>2 DEF Ignored, SubsystemLine, UnrecognizedLine, Advance, Refuse, EndLoad
  <2>3. CASE LineTooLong \/ Malformed
    BY <2>3 DEF LineTooLong, Malformed, Refuse, EndLoad
  <2> QED
    BY <1>10, <2>1, <2>2, <2>3
       DEF ParseLine, ClassLine, VendorLine, DeviceLine, SubsystemDeviceLine,
           SubclassLine, LaterSubclassLine, SubsystemNameLine, ProgIfLine
<1>11. CASE UNCHANGED idsVars
  BY <1>11
<1> QED
  BY <1>1, <1>2, <1>3, <1>4, <1>5, <1>6, <1>7, <1>8, <1>9, <1>10, <1>11
     DEF IdsNext, LookupName

LEMMA IdsInvariant == IdsSpec => [](DataTyped /\ ControlTyped)
<1>1. IdsInit => ControlTyped
  BY DEF IdsInit, ControlTyped, Errors
<1> QED
  BY <1>1, InitData, StepData, StepControl, PTL DEF IdsSpec

(* Every variable of the database has its type in every state.              *)
THEOREM DatabaseTyped == IdsSpec => []IdsTyped
<1>1. DataTyped /\ ControlTyped => IdsTyped
  BY DEF DataTyped, ControlTyped, IdsTyped, Entries
<1> QED
  BY <1>1, IdsInvariant, PTL

----------------------------------------------------------------------------
(* The memory of the path.                                                  *)

LEMMA FreedWhenOwned == PathOwned => heap - Freed = 0
  BY DEF PathOwned, Freed

LEMMA StepPath == ControlTyped /\ PathOwned /\ [IdsNext]_idsVars => PathOwned'
<1> SUFFICES ASSUME ControlTyped, PathOwned, [IdsNext]_idsVars PROVE PathOwned'
  OBVIOUS
<1> USE DEF path
<1>1. CASE SetIdsFilePath
  <2>1. heap' = 0 /\ freeName' = FALSE /\ idFile' = "static"
    BY <1>1, FreedWhenOwned DEF SetIdsFilePath
  <2> QED
    BY <2>1 DEF PathOwned, Freed
<1>2. ASSUME Resolve, db' # "closed" PROVE PathOwned'
  <2>1. CASE idFile = "null"
    <3>1. idFile' = "static" /\ freeName' = freeName /\ heap' = heap /\ ~freeName
      BY <1>2, <2>1 DEF Resolve, PathOwned
    <3> QED
      BY <1>2, <3>1 DEF PathOwned, Freed
  <2>2. CASE idFile # "null"
    <3>1. idFile' = "heap" /\ freeName' = TRUE /\ heap' = heap + 1 - Freed
      BY <1>2, <2>2 DEF Resolve
    <3>2. heap = Freed /\ Freed \in {0, 1}
      BY DEF PathOwned, Freed
    <3>3. heap' = 1
      BY <3>1, <3>2
    <3> QED
      BY <1>2, <3>1, <3>3 DEF PathOwned, Freed
  <2> QED
    BY <2>1, <2>2
<1>3. CASE FreeIds
  <2>1. heap' = 0 /\ freeName' = FALSE /\ idFile' # "heap"
    BY <1>3, FreedWhenOwned DEF FreeIds, PathOwned
  <2> QED
    BY <2>1 DEF PathOwned, Freed
<1>4. ASSUME UNCHANGED path, db' # "closed" \/ db' = db PROVE PathOwned'
  BY <1>4 DEF PathOwned, Freed
<1>5. CASE \/ \E q \in Query : Ask(q)
           \/ PathFails \/ ParseLine \/ Loaded \/ ReadFails \/ Answer
           \/ UNCHANGED idsVars
  <2>1. ASSUME NEW i, Take(i), db = "parse" PROVE UNCHANGED path /\ db' # "closed"
    BY <2>1 DEF Take, Insert, InsertFails, Advance, EndLoad
  <2>2. ParseLine => UNCHANGED path /\ db' # "closed"
    BY <2>1 DEF ParseLine, Ignored, ClassLine, VendorLine, SubsystemLine, UnrecognizedLine,
                DeviceLine, SubsystemDeviceLine, SubclassLine, LaterSubclassLine,
                SubsystemNameLine, ProgIfLine, LineTooLong, Malformed, Reading,
                Advance, Refuse, EndLoad
  <2>3. UNCHANGED path /\ (db' # "closed" \/ db' = db)
    BY <1>5, <2>2 DEF Ask, PathFails, Loaded, ReadFails, Refuse, EndLoad, Answer, idsVars
  <2> QED
    BY <1>4, <2>3
<1>6. CASE \/ \E f \in Files : Open(f)
           \/ OpenFails
  BY <1>2, <1>6 DEF Open, OpenFails
<1> QED
  BY <1>1, <1>3, <1>5, <1>6 DEF IdsNext, LookupName

(* What realpath returned is owned once and freed once, however often a     *)
(* load is tried and a path replaced, and none of it outlives the cleanup.  *)
THEOREM PathFreedOnce == IdsSpec => []PathOwned
<1>1. IdsInit => PathOwned
  BY DEF IdsInit, PathOwned, Freed
<1> QED
  BY <1>1, IdsInvariant, StepPath, PTL DEF IdsSpec

----------------------------------------------------------------------------
(* What a step does to the table and to the answers.                        *)

AddsEntry(i, nm) == table' = <<[key |-> i, name |-> nm]>> \o table

LEMMA TakeSteps ==
  ASSUME DataTyped, Reading, NEW i \in Key, Take(i)
  PROVE  /\ hashed' \in {hashed, TRUE} /\ db' \in {"parse", "answer"}
         /\ UNCHANGED <<shown, asked>>
         /\ \/ UNCHANGED table
            \/ hashed' = TRUE /\ \E nm \in STRING : AddsEntry(i, nm)
<1>1. Line.name \in STRING /\ db = "parse"
  BY LineTyped DEF Lines, Reading
<1> QED
  BY <1>1 DEF Take, Insert, InsertFails, Advance, EndLoad, AddsEntry

LEMMA ParseSteps ==
  ASSUME DataTyped, ParseLine
  PROVE  /\ db = "parse" /\ hashed' \in {hashed, TRUE} /\ db' \in {"parse", "answer"}
         /\ UNCHANGED <<shown, asked>>
         /\ \/ UNCHANGED table
            \/ hashed' = TRUE /\ \E i \in Key, nm \in STRING : AddsEntry(i, nm)
<1>1. ASSUME NEW i \in Key, Reading, Take(i)
      PROVE  /\ db = "parse" /\ hashed' \in {hashed, TRUE} /\ db' \in {"parse", "answer"}
             /\ UNCHANGED <<shown, asked>>
             /\ \/ UNCHANGED table
                \/ hashed' = TRUE /\ \E j \in Key, nm \in STRING : AddsEntry(j, nm)
  BY <1>1, TakeSteps DEF Reading
<1>2. CASE Ignored \/ SubsystemLine \/ UnrecognizedLine \/ LineTooLong \/ Malformed
  BY <1>2 DEF Ignored, SubsystemLine, UnrecognizedLine, LineTooLong, Malformed,
              Reading, Advance, Refuse, EndLoad, store
<1>3. CASE ClassLine \/ VendorLine
  <2>1. "class" \in Cats /\ "vendor" \in Cats
    BY DEF Cats
  <2>2. CASE ClassLine
    BY <1>1, <2>1, <2>2, LineKeys DEF ClassLine
  <2>3. CASE VendorLine
    BY <1>1, <2>1, <2>3, LineKeys DEF VendorLine
  <2> QED
    BY <1>3, <2>2, <2>3
<1>4. CASE DeviceLine
  BY <1>1, <1>4, LineKeys DEF DeviceLine
<1>5. CASE SubsystemDeviceLine
  BY <1>1, <1>5, LineKeys DEF SubsystemDeviceLine
<1>6. CASE SubclassLine
  BY <1>1, <1>6, LineKeys DEF SubclassLine
<1>7. CASE LaterSubclassLine
  BY <1>1, <1>7, LineKeys DEF LaterSubclassLine
<1>8. CASE SubsystemNameLine
  BY <1>1, <1>8, LineKeys DEF SubsystemNameLine
<1>9. CASE ProgIfLine
  BY <1>1, <1>9, LineKeys DEF ProgIfLine
<1> QED
  BY <1>2, <1>3, <1>4, <1>5, <1>6, <1>7, <1>8, <1>9 DEF ParseLine

(* The answers are a sequence, and a query is one of Query.                 *)
Asking ==
  /\ \E S : shown \in Seq(S)
  /\ db \in {"open", "parse", "answer"} => asked \in Query

LEMMA AppendAny ==
  ASSUME NEW s, \E S : s \in Seq(S), NEW e
  PROVE  /\ \E S : Append(s, e) \in Seq(S)
         /\ Len(s) \in Nat /\ DOMAIN s = 1 .. Len(s)
         /\ DOMAIN Append(s, e) = 1 .. Len(s) + 1
         /\ \A n \in 1 .. Len(s) : Append(s, e)[n] = s[n]
         /\ Append(s, e)[Len(s) + 1] = e
<1>1. PICK S : s \in Seq(S)
  OBVIOUS
<1>2. s \in Seq(S \cup {e})
  BY <1>1
<1> QED
  BY <1>2, AppendProperties

LEMMA StepAsking == DataTyped /\ Asking /\ [IdsNext]_idsVars => Asking'
<1> SUFFICES ASSUME DataTyped, Asking, [IdsNext]_idsVars PROVE Asking'
  OBVIOUS
<1>1. CASE Answer
  <2>1. PICK e : shown' = Append(shown, e) /\ db' = "idle"
    BY <1>1 DEF Answer
  <2> QED
    BY <2>1, AppendAny DEF Asking
<1>2. CASE ParseLine
  BY <1>2, ParseSteps DEF Asking
<1>3. CASE \/ SetIdsFilePath \/ FreeIds \/ PathFails \/ OpenFails \/ Loaded \/ ReadFails
           \/ \E q \in Query : Ask(q)
           \/ \E f \in Files : Open(f)
           \/ UNCHANGED idsVars
  BY <1>3 DEF Asking, SetIdsFilePath, FreeIds, PathFails, OpenFails, Loaded, ReadFails,
              Ask, Open, Refuse, EndLoad, parse, idsVars
<1> QED
  BY <1>1, <1>2, <1>3 DEF IdsNext, LookupName

LEMMA AskingInvariant == IdsSpec => [](DataTyped /\ ControlTyped /\ Asking)
<1>1. IdsInit => Asking
  <2>1. <<>> \in Seq({})
    OBVIOUS
  <2> QED
    BY <2>1 DEF IdsInit, Asking
<1> QED
  BY <1>1, StepAsking, IdsInvariant, PTL DEF IdsSpec

----------------------------------------------------------------------------
(* Stable answers.  No name is found before something has been entered, and *)
(* once something has been no file is opened.                               *)

NothingFound == FormatNamePair(NotFound, NotFound, NotFound, NotFound)

Settled ==
  /\ ~hashed => table = <<>>
  /\ db = "open" => ~hashed
  /\ db = "parse" => \A n \in DOMAIN shown : shown[n].answer = NothingFound
  /\ db \in {"idle", "open", "answer"} =>
       \A n \in DOMAIN shown :
         shown[n].answer # NothingFound => shown[n].answer = NameOf(shown[n].query)
  /\ AnswersStable

LEMMA EmptyTableNamesNothing ==
  ASSUME table = <<>> PROVE \A q : NameOf(q) = NothingFound
<1>1. \A k : Lookup(k) = NotFound
  BY DEF Lookup, Matches
<1> QED
  BY <1>1 DEF NameOf, NothingFound

LEMMA SameTableSameName ==
  ASSUME UNCHANGED table PROVE \A q : NameOf(q)' = NameOf(q)
  BY DEF NameOf, Lookup, Matches

LEMMA StepSettled ==
  DataTyped /\ Asking /\ Settled /\ [IdsNext]_idsVars => Settled'
<1> SUFFICES ASSUME DataTyped, Asking, Settled, [IdsNext]_idsVars PROVE Settled'
  OBVIOUS
<1> USE DEF store
<1>1. UNCHANGED shown => AnswersStable'
  BY DEF Settled, AnswersStable
<1>2. CASE Answer
  <2>1. /\ db = "answer" /\ db' = "idle" /\ UNCHANGED <<table, hashed>>
        /\ shown' = Append(shown, [query |-> asked, answer |-> NameOf(asked)])
    BY <1>2 DEF Answer
  <2> DEFINE e == [query |-> asked, answer |-> NameOf(asked)]
             last == Len(shown) + 1
  <2>2. /\ DOMAIN shown' = 1 .. last /\ shown'[last] = e
        /\ \A n \in 1 .. Len(shown) : shown'[n] = shown[n]
        /\ Len(shown) \in Nat /\ DOMAIN shown = 1 .. Len(shown)
    BY <2>1, AppendAny DEF Asking
  <2>3. \A n \in DOMAIN shown' :
          shown'[n].answer # NothingFound => shown'[n].answer = NameOf(shown'[n].query)
    <3>1. ASSUME NEW n \in 1 .. Len(shown), shown'[n].answer # NothingFound
          PROVE  shown'[n].answer = NameOf(shown'[n].query)
      BY <2>1, <2>2, <3>1 DEF Settled
    <3>2. shown'[last].answer = NameOf(shown'[last].query)
      BY <2>2
    <3>3. \A n \in 1 .. last : n \in 1 .. Len(shown) \/ n = last
      BY <2>2
    <3> QED
      BY <2>2, <3>1, <3>2, <3>3
  <2>4. \A q : NameOf(q)' = NameOf(q)
    BY <2>1, SameTableSameName
  <2> HIDE DEF e
  <2>5. AnswersStable'
    <3> SUFFICES ASSUME NEW m \in 1 .. last, NEW n \in 1 .. last, m < n,
                        shown'[m].query = shown'[n].query, shown'[m].answer # NothingFound
                 PROVE  shown'[m].answer = shown'[n].answer
      BY <2>2 DEF AnswersStable, NothingFound
    <3>1. m \in 1 .. Len(shown)
      BY <2>2
    <3>2. CASE n = last
      BY <2>2, <2>3, <3>2 DEF e
    <3>3. CASE n # last
      <4>1. n \in 1 .. Len(shown)
        BY <2>2, <3>3
      <4> QED
        BY <2>2, <3>1, <4>1 DEF Settled, AnswersStable, NothingFound
    <3> QED
      BY <3>2, <3>3
  <2>6. (\A n \in DOMAIN shown :
           shown[n].answer # NothingFound => shown[n].answer = NameOf(shown[n].query))'
    BY <2>3, <2>4 DEF NothingFound
  <2>7. ~hashed' => table' = <<>>
    BY <2>1 DEF Settled
  <2> QED
    BY <2>1, <2>5, <2>6, <2>7, Zenon DEF Settled
<1>3. CASE ParseLine
  <2>1. /\ db = "parse" /\ db' \in {"parse", "answer"} /\ UNCHANGED shown
        /\ hashed' \in {hashed, TRUE} /\ (UNCHANGED table \/ hashed' = TRUE)
    BY <1>3, ParseSteps
  <2>2. ~hashed' => table' = <<>>
    <3>1. ~hashed' => ~hashed /\ table' = table
      BY <2>1, Zenon
    <3> QED
      BY <3>1 DEF Settled
  <2>3. \A n \in DOMAIN shown' : shown'[n].answer = NothingFound
    BY <2>1 DEF Settled
  <2> QED
    BY <1>1, <2>1, <2>2, <2>3 DEF Settled
<1>4. ASSUME NEW f \in Files, Open(f) PROVE Settled'
  <2>1. db = "open" /\ db' = "parse" /\ UNCHANGED <<table, hashed, shown>>
    BY <1>4 DEF Open
  <2>2. \A n \in DOMAIN shown : shown[n].answer = NothingFound
    BY <2>1, EmptyTableNamesNothing DEF Settled
  <2> QED
    BY <1>1, <2>1, <2>2 DEF Settled
<1>5. CASE Loaded \/ ReadFails
  <2>1. db = "parse" /\ db' = "answer" /\ UNCHANGED <<table, hashed, shown>>
    BY <1>5 DEF Loaded, ReadFails, Refuse, EndLoad
  <2> QED
    BY <1>1, <2>1 DEF Settled
<1>6. CASE \/ SetIdsFilePath \/ PathFails \/ OpenFails
           \/ \E q \in Query : Ask(q)
           \/ UNCHANGED idsVars
  <2>1. /\ UNCHANGED <<table, hashed, shown>>
        /\ \/ db \in {"idle", "open"} /\ db' \in {"idle", "open", "answer"}
              /\ (db' = "open" => ~hashed)
           \/ db' = db
    BY <1>6 DEF SetIdsFilePath, PathFails, OpenFails, Ask, MustLoad, idsVars
  <2>2. \A q : NameOf(q)' = NameOf(q)
    BY <2>1, SameTableSameName
  <2> QED
    BY <1>1, <2>1, <2>2 DEF Settled
<1>7. CASE FreeIds
  <2>1. table' = <<>> /\ hashed' = FALSE /\ db' = "closed" /\ UNCHANGED shown
    BY <1>7 DEF FreeIds
  <2> QED
    BY <1>1, <2>1 DEF Settled
<1> QED
  BY <1>2, <1>3, <1>4, <1>5, <1>6, <1>7 DEF IdsNext, LookupName

(* Once a name has been found, asking again gives the same name, whatever   *)
(* has been done to the file in the meantime.                               *)
THEOREM AnswersStayTheSame == IdsSpec => []AnswersStable
<1>1. IdsInit => Settled
  BY DEF IdsInit, Settled, AnswersStable
<1>2. Settled => AnswersStable
  BY DEF Settled
<1> QED
  BY <1>1, <1>2, AskingInvariant, StepSettled, PTL DEF IdsSpec
----------------------------------------------------------------------------
(* The chains are a map.  An entry is put in front, so that Lookup finds it *)
(* for its own key, and for every other key what it found before.           *)

Entered == {table[n].key : n \in DOMAIN table}

LEMMA LookupElsewhere ==
  ASSUME DataTyped, NEW i \in Key, NEW nm \in STRING, AddsEntry(i, nm), NEW k, k # i
  PROVE  Lookup(k)' = Lookup(k)
<1> DEFINE e == [key |-> i, name |-> nm]
           N == Len(table)
<1>1. N \in Nat /\ DOMAIN table = 1 .. N
  BY DEF DataTyped
<1>2. /\ DOMAIN table' = 1 .. N + 1
      /\ table'[1] = e
      /\ \A n \in 1 .. N : table'[n + 1] = table[n]
  <2>1. table \in Seq(Entries) /\ e \in Entries
    BY DEF DataTyped, Entries
  <2> HIDE DEF e
  <2> QED
    BY <2>1, Prepend DEF AddsEntry, e
<1>3. e.key # k
  OBVIOUS
<1> HIDE DEF e, N
<1>4. \A n \in Matches(k) : n + 1 \in Matches(k)' /\ table'[n + 1] = table[n]
  BY <1>1, <1>2 DEF Matches
<1>5. \A n \in Matches(k)' : n - 1 \in Matches(k)
  <2> SUFFICES ASSUME NEW n \in Matches(k)' PROVE n - 1 \in Matches(k)
    OBVIOUS
  <2>1. n \in 1 .. N + 1 /\ table'[n].key = k
    BY <1>2 DEF Matches
  <2>2. n - 1 \in 1 .. N
    BY <1>1, <1>2, <1>3, <2>1
  <2>3. table'[(n - 1) + 1] = table[n - 1]
    BY <1>2, <2>2
  <2>4. (n - 1) + 1 = n
    BY <1>1, <2>1
  <2> QED
    BY <1>1, <2>1, <2>2, <2>3, <2>4 DEF Matches
<1>6. Matches(k) \subseteq Nat /\ Matches(k)' \subseteq Nat
  BY <1>1, <1>2 DEF Matches
<1>7. CASE Matches(k) = {}
  <2>1. Matches(k)' = {}
    BY <1>5, <1>7
  <2> QED
    BY <1>7, <2>1 DEF Lookup
<1>8. CASE Matches(k) # {}
  <2>1. PICK n \in Matches(k) : \A m \in Matches(k) : n <= m
    BY <1>6, <1>8, LeastMember
  <2>2. Lookup(k) = table[n].name
    <3>1. (CHOOSE x \in Matches(k) : \A m \in Matches(k) : x <= m) = n
      BY <1>6, <2>1, LeastChosen
    <3> QED
      BY <1>8, <3>1 DEF Lookup
  <2>3. n + 1 \in Matches(k)' /\ \A m \in Matches(k)' : n + 1 <= m
    <3> SUFFICES ASSUME NEW m \in Matches(k)' PROVE n + 1 <= m
      BY <1>4
    <3>1. n <= m - 1 /\ m \in Nat /\ n \in Nat
      BY <1>5, <1>6, <2>1
    <3> QED
      BY <3>1
  <2>4. Lookup(k)' = table'[n + 1].name
    <3> DEFINE S == Matches(k)'
    <3>1. S \in SUBSET Nat /\ n + 1 \in S /\ \A m \in S : n + 1 <= m
      BY <1>6, <2>3
    <3> HIDE DEF S
    <3>2. (CHOOSE x \in S : \A m \in S : x <= m) = n + 1
      BY <3>1, LeastChosen
    <3>3. S # {}
      BY <3>1
    <3> QED
      BY <3>2, <3>3 DEF Lookup, S
  <2> QED
    BY <1>4, <2>1, <2>2, <2>4
<1> QED
  BY <1>7, <1>8

LEMMA EnteredGrows ==
  ASSUME DataTyped, NEW i \in Key, NEW nm \in STRING, AddsEntry(i, nm)
  PROVE  Entered' = Entered \cup {i}
<1> DEFINE e == [key |-> i, name |-> nm]
           N == Len(table)
<1>1. N \in Nat /\ DOMAIN table = 1 .. N
  BY DEF DataTyped
<1>2. /\ DOMAIN table' = 1 .. N + 1
      /\ table'[1] = e
      /\ \A n \in 1 .. N : table'[n + 1] = table[n]
  <2>1. table \in Seq(Entries) /\ e \in Entries
    BY DEF DataTyped, Entries
  <2> HIDE DEF e
  <2> QED
    BY <2>1, Prepend DEF AddsEntry, e
<1>3. e.key = i
  OBVIOUS
<1> HIDE DEF e, N
<1>4. \A k \in Entered : k \in Entered'
  <2> SUFFICES ASSUME NEW n \in 1 .. N PROVE table[n].key \in Entered'
    BY <1>1 DEF Entered
  <2>1. n + 1 \in 1 .. N + 1 /\ table'[n + 1] = table[n]
    BY <1>1, <1>2
  <2> QED
    BY <1>2, <2>1 DEF Entered
<1>5. i \in Entered'
  <2>1. 1 \in 1 .. N + 1
    BY <1>1
  <2> QED
    BY <1>2, <1>3, <2>1 DEF Entered
<1>6. \A k \in Entered' : k \in Entered \cup {i}
  <2> SUFFICES ASSUME NEW n \in 1 .. N + 1 PROVE table'[n].key \in Entered \cup {i}
    BY <1>2 DEF Entered
  <2>1. CASE n = 1
    BY <1>2, <1>3, <2>1
  <2>2. CASE n # 1
    <3>1. n - 1 \in 1 .. N /\ (n - 1) + 1 = n
      BY <1>1, <2>2
    <3>2. table'[n] = table[n - 1]
      BY <1>2, <3>1
    <3> QED
      BY <1>1, <3>1, <3>2 DEF Entered
  <2> QED
    BY <2>1, <2>2
<1> QED
  BY <1>4, <1>5, <1>6

LEMMA NameEntered ==
  ASSUME DataTyped, NEW i \in Key, NEW nm \in STRING, AddsEntry(i, nm)
  PROVE  /\ i \in DOMAIN Names'
         /\ Names' = [x \in DOMAIN Names \cup {i} |-> IF x = i THEN Names'[i] ELSE Names[x]]
<1>1. /\ Names = [k \in Entered |-> Lookup(k)]
      /\ Names' = [k \in Entered' |-> Lookup(k)']
  BY DEF Names, Entered
<1>2. Entered' = Entered \cup {i}
  BY EnteredGrows
<1>3. \A k \in Entered : k # i => Lookup(k)' = Lookup(k)
  BY LookupElsewhere
<1> HIDE DEF Names, Entered
<1>4. \A k \in Entered \cup {i} : Names'[k] = IF k = i THEN Names'[i] ELSE Names[k]
  BY <1>1, <1>2, <1>3
<1> QED
  BY <1>1, <1>2, <1>4

LEMMA AnswerFromMap == \A q : Answered(Names, q) = NameOf(q)
<1>1. ASSUME NEW k PROVE Get(Names, k) = Lookup(k)
  <2>1. CASE k \in Entered
    BY <2>1 DEF Get, Names, Entered
  <2>2. CASE k \notin Entered
    <3>1. Matches(k) = {}
      BY <2>2 DEF Matches, Entered
    <3> QED
      BY <2>2, <3>1 DEF Get, Names, Entered, Lookup
  <2> QED
    BY <2>1, <2>2
<1> QED
  BY <1>1 DEF Answered, NameOf

LEMMA EmptyTableIsEmptyMap == table = <<>> => Names = Map!NoNames
  BY DEF Names, Map!NoNames

LEMMA StepMaps ==
  DataTyped /\ Asking /\ [IdsNext]_idsVars => [Map!Next]_<<Names, shown>>
<1> SUFFICES ASSUME DataTyped, Asking, [IdsNext]_idsVars PROVE [Map!Next]_<<Names, shown>>
  OBVIOUS
<1>1. UNCHANGED table => UNCHANGED Names
  BY DEF Names, Lookup, Matches
<1>2. CASE Answer
  <2>1. asked \in Query
    BY <1>2 DEF Answer, Asking
  <2>2. Map!Answer(asked)
    BY <1>1, <1>2, AnswerFromMap DEF Answer, Map!Answer, store
  <2> QED
    BY <2>1, <2>2 DEF Map!Next
<1>3. CASE FreeIds
  <2>1. Names' = Map!NoNames
    <3>1. table' = <<>>
      BY <1>3 DEF FreeIds
    <3> QED
      BY <3>1 DEF Names, Map!NoNames
  <2> QED
    BY <1>3, <2>1 DEF FreeIds, Map!Next, Map!Forget
<1>4. CASE ParseLine
  <2>1. UNCHANGED shown
    BY <1>4, ParseSteps
  <2>2. CASE UNCHANGED table
    BY <1>1, <2>1, <2>2
  <2>3. ASSUME NEW i \in Key, NEW nm \in STRING, AddsEntry(i, nm) PROVE Map!Next
    <3>1. i \in DOMAIN Names' /\ Map!Enter(i)
      BY <2>1, <2>3, NameEntered DEF Map!Enter
    <3> QED
      BY <3>1 DEF Map!Next
  <2> QED
    BY <1>4, <2>2, <2>3, ParseSteps
<1>5. CASE \/ SetIdsFilePath \/ PathFails \/ OpenFails \/ Loaded \/ ReadFails
           \/ \E q \in Query : Ask(q)
           \/ \E f \in Files : Open(f)
           \/ UNCHANGED idsVars
  <2>1. UNCHANGED table /\ UNCHANGED shown
    BY <1>5 DEF SetIdsFilePath, PathFails, OpenFails, Loaded, ReadFails, Ask, Open,
                Refuse, EndLoad, store, idsVars
  <2> QED
    BY <1>1, <2>1
<1> QED
  BY <1>2, <1>3, <1>4, <1>5 DEF IdsNext, LookupName

(* The database implements the map of NameMap: an item entered later hides  *)
(* the one before it, no name is lost before the cleanup, and every answer  *)
(* is what the map holds at that moment.                                    *)
THEOREM DatabaseIsMap == IdsSpec => MapSpec
<1>1. IdsInit => Map!Init
  BY EmptyTableIsEmptyMap DEF IdsInit, Map!Init
<1> QED
  BY <1>1, AskingInvariant, StepMaps, PTL DEF IdsSpec, MapSpec, Map!Spec

----------------------------------------------------------------------------
(* Names follow the file.  What a file says of a number, and what one more  *)
(* line adds to that.                                                       *)

TopName(f, tag, id) == LastName(f, At(f, 0, tag, id))

NestedName(f, tag, id, top, above) ==
  LastName(f, {n \in At(f, 1, tag, id) : In(f, n, top, above)})

LEMMA GreatestMember ==
  ASSUME NEW S \in SUBSET Nat, S # {}, NEW N \in Nat, \A m \in S : m <= N
  PROVE  \E n \in S : \A m \in S : m <= n
<1> DEFINE T == {N - m : m \in S}
<1>1. T \in SUBSET Nat /\ T # {}
  <2>1. \A m \in S : N - m \in Nat
    OBVIOUS
  <2>2. PICK m \in S : TRUE
    OBVIOUS
  <2>3. N - m \in T
    OBVIOUS
  <2> QED
    BY <2>1, <2>3
<1> HIDE DEF T
<1>2. PICK d \in T : \A e \in T : d <= e
  BY <1>1, LeastMember
<1>3. PICK n \in S : d = N - n
  BY DEF T
<1>4. ASSUME NEW m \in S PROVE m <= n
  <2>1. N - m \in T
    BY DEF T
  <2>2. d <= N - m /\ m \in Nat /\ n \in Nat
    BY <1>2, <2>1
  <2> QED
    BY <1>3, <2>2
<1> QED
  BY <1>4

LEMMA GreatestChosen ==
  ASSUME NEW S \in SUBSET Nat, NEW n \in S, \A m \in S : m <= n
  PROVE  (CHOOSE x \in S : \A m \in S : m <= x) = n
<1> DEFINE c == CHOOSE x \in S : \A m \in S : m <= x
<1>1. c \in S /\ \A m \in S : m <= c
  OBVIOUS
<1> HIDE DEF c
<1>2. c <= n /\ n <= c /\ c \in Nat /\ n \in Nat
  BY <1>1
<1>3. c = n
  BY <1>2
<1> QED
  BY <1>3 DEF c

LEMMA OneMore ==
  ASSUME NEW f \in Seq(Lines), NEW l \in Lines
  PROVE  /\ Len(f) \in Nat /\ DOMAIN f = 1 .. Len(f)
         /\ Append(f, l) \in Seq(Lines) /\ Len(Append(f, l)) = Len(f) + 1
         /\ DOMAIN Append(f, l) = 1 .. Len(f) + 1
         /\ Append(f, l)[Len(f) + 1] = l
         /\ \A n \in 1 .. Len(f) : Append(f, l)[n] = f[n]
  BY AppendProperties

LEMMA LastOfMore ==
  ASSUME NEW f \in Seq(Lines), NEW l \in Lines, NEW S \in SUBSET (1 .. Len(f))
  PROVE  /\ LastName(Append(f, l), S) = LastName(f, S)
         /\ LastName(Append(f, l), S \cup {Len(f) + 1}) = l.name
<1> DEFINE g == Append(f, l)
<1>1. PICK N \in Nat : N = Len(f)
  BY OneMore
<1>2. S \in SUBSET Nat /\ \A n \in S : n <= N
  BY <1>1
<1>3. g[N + 1] = l /\ \A n \in S : g[n] = f[n]
  BY <1>1, OneMore
<1> HIDE DEF g
<1>4. LastName(g, S) = LastName(f, S)
  <2>1. CASE S = {}
    BY <2>1 DEF LastName
  <2>2. CASE S # {}
    <3>1. PICK n \in S : \A m \in S : m <= n
      BY <1>2, <2>2, GreatestMember
    <3>2. (CHOOSE x \in S : \A m \in S : m <= x) = n
      BY <1>2, <3>1, GreatestChosen
    <3>3. LastName(g, S) = g[n].name /\ LastName(f, S) = f[n].name
      BY <2>2, <3>2 DEF LastName
    <3> QED
      BY <1>3, <3>3
  <2> QED
    BY <2>1, <2>2
<1>5. LastName(g, S \cup {N + 1}) = l.name
  <2> DEFINE R == S \cup {N + 1}
  <2>1. R \in SUBSET Nat /\ N + 1 \in R /\ R # {} /\ \A m \in R : m <= N + 1
    BY <1>2
  <2> HIDE DEF R
  <2>2. (CHOOSE x \in R : \A m \in R : m <= x) = N + 1
    BY <2>1, GreatestChosen
  <2>3. LastName(g, R) = l.name
    BY <1>3, <2>1, <2>2 DEF LastName
  <2> QED
    BY <2>3 DEF R
<1> QED
  BY <1>1, <1>4, <1>5 DEF g

LEMMA AtMore ==
  ASSUME NEW f \in Seq(Lines), NEW l \in Lines, NEW nest, NEW tag, NEW id
  PROVE  /\ At(f, nest, tag, id) \subseteq 1 .. Len(f)
         /\ At(Append(f, l), nest, tag, id) =
              IF l.nest = nest /\ l.tag = tag /\ l.id = id
              THEN At(f, nest, tag, id) \cup {Len(f) + 1}
              ELSE At(f, nest, tag, id)
<1> DEFINE g == Append(f, l)
<1>1. PICK N \in Nat : N = Len(f)
  BY OneMore
<1>2. /\ DOMAIN f = 1 .. N /\ DOMAIN g = 1 .. N + 1
      /\ g[N + 1] = l /\ \A n \in 1 .. N : g[n] = f[n]
  BY <1>1, OneMore
<1> HIDE DEF g
<1>3. 1 .. N + 1 = (1 .. N) \cup {N + 1} /\ N + 1 \notin 1 .. N
  OBVIOUS
<1>4. At(g, nest, tag, id) =
        IF l.nest = nest /\ l.tag = tag /\ l.id = id
        THEN At(f, nest, tag, id) \cup {N + 1}
        ELSE At(f, nest, tag, id)
  BY <1>2, <1>3 DEF At
<1> QED
  BY <1>1, <1>2, <1>4 DEF At, g

(* A top-level line begins a block; any other, and a comment, continues it. *)
Begins(l) == l.nest = 0 /\ l.tag # "#"

LEMMA InMore ==
  ASSUME NEW f \in Seq(Lines), NEW l \in Lines, NEW tag, tag # "#", NEW id
  PROVE  /\ \A n \in 1 .. Len(f) + 1 : In(Append(f, l), n, tag, id) <=> In(f, n, tag, id)
         /\ In(Append(f, l), Len(f) + 2, tag, id) <=>
              IF Begins(l) THEN l.tag = tag /\ l.id = id
              ELSE In(f, Len(f) + 1, tag, id)
<1> DEFINE g == Append(f, l)
<1>1. PICK N \in Nat : N = Len(f)
  BY OneMore
<1>2. g[N + 1] = l /\ \A n \in 1 .. N : g[n] = f[n]
  BY <1>1, OneMore
<1> HIDE DEF g
<1>3. ASSUME NEW n \in 1 .. N + 1
      PROVE  In(g, n, tag, id) <=> In(f, n, tag, id)
  <2>1. \A m \in 1 .. n - 1 : g[m] = f[m] /\ \A k \in m + 1 .. n - 1 : g[k] = f[k]
    BY <1>2
  <2> QED
    BY <2>1 DEF In
<1>4. CASE Begins(l)
  <2>1. ASSUME In(g, N + 2, tag, id) PROVE l.tag = tag /\ l.id = id
    <3>1. PICK m \in 1 .. (N + 2) - 1 :
            /\ g[m].nest = 0 /\ g[m].tag = tag /\ g[m].id = id
            /\ \A k \in m + 1 .. (N + 2) - 1 : g[k].nest = 0 => g[k].tag = "#"
      BY <2>1 DEF In
    <3>2. CASE m = N + 1
      BY <1>2, <3>1, <3>2
    <3>3. CASE m # N + 1
      <4>1. N + 1 \in m + 1 .. (N + 2) - 1
        BY <3>3
      <4> QED
        BY <1>2, <1>4, <3>1, <4>1 DEF Begins
    <3> QED
      BY <3>2, <3>3
  <2>2. ASSUME l.tag = tag, l.id = id PROVE In(g, N + 2, tag, id)
    <3>1. N + 1 \in 1 .. (N + 2) - 1 /\ (N + 1) + 1 .. (N + 2) - 1 = {}
      OBVIOUS
    <3> QED
      BY <1>2, <1>4, <2>2, <3>1 DEF In, Begins
  <2> QED
    BY <1>1, <1>3, <1>4, <2>1, <2>2 DEF g
<1>5. CASE ~ Begins(l)
  <2>1. ASSUME In(g, N + 2, tag, id) PROVE In(f, N + 1, tag, id)
    <3>1. PICK m \in 1 .. (N + 2) - 1 :
            /\ g[m].nest = 0 /\ g[m].tag = tag /\ g[m].id = id
            /\ \A k \in m + 1 .. (N + 2) - 1 : g[k].nest = 0 => g[k].tag = "#"
      BY <2>1 DEF In
    <3>2. m # N + 1
      BY <1>2, <1>5, <3>1 DEF Begins
    <3>3. m \in 1 .. (N + 1) - 1 /\ g[m] = f[m]
      BY <1>2, <3>2
    <3>4. ASSUME NEW k \in m + 1 .. (N + 1) - 1, f[k].nest = 0 PROVE f[k].tag = "#"
      <4>1. k \in 1 .. N /\ k \in m + 1 .. (N + 2) - 1
        BY <3>3
      <4> QED
        BY <1>2, <3>1, <3>4, <4>1
    <3> QED
      BY <3>1, <3>3, <3>4 DEF In
  <2>2. ASSUME In(f, N + 1, tag, id) PROVE In(g, N + 2, tag, id)
    <3>1. PICK m \in 1 .. (N + 1) - 1 :
            /\ f[m].nest = 0 /\ f[m].tag = tag /\ f[m].id = id
            /\ \A k \in m + 1 .. (N + 1) - 1 : f[k].nest = 0 => f[k].tag = "#"
      BY <2>2 DEF In
    <3>2. m \in 1 .. (N + 2) - 1 /\ m \in 1 .. N
      OBVIOUS
    <3>3. ASSUME NEW k \in m + 1 .. (N + 2) - 1, g[k].nest = 0 PROVE g[k].tag = "#"
      <4>1. CASE k = N + 1
        BY <1>2, <1>5, <3>3, <4>1 DEF Begins
      <4>2. CASE k # N + 1
        <5>1. k \in m + 1 .. (N + 1) - 1 /\ k \in 1 .. N
          BY <3>2, <4>2
        <5> QED
          BY <1>2, <3>1, <3>3, <5>1
      <4> QED
        BY <4>1, <4>2
    <3> QED
      BY <1>2, <3>1, <3>2, <3>3 DEF In
  <2> QED
    BY <1>1, <1>3, <1>5, <2>1, <2>2 DEF g
<1> QED
  BY <1>4, <1>5

LEMMA TopNameMore ==
  ASSUME NEW f \in Seq(Lines), NEW l \in Lines, NEW tag, NEW id
  PROVE  TopName(Append(f, l), tag, id) =
           IF l.nest = 0 /\ l.tag = tag /\ l.id = id THEN l.name ELSE TopName(f, tag, id)
<1> DEFINE S == At(f, 0, tag, id)
           R == At(Append(f, l), 0, tag, id)
<1>1. S \in SUBSET (1 .. Len(f))
  BY AtMore
<1>2. R = IF l.nest = 0 /\ l.tag = tag /\ l.id = id THEN S \cup {Len(f) + 1} ELSE S
  BY AtMore
<1> HIDE DEF S, R
<1>3. LastName(Append(f, l), S) = LastName(f, S)
      /\ LastName(Append(f, l), S \cup {Len(f) + 1}) = l.name
  BY <1>1, LastOfMore
<1>4. TopName(Append(f, l), tag, id) = LastName(Append(f, l), R)
      /\ TopName(f, tag, id) = LastName(f, S)
  BY DEF TopName, R, S
<1> QED
  BY <1>2, <1>3, <1>4

LEMMA NestedNameMore ==
  ASSUME NEW f \in Seq(Lines), NEW l \in Lines, NEW tag, NEW id, NEW top, top # "#", NEW above
  PROVE  NestedName(Append(f, l), tag, id, top, above) =
           IF l.nest = 1 /\ l.tag = tag /\ l.id = id /\ In(f, Len(f) + 1, top, above)
           THEN l.name ELSE NestedName(f, tag, id, top, above)
<1> DEFINE g == Append(f, l)
           S == {n \in At(f, 1, tag, id) : In(f, n, top, above)}
           R == {n \in At(g, 1, tag, id) : In(g, n, top, above)}
<1>1. PICK N \in Nat : N = Len(f)
  BY OneMore
<1>2. /\ At(f, 1, tag, id) \subseteq 1 .. N
      /\ At(g, 1, tag, id) = IF l.nest = 1 /\ l.tag = tag /\ l.id = id
                             THEN At(f, 1, tag, id) \cup {N + 1} ELSE At(f, 1, tag, id)
  BY <1>1, AtMore
<1>3. \A n \in 1 .. N + 1 : In(g, n, top, above) <=> In(f, n, top, above)
  BY <1>1, InMore
<1>4. R = IF l.nest = 1 /\ l.tag = tag /\ l.id = id /\ In(f, N + 1, top, above)
          THEN S \cup {N + 1} ELSE S
  <2> HIDE DEF g
  <2>1. \A n \in At(f, 1, tag, id) : n \in 1 .. N + 1
    BY <1>2
  <2>2. N + 1 \in 1 .. N + 1
    OBVIOUS
  <2> QED
    BY <1>2, <1>3, <2>1, <2>2
<1>5. S \in SUBSET (1 .. Len(f))
  BY <1>1, <1>2
<1> HIDE DEF S, R, g
<1>6. LastName(g, S) = LastName(f, S) /\ LastName(g, S \cup {N + 1}) = l.name
  BY <1>1, <1>5, LastOfMore DEF g
<1>7. NestedName(g, tag, id, top, above) = LastName(g, R)
      /\ NestedName(f, tag, id, top, above) = LastName(f, S)
  BY DEF NestedName, R, S
<1>8. NestedName(g, tag, id, top, above) =
           IF l.nest = 1 /\ l.tag = tag /\ l.id = id /\ In(f, N + 1, top, above)
           THEN l.name ELSE NestedName(f, tag, id, top, above)
  BY <1>4, <1>6, <1>7
<1> QED
  BY <1>1, <1>8 DEF g

(* The line of a programming interface is in the present block.             *)
Behind(f) ==
  \E m \in 1 .. Len(f) :
    f[m].nest = 2 /\ \A k \in m + 1 .. Len(f) : f[k].nest = 0 => f[k].tag = "#"

LEMMA BehindMore ==
  ASSUME NEW f \in Seq(Lines), NEW l \in Lines
  PROVE  /\ l.nest = 2 => Behind(Append(f, l))
         /\ Behind(f) /\ ~ Begins(l) => Behind(Append(f, l))
<1> DEFINE g == Append(f, l)
<1>1. PICK N \in Nat : N = Len(f)
  BY OneMore
<1>2. Len(g) = N + 1 /\ g[N + 1] = l /\ \A n \in 1 .. N : g[n] = f[n]
  BY <1>1, OneMore
<1> HIDE DEF g
<1>3. ASSUME l.nest = 2 PROVE Behind(g)
  <2>1. N + 1 \in 1 .. N + 1 /\ (N + 1) + 1 .. N + 1 = {}
    OBVIOUS
  <2> QED
    BY <1>2, <1>3, <2>1 DEF Behind
<1>4. ASSUME Behind(f), ~ Begins(l) PROVE Behind(g)
  <2>1. PICK m \in 1 .. N :
          f[m].nest = 2 /\ \A k \in m + 1 .. N : f[k].nest = 0 => f[k].tag = "#"
    BY <1>1, <1>4 DEF Behind
  <2>2. m \in 1 .. N + 1 /\ g[m].nest = 2
    BY <1>2, <2>1
  <2>3. ASSUME NEW k \in m + 1 .. N + 1, g[k].nest = 0 PROVE g[k].tag = "#"
    <3>1. CASE k = N + 1
      BY <1>2, <1>4, <2>3, <3>1 DEF Begins
    <3>2. CASE k # N + 1
      <4>1. k \in m + 1 .. N /\ k \in 1 .. N
        BY <3>2
      <4> QED
        BY <1>2, <2>1, <2>3, <4>1
    <3> QED
      BY <3>1, <3>2
  <2> QED
    BY <1>2, <2>2, <2>3 DEF Behind
<1> QED
  BY <1>3, <1>4 DEF g

LEMMA RegularMore ==
  ASSUME NEW f \in Seq(Lines), NEW l \in Lines, Regular(Append(f, l))
  PROVE  /\ Regular(f)
         /\ l.nest = 1 /\ l.tag = "2" => l.id # SUB_CONFIG /\ ~ Behind(f)
<1> DEFINE g == Append(f, l)
<1>1. PICK N \in Nat : N = Len(f)
  BY OneMore
<1>2. /\ DOMAIN f = 1 .. N /\ DOMAIN g = 1 .. N + 1
      /\ g[N + 1] = l /\ \A n \in 1 .. N : g[n] = f[n]
  BY <1>1, OneMore
<1>3. Regular(g)
  OBVIOUS
<1> HIDE DEF g
<1>4. ASSUME NEW n \in 1 .. N, f[n].nest = 1, f[n].tag = "2"
      PROVE  /\ f[n].id # SUB_CONFIG
             /\ \A m \in 1 .. n - 1 :
                  f[m].nest = 2 => \E k \in m + 1 .. n - 1 : f[k].nest = 0 /\ f[k].tag # "#"
  <2>1. n \in 1 .. N + 1 /\ g[n] = f[n]
    BY <1>2
  <2>2. /\ g[n].id # SUB_CONFIG
        /\ \A m \in 1 .. n - 1 :
             g[m].nest = 2 => \E k \in m + 1 .. n - 1 : g[k].nest = 0 /\ g[k].tag # "#"
    BY <1>2, <1>3, <1>4, <2>1 DEF Regular
  <2>3. \A m \in 1 .. n - 1 : g[m] = f[m] /\ \A k \in m + 1 .. n - 1 : g[k] = f[k]
    BY <1>2
  <2> QED
    BY <2>1, <2>2, <2>3
<1>5. ASSUME l.nest = 1, l.tag = "2"
      PROVE  l.id # SUB_CONFIG /\ ~ Behind(f)
  <2>1. N + 1 \in 1 .. N + 1 /\ (N + 1) - 1 = N
    OBVIOUS
  <2>2. /\ l.id # SUB_CONFIG
        /\ \A m \in 1 .. N :
             g[m].nest = 2 => \E k \in m + 1 .. N : g[k].nest = 0 /\ g[k].tag # "#"
    BY <1>2, <1>3, <1>5, <2>1 DEF Regular
  <2>3. \A m \in 1 .. N : g[m] = f[m] /\ \A k \in m + 1 .. N : g[k] = f[k]
    BY <1>2
  <2> QED
    BY <1>1, <2>2, <2>3 DEF Behind
<1> QED
  BY <1>2, <1>4, <1>5 DEF Regular

----------------------------------------------------------------------------
(* What the numbers that the lines have left say of the block: whose vendor *)
(* or class it is.                                                          *)
Here == Len(source) + 1

Block ==
  db = "parse" =>
    /\ \A x \in Nat :
         /\ In(source, Here, "V", x) <=> ids.cat \in AfterVendor /\ ids.vendor = x
         /\ In(source, Here, "C", x) <=> ids.cat \in AfterClass /\ ids.base = x
    /\ ids.cat \in AfterClass => ids.vendor = 0
    /\ ids.cat = "class" => ids.device = 0 /\ ids.subsys = 0
    /\ ids.cat \in {"subclass", "progif"} => Behind(source)

(* What can be asked for is what the file says so far.                      *)
Follows ==
  db # "closed" /\ Regular(source) =>
    \A x \in Nat :
      /\ Lookup(KeyOf("vendor", x, 0, 0, SUB_CONFIG)) = TopName(source, "V", x)
      /\ Lookup(KeyOf("class", 0, 0, x, SUB_CONFIG)) = TopName(source, "C", x)
      /\ \A y \in Nat :
           /\ Lookup(KeyOf("device", x, y, 0, SUB_CONFIG)) =
                NestedName(source, "4", y, "V", x)
           /\ y # SUB_CONFIG =>
                Lookup(KeyOf("class", 0, 0, x, y)) = NestedName(source, "2", y, "C", x)

LEMMA TakenLine ==
  ASSUME DataTyped, Reading, source' = Append(source, Line)
  PROVE  /\ Line \in Lines /\ source \in Seq(Lines) /\ Here' = Len(source) + 2
         /\ Here = Len(source) + 1
<1>1. Line \in Lines /\ source \in Seq(Lines)
  BY LineTyped DEF DataTyped
<1>2. Len(source') = Len(source) + 1 /\ Len(source) \in Nat
  BY <1>1, OneMore
<1> QED
  BY <1>1, <1>2 DEF Here

LEMMA InsertMoves ==
  ASSUME Reading, NEW i, Insert(i)
  PROVE  source' = Append(source, Line) /\ db' = "parse" /\ ids' = i
  BY DEF Insert, Advance, Reading

(* A line in a block leaves the block as it is.                             *)
LEMMA SameBlock ==
  ASSUME DataTyped, Block, Reading, source' = Append(source, Line), db' = "parse",
         ~ Begins(Line),
         ids'.vendor = ids.vendor,
         \/ ids'.cat = ids.cat /\ ids'.base = ids.base
         \/ ids'.cat \in AfterVendor /\ ids.cat \in AfterVendor
         \/ ids'.cat \in AfterClass /\ ids.cat \in AfterClass /\ ids'.base = ids.base,
         ids'.cat = "class" => ids.cat = "class" /\ ids'.device = ids.device /\ ids'.subsys = 0,
         ids'.cat \in {"subclass", "progif"} =>
           ids.cat \in {"subclass", "progif"} \/ Line.nest = 2
  PROVE  Block'
<1>1. Line \in Lines /\ source \in Seq(Lines) /\ db = "parse"
  BY TakenLine DEF Reading
<1>2. \A x \in Nat : /\ In(source', Here', "V", x) <=> In(source, Here, "V", x)
                     /\ In(source', Here', "C", x) <=> In(source, Here, "C", x)
  BY <1>1, TakenLine, InMore
<1>3. ids.cat \in {"subclass", "progif"} \/ Line.nest = 2 => Behind(source')
  BY <1>1, BehindMore DEF Block
<1>4. ids'.cat \in {"subclass", "progif"} => Behind(source')
  BY <1>3
<1>5. ids'.cat \in AfterClass => ids.cat \in AfterClass /\ ids'.base = ids.base
  BY DEF AfterClass, AfterVendor
<1>6. ids.cat \in AfterClass => ids'.cat \in AfterClass /\ ids'.base = ids.base
  BY DEF AfterClass, AfterVendor
<1>7. ids'.cat \in AfterVendor <=> ids.cat \in AfterVendor
  BY DEF AfterClass, AfterVendor
<1>8. \A x \in Nat :
         /\ In(source', Here', "V", x) <=> ids'.cat \in AfterVendor /\ ids'.vendor = x
         /\ In(source', Here', "C", x) <=> ids'.cat \in AfterClass /\ ids'.base = x
  BY <1>1, <1>2, <1>5, <1>6, <1>7 DEF Block
<1>9. ids'.cat \in AfterClass => ids'.vendor = 0
  BY <1>1, <1>5 DEF Block
<1>10. ids'.cat = "class" => ids'.device = 0 /\ ids'.subsys = 0
  BY <1>1 DEF Block
<1> QED
  BY <1>4, <1>8, <1>9, <1>10 DEF Block

(* A line that begins a block.                                              *)
LEMMA NewBlock ==
  ASSUME DataTyped, Reading, source' = Append(source, Line), db' = "parse",
         Begins(Line),
         ids'.cat \notin {"device", "subsystem", "subclass", "progif"},
         ids'.cat = "vendor" <=> Line.tag = "V",
         ids'.cat = "class" <=> Line.tag = "C",
         Line.tag = "V" => ids'.vendor = Line.id,
         Line.tag = "C" => /\ ids'.base = Line.id /\ ids'.vendor = 0
                           /\ ids'.device = 0 /\ ids'.subsys = 0
  PROVE  Block'
<1>1. Line \in Lines /\ source \in Seq(Lines)
  BY TakenLine
<1>2. \A x \in Nat : /\ In(source', Here', "V", x) <=> Line.tag = "V" /\ Line.id = x
                     /\ In(source', Here', "C", x) <=> Line.tag = "C" /\ Line.id = x
  BY <1>1, TakenLine, InMore
<1>3. /\ ids'.cat \in AfterVendor <=> Line.tag = "V"
      /\ ids'.cat \in AfterClass <=> Line.tag = "C"
  BY DEF AfterClass, AfterVendor
<1> QED
  BY <1>2, <1>3 DEF Block

(* A line is taken that is the item of the keys in I: of those that can be  *)
(* asked for, just the ones that the file means by it.                      *)
LEMMA LineFollows ==
  ASSUME DataTyped, Follows, Reading, source' = Append(source, Line),
         NEW I,
         \A k : Lookup(k)' = IF k \in I THEN Line.name ELSE Lookup(k),
         Regular(source') =>
           \A x \in Nat :
             /\ KeyOf("vendor", x, 0, 0, SUB_CONFIG) \in I <=>
                  Line.nest = 0 /\ Line.tag = "V" /\ Line.id = x
             /\ KeyOf("class", 0, 0, x, SUB_CONFIG) \in I <=>
                  Line.nest = 0 /\ Line.tag = "C" /\ Line.id = x
             /\ \A y \in Nat :
                  /\ KeyOf("device", x, y, 0, SUB_CONFIG) \in I <=>
                       /\ Line.nest = 1 /\ Line.tag = "4" /\ Line.id = y
                       /\ In(source, Here, "V", x)
                  /\ y # SUB_CONFIG =>
                       (KeyOf("class", 0, 0, x, y) \in I <=>
                          /\ Line.nest = 1 /\ Line.tag = "2" /\ Line.id = y
                          /\ In(source, Here, "C", x))
  PROVE  Follows'
<1> SUFFICES ASSUME Regular(source')
             PROVE  (\A x \in Nat :
      /\ Lookup(KeyOf("vendor", x, 0, 0, SUB_CONFIG)) = TopName(source, "V", x)
      /\ Lookup(KeyOf("class", 0, 0, x, SUB_CONFIG)) = TopName(source, "C", x)
      /\ \A y \in Nat :
           /\ Lookup(KeyOf("device", x, y, 0, SUB_CONFIG)) =
                NestedName(source, "4", y, "V", x)
           /\ y # SUB_CONFIG =>
                Lookup(KeyOf("class", 0, 0, x, y)) = NestedName(source, "2", y, "C", x))'
  BY DEF Follows
<1>1. /\ Line \in Lines /\ source \in Seq(Lines) /\ db # "closed" /\ Regular(source)
      /\ Here = Len(source) + 1
  <2>1. Line \in Lines /\ source \in Seq(Lines) /\ Here = Len(source) + 1
    BY TakenLine
  <2> QED
    BY <2>1, RegularMore DEF Reading
<1> TAKE x \in Nat
<1>2. Lookup(KeyOf("vendor", x, 0, 0, SUB_CONFIG))' = TopName(source', "V", x)
  <2>1. TopName(source', "V", x) =
          IF Line.nest = 0 /\ Line.tag = "V" /\ Line.id = x
          THEN Line.name ELSE TopName(source, "V", x)
    BY <1>1, TopNameMore
  <2> QED
    BY <1>1, <2>1 DEF Follows
<1>3. Lookup(KeyOf("class", 0, 0, x, SUB_CONFIG))' = TopName(source', "C", x)
  <2>1. TopName(source', "C", x) =
          IF Line.nest = 0 /\ Line.tag = "C" /\ Line.id = x
          THEN Line.name ELSE TopName(source, "C", x)
    BY <1>1, TopNameMore
  <2> QED
    BY <1>1, <2>1 DEF Follows
<1>4. ASSUME NEW y \in Nat
      PROVE  Lookup(KeyOf("device", x, y, 0, SUB_CONFIG))' =
               NestedName(source', "4", y, "V", x)
  <2>1. NestedName(source', "4", y, "V", x) =
          IF Line.nest = 1 /\ Line.tag = "4" /\ Line.id = y /\ In(source, Here, "V", x)
          THEN Line.name ELSE NestedName(source, "4", y, "V", x)
    BY <1>1, NestedNameMore
  <2> QED
    BY <1>1, <2>1 DEF Follows
<1>5. ASSUME NEW y \in Nat, y # SUB_CONFIG
      PROVE  Lookup(KeyOf("class", 0, 0, x, y))' = NestedName(source', "2", y, "C", x)
  <2>1. NestedName(source', "2", y, "C", x) =
          IF Line.nest = 1 /\ Line.tag = "2" /\ Line.id = y /\ In(source, Here, "C", x)
          THEN Line.name ELSE NestedName(source, "2", y, "C", x)
    BY <1>1, NestedNameMore
  <2> QED
    BY <1>1, <1>5, <2>1 DEF Follows
<1> QED
  BY <1>2, <1>3, <1>4, <1>5

----------------------------------------------------------------------------
LEMMA LookupEntered ==
  ASSUME DataTyped, NEW i \in Key, NEW nm \in STRING, AddsEntry(i, nm)
  PROVE  Lookup(i)' = nm
<1> DEFINE e == [key |-> i, name |-> nm]
           N == Len(table)
<1>1. N \in Nat
  BY DEF DataTyped
<1>2. DOMAIN table' = 1 .. N + 1 /\ table'[1] = e
  <2>1. table \in Seq(Entries) /\ e \in Entries
    BY DEF DataTyped, Entries
  <2> HIDE DEF e
  <2> QED
    BY <2>1, Prepend DEF AddsEntry, e
<1>3. e.key = i /\ e.name = nm
  OBVIOUS
<1> HIDE DEF e, N
<1> DEFINE S == Matches(i)'
<1>4. S \in SUBSET Nat /\ 1 \in S /\ \A m \in S : 1 <= m
  BY <1>1, <1>2, <1>3 DEF Matches
<1> HIDE DEF S
<1>5. (CHOOSE x \in S : \A m \in S : x <= m) = 1 /\ S # {}
  BY <1>4, LeastChosen
<1> QED
  BY <1>2, <1>3, <1>5 DEF Lookup, S

LEMMA KeyIs ==
  ASSUME NEW i \in Key, NEW c, NEW v, NEW d, NEW b, NEW s
  PROVE  KeyOf(c, v, d, b, s) \in {i} <=>
           /\ i.cat = c /\ i.vendor = v /\ i.device = d /\ i.subsys = 0
           /\ i.base = b /\ i.sub = s
  BY DEF KeyOf, Key

(* The keys in I are those that can be asked for by what the line says.     *)
Meant(I) ==
  Regular(Append(source, Line)) =>
    \A x \in Nat :
      /\ KeyOf("vendor", x, 0, 0, SUB_CONFIG) \in I <=>
           Line.nest = 0 /\ Line.tag = "V" /\ Line.id = x
      /\ KeyOf("class", 0, 0, x, SUB_CONFIG) \in I <=>
           Line.nest = 0 /\ Line.tag = "C" /\ Line.id = x
      /\ \A y \in Nat :
           /\ KeyOf("device", x, y, 0, SUB_CONFIG) \in I <=>
                /\ Line.nest = 1 /\ Line.tag = "4" /\ Line.id = y
                /\ In(source, Here, "V", x)
           /\ y # SUB_CONFIG =>
                (KeyOf("class", 0, 0, x, y) \in I <=>
                   /\ Line.nest = 1 /\ Line.tag = "2" /\ Line.id = y
                   /\ In(source, Here, "C", x))

LEMMA KeptFollows ==
  ASSUME Follows, UNCHANGED <<table, source>>, db' # "closed" => db # "closed"
  PROVE  Follows'
<1>1. \A k : Lookup(k)' = Lookup(k)
  BY DEF Lookup, Matches
<1> QED
  BY <1>1 DEF Follows

(* A line that is taken as an item, or refused.                             *)
LEMMA TakeFollows ==
  ASSUME DataTyped, Follows, Reading, NEW i \in Key, Take(i), Meant({i}),
         Insert(i) => Block'
  PROVE  Follows' /\ Block'
<1>1. CASE Insert(i)
  <2>1. Line.name \in STRING
    BY LineTyped DEF Lines
  <2>2. AddsEntry(i, Line.name) /\ source' = Append(source, Line)
    BY <1>1 DEF Insert, AddsEntry, Advance
  <2>3. \A k : Lookup(k)' = IF k \in {i} THEN Line.name ELSE Lookup(k)
    BY <2>1, <2>2, LookupEntered, LookupElsewhere
  <2>4. Follows'
    BY <2>2, <2>3, LineFollows DEF Meant
  <2> QED
    BY <1>1, <2>4
<1>2. CASE InsertFails(i)
  <2>1. UNCHANGED <<table, source>> /\ db' = "answer" /\ db # "closed"
    BY <1>2 DEF InsertFails, EndLoad, Reading
  <2> QED
    BY <2>1, KeptFollows DEF Block
<1> QED
  BY <1>1, <1>2 DEF Take

(* A line that is done with and names nothing.                              *)
LEMMA AdvanceFollows ==
  ASSUME DataTyped, Follows, Reading, NEW i, Advance(i), UNCHANGED table, Meant({})
  PROVE  Follows'
<1> DEFINE I == {}
<1>1. \A k : Lookup(k)' = Lookup(k)
  BY DEF Lookup, Matches
<1>2. \A k : Lookup(k)' = IF k \in I THEN Line.name ELSE Lookup(k)
  BY <1>1
<1>3. source' = Append(source, Line) /\ Meant(I)
  BY DEF Advance
<1> HIDE DEF I
<1> QED
  BY <1>2, <1>3, LineFollows DEF Meant

LEMMA RefuseFollows ==
  ASSUME Follows, Reading, NEW e, Refuse(e)
  PROVE  Follows' /\ Block'
<1>1. UNCHANGED <<table, source>> /\ db' = "answer" /\ db # "closed"
  BY DEF Refuse, EndLoad, Reading, store
<1> QED
  BY <1>1, KeptFollows DEF Block

LEMMA LineData ==
  ASSUME DataTyped, Reading
  PROVE  /\ Line.nest \in Nat /\ Line.id \in Nat /\ Line.tag \in STRING
         /\ ids \in Key /\ ids.vendor \in Nat /\ ids.base \in Nat /\ db = "parse"
  BY LineTyped DEF Lines, DataTyped, Key, Reading

LEMMA VendorFollows ==
  ASSUME DataTyped, Follows, Block, VendorLine
  PROVE  Follows' /\ Block'
<1> DEFINE i == KeyOf("vendor", Line.id, 0, 0, SUB_CONFIG)
<1>1. Reading /\ Line.nest = 0 /\ Line.tag = "V" /\ Take(i)
  BY DEF VendorLine, TopLevel
<1>2. i \in Key
  BY <1>1, LineKeys DEF Cats
<1>3. i.cat = "vendor" /\ i.vendor = Line.id /\ i.device = 0 /\ i.subsys = 0 /\ i.base = 0
      /\ i.sub = SUB_CONFIG
  BY DEF KeyOf
<1> HIDE DEF i
<1>4. Meant({i})
  BY <1>1, <1>2, <1>3, KeyIs DEF Meant
<1>5. Insert(i) => Block'
  BY <1>1, <1>3, NewBlock DEF Insert, Advance, Begins, Reading
<1> QED
  BY <1>1, <1>2, <1>4, <1>5, TakeFollows

LEMMA ClassFollows ==
  ASSUME DataTyped, Follows, Block, ClassLine
  PROVE  Follows' /\ Block'
<1> DEFINE i == KeyOf("class", 0, 0, Line.id, SUB_CONFIG)
<1>1. Reading /\ Line.nest = 0 /\ Line.tag = "C" /\ Take(i)
  BY DEF ClassLine, TopLevel
<1>2. i \in Key
  BY <1>1, LineKeys DEF Cats
<1>3. i.cat = "class" /\ i.vendor = 0 /\ i.device = 0 /\ i.subsys = 0 /\ i.base = Line.id
      /\ i.sub = SUB_CONFIG
  BY DEF KeyOf
<1> HIDE DEF i
<1>4. Meant({i})
  BY <1>1, <1>2, <1>3, KeyIs DEF Meant
<1>5. Insert(i) => Block'
  BY <1>1, <1>3, NewBlock DEF Insert, Advance, Begins, Reading
<1> QED
  BY <1>1, <1>2, <1>4, <1>5, TakeFollows

LEMMA DeviceFollows ==
  ASSUME DataTyped, Follows, Block, DeviceLine
  PROVE  Follows' /\ Block'
<1> DEFINE i == [DeviceOf(ids) EXCEPT !.cat = "device"]
<1>1. Reading /\ Line.nest = 1 /\ Line.tag = "4" /\ ids.cat \in AfterVendor /\ Take(i)
  BY DEF DeviceLine, Nested
<1>2. i \in Key
  BY <1>1, LineKeys
<1>3. i.cat = "device" /\ i.vendor = ids.vendor /\ i.device = Line.id /\ i.subsys = 0
      /\ i.base = 0 /\ i.sub = SUB_CONFIG
  BY <1>1, LineData DEF DeviceOf, Key
<1> HIDE DEF i
<1>4. \A x \in Nat : In(source, Here, "V", x) <=> ids.vendor = x
  BY <1>1, LineData DEF Block
<1>5. Meant({i})
  BY <1>1, <1>2, <1>3, <1>4, KeyIs DEF Meant
<1>6. Insert(i) => Block'
  <2> SUFFICES ASSUME Insert(i) PROVE Block'
    OBVIOUS
  <2>1. source' = Append(source, Line) /\ db' = "parse" /\ ids' = i
    BY <1>1, InsertMoves
  <2>2. ~ Begins(Line)
    BY <1>1 DEF Begins
  <2>3. ids'.cat = i.cat /\ ids'.vendor = ids.vendor /\ ids'.base = i.base
    BY <1>3, <2>1
  <2> QED
    BY <1>1, <1>3, <2>1, <2>2, <2>3, SameBlock DEF AfterVendor
<1> QED
  BY <1>1, <1>2, <1>5, <1>6, TakeFollows

LEMMA SubclassFollows ==
  ASSUME DataTyped, Follows, Block, SubclassLine
  PROVE  Follows' /\ Block'
<1> DEFINE i == [ids EXCEPT !.sub = Line.id, !.subsys = 0]
<1>1. Reading /\ Line.nest = 1 /\ Line.tag = "2" /\ ids.cat = "class" /\ Take(i)
  BY DEF SubclassLine, Nested
<1>2. i \in Key
  BY <1>1, LineKeys
<1>3. i.cat = ids.cat /\ i.vendor = ids.vendor /\ i.device = ids.device /\ i.subsys = 0
      /\ i.base = ids.base /\ i.sub = Line.id
  BY <1>1, LineData DEF Key
<1> HIDE DEF i
<1>4. /\ \A x \in Nat : In(source, Here, "C", x) <=> ids.base = x
      /\ ids.vendor = 0 /\ ids.device = 0
  BY <1>1, LineData DEF Block, AfterClass
<1>5. Regular(Append(source, Line)) => Line.id # SUB_CONFIG
  BY <1>1, LineTyped, RegularMore DEF DataTyped
<1>6. Meant({i})
  BY <1>1, <1>2, <1>3, <1>4, <1>5, KeyIs DEF Meant
<1>7. Insert(i) => Block'
  <2> SUFFICES ASSUME Insert(i) PROVE Block'
    OBVIOUS
  <2>1. source' = Append(source, Line) /\ db' = "parse" /\ ids' = i
    BY <1>1, InsertMoves
  <2>2. ~ Begins(Line)
    BY <1>1 DEF Begins
  <2>3. ids'.cat = i.cat /\ ids'.vendor = ids.vendor /\ ids'.base = i.base
    BY <1>3, <2>1
  <2> QED
    BY <1>1, <1>3, <2>1, <2>2, <2>3, SameBlock DEF AfterClass
<1> QED
  BY <1>1, <1>2, <1>6, <1>7, TakeFollows

(* Items that are not asked for.                                            *)
LEMMA OtherItem ==
  ASSUME NEW i \in Key, i.cat \notin {"vendor", "class", "device"}, Line.nest # 0,
         Line.nest = 1 /\ Line.tag = "4" => \A x \in Nat : ~ In(source, Here, "V", x),
         Line.nest = 1 /\ Line.tag = "2" => ~ Regular(Append(source, Line))
  PROVE  Meant({i})
  BY KeyIs DEF Meant

LEMMA SubsystemDeviceFollows ==
  ASSUME DataTyped, Follows, Block, SubsystemDeviceLine
  PROVE  Follows' /\ Block'
<1> DEFINE i == DeviceOf(ids)
<1>1. Reading /\ Line.nest = 1 /\ Line.tag = "4" /\ ids.cat = "gen_subsystem" /\ Take(i)
  BY DEF SubsystemDeviceLine, Nested
<1>2. i \in Key
  BY <1>1, LineKeys
<1>3. i.cat = ids.cat /\ i.vendor = ids.vendor
  BY <1>1, LineData DEF DeviceOf, Key
<1> HIDE DEF i
<1>4. \A x \in Nat : ~ In(source, Here, "V", x) /\ ~ In(source, Here, "C", x)
  BY <1>1, LineData DEF Block, AfterVendor, AfterClass
<1>5. Meant({i})
  BY <1>1, <1>2, <1>3, <1>4, OtherItem
<1>6. Insert(i) => Block'
  <2> SUFFICES ASSUME Insert(i) PROVE Block'
    OBVIOUS
  <2>1. Line \in Lines /\ source \in Seq(Lines) /\ source' = Append(source, Line) /\ ids' = i
    BY <1>1, TakenLine DEF Insert, Advance
  <2>2. \A x \in Nat : /\ In(source', Here', "V", x) <=> In(source, Here, "V", x)
                       /\ In(source', Here', "C", x) <=> In(source, Here, "C", x)
    BY <1>1, <2>1, TakenLine, InMore DEF Begins
  <2> QED
    BY <1>1, <1>3, <1>4, <2>1, <2>2 DEF Block, AfterVendor, AfterClass
<1> QED
  BY <1>1, <1>2, <1>5, <1>6, TakeFollows

LEMMA LaterSubclassFollows ==
  ASSUME DataTyped, Follows, Block, LaterSubclassLine
  PROVE  Follows' /\ Block'
<1> DEFINE i == [ids EXCEPT !.cat = "subclass", !.device = Line.id, !.subsys = 0]
<1>1. /\ Reading /\ Line.nest = 1 /\ Line.tag = "2" /\ ids.cat \in {"subclass", "progif"}
      /\ Take(i)
  BY DEF LaterSubclassLine, Nested
<1>2. i \in Key
  BY <1>1, LineKeys
<1>3. i.cat = "subclass" /\ i.vendor = ids.vendor /\ i.base = ids.base
  BY <1>1, LineData DEF Key
<1> HIDE DEF i
<1>4. Behind(source)
  BY <1>1, LineData DEF Block
<1>5. ~ Regular(Append(source, Line))
  BY <1>1, <1>4, LineTyped, RegularMore DEF DataTyped
<1>6. Meant({i})
  BY <1>5 DEF Meant
<1>7. Insert(i) => Block'
  <2> SUFFICES ASSUME Insert(i) PROVE Block'
    OBVIOUS
  <2>1. source' = Append(source, Line) /\ db' = "parse" /\ ids' = i
    BY <1>1, InsertMoves
  <2>2. ~ Begins(Line)
    BY <1>1 DEF Begins
  <2>3. ids'.cat = i.cat /\ ids'.vendor = ids.vendor /\ ids'.base = i.base
    BY <1>3, <2>1
  <2> QED
    BY <1>1, <1>3, <2>1, <2>2, <2>3, SameBlock DEF AfterClass
<1> QED
  BY <1>1, <1>2, <1>6, <1>7, TakeFollows

LEMMA DeepFollows ==
  ASSUME DataTyped, Follows, Block, SubsystemNameLine \/ ProgIfLine
  PROVE  Follows' /\ Block'
<1>1. CASE SubsystemNameLine
  <2> DEFINE i == [ids EXCEPT !.cat = "subsystem", !.subsys = Line.id]
  <2>1. /\ Reading /\ Line.nest = 2 /\ ids.cat \in {"device", "subsystem"}
        /\ Take(i)
    BY <1>1 DEF SubsystemNameLine, Nested
  <2>2. i \in Key
    BY <2>1, LineKeys
  <2>3. i.cat = "subsystem" /\ i.vendor = ids.vendor
    BY <2>1, LineData DEF Key
  <2> HIDE DEF i
  <2>4. Meant({i})
    BY <2>1, <2>2, <2>3, OtherItem
  <2>5. Insert(i) => Block'
    <3> SUFFICES ASSUME Insert(i) PROVE Block'
      OBVIOUS
    <3>1. source' = Append(source, Line) /\ db' = "parse" /\ ids' = i
      BY <2>1, InsertMoves
    <3>2. ~ Begins(Line)
      BY <2>1 DEF Begins
    <3>3. ids'.cat = i.cat /\ ids'.vendor = ids.vendor /\ ids'.base = i.base
      BY <2>3, <3>1
    <3> QED
      BY <2>1, <2>3, <3>1, <3>2, <3>3, SameBlock DEF AfterVendor
  <2> QED
    BY <2>1, <2>2, <2>4, <2>5, TakeFollows
<1>2. CASE ProgIfLine
  <2> DEFINE i == [ids EXCEPT !.cat = "progif", !.subsys = Line.id]
  <2>1. /\ Reading /\ Line.nest = 2 /\ ids.cat \in AfterClass
        /\ Take(i)
    BY <1>2 DEF ProgIfLine, Nested
  <2>2. i \in Key
    BY <2>1, LineKeys
  <2>3. i.cat = "progif" /\ i.vendor = ids.vendor /\ i.base = ids.base
    BY <2>1, LineData DEF Key
  <2> HIDE DEF i
  <2>4. Meant({i})
    BY <2>1, <2>2, <2>3, OtherItem
  <2>5. Insert(i) => Block'
    <3> SUFFICES ASSUME Insert(i) PROVE Block'
      OBVIOUS
    <3>1. source' = Append(source, Line) /\ db' = "parse" /\ ids' = i
      BY <2>1, InsertMoves
    <3>2. ~ Begins(Line)
      BY <2>1 DEF Begins
    <3>3. ids'.cat = i.cat /\ ids'.vendor = ids.vendor /\ ids'.base = i.base
      BY <2>3, <3>1
    <3> QED
      BY <2>1, <2>3, <3>1, <3>2, <3>3, SameBlock DEF AfterClass
  <2> QED
    BY <2>1, <2>2, <2>4, <2>5, TakeFollows
<1> QED
  BY <1>1, <1>2

(* The lines that enter nothing.                                            *)
LEMMA PlainFollows ==
  ASSUME DataTyped, Follows, Block, Ignored \/ SubsystemLine \/ UnrecognizedLine
  PROVE  Follows' /\ Block'
<1>1. CASE Ignored
  <2>1. Reading /\ Advance(ids) /\ UNCHANGED table
    BY <1>1 DEF Ignored, store
  <2>2. Line.tag = "#" \/ (Line.nest > 0 /\ ids.cat = "unknown")
    BY <1>1 DEF Ignored
  <2>3. ids.cat = "unknown" =>
          \A x \in Nat : ~ In(source, Here, "V", x) /\ ~ In(source, Here, "C", x)
    BY <2>1, LineData DEF Block, AfterVendor, AfterClass
  <2>4. Meant({})
    BY <2>1, <2>2, <2>3, LineData DEF Meant
  <2>5. Block'
    <3>1. ~ Begins(Line)
      BY <2>1, <2>2, LineData DEF Begins
    <3>2. source' = Append(source, Line) /\ ids' = ids /\ db' = "parse"
      BY <2>1 DEF Advance, Reading
    <3>3. ids.cat = "class" => ids.subsys = 0
      BY <2>1, LineData DEF Block
    <3> QED
      BY <2>1, <3>1, <3>2, <3>3, SameBlock
  <2> QED
    BY <2>1, <2>4, <2>5, AdvanceFollows
<1>2. ASSUME NEW i, Reading, Advance(i), UNCHANGED table, Line.nest = 0,
             Line.tag \in {"S", "X"}, i.cat \in {"unknown", "gen_subsystem"}
      PROVE  Follows' /\ Block'
  <2>1. Meant({})
    BY <1>2 DEF Meant
  <2>2. Block'
    BY <1>2, NewBlock DEF Advance, Reading, Begins
  <2> QED
    BY <1>2, <2>1, <2>2, AdvanceFollows
<1>3. CASE SubsystemLine
  <2>1. Reading /\ Line.nest = 0 /\ Line.tag = "S"
    BY <1>3 DEF SubsystemLine, TopLevel
  <2>2. CASE Lookup(KeyOf("vendor", Line.id, 0, 0, ids.sub)) # NotFound
    <3> DEFINE i == KeyOf("gen_subsystem", Line.id, 0, 0, ids.sub)
    <3>1. Advance(i) /\ UNCHANGED table
      BY <1>3, <2>2 DEF SubsystemLine, store
    <3>2. i.cat = "gen_subsystem"
      BY DEF KeyOf
    <3> HIDE DEF i
    <3> QED
      BY <1>2, <2>1, <3>1, <3>2
  <2>3. CASE ~(Lookup(KeyOf("vendor", Line.id, 0, 0, ids.sub)) # NotFound)
    <3>1. \E e : Refuse(e)
      BY <1>3, <2>3, Zenon DEF SubsystemLine
    <3> QED
      BY <2>1, <3>1, RefuseFollows
  <2> QED
    BY <2>2, <2>3
<1>4. CASE UnrecognizedLine
  <2> DEFINE i == [ids EXCEPT !.cat = "unknown", !.base = 0]
  <2>1. Reading /\ Line.nest = 0 /\ Line.tag = "X" /\ Advance(i) /\ UNCHANGED table
    BY <1>4 DEF UnrecognizedLine, TopLevel, store
  <2>2. i.cat = "unknown"
    BY <2>1, LineData DEF Key
  <2> HIDE DEF i
  <2> QED
    BY <1>2, <2>1, <2>2
<1> QED
  BY <1>1, <1>3, <1>4

LEMMA ParseFollows ==
  ASSUME DataTyped, Follows, Block, ParseLine PROVE Follows' /\ Block'
<1>1. CASE VendorLine \/ ClassLine \/ DeviceLine \/ SubclassLine
  BY <1>1, VendorFollows, ClassFollows, DeviceFollows, SubclassFollows
<1>2. CASE SubsystemDeviceLine \/ LaterSubclassLine \/ SubsystemNameLine \/ ProgIfLine
  BY <1>2, SubsystemDeviceFollows, LaterSubclassFollows, DeepFollows
<1>3. CASE Ignored \/ SubsystemLine \/ UnrecognizedLine
  BY <1>3, PlainFollows
<1>4. CASE LineTooLong \/ Malformed
  <2>1. Reading /\ \E e : Refuse(e)
    BY <1>4, Zenon DEF LineTooLong, Malformed
  <2> QED
    BY <2>1, RefuseFollows
<1> QED
  BY <1>1, <1>2, <1>3, <1>4, Zenon DEF ParseLine

(* A file that says nothing.                                                *)
NoBlock == \A x, tag : ~ In(source, Here, tag, x)
Empty == table = <<>> /\ source = <<>>

LEMMA NothingSaid == Empty => Follows /\ NoBlock
<1> SUFFICES ASSUME Empty PROVE Follows /\ NoBlock
  OBVIOUS
<1> USE DEF Empty
<1>1. \A k : Lookup(k) = NotFound
  BY DEF Lookup, Matches
<1>2. \A n, t, i : At(source, n, t, i) = {}
  BY DEF At
<1>3. \A t, i : TopName(source, t, i) = NotFound
  BY <1>2 DEF TopName, LastName
<1>4. \A t, i, p, a : NestedName(source, t, i, p, a) = NotFound
  <2> SUFFICES ASSUME NEW t, NEW i, NEW p, NEW a
               PROVE  NestedName(source, t, i, p, a) = NotFound
    OBVIOUS
  <2>1. {n \in At(source, 1, t, i) : In(source, n, p, a)} = {}
    BY <1>2
  <2> QED
    BY <2>1 DEF NestedName, LastName
<1>5. Follows
  BY <1>1, <1>3, <1>4 DEF Follows
<1>6. 1 .. Here - 1 = {}
  BY DEF Here
<1> QED
  BY <1>5, <1>6 DEF In, NoBlock

LEMMA OpenFollows ==
  ASSUME Settled, NEW f \in Files, Open(f) PROVE Follows' /\ Block'
<1>1. table = <<>> /\ table' = <<>> /\ source' = <<>>
  BY DEF Open, Settled, store
<1>2. Empty'
  BY <1>1 DEF Empty
<1>3. Follows' /\ NoBlock'
  BY <1>2, NothingSaid, PTL
<1>4. ids'.cat = "unset"
  BY DEF Open, KeyOf
<1> QED
  BY <1>3, <1>4 DEF Block, NoBlock, AfterVendor, AfterClass

LEMMA StepFollows ==
  ASSUME DataTyped, Settled, Follows, Block, [IdsNext]_idsVars
  PROVE  Follows' /\ Block'
<1> USE DEF store
<1>1. ASSUME UNCHANGED <<table, source>>, db' # "closed" => db # "closed",
             db' # "parse" \/ (db = "parse" /\ ids' = ids)
      PROVE  Follows' /\ Block'
  <2>1. Follows'
    BY <1>1, KeptFollows
  <2>2. Here' = Here
    BY <1>1 DEF Here
  <2>3. Block'
    BY <1>1, <2>2 DEF Block
  <2> QED
    BY <2>1, <2>3
<1>2. CASE ParseLine
  BY <1>2, ParseFollows
<1>3. ASSUME NEW f \in Files, Open(f) PROVE Follows' /\ Block'
  BY <1>3, OpenFollows
<1>4. CASE SetIdsFilePath \/ PathFails \/ OpenFails \/ Loaded \/ Answer
           \/ (\E q \in Query : Ask(q)) \/ UNCHANGED idsVars
  <2>1. /\ UNCHANGED <<table, source>> /\ (db' # "closed" => db # "closed")
        /\ (db' # "parse" \/ (db = "parse" /\ ids' = ids))
    BY <1>4 DEF SetIdsFilePath, PathFails, OpenFails, Loaded, Answer, Ask, idsVars, parse
  <2> QED
    BY <1>1, <2>1
<1>5. CASE ReadFails
  <2>1. UNCHANGED <<table, source>> /\ db' = "answer" /\ db = "parse"
    BY <1>5 DEF ReadFails, Refuse, EndLoad
  <2> QED
    BY <1>1, <2>1
<1>6. CASE FreeIds
  <2>1. db' = "closed"
    BY <1>6 DEF FreeIds
  <2> QED
    BY <2>1 DEF Follows, Block
<1> QED
  BY <1>2, <1>3, <1>4, <1>5, <1>6 DEF IdsNext, LookupName

(* What is found for a query is what the file says of it.                   *)
LEMMA FoundIsSaid ==
  ASSUME Follows, db # "closed", Regular(source), NEW q \in Query
  PROVE  NameOf(q) = Says(source, q)
<1>1. q.vendor \in Nat /\ q.device \in Nat /\ q.base \in Nat /\ q.sub \in Nat
  BY QueryAssumption
<1>2. /\ Lookup(VendorKey(q)) = TopName(source, "V", q.vendor)
      /\ Lookup(BaseKey(q)) = TopName(source, "C", q.base)
      /\ Lookup(DeviceKey(q)) = NestedName(source, "4", q.device, "V", q.vendor)
      /\ q.sub # SUB_CONFIG =>
           Lookup(SubKey(q)) = NestedName(source, "2", q.sub, "C", q.base)
  BY <1>1 DEF Follows, VendorKey, BaseKey, DeviceKey, SubKey
<1>3. Says(source, q) = FormatNamePair(NestedName(source, "2", q.sub, "C", q.base),
                                       TopName(source, "C", q.base),
                                       NestedName(source, "4", q.device, "V", q.vendor),
                                       TopName(source, "V", q.vendor))
  BY DEF Says, NestedName, TopName
<1>4. CASE q.sub # SUB_CONFIG
  BY <1>2, <1>3, <1>4 DEF NameOf
<1>5. CASE q.sub = SUB_CONFIG
  <2>1. Lookup(SubKey(q)) = Lookup(BaseKey(q))
    BY <1>5 DEF SubKey, BaseKey
  <2>2. {n \in At(source, 1, "2", q.sub) : In(source, n, "C", q.base)} = {}
    BY <1>5 DEF At, Regular
  <2>3. NestedName(source, "2", q.sub, "C", q.base) = NotFound
    BY <2>2 DEF NestedName, LastName
  <2> HIDE DEF NotFound
  <2>4. \A s, b, d, v : s = b \/ s = NotFound => FormatNamePair(s, b, d, v) =
                                   [class |-> b, vendor |-> v, device |-> d]
    BY DEF FormatNamePair
  <2> QED
    BY <1>2, <1>3, <2>1, <2>3, <2>4 DEF NameOf
<1> QED
  BY <1>4, <1>5

LEMMA StepNames ==
  ASSUME Asking, Follows, NamesFollowFile, [IdsNext]_idsVars, DataTyped
  PROVE  NamesFollowFile'
<1>1. CASE Answer
  <2> SUFFICES ASSUME Regular(source')
               PROVE  (LET last == shown[Len(shown)]
                       IN last.answer = Says(source, last.query))'
    BY DEF NamesFollowFile
  <2> DEFINE e == [query |-> asked, answer |-> NameOf(asked)]
  <2>1. shown' = Append(shown, e) /\ source' = source /\ db = "answer"
    BY <1>1 DEF Answer, parse
  <2>2. asked \in Query
    BY <2>1 DEF Asking
  <2>3. NameOf(asked) = Says(source, asked)
    BY <2>1, <2>2, FoundIsSaid
  <2>4. e.query = asked /\ e.answer = NameOf(asked)
    OBVIOUS
  <2> HIDE DEF e
  <2>5. shown'[Len(shown')] = e
    <3>1. PICK S : shown \in Seq(S)
      BY DEF Asking
    <3>2. shown \in Seq(S \cup {e}) /\ e \in S \cup {e}
      BY <3>1
    <3>3. Len(shown') = Len(shown) + 1 /\ shown'[Len(shown) + 1] = e
      BY <2>1, <3>2, AppendProperties
    <3> QED
      BY <3>3
  <2> QED
    BY <2>1, <2>3, <2>4, <2>5
<1>2. CASE SetIdsFilePath \/ UNCHANGED idsVars
  BY <1>2 DEF SetIdsFilePath, NamesFollowFile, idsVars, parse
<1>3. CASE ParseLine
  BY <1>3, ParseSteps DEF NamesFollowFile
<1>4. CASE \/ PathFails \/ OpenFails \/ Loaded \/ ReadFails \/ FreeIds
           \/ \E q \in Query : Ask(q)
           \/ \E f \in Files : Open(f)
  <2>1. db' # "idle"
    BY <1>4 DEF PathFails, OpenFails, Loaded, ReadFails, FreeIds, Ask, Open, Refuse, EndLoad
  <2> QED
    BY <2>1 DEF NamesFollowFile
<1> QED
  BY <1>1, <1>2, <1>3, <1>4 DEF IdsNext, LookupName

(* Every answer is what a regular file says, read as blocks and as far as   *)
(* the load got: no number that a line leaves in ids_id makes a later line  *)
(* mean something else.                                                     *)
THEOREM AnswersFollowFile == IdsSpec => []NamesFollowFile
<1>1. IdsInit => Settled /\ Follows /\ Block /\ NamesFollowFile
  BY NothingSaid DEF IdsInit, Settled, AnswersStable, Block, NamesFollowFile, Empty
<1> QED
  BY <1>1, AskingInvariant, StepSettled, StepFollows, StepNames, PTL DEF IdsSpec
=============================================================================
