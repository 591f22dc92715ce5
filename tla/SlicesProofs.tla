---------------------------- MODULE SlicesProofs ----------------------------
(****************************************************************************)
(* What lsub -e -p -s -v -x shows, for every number of slices, every range  *)
(* of the counts, every set of printers, every set of capability bitmaps    *)
(* and every command line.                                                  *)
(****************************************************************************)
EXTENDS Slices, FiniteSetTheorems, TLAPS

(* The fields of the option being taken.                                    *)
LEMMA OptionTyped ==
  ASSUME TypeOK, phase = "options", optind <= Len(cmd)
  PROVE  /\ Option \in Options
         /\ Option.opt = "s" => Option.groups \in Seq(Group)
         /\ Option.opt = "p" => Option.port \in 0 .. PortNum
<1>1. Option \in Options
  BY DEF TypeOK, Option
<1> QED
  BY <1>1 DEF Options

LEMMA ZeroIsSlice == 0 \in Slice
  BY SliceAssumption DEF Slice

(* The slices a group selects exist.                                        *)
LEMMA ChosenTyped ==
  ASSUME NEW g \in Group, Valid(g)
  PROVE  Chosen(g) \subseteq Slice
<1>1. g.ids \subseteq Slice
  BY DEF Group, Valid
<1> QED
  BY <1>1, ZeroIsSlice, DefaultAssumption DEF Chosen

LEMMA StoredTyped ==
  ASSUME TypeOK, phase = "options", optind <= Len(cmd), Option.opt = "s",
         NEW n \in Nat, n <= Len(Option.groups) + 1,
         \A k \in 1 .. n - 1 : Valid(Option.groups[k]),
         NEW s \in Space
  PROVE  StoredBefore(n, s) \subseteq Slice
<1>1. Option.groups \in Seq(Group)
  BY OptionTyped
<1>2. \A k \in 1 .. n - 1 : Option.groups[k] \in Group
  BY <1>1
<1>3. \A k \in 1 .. n - 1 : Chosen(Option.groups[k]) \subseteq Slice
  BY <1>2, ChosenTyped
<1>4. sel[s] \subseteq Slice
  BY DEF TypeOK
<1> QED
  BY <1>3, <1>4 DEF StoredBefore

LEMMA SelectedTyped ==
  ASSUME TypeOK, phase = "options", optind <= Len(cmd), Option.opt = "s",
         \A k \in DOMAIN Option.groups : Valid(Option.groups[k])
  PROVE  \A s \in Space : Selected(s) \subseteq Slice /\ sel[s] \subseteq Selected(s)
<1>1. Option.groups \in Seq(Group)
  BY OptionTyped
<1>2. Len(Option.groups) + 1 \in Nat
      /\ \A k \in 1 .. (Len(Option.groups) + 1) - 1 : Valid(Option.groups[k])
  BY <1>1
<1>3. \A s \in Space : StoredBefore(Len(Option.groups) + 1, s) \subseteq Slice
  BY <1>2, StoredTyped
<1> QED
  BY <1>3 DEF Selected, StoredBefore

(* Sets of slices are finite.                                               *)
LEMMA SliceSets ==
  ASSUME NEW S \in SUBSET Slice
  PROVE  IsFiniteSet(S) /\ Cardinality(S) \in Nat
<1>1. IsFiniteSet(Slice)
  BY SliceAssumption, FS_Interval DEF Slice
<1>2. IsFiniteSet(S)
  BY <1>1, FS_Subset
<1> QED
  BY <1>2, FS_CardinalityType

LEMMA CountedTyped ==
  ASSUME TypeOK, NEW s \in Space, Selected(s) \subseteq Slice
  PROVE  Counted(s) \in 0 .. CountRange - 1
<1>1. cnt[s] \in Nat /\ Cardinality(Selected(s)) \in Nat
  BY SliceSets, CountAssumption DEF TypeOK
<1> QED
  BY <1>1, CountAssumption DEF Counted

LEMMA DefaultTyped ==
  ASSUME TypeOK
  PROVE  /\ Default \in [Space -> SUBSET Slice]
         /\ \A s \in Space : sel[s] \subseteq Default[s]
         /\ Default["port"] = sel["port"]
<1>1. CASE Verbose /\ Sum(cnt) = 0
  <2>1. \A s \in Space :
          Default[s] = IF s = "cfg0" THEN sel[s] \cup {0} \cup VerboseCfg0
                       ELSE IF s = "cfg1" THEN sel[s] \cup {0} ELSE sel[s]
    BY <1>1 DEF Default, Space
  <2>2. \A s \in Space : sel[s] \subseteq Slice
    BY DEF TypeOK
  <2>3. \A s \in Space : Default[s] \in SUBSET Slice /\ sel[s] \subseteq Default[s]
    BY <2>1, <2>2, ZeroIsSlice, DefaultAssumption
  <2>4. Default \in [Space -> SUBSET Slice]
    <3> DEFINE chosen(s) == CASE s = "cfg0" -> sel[s] \cup {0} \cup VerboseCfg0
                              [] s = "cfg1" -> sel[s] \cup {0}
                              [] s = "port" -> sel[s]
    <3>1. Default = [s \in Space |-> chosen(s)]
      BY <1>1 DEF Default
    <3> HIDE DEF chosen
    <3> QED
      BY <2>3, <3>1
  <2> QED
    BY <2>1, <2>3, <2>4 DEF Space
<1>2. CASE ~ (Verbose /\ Sum(cnt) = 0)
  BY <1>2 DEF Default, TypeOK
<1> QED
  BY <1>1, <1>2

LEMMA LookedTyped ==
  ASSUME TypeOK, NEW s \in Space
  PROVE  Looked(s) \in SUBSET Slice
  BY ZeroIsSlice DEF TypeOK, Looked

----------------------------------------------------------------------------
(* No slice beyond the ends of the arrays is ever selected.                 *)
LEMMA StepTyped ==
  ASSUME TypeOK, [Next]_vars
  PROVE  TypeOK'
<1>1. CASE GiveFlag
  <2>1. Option.opt \in {"e", "v", "x"} /\ given' = given \cup {Option.opt}
    BY <1>1 DEF GiveFlag, Taking
  <2>2. optind' = optind + 1 /\ optind <= Len(cmd)
    BY <1>1 DEF GiveFlag, Taking
  <2>3. given' \subseteq {"e", "v", "x"}
    BY <2>1 DEF TypeOK
  <2> QED
    BY <1>1, <2>2, <2>3 DEF GiveFlag, TypeOK, entity
<1>2. CASE GivePort
  <2>1. Option.port \in 0 .. PortNum
    BY <1>2, OptionTyped DEF GivePort, Taking
  <2> QED
    BY <1>2, <2>1, PortAssumption DEF GivePort, Taking, TypeOK, entity
<1>3. CASE RefuseNumber
  BY <1>3 DEF RefuseNumber, Refuse, TypeOK, entity, command
<1>4. CASE GiveSlices \/ TooManySlices
  <2>1. \A s \in Space : Selected(s) \subseteq Slice
    BY <1>4, SelectedTyped DEF GiveSlices, TooManySlices, Taking
  <2>2. \A s \in Space : Counted(s) \in 0 .. CountRange - 1
    BY <2>1, CountedTyped
  <2>3. /\ sel' = [s \in Space |-> Selected(s)] /\ cnt' = [s \in Space |-> Counted(s)]
        /\ optind' \in {optind, optind + 1} /\ optind <= Len(cmd)
        /\ message' \in {message, "too_many_slices"} /\ phase' \in {phase, "exit"}
        /\ UNCHANGED <<cmd, port, given, entity, bits, queue, shown, missed, cut>>
    BY <1>4 DEF GiveSlices, TooManySlices, Refuse, Taking
  <2>4. sel' \in [Space -> SUBSET Slice] /\ cnt' \in [Space -> 0 .. CountRange - 1]
    <3> HIDE DEF Selected, Counted
    <3> QED
      BY <2>1, <2>2, <2>3
  <2> QED
    BY <2>3, <2>4 DEF TypeOK, entity
<1>5. CASE InvalidSlice
  <2>1. /\ Taking({"s"}) /\ Refuse("invalid_slice") /\ UNCHANGED <<cmd, optind, cnt, port, given>>
    BY <1>5 DEF InvalidSlice
  <2>2. Option.groups \in Seq(Group)
    BY <2>1, OptionTyped DEF Taking
  <2>3. PICK k \in DOMAIN Option.groups :
          /\ \A j \in 1 .. k - 1 : Valid(Option.groups[j])
          /\ \E part \in SUBSET (Option.groups[k].ids \ {Bad}) :
               sel' = [s \in Space |-> StoredBefore(k, s)
                                         \cup {i \in part : s = Option.groups[k].space}]
    BY <1>5 DEF InvalidSlice
  <2>4. PICK part \in SUBSET (Option.groups[k].ids \ {Bad}) :
          sel' = [s \in Space |-> StoredBefore(k, s)
                                    \cup {i \in part : s = Option.groups[k].space}]
    BY <2>3
  <2>5. part \subseteq Slice
    <3>1. Option.groups[k] \in Group
      BY <2>2
    <3> QED
      BY <2>4, <3>1 DEF Group
  <2>6. \A s \in Space : StoredBefore(k, s) \subseteq Slice
    BY <2>1, <2>2, <2>3, StoredTyped DEF Taking
  <2>7. sel' \in [Space -> SUBSET Slice]
    BY <2>4, <2>5, <2>6
  <2> QED
    BY <2>1, <2>7 DEF Refuse, TypeOK, entity
<1>6. CASE OptionsDone
  BY <1>6 DEF OptionsDone, TypeOK, command, entity
<1>7. CASE Check
  <2>1. Listing(Default) \subseteq Space \X Slice
    BY DEF Listing
  <2>2. queue' \subseteq Space \X Slice
    BY <1>7, <2>1 DEF Check, FirstOf
  <2> QED
    BY <1>7, <2>2, DefaultTyped DEF Check, TypeOK, entity
<1>8. CASE CheckFails
  BY <1>8, DefaultTyped DEF CheckFails, Refuse, TypeOK, entity
<1>9. ASSUME NEW x \in Space \X Slice, Show(x)
      PROVE  TypeOK'
  <2>1. x[1] \in Space /\ x[2] \in Slice
    BY <1>9
  <2>2. Finish(x) /\ missed' \in BOOLEAN /\ cut' \subseteq Space
    <3>1. cut \subseteq Space /\ missed \in BOOLEAN
      BY DEF TypeOK
    <3>2. cut' = cut \/ \E n \in 1 .. MaxSlice :
                           cut' = cut \cup {s \in {x[1]} : FirstBits(s, n) # caps[s]}
      BY <1>9 DEF Show, ShowBasic, SkipBasic, ShowCap, SkipCap, ShowHex, ReadFails
    <3>3. cut' \subseteq Space
      BY <2>1, <3>1, <3>2
    <3> QED
      BY <1>9, <3>1, <3>3 DEF Show, ShowBasic, SkipBasic, ShowCap, SkipCap, ShowHex, ReadFails
  <2>3. shown' = shown \/ shown' = shown \cup {x}
    BY <1>9 DEF Show, ShowBasic, SkipBasic, ShowCap, SkipCap, ShowHex, ReadFails
  <2>4. /\ Looked(x[1]) \in SUBSET Slice
        /\ \A n \in 1 .. MaxSlice : FirstBits(x[1], n) \cup {0} \in SUBSET Slice
    BY <2>1, ZeroIsSlice, LookedTyped DEF TypeOK, FirstBits
  <2>5. \/ bits' = bits
        \/ \E n \in 1 .. MaxSlice :
             bits' = [bits EXCEPT ![x[1]] = FirstBits(x[1], n) \cup {0}]
        \/ bits' = [bits EXCEPT ![x[1]] = Looked(x[1])]
    BY <1>9 DEF Show, ShowBasic, SkipBasic, ShowCap, SkipCap, ShowHex, ReadFails
  <2>6. bits' \in [Space -> {Unread} \cup SUBSET Slice]
    <3>1. bits \in [Space -> {Unread} \cup SUBSET Slice]
      BY DEF TypeOK
    <3>2. bits' = bits \/ \E kept \in SUBSET Slice : bits' = [bits EXCEPT ![x[1]] = kept]
      <4> HIDE DEF FirstBits, Looked
      <4> QED
        BY <2>4, <2>5
    <3> QED
      BY <2>1, <3>1, <3>2
  <2> QED
    BY <2>2, <2>3, <2>6 DEF Finish, TypeOK, command, entity
<1>10. CASE ShowDone
  BY <1>10 DEF ShowDone, TypeOK, command, entity
<1>11. CASE UNCHANGED vars
  BY <1>11 DEF vars, TypeOK, command, entity
<1> QED
  BY <1>1, <1>2, <1>3, <1>4, <1>5, <1>6, <1>7, <1>8, <1>9, <1>10, <1>11
     DEF Next, Tool, Exited

LEMMA InitTyped == Init => TypeOK
<1> SUFFICES ASSUME Init PROVE TypeOK
  OBVIOUS
<1>1. cmd \in Seq(Options) /\ optind \in 1 .. Len(cmd) + 1
  BY CommandLinesAssumption DEF Init
<1>2. sel \in [Space -> SUBSET Slice] /\ cnt \in [Space -> 0 .. CountRange - 1]
  BY CountAssumption DEF Init
<1>3. caps \in [Space -> SUBSET (Slice \ {0})] /\ port \in Nat
  BY PortAssumption, BitmapsAssumption DEF Init, InvalidPort
<1>4. bits \in [Space -> {Unread} \cup SUBSET Slice]
  BY DEF Init
<1> QED
  BY <1>1, <1>2, <1>3, <1>4 DEF Init, TypeOK

(* Whatever lists of slices the options give and wherever they are refused, *)
(* every slice that is set exists.                                          *)
THEOREM SlicesTyped == Spec => []TypeOK
  BY InitTyped, StepTyped, PTL DEF Spec

----------------------------------------------------------------------------
(* What -v has shown of a selection so far; the bitmaps it looked at.       *)
Missing ==
  {x \in Listing(sel) : Supported(x) /\ (x[2] = 0 \/ x[1] \notin cut)} \ shown

(* A bitmap that is kept is that of the entity, or the beginning of it in a *)
(* space whose basic slice ended too soon.                                  *)
Kept(s) ==
  bits[s] # Unread =>
    /\ 0 \in bits[s] /\ bits[s] \subseteq caps[s] \cup {0}
    /\ s \notin cut => bits[s] = caps[s] \cup {0}

Progress ==
  /\ \A s \in Space : Kept(s)
  /\ phase \in {"options", "check"} => queue = {} /\ shown = {} /\ ~ missed
  /\ phase \in {"show", "done"} => queue \subseteq Listing(sel) /\ shown \subseteq Listing(sel)
  /\ Verbose /\ phase \in {"show", "done"} =>
       /\ \A x \in shown : Supported(x)
       /\ ~ missed => Missing \subseteq queue
  /\ phase = "done" => queue = {}

LEMMA LookedExact ==
  ASSUME Progress, NEW s \in Space
  PROVE  /\ 0 \in Looked(s) /\ Looked(s) \subseteq caps[s] \cup {0}
         /\ s \notin cut => Looked(s) = caps[s] \cup {0}
  BY DEF Progress, Kept, Looked

(* The bitmaps that are kept after a step of show_slice.                    *)
LEMMA StepKept ==
  ASSUME TypeOK, Progress, NEW x \in Space \X Slice, Show(x), UNCHANGED caps
  PROVE  cut \subseteq cut' /\ \A s \in Space : Kept(s)'
<1>1. x[1] \in Space /\ bits \in [Space -> {Unread} \cup SUBSET Slice]
  BY DEF TypeOK
<1>2. \A s \in Space : Kept(s)
  BY DEF Progress
<1>3. CASE bits' = bits /\ cut' = cut
  BY <1>2, <1>3 DEF Kept
<1>4. CASE bits' = [bits EXCEPT ![x[1]] = Looked(x[1])] /\ cut' = cut
  BY <1>1, <1>2, <1>4, LookedExact DEF Kept
<1>5. ASSUME NEW n \in 1 .. MaxSlice,
             bits' = [bits EXCEPT ![x[1]] = FirstBits(x[1], n) \cup {0}],
             cut' = cut \cup {s \in {x[1]} : FirstBits(s, n) # caps[s]}
      PROVE  cut \subseteq cut' /\ \A s \in Space : Kept(s)'
  <2>1. cut \subseteq cut' /\ (x[1] \notin cut' => FirstBits(x[1], n) = caps[x[1]])
    BY <1>5
  <2>2. FirstBits(x[1], n) \subseteq caps[x[1]]
    BY DEF FirstBits
  <2>3. bits'[x[1]] = FirstBits(x[1], n) \cup {0}
    BY <1>1, <1>5
  <2>4. \A s \in Space \ {x[1]} : bits'[s] = bits[s]
    BY <1>1, <1>5
  <2>5. ASSUME NEW s \in Space, s # x[1]
        PROVE  Kept(s)'
    BY <1>2, <2>1, <2>4, <2>5 DEF Kept
  <2>6. Kept(x[1])'
    BY <1>5, <2>1, <2>2, <2>3 DEF Kept, Show, ShowBasic, SkipBasic, ShowCap, SkipCap,
       ShowHex, ReadFails, Finish
  <2> QED
    BY <2>1, <2>5, <2>6
<1> QED
  BY <1>3, <1>4, <1>5
     DEF Show, ShowBasic, SkipBasic, ShowCap, SkipCap, ShowHex, ReadFails

(* One slice is done: it is shown if it is supported and was read.          *)
LEMMA SliceProgress ==
  ASSUME Progress, phase = "show", NEW x \in Space \X Slice, Finish(x), x \in queue,
         cut \subseteq cut', \A s \in Space : Kept(s)',
         shown' \in {shown, shown \cup {x}},
         missed' = missed \/ missed' = TRUE,
         Verbose /\ shown' = shown \cup {x} => Supported(x) \/ x \in shown,
         Verbose /\ ~ missed' =>
           ~ missed /\ (Supported(x) /\ (x[2] = 0 \/ x[1] \notin cut') => x \in shown')
  PROVE  Progress'
<1>1. UNCHANGED <<sel, given, caps, primary, phase>> /\ queue' = queue \ {x}
  BY DEF Finish, command, entity
<1>2. x \in Listing(sel)
  BY DEF Progress
<1>3. \A s \in Space : Kept(s)'
  OBVIOUS
<1>4. queue' \subseteq Listing(sel) /\ shown' \subseteq Listing(sel)
  BY <1>1, <1>2 DEF Progress
<1>5. Listing(sel)' = Listing(sel) /\ \A y : Supported(y)' <=> Supported(y)
  BY <1>1 DEF Listing, Supported
<1>6. ASSUME Verbose
      PROVE  /\ \A y \in shown' : Supported(y)
             /\ ~ missed' => Missing' \subseteq queue'
  <2>1. \A y \in shown' : Supported(y)
    BY <1>6 DEF Progress
  <2>2. ASSUME ~ missed'
        PROVE  Missing' \subseteq queue'
    <3>1. ~ missed /\ (Supported(x) /\ (x[2] = 0 \/ x[1] \notin cut') => x \in shown')
      BY <1>6, <2>2
    <3>2. Missing' = {y \in Listing(sel) : Supported(y) /\ (y[2] = 0 \/ y[1] \notin cut')}
                       \ shown'
      BY <1>5 DEF Missing
    <3>3. Missing \subseteq queue
      BY <1>6, <3>1 DEF Progress
    <3> QED
      BY <1>1, <3>1, <3>2, <3>3 DEF Missing
  <2> QED
    BY <2>1, <2>2
<1>7. Verbose' <=> Verbose
  BY <1>1 DEF Verbose
<1>8. phase' = "show"
  BY <1>1
<1> HIDE DEF Verbose, Supported, Listing, Missing
<1> QED
  BY <1>1, <1>3, <1>4, <1>5, <1>6, <1>7, <1>8 DEF Progress

LEMMA StepProgress ==
  ASSUME TypeOK, Progress, [Next]_vars
  PROVE  Progress'
<1> DEFINE Same == UNCHANGED <<caps, primary, bits, queue, shown, missed, cut>>
<1>1. ASSUME Same, phase \in {"options", "check"}, phase' \in {"options", "check", "exit"}
      PROVE  Progress'
  BY <1>1 DEF Progress, Kept
<1>2. CASE GiveFlag \/ GivePort \/ RefuseNumber \/ GiveSlices \/ InvalidSlice
           \/ TooManySlices \/ OptionsDone
  BY <1>1, <1>2 DEF GiveFlag, GivePort, RefuseNumber, GiveSlices, InvalidSlice,
                    TooManySlices, OptionsDone, Taking, Refuse, entity
<1>3. CASE CheckFails
  BY <1>1, <1>3 DEF CheckFails, Refuse, entity
<1>4. CASE Check
  <2>1. /\ queue = {} /\ shown = {} /\ ~ missed
        /\ sel' = Default /\ queue' \subseteq Listing(Default)
        /\ Verbose => queue' = Listing(Default)
        /\ phase' = "show" /\ UNCHANGED <<given, caps, primary, bits, shown, missed, cut>>
    BY <1>4 DEF Check, Progress, Hex, FirstOf, entity
  <2>2. Listing(sel)' = Listing(Default)
    BY <2>1 DEF Listing
  <2>3. Missing' \subseteq Listing(Default)
    BY <2>1, <2>2 DEF Missing
  <2>4. Verbose' <=> Verbose
    BY <2>1 DEF Verbose
  <2>5. \A s \in Space : Kept(s)'
    BY <2>1 DEF Progress, Kept
  <2> QED
    BY <2>1, <2>2, <2>3, <2>4, <2>5 DEF Progress
<1>5. ASSUME NEW x \in Space \X Slice, Show(x)
      PROVE  Progress'
  <2>1. x[1] \in Space /\ x[2] \in Slice
    BY <1>5
  <2>2. /\ 0 \in Looked(x[1]) /\ Looked(x[1]) \subseteq caps[x[1]] \cup {0}
        /\ x[1] \notin cut => Looked(x[1]) = caps[x[1]] \cup {0}
    BY <2>1, LookedExact
  <2>3. phase = "show" /\ Finish(x) /\ x \in queue
    BY <1>5
       DEF Show, ShowBasic, SkipBasic, ShowCap, SkipCap, ShowHex, ReadFails, IsNext
  <2>4. UNCHANGED caps
    BY <2>3 DEF Finish, entity
  <2>5. cut \subseteq cut' /\ \A s \in Space : Kept(s)'
    BY <1>5, <2>4, StepKept
  <2>6. /\ shown' \in {shown, shown \cup {x}} /\ (missed' = missed \/ missed' = TRUE)
    BY <1>5 DEF Show, ShowBasic, SkipBasic, ShowCap, SkipCap, ShowHex, ReadFails
  <2>7. ASSUME Verbose, ~ missed'
        PROVE  ~ missed /\ (Supported(x) /\ (x[2] = 0 \/ x[1] \notin cut') => x \in shown')
    <3>1. CASE ShowBasic(x)
      BY <2>7, <3>1 DEF ShowBasic
    <3>2. CASE SkipBasic(x)
      BY <2>7, <3>2 DEF SkipBasic, Skipped, Supported
    <3>3. CASE ShowCap(x)
      BY <2>2, <2>7, <3>3 DEF ShowCap, Skipped, Supported
    <3>4. CASE SkipCap(x)
      BY <2>7, <3>4 DEF SkipCap, Supported
    <3> QED
      BY <1>5, <2>7, <3>1, <3>2, <3>3, <3>4 DEF Show, ShowHex, ReadFails, Hex
  <2>8. ASSUME Verbose, shown' = shown \cup {x}
        PROVE  Supported(x) \/ x \in shown
    <3>1. CASE ShowBasic(x)
      BY <3>1 DEF ShowBasic, Skipped, Supported
    <3>2. CASE ShowCap(x)
      BY <2>2, <2>8, <3>2 DEF ShowCap, Skipped, Supported
    <3> QED
      BY <1>5, <2>8, <3>1, <3>2 DEF Show, ShowHex, SkipBasic, SkipCap, ReadFails, Hex
  <2> QED
    BY <2>3, <2>5, <2>6, <2>7, <2>8, SliceProgress
<1>6. CASE ShowDone
  BY <1>6 DEF ShowDone, Progress, Kept, command, entity, Verbose, Missing, Supported, Listing
<1>7. CASE UNCHANGED vars
  BY <1>7 DEF vars, command, entity, Progress, Kept, Verbose, Missing, Supported, Listing
<1> QED
  BY <1>2, <1>3, <1>4, <1>5, <1>6, <1>7 DEF Next, Tool, Exited

LEMMA ProgressExact == Progress => ShownExactly
  BY DEF Progress, ShownExactly, Missing

(* -v shows of the selection what the entity has and a printer exists for,  *)
(* no more, and no less if every read succeeds and the basic slices hold    *)
(* the whole bitmap of their space.                                         *)
THEOREM ShowsExactly == Spec => []ShownExactly
<1>1. Init => Progress
  BY DEF Init, Progress, Kept
<1>2. TypeOK /\ Progress /\ [Next]_vars => Progress'
  BY StepProgress
<1> QED
  BY <1>1, <1>2, SlicesTyped, ProgressExact, PTL DEF Spec

----------------------------------------------------------------------------
(* As long as no count wraps, a count is at least the number of slices set, *)
(* and is zero if none is.                                                  *)
Counts ==
  phase \in {"options", "check"} =>
    /\ Sum(cnt) <= LsMaxSlice
    /\ NoWrap => \A s \in Space : /\ Cardinality(sel[s]) <= cnt[s]
                                  /\ sel[s] = {} => cnt[s] = 0

LEMMA CountsAreNumbers ==
  ASSUME TypeOK, NEW s \in Space
  PROVE  cnt[s] \in Nat /\ sel[s] \in SUBSET Slice /\ cnt[s] <= Sum(cnt)
<1>1. \A r \in Space : cnt[r] \in Nat
  BY CountAssumption DEF TypeOK
<1>2. cnt[s] <= Sum(cnt)
  BY <1>1 DEF Sum, Space
<1> QED
  BY <1>1, <1>2 DEF TypeOK

LEMMA SmallerCardinality ==
  ASSUME NEW S \in SUBSET Slice, NEW T \in SUBSET S
  PROVE  Cardinality(T) <= Cardinality(S)
  BY SliceSets, FS_Subset

(* A selection that only grew wraps no count if the larger one wraps none.  *)
LEMMA NoWrapBefore ==
  ASSUME TypeOK, NEW chosen \in [Space -> SUBSET Slice],
         \A s \in Space : sel[s] \subseteq chosen[s],
         \A s \in Space : Cardinality(chosen[s]) < CountRange - LsMaxSlice
  PROVE  NoWrap
<1> SUFFICES ASSUME NEW s \in Space
             PROVE  Cardinality(sel[s]) < CountRange - LsMaxSlice
  BY DEF NoWrap
<1>1. Cardinality(sel[s]) <= Cardinality(chosen[s])
  BY SmallerCardinality
<1>2. Cardinality(sel[s]) \in Nat /\ Cardinality(chosen[s]) \in Nat
  BY SliceSets DEF TypeOK
<1> QED
  BY <1>1, <1>2, SliceAssumption, CountAssumption

LEMMA GivenCounts ==
  ASSUME TypeOK, Counts, GiveSlices
  PROVE  Counts'
<1>1. /\ phase = "options" /\ sel' = [s \in Space |-> Selected(s)]
      /\ cnt' = [s \in Space |-> Counted(s)]
      /\ Sum([s \in Space |-> Counted(s)]) <= LsMaxSlice
  BY DEF GiveSlices, Taking
<1>2. \A s \in Space : Selected(s) \subseteq Slice /\ sel[s] \subseteq Selected(s)
  BY SelectedTyped DEF GiveSlices, Taking
<1> HIDE DEF Selected, Counted
<1>3. \A s \in Space : sel'[s] = Selected(s) /\ cnt'[s] = Counted(s)
  BY <1>1
<1>4. Sum(cnt') <= LsMaxSlice
  BY <1>1
<1>5. ASSUME NoWrap', NEW s \in Space
      PROVE  /\ Cardinality(sel'[s]) <= cnt'[s]
             /\ sel'[s] = {} => cnt'[s] = 0
  <2>1. sel' \in [Space -> SUBSET Slice]
    BY <1>1, <1>2
  <2>2. \A r \in Space : Cardinality(sel'[r]) < CountRange - LsMaxSlice
    BY <1>5 DEF NoWrap
  <2>3. NoWrap
    BY <1>2, <1>3, <2>1, <2>2, NoWrapBefore
  <2>4. /\ Sum(cnt) <= LsMaxSlice /\ Cardinality(sel[s]) <= cnt[s]
        /\ sel[s] = {} => cnt[s] = 0
    BY <1>1, <2>3 DEF Counts
  <2>5. cnt[s] \in Nat /\ cnt[s] <= Sum(cnt) /\ Sum(cnt) \in Nat
    <3>1. \A r \in Space : cnt[r] \in Nat
      BY CountsAreNumbers
    <3> QED
      BY <3>1, CountsAreNumbers DEF Sum, Space
  <2>6. Cardinality(Selected(s)) \in Nat
    BY <1>2, SliceSets
  <2>7. cnt[s] + Cardinality(Selected(s)) \in 0 .. CountRange - 1
    BY <1>3, <2>2, <2>4, <2>5, <2>6, SliceAssumption, CountAssumption
  <2>8. Counted(s) = cnt[s] + Cardinality(Selected(s))
    BY <2>7, CountAssumption DEF Counted
  <2>9. Cardinality(sel'[s]) <= cnt'[s]
    BY <1>3, <2>5, <2>6, <2>8
  <2>10. ASSUME sel'[s] = {}
         PROVE  cnt'[s] = 0
    <3>1. sel[s] = {} /\ Cardinality(Selected(s)) = 0
      BY <1>2, <1>3, <2>10, FS_EmptySet
    <3> QED
      BY <1>3, <2>4, <2>8, <3>1
  <2> QED
    BY <2>9, <2>10
<1>6. Sum(cnt)' <= LsMaxSlice
  BY <1>4 DEF Sum
<1> QED
  BY <1>5, <1>6 DEF Counts

LEMMA StepCounts ==
  ASSUME TypeOK, Counts, [Next]_vars
  PROVE  Counts'
<1>1. CASE GiveSlices
  BY <1>1, GivenCounts
<1>2. CASE GiveFlag \/ GivePort \/ OptionsDone
  BY <1>2 DEF GiveFlag, GivePort, OptionsDone, Taking, command, Counts, NoWrap, Sum
<1>3. CASE RefuseNumber \/ InvalidSlice \/ TooManySlices \/ CheckFails
  BY <1>3 DEF RefuseNumber, InvalidSlice, TooManySlices, CheckFails, Refuse, Counts
<1>4. CASE Check \/ ShowDone
  BY <1>4 DEF Check, ShowDone, Counts
<1>5. CASE \E x \in Space \X Slice : Show(x)
  BY <1>5 DEF Show, ShowBasic, SkipBasic, ShowCap, SkipCap, ShowHex, ReadFails, Finish,
              Counts
<1>6. CASE UNCHANGED vars
  BY <1>6 DEF vars, command, Counts, NoWrap, Sum
<1> QED
  BY <1>1, <1>2, <1>3, <1>4, <1>5, <1>6 DEF Next, Tool, Exited

(* With one slice counted, one is selected.                                 *)
LEMMA SoleSlice ==
  ASSUME TypeOK, \A s \in Space : /\ Cardinality(sel[s]) <= cnt[s]
                                  /\ sel[s] = {} => cnt[s] = 0,
         Sum(cnt) = 1
  PROVE  Cardinality(Listing(sel)) = 1
<1>1. \A s \in Space : cnt[s] \in Nat /\ sel[s] \in SUBSET Slice
  BY CountsAreNumbers
<1>2. PICK s \in Space : cnt[s] = 1 /\ \A r \in Space \ {s} : cnt[r] = 0
  <2>1. cnt["cfg0"] \in Nat /\ cnt["cfg1"] \in Nat /\ cnt["port"] \in Nat
        /\ cnt["cfg0"] + cnt["cfg1"] + cnt["port"] = 1
    BY <1>1 DEF Sum, Space
  <2>2. \/ cnt["cfg0"] = 1 /\ cnt["cfg1"] = 0 /\ cnt["port"] = 0
        \/ cnt["cfg0"] = 0 /\ cnt["cfg1"] = 1 /\ cnt["port"] = 0
        \/ cnt["cfg0"] = 0 /\ cnt["cfg1"] = 0 /\ cnt["port"] = 1
    BY <2>1
  <2> QED
    BY <2>2 DEF Space
<1>3. \A r \in Space \ {s} : sel[r] = {}
  <2> SUFFICES ASSUME NEW r \in Space \ {s}
               PROVE  sel[r] = {}
    OBVIOUS
  <2>1. IsFiniteSet(sel[r]) /\ Cardinality(sel[r]) \in Nat /\ Cardinality(sel[r]) <= 0
    BY <1>1, <1>2, SliceSets
  <2>2. Cardinality(sel[r]) = 0
    BY <2>1
  <2> QED
    BY <2>1, <2>2, FS_EmptySet
<1>4. PICK i \in Slice : sel[s] = {i}
  <2>1. IsFiniteSet(sel[s]) /\ Cardinality(sel[s]) \in Nat /\ Cardinality(sel[s]) <= 1
    BY <1>1, <1>2, SliceSets
  <2>2. sel[s] # {}
    BY <1>2
  <2>3. Cardinality(sel[s]) # 0
    BY <2>1, <2>2, FS_EmptySet
  <2>4. Cardinality(sel[s]) = 1
    BY <2>1, <2>3
  <2>5. \E i : sel[s] = {i}
    BY <2>1, <2>4, FS_Singleton
  <2> QED
    BY <1>1, <2>5
<1>5. Listing(sel) = {<<s, i>>}
  BY <1>3, <1>4 DEF Listing
<1> QED
  BY <1>5, FS_Singleton

(* What the check lets pass.                                                *)
Passed ==
  phase \in {"show", "done"} =>
    /\ queue \cup shown \subseteq Listing(sel)
    /\ Hex /\ NoWrap => Cardinality(Listing(sel)) = 1
    /\ NoWrap /\ sel["port"] # {} => port < PortNum

LEMMA CheckPasses ==
  ASSUME TypeOK, Counts, Progress, Check
  PROVE  Passed'
<1>1. /\ phase = "check" /\ (Hex => Sum(cnt) = 1) /\ ~ PortMissing /\ ~ PortUnknown
      /\ sel' = Default /\ shown' = shown /\ queue' \subseteq Listing(Default)
      /\ port' = port /\ given' = given
  BY DEF Check, FirstOf
<1>2. Listing(sel)' = Listing(Default) /\ shown' = {} /\ (Hex' <=> Hex)
  BY <1>1 DEF Listing, Progress, Hex, Verbose
<1>3. ASSUME NoWrap'
      PROVE  \A s \in Space : /\ Cardinality(sel[s]) <= cnt[s]
                              /\ sel[s] = {} => cnt[s] = 0
  <2>1. \A s \in Space : Cardinality(Default[s]) < CountRange - LsMaxSlice
    BY <1>1, <1>3 DEF NoWrap
  <2>2. NoWrap
    BY <2>1, DefaultTyped, NoWrapBefore
  <2> QED
    BY <1>1, <2>2 DEF Counts
<1>4. ASSUME NoWrap', Hex
      PROVE  Cardinality(Listing(sel)') = 1
  <2>1. Cardinality(Listing(sel)) = 1
    BY <1>1, <1>3, <1>4, SoleSlice
  <2>2. Default = sel
    BY <1>4 DEF Default, Hex
  <2> QED
    BY <1>2, <2>1, <2>2
<1>5. ASSUME NoWrap', sel'["port"] # {}
      PROVE  port < PortNum
  <2>1. "port" \in Space /\ sel'["port"] = sel["port"]
    BY <1>1, DefaultTyped DEF Space
  <2>2. Cardinality(sel["port"]) <= cnt["port"]
    BY <1>3, <1>5, <2>1
  <2>3. IsFiniteSet(sel["port"]) /\ Cardinality(sel["port"]) \in Nat /\ cnt["port"] \in Nat
    BY <2>1, CountsAreNumbers, SliceSets
  <2>4. cnt["port"] # 0
    BY <1>5, <2>1, <2>2, <2>3, FS_EmptySet
  <2>5. port # InvalidPort /\ ~ (port >= PortNum)
    BY <1>1, <2>4 DEF PortMissing, PortUnknown
  <2> QED
    BY <2>5, PortAssumption DEF TypeOK
<1> QED
  BY <1>1, <1>2, <1>4, <1>5 DEF Passed

LEMMA StepPassed ==
  ASSUME TypeOK, Counts, Progress, Passed, [Next]_vars
  PROVE  Passed'
<1>1. CASE Check
  BY <1>1, CheckPasses
<1>2. CASE GiveFlag \/ GivePort \/ RefuseNumber \/ GiveSlices \/ InvalidSlice
           \/ TooManySlices \/ OptionsDone \/ CheckFails
  BY <1>2 DEF GiveFlag, GivePort, RefuseNumber, GiveSlices, InvalidSlice,
              TooManySlices, OptionsDone, CheckFails, Refuse, Taking, Passed
<1>3. ASSUME UNCHANGED <<command, phase>>, queue' \cup shown' \subseteq queue \cup shown
      PROVE  Passed'
  BY <1>3 DEF command, Passed, Hex, Verbose, NoWrap, Listing
<1>4. ASSUME NEW x \in Space \X Slice, Show(x)
      PROVE  Passed'
  <2>1. x \in queue /\ Finish(x) /\ shown' \in {shown, shown \cup {x}}
    BY <1>4
       DEF Show, ShowBasic, SkipBasic, ShowCap, SkipCap, ShowHex, ReadFails, IsNext
  <2> QED
    BY <1>3, <2>1 DEF Finish
<1>5. CASE ShowDone
  BY <1>5 DEF ShowDone, command, Passed, Hex, Verbose, NoWrap, Listing
<1>6. CASE UNCHANGED vars
  BY <1>3, <1>6 DEF vars
<1> QED
  BY <1>1, <1>2, <1>4, <1>5, <1>6 DEF Next, Tool, Exited

LEMMA PassedInvariant == Spec => []Passed
<1>1. Init => Counts /\ Progress /\ Passed
  <2> SUFFICES ASSUME Init PROVE Counts /\ Progress /\ Passed
    OBVIOUS
  <2>1. \A s \in Space : cnt[s] = 0 /\ Cardinality(sel[s]) = 0
    BY FS_EmptySet DEF Init
  <2>2. Sum(cnt) = 0
    BY <2>1 DEF Sum, Space
  <2>3. Counts
    BY <2>1, <2>2, SliceAssumption DEF Counts
  <2> QED
    BY <2>3 DEF Init, Progress, Kept, Passed
<1>2. TypeOK /\ Progress /\ [Next]_vars => Progress'
  BY StepProgress
<1>3. TypeOK /\ Counts /\ [Next]_vars => Counts'
  BY StepCounts
<1>4. TypeOK /\ Counts /\ Progress /\ Passed /\ [Next]_vars => Passed'
  BY StepPassed
<1> QED
  BY <1>1, <1>2, <1>3, <1>4, SlicesTyped, PTL DEF Spec

(* -x dumps the one slice that is selected, and nothing else, over however  *)
(* many -s options the selection was spread.                                *)
THEOREM HexShowsOne == Spec => []HexSole
<1>1. Passed => HexSole
  BY DEF Passed, HexSole
<1> QED
  BY <1>1, PassedInvariant, PTL

(* A slice of a port is only read if -p named a port the entity has.        *)
THEOREM PortIsNamed == Spec => []PortSlicesNeedPort
<1>1. Passed => PortSlicesNeedPort
  BY DEF Passed, PortSlicesNeedPort, Listing
<1> QED
  BY <1>1, PassedInvariant, PTL
=============================================================================
