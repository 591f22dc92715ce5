------------------------- MODULE BusInstancesProofs -------------------------
(****************************************************************************)
(* What "lsub -b" prints, proved for every number of instances, entities,   *)
(* lines in a page, changes and other readers.                              *)
(*                                                                          *)
(* Parsed is recursive: facts about it are proved by induction on the       *)
(* length of the lines, as facts about the set of sequences that satisfy    *)
(* them (SequenceInduction).                                                *)
(****************************************************************************)
EXTENDS BusInstances, SequenceTheorems, FiniteSetTheorems,
        WellFoundedInduction, TLAPS

LEMMA SmallestOf ==
  ASSUME NEW S \in SUBSET Nat, S # {}
  PROVE  \E n \in S : \A m \in S : n <= m
<1> DEFINE Below == OpToRel(<, Nat)
<1>1. IsWellFoundedOn(Below, Nat)
  BY NatLessThanWellFounded
<1>2. \A m, n \in Nat : m < n => <<m, n>> \in Below
  BY DEF OpToRel
<1> HIDE DEF Below
<1>3. PICK n \in S : \A m \in S : ~ (<<m, n>> \in Below)
  BY <1>1, WFMin
<1>4. \A m \in S : m \in Nat /\ n \in Nat /\ ~ (m < n)
  BY <1>2, <1>3
<1> QED
  BY <1>3, <1>4

(* A set that holds 0 and the successor of all its members, up to N.        *)
LEMMA UpToInduction ==
  ASSUME NEW N \in Nat, NEW P,
         0 \in P, \A n \in 0 .. N : n \in P /\ n < N => n + 1 \in P
  PROVE  \A n \in 0 .. N : n \in P
<1> DEFINE Rest == {n \in 0 .. N : n \notin P}
<1> SUFFICES ASSUME Rest # {} PROVE FALSE
  OBVIOUS
<1>1. PICK n \in Rest : \A m \in Rest : n <= m
  <2>1. Rest \in SUBSET Nat
    OBVIOUS
  <2> HIDE DEF Rest
  <2> QED
    BY <2>1, SmallestOf
<1>2. n \in 1 .. N /\ n \notin P
  BY <1>1
<1>3. n - 1 \in 0 .. N /\ n - 1 < N /\ (n - 1) + 1 = n /\ ~ (n <= n - 1)
  BY <1>2
<1>4. n - 1 \in P
  BY <1>1, <1>3
<1> QED
  BY <1>2, <1>3, <1>4

LEMMA SequenceInduction ==
  ASSUME NEW T, NEW P \in SUBSET Seq(T), <<>> \in P,
         \A s \in P, e \in T : Append(s, e) \in P
  PROVE  P = Seq(T)
<1> DEFINE Rest == {s \in Seq(T) : s \notin P}
           Lengths == {Len(s) : s \in Rest}
<1> SUFFICES ASSUME Rest # {} PROVE FALSE
  OBVIOUS
<1>1. Lengths \in SUBSET Nat /\ Lengths # {}
  <2>1. \A s \in Rest : Len(s) \in Nat
    BY LenProperties
  <2> QED
    BY <2>1
<1>2. PICK n \in Lengths : \A m \in Lengths : n <= m
  <2> HIDE DEF Lengths
  <2> QED
    BY <1>1, SmallestOf
<1>3. PICK s \in Rest : Len(s) = n
  BY <1>2
<1>4. s \in Seq(T) /\ s \notin P /\ s # <<>>
  BY <1>3
<1>5. PICK t \in Seq(T), e \in T : s = Append(t, e)
  BY <1>4, SequenceEmptyOrAppend
<1>6. Len(s) = Len(t) + 1 /\ Len(t) \in Nat
  BY <1>5, AppendProperties, LenProperties
<1>7. t \in P
  <2> SUFFICES ASSUME t \in Rest PROVE FALSE
    BY <1>5
  <2>1. Len(t) \in Lengths
    OBVIOUS
  <2>2. n <= Len(t)
    BY <1>2, <2>1
  <2> QED
    BY <1>3, <1>6, <2>2
<1> QED
  BY <1>4, <1>5, <1>7


(****************************************************************************)
(* Parsed, line by line.                                                    *)
(****************************************************************************)

(* What the recursive function of Parsed is: f[n] stands for its value      *)
(* after n lines.                                                           *)
IsUpTo(f, lines, N) ==
  /\ f \in [0 .. N -> Seq(Instance)]
  /\ f[0] = <<>>
  /\ \A n \in 0 .. N : n < N => f[n + 1] = Added(f[n], lines[n + 1])

LEMMA AddedTyped ==
  ASSUME NEW bis \in Seq(Instance), NEW b \in Instance
  PROVE  Added(bis, b) \in Seq(Instance)
BY AppendProperties DEF Added

LEMMA UpToExists ==
  ASSUME NEW lines \in Seq(Instance)
  PROVE  \E f : IsUpTo(f, lines, Len(lines))
<1> DEFINE P == {n \in Nat : \E f : IsUpTo(f, lines, n)}
<1>1. Len(lines) \in Nat /\ \A n \in 1 .. Len(lines) : lines[n] \in Instance
  BY LenProperties, ElementOfSeq
<1>2. 0 \in P
  <2> DEFINE f == [n \in 0 .. 0 |-> <<>>]
  <2>1. IsUpTo(f, lines, 0)
    BY EmptySeq DEF IsUpTo
  <2> QED
    BY <2>1
<1>3. ASSUME NEW n \in 0 .. Len(lines), n \in P, n < Len(lines)
      PROVE  n + 1 \in P
  <2>1. PICK f : IsUpTo(f, lines, n)
    BY <1>3
  <2> DEFINE g == [k \in 0 .. n + 1 |->
                     IF k <= n THEN f[k] ELSE Added(f[n], lines[n + 1])]
  <2>2. f[n] \in Seq(Instance) /\ lines[n + 1] \in Instance
    BY <1>1, <1>3, <2>1 DEF IsUpTo
  <2>3. Added(f[n], lines[n + 1]) \in Seq(Instance)
    BY <2>2, AddedTyped
  <2>4. g \in [0 .. n + 1 -> Seq(Instance)]
    BY <1>3, <2>1, <2>3 DEF IsUpTo
  <2>5. g[0] = <<>>
    BY <1>3, <2>1 DEF IsUpTo
  <2>6. ASSUME NEW k \in 0 .. n + 1, k < n + 1
        PROVE  g[k + 1] = Added(g[k], lines[k + 1])
    <3>1. k \in 0 .. n /\ k + 1 \in 0 .. n + 1 /\ g[k] = f[k]
      BY <1>3, <2>6
    <3>2. CASE k < n
      <4>1. f[k + 1] = Added(f[k], lines[k + 1])
        BY <2>1, <3>1, <3>2 DEF IsUpTo
      <4>2. g[k + 1] = f[k + 1]
        BY <1>3, <3>1, <3>2
      <4> QED
        BY <3>1, <4>1, <4>2
    <3>3. CASE k = n
      BY <1>3, <3>1, <3>3
    <3> QED
      BY <1>3, <3>1, <3>2, <3>3
  <2>7. IsUpTo(g, lines, n + 1)
    <3> HIDE DEF g
    <3> QED
      BY <2>4, <2>5, <2>6 DEF IsUpTo
  <2> QED
    BY <1>3, <2>7
<1>4. Len(lines) \in P
  <2> HIDE DEF P
  <2>1. \A n \in 0 .. Len(lines) : n \in P
    BY <1>1, <1>2, <1>3, UpToInduction
  <2> QED
    BY <1>1, <2>1
<1> QED
  BY <1>4

(* Any two agree on the lines they share.                                   *)
LEMMA UpToAgree ==
  ASSUME NEW N \in Nat, NEW s, NEW t, NEW f, NEW g, NEW M \in Nat, N <= M,
         IsUpTo(f, s, N), IsUpTo(g, t, M), \A n \in 1 .. N : s[n] = t[n]
  PROVE  \A n \in 0 .. N : f[n] = g[n]
<1> DEFINE P == {n \in 0 .. N : f[n] = g[n]}
<1>1. 0 \in P
  BY DEF IsUpTo
<1>2. ASSUME NEW n \in 0 .. N, n \in P, n < N
      PROVE  n + 1 \in P
  <2>1. f[n + 1] = Added(f[n], s[n + 1])
    BY <1>2 DEF IsUpTo
  <2>2. n \in 0 .. M /\ n < M
    BY <1>2
  <2>3. g[n + 1] = Added(g[n], t[n + 1])
    BY <2>2 DEF IsUpTo
  <2>4. s[n + 1] = t[n + 1] /\ f[n] = g[n]
    BY <1>2
  <2> QED
    BY <1>2, <2>1, <2>3, <2>4
<1>3. \A n \in 0 .. N : n \in P
  <2> HIDE DEF P
  <2> QED
    BY <1>1, <1>2, UpToInduction
<1> QED
  BY <1>3

LEMMA ParsedIsUpTo ==
  ASSUME NEW lines \in Seq(Instance), NEW f, IsUpTo(f, lines, Len(lines))
  PROVE  Parsed(lines) = f[Len(lines)]
<1> DEFINE N == Len(lines)
           Unfold(g) == [n \in 0 .. N |->
                           IF n = 0 THEN <<>> ELSE Added(g[n - 1], lines[n])]
           upTo == CHOOSE g : g = Unfold(g)
<1>1. N \in Nat
  BY LenProperties
<1>2. f = Unfold(f)
  <2> SUFFICES ASSUME NEW n \in 0 .. N
               PROVE  f[n] = IF n = 0 THEN <<>> ELSE Added(f[n - 1], lines[n])
    BY DEF IsUpTo
  <2>1. CASE n = 0
    BY <2>1 DEF IsUpTo
  <2>2. CASE n # 0
    <3>1. n - 1 \in 0 .. N /\ n - 1 < N /\ (n - 1) + 1 = n
      BY <1>1, <2>2
    <3>2. f[(n - 1) + 1] = Added(f[n - 1], lines[(n - 1) + 1])
      BY <3>1 DEF IsUpTo
    <3> QED
      BY <2>2, <3>1, <3>2
  <2> QED
    BY <2>1, <2>2
<1>3. upTo = Unfold(upTo)
  <2> HIDE DEF Unfold
  <2> QED
    BY <1>2
<1>4. Parsed(lines) = upTo[N]
  BY DEF Parsed
<1> HIDE DEF upTo
<1>5. \A n \in 0 .. N : upTo[n] = f[n]
  <2> DEFINE P == {n \in 0 .. N : upTo[n] = f[n]}
  <2>1. 0 \in P
    BY <1>1, <1>3 DEF IsUpTo
  <2>2. ASSUME NEW n \in 0 .. N, n \in P, n < N
        PROVE  n + 1 \in P
    <3>1. n + 1 \in 0 .. N /\ n + 1 # 0 /\ (n + 1) - 1 = n
      BY <1>1, <2>2
    <3>2. upTo[n + 1] = Added(upTo[(n + 1) - 1], lines[n + 1])
      BY <1>3, <3>1
    <3>3. f[n + 1] = Added(f[n], lines[n + 1])
      BY <2>2 DEF IsUpTo
    <3> QED
      BY <2>2, <3>1, <3>2, <3>3
  <2>3. \A n \in 0 .. N : n \in P
    <3> HIDE DEF P, N
    <3> QED
      BY <1>1, <2>1, <2>2, UpToInduction
  <2> QED
    BY <2>3
<1> QED
  BY <1>1, <1>4, <1>5

LEMMA ParsedEmpty == Parsed(<<>>) = <<>>
<1>1. <<>> \in Seq(Instance) /\ Len(<<>>) = 0
  BY EmptySeq
<1>2. PICK f : IsUpTo(f, <<>>, 0)
  BY <1>1, UpToExists
<1>3. Parsed(<<>>) = f[0]
  BY <1>1, <1>2, ParsedIsUpTo
<1> QED
  BY <1>2, <1>3 DEF IsUpTo

LEMMA ParsedAppend ==
  ASSUME NEW s \in Seq(Instance), NEW b \in Instance
  PROVE  Parsed(Append(s, b)) = Added(Parsed(s), b)
<1>1. PICK N \in Nat : N = Len(s)
  BY LenProperties
<1>2. PICK t \in Seq(Instance) :
        /\ t = Append(s, b) /\ Len(t) = N + 1 /\ t[N + 1] = b
        /\ \A n \in 1 .. N : s[n] = t[n]
  <2>1. /\ Append(s, b) \in Seq(Instance)
        /\ Len(Append(s, b)) = Len(s) + 1
        /\ \A n \in 1 .. Len(s) : Append(s, b)[n] = s[n]
        /\ Append(s, b)[Len(s) + 1] = b
    BY AppendProperties
  <2> QED
    BY <1>1, <2>1
<1>3. PICK f : IsUpTo(f, s, N)
  BY <1>1, UpToExists
<1>4. PICK g : IsUpTo(g, t, N + 1)
  BY <1>2, UpToExists
<1>5. Parsed(s) = f[N] /\ Parsed(t) = g[N + 1]
  BY <1>1, <1>2, <1>3, <1>4, ParsedIsUpTo
<1>6. f[N] = g[N]
  <2>1. N + 1 \in Nat /\ N <= N + 1 /\ N \in 0 .. N
    OBVIOUS
  <2>2. PICK M \in Nat : M = N + 1
    BY <2>1
  <2>3. IsUpTo(g, t, M) /\ N <= M /\ \A n \in 1 .. N : s[n] = t[n]
    BY <1>2, <1>4, <2>1, <2>2
  <2>4. \A n \in 0 .. N : f[n] = g[n]
    BY <1>3, <2>3, UpToAgree
  <2> QED
    BY <2>1, <2>4
<1>7. g[N + 1] = Added(g[N], t[N + 1])
  <2>1. N \in 0 .. N + 1 /\ N < N + 1
    OBVIOUS
  <2> QED
    BY <1>4, <2>1 DEF IsUpTo
<1> QED
  BY <1>2, <1>5, <1>6, <1>7

(****************************************************************************)
(* The instances of a sequence.                                             *)
(****************************************************************************)

LEMMA ToSetMember ==
  ASSUME NEW T, NEW s \in Seq(T)
  PROVE  /\ ToSet(s) = {s[n] : n \in 1 .. Len(s)}
         /\ ToSet(s) \subseteq T
         /\ \A b : b \in ToSet(s) <=> \E n \in 1 .. Len(s) : s[n] = b
<1>1. DOMAIN s = 1 .. Len(s) /\ \A n \in 1 .. Len(s) : s[n] \in T
  BY LenProperties, ElementOfSeq
<1> QED
  BY <1>1 DEF ToSet

LEMMA SeqOfMembers ==
  ASSUME NEW S, NEW T, NEW s \in Seq(S), \A n \in 1 .. Len(s) : s[n] \in T
  PROVE  s \in Seq(T)
<1>1. PICK N \in Nat : N = Len(s)
  BY LenProperties
<1>2. s \in [1 .. N -> S] /\ \A n \in 1 .. N : s[n] \in T
  BY <1>1, LenProperties
<1>3. s \in [1 .. N -> T]
  BY <1>2
<1> QED
  BY <1>3, SeqDef

LEMMA ToSetEmpty == ToSet(<<>>) = {}
<1>1. <<>> \in Seq({}) /\ Len(<<>>) = 0
  BY EmptySeq
<1>2. \A b : b \in ToSet(<<>>) <=> \E n \in 1 .. Len(<<>>) : <<>>[n] = b
  BY <1>1, ToSetMember, Zenon
<1>3. \A n : n \notin 1 .. Len(<<>>)
  BY <1>1
<1> QED
  BY <1>2, <1>3

LEMMA ToSetAppend ==
  ASSUME NEW T, NEW s \in Seq(T), NEW b \in T
  PROVE  ToSet(Append(s, b)) = ToSet(s) \cup {b}
<1>1. PICK N \in Nat : N = Len(s)
  BY LenProperties
<1> DEFINE t == Append(s, b)
<1>2. /\ t \in Seq(T) /\ Len(t) = N + 1 /\ t[N + 1] = b
      /\ \A n \in 1 .. N : t[n] = s[n]
  BY <1>1, AppendProperties
<1> HIDE DEF t
<1>3. \A n : n \in 1 .. N + 1 <=> n \in 1 .. N \/ n = N + 1
  BY <1>1
<1>4. \A c : c \in ToSet(s) <=> \E n \in 1 .. N : s[n] = c
  BY <1>1, ToSetMember
<1>5. \A c : c \in ToSet(t) <=> \E n \in 1 .. N + 1 : t[n] = c
  BY <1>2, ToSetMember
<1>6. \A c : c \in ToSet(t) <=> c \in ToSet(s) \/ c = b
  BY <1>2, <1>3, <1>4, <1>5
<1> QED
  BY <1>6 DEF t

LEMMA ToSetConcat ==
  ASSUME NEW T, NEW s \in Seq(T), NEW t \in Seq(T)
  PROVE  ToSet(s \o t) = ToSet(s) \cup ToSet(t)
<1>1. PICK N \in Nat, M \in Nat : N = Len(s) /\ M = Len(t)
  BY LenProperties
<1>2. PICK u \in Seq(T) :
        /\ u = s \o t /\ Len(u) = N + M
        /\ \A n \in 1 .. N + M : u[n] = IF n <= N THEN s[n] ELSE t[n - N]
  <2>1. /\ s \o t \in Seq(T) /\ Len(s \o t) = Len(s) + Len(t)
        /\ \A n \in 1 .. Len(s) + Len(t) :
             (s \o t)[n] = IF n <= Len(s) THEN s[n] ELSE t[n - Len(s)]
    BY ConcatProperties
  <2> QED
    BY <1>1, <2>1
<1>3. \A b : b \in ToSet(u) <=> \E n \in 1 .. N + M : u[n] = b
  <2>1. Len(u) = N + M
    BY <1>2
  <2>2. \A b : b \in ToSet(u) <=> \E n \in 1 .. Len(u) : u[n] = b
    BY ToSetMember
  <2> QED
    BY <2>1, <2>2, Zenon
<1>4. \A b : /\ b \in ToSet(s) <=> \E n \in 1 .. N : s[n] = b
             /\ b \in ToSet(t) <=> \E n \in 1 .. M : t[n] = b
  BY <1>1, ToSetMember
<1>5. ASSUME NEW b \in ToSet(u)
      PROVE  b \in ToSet(s) \/ b \in ToSet(t)
  <2>1. PICK n \in 1 .. N + M : u[n] = b
    BY <1>3
  <2>2. n <= N => n \in 1 .. N /\ s[n] = b
    BY <1>2, <2>1
  <2>3. ~ (n <= N) => n - N \in 1 .. M /\ t[n - N] = b
    BY <1>1, <1>2, <2>1
  <2> QED
    BY <1>4, <2>2, <2>3
<1>6. ASSUME NEW b \in ToSet(s)
      PROVE  b \in ToSet(u)
  <2>1. PICK n \in 1 .. N : s[n] = b
    BY <1>4
  <2>2. n \in 1 .. N + M /\ n <= N
    BY <1>1, <2>1
  <2> QED
    BY <1>2, <1>3, <2>1, <2>2
<1>7. ASSUME NEW b \in ToSet(t)
      PROVE  b \in ToSet(u)
  <2>1. PICK n \in 1 .. M : t[n] = b
    BY <1>4
  <2>2. N + n \in 1 .. N + M /\ ~ (N + n <= N) /\ (N + n) - N = n
    BY <1>1, <2>1
  <2> QED
    BY <1>2, <1>3, <2>1, <2>2
<1> QED
  BY <1>2, <1>5, <1>6, <1>7

LEMMA InjectiveMeans ==
  ASSUME NEW T, NEW s \in Seq(T)
  PROVE  IsInjective(s) <=>
           \A m, n \in 1 .. Len(s) : s[m] = s[n] => m = n
BY LenProperties DEF IsInjective

LEMMA EmptyInjective == IsInjective(<<>>)
<1>1. DOMAIN <<>> = 1 .. 0
  BY EmptySeq, LenProperties
<1>2. \A n : n \notin 1 .. 0
  OBVIOUS
<1> QED
  BY <1>1, <1>2, Zenon DEF IsInjective

LEMMA InjectiveAppend ==
  ASSUME NEW T, NEW s \in Seq(T), NEW b \in T,
         IsInjective(s), b \notin ToSet(s)
  PROVE  IsInjective(Append(s, b))
<1>1. PICK N \in Nat : N = Len(s)
  BY LenProperties
<1> DEFINE t == Append(s, b)
<1>2. /\ t \in Seq(T) /\ Len(t) = N + 1 /\ t[N + 1] = b
      /\ \A n \in 1 .. N : t[n] = s[n]
  BY <1>1, AppendProperties
<1>3. \A n \in 1 .. N : s[n] # b
  BY <1>1, ToSetMember
<1>4. \A m, n \in 1 .. N : s[m] = s[n] => m = n
  BY <1>1, InjectiveMeans
<1> HIDE DEF t
<1>5. ASSUME NEW m \in 1 .. N + 1, NEW n \in 1 .. N + 1, t[m] = t[n]
      PROVE  m = n
  <2>1. (m \in 1 .. N \/ m = N + 1) /\ (n \in 1 .. N \/ n = N + 1)
    BY <1>1
  <2> QED
    BY <1>2, <1>3, <1>4, <1>5, <2>1
<1>6. IsInjective(t)
  BY <1>2, <1>5, InjectiveMeans
<1> QED
  BY <1>6 DEF t

LEMMA InjectiveConcat ==
  ASSUME NEW T, NEW s \in Seq(T), NEW t \in Seq(T),
         IsInjective(s), IsInjective(t), ToSet(s) \cap ToSet(t) = {}
  PROVE  IsInjective(s \o t)
<1>1. PICK N \in Nat, M \in Nat : N = Len(s) /\ M = Len(t)
  BY LenProperties
<1>2. PICK u \in Seq(T) :
        /\ u = s \o t /\ Len(u) = N + M
        /\ \A n \in 1 .. N + M : u[n] = IF n <= N THEN s[n] ELSE t[n - N]
  <2>1. /\ s \o t \in Seq(T) /\ Len(s \o t) = Len(s) + Len(t)
        /\ \A n \in 1 .. Len(s) + Len(t) :
             (s \o t)[n] = IF n <= Len(s) THEN s[n] ELSE t[n - Len(s)]
    BY ConcatProperties
  <2> QED
    BY <1>1, <2>1
<1>3. /\ \A m, n \in 1 .. N : s[m] = s[n] => m = n
      /\ \A m, n \in 1 .. M : t[m] = t[n] => m = n
  BY <1>1, InjectiveMeans
<1>4. \A m \in 1 .. N, n \in 1 .. M : s[m] # t[n]
  BY <1>1, ToSetMember
<1>5. ASSUME NEW m \in 1 .. N + M, NEW n \in 1 .. N + M, u[m] = u[n]
      PROVE  m = n
  <2>1. CASE m <= N /\ n <= N
    <3>1. m \in 1 .. N /\ n \in 1 .. N /\ s[m] = s[n]
      BY <1>2, <1>5, <2>1
    <3> QED
      BY <1>3, <3>1
  <2>2. CASE m > N /\ n > N
    <3>1. /\ m - N \in 1 .. M /\ n - N \in 1 .. M
          /\ ~ (m <= N) /\ ~ (n <= N)
      BY <1>1, <2>2
    <3>2. t[m - N] = t[n - N]
      BY <1>2, <1>5, <3>1
    <3>3. m - N = n - N
      BY <1>3, <3>1, <3>2
    <3> QED
      BY <1>1, <3>3
  <2>3. CASE m <= N /\ n > N
    <3>1. m \in 1 .. N /\ n - N \in 1 .. M /\ ~ (n <= N)
      BY <1>1, <2>3
    <3>2. s[m] = t[n - N]
      BY <1>2, <1>5, <2>3, <3>1
    <3> QED
      BY <1>4, <3>1, <3>2
  <2>4. CASE m > N /\ n <= N
    <3>1. n \in 1 .. N /\ m - N \in 1 .. M /\ ~ (m <= N)
      BY <1>1, <2>4
    <3>2. s[n] = t[m - N]
      BY <1>2, <1>5, <2>4, <3>1
    <3> QED
      BY <1>4, <3>1, <3>2
  <2> QED
    BY <1>1, <2>1, <2>2, <2>3, <2>4
<1>6. IsInjective(u)
  BY <1>2, <1>5, InjectiveMeans
<1> QED
  BY <1>2, <1>6

(****************************************************************************)
(* What Parsed returns: the lines that parse, in order, page by page.       *)
(****************************************************************************)

LEMMA ParsedTyped ==
  ASSUME NEW s \in Seq(Instance)
  PROVE  Parsed(s) \in Seq(Instance)
<1> DEFINE P == {t \in Seq(Instance) : Parsed(t) \in Seq(Instance)}
<1>1. <<>> \in P
  BY ParsedEmpty, EmptySeq
<1>2. ASSUME NEW t \in P, NEW b \in Instance
      PROVE  Append(t, b) \in P
  BY AppendProperties, ParsedAppend, AddedTyped
<1>3. P = Seq(Instance)
  <2> HIDE DEF P
  <2>1. P \in SUBSET Seq(Instance)
    BY DEF P
  <2> QED
    BY <1>1, <1>2, <2>1, SequenceInduction
<1> QED
  BY <1>3

(* Nothing but the lines that do not parse is lost.                         *)
LEMMA ParsedSet ==
  ASSUME NEW s \in Seq(Instance)
  PROVE  ToSet(Parsed(s)) = ToSet(s) \ Malformed
<1> DEFINE P == {t \in Seq(Instance) : ToSet(Parsed(t)) = ToSet(t) \ Malformed}
<1>1. <<>> \in P
  BY ParsedEmpty, EmptySeq, ToSetEmpty
<1>2. ASSUME NEW t \in P, NEW b \in Instance
      PROVE  Append(t, b) \in P
  <2>1. /\ Append(t, b) \in Seq(Instance)
        /\ Parsed(Append(t, b)) = Added(Parsed(t), b)
        /\ Parsed(t) \in Seq(Instance)
    BY AppendProperties, ParsedAppend, ParsedTyped
  <2>2. /\ ToSet(Append(t, b)) = ToSet(t) \cup {b}
        /\ ToSet(Append(Parsed(t), b)) = ToSet(Parsed(t)) \cup {b}
        /\ ToSet(Parsed(t)) = ToSet(t) \ Malformed
    BY <2>1, ToSetAppend
  <2>3. ToSet(Added(Parsed(t), b)) = ToSet(Append(t, b)) \ Malformed
    BY <2>2 DEF Added
  <2> QED
    BY <2>1, <2>3
<1>3. P = Seq(Instance)
  <2> HIDE DEF P
  <2>1. P \in SUBSET Seq(Instance)
    BY DEF P
  <2> QED
    BY <1>1, <1>2, <2>1, SequenceInduction
<1> QED
  BY <1>3

LEMMA ParsedInjective ==
  ASSUME NEW s \in Seq(Instance), IsInjective(s)
  PROVE  IsInjective(Parsed(s))
<1> DEFINE P == {t \in Seq(Instance) : IsInjective(t) => IsInjective(Parsed(t))}
<1>1. <<>> \in P
  BY ParsedEmpty, EmptySeq
<1>2. ASSUME NEW t \in P, NEW b \in Instance
      PROVE  Append(t, b) \in P
  <2>1. /\ Append(t, b) \in Seq(Instance)
        /\ Parsed(Append(t, b)) = Added(Parsed(t), b)
        /\ Parsed(t) \in Seq(Instance)
    BY AppendProperties, ParsedAppend, ParsedTyped
  <2> SUFFICES ASSUME IsInjective(Append(t, b))
               PROVE  IsInjective(Added(Parsed(t), b))
    BY <2>1
  <2>2. PICK N \in Nat : N = Len(t)
    BY LenProperties
  <2>3. /\ Len(Append(t, b)) = N + 1
        /\ \A n \in 1 .. N : Append(t, b)[n] = t[n]
        /\ Append(t, b)[N + 1] = b
    BY <2>2, AppendProperties
  <2>4. \A m, n \in 1 .. N + 1 :
          Append(t, b)[m] = Append(t, b)[n] => m = n
    <3>1. \A m, n \in 1 .. Len(Append(t, b)) :
            Append(t, b)[m] = Append(t, b)[n] => m = n
      BY <2>1, InjectiveMeans
    <3> QED
      BY <2>3, <3>1
  <2>5. IsInjective(t)
    <3>1. \A m, n \in 1 .. N : t[m] = t[n] => m = n
      BY <2>2, <2>3, <2>4
    <3> QED
      BY <2>2, <3>1, InjectiveMeans
  <2>6. b \notin ToSet(t)
    <3>1. \A n \in 1 .. N : t[n] # b
      BY <2>2, <2>3, <2>4
    <3> QED
      BY <2>2, <3>1, ToSetMember
  <2>7. IsInjective(Parsed(t)) /\ b \notin ToSet(Parsed(t))
    BY <2>5, <2>6, ParsedSet
  <2> QED
    BY <2>1, <2>7, InjectiveAppend DEF Added
<1>3. P = Seq(Instance)
  <2> HIDE DEF P
  <2>1. P \in SUBSET Seq(Instance)
    BY DEF P
  <2> QED
    BY <1>1, <1>2, <2>1, SequenceInduction
<1> QED
  BY <1>3

(* Two reads give what one would have given.                                *)
LEMMA ParsedConcat ==
  ASSUME NEW s \in Seq(Instance), NEW t \in Seq(Instance)
  PROVE  Parsed(s \o t) = Parsed(s) \o Parsed(t)
<1> DEFINE P == {u \in Seq(Instance) : Parsed(s \o u) = Parsed(s) \o Parsed(u)}
<1>1. <<>> \in P
  BY ParsedEmpty, EmptySeq, ParsedTyped, ConcatEmptySeq
<1>2. ASSUME NEW u \in P, NEW b \in Instance
      PROVE  Append(u, b) \in P
  <2>1. /\ u \in Seq(Instance) /\ Append(u, b) \in Seq(Instance)
        /\ Parsed(Append(u, b)) = Added(Parsed(u), b)
        /\ Parsed(u) \in Seq(Instance) /\ Parsed(s) \in Seq(Instance)
        /\ s \o u \in Seq(Instance)
    BY AppendProperties, ParsedAppend, ParsedTyped, ConcatProperties
  <2>2. \A v, w \in Seq(Instance) : v \o Append(w, b) = Append(v \o w, b)
    <3> SUFFICES ASSUME NEW v \in Seq(Instance), NEW w \in Seq(Instance)
                 PROVE  v \o Append(w, b) = Append(v \o w, b)
      OBVIOUS
    <3>1. <<b>> \in Seq(Instance) /\ v \o w \in Seq(Instance)
      BY ConcatProperties
    <3>2. /\ Append(w, b) = w \o <<b>>
          /\ Append(v \o w, b) = (v \o w) \o <<b>>
      BY <3>1, AppendIsConcat
    <3>3. (v \o w) \o <<b>> = v \o (w \o <<b>>)
      BY <3>1, ConcatAssociative
    <3> QED
      BY <3>2, <3>3
  <2>3. Parsed(s \o Append(u, b)) = Added(Parsed(s) \o Parsed(u), b)
    <3>1. Parsed(s \o Append(u, b)) = Parsed(Append(s \o u, b))
      BY <2>1, <2>2
    <3>2. Parsed(Append(s \o u, b)) = Added(Parsed(s \o u), b)
      BY <2>1, ParsedAppend
    <3> QED
      BY <3>1, <3>2
  <2>4. Added(Parsed(s) \o Parsed(u), b) = Parsed(s) \o Added(Parsed(u), b)
    BY <2>1, <2>2 DEF Added
  <2> QED
    BY <2>1, <2>3, <2>4
<1>3. P = Seq(Instance)
  <2> HIDE DEF P
  <2>1. P \in SUBSET Seq(Instance)
    BY DEF P
  <2> QED
    BY <1>1, <1>2, <2>1, SequenceInduction
<1> QED
  BY <1>3

(****************************************************************************)
(* The kernel's list, the pages, and the search.                            *)
(****************************************************************************)

LEMMA PrefixKept ==
  ASSUME NEW s \in Seq(Instance), NEW b \in Instance,
         NEW k \in Nat, k <= Len(s)
  PROVE  /\ SubSeq(Append(s, b), 1, k) = SubSeq(s, 1, k)
         /\ SubSeq(s, 1, k) \in Seq(Instance)
<1>1. PICK N \in Nat : N = Len(s)
  BY LenProperties
<1>2. PICK t \in Seq(Instance) :
        /\ t = Append(s, b) /\ Len(t) = N + 1
        /\ \A n \in 1 .. N : t[n] = s[n]
  <2>1. /\ Append(s, b) \in Seq(Instance)
        /\ Len(Append(s, b)) = Len(s) + 1
        /\ \A n \in 1 .. Len(s) : Append(s, b)[n] = s[n]
    BY AppendProperties
  <2> QED
    BY <1>1, <2>1
<1>3. \A n \in 1 .. k : s[n] \in Instance /\ t[n] = s[n]
  BY <1>1, <1>2, ElementOfSeq
<1>4. /\ SubSeq(s, 1, k) \in Seq(Instance)
      /\ Len(SubSeq(s, 1, k)) = k
      /\ \A n \in 1 .. k : SubSeq(s, 1, k)[n] = s[n]
  BY <1>3, SubSeqProperties
<1>5. /\ SubSeq(t, 1, k) \in Seq(Instance)
      /\ Len(SubSeq(t, 1, k)) = k
      /\ \A n \in 1 .. k : SubSeq(t, 1, k)[n] = t[n]
  BY <1>3, SubSeqProperties
<1>6. SubSeq(t, 1, k) = SubSeq(s, 1, k)
  BY <1>3, <1>4, <1>5, SeqEqual
<1> QED
  BY <1>2, <1>4, <1>6

LEMMA RemovedAt ==
  ASSUME NEW T, NEW s \in Seq(T), NEW k \in 1 .. Len(s)
  PROVE  /\ RemoveAt(s, k) \in Seq(T)
         /\ Len(RemoveAt(s, k)) = Len(s) - 1
         /\ \A n \in 1 .. Len(s) - 1 :
              RemoveAt(s, k)[n] = IF n < k THEN s[n] ELSE s[n + 1]
<1>1. PICK N \in Nat : N = Len(s)
  BY LenProperties
<1>2. k \in 1 .. N /\ \A n \in 1 .. N : s[n] \in T
  BY <1>1, ElementOfSeq
<1>3. PICK u : u = SubSeq(s, 1, k - 1)
  OBVIOUS
<1>4. PICK v : v = SubSeq(s, k + 1, N)
  OBVIOUS
<1>5. u \in Seq(T) /\ Len(u) = k - 1 /\ \A n \in 1 .. k - 1 : u[n] = s[n]
  <2>1. 1 \in Int /\ k - 1 \in Int /\ \A n \in 1 .. k - 1 : s[n] \in T
    BY <1>2
  <2>2. /\ SubSeq(s, 1, k - 1) \in Seq(T)
        /\ Len(SubSeq(s, 1, k - 1)) = IF 1 <= k - 1 THEN (k - 1) - 1 + 1 ELSE 0
        /\ \A n \in 1 .. (k - 1) - 1 + 1 :
             SubSeq(s, 1, k - 1)[n] = s[1 + n - 1]
    BY <2>1, SubSeqProperties
  <2> QED
    BY <1>2, <1>3, <2>2
<1>6. v \in Seq(T) /\ Len(v) = N - k /\ \A n \in 1 .. N - k : v[n] = s[k + n]
  <2>1. k + 1 \in Int /\ N \in Int /\ \A n \in k + 1 .. N : s[n] \in T
    BY <1>2
  <2>2. /\ SubSeq(s, k + 1, N) \in Seq(T)
        /\ Len(SubSeq(s, k + 1, N)) = IF k + 1 <= N THEN N - (k + 1) + 1 ELSE 0
        /\ \A n \in 1 .. N - (k + 1) + 1 :
             SubSeq(s, k + 1, N)[n] = s[(k + 1) + n - 1]
    BY <2>1, SubSeqProperties
  <2>3. \A n \in 1 .. N - k : n \in 1 .. N - (k + 1) + 1 /\ (k + 1) + n - 1 = k + n
    BY <1>2
  <2>4. \A n \in 1 .. N - k : v[n] = s[k + n]
    BY <1>4, <2>2, <2>3
  <2>5. Len(v) = N - k
    BY <1>2, <1>4, <2>2
  <2> QED
    BY <1>4, <2>2, <2>4, <2>5
<1>7. RemoveAt(s, k) = u \o v
  BY <1>1, <1>3, <1>4 DEF RemoveAt
<1>8. PICK w : w = u \o v
  OBVIOUS
<1>9. /\ w \in Seq(T) /\ Len(w) = Len(u) + Len(v)
      /\ \A n \in 1 .. Len(u) + Len(v) :
           w[n] = IF n <= Len(u) THEN u[n] ELSE v[n - Len(u)]
  BY <1>5, <1>6, <1>8, ConcatProperties
<1>10. Len(u) + Len(v) = N - 1 /\ Len(u) = k - 1
  BY <1>2, <1>5, <1>6
<1>11. ASSUME NEW n \in 1 .. N - 1
       PROVE  w[n] = IF n < k THEN s[n] ELSE s[n + 1]
  <2>1. CASE n < k
    <3>1. n <= k - 1 /\ n \in 1 .. k - 1
      BY <1>2, <2>1
    <3> QED
      BY <1>5, <1>9, <1>10, <2>1, <3>1
  <2>2. CASE ~ (n < k)
    <3>1. /\ ~ (n <= k - 1) /\ n - (k - 1) \in 1 .. N - k
          /\ k + (n - (k - 1)) = n + 1
      BY <1>2, <2>2
    <3> QED
      BY <1>6, <1>9, <1>10, <2>2, <3>1
  <2> QED
    BY <2>1, <2>2
<1> QED
  BY <1>1, <1>7, <1>8, <1>9, <1>10, <1>11

LEMMA RemovedFromSet ==
  ASSUME NEW T, NEW s \in Seq(T), NEW k \in 1 .. Len(s), IsInjective(s)
  PROVE  /\ IsInjective(RemoveAt(s, k))
         /\ ToSet(RemoveAt(s, k)) = ToSet(s) \ {s[k]}
<1>1. PICK N \in Nat : N = Len(s)
  BY LenProperties
<1>2. PICK t \in Seq(T) :
        /\ t = RemoveAt(s, k) /\ Len(t) = N - 1
        /\ \A n \in 1 .. N - 1 : t[n] = IF n < k THEN s[n] ELSE s[n + 1]
  BY <1>1, RemovedAt
<1>3. k \in 1 .. N /\ \A m, n \in 1 .. N : s[m] = s[n] => m = n
  BY <1>1, InjectiveMeans
<1>4. IsInjective(t)
  <2>1. ASSUME NEW m \in 1 .. N - 1, NEW n \in 1 .. N - 1, t[m] = t[n]
        PROVE  m = n
    <3>1. /\ m \in 1 .. N /\ n \in 1 .. N
          /\ m + 1 \in 1 .. N /\ n + 1 \in 1 .. N
      BY <1>1
    <3>2. /\ t[m] = IF m < k THEN s[m] ELSE s[m + 1]
          /\ t[n] = IF n < k THEN s[n] ELSE s[n + 1]
      BY <1>2
    <3>3. CASE m < k /\ n < k
      <4>1. s[m] = s[n]
        BY <2>1, <3>2, <3>3
      <4> QED
        BY <1>3, <3>1, <4>1
    <3>4. CASE ~ (m < k) /\ ~ (n < k)
      <4>1. s[m + 1] = s[n + 1]
        BY <2>1, <3>2, <3>4
      <4>2. m + 1 = n + 1
        BY <1>3, <3>1, <4>1
      <4> QED
        BY <3>1, <4>2
    <3>5. CASE m < k /\ ~ (n < k)
      <4>1. s[m] = s[n + 1]
        BY <2>1, <3>2, <3>5
      <4>2. m = n + 1
        BY <1>3, <3>1, <4>1
      <4> QED
        BY <1>3, <3>1, <3>5, <4>2
    <3>6. CASE ~ (m < k) /\ n < k
      <4>1. s[m + 1] = s[n]
        BY <2>1, <3>2, <3>6
      <4>2. m + 1 = n
        BY <1>3, <3>1, <4>1
      <4> QED
        BY <1>3, <3>1, <3>6, <4>2
    <3> QED
      BY <3>3, <3>4, <3>5, <3>6
  <2>2. \A m, n \in 1 .. Len(t) : t[m] = t[n] => m = n
    BY <1>2, <2>1
  <2> QED
    BY <2>2, InjectiveMeans
<1>5. \A b : b \in ToSet(t) <=> \E n \in 1 .. N - 1 : t[n] = b
  <2>1. \A b : b \in ToSet(t) <=> \E n \in 1 .. Len(t) : t[n] = b
    BY ToSetMember
  <2> QED
    BY <1>2, <2>1
<1>6. \A b : b \in ToSet(s) <=> \E n \in 1 .. N : s[n] = b
  BY <1>1, ToSetMember
<1>7. ASSUME NEW b \in ToSet(t)
      PROVE  b \in ToSet(s) /\ b # s[k]
  <2>1. PICK n \in 1 .. N - 1 : t[n] = b
    BY <1>5
  <2>2. PICK m \in 1 .. N : m # k /\ s[m] = b
    <3>1. n \in 1 .. N /\ n + 1 \in 1 .. N
      BY <1>1
    <3>2. n < k => s[n] = b /\ n # k
      BY <1>2, <1>3, <2>1
    <3>3. ~ (n < k) => s[n + 1] = b /\ n + 1 # k
      BY <1>2, <1>3, <2>1
    <3> QED
      BY <3>1, <3>2, <3>3
  <2> QED
    BY <1>3, <1>6, <2>2
<1>8. ASSUME NEW b \in ToSet(s), b # s[k]
      PROVE  b \in ToSet(t)
  <2>1. PICK n \in 1 .. N : s[n] = b
    BY <1>6
  <2>2. n # k
    BY <1>8, <2>1
  <2>3. CASE n < k
    <3>1. n \in 1 .. N - 1
      BY <1>3, <2>3
    <3> QED
      BY <1>2, <1>5, <2>1, <2>3, <3>1
  <2>4. CASE ~ (n < k)
    <3>1. n - 1 \in 1 .. N - 1 /\ ~ (n - 1 < k) /\ (n - 1) + 1 = n
      BY <1>3, <2>2, <2>4
    <3> QED
      BY <1>2, <1>5, <2>1, <3>1
  <2> QED
    BY <2>3, <2>4
<1> QED
  BY <1>2, <1>4, <1>7, <1>8

LEMMA InitialOrder ==
  SetToSeq(Instance) \in Seq(Instance) /\ IsInjective(SetToSeq(Instance))
<1> DEFINE N == Cardinality(Instance)
<1>1. N \in Nat /\ ExistsBijection(1 .. N, Instance)
  BY InstanceAssumption, FS_CardinalityType
<1>2. PICK f \in [1 .. N -> Instance] : IsInjective(f)
  BY <1>1 DEF ExistsBijection, Bijection, Injection
<1>3. /\ SetToSeq(Instance) \in [1 .. N -> Instance]
      /\ IsInjective(SetToSeq(Instance))
  BY <1>2 DEF SetToSeq
<1> QED
  BY <1>1, <1>3, SeqDef

LEMMA DividedByPage ==
  ASSUME NEW n \in Nat
  PROVE  /\ n \div Page \in Nat /\ n % Page \in 0 .. Page - 1
         /\ n = (n \div Page) * Page + (n % Page)
BY PageAssumption

(* The pages and what is left over make up the count.                       *)
LEMMA PagesAddUp ==
  ASSUME count \in Nat
  PROVE  /\ Cycle \in Nat /\ Left \in 0 .. Page - 1
         /\ count = Cycle * Page + Left
BY DividedByPage DEF Cycle, Left

LEMMA FirstMeans ==
  ASSUME NEW T, list \in Seq(T), NEW e
  PROVE  /\ First(e) = 0 => \A b \in ToSet(list) : EidOf[b] # e
         /\ First(e) # 0 => /\ First(e) \in 1 .. Len(list)
                            /\ EidOf[list[First(e)]] = e
<1> DEFINE Hits == {k \in 1 .. Len(list) : EidOf[list[k]] = e}
<1>1. First(e) = IF Hits # {} THEN Min(Hits) ELSE 0
  BY DEF First, SelectInSeq
<1>2. Hits \in SUBSET Nat /\ \A k \in Hits : k # 0
  BY LenProperties
<1>3. Hits = {} => \A b \in ToSet(list) : EidOf[b] # e
  BY ToSetMember
<1>4. Hits # {} => Min(Hits) \in Hits
  <2> HIDE DEF Hits
  <2> SUFFICES ASSUME Hits # {} PROVE Min(Hits) \in Hits
    OBVIOUS
  <2>1. PICK k \in Hits : \A m \in Hits : k <= m
    BY <1>2, SmallestOf
  <2> QED
    BY <2>1 DEF Min
<1> QED
  BY <1>1, <1>2, <1>3, <1>4

----------------------------------------------------------------------------
(* The type invariant, and what it rests on: no instance is in the kernel's *)
(* list twice, an entity is bound to one listed instance at most, nothing   *)
(* is fetched before the scan ends, and nothing shown before the list is    *)
(* complete.                                                                *)
Settled ==
  /\ TypeOK
  /\ IsInjective(table)
  /\ \A u \in Uent : bound[u] = {} \/ \E b \in ToSet(table) : bound[u] = {b}
  /\ phase = "scan" => i = 0 /\ count = 0 /\ list = <<>>
  /\ phase = "lines" => i <= Cycle
  /\ phase \in {"page", "lines", "show", "free"} =>
       \A u \in Uent : biEid[u] # Unread
  /\ phase \in {"scan", "page", "lines", "show"} =>
       answer = None /\ shown = <<>>

LEMMA TableTyped ==
  ASSUME Settled
  PROVE  table \in Seq(Instance)
BY SeqMonotonic DEF Settled, TypeOK

LEMMA InitSettled ==
  ASSUME Init
  PROVE  Settled
<1> USE DEF Init
<1>1. PICK n \in 0 .. Len(SetToSeq(Instance)) :
        table = SubSeq(SetToSeq(Instance), 1, n)
  OBVIOUS
<1>2. PICK s \in Seq(Instance) : s = SetToSeq(Instance) /\ IsInjective(s)
  BY InitialOrder
<1>3. PICK N \in Nat : N = Len(s)
  BY LenProperties
<1>4. n \in Nat /\ n <= N /\ \A m \in 1 .. n : m \in 1 .. N /\ s[m] \in Instance
  BY <1>1, <1>2, <1>3, ElementOfSeq
<1>5. /\ table \in Seq(Instance) /\ Len(table) = n
      /\ \A m \in 1 .. n : table[m] = s[m]
  <2>1. /\ SubSeq(s, 1, n) \in Seq(Instance)
        /\ Len(SubSeq(s, 1, n)) = n
        /\ \A m \in 1 .. n : SubSeq(s, 1, n)[m] = s[m]
    BY <1>4, SubSeqProperties
  <2> QED
    BY <1>1, <1>2, <2>1
<1>6. IsInjective(table)
  <2>1. \A m, k \in 1 .. n : table[m] = table[k] => m = k
    <3>1. \A m, k \in 1 .. N : s[m] = s[k] => m = k
      BY <1>2, <1>3, InjectiveMeans
    <3> QED
      BY <1>4, <1>5, <3>1
  <2> QED
    BY <1>5, <2>1, InjectiveMeans
<1>7. table \in Seq(born) /\ born \subseteq Instance
  <2>1. \A m \in 1 .. Len(table) : table[m] \in ToSet(table)
    BY <1>5, ToSetMember
  <2>2. table \in Seq(ToSet(table))
    BY <1>5, <2>1, SeqOfMembers
  <2>3. born = ToSet(table) /\ ToSet(table) \subseteq Instance
    BY <1>5, ToSetMember
  <2> QED
    BY <2>2, <2>3, Zenon
<1>8. bound \in [Uent -> SUBSET ToSet(table)]
  OBVIOUS
<1>9. \A u \in Uent : bound[u] = {} \/ \E b \in ToSet(table) : bound[u] = {b}
  OBVIOUS
<1>10. i \in 0 .. Cycle + 1
  BY PagesAddUp
<1>11. /\ start \in Nat /\ churn \in 0 .. MaxChurn /\ others \in 0 .. MaxOthers
       /\ biEid \in [Uent -> Nat \cup {Unbound, Unread}]
       /\ list \in Seq(born \ Malformed) /\ shown \in Seq(born \ Malformed)
  BY MaxChurnAssumption, MaxOthersAssumption, EmptySeq
<1>12. TypeOK
  BY <1>7, <1>8, <1>10, <1>11 DEF TypeOK
<1> QED
  BY <1>6, <1>9, <1>12 DEF Settled

(* The scan.                                                                *)
LEMMA EidAttributeMeans ==
  ASSUME Settled, NEW u \in Uent
  PROVE  /\ bound[u] = {} => EidAttribute(u) = Unbound
         /\ bound[u] # {} => \E b \in ToSet(table) :
                               bound[u] = {b} /\ EidAttribute(u) = EidOf[b]
         /\ EidAttribute(u) \in Nat \cup {Unbound}
<1>1. CASE bound[u] = {}
  BY <1>1 DEF EidAttribute
<1>2. CASE bound[u] # {}
  <2>1. PICK b \in ToSet(table) : bound[u] = {b}
    BY <1>2 DEF Settled
  <2>2. (CHOOSE c \in bound[u] : TRUE) = b
    BY <2>1
  <2>3. EidAttribute(u) = EidOf[b]
    BY <1>2, <2>2 DEF EidAttribute
  <2>4. b \in Instance
    BY <2>1, TableTyped, ToSetMember
  <2> QED
    BY <1>2, <2>1, <2>3, <2>4, EidAssumption
<1> QED
  BY <1>1, <1>2

(* The changes of the kernel.                                               *)
LEMMA CreateKeepsSettled ==
  ASSUME Settled, NEW b \in Instance, Create(b)
  PROVE  Settled'
<1> USE DEF Settled, TypeOK, Create, Churn, result
<1>1. /\ table' = Append(table, b) /\ born' = born \cup {b} /\ b \notin born
      /\ born \subseteq Instance /\ table \in Seq(born)
  OBVIOUS
<1>2. table \in Seq(born') /\ b \in born'
  BY <1>1, SeqMonotonic
<1>3. table' \in Seq(born') /\ ToSet(table') = ToSet(table) \cup {b}
  BY <1>1, <1>2, AppendProperties, ToSetAppend
<1>4. IsInjective(table')
  <2>1. b \notin ToSet(table)
    BY <1>1, ToSetMember
  <2> QED
    BY <1>1, <1>2, <2>1, InjectiveAppend
<1>5. list' \in Seq(born' \ Malformed) /\ shown' \in Seq(born' \ Malformed)
  <2>1. born \ Malformed \subseteq born' \ Malformed
    BY <1>1
  <2>2. list \in Seq(born \ Malformed) /\ shown \in Seq(born \ Malformed)
    OBVIOUS
  <2>3. list \in Seq(born' \ Malformed) /\ shown \in Seq(born' \ Malformed)
    BY <2>1, <2>2, SeqMonotonic
  <2> QED
    BY <2>3
<1>6. bound' \in [Uent -> SUBSET ToSet(table')]
  BY <1>3
<1>7. \A u \in Uent : bound'[u] = {} \/ \E c \in ToSet(table') : bound'[u] = {c}
  BY <1>3
<1>8. (i \in 0 .. Cycle + 1 /\ (phase = "lines" => i <= Cycle))'
  BY DEF Cycle
<1>9. TypeOK'
  <2>1. churn' \in 0 .. MaxChurn
    BY MaxChurnAssumption
  <2> QED
    BY <1>1, <1>3, <1>5, <1>6, <1>8, <2>1
<1> QED
  BY <1>4, <1>7, <1>8, <1>9

LEMMA DestroyedFrom ==
  ASSUME Settled, NEW b \in Instance, Destroy(b)
  PROVE  \E k \in 1 .. Len(table) :
           /\ table[k] = b /\ table' = RemoveAt(table, k)
           /\ IsInjective(table') /\ ToSet(table') = ToSet(table) \ {b}
<1>1. table \in Seq(Instance) /\ IsInjective(table)
  BY TableTyped DEF Settled
<1>2. PICK k \in 1 .. Len(table) : table[k] = b /\ table' = RemoveAt(table, k)
  BY <1>1, LenProperties DEF Destroy
<1>3. /\ IsInjective(RemoveAt(table, k))
      /\ ToSet(RemoveAt(table, k)) = ToSet(table) \ {table[k]}
  BY <1>1, RemovedFromSet
<1> QED
  BY <1>2, <1>3

LEMMA DestroyKeepsSettled ==
  ASSUME Settled, NEW b \in Instance, Destroy(b)
  PROVE  Settled'
<1>1. PICK k \in 1 .. Len(table) :
        /\ table[k] = b /\ table' = RemoveAt(table, k)
        /\ IsInjective(table') /\ ToSet(table') = ToSet(table) \ {b}
  BY DestroyedFrom
<1> USE DEF Settled, TypeOK, Destroy, Churn, result, Listed
<1>2. table \in Seq(born) /\ b \in born
  BY ToSetMember
<1>3. table' \in Seq(born')
  BY <1>1, <1>2, RemovedAt
<1>4. bound' \in [Uent -> SUBSET ToSet(table')]
  BY <1>1
<1>5. \A u \in Uent : bound'[u] = {} \/ \E c \in ToSet(table') : bound'[u] = {c}
  <2> SUFFICES ASSUME NEW u \in Uent, bound[u] # {}
               PROVE  \E c \in ToSet(table') : bound[u] = {c}
    OBVIOUS
  <2>1. PICK c \in ToSet(table) : bound[u] = {c}
    OBVIOUS
  <2>2. b \notin bound[u]
    OBVIOUS
  <2> QED
    BY <1>1, <2>1, <2>2
<1>6. (i \in 0 .. Cycle + 1 /\ (phase = "lines" => i <= Cycle))'
  BY DEF Cycle
<1>7. TypeOK'
  <2>1. churn' \in 0 .. MaxChurn
    BY MaxChurnAssumption
  <2> QED
    BY <1>2, <1>3, <1>4, <1>6, <2>1
<1> QED
  BY <1>1, <1>5, <1>6, <1>7

LEMMA BindingKeepsSettled ==
  ASSUME Settled, NEW u \in Uent,
         (\E b \in Instance : Bind(u, b)) \/ Unbind(u)
  PROVE  Settled'
<1> USE DEF Settled, TypeOK, Bind, Unbind, Churn, result, Listed
<1>1. bound' \in [Uent -> SUBSET ToSet(table)] /\ table' = table
  OBVIOUS
<1>2. \A v \in Uent : bound'[v] = {} \/ \E c \in ToSet(table) : bound'[v] = {c}
  OBVIOUS
<1>3. (i \in 0 .. Cycle + 1 /\ (phase = "lines" => i <= Cycle))'
  BY DEF Cycle
<1>4. TypeOK'
  <2>1. churn' \in 0 .. MaxChurn
    BY MaxChurnAssumption
  <2> QED
    BY <1>1, <1>3, <2>1
<1> QED
  BY <1>1, <1>2, <1>3, <1>4

LEMMA OtherReaderKeepsSettled ==
  ASSUME Settled, NEW s \in {0, Page}, OtherReader(s)
  PROVE  Settled'
<1> USE DEF Settled, TypeOK, OtherReader, result
<1>1. (i \in 0 .. Cycle + 1 /\ (phase = "lines" => i <= Cycle))'
  BY DEF Cycle
<1>2. start' \in Nat /\ others' \in 0 .. MaxOthers
  BY PageAssumption, MaxOthersAssumption
<1>3. TypeOK'
  BY <1>1, <1>2
<1> QED
  BY <1>1, <1>3

(* The steps of the tool.                                                   *)
LEMMA ScanKeepsSettled ==
  ASSUME Settled, (\E u \in Uent : ScanUent(u)) \/ ReadCount \/ ReadCountFails
  PROVE  Settled'
<1> USE DEF Settled, TypeOK, kernel, result
<1>1. ASSUME NEW u \in Uent, ScanUent(u)
      PROVE  Settled'
  <2>1. biEid' \in [Uent -> Nat \cup {Unbound, Unread}]
    BY <1>1, EidAttributeMeans DEF ScanUent
  <2>2. (i \in 0 .. Cycle + 1 /\ (phase = "lines" => i <= Cycle))'
    BY <1>1 DEF ScanUent, Cycle
  <2>3. TypeOK'
    BY <1>1, <2>1, <2>2 DEF ScanUent
  <2> QED
    BY <1>1, <2>2, <2>3 DEF ScanUent
<1>2. ASSUME ReadCount
      PROVE  Settled'
  <2>1. count' \in Nat /\ i' = 0
    BY <1>2, LenProperties DEF ReadCount
  <2>2. Cycle' \in Nat
    <3>1. PICK n \in Nat : n = count'
      BY <2>1
    <3>2. n \div Page \in Nat
      BY DividedByPage
    <3> QED
      BY <3>1, <3>2 DEF Cycle
  <2>3. (i \in 0 .. Cycle + 1)'
    <3>1. PICK c \in Nat : c = Cycle'
      BY <2>2
    <3>2. i' \in 0 .. c + 1
      BY <2>1
    <3> QED
      BY <3>1, <3>2, Zenon
  <2>4. TypeOK'
    BY <1>2, <2>1, <2>3 DEF ReadCount
  <2> QED
    BY <1>2, <2>4 DEF ReadCount
<1>3. ASSUME ReadCountFails
      PROVE  Settled'
  <2>1. (i \in 0 .. Cycle + 1)'
    BY <1>3 DEF ReadCountFails, Abandon, Cycle
  <2>2. list' \in Seq(born \ Malformed)
    BY <1>3, EmptySeq DEF ReadCountFails, Abandon
  <2>3. TypeOK'
    BY <1>3, <2>1, <2>2 DEF ReadCountFails, Abandon
  <2> QED
    BY <1>3, <2>3 DEF ReadCountFails, Abandon
<1> QED
  BY <1>1, <1>2, <1>3

(* A page holds lines of the table only.                                    *)
LEMMA LinesTyped ==
  ASSUME Settled
  PROVE  /\ Lines \in Seq(Instance)
         /\ ToSet(Lines) \subseteq ToSet(table)
         /\ IsInjective(Lines)
         /\ \A b \in ToSet(Lines) :
              \E k \in start + 1 .. Smaller(Len(table), start + PageLen) :
                k \in 1 .. Len(table) /\ table[k] = b
<1>1. /\ table \in Seq(Instance) /\ IsInjective(table)
      /\ start \in Nat /\ count \in Nat
  BY TableTyped DEF Settled, TypeOK
<1>2. PICK N \in Nat : N = Len(table)
  BY <1>1, LenProperties
<1>3. PageLen \in Nat
  BY <1>1, PagesAddUp, PageAssumption DEF PageLen
<1>4. PICK l \in Nat : l = Smaller(Len(table), start + PageLen) /\ l <= N
  BY <1>1, <1>2, <1>3 DEF Smaller
<1>5. PICK m \in Nat : m = start + 1 /\ m >= 1
  BY <1>1
<1>6. \A n \in m .. l : n \in 1 .. N /\ table[n] \in Instance
  BY <1>1, <1>2, <1>4, <1>5, ElementOfSeq
<1>7. Lines = SubSeq(table, m, l)
  BY <1>4, <1>5 DEF Lines
<1>8. PICK s \in Seq(Instance) :
        /\ s = Lines /\ Len(s) = IF m <= l THEN l - m + 1 ELSE 0
        /\ \A n \in 1 .. l - m + 1 : s[n] = table[m + n - 1]
  <2>1. /\ SubSeq(table, m, l) \in Seq(Instance)
        /\ Len(SubSeq(table, m, l)) = IF m <= l THEN l - m + 1 ELSE 0
        /\ \A n \in 1 .. l - m + 1 : SubSeq(table, m, l)[n] = table[m + n - 1]
    BY <1>6, SubSeqProperties
  <2> QED
    BY <1>7, <2>1
<1>9. \A n \in 1 .. Len(s) : /\ n \in 1 .. l - m + 1 /\ m + n - 1 \in m .. l
                             /\ s[n] = table[m + n - 1]
  BY <1>8
<1>10. IsInjective(s)
  <2>1. \A j, k \in 1 .. N : table[j] = table[k] => j = k
    BY <1>1, <1>2, InjectiveMeans
  <2>2. ASSUME NEW j \in 1 .. Len(s), NEW k \in 1 .. Len(s), s[j] = s[k]
        PROVE  j = k
    <3>1. m + j - 1 \in 1 .. N /\ m + k - 1 \in 1 .. N
      BY <1>6, <1>9
    <3>2. table[m + j - 1] = table[m + k - 1]
      BY <1>9, <2>2
    <3>3. m + j - 1 = m + k - 1 /\ j \in Int /\ k \in Int
      BY <2>1, <3>1, <3>2
    <3> QED
      BY <3>3
  <2> QED
    BY <2>2, InjectiveMeans
<1>11. ASSUME NEW b \in ToSet(s)
       PROVE  \E k \in m .. l : k \in 1 .. N /\ table[k] = b
  <2>1. PICK n \in 1 .. Len(s) : s[n] = b
    BY ToSetMember
  <2> QED
    BY <1>6, <1>9, <2>1
<1>12. \A b \in ToSet(s) : b \in ToSet(table)
  BY <1>1, <1>2, <1>11, ToSetMember
<1> QED
  BY <1>2, <1>4, <1>5, <1>8, <1>10, <1>11, <1>12

LEMMA ReadsKeepSettled ==
  ASSUME Settled, WriteStart \/ ReadPage \/ PageFails \/ PagesDone
  PROVE  Settled'
<1> USE DEF Settled, TypeOK, kernel, result
<1>1. ASSUME WriteStart
      PROVE  Settled'
  <2>1. start' \in Nat
    BY <1>1, PageAssumption DEF WriteStart, PageStart
  <2>2. (i \in 0 .. Cycle + 1 /\ (phase = "lines" => i <= Cycle))'
    BY <1>1 DEF WriteStart, Cycle
  <2>3. TypeOK'
    BY <1>1, <2>1, <2>2 DEF WriteStart
  <2> QED
    BY <1>1, <2>2, <2>3 DEF WriteStart
<1>2. ASSUME ReadPage
      PROVE  Settled'
  <2>1. list' \in Seq(born \ Malformed)
    <3>1. /\ Lines \in Seq(Instance) /\ Parsed(Lines) \in Seq(Instance)
          /\ ToSet(Parsed(Lines)) = ToSet(Lines) \ Malformed
          /\ ToSet(Lines) \subseteq ToSet(table)
      BY LinesTyped, ParsedTyped, ParsedSet
    <3>2. ToSet(table) \subseteq born
      BY ToSetMember
    <3>3. Parsed(Lines) \in Seq(born \ Malformed)
      <4>1. PICK s \in Seq(Instance) : s = Parsed(Lines)
        BY <3>1
      <4>2. \A n \in 1 .. Len(s) : s[n] \in ToSet(s)
        BY ToSetMember
      <4>3. \A n \in 1 .. Len(s) : s[n] \in born \ Malformed
        BY <3>1, <3>2, <4>1, <4>2
      <4> QED
        BY <4>1, <4>3, SeqOfMembers
    <3>4. list \in Seq(born \ Malformed) /\ list' = list \o Parsed(Lines)
      BY <1>2 DEF ReadPage
    <3> QED
      BY <3>3, <3>4, ConcatProperties
  <2>2. (i \in 0 .. Cycle + 1 /\ (phase = "lines" => i <= Cycle))'
    BY <1>2, PagesAddUp DEF ReadPage, Cycle
  <2>3. TypeOK'
    BY <1>2, <2>1, <2>2 DEF ReadPage
  <2> QED
    BY <1>2, <2>2, <2>3 DEF ReadPage
<1>3. ASSUME PageFails
      PROVE  Settled'
  <2>1. (i \in 0 .. Cycle + 1)'
    BY <1>3 DEF PageFails, Abandon, Cycle
  <2>2. list' \in Seq(born \ Malformed)
    BY <1>3, EmptySeq DEF PageFails, Abandon
  <2>3. TypeOK'
    BY <1>3, <2>1, <2>2 DEF PageFails, Abandon
  <2> QED
    BY <1>3, <2>3 DEF PageFails, Abandon
<1>4. ASSUME PagesDone
      PROVE  Settled'
  <2>1. (i \in 0 .. Cycle + 1)'
    BY <1>4 DEF PagesDone, Cycle
  <2>2. TypeOK'
    BY <1>4, <2>1 DEF PagesDone
  <2> QED
    BY <1>4, <2>2 DEF PagesDone
<1> QED
  BY <1>1, <1>2, <1>3, <1>4

LEMMA ShowsKeepSettled ==
  ASSUME Settled,
         ShowList \/ ShowInstance \/ ShowStranger \/ ShowEntity \/ Free
  PROVE  Settled'
<1> USE DEF Settled, TypeOK, kernel, result
<1>1. ASSUME NEW e, First(e) # 0
      PROVE  <<list[First(e)]>> \in Seq(born \ Malformed)
  <2>1. list[First(e)] \in born \ Malformed
    BY <1>1, FirstMeans, ElementOfSeq
  <2> QED
    BY <2>1
<1>2. ASSUME ShowList
      PROVE  Settled'
  <2>1. (i \in 0 .. Cycle + 1)'
    BY <1>2 DEF ShowList, Cycle
  <2>2. TypeOK'
    BY <1>2, <2>1 DEF ShowList
  <2> QED
    BY <1>2, <2>2 DEF ShowList
<1>3. ASSUME ShowInstance
      PROVE  Settled'
  <2>1. (i \in 0 .. Cycle + 1)'
    BY <1>3 DEF ShowInstance, Cycle
  <2>2. /\ shown' \in Seq(born \ Malformed) /\ under' \subseteq Uent
        /\ answer' \in {"found", "no_such_instance"}
    <3>1. CASE First(query.eid) # 0
      <4>1. <<list[First(query.eid)]>> \in Seq(born \ Malformed)
        BY <1>1, <3>1
      <4>2. /\ shown' = <<list[First(query.eid)]>> /\ answer' = "found"
            /\ under' = Under(query.eid) /\ born' = born
        BY <1>3, <3>1 DEF ShowInstance
      <4>3. Under(query.eid) \subseteq Uent
        BY DEF Under
      <4> HIDE DEF Settled, TypeOK
      <4> QED
        BY <4>1, <4>2, <4>3
    <3>2. CASE First(query.eid) = 0
      BY <1>3, <3>2 DEF ShowInstance
    <3> QED
      BY <3>1, <3>2
  <2>3. TypeOK'
    BY <1>3, <2>1, <2>2 DEF ShowInstance
  <2> QED
    BY <1>3, <2>3 DEF ShowInstance
<1>4. ASSUME ShowStranger
      PROVE  Settled'
  <2>1. (i \in 0 .. Cycle + 1)'
    BY <1>4 DEF ShowStranger, Cycle
  <2>2. TypeOK'
    BY <1>4, <2>1 DEF ShowStranger
  <2> QED
    BY <1>4, <2>2 DEF ShowStranger
<1>5. ASSUME ShowEntity
      PROVE  Settled'
  <2>1. (i \in 0 .. Cycle + 1)'
    BY <1>5 DEF ShowEntity, Cycle
  <2>2. /\ shown' \in Seq(born \ Malformed)
        /\ answer' \in {"found", "somethings_wrong"}
    <3> DEFINE e == biEid[query.uent]
    <3>1. CASE First(e) # 0
      <4>1. <<list[First(e)]>> \in Seq(born \ Malformed)
        BY <1>1, <3>1
      <4>2. /\ shown' = <<list[First(e)]>> /\ answer' = "found"
            /\ born' = born
        BY <1>5, <3>1 DEF ShowEntity
      <4> HIDE DEF Settled, TypeOK
      <4> QED
        BY <4>1, <4>2
    <3>2. CASE First(e) = 0
      BY <1>5, <3>2 DEF ShowEntity
    <3> QED
      BY <3>1, <3>2
  <2>3. TypeOK'
    BY <1>5, <2>1, <2>2 DEF ShowEntity
  <2> QED
    BY <1>5, <2>3 DEF ShowEntity
<1>6. ASSUME Free
      PROVE  Settled'
  <2>1. (i \in 0 .. Cycle + 1)'
    BY <1>6 DEF Free, Cycle
  <2>2. list' \in Seq(born \ Malformed)
    BY <1>6, EmptySeq DEF Free
  <2>3. TypeOK'
    BY <1>6, <2>1, <2>2 DEF Free
  <2> QED
    BY <1>6, <2>3 DEF Free
<1> QED
  BY <1>2, <1>3, <1>4, <1>5, <1>6

LEMMA StutterKeepsSettled ==
  ASSUME Settled, UNCHANGED vars
  PROVE  Settled'
BY DEF Settled, TypeOK, vars, kernel, result, Cycle

LEMMA StepKeepsSettled ==
  ASSUME Settled, [Next]_vars
  PROVE  Settled'
<1>1. CASE Tool
  BY <1>1, ScanKeepsSettled, ReadsKeepSettled, ShowsKeepSettled DEF Tool
<1>2. CASE Kernel
  BY <1>2, CreateKeepsSettled, DestroyKeepsSettled, BindingKeepsSettled,
     OtherReaderKeepsSettled DEF Kernel
<1>3. CASE Exited \/ UNCHANGED vars
  BY <1>3, StutterKeepsSettled DEF Exited
<1> QED
  BY <1>1, <1>2, <1>3 DEF Next

THEOREM AlwaysSettled == Spec => []Settled
<1>1. Init => Settled
  BY InitSettled
<1>2. Settled /\ [Next]_vars => Settled'
  BY StepKeepsSettled
<1> QED
  BY <1>1, <1>2, PTL DEF Spec

(* The type invariant of "lsub -b".                                         *)
THEOREM InstancesTyped == Spec => []TypeOK
<1>1. Settled => TypeOK
  BY DEF Settled
<1> QED
  BY <1>1, AlwaysSettled, PTL

----------------------------------------------------------------------------
(* While no other reader has moved the start, a page is read from where it  *)
(* begins, and what lies behind it has not been listed yet.                 *)
Reading == phase \in {"page", "lines"}

Placed == phase = "lines" /\ others = 0 => start = PageStart

Apart ==
  others = 0 =>
    /\ IsInjective(list)
    /\ Reading => \A k \in 1 .. Len(table) :
                    k > PageStart => table[k] \notin ToSet(list)

LEMMA NextPage ==
  ASSUME NEW n \in Nat
  PROVE  n * Page \in Nat /\ (n + 1) * Page = n * Page + Page
BY PageAssumption

LEMMA StepKeepsPlaced ==
  ASSUME Settled, Placed, [Next]_vars
  PROVE  Placed'
<1> USE DEF Placed, PageStart
<1>1. CASE Tool
  <2>1. CASE \E u \in Uent : ScanUent(u)
    BY <2>1 DEF ScanUent, kernel
  <2>2. CASE WriteStart
    BY <2>2 DEF WriteStart
  <2>3. CASE ReadCount \/ ReadPage \/ PagesDone
    BY <2>3 DEF ReadCount, ReadPage, PagesDone
  <2>4. CASE ReadCountFails \/ PageFails
    BY <2>4 DEF ReadCountFails, PageFails, Abandon
  <2>5. CASE ShowList \/ ShowInstance \/ ShowStranger \/ ShowEntity \/ Free
    BY <2>5 DEF ShowList, ShowInstance, ShowStranger, ShowEntity, Free
  <2> QED
    BY <1>1, <2>1, <2>2, <2>3, <2>4, <2>5 DEF Tool
<1>2. CASE Kernel
  <2>1. CASE \E b \in Instance : Create(b) \/ Destroy(b) \/ \E u \in Uent : Bind(u, b)
    BY <2>1 DEF Create, Destroy, Bind
  <2>2. CASE \E u \in Uent : Unbind(u)
    BY <2>2 DEF Unbind
  <2>3. CASE \E s \in {0, Page} : OtherReader(s)
    <3>1. others' # 0
      BY <2>3 DEF OtherReader, Settled, TypeOK
    <3> QED
      BY <3>1
  <2> QED
    BY <1>2, <2>1, <2>2, <2>3 DEF Kernel
<1>3. CASE Exited \/ UNCHANGED vars
  BY <1>3 DEF Exited, vars, kernel
<1> QED
  BY <1>1, <1>2, <1>3 DEF Next

LEMMA CreateKeepsApart ==
  ASSUME Settled, Apart, NEW b \in Instance, Create(b)
  PROVE  Apart'
<1>1. /\ table' = Append(table, b) /\ list' = list /\ i' = i /\ phase' = phase
      /\ others' = others /\ b \notin born
  BY DEF Create
<1>2. table \in Seq(Instance) /\ list \in Seq(born \ Malformed)
  BY TableTyped DEF Settled, TypeOK
<1> SUFFICES ASSUME others = 0, Reading,
                    NEW k \in 1 .. Len(table'), k > PageStart
             PROVE  table'[k] \notin ToSet(list)
  BY <1>1 DEF Apart, Reading, PageStart
<1>3. PICK N \in Nat : N = Len(table)
  BY <1>2, LenProperties
<1>4. /\ k \in 1 .. N => table'[k] = table[k]
      /\ k = N + 1 => table'[k] = b
      /\ k \in 1 .. N \/ k = N + 1
  <2>1. /\ Len(Append(table, b)) = N + 1
        /\ \A n \in 1 .. N : Append(table, b)[n] = table[n]
        /\ Append(table, b)[N + 1] = b
    BY <1>2, <1>3, AppendProperties
  <2> QED
    BY <1>1, <1>3, <2>1
<1>5. CASE k \in 1 .. N
  BY <1>3, <1>4, <1>5 DEF Apart
<1>6. CASE k = N + 1
  <2>1. ToSet(list) \subseteq born \ Malformed
    BY <1>2, ToSetMember
  <2> QED
    BY <1>1, <1>4, <1>6, <2>1
<1> QED
  BY <1>4, <1>5, <1>6

(* What follows the gap moves forward by one place, never into the pages    *)
(* that were read.                                                          *)
LEMMA DestroyKeepsApart ==
  ASSUME Settled, Apart, NEW b \in Instance, Destroy(b)
  PROVE  Apart'
<1>1. /\ list' = list /\ i' = i /\ phase' = phase /\ others' = others
  BY DEF Destroy
<1>2. table \in Seq(Instance) /\ i \in Nat
  BY TableTyped, PagesAddUp DEF Settled, TypeOK
<1> SUFFICES ASSUME others = 0, Reading,
                    NEW k \in 1 .. Len(table'), k > PageStart
             PROVE  table'[k] \notin ToSet(list)
  BY <1>1 DEF Apart, Reading, PageStart
<1>3. PICK N \in Nat : N = Len(table)
  BY <1>2, LenProperties
<1>4. PICK j \in 1 .. N : table' = RemoveAt(table, j)
  BY <1>3, DestroyedFrom
<1>5. /\ Len(table') = N - 1
      /\ \A n \in 1 .. N - 1 :
           table'[n] = IF n < j THEN table[n] ELSE table[n + 1]
  BY <1>2, <1>3, <1>4, RemovedAt
<1>6. /\ k \in 1 .. N - 1 /\ k \in 1 .. N /\ k + 1 \in 1 .. N
      /\ PageStart \in Nat /\ k + 1 > PageStart
  <2>1. PICK p \in Nat : p = PageStart
    BY <1>2, NextPage DEF PageStart
  <2>2. k \in 1 .. N - 1
    BY <1>5
  <2> QED
    BY <1>3, <2>1, <2>2
<1>7. \A n \in 1 .. N : n > PageStart => table[n] \notin ToSet(list)
  BY <1>3 DEF Apart
<1>8. table[k] \notin ToSet(list) /\ table[k + 1] \notin ToSet(list)
  BY <1>6, <1>7
<1> QED
  BY <1>5, <1>6, <1>8

LEMMA ReadKeepsApart ==
  ASSUME Settled, Placed, Apart, ReadPage
  PROVE  Apart'
<1>1. /\ list' = list \o Parsed(Lines) /\ i' = i + 1 /\ phase = "lines"
      /\ table' = table /\ others' = others
  BY DEF ReadPage, kernel
<1> SUFFICES ASSUME others = 0
             PROVE  /\ IsInjective(list')
                    /\ \A k \in 1 .. Len(table) :
                         k > PageStart' => table[k] \notin ToSet(list')
  BY <1>1 DEF Apart
<1>2. /\ table \in Seq(Instance) /\ IsInjective(table)
      /\ i \in Nat /\ count \in Nat /\ list \in Seq(Instance)
  <2>1. /\ list \in Seq(born \ Malformed) /\ born \ Malformed \subseteq Instance
        /\ count \in Nat /\ i \in 0 .. Cycle + 1 /\ IsInjective(table)
    BY DEF Settled, TypeOK
  <2> QED
    BY <2>1, TableTyped, PagesAddUp, SeqMonotonic
<1>3. PICK N \in Nat : N = Len(table)
  BY <1>2, LenProperties
<1>4. /\ IsInjective(list)
      /\ \A k \in 1 .. N : k > PageStart => table[k] \notin ToSet(list)
  BY <1>1, <1>3 DEF Apart, Reading
<1>5. start = PageStart /\ PageStart \in Nat /\ PageStart' = PageStart + Page
  BY <1>1, <1>2, NextPage DEF Placed, PageStart
<1>6. PageLen \in Nat /\ PageLen <= Page
  BY <1>2, PagesAddUp, PageAssumption DEF PageLen
<1>7. \A b \in ToSet(Lines) :
        \E k \in 1 .. N : /\ k > PageStart /\ k <= PageStart + Page
                          /\ table[k] = b
  <2> TAKE b \in ToSet(Lines)
  <2>1. PICK k \in start + 1 .. Smaller(Len(table), start + PageLen) :
          k \in 1 .. Len(table) /\ table[k] = b
    BY LinesTyped
  <2>2. Smaller(Len(table), start + PageLen) <= PageStart + Page
    BY <1>3, <1>5, <1>6, PageAssumption DEF Smaller
  <2>3. Smaller(Len(table), start + PageLen) \in Nat
    BY <1>3, <1>5, <1>6 DEF Smaller
  <2>4. k > PageStart /\ k <= PageStart + Page
    BY <1>5, <2>1, <2>2, <2>3, PageAssumption
  <2> QED
    BY <1>3, <2>1, <2>4
<1>8. ToSet(list) \cap ToSet(Lines) = {}
  BY <1>4, <1>7
<1>9. /\ Lines \in Seq(Instance) /\ IsInjective(Lines)
      /\ Parsed(Lines) \in Seq(Instance) /\ IsInjective(Parsed(Lines))
      /\ ToSet(Parsed(Lines)) \subseteq ToSet(Lines)
  BY LinesTyped, ParsedTyped, ParsedInjective, ParsedSet
<1>10. IsInjective(list')
  BY <1>1, <1>2, <1>4, <1>8, <1>9, InjectiveConcat
<1>11. ASSUME NEW k \in 1 .. N, k > PageStart'
       PROVE  table[k] \notin ToSet(list')
  <2>1. k > PageStart /\ ~ (k <= PageStart + Page)
    BY <1>5, <1>11, PageAssumption
  <2>2. table[k] \notin ToSet(list)
    BY <1>4, <2>1
  <2>3. \A m \in 1 .. N : table[m] = table[k] => m = k
    BY <1>2, <1>3, InjectiveMeans
  <2>4. table[k] \notin ToSet(Lines)
    BY <1>7, <2>1, <2>3
  <2>5. ToSet(list') = ToSet(list) \cup ToSet(Parsed(Lines))
    BY <1>1, <1>2, <1>9, ToSetConcat
  <2> QED
    BY <1>9, <2>2, <2>4, <2>5
<1> QED
  BY <1>3, <1>10, <1>11

LEMMA EmptyListApart ==
  ASSUME i \in Nat, list = <<>>
  PROVE  Apart
<1>1. IsInjective(list) /\ ToSet(list) = {}
  BY EmptyInjective, ToSetEmpty
<1> QED
  BY <1>1 DEF Apart

LEMMA StepKeepsApart ==
  ASSUME Settled, Placed, Apart, [Next]_vars
  PROVE  Apart'
<1>1. CASE Tool
  <2>1. CASE \E u \in Uent : ScanUent(u)
    BY <2>1 DEF ScanUent, kernel, Apart, Reading, PageStart
  <2>2. CASE ReadCount
    <3>1. /\ list' = list /\ list = <<>> /\ i' = i /\ i \in 0 .. Cycle + 1
          /\ Cycle \in Nat
      BY <2>2, PagesAddUp DEF ReadCount, Settled, TypeOK
    <3>2. ToSet(list) = {}
      BY <3>1, ToSetEmpty
    <3>3. others' = others /\ phase = "scan"
      BY <2>2 DEF ReadCount, kernel
    <3> QED
      BY <3>1, <3>2, <3>3 DEF Apart
  <2>3. CASE ReadPage
    BY <2>3, ReadKeepsApart
  <2>4. CASE WriteStart \/ PagesDone
    BY <2>4 DEF WriteStart, PagesDone, kernel, Apart, Reading, PageStart
  <2>5. CASE ReadCountFails \/ PageFails \/ Free
    <3>1. list' = <<>> /\ phase' = "exit" /\ others' = others
      BY <2>5 DEF ReadCountFails, PageFails, Abandon, Free, kernel
    <3>2. IsInjective(<<>>)
      BY EmptyInjective
    <3> QED
      BY <3>1, <3>2 DEF Apart, Reading
  <2>6. CASE ShowList \/ ShowInstance \/ ShowStranger \/ ShowEntity
    <3>1. list' = list /\ phase' = "free" /\ others' = others
      BY <2>6 DEF ShowList, ShowInstance, ShowStranger, ShowEntity, kernel
    <3> QED
      BY <3>1 DEF Apart, Reading
  <2> QED
    BY <1>1, <2>1, <2>2, <2>3, <2>4, <2>5, <2>6 DEF Tool
<1>2. CASE Kernel
  <2>1. CASE \E u \in Uent : Unbind(u) \/ \E b \in Instance : Bind(u, b)
    BY <2>1 DEF Unbind, Bind, Apart, Reading, PageStart
  <2>2. CASE \E s \in {0, Page} : OtherReader(s)
    <3>1. others' # 0
      BY <2>2 DEF OtherReader, Settled, TypeOK
    <3> QED
      BY <3>1 DEF Apart
  <2> QED
    BY <1>2, <2>1, <2>2, CreateKeepsApart, DestroyKeepsApart DEF Kernel
<1>3. CASE Exited \/ UNCHANGED vars
  BY <1>3 DEF Exited, vars, kernel, Apart, Reading, PageStart
<1> QED
  BY <1>1, <1>2, <1>3 DEF Next

THEOREM AlwaysApart == Spec => [](Placed /\ Apart)
<1>1. Init => Placed /\ Apart
  <2> SUFFICES ASSUME Init PROVE Placed /\ Apart
    OBVIOUS
  <2>1. i \in Nat /\ list = <<>> /\ phase = "scan"
    BY DEF Init
  <2> QED
    BY <2>1, EmptyListApart DEF Placed
<1>2. Settled /\ (Placed /\ Apart) /\ [Next]_vars => (Placed /\ Apart)'
  BY StepKeepsPlaced, StepKeepsApart
<1> QED
  BY <1>1, <1>2, AlwaysSettled, PTL DEF Spec

(* However instances come and go between two pages, none is listed twice    *)
(* (sysfs_get_bi).                                                          *)
THEOREM NoneListedTwice == Spec => []NoDuplicates
<1>1. Placed /\ Apart => NoDuplicates
  BY DEF Apart, NoDuplicates
<1> QED
  BY <1>1, AlwaysApart, PTL

----------------------------------------------------------------------------
(* While nothing is destroyed and no other reader moves the start, the list *)
(* holds what the pages read so far hold of the lines that were counted.    *)
Counted == SubSeq(table, 1, count)
Fetched == SubSeq(table, 1, Smaller(PageStart, count))

InPages ==
  died = {} /\ others = 0 =>
    /\ Reading => count <= Len(table) /\ list = Parsed(Fetched)
    /\ phase = "show" => count <= Len(table) /\ list = Parsed(Counted)

LEMMA CountKeepsInPages ==
  ASSUME Settled, ReadCount
  PROVE  InPages'
<1>1. /\ i' = 0 /\ list' = <<>> /\ count' = Len(table) /\ table' = table
      /\ phase' = "page" /\ Len(table) \in Nat
  BY TableTyped, LenProperties DEF Settled, ReadCount, kernel
<1>2. PageStart' = 0
  BY <1>1, PageAssumption DEF PageStart
<1>3. Smaller(PageStart', count') = 0
  BY <1>1, <1>2 DEF Smaller
<1>4. Fetched' = <<>>
  <2>1. SubSeq(table, 1, 0) = <<>>
    BY SubSeqEmpty
  <2> QED
    BY <1>1, <1>3, <2>1 DEF Fetched, Smaller
<1> QED
  BY <1>1, <1>4, ParsedEmpty DEF InPages

LEMMA CreateKeepsInPages ==
  ASSUME Settled, InPages, NEW b \in Instance, Create(b)
  PROVE  InPages'
<1>1. /\ table' = Append(table, b) /\ list' = list /\ i' = i /\ phase' = phase
      /\ others' = others /\ died' = died /\ count' = count
  BY DEF Create
<1>2. /\ table \in Seq(Instance) /\ count \in Nat /\ i \in Nat
      /\ PageStart \in Nat
  BY TableTyped, PagesAddUp, NextPage DEF Settled, TypeOK, PageStart
<1>3. Len(table') = Len(table) + 1 /\ Len(table) \in Nat
  BY <1>1, <1>2, AppendProperties, LenProperties
<1>4. ASSUME NEW n \in Nat, n <= count, count <= Len(table)
      PROVE  SubSeq(table', 1, n) = SubSeq(table, 1, n)
  <2>1. n <= Len(table)
    BY <1>2, <1>3, <1>4
  <2> QED
    BY <1>1, <1>2, <2>1, PrefixKept
<1>5. Smaller(PageStart, count) \in Nat /\ Smaller(PageStart, count) <= count
  BY <1>2 DEF Smaller
<1>6. count <= Len(table) => Fetched' = Fetched /\ Counted' = Counted
  <2> SUFFICES ASSUME count <= Len(table)
               PROVE  Fetched' = Fetched /\ Counted' = Counted
    OBVIOUS
  <2>1. SubSeq(table', 1, count) = SubSeq(table, 1, count)
    BY <1>2, <1>4
  <2>2. SubSeq(table', 1, Smaller(PageStart, count)) = Fetched
    BY <1>4, <1>5 DEF Fetched
  <2>3. Smaller(PageStart, count)' = Smaller(PageStart, count)
    BY <1>1 DEF Smaller, PageStart
  <2>4. Fetched' = SubSeq(table', 1, Smaller(PageStart, count)')
    BY DEF Fetched
  <2> QED
    BY <1>1, <2>1, <2>2, <2>3, <2>4 DEF Counted
<1>7. count <= Len(table) => (count <= Len(table))'
  BY <1>1, <1>2, <1>3
<1> QED
  BY <1>1, <1>6, <1>7 DEF InPages, Reading

(* The next page fits on the last.                                          *)
LEMMA ReadKeepsInPages ==
  ASSUME Settled, Placed, InPages, ReadPage
  PROVE  InPages'
<1>1. /\ list' = list \o Parsed(Lines) /\ i' = i + 1
      /\ phase = "lines" /\ phase' = "page"
      /\ table' = table /\ others' = others /\ died' = died /\ count' = count
  BY DEF ReadPage, kernel
<1> SUFFICES ASSUME died = {}, others = 0
             PROVE  count <= Len(table) /\ list' = Parsed(Fetched')
  BY <1>1 DEF InPages, Reading
<1>2. /\ table \in Seq(Instance) /\ i \in Nat /\ count \in Nat /\ i <= Cycle
      /\ Cycle \in Nat /\ Left \in 0 .. Page - 1 /\ count = Cycle * Page + Left
  BY <1>1, TableTyped, PagesAddUp DEF Settled, TypeOK
<1>3. PICK N \in Nat : N = Len(table)
  BY <1>2, LenProperties
<1>4. count <= N /\ list = Parsed(Fetched)
  BY <1>1, <1>3 DEF InPages, Reading
<1>5. PICK p \in Nat : p = PageStart /\ start = p /\ PageStart' = p + Page
  <2>1. i * Page \in Nat /\ (i + 1) * Page = i * Page + Page
    BY <1>2, NextPage
  <2> QED
    BY <1>1, <2>1 DEF Placed, PageStart
<1>6. PICK q \in Nat : /\ q = Smaller(p + Page, count)
                       /\ q = p + PageLen
                       /\ p <= q /\ p <= count /\ q <= count
  <2>1. CASE i = Cycle
    <3>1. p + Left = count /\ PageLen = Left
      BY <1>2, <1>5, <2>1 DEF PageStart, PageLen
    <3>2. count <= p + Page /\ p <= count
      BY <1>2, <1>5, <3>1, PageAssumption
    <3> QED
      BY <1>2, <1>5, <3>1, <3>2, PageAssumption DEF Smaller
  <2>2. CASE i # Cycle
    <3>1. PICK n \in Nat : Cycle = i + 1 + n
      <4>1. Cycle - i - 1 \in Nat /\ Cycle = i + 1 + (Cycle - i - 1)
        BY <1>2, <2>2
      <4> QED
        BY <4>1
    <3>2. Cycle * Page = p + Page + n * Page /\ n * Page \in Nat
      <4>1. /\ (i + 1 + n) * Page = i * Page + Page + n * Page
            /\ n * Page \in Nat
        BY <1>2, PageAssumption
      <4> QED
        BY <1>5, <3>1, <4>1 DEF PageStart
    <3>3. p + Page <= count /\ PageLen = Page
      BY <1>2, <1>5, <2>2, <3>2, PageAssumption DEF PageLen
    <3> QED
      BY <1>2, <1>5, <3>3, PageAssumption DEF Smaller
  <2> QED
    BY <2>1, <2>2
<1>7. Fetched = SubSeq(table, 1, p)
  BY <1>5, <1>6 DEF Fetched, Smaller
<1>8. Lines = SubSeq(table, p + 1, q)
  <2>1. Smaller(N, q) = q
    BY <1>3, <1>2, <1>4, <1>6 DEF Smaller
  <2> QED
    BY <1>3, <1>5, <1>6, <2>1 DEF Lines
<1>9. Fetched' = SubSeq(table, 1, q)
  <2>1. Smaller(PageStart, count)' = q
    BY <1>1, <1>5, <1>6 DEF Smaller
  <2>2. Fetched' = SubSeq(table', 1, Smaller(PageStart, count)')
    BY DEF Fetched
  <2> QED
    BY <1>1, <2>1, <2>2
<1>10. /\ SubSeq(table, 1, p) \o SubSeq(table, p + 1, q) = SubSeq(table, 1, q)
       /\ SubSeq(table, 1, p) \in Seq(Instance)
  <2>1. 1 \in 1 .. N + 1 /\ p \in 1 - 1 .. N /\ q \in p .. N /\ p <= N
    BY <1>2, <1>3, <1>4, <1>5, <1>6
  <2>2. \A n \in 1 .. p : table[n] \in Instance
    BY <1>2, <1>3, <2>1, ElementOfSeq
  <2>3. SubSeq(table, 1, p) \in Seq(Instance)
    BY <2>2, SubSeqProperties
  <2> QED
    BY <1>2, <1>3, <2>1, <2>3, ConcatAdjacentSubSeq
<1>11. Lines \in Seq(Instance)
  BY LinesTyped
<1>12. Parsed(SubSeq(table, 1, q)) = Parsed(SubSeq(table, 1, p)) \o Parsed(Lines)
  BY <1>8, <1>10, <1>11, ParsedConcat
<1> QED
  BY <1>1, <1>3, <1>4, <1>7, <1>9, <1>12

LEMMA DoneKeepsInPages ==
  ASSUME Settled, InPages, PagesDone
  PROVE  InPages'
<1>1. /\ phase = "page" /\ phase' = "show" /\ (i > Cycle \/ PageLen = 0)
      /\ table' = table /\ others' = others /\ died' = died /\ count' = count
      /\ list' = list /\ i' = i
  BY DEF PagesDone, kernel
<1>2. /\ i \in 0 .. Cycle + 1 /\ count \in Nat /\ Cycle \in Nat
      /\ Left \in 0 .. Page - 1 /\ count = Cycle * Page + Left
      /\ Cycle * Page \in Nat /\ (Cycle + 1) * Page = Cycle * Page + Page
  BY PagesAddUp, NextPage DEF Settled, TypeOK
<1>3. count <= PageStart /\ PageStart \in Nat
  <2>1. CASE i > Cycle
    <3>1. i = Cycle + 1
      BY <1>2, <2>1
    <3>2. PageStart = Cycle * Page + Page
      BY <1>2, <3>1 DEF PageStart
    <3> QED
      BY <1>2, <3>2, PageAssumption
  <2>2. CASE ~ (i > Cycle)
    <3>1. PageLen = 0
      BY <1>1, <2>2
    <3>2. i = Cycle /\ Left = 0
      BY <3>1, PageAssumption DEF PageLen
    <3> QED
      BY <1>2, <3>2 DEF PageStart
  <2> QED
    BY <2>1, <2>2
<1>4. Fetched = Counted
  <2>1. Smaller(PageStart, count) = count
    BY <1>2, <1>3 DEF Smaller
  <2> QED
    BY <2>1 DEF Fetched, Counted
<1>5. Counted' = Counted
  BY <1>1 DEF Counted
<1> QED
  BY <1>1, <1>4, <1>5 DEF InPages, Reading

LEMMA StepKeepsInPages ==
  ASSUME Settled, Placed, InPages, [Next]_vars
  PROVE  InPages'
<1>1. CASE Tool
  <2>1. CASE (\E u \in Uent : ScanUent(u)) \/ ReadCountFails \/ PageFails \/ Free
    <3>1. phase' \in {"scan", "exit"}
      BY <2>1 DEF ScanUent, ReadCountFails, PageFails, Abandon, Free
    <3> QED
      BY <3>1 DEF InPages, Reading
  <2>2. CASE ReadCount
    BY <2>2, CountKeepsInPages
  <2>3. CASE ReadPage
    BY <2>3, ReadKeepsInPages
  <2>4. CASE PagesDone
    BY <2>4, DoneKeepsInPages
  <2>5. CASE WriteStart
    BY <2>5 DEF WriteStart, InPages, Reading, Fetched, Counted, PageStart
  <2>6. CASE ShowList \/ ShowInstance \/ ShowStranger \/ ShowEntity
    <3>1. phase' = "free"
      BY <2>6 DEF ShowList, ShowInstance, ShowStranger, ShowEntity
    <3> QED
      BY <3>1 DEF InPages, Reading
  <2> QED
    BY <1>1, <2>1, <2>2, <2>3, <2>4, <2>5, <2>6 DEF Tool
<1>2. CASE Kernel
  <2>1. CASE \E u \in Uent : Unbind(u) \/ \E b \in Instance : Bind(u, b)
    BY <2>1 DEF Unbind, Bind, InPages, Reading, Fetched, Counted, PageStart
  <2>2. CASE \E b \in Instance : Destroy(b)
    <3>1. died' # {}
      BY <2>2 DEF Destroy
    <3> QED
      BY <3>1 DEF InPages
  <2>3. CASE \E s \in {0, Page} : OtherReader(s)
    <3>1. others' # 0
      BY <2>3 DEF OtherReader, Settled, TypeOK
    <3> QED
      BY <3>1 DEF InPages
  <2> QED
    BY <1>2, <2>1, <2>2, <2>3, CreateKeepsInPages DEF Kernel
<1>3. CASE Exited \/ UNCHANGED vars
  BY <1>3 DEF Exited, vars, kernel, InPages, Reading, Fetched, Counted, PageStart
<1> QED
  BY <1>1, <1>2, <1>3 DEF Next

THEOREM AlwaysInPages == Spec => []InPages
<1>1. Init => InPages
  BY DEF Init, InPages, Reading
<1>2. Settled /\ (Placed /\ Apart) /\ InPages /\ [Next]_vars => InPages'
  BY StepKeepsInPages
<1> QED
  BY <1>1, <1>2, AlwaysSettled, AlwaysApart, PTL DEF Spec

(* The pages fit together, whatever is created meanwhile (sysfs_get_bi).    *)
THEOREM PagesFit == Spec => []ListComplete
<1>1. InPages => ListComplete
  BY DEF InPages, ListComplete, Counted
<1> QED
  BY <1>1, AlwaysInPages, PTL

----------------------------------------------------------------------------
(* The instance the scan found an entity bound to stays in the list, among  *)
(* the lines that are counted: the kernel only appends.                     *)
Known ==
  died = {} =>
    \A u \in Uent :
      biEid[u] \in Nat /\ phase \in {"scan", "page", "lines", "show"} =>
        \E k \in 1 .. Len(table) : /\ EidOf[table[k]] = biEid[u]
                                   /\ phase # "scan" => k <= count

LEMMA ScanKeepsKnown ==
  ASSUME Settled, Known, NEW u \in Uent, ScanUent(u)
  PROVE  Known'
<1>1. /\ phase = "scan" /\ phase' = phase /\ table' = table /\ died' = died
      /\ biEid' = [biEid EXCEPT ![u] = EidAttribute(u)]
      /\ biEid \in [Uent -> Nat \cup {Unbound, Unread}]
  BY DEF ScanUent, kernel, Settled, TypeOK
<1> SUFFICES ASSUME died = {}, NEW v \in Uent, biEid'[v] \in Nat
             PROVE  \E k \in 1 .. Len(table) : EidOf[table[k]] = biEid'[v]
  BY <1>1 DEF Known
<1>2. CASE v = u
  <2>1. biEid'[v] = EidAttribute(u) /\ EidAttribute(u) # Unbound
    BY <1>1, <1>2 DEF Unbound
  <2>2. PICK b \in ToSet(table) : EidAttribute(u) = EidOf[b]
    BY <2>1, EidAttributeMeans
  <2>3. PICK k \in 1 .. Len(table) : table[k] = b
    BY TableTyped, ToSetMember
  <2> QED
    BY <2>1, <2>2, <2>3
<1>3. CASE v # u
  <2>1. biEid'[v] = biEid[v]
    BY <1>1, <1>3
  <2> QED
    BY <1>1, <2>1 DEF Known
<1> QED
  BY <1>2, <1>3

LEMMA CreateKeepsKnown ==
  ASSUME Settled, Known, NEW b \in Instance, Create(b)
  PROVE  Known'
<1>1. /\ table' = Append(table, b) /\ phase' = phase /\ died' = died
      /\ biEid' = biEid /\ count' = count
  BY DEF Create
<1> SUFFICES ASSUME died = {}, NEW u \in Uent, biEid[u] \in Nat,
                    phase \in {"scan", "page", "lines", "show"}
             PROVE  \E k \in 1 .. Len(table') :
                      EidOf[table'[k]] = biEid[u] /\ (phase # "scan" => k <= count)
  BY <1>1 DEF Known
<1>2. PICK k \in 1 .. Len(table) :
        EidOf[table[k]] = biEid[u] /\ (phase # "scan" => k <= count)
  BY DEF Known
<1>3. k \in 1 .. Len(table') /\ table'[k] = table[k]
  <2>1. /\ Len(Append(table, b)) = Len(table) + 1
        /\ \A n \in 1 .. Len(table) : Append(table, b)[n] = table[n]
        /\ Len(table) \in Nat
    BY TableTyped, AppendProperties, LenProperties
  <2> QED
    BY <1>1, <2>1
<1> QED
  BY <1>2, <1>3

LEMMA StepKeepsKnown ==
  ASSUME Settled, Known, [Next]_vars
  PROVE  Known'
<1>1. CASE Tool
  <2>1. CASE ReadCount
    <3>1. /\ phase = "scan" /\ count' = Len(table) /\ table' = table
          /\ died' = died /\ biEid' = biEid /\ Len(table) \in Nat
      BY <2>1, TableTyped, LenProperties DEF ReadCount, kernel
    <3> QED
      BY <3>1 DEF Known
  <2>2. CASE ReadPage \/ WriteStart \/ PagesDone
    <3>1. /\ phase \in {"page", "lines"} /\ count' = count /\ table' = table
          /\ died' = died /\ biEid' = biEid
      BY <2>2 DEF ReadPage, WriteStart, PagesDone, kernel
    <3> QED
      BY <3>1 DEF Known
  <2>3. CASE \/ ReadCountFails \/ PageFails \/ Free
             \/ ShowList \/ ShowInstance \/ ShowStranger \/ ShowEntity
    <3>1. phase' \in {"free", "exit"}
      BY <2>3 DEF ReadCountFails, PageFails, Abandon, Free, ShowList,
                  ShowInstance, ShowStranger, ShowEntity
    <3> QED
      BY <3>1 DEF Known
  <2> QED
    BY <1>1, <2>1, <2>2, <2>3, ScanKeepsKnown DEF Tool
<1>2. CASE Kernel
  <2>1. CASE \E u \in Uent : Unbind(u) \/ \E b \in Instance : Bind(u, b)
    BY <2>1 DEF Unbind, Bind, Known
  <2>2. CASE \E b \in Instance : Destroy(b)
    <3>1. died' # {}
      BY <2>2 DEF Destroy
    <3> QED
      BY <3>1 DEF Known
  <2>3. CASE \E s \in {0, Page} : OtherReader(s)
    BY <2>3 DEF OtherReader, Known
  <2> QED
    BY <1>2, <2>1, <2>2, <2>3, CreateKeepsKnown DEF Kernel
<1>3. CASE Exited \/ UNCHANGED vars
  BY <1>3 DEF Exited, vars, kernel, Known
<1> QED
  BY <1>1, <1>2, <1>3 DEF Next

THEOREM AlwaysKnown == Spec => []Known
<1>1. Init => Known
  <2> SUFFICES ASSUME Init PROVE Known
    OBVIOUS
  <2>1. \A u \in Uent : biEid[u] \notin Nat
    BY DEF Init, Unread
  <2> QED
    BY <2>1 DEF Known
<1>2. Settled /\ Known /\ [Next]_vars => Known'
  BY StepKeepsKnown
<1> QED
  BY <1>1, <1>2, AlwaysSettled, PTL DEF Spec

(* "somethings wrong" is printed only for a line that does not parse.       *)
LEMMA EntityMissed ==
  ASSUME Settled, InPages, Known, ShowEntity
  PROVE  EntityInstanceFound'
<1>1. /\ phase = "show" /\ query' = query /\ biEid' = biEid
      /\ died' = died /\ others' = others /\ query.uent \in Uent
  BY DEF ShowEntity, kernel
<1> SUFFICES ASSUME answer' = "somethings_wrong", died = {}, others = 0,
                    biEid[query.uent] # Unbound
             PROVE  \E b \in Malformed : EidOf[b] = biEid[query.uent]
  BY <1>1 DEF EntityInstanceFound
<1>2. PICK e : e = biEid[query.uent]
  OBVIOUS
<1>3. e \in Nat
  BY <1>1, <1>2 DEF Settled, TypeOK
<1>4. First(e) = 0
  BY <1>2 DEF ShowEntity
<1>5. list \in Seq(Instance) /\ table \in Seq(Instance) /\ count \in Nat
  BY TableTyped, SeqMonotonic DEF Settled, TypeOK
<1>6. \A b \in ToSet(list) : EidOf[b] # e
  BY <1>4, <1>5, FirstMeans
<1>7. PICK k \in 1 .. Len(table) : EidOf[table[k]] = e /\ k <= count
  BY <1>1, <1>2, <1>3 DEF Known
<1>8. count <= Len(table) /\ list = Parsed(Counted)
  BY <1>1 DEF InPages
<1>9. Counted \in Seq(Instance) /\ table[k] \in ToSet(Counted)
  <2>1. \A n \in 1 .. count : n \in 1 .. Len(table) /\ table[n] \in Instance
    BY <1>5, <1>8, LenProperties, ElementOfSeq
  <2>2. /\ Counted \in Seq(Instance)
        /\ Len(Counted) = IF 1 <= count THEN count - 1 + 1 ELSE 0
        /\ \A n \in 1 .. count - 1 + 1 : Counted[n] = table[1 + n - 1]
    BY <1>5, <2>1, SubSeqProperties DEF Counted
  <2>3. k \in 1 .. Len(Counted) /\ Counted[k] = table[k]
    BY <1>5, <1>7, <2>2
  <2> QED
    BY <2>2, <2>3, ToSetMember
<1>10. table[k] \in Malformed
  <2>1. table[k] \notin ToSet(list)
    BY <1>6, <1>7
  <2> QED
    BY <1>8, <1>9, <2>1, ParsedSet
<1> QED
  BY <1>2, <1>7, <1>10

LEMMA StepKeepsEntityFound ==
  ASSUME Settled, InPages, Known, EntityInstanceFound, [Next]_vars
  PROVE  EntityInstanceFound'
<1>1. CASE answer' # "somethings_wrong"
  BY <1>1 DEF EntityInstanceFound
<1>2. CASE answer' = "somethings_wrong" /\ answer # "somethings_wrong"
  <2>1. ShowEntity
    <3>1. CASE Tool
      BY <1>2, <3>1 DEF Tool, ScanUent, ReadCount, ReadCountFails, Abandon,
         WriteStart, ReadPage, PageFails, PagesDone, ShowList, ShowInstance,
         ShowStranger, Free, result
    <3>2. CASE Kernel
      BY <1>2, <3>2 DEF Kernel, Create, Destroy, Bind, Unbind, OtherReader, result
    <3>3. CASE Exited \/ UNCHANGED vars
      BY <1>2, <3>3 DEF Exited, vars, result
    <3> QED
      BY <3>1, <3>2, <3>3 DEF Next
  <2> QED
    BY <2>1, EntityMissed
<1>3. CASE answer = "somethings_wrong"
  <2>1. phase \in {"free", "exit"}
    BY <1>3 DEF Settled, TypeOK, None
  <2>2. /\ query' = query /\ biEid' = biEid /\ died' = died /\ others' = others
    <3>1. CASE Tool
      BY <2>1, <3>1 DEF Tool, ScanUent, ReadCount, ReadCountFails, Abandon,
         WriteStart, ReadPage, PageFails, PagesDone, ShowList, ShowInstance,
         ShowStranger, ShowEntity, Free, kernel
    <3>2. CASE Kernel
      BY <2>1, <3>2 DEF Kernel, Create, Destroy, Bind, Unbind, OtherReader, Churn
    <3>3. CASE Exited \/ UNCHANGED vars
      BY <3>3 DEF Exited, vars, kernel
    <3> QED
      BY <3>1, <3>2, <3>3 DEF Next
  <2> QED
    BY <1>3, <2>2 DEF EntityInstanceFound
<1> QED
  BY <1>1, <1>2, <1>3

(* The instance that the scan found is found again in the list.             *)
THEOREM EntityFound == Spec => []EntityInstanceFound
<1>1. Init => EntityInstanceFound
  BY DEF Init, EntityInstanceFound, None
<1>2. /\ Settled /\ InPages /\ Known /\ EntityInstanceFound /\ [Next]_vars
      => EntityInstanceFound'
  BY StepKeepsEntityFound
<1> QED
  BY <1>1, <1>2, AlwaysSettled, AlwaysInPages, AlwaysKnown, PTL DEF Spec

----------------------------------------------------------------------------
(* On a system at rest the list counted is the list there is, and what the  *)
(* scan noted of an entity still holds.                                     *)
AtRest ==
  churn = 0 =>
    /\ died = {}
    /\ phase \in {"page", "lines", "show", "free"} => count = Len(table)
    /\ \A u \in Uent : biEid[u] \in {Unread, EidAttribute(u)}

LEMMA StepKeepsAtRest ==
  ASSUME Settled, AtRest, [Next]_vars
  PROVE  AtRest'
<1>1. CASE Tool
  <2>1. /\ churn' = churn /\ died' = died /\ table' = table /\ bound' = bound
    BY <1>1 DEF Tool, ScanUent, ReadCount, ReadCountFails, Abandon, WriteStart,
       ReadPage, PageFails, PagesDone, ShowList, ShowInstance, ShowStranger,
       ShowEntity, Free, kernel
  <2>2. \A u \in Uent : EidAttribute(u)' = EidAttribute(u)
    BY <2>1 DEF EidAttribute
  <2>3. CASE \E u \in Uent : ScanUent(u)
    <3>1. PICK u \in Uent : ScanUent(u)
      BY <2>3
    <3>2. /\ biEid' = [biEid EXCEPT ![u] = EidAttribute(u)]
          /\ phase' = "scan" /\ biEid \in [Uent -> Nat \cup {Unbound, Unread}]
      BY <3>1 DEF ScanUent, Settled, TypeOK
    <3>3. \A v \in Uent : v # u => biEid'[v] = biEid[v]
      BY <3>2
    <3>4. biEid'[u] = EidAttribute(u)
      BY <3>2
    <3> QED
      BY <2>1, <2>2, <3>2, <3>3, <3>4 DEF AtRest
  <2>4. CASE ReadCount
    <3>1. count' = Len(table) /\ biEid' = biEid
      BY <2>4 DEF ReadCount
    <3> QED
      BY <2>1, <2>2, <3>1 DEF AtRest
  <2>5. CASE \/ WriteStart \/ ReadPage \/ PagesDone
             \/ ShowList \/ ShowInstance \/ ShowStranger \/ ShowEntity
    <3>1. /\ phase \in {"page", "lines", "show"} /\ count' = count
          /\ biEid' = biEid
      BY <2>5 DEF WriteStart, ReadPage, PagesDone, ShowList, ShowInstance,
         ShowStranger, ShowEntity
    <3> QED
      BY <2>1, <2>2, <3>1 DEF AtRest
  <2>6. CASE ReadCountFails \/ PageFails \/ Free
    <3>1. phase' = "exit" /\ biEid' = biEid
      BY <2>6 DEF ReadCountFails, PageFails, Abandon, Free
    <3> QED
      BY <2>1, <2>2, <3>1 DEF AtRest
  <2> QED
    BY <1>1, <2>3, <2>4, <2>5, <2>6 DEF Tool
<1>2. CASE Kernel
  <2>1. CASE \/ \E b \in Instance : Create(b) \/ Destroy(b) \/ \E u \in Uent : Bind(u, b)
             \/ \E u \in Uent : Unbind(u)
    <3>1. churn' = churn + 1 /\ churn \in Nat
      BY <2>1, MaxChurnAssumption DEF Create, Destroy, Bind, Unbind, Churn,
         Settled, TypeOK
    <3> QED
      BY <3>1 DEF AtRest
  <2>2. CASE \E s \in {0, Page} : OtherReader(s)
    BY <2>2 DEF OtherReader, AtRest, EidAttribute
  <2> QED
    BY <1>2, <2>1, <2>2 DEF Kernel
<1>3. CASE Exited \/ UNCHANGED vars
  BY <1>3 DEF Exited, vars, kernel, AtRest, EidAttribute
<1> QED
  BY <1>1, <1>2, <1>3 DEF Next

THEOREM AlwaysAtRest == Spec => []AtRest
<1>1. Init => AtRest
  BY DEF Init, AtRest
<1>2. Settled /\ AtRest /\ [Next]_vars => AtRest'
  BY StepKeepsAtRest
<1> QED
  BY <1>1, <1>2, AlwaysSettled, PTL DEF Spec

LEMMA InstanceAnswered ==
  ASSUME Settled, InPages, AtRest, ShowInstance
  PROVE  AnswerExact'
<1>1. /\ phase = "show" /\ query.kind = "instance" /\ query' = query
      /\ churn' = churn /\ others' = others /\ table' = table /\ bound' = bound
  BY DEF ShowInstance, kernel
<1>2. PICK e : e = query.eid
  OBVIOUS
<1> DEFINE here == {b \in ToSet(Parsed(table)) : EidOf[b] = e}
           to == {u \in Uent : \E b \in bound[u] : EidOf[b] = e}
<1> SUFFICES ASSUME churn = 0, others = 0
             PROVE  /\ answer' = "found" <=> here # {}
                    /\ answer' = "found" => under' = to
  BY <1>1, <1>2 DEF AnswerExact
<1>3. table \in Seq(Instance) /\ list \in Seq(Instance)
  BY TableTyped, SeqMonotonic DEF Settled, TypeOK
<1>4. list = Parsed(table)
  <2>1. died = {} /\ count = Len(table)
    BY <1>1 DEF AtRest
  <2>2. list = Parsed(SubSeq(table, 1, Len(table)))
    BY <1>1, <2>1 DEF InPages, Counted
  <2> QED
    BY <1>3, <2>2, SubSeqFull
<1>5. /\ First(e) = 0 => here = {}
      /\ First(e) # 0 => here # {}
  <2>1. First(e) = 0 => \A b \in ToSet(list) : EidOf[b] # e
    BY <1>3, FirstMeans
  <2>2. First(e) # 0 => list[First(e)] \in ToSet(list) /\ EidOf[list[First(e)]] = e
    BY <1>3, FirstMeans, ToSetMember
  <2> QED
    BY <1>4, <2>1, <2>2
<1>6. e \in Nat
  BY <1>1, <1>2, EidAssumption DEF Settled, TypeOK, Queries
<1>7. Under(e) = to
  <2> SUFFICES ASSUME NEW u \in Uent
               PROVE  biEid[u] = e <=> \E b \in bound[u] : EidOf[b] = e
    BY DEF Under
  <2>1. biEid[u] = EidAttribute(u)
    BY <1>1 DEF AtRest, Settled
  <2>2. CASE bound[u] = {}
    <3>1. EidAttribute(u) = Unbound /\ Unbound \notin Nat
      BY <2>2, EidAttributeMeans DEF Unbound
    <3> QED
      BY <1>6, <2>1, <2>2, <3>1
  <2>3. CASE bound[u] # {}
    <3>1. PICK b \in ToSet(table) : bound[u] = {b} /\ EidAttribute(u) = EidOf[b]
      BY <2>3, EidAttributeMeans
    <3> QED
      BY <2>1, <3>1
  <2> QED
    BY <2>2, <2>3
<1>8. CASE First(e) # 0
  <2>1. answer' = "found" /\ under' = Under(e)
    BY <1>2, <1>8 DEF ShowInstance
  <2> QED
    BY <1>5, <1>7, <1>8, <2>1
<1>9. CASE First(e) = 0
  <2>1. answer' = "no_such_instance"
    BY <1>2, <1>9 DEF ShowInstance
  <2> QED
    BY <1>5, <1>9, <2>1
<1> QED
  BY <1>8, <1>9

LEMMA StepKeepsAnswerExact ==
  ASSUME Settled, InPages, AtRest, AnswerExact, [Next]_vars
  PROVE  AnswerExact'
<1>1. CASE phase' # "free"
  BY <1>1 DEF AnswerExact
<1>2. CASE phase' = "free" /\ UNCHANGED vars
  BY <1>2 DEF AnswerExact, vars, kernel, result
<1>3. CASE phase' = "free" /\ ~ UNCHANGED vars
  <2>1. ShowList \/ ShowInstance \/ ShowStranger \/ ShowEntity
    <3>1. CASE Tool
      BY <1>3, <3>1 DEF Tool, ScanUent, ReadCount, ReadCountFails, Abandon,
         WriteStart, ReadPage, PageFails, PagesDone, Free
    <3>2. CASE Kernel
      BY <1>3, <3>2 DEF Kernel, Create, Destroy, Bind, Unbind, OtherReader, Churn
    <3> QED
      BY <1>3, <3>1, <3>2 DEF Next, Exited
  <2>2. CASE ShowInstance
    BY <2>2, InstanceAnswered
  <2>3. CASE ShowList \/ ShowStranger \/ ShowEntity
    <3>1. query'.kind # "instance"
      BY <2>3 DEF ShowList, ShowStranger, ShowEntity
    <3> QED
      BY <3>1 DEF AnswerExact
  <2> QED
    BY <2>1, <2>2, <2>3
<1> QED
  BY <1>1, <1>2, <1>3

(* On a system at rest "-b -E <eid>" finds an instance exactly when one     *)
(* with this EID is listed, and shows the entities bound to it.             *)
THEOREM InstanceAnswerExact == Spec => []AnswerExact
<1>1. Init => AnswerExact
  BY DEF Init, AnswerExact
<1>2. /\ Settled /\ InPages /\ AtRest /\ AnswerExact /\ [Next]_vars
      => AnswerExact'
  BY StepKeepsAnswerExact
<1> QED
  BY <1>1, <1>2, AlwaysSettled, AlwaysInPages, AlwaysAtRest, PTL DEF Spec
=============================================================================
