----------------------------- MODULE LsubProofs -----------------------------
(****************************************************************************)
(* A run of lsub, for every command line, every set of entities and every   *)
(* failure: it uses the ID database and the routing table as their own      *)
(* specifications allow, so that what is proved of these holds of lsub; its *)
(* lists show what was found and what the files hold, each thing once; it   *)
(* frees what it allocates and shows nothing when it fails.                 *)
(****************************************************************************)
EXTENDS Lsub, RoutesProofs, IdsProofs, FiniteSetTheorems

----------------------------------------------------------------------------
(* Picked is recursive: what it yields is shown by induction on the length  *)
(* of the sequence, where a statement is the set of those it holds of.      *)

LEMMA SequencesByAppend ==
  ASSUME NEW T, NEW P \in SUBSET Seq(T), <<>> \in P,
         \A s \in P, e \in T : Append(s, e) \in P
  PROVE  P = Seq(T)
<1> DEFINE Missing == {s \in Seq(T) : s \notin P}
           Lengths == {Len(s) : s \in Missing}
<1> SUFFICES ASSUME Missing # {} PROVE FALSE
  OBVIOUS
<1>1. Lengths \in SUBSET Nat /\ Lengths # {}
  <2>1. \A s \in Missing : Len(s) \in Nat
    BY LenProperties
  <2> QED
    BY <2>1
<1>2. PICK n \in Lengths : \A m \in Lengths : n <= m
  <2> HIDE DEF Lengths
  <2> QED
    BY <1>1, LeastMember
<1>3. PICK s \in Missing : Len(s) = n
  BY <1>2
<1>4. s \in Seq(T) /\ s \notin P /\ s # <<>>
  BY <1>3
<1>5. PICK t \in Seq(T), e \in T : s = Append(t, e)
  BY <1>4, SequenceEmptyOrAppend
<1>6. Len(s) = Len(t) + 1 /\ Len(t) \in Nat
  BY <1>5, AppendProperties, LenProperties
<1>7. t \in P
  <2> SUFFICES ASSUME t \in Missing PROVE FALSE
    BY <1>5
  <2>1. Len(t) \in Lengths
    OBVIOUS
  <2>2. n <= Len(t)
    BY <1>2, <2>1
  <2> QED
    BY <1>3, <1>6, <2>2
<1> QED
  BY <1>4, <1>5, <1>7

(* A set that holds 0 and the successor of all its members, up to N.        *)
LEMMA ByCounting ==
  ASSUME NEW N \in Nat, NEW P,
         0 \in P, \A n \in 0 .. N : n \in P /\ n < N => n + 1 \in P
  PROVE  \A n \in 0 .. N : n \in P
<1> DEFINE Missing == {n \in 0 .. N : n \notin P}
<1> SUFFICES ASSUME Missing # {} PROVE FALSE
  OBVIOUS
<1>1. PICK n \in Missing : \A m \in Missing : n <= m
  <2>1. Missing \in SUBSET Nat
    OBVIOUS
  <2> HIDE DEF Missing
  <2> QED
    BY <2>1, LeastMember
<1>2. n \in 1 .. N /\ n \notin P
  BY <1>1
<1>3. n - 1 \in 0 .. N /\ n - 1 < N /\ (n - 1) + 1 = n /\ ~ (n <= n - 1)
  BY <1>2
<1>4. n - 1 \in P
  BY <1>1, <1>3
<1> QED
  BY <1>2, <1>3, <1>4

(* f[n] is what the function in Picked is after n elements.                 *)
PicksUpTo(f, s, S, T, N) ==
  /\ f \in [0 .. N -> Seq(T)]
  /\ f[0] = <<>>
  /\ \A n \in 0 .. N : n < N => f[n + 1] = Picks(f[n], s[n + 1], S)

LEMMA PicksTyped ==
  ASSUME NEW T, NEW t \in Seq(T), NEW e \in T, NEW S
  PROVE  Picks(t, e, S) \in Seq(T)
BY AppendProperties DEF Picks

LEMMA PicksUpToExists ==
  ASSUME NEW T, NEW S, NEW s \in Seq(T)
  PROVE  \E f : PicksUpTo(f, s, S, T, Len(s))
<1> DEFINE P == {n \in Nat : \E f : PicksUpTo(f, s, S, T, n)}
<1>1. Len(s) \in Nat /\ \A n \in 1 .. Len(s) : s[n] \in T
  BY LenProperties, ElementOfSeq
<1>2. 0 \in P
  <2> DEFINE f == [n \in 0 .. 0 |-> <<>>]
  <2>1. PicksUpTo(f, s, S, T, 0)
    BY EmptySeq DEF PicksUpTo
  <2> QED
    BY <2>1
<1>3. ASSUME NEW n \in 0 .. Len(s), n \in P, n < Len(s)
      PROVE  n + 1 \in P
  <2>1. PICK f : PicksUpTo(f, s, S, T, n)
    BY <1>3
  <2> DEFINE g == [k \in 0 .. n + 1 |-> IF k <= n THEN f[k] ELSE Picks(f[n], s[n + 1], S)]
  <2>2. f[n] \in Seq(T) /\ s[n + 1] \in T
    BY <1>1, <1>3, <2>1 DEF PicksUpTo
  <2>3. Picks(f[n], s[n + 1], S) \in Seq(T)
    BY <2>2, PicksTyped
  <2>4. g \in [0 .. n + 1 -> Seq(T)]
    BY <1>3, <2>1, <2>3 DEF PicksUpTo
  <2>5. g[0] = <<>>
    BY <1>3, <2>1 DEF PicksUpTo
  <2>6. ASSUME NEW k \in 0 .. n + 1, k < n + 1
        PROVE  g[k + 1] = Picks(g[k], s[k + 1], S)
    <3>1. k \in 0 .. n /\ k + 1 \in 0 .. n + 1 /\ g[k] = f[k]
      BY <1>3, <2>6
    <3>2. CASE k < n
      <4>1. f[k + 1] = Picks(f[k], s[k + 1], S)
        BY <2>1, <3>1, <3>2 DEF PicksUpTo
      <4>2. g[k + 1] = f[k + 1]
        BY <1>3, <3>1, <3>2
      <4> QED
        BY <3>1, <4>1, <4>2
    <3>3. CASE k = n
      BY <1>3, <3>1, <3>3
    <3> QED
      BY <1>3, <3>1, <3>2, <3>3
  <2>7. PicksUpTo(g, s, S, T, n + 1)
    <3> HIDE DEF g
    <3> QED
      BY <2>4, <2>5, <2>6 DEF PicksUpTo
  <2> QED
    BY <1>3, <2>7
<1>4. Len(s) \in P
  <2> HIDE DEF P
  <2>1. \A n \in 0 .. Len(s) : n \in P
    BY <1>1, <1>2, <1>3, ByCounting
  <2> QED
    BY <1>1, <2>1
<1> QED
  BY <1>4

SameUpTo(s, t, N) == \A n \in 1 .. N : s[n] = t[n]

(* Two of them agree on the elements that their sequences share.            *)
LEMMA PicksUpToAgree ==
  ASSUME NEW T, NEW S, NEW s \in Seq(T), NEW t \in Seq(T), NEW f, NEW g,
         NEW N \in Nat, NEW M \in Nat, N <= M,
         PicksUpTo(f, s, S, T, N), PicksUpTo(g, t, S, T, M), SameUpTo(s, t, N)
  PROVE  \A n \in 0 .. N : f[n] = g[n]
<1> DEFINE P == {n \in 0 .. N : f[n] = g[n]}
<1>1. 0 \in P
  BY DEF PicksUpTo
<1>2. ASSUME NEW n \in 0 .. N, n \in P, n < N
      PROVE  n + 1 \in P
  <2>1. f[n + 1] = Picks(f[n], s[n + 1], S)
    BY <1>2 DEF PicksUpTo
  <2>2. n \in 0 .. M /\ n < M
    BY <1>2
  <2>3. g[n + 1] = Picks(g[n], t[n + 1], S)
    BY <2>2 DEF PicksUpTo
  <2>4. s[n + 1] = t[n + 1] /\ f[n] = g[n]
    BY <1>2 DEF SameUpTo
  <2> QED
    BY <1>2, <2>1, <2>3, <2>4
<1>3. \A n \in 0 .. N : n \in P
  <2> HIDE DEF P
  <2> QED
    BY <1>1, <1>2, ByCounting
<1> QED
  BY <1>3

LEMMA PickedIsUpTo ==
  ASSUME NEW T, NEW S, NEW s \in Seq(T), NEW f, PicksUpTo(f, s, S, T, Len(s))
  PROVE  Picked(s, S) = f[Len(s)] /\ Picked(s, S) \in Seq(T)
<1> DEFINE N == Len(s)
           Unfold(g) == [n \in 0 .. N |-> IF n = 0 THEN <<>> ELSE Picks(g[n - 1], s[n], S)]
           upTo == CHOOSE g : g = Unfold(g)
<1>1. N \in Nat
  BY LenProperties
<1>2. f = Unfold(f)
  <2> SUFFICES ASSUME NEW n \in 0 .. N
               PROVE  f[n] = IF n = 0 THEN <<>> ELSE Picks(f[n - 1], s[n], S)
    BY DEF PicksUpTo
  <2>1. CASE n = 0
    BY <2>1 DEF PicksUpTo
  <2>2. CASE n # 0
    <3>1. n - 1 \in 0 .. N /\ n - 1 < N /\ (n - 1) + 1 = n
      BY <1>1, <2>2
    <3>2. f[(n - 1) + 1] = Picks(f[n - 1], s[(n - 1) + 1], S)
      BY <3>1 DEF PicksUpTo
    <3> QED
      BY <2>2, <3>1, <3>2
  <2> QED
    BY <2>1, <2>2
<1>3. upTo = Unfold(upTo)
  <2> HIDE DEF Unfold
  <2> QED
    BY <1>2
<1>4. Picked(s, S) = upTo[N]
  BY DEF Picked
<1> HIDE DEF upTo
<1>5. \A n \in 0 .. N : upTo[n] = f[n]
  <2> DEFINE P == {n \in 0 .. N : upTo[n] = f[n]}
  <2>1. 0 \in P
    BY <1>1, <1>3 DEF PicksUpTo
  <2>2. ASSUME NEW n \in 0 .. N, n \in P, n < N
        PROVE  n + 1 \in P
    <3>1. n + 1 \in 0 .. N /\ n + 1 # 0 /\ (n + 1) - 1 = n
      BY <1>1, <2>2
    <3>2. upTo[n + 1] = Picks(upTo[(n + 1) - 1], s[n + 1], S)
      BY <1>3, <3>1
    <3>3. f[n + 1] = Picks(f[n], s[n + 1], S)
      BY <2>2 DEF PicksUpTo
    <3> QED
      BY <2>2, <3>1, <3>2, <3>3
  <2>3. \A n \in 0 .. N : n \in P
    <3> HIDE DEF P, N
    <3> QED
      BY <1>1, <2>1, <2>2, ByCounting
  <2> QED
    BY <2>3
<1>6. f[N] \in Seq(T)
  BY <1>1 DEF PicksUpTo
<1> QED
  BY <1>1, <1>4, <1>5, <1>6

LEMMA PickedEmpty == \A S : Picked(<<>>, S) = <<>>
<1> TAKE S
<1>1. <<>> \in Seq(Nat) /\ Len(<<>>) = 0
  BY EmptySeq
<1>2. PICK f : PicksUpTo(f, <<>>, S, Nat, Len(<<>>))
  BY <1>1, PicksUpToExists
<1>3. PICK s \in Seq(Nat) : s = <<>>
  BY <1>1
<1>4. Picked(s, S) = f[Len(s)]
  <2>1. PicksUpTo(f, s, S, Nat, Len(s))
    BY <1>2, <1>3
  <2> QED
    BY <2>1, PickedIsUpTo
<1> QED
  BY <1>1, <1>2, <1>3, <1>4 DEF PicksUpTo

LEMMA PickedTyped ==
  ASSUME NEW T, NEW S, NEW s \in Seq(T) PROVE Picked(s, S) \in Seq(T)
  BY PicksUpToExists, PickedIsUpTo

LEMMA PickedAppend ==
  ASSUME NEW T, NEW S, NEW s \in Seq(T), NEW b \in T
  PROVE  Picked(Append(s, b), S) = Picks(Picked(s, S), b, S)
<1>1. PICK N \in Nat : N = Len(s)
  BY LenProperties
<1>2. PICK t \in Seq(T) :
        /\ t = Append(s, b) /\ Len(t) = N + 1 /\ t[N + 1] = b
        /\ \A n \in 1 .. N : s[n] = t[n]
  <2>1. /\ Append(s, b) \in Seq(T)
        /\ Len(Append(s, b)) = Len(s) + 1
        /\ \A n \in 1 .. Len(s) : Append(s, b)[n] = s[n]
        /\ Append(s, b)[Len(s) + 1] = b
    BY AppendProperties
  <2> QED
    BY <1>1, <2>1
<1>3. PICK f : PicksUpTo(f, s, S, T, Len(s))
  BY PicksUpToExists
<1>4. PICK g : PicksUpTo(g, t, S, T, Len(t))
  BY PicksUpToExists
<1>5. Picked(s, S) = f[N] /\ Picked(t, S) = g[N + 1]
  <2>1. Picked(s, S) = f[Len(s)]
    BY <1>3, PickedIsUpTo
  <2>2. Picked(t, S) = g[Len(t)]
    BY <1>4, PickedIsUpTo
  <2> QED
    BY <1>1, <1>2, <2>1, <2>2
<1>6. f[N] = g[N]
  <2>1. N + 1 \in Nat /\ N <= N + 1 /\ N \in 0 .. N
    OBVIOUS
  <2>2. PICK M \in Nat : M = N + 1
    BY <2>1
  <2>3. PicksUpTo(g, t, S, T, M) /\ N <= M /\ SameUpTo(s, t, N)
    BY <1>2, <1>4, <2>1, <2>2 DEF SameUpTo
  <2>4. PicksUpTo(f, s, S, T, N)
    BY <1>1, <1>3
  <2>5. \A n \in 0 .. N : f[n] = g[n]
    BY <2>3, <2>4, PicksUpToAgree, Z3
  <2> QED
    BY <2>1, <2>5
<1>7. g[N + 1] = Picks(g[N], t[N + 1], S)
  <2>1. N \in 0 .. N + 1 /\ N < N + 1
    OBVIOUS
  <2> QED
    BY <1>2, <1>4, <2>1 DEF PicksUpTo
<1> QED
  BY <1>2, <1>5, <1>6, <1>7

(* a followed by b: a name of its own, as the provers take \o apart.        *)
Joined(a, b) == a \o b

LEMMA JoinedTyped ==
  ASSUME NEW T, NEW a \in Seq(T), NEW b \in Seq(T)
  PROVE  Joined(a, b) \in Seq(T)
BY ConcatProperties DEF Joined

LEMMA JoinedEmpty ==
  ASSUME NEW T, NEW a \in Seq(T)
  PROVE  Joined(a, <<>>) = a /\ Joined(<<>>, a) = a
BY ConcatEmptySeq DEF Joined

LEMMA JoinedThrice ==
  ASSUME NEW T, NEW a \in Seq(T), NEW b \in Seq(T), NEW c \in Seq(T)
  PROVE  Joined(Joined(a, b), c) = Joined(a, Joined(b, c))
BY ConcatAssociative DEF Joined

LEMMA JoinedAppend ==
  ASSUME NEW T, NEW a \in Seq(T), NEW b \in Seq(T), NEW e \in T
  PROVE  Append(Joined(a, b), e) = Joined(a, Append(b, e))
<1>1. <<e>> \in Seq(T) /\ a \o b \in Seq(T)
  BY ConcatProperties
<1>2. Append(a \o b, e) = (a \o b) \o <<e>>
  BY <1>1, AppendIsConcat
<1>3. Append(b, e) = b \o <<e>>
  BY AppendIsConcat
<1>4. (a \o b) \o <<e>> = a \o (b \o <<e>>)
  BY <1>1, ConcatAssociative
<1> QED
  BY <1>2, <1>3, <1>4 DEF Joined

LEMMA PicksBehind ==
  ASSUME NEW T, NEW S, NEW a \in Seq(T), NEW b \in Seq(T), NEW e \in T
  PROVE  Picks(Joined(a, b), e, S) = Joined(a, Picks(b, e, S))
<1>1. Append(Joined(a, b), e) = Joined(a, Append(b, e))
  BY JoinedAppend
<1> QED
  BY <1>1 DEF Picks

(* What Picked takes over from the first element comes first.               *)
LEMMA PickedPrepend ==
  ASSUME NEW T, NEW S, NEW e \in T, NEW s \in Seq(T)
  PROVE  Picked(Joined(<<e>>, s), S) = Joined(Picks(<<>>, e, S), Picked(s, S))
<1> DEFINE first == Picks(<<>>, e, S)
           P == {t \in Seq(T) : Picked(Joined(<<e>>, t), S) = Joined(first, Picked(t, S))}
<1>1. <<>> \in Seq(T) /\ <<e>> \in Seq(T) /\ Append(<<>>, e) = <<e>>
  BY EmptySeq
<1>2. first \in Seq(T)
  BY <1>1, PicksTyped
<1>3. <<>> \in P
  <2>1. Picked(Append(<<>>, e), S) = Picks(Picked(<<>>, S), e, S)
    BY <1>1, PickedAppend
  <2>2. Joined(first, <<>>) = first /\ Joined(<<e>>, <<>>) = <<e>>
    <3> HIDE DEF first
    <3> QED
      BY <1>1, <1>2, JoinedEmpty
  <2> QED
    BY <1>1, <2>1, <2>2, PickedEmpty
<1>4. ASSUME NEW t \in P, NEW x \in T PROVE Append(t, x) \in P
  <2>1. t \in Seq(T) /\ Picked(Joined(<<e>>, t), S) = Joined(first, Picked(t, S))
    BY <1>4
  <2> HIDE DEF first
  <2>2. Joined(<<e>>, t) \in Seq(T) /\ Picked(t, S) \in Seq(T) /\ Append(t, x) \in Seq(T)
    BY <1>1, <2>1, JoinedTyped, PickedTyped, AppendProperties
  <2>3. Append(Joined(<<e>>, t), x) = Joined(<<e>>, Append(t, x))
    <3>1. PICK one \in Seq(T) : one = <<e>>
      BY <1>1
    <3>2. Append(Joined(one, t), x) = Joined(one, Append(t, x))
      BY <2>1, JoinedAppend
    <3> QED
      BY <3>1, <3>2
  <2>4. Picked(Append(Joined(<<e>>, t), x), S) = Picks(Picked(Joined(<<e>>, t), S), x, S)
    BY <2>2, PickedAppend
  <2>5. Picks(Joined(first, Picked(t, S)), x, S) = Joined(first, Picks(Picked(t, S), x, S))
    BY <1>2, <2>2, PicksBehind
  <2>6. Picked(Append(t, x), S) = Picks(Picked(t, S), x, S)
    BY <2>1, PickedAppend
  <2> QED
    BY <2>1, <2>2, <2>3, <2>4, <2>5, <2>6
<1>5. P = Seq(T)
  <2>1. P \in SUBSET Seq(T)
    OBVIOUS
  <2> HIDE DEF P
  <2> QED
    BY <1>3, <1>4, <2>1, SequencesByAppend
<1> QED
  BY <1>5

LEMMA HeadThenTail ==
  ASSUME NEW T, NEW s \in Seq(T), s # <<>>
  PROVE  Joined(<<Head(s)>>, Tail(s)) = s
<1>1. PICK N \in Nat : N = Len(s) /\ N >= 1
  BY EmptySeq
<1>2. SubSeq(s, 1, N) = <<s[1]>> \o SubSeq(s, 1 + 1, N)
  BY <1>1, SubSeqRecursiveFirst
<1>3. SubSeq(s, 1, N) = s /\ Tail(s) = SubSeq(s, 2, N)
  BY <1>1, SubSeqFull, TailIsSubSeq
<1> QED
  BY <1>2, <1>3 DEF Joined

(* One element is moved from a sequence to what was taken over of it.       *)
LEMMA TakenOver ==
  ASSUME NEW T, NEW S, NEW a \in Seq(T), NEW s \in Seq(T), s # <<>>
  PROVE  Joined(Picks(a, Head(s), S), Picked(Tail(s), S)) = Joined(a, Picked(s, S))
<1> DEFINE e == Head(s)
           t == Tail(s)
           first == Picks(<<>>, e, S)
<1>1. e \in T /\ t \in Seq(T) /\ <<>> \in Seq(T) /\ Joined(<<e>>, t) = s
  BY HeadTailProperties, HeadThenTail
<1> HIDE DEF e, t
<1>2. first \in Seq(T) /\ Picked(t, S) \in Seq(T)
  BY <1>1, PicksTyped, PickedTyped
<1>3. Picked(s, S) = Joined(first, Picked(t, S))
  BY <1>1, PickedPrepend
<1>4. Picks(a, e, S) = Joined(a, first)
  <2>1. Joined(a, <<>>) = a
    BY JoinedEmpty
  <2>2. Picks(Joined(a, <<>>), e, S) = Joined(a, Picks(<<>>, e, S))
    <3>1. PICK none \in Seq(T) : none = <<>>
      BY <1>1
    <3>2. Picks(Joined(a, none), e, S) = Joined(a, Picks(none, e, S))
      BY <1>1, PicksBehind
    <3> QED
      BY <3>1, <3>2
  <2> QED
    BY <2>1, <2>2
<1> HIDE DEF first
<1>5. Joined(Joined(a, first), Picked(t, S)) = Joined(a, Joined(first, Picked(t, S)))
  BY <1>2, JoinedThrice
<1> QED
  BY <1>3, <1>4, <1>5 DEF e, t

LEMMA UentsTyped ==
  ASSUME NEW T, NEW U, NEW s \in Seq(T), \A e \in T : e.uent \in U
  PROVE  Uents(s) \in Seq(U) /\ Len(Uents(s)) = Len(s)
<1>1. PICK N \in Nat : N = Len(s) /\ DOMAIN s = 1 .. N
  BY LenProperties
<1>2. \A n \in 1 .. N : s[n] \in T
  BY <1>1, ElementOfSeq
<1>3. Uents(s) \in [1 .. N -> U]
  BY <1>1, <1>2 DEF Uents
<1> QED
  BY <1>1, <1>3

LEMMA UentsEmpty == Uents(<<>>) = <<>>
  BY DEF Uents

LEMMA UentsAppend ==
  ASSUME NEW T, NEW U, NEW s \in Seq(T), NEW e \in T, \A x \in T : x.uent \in U
  PROVE  Uents(Append(s, e)) = Append(Uents(s), e.uent)
<1>1. PICK N \in Nat : N = Len(s) /\ DOMAIN s = 1 .. N
  BY LenProperties
<1>2. PICK t \in Seq(T) :
        /\ t = Append(s, e) /\ Len(t) = N + 1 /\ t[N + 1] = e
        /\ \A n \in 1 .. N : t[n] = s[n]
  <2>1. /\ Append(s, e) \in Seq(T)
        /\ Len(Append(s, e)) = Len(s) + 1
        /\ \A n \in 1 .. Len(s) : Append(s, e)[n] = s[n]
        /\ Append(s, e)[Len(s) + 1] = e
    BY AppendProperties
  <2> QED
    BY <1>1, <2>1
<1>3. Uents(t) \in Seq(U) /\ Len(Uents(t)) = N + 1 /\ Uents(s) \in Seq(U) /\ Len(Uents(s)) = N
  BY <1>1, <1>2, UentsTyped
<1>4. e.uent \in U
  OBVIOUS
<1>5. PICK v \in Seq(U) :
        /\ v = Append(Uents(s), e.uent) /\ Len(v) = N + 1 /\ v[N + 1] = e.uent
        /\ \A n \in 1 .. N : v[n] = Uents(s)[n]
  <2>1. PICK w \in Seq(U), x \in U : w = Uents(s) /\ x = e.uent
    BY <1>3, <1>4
  <2>2. /\ Append(w, x) \in Seq(U)
        /\ Len(Append(w, x)) = Len(w) + 1
        /\ \A n \in 1 .. Len(w) : Append(w, x)[n] = w[n]
        /\ Append(w, x)[Len(w) + 1] = x
    BY AppendProperties
  <2> QED
    BY <1>3, <2>1, <2>2
<1>6. DOMAIN t = 1 .. N + 1
  BY <1>2, LenProperties
<1>7. ASSUME NEW n \in 1 .. N + 1 PROVE Uents(t)[n] = v[n]
  <2>1. Uents(t)[n] = t[n].uent
    BY <1>6 DEF Uents
  <2>2. CASE n = N + 1
    BY <1>2, <1>5, <2>1, <2>2
  <2>3. CASE n \in 1 .. N
    <3>1. Uents(s)[n] = s[n].uent
      BY <1>1, <2>3 DEF Uents
    <3> QED
      BY <1>2, <1>5, <2>1, <2>3, <3>1
  <2> QED
    BY <2>2, <2>3
<1>8. Uents(t) = v
  BY <1>3, <1>5, <1>7, SeqEqual
<1> QED
  BY <1>2, <1>5, <1>8

----------------------------------------------------------------------------
(* What a list shows, line by line.                                         *)

LEMMA KnownIsNumber ==
  ASSUME found \in Seq(Uent), NEW x, Known(x)
  PROVE  x \in Uent /\ x \in Nat /\ x # SyntaxError
<1>1. \A n \in DOMAIN found : found[n] \in Uent
  BY LenProperties, ElementOfSeq
<1> QED
  BY <1>1, UentAssumption, SyntaxErrorAssumption DEF Known, ToSet

IsEnd(f, n) ==
  n \in 0 .. Len(f) /\ AllKnown(f, n) /\ (n < Len(f) => Unknown(f[n + 1]))

LEMMA EndExists ==
  ASSUME NEW f \in ListLines PROVE \E n \in Nat : IsEnd(f, n)
<1>1. PICK N \in Nat : N = Len(f)
  BY LenProperties DEF ListLines
<1> DEFINE Stops == {n \in 0 .. N : n < N => Unknown(f[n + 1])}
<1>2. Stops \in SUBSET Nat /\ Stops # {}
  <2>1. N \in Stops
    OBVIOUS
  <2> QED
    BY <2>1
<1>3. PICK n \in Stops : \A m \in Stops : n <= m
  <2> HIDE DEF Stops
  <2> QED
    BY <1>2, LeastMember
<1>4. AllKnown(f, n)
  <2> SUFFICES ASSUME NEW m \in 1 .. n, Unknown(f[m]) PROVE FALSE
    BY DEF AllKnown
  <2>1. m - 1 \in 0 .. N /\ (m - 1) + 1 = m /\ ~ (n <= m - 1)
    BY <1>3
  <2>2. m - 1 \in Stops
    BY <2>1
  <2> QED
    BY <1>3, <2>1, <2>2
<1> QED
  BY <1>1, <1>3, <1>4 DEF IsEnd

LEMMA EndUnique ==
  ASSUME NEW f, NEW n \in Nat, NEW m \in Nat, IsEnd(f, n), IsEnd(f, m), Len(f) \in Nat
  PROVE  n = m
<1>1. ASSUME NEW a \in Nat, NEW b \in Nat, IsEnd(f, a), IsEnd(f, b), a < b PROVE FALSE
  <2>1. a < Len(f) /\ a + 1 \in 1 .. b
    BY <1>1 DEF IsEnd
  <2> QED
    BY <1>1, <2>1 DEF IsEnd, AllKnown
<1> QED
  BY <1>1

LEMMA ShowsIs ==
  ASSUME NEW f \in ListLines, NEW n \in Nat, IsEnd(f, n)
  PROVE  Shows(f) = Picked(SubSeq(f, 1, n), Nat)
<1> DEFINE end == CHOOSE k \in 0 .. Len(f) :
                    AllKnown(f, k) /\ (k < Len(f) => Unknown(f[k + 1]))
<1>1. Len(f) \in Nat
  BY LenProperties DEF ListLines
<1>2. \E k \in 0 .. Len(f) : AllKnown(f, k) /\ (k < Len(f) => Unknown(f[k + 1]))
  BY DEF IsEnd
<1>3. end \in 0 .. Len(f) /\ AllKnown(f, end) /\ (end < Len(f) => Unknown(f[end + 1]))
  BY <1>2
<1>4. Shows(f) = Picked(SubSeq(f, 1, end), Nat)
  BY DEF Shows
<1> HIDE DEF end
<1>5. IsEnd(f, end) /\ end \in Nat
  BY <1>1, <1>3 DEF IsEnd
<1>6. end = n
  BY <1>1, <1>5, EndUnique
<1> QED
  BY <1>4, <1>6

LEMMA ShowsEmpty == Shows(<<>>) = <<>>
<1>1. <<>> \in ListLines /\ Len(<<>>) = 0
  BY EmptySeq DEF ListLines
<1>2. IsEnd(<<>>, 0)
  BY <1>1 DEF IsEnd, AllKnown
<1>3. Shows(<<>>) = Picked(SubSeq(<<>>, 1, 0), Nat)
  BY <1>1, <1>2, ShowsIs
<1>4. SubSeq(<<>>, 1, 0) = <<>>
  BY SubSeqEmpty
<1> QED
  BY <1>3, <1>4, PickedEmpty

LEMMA PickedNumbers ==
  ASSUME NEW s \in ListLines PROVE Picked(s, Nat) \in Seq(Nat)
<1> DEFINE P == {t \in ListLines : Picked(t, Nat) \in Seq(Nat)}
           T == Nat \cup {SyntaxError}
<1>1. <<>> \in P
  BY PickedEmpty, EmptySeq DEF ListLines
<1>2. ASSUME NEW t \in P, NEW x \in T PROVE Append(t, x) \in P
  <2>1. t \in Seq(T) /\ Picked(t, Nat) \in Seq(Nat)
    BY <1>2 DEF ListLines
  <2>2. Picked(Append(t, x), Nat) = Picks(Picked(t, Nat), x, Nat)
    BY <2>1, PickedAppend, Z3
  <2>3. Picks(Picked(t, Nat), x, Nat) \in Seq(Nat)
    BY <2>1, AppendProperties DEF Picks
  <2>4. Append(t, x) \in Seq(T)
    BY <2>1, AppendProperties
  <2> QED
    BY <2>2, <2>3, <2>4 DEF ListLines
<1>3. P \in SUBSET Seq(T)
  BY DEF ListLines
<1>4. P = Seq(T)
  <2> HIDE DEF P, T
  <2> QED
    BY <1>1, <1>2, <1>3, SequencesByAppend
<1> QED
  BY <1>4 DEF ListLines

LEMMA ShowsTyped ==
  ASSUME NEW f \in ListLines PROVE Shows(f) \in Seq(Nat)
<1>1. PICK n \in Nat : IsEnd(f, n)
  BY EndExists
<1>2. Shows(f) = Picked(SubSeq(f, 1, n), Nat)
  BY <1>1, ShowsIs
<1>3. SubSeq(f, 1, n) \in ListLines
  <2>1. \A i \in 1 .. n : f[i] \in Nat \cup {SyntaxError}
    BY <1>1, ElementOfSeq DEF IsEnd, ListLines
  <2> QED
    BY <2>1, SubSeqProperties DEF ListLines
<1> QED
  BY <1>2, <1>3, PickedNumbers

(* Reading one line takes what it shows over from what the file shows.      *)
Read(a, f) == IF Known(Head(f)) THEN Append(a, Head(f)) ELSE a

LEMMA ShowsRest ==
  ASSUME found \in Seq(Uent), NEW f \in ListLines, f # <<>>, NEW a \in Seq(Nat)
  PROVE  /\ Rest(f) \in ListLines
         /\ Joined(Read(a, f), Shows(Rest(f))) = Joined(a, Shows(f))
<1> DEFINE T == Nat \cup {SyntaxError}
<1>1. f \in Seq(T) /\ <<>> \in Seq(T)
  BY EmptySeq DEF ListLines
<1>2. PICK h \in T, t \in Seq(T) :
        /\ h = Head(f) /\ t = Tail(f) /\ Len(t) = Len(f) - 1
        /\ \A n \in 1 .. Len(t) : t[n] = f[n + 1]
  <2> HIDE DEF T
  <2>1. /\ Head(f) \in T /\ Tail(f) \in Seq(T) /\ Len(Tail(f)) = Len(f) - 1
        /\ \A n \in 1 .. Len(Tail(f)) : Tail(f)[n] = f[n + 1]
    BY <1>1, HeadTailProperties
  <2> QED
    BY <2>1
<1>3. PICK N \in Nat : N = Len(t) /\ Len(f) = N + 1
  <2>1. Len(t) \in Nat /\ Len(f) \in Nat
    BY <1>1, <1>2, LenProperties
  <2>2. Len(f) = Len(t) + 1
    BY <1>2, <2>1
  <2> QED
    BY <2>1, <2>2
<1>4. f[1] = h
  BY <1>2 
<1>5. CASE Unknown(h)
  <2>1. Rest(f) = <<>> /\ Read(a, f) = a
    BY <1>2, <1>5 DEF Rest, Read, Unknown
  <2>2. IsEnd(f, 0)
    BY <1>3, <1>4, <1>5 DEF IsEnd, AllKnown
  <2>3. Shows(f) = Picked(SubSeq(f, 1, 0), Nat)
    BY <2>2, ShowsIs
  <2>4. SubSeq(f, 1, 0) = <<>>
    BY SubSeqEmpty
  <2>5. Shows(f) = <<>>
    BY <2>3, <2>4, PickedEmpty
  <2> QED
    BY <1>1, <2>1, <2>5, ShowsEmpty DEF ListLines
<1>6. CASE ~Unknown(h)
  <2>1. Rest(f) = t
    BY <1>2, <1>6 DEF Rest, Unknown
  <2>2. PICK n \in Nat : IsEnd(t, n)
    BY EndExists DEF ListLines
  <2>3. n + 1 \in Nat /\ IsEnd(f, n + 1)
    <3>1. n \in 0 .. N /\ n + 1 \in 0 .. Len(f)
      BY <1>3, <2>2 DEF IsEnd
    <3>2. ASSUME NEW m \in 1 .. n + 1 PROVE ~Unknown(f[m])
      <4>1. CASE m = 1
        BY <1>4, <1>6, <4>1
      <4>2. CASE m # 1
        <5>1. m - 1 \in 1 .. n /\ m - 1 \in 1 .. Len(t) /\ (m - 1) + 1 = m
          BY <1>3, <3>1, <4>2
        <5>2. t[m - 1] = f[m]
          BY <1>2, <5>1
        <5> QED
          BY <2>2, <5>1, <5>2 DEF IsEnd, AllKnown
      <4> QED
        BY <4>1, <4>2
    <3>3. ASSUME n + 1 < Len(f) PROVE Unknown(f[(n + 1) + 1])
      <4>1. n + 1 \in 1 .. Len(t) /\ n < Len(t)
        BY <1>3, <3>1, <3>3
      <4> QED
        BY <1>2, <2>2, <4>1 DEF IsEnd
    <3> QED
      BY <3>1, <3>2, <3>3 DEF IsEnd, AllKnown
  <2>4. Shows(t) = Picked(SubSeq(t, 1, n), Nat)
    BY <2>2, ShowsIs DEF ListLines
  <2>5. Shows(f) = Picked(SubSeq(f, 1, n + 1), Nat)
    BY <2>3, ShowsIs
  <2> DEFINE s == SubSeq(f, 1, n + 1)
  <2>6. s \in Seq(T) /\ s # <<>> /\ Head(s) = h /\ Tail(s) = SubSeq(t, 1, n)
    <3>1. n \in 0 .. N /\ 1 \in 1 .. Len(f) /\ n + 1 \in 1 .. Len(f)
      BY <1>3, <2>2 DEF IsEnd
    <3>2. Head(s) = f[1] /\ Tail(s) = SubSeq(f, 2, n + 1)
      <4>1. 1 + 1 = 2
        OBVIOUS
      <4> HIDE DEF T
      <4> QED
        BY <1>1, <3>1, <4>1, HeadTailOfSubSeq
    <3>3. s \in Seq(T) /\ Len(s) = n + 1
      <4>1. \A i \in 1 .. n + 1 : f[i] \in T
        BY <1>1, <3>1, ElementOfSeq
      <4> HIDE DEF T
      <4> QED
        BY <4>1, SubSeqProperties
    <3>4. SubSeq(f, 2, n + 1) = SubSeq(t, 1, n)
      <4>1. SubSeq(f, 2, n + 1) \in Seq(T) /\ Len(SubSeq(f, 2, n + 1)) = n
            /\ \A i \in 1 .. n : SubSeq(f, 2, n + 1)[i] = f[i + 1]
        <5>1. \A i \in 2 .. n + 1 : f[i] \in T
          BY <1>1, <3>1, <1>3, ElementOfSeq
        <5> QED
          BY <5>1
      <4>2. SubSeq(t, 1, n) \in Seq(T) /\ Len(SubSeq(t, 1, n)) = n
            /\ \A i \in 1 .. n : SubSeq(t, 1, n)[i] = t[i]
        <5>1. \A i \in 1 .. n : t[i] \in T
          BY <3>1, <1>3, ElementOfSeq
        <5> QED
          BY <5>1
      <4>3. \A i \in 1 .. n : SubSeq(f, 2, n + 1)[i] = SubSeq(t, 1, n)[i]
        BY <1>2, <1>3, <3>1, <4>1, <4>2
      <4> HIDE DEF T
      <4> QED
        BY <4>1, <4>2, <4>3, SeqEqual
    <3> HIDE DEF s, T
    <3>5. s # <<>>
      <4>1. Len(<<>>) = 0
        BY EmptySeq
      <4> QED
        BY <3>3, <4>1
    <3> QED
      BY <1>4, <3>2, <3>3, <3>4, <3>5
  <2> HIDE DEF s
  <2>7. a \in Seq(T)
    BY SeqMonotonic
  <2>8. Joined(Picks(a, h, Nat), Picked(SubSeq(t, 1, n), Nat)) = Joined(a, Picked(s, Nat))
    <3> HIDE DEF T
    <3>1. Joined(Picks(a, Head(s), Nat), Picked(Tail(s), Nat)) = Joined(a, Picked(s, Nat))
      BY <2>6, <2>7, TakenOver, Z3
    <3> QED
      BY <2>6, <3>1
  <2>9. Picks(a, h, Nat) = Read(a, f)
    <3>1. Known(h) <=> h \in Nat
      BY <1>6, KnownIsNumber, SyntaxErrorAssumption DEF Unknown
    <3> QED
      BY <1>2, <3>1 DEF Picks, Read
  <2> QED
    BY <2>1, <2>4, <2>5, <2>8, <2>9 DEF s, ListLines
<1> QED
  BY <1>5, <1>6

----------------------------------------------------------------------------
(* What the options and the scan leave behind.                              *)

ChoicesTyped ==
  /\ args \in Seq(LsubOptions)
  /\ cna \in Nat
  /\ found \in Seq(Uent) /\ toList \in Seq(Uent)
  /\ step = "name" => toList # <<>>

LEMMA OptionTyped ==
  ASSUME ChoicesTyped, args # <<>>
  PROVE  /\ Option \in LsubOptions /\ Tail(args) \in Seq(LsubOptions)
         /\ Option.opt = "r" /\ "refused" \notin DOMAIN Option => Option.cna \in Nat
         /\ Option.opt = "e" /\ "refused" \notin DOMAIN Option => Option.uent \in Nat
<1>1. Option \in LsubOptions /\ Tail(args) \in Seq(LsubOptions)
  BY HeadTailProperties DEF ChoicesTyped, Option
<1>2. ASSUME Option.opt = "r", "refused" \notin DOMAIN Option
      PROVE  Option.cna \in Nat
  <2>1. CASE Option \in [opt : Flags \cup {"h", "i", "p", "s", "E", "X"}]
    BY <1>2, <2>1 DEF Flags
  <2>2. CASE Option \in [opt : {"e"}, uent : Nat \ {0}]
    BY <1>2, <2>2
  <2>3. CASE Option \in [opt : {"r"}, cna : Nat]
    BY <2>3
  <2>4. CASE Option \in [opt : {"e", "r", "p", "s", "E"}, refused : {TRUE}]
    BY <1>2, <2>4
  <2> QED
    BY <1>1, <2>1, <2>2, <2>3, <2>4 DEF LsubOptions
<1>3. ASSUME Option.opt = "e", "refused" \notin DOMAIN Option
      PROVE  Option.uent \in Nat
  <2>1. CASE Option \in [opt : Flags \cup {"h", "i", "p", "s", "E", "X"}]
    BY <1>3, <2>1 DEF Flags
  <2>2. CASE Option \in [opt : {"e"}, uent : Nat \ {0}]
    BY <2>2
  <2>3. CASE Option \in [opt : {"r"}, cna : Nat]
    BY <1>3, <2>3
  <2>4. CASE Option \in [opt : {"e", "r", "p", "s", "E"}, refused : {TRUE}]
    BY <1>3, <2>4
  <2> QED
    BY <1>1, <2>1, <2>2, <2>3, <2>4 DEF LsubOptions
<1> QED
  BY <1>1, <1>2, <1>3

LEMMA FoundGrows ==
  ASSUME NEW s \in Seq(Uent), NEW u \in Uent PROVE <<u>> \o s \in Seq(Uent)
  BY Prepend

LEMMA StepChoices == ChoicesTyped /\ [LsubNext]_lsubVars => ChoicesTyped'
<1> SUFFICES ASSUME ChoicesTyped, [LsubNext]_lsubVars PROVE ChoicesTyped'
  OBVIOUS
<1> USE DEF choice, memory, listing, InMain, InList, OutOfMain, Goto, mueVars
<1>1. CASE AllocAcc \/ AllocAccFails \/ InitAcc \/ InitAccFails \/ OptionRefused \/ OptionsTaken
  BY <1>1 DEF AllocAcc, AllocAccFails, InitAcc, InitAccFails, OptionRefused, OptionsTaken, ChoicesTyped
<1>2. CASE GiveFlag \/ GiveHelp \/ GiveIdsFile \/ GiveEntity \/ GiveCna \/ GiveOther
  <2>1. args # <<>> /\ args' = Tail(args) /\ UNCHANGED <<found, toList>>
    BY <1>2 DEF GiveFlag, GiveHelp, GiveIdsFile, GiveEntity, GiveCna, GiveOther, Taking, Taken
  <2>2. cna' = cna \/ (Taking({"r"}) /\ cna' = Option.cna)
    BY <1>2 DEF GiveFlag, GiveHelp, GiveIdsFile, GiveEntity, GiveCna, GiveOther
  <2>3. cna' \in Nat
    <3>1. CASE Taking({"r"}) /\ cna' = Option.cna
      BY <2>1, <3>1, OptionTyped DEF Taking
    <3> QED
      BY <2>2, <3>1 DEF ChoicesTyped
  <2>4. step' # "name"
    BY <1>2 DEF GiveFlag, GiveHelp, GiveIdsFile, GiveEntity, GiveCna, GiveOther, Taking, Taken
  <2> QED
    BY <2>1, <2>3, <2>4, OptionTyped DEF ChoicesTyped
<1>3. ASSUME NEW u \in Uent, ScanUent(u) PROVE ChoicesTyped'
  BY <1>3, FoundGrows DEF ScanUent, ChoicesTyped
<1>4. CASE ScanEnds \/ AddDevice \/ ScanFails \/ ScanDone \/ OtherCommand
  BY <1>4 DEF ScanEnds, AddDevice, ScanFails, ScanDone, OtherCommand, ChoicesTyped
<1>5. CASE StartRoutes \/ InRoutes \/ StartMueLists \/ StartList
  BY <1>5 DEF StartRoutes, InRoutes, StartMueLists, StartList, ShowMueUeList, ChoicesTyped
<1>6. CASE InMueLists
  <2>1. MueStep => UNCHANGED found
    BY DEF MueStep, SkipUent, ShowRole, MueDone, OpenMueList, MueListEnds, MueLine,
           OpenUeList, UeLine, UeListEnds
  <2> QED
    BY <1>6, <2>1 DEF InMueLists, ChoicesTyped
<1>7. CASE ListSkip \/ ListNumeric \/ AskName \/ ListDone
  BY <1>7, HeadTailProperties DEF ListSkip, ListNumeric, AskName, ListDone, ChoicesTyped
<1>8. CASE ListNamed
  <2>1. /\ UNCHANGED <<args, cna, found>>
        /\ \/ UNCHANGED toList
           \/ toList' = Tail(toList) /\ step' = "list"
    BY <1>8 DEF ListNamed
  <2>2. toList # <<>>
    BY <1>8 DEF ListNamed, ChoicesTyped
  <2>3. Tail(toList) \in Seq(Uent)
    BY <2>2, HeadTailProperties DEF ChoicesTyped
  <2> QED
    BY <2>1, <2>2, <2>3 DEF ChoicesTyped
<1>9. CASE CleanUp
  BY <1>9 DEF CleanUp, ChoicesTyped
<1>10. CASE LsubExited \/ UNCHANGED lsubVars
  BY <1>10 DEF LsubExited, lsubVars, ChoicesTyped
<1> QED
  BY <1>1, <1>2, <1>3, <1>4, <1>5, <1>6, <1>7, <1>8, <1>9, <1>10 DEF LsubNext, LsubTool

LEMMA ChoicesInvariant == LsubSpec => []ChoicesTyped
<1>1. LsubInit => ChoicesTyped
  BY CommandLinesAssumption DEF LsubInit, MueInit, ChoicesTyped
<1> QED
  BY <1>1, StepChoices, PTL DEF LsubSpec

----------------------------------------------------------------------------
(* lsub asks the ID database for entities of the scan, names the file before*)
(* and cleans up behind, which is what the database expects of its users.   *)
LEMMA StepUsesIds == ChoicesTyped /\ [LsubNext]_lsubVars => [IdsNext]_idsVars
<1> SUFFICES ASSUME ChoicesTyped, [LsubNext]_lsubVars PROVE [IdsNext]_idsVars
  OBVIOUS
<1>1. CASE GiveIdsFile
  BY <1>1 DEF GiveIdsFile, IdsNext
<1>2. CASE AskName
  <2>1. Head(toList) \in Uent
    BY <1>2, HeadTailProperties DEF AskName, ChoicesTyped
  <2>2. IdOf[Head(toList)] \in Query
    BY <2>1, IdOfAssumption
  <2> QED
    BY <1>2, <2>2 DEF AskName, IdsNext
<1>3. CASE ListNamed
  BY <1>3 DEF ListNamed, IdsNext
<1>4. CASE CleanUp
  BY <1>4 DEF CleanUp, IdsNext
<1>5. CASE \/ AllocAcc \/ AllocAccFails \/ InitAcc \/ InitAccFails \/ OptionRefused
           \/ OptionsTaken \/ GiveFlag \/ GiveHelp \/ GiveEntity \/ GiveCna \/ GiveOther
  BY <1>5 DEF AllocAcc, AllocAccFails, InitAcc, InitAccFails, OptionRefused, OptionsTaken,
              GiveFlag, GiveHelp, GiveEntity, GiveCna, GiveOther
<1>6. CASE \/ \E u \in Uent : ScanUent(u)
           \/ ScanEnds \/ AddDevice \/ ScanFails \/ ScanDone \/ OtherCommand
           \/ StartRoutes \/ InRoutes \/ StartMueLists \/ InMueLists
  BY <1>6 DEF ScanUent, ScanEnds, AddDevice, ScanFails, ScanDone, OtherCommand,
              StartRoutes, InRoutes, StartMueLists, InMueLists
<1>7. CASE StartList \/ ListSkip \/ ListNumeric \/ ListDone \/ LsubExited \/ UNCHANGED lsubVars
  BY <1>7 DEF StartList, ListSkip, ListNumeric, ListDone, LsubExited, lsubVars
<1> QED
  BY <1>1, <1>2, <1>3, <1>4, <1>5, <1>6, <1>7 DEF LsubNext, LsubTool

(* Every behaviour of lsub is one that the specification of the ID database *)
(* allows, so its theorems hold of lsub.                                    *)
THEOREM LsubUsesIds == LsubSpec => IdsSpec
<1>1. LsubInit => IdsInit
  BY DEF LsubInit
<1> QED
  BY <1>1, ChoicesInvariant, StepUsesIds, PTL DEF LsubSpec, IdsSpec

LEMMA StepUsesRoutes == ChoicesTyped /\ [LsubNext]_lsubVars => [RoutesNext]_routeVars
<1> SUFFICES ASSUME ChoicesTyped, [LsubNext]_lsubVars PROVE [RoutesNext]_routeVars
  OBVIOUS
<1> USE DEF InMain, InList
<1>1. CASE StartRoutes
  <2>1. cna \in Nat /\ Known(uentNum) \in BOOLEAN
    BY DEF ChoicesTyped, Known
  <2>2. ShowRouteTbl([known |-> Known(uentNum), cna |-> cna])
    BY <1>1 DEF StartRoutes
  <2> HIDE DEF Known
  <2>3. \E k \in BOOLEAN, c \in Nat : ShowRouteTbl([known |-> k, cna |-> c])
    BY <2>1, <2>2
  <2> QED
    BY <2>3 DEF RoutesNext
<1>2. CASE InRoutes
  BY <1>2 DEF InRoutes, RoutesNext
<1>3. CASE \/ AllocAcc \/ AllocAccFails \/ InitAcc \/ InitAccFails \/ OptionRefused
           \/ OptionsTaken \/ GiveFlag \/ GiveHelp \/ GiveIdsFile \/ GiveEntity \/ GiveCna
           \/ GiveOther
  BY <1>3 DEF AllocAcc, AllocAccFails, InitAcc, InitAccFails, OptionRefused, OptionsTaken,
              GiveFlag, GiveHelp, GiveIdsFile, GiveEntity, GiveCna, GiveOther, Taken
<1>4. CASE \/ \E u \in Uent : ScanUent(u)
           \/ ScanEnds \/ AddDevice \/ ScanFails \/ ScanDone \/ OtherCommand
           \/ StartMueLists \/ InMueLists
  BY <1>4 DEF ScanUent, ScanEnds, AddDevice, ScanFails, ScanDone, OtherCommand,
              StartMueLists, InMueLists
<1>5. CASE \/ StartList \/ ListSkip \/ ListNumeric \/ AskName \/ ListNamed \/ ListDone
           \/ CleanUp \/ LsubExited \/ UNCHANGED lsubVars
  BY <1>5 DEF StartList, ListSkip, ListNumeric, AskName, ListNamed, ListDone, CleanUp,
              LsubExited, lsubVars
<1> QED
  BY <1>1, <1>2, <1>3, <1>4, <1>5 DEF LsubNext, LsubTool

(* The same for the routing table.                                          *)
THEOREM LsubUsesRoutes == LsubSpec => RoutesSpec
<1>1. LsubInit => RoutesInit
  BY DEF LsubInit
<1> QED
  BY <1>1, ChoicesInvariant, StepUsesRoutes, PTL DEF LsubSpec, RoutesSpec

(* Within a run of lsub a name that has been found is found again: the same *)
(* query never gets another answer.  A query that found nothing may get a   *)
(* name later, from a load that is tried again.                             *)
THEOREM LsubAnswersStable == LsubSpec => []AnswersStable
  BY LsubUsesIds, AnswersStayTheSame, PTL

(* Within a run of lsub the database is a map.                              *)
THEOREM LsubDatabaseIsMap == LsubSpec => MapSpec
  BY LsubUsesIds, DatabaseIsMap, PTL

(* Every name that lsub shows is the one that the file gives, as far as its *)
(* load got, if the subclasses of the file come before the programming      *)
(* interfaces of their class and none has the number SUB_CONFIG (Regular).  *)
THEOREM LsubNamesFollowFile == LsubSpec => []NamesFollowFile
  BY LsubUsesIds, AnswersFollowFile, PTL

(* lsub -r reads what belongs to the cna asked for.                         *)
THEOREM LsubRouteIsExact == LsubSpec => []RouteReadsExact
  BY LsubUsesRoutes, RouteIsExact, PTL

----------------------------------------------------------------------------
(* Types.  The lists: a file is only open while the entity that show_mue_   *)
(* ue_list has come to is being shown, and a ue_list is some entity's.      *)

MueShape ==
  /\ MueTypeOK
  /\ mueAt \in {"mue_list", "mue", "ue_list", "ue"} => todo # <<>>
  /\ mueAt \in {"ue_list", "ue"} => owner \in Uent

RowTyped(u, r, f) ==
  u \in Uent /\ r \in Roles /\ f \in 0 .. Len(files)

LEMMA RowsGrow ==
  ASSUME MueTypeOK, NEW u, NEW r, NEW f, RowTyped(u, r, f)
  PROVE  Append(rows, RowOf(u, r, f)) \in Seq([uent : Uent, role : Roles, file : 0 .. Len(files)])
<1> DEFINE T == [uent : Uent, role : Roles, file : 0 .. Len(files)]
<1>1. rows \in Seq(T) /\ RowOf(u, r, f) \in T
  BY DEF MueTypeOK, RowTyped, RowOf
<1> HIDE DEF T
<1>2. Append(rows, RowOf(u, r, f)) \in Seq(T)
  BY <1>1, AppendProperties
<1> QED
  BY <1>2 DEF T

LEMMA FilesGrow ==
  ASSUME MueTypeOK, NEW u \in Uent, NEW f \in ListLines, files' = Append(files, [of |-> u, lines |-> f])
  PROVE  /\ files' \in Seq([of : Uent, lines : ListLines]) /\ Len(files') = Len(files) + 1
         /\ Len(files) \in Nat /\ files'[Len(files) + 1].lines = f
         /\ \A n \in 1 .. Len(files) : files'[n] = files[n]
         /\ rows \in Seq([uent : Uent, role : Roles, file : 0 .. Len(files')])
<1> DEFINE T == [of : Uent, lines : ListLines]
<1>1. PICK e \in T : e = [of |-> u, lines |-> f] /\ e.lines = f
  OBVIOUS
<1>2. PICK s \in Seq(T) : s = files
  BY DEF MueTypeOK
<1>3. /\ Append(s, e) \in Seq(T) /\ Len(Append(s, e)) = Len(s) + 1
      /\ \A n \in 1 .. Len(s) : Append(s, e)[n] = s[n]
      /\ Append(s, e)[Len(s) + 1] = e
  <2> HIDE DEF T
  <2> QED
    BY AppendProperties
<1>4. PICK N \in Nat : N = Len(s)
  BY LenProperties
<1>5. [uent : Uent, role : Roles, file : 0 .. N] \subseteq [uent : Uent, role : Roles, file : 0 .. N + 1]
  OBVIOUS
<1>6. rows \in Seq([uent : Uent, role : Roles, file : 0 .. N + 1])
  <2>1. rows \in Seq([uent : Uent, role : Roles, file : 0 .. N])
    BY <1>2, <1>4 DEF MueTypeOK
  <2> QED
    BY <1>5, <2>1, SeqMonotonic
<1> QED
  BY <1>1, <1>2, <1>3, <1>4, <1>6

LEMMA RoleTyped ==
  ASSUME NEW u \in Uent PROVE Role(u) \in Roles /\ (Role(u) = "primary" <=> Info[u].idx = 0)
BY InfoAssumption DEF Role, Roles

LEMMA RestTyped ==
  ASSUME MueTypeOK, NEW s \in ListLines, s # <<>>
  PROVE  Rest(s) \in ListLines
<1>1. <<>> \in ListLines /\ Tail(s) \in ListLines
  BY HeadTailProperties, EmptySeq DEF ListLines
<1> QED
  BY <1>1 DEF Rest

LEMMA FileTyped == \A f \in ListFiles : f \in ListLines
  BY ListFilesAssumption DEF ListLines

LEMMA MueStepShape == MueShape /\ MueStep => MueShape'
<1> SUFFICES ASSUME MueShape, MueStep PROVE MueShape'
  OBVIOUS
<1>0. MueTypeOK
  BY DEF MueShape
<1>1. todo # <<>> => Head(todo) \in Uent /\ Tail(todo) \in Seq(Uent)
  BY <1>0, HeadTailProperties DEF MueTypeOK
<1> USE DEF MueShape, MueTypeOK
<1>2. CASE SkipUent \/ MueDone
  BY <1>1, <1>2 DEF SkipUent, MueDone
<1>3. CASE ShowRole
  <2>1. RowTyped(Head(todo), Role(Head(todo)), 0)
    BY <1>1, <1>3, RoleTyped, LenProperties DEF ShowRole, RowTyped
  <2>2. rows' \in Seq([uent : Uent, role : Roles, file : 0 .. Len(files)])
    BY <1>3, <2>1, RowsGrow DEF ShowRole
  <2> QED
    BY <1>1, <1>3, <2>2 DEF ShowRole
<1>4. CASE MueLine
  <2>1. Rest(mueLines) \in ListLines
    BY <1>4, RestTyped DEF MueLine
  <2>2. CASE Known(Head(mueLines))
    <3>1. Head(mueLines) \in Uent
      BY <2>2, KnownIsNumber
    <3>2. RowTyped(Head(mueLines), "its_mue", mueFile)
      BY <3>1 DEF RowTyped, Roles
    <3>3. rows' \in Seq([uent : Uent, role : Roles, file : 0 .. Len(files)])
      <4>1. rows' = Append(rows, RowOf(Head(mueLines), "its_mue", mueFile)) /\ files' = files
        BY <1>4, <2>2 DEF MueLine
      <4>2. Append(rows, RowOf(Head(mueLines), "its_mue", mueFile))
              \in Seq([uent : Uent, role : Roles, file : 0 .. Len(files)])
        BY <1>0, <3>2, RowsGrow
      <4> QED
        BY <4>1, <4>2
    <3> QED
      BY <1>4, <2>1, <2>2, <3>1, <3>3 DEF MueLine, CallUeList
  <2>3. CASE ~Known(Head(mueLines))
    BY <1>4, <2>1, <2>3 DEF MueLine
  <2> QED
    BY <2>2, <2>3
<1>5. CASE MueListEnds
  BY <1>1, <1>5 DEF MueListEnds, CallUeList
<1>6. CASE UeLine
  <2>1. Rest(ueLines) \in ListLines
    BY <1>6, RestTyped DEF UeLine
  <2>2. CASE Known(Head(ueLines))
    <3>1. Head(ueLines) \in Uent
      BY <2>2, KnownIsNumber
    <3>2. Len(files) \in 0 .. Len(files)
      BY LenProperties
    <3>3. RowTyped(Head(ueLines), "its_ue", Len(files))
      BY <3>1, <3>2 DEF RowTyped, Roles
    <3>4. rows' \in Seq([uent : Uent, role : Roles, file : 0 .. Len(files)])
      BY <1>6, <2>2, <3>3, RowsGrow DEF UeLine
    <3> QED
      BY <1>6, <2>1, <3>4 DEF UeLine
  <2>3. CASE ~Known(Head(ueLines))
    BY <1>6, <2>1, <2>3 DEF UeLine
  <2> QED
    BY <2>2, <2>3
<1>7. CASE UeListEnds
  BY <1>1, <1>7 DEF UeListEnds
<1>8. ASSUME NEW f \in ListFiles, OpenMueList(f) PROVE MueShape'
  <2>1. Head(todo) \in Uent /\ f \in ListLines
    BY <1>1, <1>8, FileTyped DEF OpenMueList
  <2>2. /\ files' \in Seq([of : Uent, lines : ListLines]) /\ Len(files') = Len(files) + 1
        /\ Len(files) \in Nat
        /\ rows \in Seq([uent : Uent, role : Roles, file : 0 .. Len(files')])
    BY <1>0, <1>8, <2>1, FilesGrow DEF OpenMueList
  <2>3. Len(files') \in 0 .. Len(files')
    BY <2>2
  <2> QED
    BY <1>8, <2>1, <2>2, <2>3 DEF OpenMueList
<1>9. ASSUME NEW f \in ListFiles, OpenUeList(f) PROVE MueShape'
  <2>1. owner \in Uent /\ f \in ListLines
    BY <1>9, FileTyped DEF OpenUeList
  <2>2. /\ files' \in Seq([of : Uent, lines : ListLines]) /\ Len(files') = Len(files) + 1
        /\ Len(files) \in Nat
        /\ rows \in Seq([uent : Uent, role : Roles, file : 0 .. Len(files')])
    BY <1>0, <1>9, <2>1, FilesGrow DEF OpenUeList
  <2>3. mueFile \in 0 .. Len(files')
    BY <2>2
  <2> QED
    BY <1>9, <2>1, <2>2, <2>3 DEF OpenUeList
<1> QED
  BY <1>2, <1>3, <1>4, <1>5, <1>6, <1>7, <1>8, <1>9 DEF MueStep

(* What lsub does to the lists: it asks for them, follows them, or changes  *)
(* what the scan has found.                                                 *)
LEMMA MueMoves ==
  ASSUME [LsubNext]_lsubVars
  PROVE  \/ /\ UNCHANGED mueVars
            /\ step \in {"mue", "cleanup", "exit"} => step' \in {"mue", "cleanup", "exit"}
            /\ step = "exit" => step' = "exit"
         \/ step = "mue" /\ step' = "mue" /\ MueStep
         \/ step = "command" /\ step' = "mue" /\ ShowMueUeList(uentNum)
         \/ /\ OutOfMain
            /\ \/ step' = "exit" /\ found' = <<>>
               \/ step = "scan" /\ step' = "scan" /\ \E u \in Uent : found' = <<u>> \o found
<1> USE DEF InMain, InList, Goto
<1>1. CASE StartMueLists
  BY <1>1 DEF StartMueLists, Chosen
<1>2. CASE InMueLists
  BY <1>2 DEF InMueLists
<1>3. CASE \E u \in Uent : ScanUent(u)
  BY <1>3 DEF ScanUent
<1>4. CASE CleanUp
  BY <1>4 DEF CleanUp
<1>5. CASE \/ AllocAcc \/ AllocAccFails \/ InitAcc \/ InitAccFails \/ OptionRefused
           \/ OptionsTaken \/ GiveFlag \/ GiveHelp \/ GiveIdsFile \/ GiveEntity \/ GiveCna
           \/ GiveOther
  BY <1>5 DEF AllocAcc, AllocAccFails, InitAcc, InitAccFails, OptionRefused, OptionsTaken,
              GiveFlag, GiveHelp, GiveIdsFile, GiveEntity, GiveCna, GiveOther, Taking, Taken
<1>6. CASE \/ ScanEnds \/ AddDevice \/ ScanFails \/ ScanDone \/ OtherCommand
           \/ StartRoutes \/ InRoutes
  BY <1>6 DEF ScanEnds, AddDevice, ScanFails, ScanDone, OtherCommand, StartRoutes, InRoutes,
              Chosen, NoneChosen
<1>7. CASE \/ StartList \/ ListSkip \/ ListNumeric \/ AskName \/ ListNamed \/ ListDone
           \/ LsubExited \/ UNCHANGED lsubVars
  BY <1>7 DEF StartList, ListSkip, ListNumeric, AskName, ListNamed, ListDone, LsubExited,
              NoneChosen, lsubVars
<1> QED
  BY <1>1, <1>2, <1>3, <1>4, <1>5, <1>6, <1>7 DEF LsubNext, LsubTool

ControlsTyped ==
  /\ given \subseteq Flags \cup {"r"} /\ uentNum \in Nat /\ list \in BOOLEAN
  /\ ret \in {"0", "ENOMEM", "EINVAL", "ENOENT", "ENXIO"} /\ acc \in BOOLEAN
  /\ step \in {"alloc", "init", "options", "scan", "devices", "command", "routes",
               "mue", "list", "name", "cleanup", "exit"}

LEMMA StepShape == MueShape /\ uentNum \in Nat /\ [LsubNext]_lsubVars => MueShape'
<1> SUFFICES ASSUME MueShape, uentNum \in Nat, [LsubNext]_lsubVars PROVE MueShape'
  OBVIOUS
<1>1. CASE UNCHANGED mueVars
  BY <1>1 DEF MueShape, MueTypeOK, mueVars
<1>2. CASE MueStep
  BY <1>2, MueStepShape
<1>3. CASE ShowMueUeList(uentNum)
  BY <1>3 DEF MueShape, MueTypeOK, ShowMueUeList
<1>4. CASE OutOfMain /\ (found' = <<>> \/ \E u \in Uent : found' = <<u>> \o found)
  <2>1. found' \in Seq(Uent)
    BY <1>4, FoundGrows, EmptySeq DEF MueShape, MueTypeOK
  <2> QED
    BY <1>4, <2>1 DEF MueShape, MueTypeOK, OutOfMain
<1> QED
  BY <1>1, <1>2, <1>3, <1>4, MueMoves

LEMMA StepControls == ChoicesTyped /\ ControlsTyped /\ [LsubNext]_lsubVars => ControlsTyped'
<1> SUFFICES ASSUME ChoicesTyped, ControlsTyped, [LsubNext]_lsubVars PROVE ControlsTyped'
  OBVIOUS
<1> USE DEF ControlsTyped, InMain, InList, OutOfMain, Goto, memory, choice
<1>1. CASE AllocAcc \/ AllocAccFails \/ InitAcc \/ InitAccFails \/ OptionRefused \/ OptionsTaken
  BY <1>1 DEF AllocAcc, AllocAccFails, InitAcc, InitAccFails, OptionRefused, OptionsTaken
<1>2. CASE GiveFlag \/ GiveHelp \/ GiveIdsFile \/ GiveCna \/ GiveOther
  BY <1>2 DEF GiveFlag, GiveHelp, GiveIdsFile, GiveCna, GiveOther, Taking, Taken
<1>3. CASE GiveEntity
  <2>1. Option.uent \in Nat
    BY <1>3, OptionTyped DEF GiveEntity, Taking
  <2> QED
    BY <1>3, <2>1 DEF GiveEntity, Taking, Taken
<1>4. CASE \/ \E u \in Uent : ScanUent(u)
           \/ ScanEnds \/ AddDevice \/ ScanFails \/ ScanDone \/ OtherCommand
  BY <1>4 DEF ScanUent, ScanEnds, AddDevice, ScanFails, ScanDone, OtherCommand
<1>5. CASE \/ StartRoutes \/ InRoutes \/ StartMueLists \/ InMueLists
           \/ StartList \/ ListSkip \/ ListNumeric \/ AskName \/ ListNamed \/ ListDone
  BY <1>5 DEF StartRoutes, InRoutes, StartMueLists, InMueLists, StartList, ListSkip,
              ListNumeric, AskName, ListNamed, ListDone
<1>6. CASE CleanUp
  BY <1>6 DEF CleanUp
<1>7. CASE LsubExited \/ UNCHANGED lsubVars
  BY <1>7 DEF LsubExited, lsubVars
<1> QED
  BY <1>1, <1>2, <1>3, <1>4, <1>5, <1>6, <1>7 DEF LsubNext, LsubTool

----------------------------------------------------------------------------
(* The list.  What it has shown and what it will still show of the entities *)
(* left make up what it is to show of all that were found; and each of its  *)
(* lines bears the answer that was given to the query for its entity.       *)

ListedTyped == listed \in Seq([uent : Uent, named : 0 .. Len(shown)])

ToBeListed == {u \in Uent : Wanted(u)}

LineNamed(l) == l.named \in DOMAIN shown /\ shown[l.named].query = IdOf[l.uent]

ListedSoFar ==
  /\ step \notin {"list", "name", "cleanup", "exit"} => listed = <<>>
  /\ step \in {"list", "name"} =>
       /\ Joined(Uents(listed), Picked(toList, ToBeListed)) = Picked(found, ToBeListed)
       /\ "n" \notin given => \A n \in DOMAIN listed : LineNamed(listed[n])
  /\ step = "name" =>
       Wanted(Head(toList)) /\ "n" \notin given /\ asked = IdOf[Head(toList)]

Elsewhere ==
  /\ step \notin {"list", "name"} /\ step' \notin {"list", "name"}
  /\ step \in {"cleanup", "exit"} => step' \in {"cleanup", "exit"}
  /\ listed' = listed /\ shown' = shown

LEMMA ListMoves ==
  ASSUME [LsubNext]_lsubVars
  PROVE  \/ Elsewhere
         \/ StartList \/ ListSkip \/ ListNumeric \/ AskName \/ ListNamed \/ ListDone
         \/ UNCHANGED lsubVars
<1> USE DEF InMain, OutOfMain, Goto, Elsewhere, listing, idsVars
<1>1. CASE GiveIdsFile
  BY <1>1 DEF GiveIdsFile, SetIdsFilePath, Taking, Taken
<1>2. CASE CleanUp
  BY <1>2 DEF CleanUp, FreeIds
<1>3. CASE \/ AllocAcc \/ AllocAccFails \/ InitAcc \/ InitAccFails \/ OptionRefused
           \/ OptionsTaken \/ GiveFlag \/ GiveHelp \/ GiveEntity \/ GiveCna \/ GiveOther
  BY <1>3 DEF AllocAcc, AllocAccFails, InitAcc, InitAccFails, OptionRefused, OptionsTaken,
              GiveFlag, GiveHelp, GiveEntity, GiveCna, GiveOther, Taking, Taken
<1>4. CASE \/ \E u \in Uent : ScanUent(u)
           \/ ScanEnds \/ AddDevice \/ ScanFails \/ ScanDone \/ OtherCommand
           \/ StartRoutes \/ InRoutes \/ StartMueLists \/ InMueLists
  BY <1>4 DEF ScanUent, ScanEnds, AddDevice, ScanFails, ScanDone, OtherCommand, Chosen,
              NoneChosen, StartRoutes, InRoutes, StartMueLists, InMueLists
<1>5. CASE LsubExited
  BY <1>5 DEF LsubExited
<1> QED
  BY <1>1, <1>2, <1>3, <1>4, <1>5 DEF LsubNext, LsubTool

(* ub_lookup_name gives one answer, with its last step.                     *)
LEMMA LookupMoves ==
  ASSUME DataTyped, LookupName
  PROVE  /\ asked' = asked
         /\ \/ db' # "idle" /\ shown' = shown
            \/ db' = "idle" /\ \E e : e.query = asked /\ shown' = Append(shown, e)
<1>1. CASE Answer
  <2>1. PICK e : e = [query |-> asked, answer |-> NameOf(asked)]
    OBVIOUS
  <2>2. e.query = asked
    BY <2>1
  <2> QED
    BY <1>1, <2>1, <2>2 DEF Answer
<1>2. CASE ParseLine
  BY <1>2, ParseSteps
<1>3. CASE \/ \E f \in Files : Open(f)
           \/ PathFails \/ OpenFails \/ Loaded \/ ReadFails
  BY <1>3 DEF Open, PathFails, OpenFails, Loaded, ReadFails, Refuse, EndLoad
<1> QED
  BY <1>1, <1>2, <1>3 DEF LookupName

LEMMA ListGrows ==
  ASSUME Asking, ListedTyped, NEW e, NEW u \in Uent
  PROVE  /\ listed \in Seq([uent : Uent, named : 0 .. Len(Append(shown, e))])
         /\ Append(listed, [uent |-> u, named |-> 0]) \in Seq([uent : Uent, named : 0 .. Len(shown)])
         /\ Append(listed, [uent |-> u, named |-> Len(Append(shown, e))])
              \in Seq([uent : Uent, named : 0 .. Len(Append(shown, e))])
<1>1. PICK N \in Nat : N = Len(shown) /\ Len(Append(shown, e)) = N + 1
  <2>1. PICK S : shown \in Seq(S)
    BY DEF Asking
  <2>2. shown \in Seq(S \cup {e}) /\ e \in S \cup {e}
    BY <2>1, SeqMonotonic
  <2>3. Len(Append(shown, e)) = Len(shown) + 1 /\ Len(shown) \in Nat
    BY <2>2, AppendProperties, LenProperties
  <2> QED
    BY <2>3
<1> DEFINE T == [uent : Uent, named : 0 .. N]
           U == [uent : Uent, named : 0 .. N + 1]
<1>2. listed \in Seq(T) /\ T \subseteq U
  BY <1>1 DEF ListedTyped
<1>3. [uent |-> u, named |-> 0] \in T /\ [uent |-> u, named |-> N + 1] \in U
  OBVIOUS
<1>4. listed \in Seq(U)
  BY <1>2, SeqMonotonic
<1>5. /\ Append(listed, [uent |-> u, named |-> 0]) \in Seq(T)
      /\ Append(listed, [uent |-> u, named |-> N + 1]) \in Seq(U)
  <2> HIDE DEF T, U
  <2> QED
    BY <1>2, <1>3, <1>4, AppendProperties
<1> QED
  BY <1>1, <1>4, <1>5

LEMMA StepListedTyped ==
  ChoicesTyped /\ DataTyped /\ Asking /\ ListedTyped /\ [LsubNext]_lsubVars => ListedTyped'
<1> SUFFICES ASSUME ChoicesTyped, DataTyped, Asking, ListedTyped, [LsubNext]_lsubVars
             PROVE  ListedTyped'
  OBVIOUS
<1> USE DEF InList, listing, idsVars
<1>1. CASE Elsewhere
  BY <1>1 DEF Elsewhere, ListedTyped
<1>2. CASE StartList \/ ListSkip \/ ListDone
  BY <1>2 DEF StartList, ListSkip, ListDone, ListedTyped
<1>3. CASE ListNumeric
  <2>1. Head(toList) \in Uent
    BY <1>3, HeadTailProperties DEF ListNumeric, ChoicesTyped
  <2>2. listed' = Append(listed, [uent |-> Head(toList), named |-> 0]) /\ shown' = shown
    BY <1>3 DEF ListNumeric
  <2>3. \A u \in Uent : Append(listed, [uent |-> u, named |-> 0])
                          \in Seq([uent : Uent, named : 0 .. Len(shown)])
    BY ListGrows
  <2> QED
    BY <2>1, <2>2, <2>3 DEF ListedTyped
<1>4. CASE AskName
  BY <1>4 DEF AskName, Ask, ListedTyped
<1>5. CASE ListNamed
  <2>1. Head(toList) \in Uent
    BY <1>5, HeadTailProperties DEF ListNamed, ChoicesTyped
  <2>2. CASE db' # "idle" /\ shown' = shown
    BY <1>5, <2>2 DEF ListNamed, ListedTyped
  <2>3. ASSUME NEW e, db' = "idle", shown' = Append(shown, e)
        PROVE  ListedTyped'
    <3>1. listed' = Append(listed, [uent |-> Head(toList), named |-> Len(shown')])
      BY <1>5, <2>3 DEF ListNamed
    <3>2. Append(listed, [uent |-> Head(toList), named |-> Len(Append(shown, e))])
              \in Seq([uent : Uent, named : 0 .. Len(Append(shown, e))])
      BY <2>1, ListGrows
    <3> QED
      BY <2>3, <3>1, <3>2 DEF ListedTyped
  <2> QED
    BY <1>5, <2>2, <2>3, LookupMoves DEF ListNamed
<1>6. CASE UNCHANGED lsubVars
  BY <1>6 DEF lsubVars, ListedTyped
<1> QED
  BY <1>1, <1>2, <1>3, <1>4, <1>5, <1>6, ListMoves

(* The next entity is listed if it is wanted.                               *)
LEMMA ListOneMore ==
  ASSUME ListedTyped, ChoicesTyped, toList # <<>>, NEW k \in Nat
  PROVE  LET u == Head(toList)
             more == IF Wanted(u) THEN Append(listed, [uent |-> u, named |-> k]) ELSE listed
         IN Joined(Uents(more), Picked(Tail(toList), ToBeListed)) =
              Joined(Uents(listed), Picked(toList, ToBeListed))
<1> DEFINE u == Head(toList)
           T == [uent : Uent, named : Nat]
           W == ToBeListed
<1>1. u \in Uent /\ toList \in Seq(Uent)
  BY HeadTailProperties DEF ChoicesTyped
<1>2. listed \in Seq(T) /\ \A x \in T : x.uent \in Uent
  <2>1. [uent : Uent, named : 0 .. Len(shown)] \subseteq T
    OBVIOUS
  <2> HIDE DEF T
  <2>2. listed \in Seq(T)
    BY <2>1, SeqMonotonic DEF ListedTyped
  <2> QED
    BY <2>2 DEF T
<1> HIDE DEF u
<1>3. PICK l \in T : l = [uent |-> u, named |-> k] /\ l.uent = u
  <2> DEFINE l == [uent |-> u, named |-> k]
  <2>1. l \in T /\ l.uent = u
    BY <1>1
  <2> QED
    BY <2>1
<1> HIDE DEF T
<1>4. Uents(listed) \in Seq(Uent)
  BY <1>2, UentsTyped
<1>5. Uents(Append(listed, l)) = Append(Uents(listed), u)
  <2>1. Uents(Append(listed, l)) = Append(Uents(listed), l.uent)
    BY <1>2, UentsAppend
  <2> QED
    BY <1>3, <2>1
<1>6. u \in W <=> Wanted(u)
  BY <1>1 DEF ToBeListed
<1>7. Joined(Picks(Uents(listed), u, W), Picked(Tail(toList), W)) = Joined(Uents(listed), Picked(toList, W))
  <2> HIDE DEF W
  <2>1. \A a \in Seq(Uent) :
          Joined(Picks(a, Head(toList), W), Picked(Tail(toList), W)) = Joined(a, Picked(toList, W))
    BY <1>1, TakenOver, Z3
  <2> QED
    BY <1>4, <2>1 DEF u
<1> QED
  BY <1>3, <1>5, <1>6, <1>7 DEF u, Picks

LEMMA StepListed ==
  ChoicesTyped /\ DataTyped /\ Asking /\ ListedTyped /\ ListedSoFar /\ [LsubNext]_lsubVars
    => ListedSoFar'
<1> SUFFICES ASSUME ChoicesTyped, DataTyped, Asking, ListedTyped, ListedSoFar,
                    [LsubNext]_lsubVars
             PROVE  ListedSoFar'
  OBVIOUS
<1> USE DEF InList, listing, idsVars, choice, mueVars, Goto
<1>1. CASE Elsewhere
  BY <1>1 DEF Elsewhere, ListedSoFar
<1>2. CASE StartList
  <2>1. listed = <<>> /\ listed' = <<>> /\ toList' = found /\ step' = "list"
        /\ UNCHANGED <<found, uentNum>>
    BY <1>2 DEF StartList, NoneChosen, ListedSoFar
  <2>2. ToBeListed' = ToBeListed
    BY <2>1 DEF ToBeListed, Wanted
  <2>3. Joined(<<>>, Picked(found, ToBeListed)) = Picked(found, ToBeListed)
    BY JoinedEmpty, PickedTyped DEF ChoicesTyped
  <2>4. (Joined(Uents(listed), Picked(toList, ToBeListed)) = Picked(found, ToBeListed))'
    BY <2>1, <2>2, <2>3, UentsEmpty
  <2> QED
    BY <2>1, <2>4 DEF ListedSoFar
<1>3. CASE ListSkip
  <2>1. /\ ~Wanted(Head(toList)) /\ toList' = Tail(toList) /\ step' = "list" /\ step = "list"
        /\ toList # <<>>
        /\ UNCHANGED <<found, uentNum, given, listed, shown>>
    BY <1>3 DEF ListSkip
  <2>2. ToBeListed' = ToBeListed /\ \A l : LineNamed(l)' = LineNamed(l)
    BY <2>1 DEF ToBeListed, Wanted, LineNamed
  <2>3. 0 \in Nat
    OBVIOUS
  <2>4. Joined(Uents(listed), Picked(Tail(toList), ToBeListed)) = Picked(found, ToBeListed)
    BY <2>1, <2>3, ListOneMore DEF ListedSoFar
  <2>5. (Joined(Uents(listed), Picked(toList, ToBeListed)) = Picked(found, ToBeListed))'
    BY <2>1, <2>2, <2>4
  <2>6. ("n" \notin given => \A n \in DOMAIN listed : LineNamed(listed[n]))'
    BY <2>1, <2>2 DEF ListedSoFar
  <2> QED
    BY <2>1, <2>5, <2>6 DEF ListedSoFar
<1>4. CASE ListNumeric
  <2>1. /\ Wanted(Head(toList)) /\ toList' = Tail(toList) /\ step' = "list" /\ step = "list"
        /\ toList # <<>> /\ "n" \in given
        /\ listed' = Append(listed, [uent |-> Head(toList), named |-> 0])
        /\ UNCHANGED <<found, uentNum, given>>
    BY <1>4 DEF ListNumeric
  <2>2. ToBeListed' = ToBeListed
    BY <2>1 DEF ToBeListed, Wanted
  <2>3. 0 \in Nat
    OBVIOUS
  <2>4. Joined(Uents(Append(listed, [uent |-> Head(toList), named |-> 0])),
               Picked(Tail(toList), ToBeListed)) = Picked(found, ToBeListed)
    BY <2>1, <2>3, ListOneMore DEF ListedSoFar
  <2>5. (Joined(Uents(listed), Picked(toList, ToBeListed)) = Picked(found, ToBeListed))'
    BY <2>1, <2>2, <2>4
  <2> QED
    BY <2>1, <2>5 DEF ListedSoFar
<1>5. CASE AskName
  <2>1. /\ Wanted(Head(toList)) /\ step' = "name" /\ step = "list" /\ "n" \notin given
        /\ asked' = IdOf[Head(toList)]
        /\ UNCHANGED <<found, uentNum, given, listed, shown, toList>>
    BY <1>5 DEF AskName, Ask
  <2>2. ToBeListed' = ToBeListed /\ \A l : LineNamed(l)' = LineNamed(l)
    BY <2>1 DEF ToBeListed, Wanted, LineNamed
  <2>3. (Joined(Uents(listed), Picked(toList, ToBeListed)) = Picked(found, ToBeListed))'
    BY <2>1, <2>2 DEF ListedSoFar
  <2>4. (\A n \in DOMAIN listed : LineNamed(listed[n]))'
    BY <2>1, <2>2 DEF ListedSoFar
  <2>5. Wanted(Head(toList))'
    BY <2>1 DEF Wanted
  <2> QED
    BY <2>1, <2>3, <2>4, <2>5 DEF ListedSoFar
<1>6. CASE ListNamed
  <2>1. /\ Wanted(Head(toList)) /\ step = "name" /\ "n" \notin given /\ toList # <<>>
        /\ asked = IdOf[Head(toList)]
        /\ UNCHANGED <<found, uentNum, given>>
    BY <1>6 DEF ListNamed, ListedSoFar, ChoicesTyped
  <2>2. ToBeListed' = ToBeListed
    BY <2>1 DEF ToBeListed, Wanted
  <2>3. CASE db' # "idle" /\ shown' = shown
    <3>1. UNCHANGED <<listed, toList, step>> /\ asked' = asked
      BY <1>6, <2>3, LookupMoves DEF ListNamed
    <3>2. \A l : LineNamed(l)' = LineNamed(l)
      BY <2>3 DEF LineNamed
    <3>3. (Joined(Uents(listed), Picked(toList, ToBeListed)) = Picked(found, ToBeListed))'
      BY <2>1, <2>2, <3>1 DEF ListedSoFar
    <3>4. (\A n \in DOMAIN listed : LineNamed(listed[n]))'
      BY <2>1, <3>1, <3>2 DEF ListedSoFar
    <3>5. Wanted(Head(toList))'
      BY <2>1, <3>1 DEF Wanted
    <3> QED
      BY <2>1, <3>1, <3>3, <3>4, <3>5 DEF ListedSoFar
  <2>4. ASSUME NEW e, db' = "idle", e.query = asked, shown' = Append(shown, e)
        PROVE  ListedSoFar'
    <3>1. PICK k \in Nat :
            /\ DOMAIN shown = 1 .. k /\ DOMAIN shown' = 1 .. k + 1 /\ Len(shown') = k + 1
            /\ \A n \in 1 .. k : shown'[n] = shown[n]
            /\ shown'[k + 1] = e
      <4>1. \E S : shown \in Seq(S)
        BY DEF Asking
      <4>2. /\ Len(shown) \in Nat /\ DOMAIN shown = 1 .. Len(shown)
            /\ DOMAIN Append(shown, e) = 1 .. Len(shown) + 1
            /\ \A n \in 1 .. Len(shown) : Append(shown, e)[n] = shown[n]
            /\ Append(shown, e)[Len(shown) + 1] = e
            /\ \E S : Append(shown, e) \in Seq(S)
        BY <4>1, AppendAny
      <4>3. Len(Append(shown, e)) = Len(shown) + 1
        <5>1. PICK S : Append(shown, e) \in Seq(S)
          BY <4>2
        <5>2. DOMAIN Append(shown, e) = 1 .. Len(Append(shown, e)) /\ Len(Append(shown, e)) \in Nat
          BY <5>1, LenProperties
        <5> QED
          BY <4>2, <5>2
      <4> QED
        BY <2>4, <4>2, <4>3
    <3>2. /\ listed' = Append(listed, [uent |-> Head(toList), named |-> k + 1])
          /\ toList' = Tail(toList) /\ step' = "list"
      BY <1>6, <2>4, <3>1 DEF ListNamed
    <3>3. Joined(Uents(Append(listed, [uent |-> Head(toList), named |-> k + 1])),
                 Picked(Tail(toList), ToBeListed)) = Picked(found, ToBeListed)
      <4>1. PICK m \in Nat : m = k + 1
        OBVIOUS
      <4>2. Joined(Uents(Append(listed, [uent |-> Head(toList), named |-> m])),
                   Picked(Tail(toList), ToBeListed)) = Picked(found, ToBeListed)
        BY <2>1, ListOneMore DEF ListedSoFar
      <4> QED
        BY <4>1, <4>2
    <3>4. (Joined(Uents(listed), Picked(toList, ToBeListed)) = Picked(found, ToBeListed))'
      BY <2>1, <2>2, <3>2, <3>3
    <3>5. (\A n \in DOMAIN listed : LineNamed(listed[n]))'
      <4>3. PICK l : /\ l = [uent |-> Head(toList), named |-> k + 1]
                     /\ l.named = k + 1 /\ l.uent = Head(toList)
        <5> DEFINE m == [uent |-> Head(toList), named |-> k + 1]
        <5>1. m.named = k + 1 /\ m.uent = Head(toList)
          OBVIOUS
        <5> QED
          BY <5>1
      <4>1. \E S : listed \in Seq(S)
        BY DEF ListedTyped
      <4>2. PICK n \in Nat :
              /\ DOMAIN listed = 1 .. n /\ DOMAIN listed' = 1 .. n + 1
              /\ \A m \in 1 .. n : listed'[m] = listed[m]
              /\ listed'[n + 1] = l
        <5>2. /\ Len(listed) \in Nat /\ DOMAIN listed = 1 .. Len(listed)
              /\ DOMAIN Append(listed, l) = 1 .. Len(listed) + 1
              /\ \A i \in 1 .. Len(listed) : Append(listed, l)[i] = listed[i]
              /\ Append(listed, l)[Len(listed) + 1] = l
          BY <4>1, AppendAny
        <5> QED
          BY <3>2, <4>3, <5>2
      <4>4. LineNamed(l)'
        <5>1. k + 1 \in DOMAIN shown' /\ shown'[k + 1].query = asked
          BY <2>4, <3>1
        <5> QED
          BY <2>1, <4>3, <5>1 DEF LineNamed
      <4>5. ASSUME NEW m \in 1 .. n PROVE LineNamed(listed[m])'
        <5>1. LineNamed(listed[m])
          BY <2>1, <4>2, <4>5 DEF ListedSoFar
        <5>2. listed'[m] = listed[m]
          BY <4>2, <4>5
        <5> QED
          BY <3>1, <5>1, <5>2 DEF LineNamed
      <4>6. ASSUME NEW m \in 1 .. n + 1 PROVE LineNamed(listed[m])'
        <5>1. CASE m = n + 1
          BY <4>2, <4>4, <5>1 DEF LineNamed
        <5>2. CASE m \in 1 .. n
          BY <4>5, <5>2
        <5> QED
          BY <5>1, <5>2
      <4> QED
        BY <4>2, <4>6
    <3> QED
      BY <2>1, <3>2, <3>4, <3>5 DEF ListedSoFar
  <2> QED
    BY <1>6, <2>3, <2>4, LookupMoves DEF ListNamed
<1>7. CASE ListDone
  BY <1>7 DEF ListDone, ListedSoFar
<1>8. CASE UNCHANGED lsubVars
  <2>1. UNCHANGED <<step, listed, toList, found, given, uentNum, shown, asked>>
    BY <1>8 DEF lsubVars
  <2>2. ToBeListed' = ToBeListed /\ (\A l : LineNamed(l)' = LineNamed(l))
        /\ \A u : Wanted(u)' = Wanted(u)
    BY <2>1 DEF ToBeListed, Wanted, LineNamed
  <2> QED
    BY <2>1, <2>2 DEF ListedSoFar
<1> QED
  BY <1>1, <1>2, <1>3, <1>4, <1>5, <1>6, <1>7, <1>8, ListMoves

LEMMA ListInvariant == LsubSpec => [](ListedTyped /\ ListedSoFar)
<1>1. LsubInit => ListedTyped /\ ListedSoFar
  BY EmptySeq DEF LsubInit, ListedTyped, ListedSoFar
<1>2. LsubSpec => [](ChoicesTyped /\ DataTyped /\ Asking)
  BY ChoicesInvariant, LsubUsesIds, AskingInvariant, PTL
<1> QED
  BY <1>1, <1>2, StepListedTyped, StepListed, PTL DEF LsubSpec

(* The list has one line for each entity that is wanted, in order, with the *)
(* name that was asked for this entity.                                     *)
THEOREM LsubEachListedOnce == LsubSpec => []EachListedOnce
<1>1. ListedTyped /\ ListedSoFar => EachListedOnce
  <2> SUFFICES ASSUME ListedTyped, ListedSoFar, step = "list", toList = <<>>
               PROVE  /\ Uents(listed) = Picked(found, {u \in Uent : uentNum \in {0, u}})
                      /\ \A n \in DOMAIN listed :
                           "n" \notin given => shown[listed[n].named].query = IdOf[listed[n].uent]
    BY DEF EachListedOnce
  <2>1. ToBeListed = {u \in Uent : uentNum \in {0, u}}
    BY DEF ToBeListed, Wanted
  <2>2. Joined(Uents(listed), <<>>) = Picked(found, ToBeListed)
    BY PickedEmpty DEF ListedSoFar
  <2>3. Uents(listed) \in Seq(Uent)
    <3> DEFINE T == [uent : Uent, named : 0 .. Len(shown)]
    <3>1. listed \in Seq(T) /\ \A x \in T : x.uent \in Uent
      BY DEF ListedTyped
    <3> HIDE DEF T
    <3> QED
      BY <3>1, UentsTyped
  <2>4. Uents(listed) = Picked(found, ToBeListed)
    BY <2>2, <2>3, JoinedEmpty
  <2>5. "n" \notin given => \A n \in DOMAIN listed : shown[listed[n].named].query = IdOf[listed[n].uent]
    BY DEF ListedSoFar, LineNamed
  <2> QED
    BY <2>1, <2>4, <2>5
<1> QED
  BY <1>1, ListInvariant, PTL

----------------------------------------------------------------------------
(* The management lists.  Under an entity, what has been shown and what the *)
(* lines left will show make up what the whole file shows, for the mue_list *)
(* and the ue_list that is read within it alike.                            *)

(* The entities that show_mue_ue_list has still to show.                    *)
ToShow == IF mueAt \in {"next", "done"} THEN todo ELSE Tail(todo)

ReadingMue == mueAt = "mue" \/ (mueAt \in {"ue_list", "ue"} /\ level = 1)

(* The lines of the n-th file that are still to be read.                    *)
Left(n) ==
  IF ReadingMue /\ n = mueFile THEN mueLines
  ELSE IF mueAt = "ue" /\ n = Len(files) THEN ueLines ELSE <<>>

FilesApart ==
  /\ ReadingMue => mueFile \in 1 .. Len(files)
  /\ mueAt = "ue" => Len(files) # 0 /\ (level = 1 => mueFile < Len(files))

FileShown(n) == Joined(Under(n), Shows(Left(n))) = Shows(files[n].lines)

ShownSoFar ==
  /\ Joined(Under(0), Picked(ToShow, Asked)) = Picked(found, Asked)
  /\ \A n \in 1 .. Len(files) : FileShown(n)
  /\ \A n \in Nat : n > Len(files) => Under(n) = <<>>

ListsSoFar ==
  /\ mueAt = "none" => rows = <<>> /\ files = <<>>
  /\ mueAt # "none" => step \in {"mue", "cleanup", "exit"}
  /\ step # "exit" =>
       FilesApart /\ (mueAt = "done" => todo = <<>>) /\ (mueAt # "none" => ShownSoFar)

(* What f shows when s is what the scan has found.                          *)
ShowsWhen(s, f) ==
  LET end == CHOOSE n \in 0 .. Len(f) :
               /\ \A m \in 1 .. n : ~(f[m] # SyntaxError /\ ~(f[m] \in ToSet(s)))
               /\ n < Len(f) => f[n + 1] # SyntaxError /\ ~(f[n + 1] \in ToSet(s))
  IN Picked(SubSeq(f, 1, end), Nat)

LEMMA SameFound ==
  ASSUME found' = found
  PROVE  /\ \A x : Known(x)' = Known(x)
         /\ \A f : Shows(f)' = Shows(f)
<1>1. \A f : Shows(f) = ShowsWhen(found, f) /\ Shows(f)' = ShowsWhen(found', f)
  BY DEF Shows, AllKnown, Unknown, Known, ShowsWhen
<1> QED
  BY <1>1 DEF Known

(* What a file shows, and what is left of it, while these stay the same.    *)
LEMMA ShowsAgain ==
  ASSUME found' = found
  PROVE  /\ \A n : Left(n)' = Left(n) => Shows(Left(n))' = Shows(Left(n))
         /\ \A n : files'[n].lines = files[n].lines =>
              Shows(files[n].lines)' = Shows(files[n].lines)
         /\ \A n, f : Left(n)' = f => Shows(Left(n))' = Shows(f)
         /\ \A n, f : files'[n].lines = f => Shows(files[n].lines)' = Shows(f)
<1>1. ASSUME NEW n
      PROVE  /\ Shows(Left(n)) = ShowsWhen(found, Left(n))
             /\ Shows(Left(n))' = ShowsWhen(found', Left(n)')
             /\ Shows(files[n].lines) = ShowsWhen(found, files[n].lines)
             /\ Shows(files[n].lines)' = ShowsWhen(found', files'[n].lines)
  BY DEF Shows, AllKnown, Unknown, Known, ShowsWhen
<1>2. \A f : Shows(f) = ShowsWhen(found, f)
  BY DEF Shows, AllKnown, Unknown, Known, ShowsWhen
<1> QED
  BY <1>1, <1>2

UnderOf(s, n) == Uents(Picked(s, [uent : Nat, role : Roles, file : {n}]))

LEMMA UnderTyped == MueTypeOK => \A n \in Nat : Under(n) \in Seq(Uent)
<1> SUFFICES ASSUME MueTypeOK, NEW n \in Nat PROVE Under(n) \in Seq(Uent)
  OBVIOUS
<1> DEFINE T == [uent : Uent, role : Roles, file : 0 .. Len(files)]
           S == [uent : Nat, role : Roles, file : {n}]
<1>1. rows \in Seq(T) /\ \A x \in T : x.uent \in Uent
  BY DEF MueTypeOK
<1>2. Under(n) = Uents(Picked(rows, S))
  BY DEF Under
<1> HIDE DEF T, S
<1>3. Picked(rows, S) \in Seq(T)
  BY <1>1, PickedTyped
<1> QED
  BY <1>1, <1>2, <1>3, UentsTyped

LEMMA UnderMore ==
  ASSUME MueTypeOK, NEW u, NEW r, NEW f, RowTyped(u, r, f), NEW n \in Nat
  PROVE  UnderOf(Append(rows, RowOf(u, r, f)), n) =
           IF f = n THEN Append(Under(n), u) ELSE Under(n)
<1> DEFINE T == [uent : Uent, role : Roles, file : 0 .. Len(files)]
           S == [uent : Nat, role : Roles, file : {n}]
<1>1. rows \in Seq(T) /\ \A x \in T : x.uent \in Uent
  BY DEF MueTypeOK
<1>2. /\ RowOf(u, r, f) \in T /\ RowOf(u, r, f).uent = u
      /\ RowOf(u, r, f) \in S <=> f = n
  BY UentAssumption DEF RowTyped, RowOf
<1>3. PICK w \in T : w = RowOf(u, r, f)
  BY <1>2
<1>4. Under(n) = Uents(Picked(rows, S)) /\ UnderOf(Append(rows, w), n) = Uents(Picked(Append(rows, w), S))
  BY DEF Under, UnderOf
<1> HIDE DEF T, S
<1>5. Picked(rows, S) \in Seq(T)
  BY <1>1, PickedTyped
<1>6. Picked(Append(rows, w), S) = Picks(Picked(rows, S), w, S)
  BY <1>1, PickedAppend, Z3
<1>7. Uents(Append(Picked(rows, S), w)) = Append(Uents(Picked(rows, S)), w.uent)
  BY <1>1, <1>5, UentsAppend
<1> QED
  BY <1>2, <1>3, <1>4, <1>6, <1>7 DEF Picks

(* One more row.                                                            *)
LEMMA RowShown ==
  ASSUME MueTypeOK, NEW u, NEW r, NEW f, RowTyped(u, r, f),
         rows' = Append(rows, RowOf(u, r, f))
  PROVE  \A n \in Nat : Under(n)' = IF f = n THEN Append(Under(n), u) ELSE Under(n)
<1> TAKE n \in Nat
<1>1. Under(n)' = UnderOf(rows', n)
  BY DEF Under, UnderOf
<1> QED
  BY <1>1, UnderMore

LEMMA SameRows == rows' = rows => \A n : Under(n)' = Under(n)
  BY DEF Under

LEMMA SelectedAsked ==
  ASSUME NEW u \in Uent PROVE Selected(u) <=> u \in Asked
<1>1. u # 0
  BY UentAssumption
<1> QED
  BY <1>1, RoleTyped DEF Selected, Asked

(* show_mue_ue_list goes on to the next entity.                             *)
LEMMA NextShown ==
  ASSUME MueTypeOK, todo # <<>>, NEW a \in Seq(Uent)
  PROVE  LET more == IF Selected(Head(todo)) THEN Append(a, Head(todo)) ELSE a
         IN Joined(more, Picked(Tail(todo), Asked)) = Joined(a, Picked(todo, Asked))
<1>1. todo \in Seq(Uent) /\ Head(todo) \in Uent
  BY HeadTailProperties DEF MueTypeOK
<1>2. Joined(Picks(a, Head(todo), Asked), Picked(Tail(todo), Asked)) = Joined(a, Picked(todo, Asked))
  BY <1>1, TakenOver, Z3
<1>3. Selected(Head(todo)) <=> Head(todo) \in Asked
  BY <1>1, SelectedAsked
<1> QED
  BY <1>2, <1>3 DEF Picks

(* A step that leaves what is shown, and what of it is still to be shown,   *)
(* as they are.                                                             *)
LEMMA NothingShown ==
  ASSUME ShownSoFar, UNCHANGED <<found, only, rows, files>>,
         Picked(ToShow', Asked) = Picked(ToShow, Asked),
         \A n \in 1 .. Len(files) : Left(n)' = Left(n)
  PROVE  ShownSoFar'
<1>1. Asked' = Asked
  BY DEF Asked
<1>2. (\A f : Shows(f)' = Shows(f)) /\ \A n : Under(n)' = Under(n)
  BY SameFound, SameRows
<1>3. (\A n \in 1 .. Len(files) : FileShown(n))'
  <2> SUFFICES ASSUME NEW n \in 1 .. Len(files) PROVE FileShown(n)'
    OBVIOUS
  <2>1. Left(n)' = Left(n) /\ FileShown(n)
    BY DEF ShownSoFar
  <2> HIDE DEF Left
  <2>2. Shows(Left(n))' = Shows(Left(n))
    BY <2>1, ShowsAgain
  <2> QED
    BY <1>2, <2>1, <2>2 DEF FileShown
<1> QED
  BY <1>1, <1>2, <1>3 DEF ShownSoFar

(* One line is read from the m-th file.                                     *)
LEMMA LineShown ==
  ASSUME MueTypeOK, ShownSoFar, UNCHANGED <<found, only, files>>,
         NEW m \in 1 .. Len(files), NEW s \in ListLines, s # <<>>, NEW r \in Roles,
         Left(m) = s, Left(m)' = Rest(s),
         \A n \in 1 .. Len(files) : n # m => Left(n)' = Left(n),
         rows' = IF Known(Head(s)) THEN Append(rows, RowOf(Head(s), r, m)) ELSE rows,
         ToShow' = ToShow
  PROVE  ShownSoFar'
<1>1. PICK N \in Nat : N = Len(files) /\ m \in 1 .. N
  BY LenProperties DEF MueTypeOK
<1>2. \A n \in Nat : Under(n)' = IF n = m THEN Read(Under(n), s) ELSE Under(n)
  <2>1. CASE Known(Head(s))
    <3>1. Head(s) \in Uent
      BY <2>1, KnownIsNumber DEF MueTypeOK
    <3>2. RowTyped(Head(s), r, m)
      BY <1>1, <3>1 DEF RowTyped
    <3>3. rows' = Append(rows, RowOf(Head(s), r, m))
      BY <2>1
    <3>4. \A n \in Nat : Under(n)' = IF m = n THEN Append(Under(n), Head(s)) ELSE Under(n)
      BY <3>2, <3>3, RowShown
    <3> QED
      BY <2>1, <3>4 DEF Read
  <2>2. CASE ~Known(Head(s))
    BY <2>2, SameRows DEF Read
  <2> QED
    BY <2>1, <2>2
<1>3. Under(m) \in Seq(Nat)
  <2>1. Under(m) \in Seq(Uent)
    BY <1>1, UnderTyped
  <2>2. Uent \subseteq Nat
    BY UentAssumption
  <2> QED
    BY <2>1, <2>2, SeqMonotonic
<1>4. Joined(Read(Under(m), s), Shows(Rest(s))) = Joined(Under(m), Shows(s))
  BY <1>3, ShowsRest DEF MueTypeOK
<1>5. \A n \in 1 .. N : FileShown(n)
  BY <1>1 DEF ShownSoFar
<1>6. ASSUME NEW n \in 1 .. N PROVE FileShown(n)'
  <2>1. n \in Nat /\ n \in 1 .. Len(files)
    BY <1>1
  <2>2. CASE n = m
    <3>1. Under(n)' = Read(Under(m), s) /\ Left(n)' = Rest(s)
      BY <1>2, <2>1, <2>2
    <3> HIDE DEF Left
    <3>2. Shows(Left(n))' = Shows(Rest(s)) /\ Shows(files[n].lines)' = Shows(files[n].lines)
      BY <3>1, ShowsAgain
    <3>3. Joined(Under(m), Shows(s)) = Shows(files[m].lines)
      BY <1>1, <1>5 DEF FileShown
    <3> QED
      BY <1>4, <2>2, <3>1, <3>2, <3>3 DEF FileShown
  <2>3. CASE n # m
    <3>1. Under(n)' = Under(n) /\ Left(n)' = Left(n)
      BY <1>2, <2>1, <2>3
    <3> HIDE DEF Left
    <3>2. Shows(Left(n))' = Shows(Left(n)) /\ Shows(files[n].lines)' = Shows(files[n].lines)
      BY <3>1, ShowsAgain
    <3> QED
      BY <1>5, <3>1, <3>2 DEF FileShown
  <2> QED
    BY <2>2, <2>3
<1>7. Under(0)' = Under(0)
  BY <1>1, <1>2
<1>8. Asked' = Asked
  BY DEF Asked
<1>9. (Joined(Under(0), Picked(ToShow, Asked)) = Picked(found, Asked))'
  BY <1>7, <1>8 DEF ShownSoFar
<1>10. ASSUME NEW n \in Nat, n > N PROVE Under(n)' = <<>>
  <2>1. Under(n) = <<>> /\ n # m
    BY <1>1, <1>10 DEF ShownSoFar
  <2> QED
    BY <1>2, <2>1
<1>11. Len(files') = N
  BY <1>1
<1> QED
  BY <1>1, <1>6, <1>9, <1>10, <1>11 DEF ShownSoFar

(* A file is opened, of which all is still to be read.                      *)
LEMMA FileOpened ==
  ASSUME MueTypeOK, ShownSoFar, UNCHANGED <<found, only, rows>>,
         NEW u \in Uent, NEW f \in ListLines, files' = Append(files, [of |-> u, lines |-> f]),
         \A n \in 1 .. Len(files) : Left(n)' = Left(n),
         NEW M \in Nat, M = Len(files) + 1, Left(M)' = f,
         ToShow' = ToShow
  PROVE  ShownSoFar'
<1>1. PICK N \in Nat :
        /\ N = Len(files) /\ Len(files') = N + 1 /\ files'[N + 1].lines = f
        /\ \A n \in 1 .. N : files'[n] = files[n]
  BY FilesGrow
<1>2. M = N + 1
  BY <1>1
<1>3. (\A n : Under(n)' = Under(n)) /\ Asked' = Asked
  BY SameRows DEF Asked
<1>4. (Joined(Under(0), Picked(ToShow, Asked)) = Picked(found, Asked))'
  BY <1>3 DEF ShownSoFar
<1>5. \A n \in 1 .. N : FileShown(n) /\ Left(n)' = Left(n)
  BY <1>1 DEF ShownSoFar
<1>6. ASSUME NEW n \in 1 .. N PROVE FileShown(n)'
  <2> HIDE DEF Left
  <2>1. Left(n)' = Left(n) /\ files'[n].lines = files[n].lines
    BY <1>1, <1>5
  <2>2. Shows(Left(n))' = Shows(Left(n)) /\ Shows(files[n].lines)' = Shows(files[n].lines)
    BY <2>1, ShowsAgain
  <2> QED
    BY <1>3, <1>5, <2>2 DEF FileShown
<1>7. FileShown(M)'
  <2> HIDE DEF Left
  <2>1. Left(M)' = f /\ files'[M].lines = f
    BY <1>1, <1>2
  <2>2. Shows(Left(M))' = Shows(f) /\ Shows(files[M].lines)' = Shows(f)
    BY <2>1, ShowsAgain
  <2>3. Under(M)' = <<>>
    BY <1>1, <1>2, <1>3 DEF ShownSoFar
  <2>4. Joined(<<>>, Shows(f)) = Shows(f)
    BY ShowsTyped, JoinedEmpty
  <2> QED
    BY <2>2, <2>3, <2>4 DEF FileShown
<1>8. \A n \in 1 .. M : FileShown(n)'
  <2>1. \A n \in 1 .. M : n \in 1 .. N \/ n = M
    BY <1>2
  <2> QED
    BY <1>6, <1>7, <2>1
<1>9. \A n \in Nat : n > M => Under(n)' = <<>>
  BY <1>1, <1>2, <1>3 DEF ShownSoFar
<1>10. Len(files') = M
  BY <1>1, <1>2
<1> QED
  BY <1>4, <1>8, <1>9, <1>10 DEF ShownSoFar

LEMMA MueStepShown ==
  MueShape /\ FilesApart /\ ShownSoFar /\ mueAt # "none" /\ MueStep => FilesApart' /\ ShownSoFar'
<1> SUFFICES ASSUME MueShape, FilesApart, ShownSoFar, mueAt # "none", MueStep
             PROVE  FilesApart' /\ ShownSoFar'
  OBVIOUS
<1>0. MueTypeOK /\ Len(files) \in Nat
  BY LenProperties DEF MueShape, MueTypeOK
<1>1. CASE SkipUent
  <2>1. Picked(ToShow', Asked) = Picked(ToShow, Asked)
    <3>1. Joined(<<>>, Picked(Tail(todo), Asked)) = Joined(<<>>, Picked(todo, Asked))
      BY <1>0, <1>1, NextShown, EmptySeq DEF SkipUent
    <3>2. Tail(todo) \in Seq(Uent) /\ todo \in Seq(Uent)
      BY <1>0, <1>1, HeadTailProperties DEF SkipUent, MueTypeOK
    <3>3. Picked(Tail(todo), Asked) \in Seq(Uent) /\ Picked(todo, Asked) \in Seq(Uent)
      BY <3>2, PickedTyped
    <3>4. Picked(Tail(todo), Asked) = Picked(todo, Asked)
      BY <3>1, <3>3, JoinedEmpty
    <3> QED
      BY <1>1, <3>4 DEF SkipUent, ToShow
  <2>2. \A n : Left(n)' = Left(n)
    BY <1>1 DEF SkipUent, Left, ReadingMue
  <2>3. ShownSoFar'
    BY <1>1, <2>1, <2>2, NothingShown DEF SkipUent
  <2> QED
    BY <1>1, <2>3 DEF SkipUent, FilesApart, ReadingMue
<1>2. CASE MueDone
  <2>1. ToShow' = ToShow /\ \A n : Left(n)' = Left(n)
    BY <1>2 DEF MueDone, ToShow, Left, ReadingMue
  <2>2. ShownSoFar'
    BY <1>2, <2>1, NothingShown DEF MueDone
  <2> QED
    BY <1>2, <2>2 DEF MueDone, FilesApart, ReadingMue
<1>3. CASE ShowRole
  <2> DEFINE u == Head(todo)
  <2>1. /\ mueAt = "next" /\ todo # <<>> /\ Selected(u)
        /\ rows' = Append(rows, RowOf(u, Role(u), 0))
        /\ UNCHANGED <<found, only, files>>
        /\ ToShow = todo /\ ToShow' = Tail(todo)
        /\ \A n : Left(n)' = <<>> /\ Left(n) = <<>>
    BY <1>3 DEF ShowRole, ToShow, Left, ReadingMue
  <2>2. u \in Uent
    BY <1>0, <2>1, HeadTailProperties DEF MueTypeOK
  <2> HIDE DEF u
  <2>3. RowTyped(u, Role(u), 0)
    BY <1>0, <2>2, RoleTyped DEF RowTyped
  <2>4. \A n \in Nat : Under(n)' = IF n = 0 THEN Append(Under(n), u) ELSE Under(n)
    <3>1. \A n \in Nat : Under(n)' = IF 0 = n THEN Append(Under(n), u) ELSE Under(n)
      BY <1>0, <2>1, <2>3, RowShown
    <3> QED
      BY <3>1
  <2>5. Joined(Append(Under(0), u), Picked(Tail(todo), Asked)) = Joined(Under(0), Picked(todo, Asked))
    <3>1. Under(0) \in Seq(Uent)
      BY <1>0, UnderTyped
    <3> QED
      BY <1>0, <2>1, <3>1, NextShown DEF u
  <2>6. Asked' = Asked
    BY <2>1 DEF Asked
  <2>7. (Joined(Under(0), Picked(ToShow, Asked)) = Picked(found, Asked))'
    BY <2>1, <2>4, <2>5, <2>6 DEF ShownSoFar
  <2>8. ASSUME NEW n \in 1 .. Len(files) PROVE FileShown(n)'
    <3>1. Under(n)' = Under(n) /\ FileShown(n)
      BY <1>0, <2>4, <2>8 DEF ShownSoFar
    <3>2. Left(n)' = <<>> /\ Left(n) = <<>>
      BY <2>1
    <3> HIDE DEF Left
    <3>3. Shows(Left(n))' = Shows(Left(n)) /\ Shows(files[n].lines)' = Shows(files[n].lines)
      BY <2>1, <3>2, ShowsAgain
    <3> QED
      BY <3>1, <3>3 DEF FileShown
  <2>9. \A n \in Nat : n > Len(files) => Under(n)' = <<>>
    BY <1>0, <2>4 DEF ShownSoFar
  <2>10. files' = files
    BY <2>1
  <2>11. ShownSoFar'
    BY <2>7, <2>8, <2>9, <2>10 DEF ShownSoFar
  <2> QED
    BY <1>3, <2>11 DEF ShowRole, FilesApart, ReadingMue
<1>4. CASE MueLine
  <2>1. /\ mueAt = "mue" /\ ReadingMue /\ mueLines # <<>> /\ ReadingMue'
        /\ mueFile \in 1 .. Len(files)
        /\ mueLines' = Rest(mueLines)
        /\ rows' = IF Known(Head(mueLines))
                   THEN Append(rows, RowOf(Head(mueLines), "its_mue", mueFile)) ELSE rows
        /\ mueAt' \in {"mue", "ue_list"}
        /\ UNCHANGED <<found, only, files, mueFile, todo>>
    BY <1>4 DEF MueLine, CallUeList, ReadingMue, FilesApart
  <2>2. Left(mueFile) = mueLines /\ Left(mueFile)' = Rest(mueLines) /\ ToShow' = ToShow
    BY <2>1 DEF Left, ToShow
  <2>3. \A n \in 1 .. Len(files) : n # mueFile => Left(n)' = Left(n)
    BY <2>1 DEF Left
  <2>4. PICK m \in 1 .. Len(files) : m = mueFile /\ mueFile' = m
    BY <2>1
  <2>5. Left(m) = mueLines /\ Left(m)' = Rest(mueLines)
    BY <2>1, <2>4 DEF Left
  <2>6. mueLines \in ListLines /\ "its_mue" \in Roles
    BY <1>0 DEF MueTypeOK, Roles
  <2>7. ShownSoFar'
    BY <1>0, <2>1, <2>2, <2>3, <2>4, <2>5, <2>6, LineShown
  <2> QED
    BY <2>1, <2>7 DEF FilesApart
<1>5. CASE MueListEnds
  <2>1. /\ \A n : Left(n)' = <<>> /\ Left(n) = <<>>
        /\ ToShow' = ToShow
    BY <1>5 DEF MueListEnds, CallUeList, Left, ReadingMue, ToShow
  <2>2. ShownSoFar'
    BY <1>5, <2>1, NothingShown DEF MueListEnds
  <2> QED
    BY <1>5, <2>2 DEF MueListEnds, CallUeList, FilesApart, ReadingMue
<1>6. CASE UeLine
  <2>1. PICK m \in 1 .. Len(files) : m = Len(files)
    BY <1>0, <1>6 DEF UeLine, FilesApart
  <2>2. /\ mueAt = "ue" /\ mueAt' = "ue" /\ level' = level /\ ueLines # <<>>
        /\ ueLines' = Rest(ueLines)
        /\ rows' = IF Known(Head(ueLines))
                   THEN Append(rows, RowOf(Head(ueLines), "its_ue", m)) ELSE rows
        /\ UNCHANGED <<found, only, files, mueFile, todo, mueLines>>
        /\ level = 1 => mueFile # m
    BY <1>0, <1>6, <2>1 DEF UeLine, FilesApart, MueTypeOK
  <2>3. /\ Left(m) = ueLines /\ Left(m)' = Rest(ueLines) /\ ToShow' = ToShow
        /\ \A n \in 1 .. Len(files) : n # m => Left(n)' = Left(n)
    BY <2>1, <2>2 DEF Left, ToShow, ReadingMue
  <2>4. ueLines \in ListLines /\ "its_ue" \in Roles
    BY <1>0 DEF MueTypeOK, Roles
  <2>5. ShownSoFar'
    BY <1>0, <2>1, <2>2, <2>3, <2>4, LineShown
  <2> QED
    BY <2>2, <2>5 DEF FilesApart, ReadingMue
<1>7. CASE UeListEnds
  <2>1. level \in {0, 1}
    BY <1>0 DEF MueTypeOK
  <2>2. (\A n : Left(n)' = Left(n)) /\ ToShow' = ToShow
    BY <1>7, <2>1 DEF UeListEnds, Left, ReadingMue, ToShow
  <2>3. ShownSoFar'
    BY <1>7, <2>2, NothingShown DEF UeListEnds
  <2> QED
    BY <1>7, <2>1, <2>3 DEF UeListEnds, FilesApart, ReadingMue
<1>8. ASSUME NEW f \in ListFiles, OpenMueList(f) PROVE FilesApart' /\ ShownSoFar'
  <2>1. Head(todo) \in Uent /\ f \in ListLines
    BY <1>0, <1>8, FileTyped, HeadTailProperties DEF OpenMueList, MueShape, MueTypeOK
  <2>2. /\ mueAt = "mue_list" /\ mueAt' = "mue" /\ mueLines' = f
        /\ files' = Append(files, [of |-> Head(todo), lines |-> f])
        /\ mueFile' = Len(files')
        /\ UNCHANGED <<found, only, rows, todo>>
    BY <1>8 DEF OpenMueList
  <2>3. Len(files') = Len(files) + 1
    BY <1>0, <2>1, <2>2, FilesGrow
  <2>4. /\ \A n \in 1 .. Len(files) : Left(n)' = Left(n)
        /\ ToShow' = ToShow
    BY <1>0, <2>2, <2>3 DEF Left, ReadingMue, ToShow
  <2>7. PICK M \in Nat : M = Len(files) + 1
    BY <1>0
  <2>8. Left(M)' = f
    BY <1>0, <2>2, <2>3, <2>7 DEF Left, ReadingMue
  <2>5. ShownSoFar'
    BY <1>0, <2>1, <2>2, <2>4, <2>7, <2>8, FileOpened
  <2>6. mueFile' \in 1 .. Len(files')
    BY <1>0, <2>2, <2>3
  <2> QED
    BY <2>2, <2>5, <2>6 DEF FilesApart
<1>9. ASSUME NEW f \in ListFiles, OpenUeList(f) PROVE FilesApart' /\ ShownSoFar'
  <2>1. owner \in Uent /\ f \in ListLines
    BY <1>9, FileTyped DEF OpenUeList, MueShape
  <2>2. /\ mueAt = "ue_list" /\ mueAt' = "ue" /\ ueLines' = f
        /\ files' = Append(files, [of |-> owner, lines |-> f])
        /\ UNCHANGED <<found, only, rows, todo, mueLines, level, mueFile>>
        /\ level = 1 => mueFile \in 1 .. Len(files)
    BY <1>9 DEF OpenUeList, FilesApart, ReadingMue
  <2>3. Len(files') = Len(files) + 1
    BY <1>0, <2>1, <2>2, FilesGrow
  <2>4. /\ \A n \in 1 .. Len(files) : Left(n)' = Left(n)
        /\ ToShow' = ToShow
    BY <1>0, <2>2, <2>3 DEF Left, ReadingMue, ToShow
  <2>7. PICK M \in Nat : M = Len(files) + 1
    BY <1>0
  <2>8. Left(M)' = f
    BY <1>0, <2>2, <2>3, <2>7 DEF Left, ReadingMue
  <2>5. ShownSoFar'
    BY <1>0, <2>1, <2>2, <2>4, <2>7, <2>8, FileOpened
  <2>6. Len(files') # 0 /\ (level' = 1 => mueFile' \in 1 .. Len(files') /\ mueFile' < Len(files'))
    BY <1>0, <2>2, <2>3
  <2> QED
    BY <2>2, <2>5, <2>6 DEF FilesApart, ReadingMue
<1> QED
  BY <1>1, <1>2, <1>3, <1>4, <1>5, <1>6, <1>7, <1>8, <1>9 DEF MueStep

----------------------------------------------------------------------------
(* Silence.  Only a command shows anything, no command is run before the    *)
(* options and the scan have succeeded, and no command fails.               *)

Silent == listed = <<>> /\ shown = <<>> /\ rows = <<>> /\ tables = {}

Quiet ==
  /\ step \in {"alloc", "init", "options", "scan", "devices", "command"} => Silent /\ ret = "0"
  /\ ret # "0" => step \in {"cleanup", "exit"} /\ Silent

LEMMA StepQuiet == Quiet /\ [LsubNext]_lsubVars => Quiet'
<1> SUFFICES ASSUME Quiet, [LsubNext]_lsubVars PROVE Quiet'
  OBVIOUS
<1> USE DEF Quiet, Silent, InMain, InList, OutOfMain, Goto, idsVars, routeVars, mueVars, listing
<1>1. CASE AllocAcc \/ AllocAccFails \/ InitAcc \/ InitAccFails \/ OptionRefused \/ OptionsTaken
  BY <1>1 DEF AllocAcc, AllocAccFails, InitAcc, InitAccFails, OptionRefused, OptionsTaken
<1>2. CASE GiveFlag \/ GiveHelp \/ GiveIdsFile \/ GiveEntity \/ GiveCna \/ GiveOther
  BY <1>2 DEF GiveFlag, GiveHelp, GiveIdsFile, GiveEntity, GiveCna, GiveOther, Taken,
              SetIdsFilePath
<1>3. CASE \/ \E u \in Uent : ScanUent(u)
           \/ ScanEnds \/ AddDevice \/ ScanFails \/ ScanDone \/ OtherCommand
  BY <1>3 DEF ScanUent, ScanEnds, AddDevice, ScanFails, ScanDone, OtherCommand,
              Chosen, NoneChosen
<1>4. CASE \/ StartRoutes \/ InRoutes \/ StartMueLists \/ InMueLists
           \/ StartList \/ ListSkip \/ ListNumeric \/ AskName \/ ListNamed \/ ListDone
  <2>1. ret' = ret /\ ret = "0"
    BY <1>4 DEF StartRoutes, InRoutes, StartMueLists, InMueLists, StartList, ListSkip,
                ListNumeric, AskName, ListNamed, ListDone, Chosen, NoneChosen
  <2>2. step' \in {"routes", "mue", "list", "name", "cleanup"}
    BY <1>4 DEF StartRoutes, InRoutes, StartMueLists, InMueLists, StartList, ListSkip,
                ListNumeric, AskName, ListNamed, ListDone
  <2> QED
    BY <2>1, <2>2
<1>5. CASE CleanUp
  BY <1>5 DEF CleanUp, FreeIds
<1>6. CASE LsubExited \/ UNCHANGED lsubVars
  BY <1>6 DEF LsubExited, lsubVars
<1> QED
  BY <1>1, <1>2, <1>3, <1>4, <1>5, <1>6 DEF LsubNext, LsubTool

(* A run of lsub that returns an error has shown nothing.                   *)
THEOREM LsubErrorMeansSilence == LsubSpec => []ErrorMeansSilence
<1>1. LsubInit => Quiet
  BY DEF LsubInit, IdsInit, RoutesInit, MueInit, Quiet, Silent
<1>2. Quiet => ErrorMeansSilence
  BY DEF Quiet, Silent, ErrorMeansSilence
<1> QED
  BY <1>1, <1>2, StepQuiet, PTL DEF LsubSpec

----------------------------------------------------------------------------
(* Memory.  Nothing is allocated before the first step, and the cleanup,    *)
(* which every later way out takes, frees all of it.                        *)

Nothing == ~acc /\ found = <<>> /\ devs = 0 /\ table = <<>> /\ ~hashed /\ heap = 0

Freely == step \in {"alloc", "exit"} => Nothing

LEMMA StepFreely == PathOwned /\ Freely /\ [LsubNext]_lsubVars => Freely'
<1> SUFFICES ASSUME PathOwned, Freely, [LsubNext]_lsubVars PROVE Freely'
  OBVIOUS
<1> USE DEF Freely, Nothing, Goto
<1>1. CASE AllocAccFails
  BY <1>1 DEF AllocAccFails, InMain, mueVars, memory, idsVars, store, path
<1>2. CASE CleanUp
  <2>1. heap' = 0
    BY <1>2, FreedWhenOwned DEF CleanUp, FreeIds
  <2> QED
    BY <1>2, <2>1 DEF CleanUp, FreeIds
<1>3. CASE \/ AllocAcc \/ InitAcc \/ InitAccFails \/ OptionRefused \/ OptionsTaken
           \/ GiveFlag \/ GiveHelp \/ GiveIdsFile \/ GiveEntity \/ GiveCna \/ GiveOther
  BY <1>3 DEF AllocAcc, InitAcc, InitAccFails, OptionRefused, OptionsTaken, GiveFlag, GiveHelp,
              GiveIdsFile, GiveEntity, GiveCna, GiveOther, Taking, Taken
<1>4. CASE \/ \E u \in Uent : ScanUent(u)
           \/ ScanEnds \/ AddDevice \/ ScanFails \/ ScanDone \/ OtherCommand
           \/ StartRoutes \/ InRoutes \/ StartMueLists \/ InMueLists
  BY <1>4 DEF ScanUent, ScanEnds, AddDevice, ScanFails, ScanDone, OtherCommand, StartRoutes,
              InRoutes, StartMueLists, InMueLists
<1>5. CASE StartList \/ ListSkip \/ ListNumeric \/ AskName \/ ListNamed \/ ListDone
  BY <1>5 DEF StartList, ListSkip, ListNumeric, AskName, ListNamed, ListDone, listing
<1>6. CASE LsubExited \/ UNCHANGED lsubVars
  BY <1>6 DEF LsubExited, lsubVars, mueVars, memory, idsVars, store, path
<1> QED
  BY <1>1, <1>2, <1>3, <1>4, <1>5, <1>6 DEF LsubNext, LsubTool

(* Whatever fails, lsub frees what it has allocated, once.                  *)
THEOREM LsubLeaksNothing == LsubSpec => []NothingLeaked
<1>1. LsubInit => Freely
  BY DEF LsubInit, IdsInit, MueInit, Freely, Nothing
<1>2. PathOwned /\ Freely => NothingLeaked
  BY DEF Freely, Nothing, NothingLeaked
<1>3. LsubSpec => []PathOwned
  BY LsubUsesIds, PathFreedOnce, PTL
<1> QED
  BY <1>1, <1>2, <1>3, StepFreely, PTL DEF LsubSpec

LEMMA StepLists == MueShape /\ ListsSoFar /\ [LsubNext]_lsubVars => ListsSoFar'
<1> SUFFICES ASSUME MueShape, ListsSoFar, [LsubNext]_lsubVars PROVE ListsSoFar'
  OBVIOUS
<1>1. CASE /\ UNCHANGED mueVars
           /\ step \in {"mue", "cleanup", "exit"} => step' \in {"mue", "cleanup", "exit"}
           /\ step = "exit" => step' = "exit"
  <2>1. UNCHANGED <<rows, files, found, only, todo, mueAt, mueFile, mueLines, ueLines, level>>
    BY <1>1 DEF mueVars
  <2>2. FilesApart' = FilesApart /\ ToShow' = ToShow /\ \A n : Left(n)' = Left(n)
    BY <2>1 DEF FilesApart, ToShow, Left, ReadingMue
  <2>3. ShownSoFar => ShownSoFar'
    BY <2>1, <2>2, NothingShown
  <2> QED
    BY <1>1, <2>1, <2>2, <2>3 DEF ListsSoFar
<1>2. CASE step = "mue" /\ step' = "mue" /\ MueStep
  <2>1. mueAt # "none" /\ (mueAt' = "done" => todo' = <<>>) /\ mueAt' # "none"
    BY <1>2 DEF MueStep, SkipUent, ShowRole, MueDone, MueLine, MueListEnds, OpenMueList,
                UeLine, UeListEnds, OpenUeList, CallUeList
  <2>2. FilesApart' /\ ShownSoFar'
    BY <1>2, <2>1, MueStepShown DEF ListsSoFar
  <2> QED
    BY <1>2, <2>1, <2>2 DEF ListsSoFar
<1>3. CASE step = "command" /\ step' = "mue" /\ ShowMueUeList(uentNum)
  <2>1. /\ mueAt = "none" /\ mueAt' = "next" /\ rows' = <<>> /\ files' = <<>>
        /\ todo' = found /\ found' = found
    BY <1>3 DEF ShowMueUeList, ListsSoFar
  <2>2. Len(files') = 0 /\ \A n : Under(n)' = <<>>
    BY <2>1, EmptySeq, PickedEmpty, UentsEmpty DEF Under
  <2>3. ToShow' = found
    BY <2>1 DEF ToShow
  <2>4. (Joined(Under(0), Picked(ToShow, Asked)) = Picked(found, Asked))'
    <3>1. PICK S : S = Asked'
      OBVIOUS
    <3>2. Joined(<<>>, Picked(found, S)) = Picked(found, S)
      BY PickedTyped, JoinedEmpty DEF MueShape, MueTypeOK
    <3> QED
      BY <2>1, <2>2, <2>3, <3>1, <3>2
  <2>5. ShownSoFar'
    BY <2>2, <2>4 DEF ShownSoFar
  <2>6. FilesApart'
    BY <2>1 DEF FilesApart, ReadingMue
  <2> QED
    BY <1>3, <2>1, <2>5, <2>6 DEF ListsSoFar
<1>4. CASE OutOfMain /\ step' = "exit"
  BY <1>4 DEF OutOfMain, ListsSoFar
<1>5. CASE OutOfMain /\ step = "scan" /\ step' = "scan"
  <2>1. mueAt = "none" /\ UNCHANGED <<mueAt, rows, files, todo>>
    BY <1>5 DEF OutOfMain, ListsSoFar
  <2> QED
    BY <1>5, <2>1 DEF ListsSoFar, FilesApart, ReadingMue
<1> QED
  BY <1>1, <1>2, <1>3, <1>4, <1>5, MueMoves

LEMMA TypesInvariant == LsubSpec => [](ChoicesTyped /\ ControlsTyped /\ MueShape)
<1>1. LsubInit => ControlsTyped /\ MueShape
  <2>1. \A T : <<>> \in Seq(T) /\ Len(<<>>) = 0
    BY EmptySeq
  <2>2. <<>> \in ListLines
    BY <2>1 DEF ListLines
  <2>3. LsubInit => MueShape
    BY <2>1, <2>2 DEF LsubInit, MueInit, MueShape, MueTypeOK
  <2>4. LsubInit => ControlsTyped
    <3>1. {} \subseteq Flags \cup {"r"} /\ 0 \in Nat
      OBVIOUS
    <3> QED
      BY <3>1, Zenon DEF LsubInit, ControlsTyped
  <2> QED
    BY <2>3, <2>4
<1>2. ControlsTyped => uentNum \in Nat
  BY DEF ControlsTyped
<1> QED
  BY <1>1, <1>2, ChoicesInvariant, StepControls, StepShape, PTL DEF LsubSpec

(* Each entity that -l selects is shown once, and the whole of every list   *)
(* that was opened is shown under it, up to a number that was not found.    *)
THEOREM LsubListsShownExactly == LsubSpec => []ListsShownExactly
<1>1. LsubInit => ListsSoFar
  BY DEF LsubInit, MueInit, ListsSoFar, FilesApart, ReadingMue
<1>2. MueShape /\ ListsSoFar /\ NothingLeaked => ListsShownExactly
  <2> SUFFICES ASSUME MueShape, ListsSoFar, NothingLeaked, mueAt = "done", found # <<>>
               PROVE  /\ Under(0) = Picked(found, Asked)
                      /\ \A n \in DOMAIN files : Under(n) = Shows(files[n].lines)
    BY DEF ListsShownExactly
  <2>0. MueTypeOK /\ DOMAIN files = 1 .. Len(files)
    BY LenProperties DEF MueShape, MueTypeOK
  <2>1. step # "exit" /\ ShownSoFar /\ ToShow = <<>>
    BY DEF NothingLeaked, ListsSoFar, ToShow
  <2>2. \A n \in Nat : Joined(Under(n), <<>>) = Under(n)
    BY <2>0, UnderTyped, JoinedEmpty
  <2>3. Under(0) = Picked(found, Asked)
    BY <2>1, <2>2, PickedEmpty DEF ShownSoFar
  <2>4. ASSUME NEW n \in DOMAIN files PROVE Under(n) = Shows(files[n].lines)
    <3>1. Left(n) = <<>>
      BY DEF Left, ReadingMue
    <3>2. n \in Nat /\ FileShown(n)
      BY <2>0, <2>1, <2>4 DEF ShownSoFar
    <3> HIDE DEF Left
    <3> QED
      BY <2>2, <3>1, <3>2, ShowsEmpty DEF FileShown
  <2> QED
    BY <2>3, <2>4
<1> QED
  BY <1>1, <1>2, TypesInvariant, StepLists, LsubLeaksNothing, PTL DEF LsubSpec

----------------------------------------------------------------------------
(* The devices are made for the entities found, one for each.               *)
DevicesCounted == devs \in 0 .. Len(found)

LEMMA StepDevices == ChoicesTyped /\ DevicesCounted /\ [LsubNext]_lsubVars => DevicesCounted'
<1> SUFFICES ASSUME ChoicesTyped, DevicesCounted, [LsubNext]_lsubVars PROVE DevicesCounted'
  OBVIOUS
<1>0. Len(found) \in Nat /\ devs \in Nat
  BY LenProperties DEF ChoicesTyped, DevicesCounted
<1> USE DEF InMain, InList, OutOfMain, memory, mueVars
<1>1. CASE AddDevice
  BY <1>0, <1>1 DEF AddDevice, DevicesCounted
<1>2. CASE CleanUp
  BY <1>2, EmptySeq DEF CleanUp, DevicesCounted
<1>3. ASSUME NEW u \in Uent, ScanUent(u) PROVE DevicesCounted'
  <2>1. devs' = devs /\ found' = <<u>> \o found
    BY <1>3 DEF ScanUent
  <2>2. <<u>> \in Seq(Uent) /\ Len(<<u>>) = 1
    OBVIOUS
  <2>3. Len(<<u>> \o found) = 1 + Len(found)
    BY <2>2, ConcatProperties DEF ChoicesTyped
  <2> QED
    BY <1>0, <2>1, <2>3 DEF DevicesCounted
<1>4. CASE \/ AllocAcc \/ AllocAccFails \/ InitAcc \/ InitAccFails \/ OptionRefused
           \/ OptionsTaken \/ GiveFlag \/ GiveHelp \/ GiveIdsFile \/ GiveEntity \/ GiveCna
           \/ GiveOther
  BY <1>4 DEF AllocAcc, AllocAccFails, InitAcc, InitAccFails, OptionRefused, OptionsTaken,
              GiveFlag, GiveHelp, GiveIdsFile, GiveEntity, GiveCna, GiveOther, Taken,
              DevicesCounted
<1>5. CASE ScanEnds \/ ScanFails \/ ScanDone \/ OtherCommand \/ StartRoutes \/ InRoutes
  BY <1>5 DEF ScanEnds, ScanFails, ScanDone, OtherCommand, StartRoutes, InRoutes,
              DevicesCounted
<1>6. CASE StartMueLists \/ InMueLists
  <2>1. MueStep => found' = found
    BY DEF MueStep, SkipUent, ShowRole, MueDone, OpenMueList, MueListEnds, MueLine,
           OpenUeList, UeLine, UeListEnds
  <2>2. devs' = devs /\ found' = found
    BY <1>6, <2>1 DEF StartMueLists, InMueLists, ShowMueUeList
  <2> QED
    BY <2>2 DEF DevicesCounted
<1>7. CASE StartList \/ ListSkip \/ ListNumeric \/ AskName \/ ListNamed \/ ListDone
  BY <1>7 DEF StartList, ListSkip, ListNumeric, AskName, ListNamed, ListDone, DevicesCounted
<1>8. CASE LsubExited \/ UNCHANGED lsubVars
  BY <1>8 DEF LsubExited, lsubVars, DevicesCounted
<1> QED
  BY <1>1, <1>2, <1>3, <1>4, <1>5, <1>6, <1>7, <1>8 DEF LsubNext, LsubTool

(* lsub's state keeps its types: the database, the routing table, the lists *)
(* and main's own.                                                          *)
THEOREM LsubTyped == LsubSpec => []LsubTypeOK
<1>1. LsubInit => DevicesCounted
  BY EmptySeq DEF LsubInit, MueInit, DevicesCounted
<1>2. LsubSpec => []DevicesCounted
  BY <1>1, ChoicesInvariant, StepDevices, PTL DEF LsubSpec
<1>3. LsubSpec => []IdsTyped
  BY LsubUsesIds, DatabaseTyped, PTL
<1>4. LsubSpec => []RoutesTypeOK
  <2>1. RoutesSpec => []RoutesTypeOK
    BY InitRoutes, StepRoutes, PTL DEF RoutesSpec
  <2> QED
    BY <2>1, LsubUsesRoutes, PTL
<1>5. /\ ChoicesTyped /\ ControlsTyped /\ MueShape /\ DevicesCounted /\ ListedTyped
      /\ IdsTyped /\ RoutesTypeOK
      => LsubTypeOK
  BY DEF ChoicesTyped, ControlsTyped, MueShape, DevicesCounted, ListedTyped, LsubTypeOK
<1> QED
  BY <1>2, <1>3, <1>4, <1>5, TypesInvariant, ListInvariant, PTL

----------------------------------------------------------------------------
(* Every run ends: what is left to do, the most important first.  The files *)
(* that are read have no greatest length, so no number bounds the steps,    *)
(* but each step lowers the first of these six numbers that it changes.     *)

Stage ==
  CASE step = "alloc" -> 9 [] step = "init" -> 8 [] step = "options" -> 7
    [] step = "scan" -> 6 [] step = "devices" -> 5 [] step = "command" -> 4
    [] step \in {"routes", "mue", "list", "name"} -> 3
    [] step = "cleanup" -> 2 [] step = "exit" -> 1

RouteSteps ==
  CASE rt = "none" -> 6 [] rt = "support" -> 5 [] rt = "ports" -> 4
    [] rt = "entries" -> 3 [] rt = "default" -> 2 [] rt = "exact" -> 1
    [] rt = "done" -> 0

(* Options, entities or registers.                                          *)
ItemsLeft ==
  CASE step = "options" -> Len(args)
    [] step = "scan" -> Cardinality(Uent \ ToSet(found))
    [] step = "devices" -> Len(found) - devs
    [] step = "routes" -> RouteSteps
    [] step = "mue" -> Len(todo)
    [] step \in {"list", "name"} -> Len(toList)
    [] OTHER -> 0

(* The mue_list is open.                                                    *)
WithinMue == mueAt = "mue" \/ (mueAt \in {"ue_list", "ue"} /\ level = 1)

MueSteps ==
  CASE mueAt = "next" -> 4 [] mueAt = "mue_list" -> 3 [] WithinMue -> 2
    [] mueAt \in {"ue_list", "ue"} /\ level = 0 -> 1
    [] mueAt \in {"none", "done"} -> 0

NameSteps ==
  CASE db = "open" -> 3 [] db = "parse" -> 2 [] db = "answer" -> 1
    [] db \in {"idle", "closed"} -> 0

(* For one entity.                                                          *)
ItemSteps ==
  CASE step = "mue" -> MueSteps [] step = "list" -> 4 [] step = "name" -> NameSteps
    [] OTHER -> 0

LinesLeft ==
  CASE step = "mue" /\ WithinMue -> Len(mueLines)
    [] step = "name" /\ db = "parse" -> Len(lines)
    [] OTHER -> 0

UeSteps == CASE mueAt = "ue_list" -> 2 [] mueAt = "ue" -> 1 [] OTHER -> 0

UeLinesLeft == IF mueAt = "ue" THEN Len(ueLines) ELSE 0

UeNearer == UeSteps' < UeSteps \/ (UeSteps' = UeSteps /\ UeLinesLeft' < UeLinesLeft)
LineNearer == LinesLeft' < LinesLeft \/ (LinesLeft' = LinesLeft /\ UeNearer)
StepNearer == ItemSteps' < ItemSteps \/ (ItemSteps' = ItemSteps /\ LineNearer)
ItemNearer == ItemsLeft' < ItemsLeft \/ (ItemsLeft' = ItemsLeft /\ StepNearer)
Nearer == Stage' < Stage \/ (Stage' = Stage /\ ItemNearer)

LeftCounted ==
  /\ Stage \in 1 .. 9 /\ ItemsLeft \in Nat /\ ItemSteps \in 0 .. 4
  /\ LinesLeft \in Nat /\ UeSteps \in 0 .. 2 /\ UeLinesLeft \in Nat

LEMMA TailShorter ==
  ASSUME NEW T, NEW s \in Seq(T), s # <<>>
  PROVE  Len(Tail(s)) < Len(s)
<1>1. Len(Tail(s)) = Len(s) - 1 /\ Len(s) \in Nat
  BY HeadTailProperties, LenProperties
<1> QED
  BY <1>1

LEMMA RestShorter ==
  ASSUME NEW s \in ListLines, s # <<>>
  PROVE  Len(Rest(s)) < Len(s)
<1>1. Len(Tail(s)) < Len(s)
  BY TailShorter DEF ListLines
<1>2. Len(s) \in Nat /\ Len(s) # 0 /\ Len(<<>>) = 0
  BY LenProperties, EmptySeq DEF ListLines
<1> QED
  BY <1>1, <1>2 DEF Rest

LEMMA NotScanned ==
  /\ IsFiniteSet(Uent \ ToSet(found)) /\ Cardinality(Uent \ ToSet(found)) \in Nat
<1>1. IsFiniteSet(Uent \ ToSet(found))
  BY UentsFiniteAssumption, FS_Difference
<1> QED
  BY <1>1, FS_CardinalityType

LEMMA Prepended ==
  ASSUME NEW T, NEW s \in Seq(T), NEW u \in T
  PROVE  ToSet(<<u>> \o s) = ToSet(s) \cup {u}
<1>1. PICK N \in Nat : N = Len(s) /\ DOMAIN s = 1 .. N
  BY LenProperties
<1>2. PICK t \in Seq(T) :
        /\ t = <<u>> \o s /\ DOMAIN t = 1 .. N + 1
        /\ t[1] = u /\ \A n \in 1 .. N : t[n + 1] = s[n]
  <2>1. /\ <<u>> \o s \in Seq(T)
        /\ DOMAIN (<<u>> \o s) = 1 .. Len(s) + 1
        /\ (<<u>> \o s)[1] = u
        /\ \A n \in 1 .. Len(s) : (<<u>> \o s)[n + 1] = s[n]
    BY Prepend
  <2> QED
    BY <1>1, <2>1, Zenon
<1>3. ToSet(t) \subseteq ToSet(s) \cup {u}
  <2> SUFFICES ASSUME NEW n \in 1 .. N + 1 PROVE t[n] \in ToSet(s) \cup {u}
    BY <1>2 DEF ToSet
  <2>1. CASE n = 1
    BY <1>2, <2>1
  <2>2. CASE n # 1
    <3>1. n - 1 \in 1 .. N /\ (n - 1) + 1 = n
      BY <2>2
    <3>2. t[n] = s[n - 1]
      BY <1>2, <3>1
    <3> QED
      BY <1>1, <3>1, <3>2 DEF ToSet
  <2> QED
    BY <2>1, <2>2
<1>4. u \in ToSet(t)
  <2>1. 1 \in DOMAIN t
    BY <1>2
  <2> QED
    BY <1>2, <2>1 DEF ToSet
<1>5. \A n \in 1 .. N : s[n] \in ToSet(t)
  <2> TAKE n \in 1 .. N
  <2>1. n + 1 \in DOMAIN t /\ t[n + 1] = s[n]
    BY <1>2
  <2> QED
    BY <2>1 DEF ToSet
<1>6. ToSet(s) \subseteq ToSet(t)
  BY <1>1, <1>5 DEF ToSet
<1>7. ToSet(t) = ToSet(s) \cup {u}
  BY <1>3, <1>4, <1>6
<1> QED
  BY <1>2, <1>7

LEMMA ScannedOneMore ==
  ASSUME NEW u \in Uent, ~Known(u), found \in Seq(Uent), found' = <<u>> \o found
  PROVE  Cardinality(Uent \ ToSet(found)) ' < Cardinality(Uent \ ToSet(found))
<1> DEFINE S == Uent \ ToSet(found)
           t == <<u>> \o found
           less == Uent \ ToSet(t)
<1>1. ToSet(t) = ToSet(found) \cup {u}
  BY Prepended
<1>2. u \in S
  BY DEF Known
<1>3. Cardinality(S \ {u}) = Cardinality(S) - 1
  BY <1>2, NotScanned, FS_RemoveElement
<1>4. less = S \ {u}
  BY <1>1
<1>5. (Uent \ ToSet(found))' = less
  OBVIOUS
<1>6. Cardinality(S) \in Nat
  BY NotScanned
<1> HIDE DEF S, less
<1>7. Cardinality(less) < Cardinality(S)
  BY <1>3, <1>4, <1>6
<1> QED
  BY <1>5, <1>7 DEF S

LEMMA Counted ==
  ChoicesTyped /\ ControlsTyped /\ MueShape /\ DevicesCounted /\ IdsTyped /\ RoutesTypeOK
  => LeftCounted
<1> SUFFICES ASSUME ChoicesTyped, ControlsTyped, MueShape, DevicesCounted, IdsTyped,
                    RoutesTypeOK
             PROVE  LeftCounted
  OBVIOUS
<1>1. Len(args) \in Nat /\ Len(found) - devs \in Nat /\ Len(toList) \in Nat
  BY LenProperties DEF ChoicesTyped, DevicesCounted
<1>2. Len(todo) \in Nat /\ Len(mueLines) \in Nat /\ Len(ueLines) \in Nat
  BY LenProperties DEF MueShape, MueTypeOK, ListLines
<1>3. Len(lines) \in Nat
  BY LenProperties DEF IdsTyped
<1>4. Stage \in 1 .. 9
  BY DEF ControlsTyped, Stage
<1>5. RouteSteps \in Nat
  BY DEF RoutesTypeOK, RouteSteps
<1>6. ItemsLeft \in Nat
  BY <1>1, <1>2, <1>5, NotScanned DEF ItemsLeft
<1>7. MueSteps \in 0 .. 4
  BY DEF MueShape, MueTypeOK, MueSteps, WithinMue
<1>8. NameSteps \in 0 .. 4
  BY DEF IdsTyped, NameSteps
<1>9. ItemSteps \in 0 .. 4
  BY <1>7, <1>8 DEF ItemSteps
<1>10. LinesLeft \in Nat
  BY <1>2, <1>3 DEF LinesLeft
<1>11. UeSteps \in 0 .. 2 /\ UeLinesLeft \in Nat
  BY <1>2 DEF UeSteps, UeLinesLeft
<1> QED
  BY <1>4, <1>6, <1>9, <1>10, <1>11 DEF LeftCounted

(* The steps that leave a stage, and those of the options and the scan.     *)
LEMMA StagesNearer ==
  ASSUME ControlsTyped,
         \/ AllocAcc \/ AllocAccFails \/ InitAcc \/ InitAccFails \/ OptionRefused
         \/ OptionsTaken \/ ScanEnds \/ ScanFails \/ ScanDone \/ OtherCommand \/ StartRoutes
         \/ StartMueLists \/ StartList \/ ListDone \/ CleanUp
  PROVE  Stage' < Stage
BY DEF AllocAcc, AllocAccFails, InitAcc, InitAccFails, OptionRefused, OptionsTaken, ScanEnds,
       ScanFails, ScanDone, OtherCommand, StartRoutes, StartMueLists, StartList, ListDone,
       CleanUp, Chosen, NoneChosen, Goto, Stage

LEMMA OptionNearer ==
  ASSUME ChoicesTyped, Taken, step = "options", args # <<>>
  PROVE  Nearer
<1>1. Len(args') < Len(args)
  BY TailShorter DEF Taken, ChoicesTyped
<1>2. Stage' = Stage /\ ItemsLeft' = Len(args') /\ ItemsLeft = Len(args)
  BY DEF Taken, Stage, ItemsLeft
<1> QED
  BY <1>1, <1>2 DEF Nearer, ItemNearer

LEMMA ScanNearer ==
  ASSUME ChoicesTyped, NEW u \in Uent, ScanUent(u)
  PROVE  Nearer
<1>1. Cardinality(Uent \ ToSet(found)) ' < Cardinality(Uent \ ToSet(found))
  BY ScannedOneMore DEF ScanUent, ChoicesTyped
<1>2. /\ Stage' = Stage
      /\ ItemsLeft' = Cardinality(Uent \ ToSet(found)) '
      /\ ItemsLeft = Cardinality(Uent \ ToSet(found))
  BY DEF ScanUent, Stage, ItemsLeft
<1> QED
  BY <1>1, <1>2 DEF Nearer, ItemNearer

LEMMA DeviceNearer ==
  ASSUME ChoicesTyped, DevicesCounted, AddDevice
  PROVE  Nearer
<1>1. found' = found /\ devs' = devs + 1 /\ Len(found) \in Nat /\ devs \in Nat
  BY LenProperties DEF AddDevice, InMain, mueVars, ChoicesTyped, DevicesCounted
<1>2. Stage' = Stage /\ ItemsLeft' = Len(found) - (devs + 1) /\ ItemsLeft = Len(found) - devs
  BY <1>1 DEF AddDevice, Stage, ItemsLeft
<1> QED
  BY <1>1, <1>2 DEF Nearer, ItemNearer

LEMMA RoutesNearer ==
  ASSUME InRoutes
  PROVE  Nearer
<1>1. CASE rt = "done"
  BY <1>1 DEF InRoutes, Goto, Nearer, Stage
<1>2. CASE rt # "done"
  <2>1. RouteSteps' < RouteSteps
    BY <1>2 DEF InRoutes, RouteStep, GiveUpRoutes, Supported, ReadPortNums, ReadEntryNum,
                ShowDefaultRouteTbl, ShowExactRouteTbl, Continue, RouteSteps
  <2>2. Stage' = Stage /\ ItemsLeft' = RouteSteps' /\ ItemsLeft = RouteSteps
    BY <1>2 DEF InRoutes, Stage, ItemsLeft
  <2> QED
    BY <2>1, <2>2 DEF Nearer, ItemNearer
<1> QED
  BY <1>1, <1>2

(* The lists, with the place in the three functions.                        *)
LEMMA MueStepNearer ==
  ASSUME MueShape, MueStep, step = "mue", step' = "mue"
  PROVE  Nearer
<1>1. /\ Stage' = Stage
      /\ ItemsLeft' = Len(todo') /\ ItemsLeft = Len(todo)
      /\ ItemSteps' = MueSteps' /\ ItemSteps = MueSteps
      /\ LinesLeft' = (IF WithinMue' THEN Len(mueLines') ELSE 0)
      /\ LinesLeft = (IF WithinMue THEN Len(mueLines) ELSE 0)
  BY DEF Stage, ItemsLeft, ItemSteps, LinesLeft
<1>2. ASSUME todo # <<>>, todo' = Tail(todo) PROVE Nearer
  <2>1. Len(todo') < Len(todo)
    BY <1>2, TailShorter DEF MueShape, MueTypeOK
  <2> QED
    BY <1>1, <2>1 DEF Nearer, ItemNearer
<1>3. ASSUME todo' = todo, MueSteps' < MueSteps PROVE Nearer
  BY <1>1, <1>3 DEF Nearer, ItemNearer, StepNearer
<1>4. ASSUME todo' = todo, MueSteps' = MueSteps, LineNearer PROVE Nearer
  BY <1>1, <1>4 DEF Nearer, ItemNearer, StepNearer
<1>5. level \in {0, 1} /\ (mueAt \in {"mue_list", "mue", "ue_list", "ue"} => todo # <<>>)
  BY DEF MueShape, MueTypeOK
<1>6. CASE SkipUent
  BY <1>2, <1>6 DEF SkipUent
<1>7. CASE ShowRole
  <2>1. todo # <<>> /\ mueAt = "next"
    BY <1>7 DEF ShowRole
  <2>2. \/ mueAt' = "mue_list" /\ todo' = todo
        \/ todo' = Tail(todo)
    BY <1>7 DEF ShowRole
  <2>3. ASSUME mueAt' = "mue_list" PROVE MueSteps' < MueSteps
    BY <2>1, <2>3 DEF MueSteps, WithinMue
  <2> QED
    BY <1>2, <1>3, <2>1, <2>2, <2>3
<1>8. CASE MueDone
  <2>1. todo' = todo /\ mueAt = "next" /\ mueAt' = "done"
    BY <1>8 DEF MueDone
  <2>2. MueSteps' < MueSteps
    BY <2>1 DEF MueSteps, WithinMue
  <2> QED
    BY <1>3, <2>1, <2>2
<1>9. CASE MueListEnds
  <2>1. todo' = todo /\ mueAt \in {"mue_list", "mue"} /\ mueAt' = "ue_list" /\ level' = 0
    BY <1>9 DEF MueListEnds, CallUeList
  <2>2. MueSteps' < MueSteps
    BY <2>1 DEF MueSteps, WithinMue
  <2> QED
    BY <1>3, <2>1, <2>2
<1>10. CASE MueLine
  <2>1. /\ todo' = todo /\ mueAt = "mue" /\ mueLines' = Rest(mueLines)
        /\ mueAt' = "mue" \/ (mueAt' = "ue_list" /\ level' = 1)
    BY <1>10 DEF MueLine, CallUeList
  <2>2. Len(mueLines') < Len(mueLines)
    BY <1>10, <2>1, RestShorter DEF MueLine, MueShape, MueTypeOK
  <2>3. WithinMue /\ WithinMue' /\ MueSteps' = MueSteps
    BY <2>1 DEF MueSteps, WithinMue
  <2> QED
    BY <1>1, <1>4, <2>1, <2>2, <2>3 DEF LineNearer
<1>11. CASE UeLine
  <2>1. /\ todo' = todo /\ mueLines' = mueLines /\ level' = level
        /\ mueAt = "ue" /\ mueAt' = "ue" /\ ueLines' = Rest(ueLines)
    BY <1>11 DEF UeLine
  <2>2. Len(ueLines') < Len(ueLines)
    BY <1>11, <2>1, RestShorter DEF UeLine, MueShape, MueTypeOK
  <2>3. MueSteps' = MueSteps /\ (WithinMue' <=> WithinMue) /\ UeSteps' = UeSteps
    BY <2>1 DEF MueSteps, WithinMue, UeSteps
  <2>4. UeLinesLeft' = Len(ueLines') /\ UeLinesLeft = Len(ueLines)
    BY <2>1 DEF UeLinesLeft
  <2> QED
    BY <1>1, <1>4, <2>1, <2>2, <2>3, <2>4 DEF LineNearer, UeNearer
<1>12. CASE UeListEnds
  <2>1. CASE level = 1
    <3>1. /\ todo' = todo /\ mueLines' = mueLines /\ level' = level
          /\ mueAt \in {"ue_list", "ue"} /\ mueAt' = "mue"
      BY <1>12, <2>1 DEF UeListEnds
    <3>2. MueSteps' = MueSteps /\ WithinMue' /\ WithinMue /\ UeSteps' < UeSteps
      BY <2>1, <3>1 DEF MueSteps, WithinMue, UeSteps
    <3> QED
      BY <1>1, <1>4, <3>1, <3>2 DEF LineNearer, UeNearer
  <2>2. CASE level = 0
    <3>1. todo' = Tail(todo) /\ todo # <<>>
      BY <1>5, <1>12, <2>2 DEF UeListEnds
    <3> QED
      BY <1>2, <3>1
  <2> QED
    BY <1>5, <2>1, <2>2
<1>13. CASE \E f \in ListFiles : OpenMueList(f)
  <2>1. todo' = todo /\ mueAt = "mue_list" /\ mueAt' = "mue"
    BY <1>13 DEF OpenMueList
  <2>2. MueSteps' < MueSteps
    BY <2>1 DEF MueSteps, WithinMue
  <2> QED
    BY <1>3, <2>1, <2>2
<1>14. CASE \E f \in ListFiles : OpenUeList(f)
  <2>1. /\ todo' = todo /\ mueLines' = mueLines /\ level' = level
        /\ mueAt = "ue_list" /\ mueAt' = "ue"
    BY <1>14 DEF OpenUeList
  <2>2. MueSteps' = MueSteps /\ (WithinMue' <=> WithinMue) /\ UeSteps' < UeSteps
    BY <2>1 DEF MueSteps, WithinMue, UeSteps
  <2> QED
    BY <1>1, <1>4, <2>1, <2>2 DEF LineNearer, UeNearer
<1> QED
  BY <1>6, <1>7, <1>8, <1>9, <1>10, <1>11, <1>12, <1>13, <1>14 DEF MueStep

LEMMA MueNearer ==
  ASSUME MueShape, InMueLists
  PROVE  Nearer
<1>1. CASE mueAt = "done"
  BY <1>1 DEF InMueLists, Goto, Nearer, Stage
<1>2. CASE mueAt # "done"
  BY <1>2, MueStepNearer DEF InMueLists
<1> QED
  BY <1>1, <1>2

(* A line of the ID file is read once, and behind one that is refused the   *)
(* file is not read on.                                                     *)
LEMMA TakeShortens ==
  ASSUME NEW i, Reading, Take(i)
  PROVE  db' = "answer" \/ (db' = "parse" /\ lines' = Tail(lines))
BY DEF Take, Insert, InsertFails, Advance, EndLoad, Reading

LEMMA ParseShortens ==
  ASSUME ParseLine
  PROVE  /\ db = "parse" /\ lines # <<>>
         /\ db' = "answer" \/ (db' = "parse" /\ lines' = Tail(lines))
<1>1. Reading
  BY DEF ParseLine, Ignored, ClassLine, VendorLine, SubsystemLine, UnrecognizedLine,
         DeviceLine, SubsystemDeviceLine, SubclassLine, LaterSubclassLine,
         SubsystemNameLine, ProgIfLine, LineTooLong, Malformed
<1>2. CASE Ignored \/ SubsystemLine \/ UnrecognizedLine \/ LineTooLong \/ Malformed
  BY <1>2 DEF Ignored, SubsystemLine, UnrecognizedLine, LineTooLong, Malformed,
              Reading, Advance, Refuse, EndLoad
<1>3. CASE \/ ClassLine \/ VendorLine \/ DeviceLine \/ SubsystemDeviceLine \/ SubclassLine
           \/ LaterSubclassLine \/ SubsystemNameLine \/ ProgIfLine
  <2>1. PICK i : Take(i)
    BY <1>3 DEF ClassLine, VendorLine, DeviceLine, SubsystemDeviceLine, SubclassLine,
                LaterSubclassLine, SubsystemNameLine, ProgIfLine
  <2> QED
    BY <1>1, <2>1, TakeShortens DEF Reading
<1> QED
  BY <1>1, <1>2, <1>3 DEF ParseLine, Reading

LEMMA LookupShortens ==
  ASSUME LookupName
  PROVE  \/ db' = "idle"
         \/ db = "open" /\ db' \in {"parse", "answer"}
         \/ db = "parse" /\ db' = "answer"
         \/ db = "parse" /\ db' = "parse" /\ lines # <<>> /\ lines' = Tail(lines)
<1>1. CASE ParseLine
  BY <1>1, ParseShortens
<1>2. CASE \/ \E f \in Files : Open(f)
           \/ PathFails \/ OpenFails \/ Loaded \/ ReadFails \/ Answer
  BY <1>2 DEF Open, PathFails, OpenFails, Loaded, ReadFails, Refuse, EndLoad, Answer
<1> QED
  BY <1>1, <1>2 DEF LookupName

LEMMA ListStepNearer ==
  ASSUME ChoicesTyped, ListSkip \/ ListNumeric
  PROVE  Nearer
<1>1. step = "list" /\ step' = "list" /\ toList # <<>> /\ toList' = Tail(toList)
  BY DEF ListSkip, ListNumeric
<1>2. Len(toList') < Len(toList)
  BY <1>1, TailShorter DEF ChoicesTyped
<1> QED
  BY <1>1, <1>2 DEF Nearer, ItemNearer, Stage, ItemsLeft

LEMMA AskNearer ==
  ASSUME AskName
  PROVE  Nearer
<1>1. step = "list" /\ step' = "name" /\ toList' = toList /\ db' \in {"open", "answer"}
  BY DEF AskName, Ask, Goto, listing
<1>2. Stage' = Stage /\ ItemsLeft' = ItemsLeft /\ ItemSteps' < ItemSteps
  BY <1>1 DEF Stage, ItemsLeft, ItemSteps, NameSteps
<1> QED
  BY <1>2 DEF Nearer, ItemNearer, StepNearer

LEMMA NameNearer ==
  ASSUME ChoicesTyped, IdsTyped, ListNamed
  PROVE  Nearer
<1>1. step = "name" /\ LookupName
  BY DEF ListNamed
<1>2. CASE db' = "idle"
  <2>1. step' = "list" /\ toList' = Tail(toList) /\ toList # <<>>
    BY <1>2 DEF ListNamed, Goto, ChoicesTyped
  <2>2. Len(toList') < Len(toList)
    BY <2>1, TailShorter DEF ChoicesTyped
  <2> QED
    BY <1>1, <2>1, <2>2 DEF Nearer, ItemNearer, Stage, ItemsLeft
<1>3. CASE db' # "idle"
  <2>1. step' = "name" /\ toList' = toList
    BY <1>1, <1>3 DEF ListNamed, listing
  <2>2. Stage' = Stage /\ ItemsLeft' = ItemsLeft /\ ItemSteps' = NameSteps' /\ ItemSteps = NameSteps
    BY <1>1, <2>1 DEF Stage, ItemsLeft, ItemSteps
  <2>3. CASE \/ db = "open" /\ db' \in {"parse", "answer"}
             \/ db = "parse" /\ db' = "answer"
    <3>1. NameSteps' < NameSteps
      BY <2>3 DEF NameSteps
    <3> QED
      BY <2>2, <3>1 DEF Nearer, ItemNearer, StepNearer
  <2>4. CASE db = "parse" /\ db' = "parse" /\ lines # <<>> /\ lines' = Tail(lines)
    <3>1. Len(lines') < Len(lines)
      BY <2>4, TailShorter DEF IdsTyped
    <3>2. NameSteps' = NameSteps /\ LinesLeft' = Len(lines') /\ LinesLeft = Len(lines)
      BY <1>1, <2>1, <2>4 DEF NameSteps, LinesLeft
    <3> QED
      BY <2>2, <3>1, <3>2 DEF Nearer, ItemNearer, StepNearer, LineNearer
  <2> QED
    BY <1>1, <1>3, <2>3, <2>4, LookupShortens
<1> QED
  BY <1>2, <1>3

LEMMA NextNearer ==
  /\ ChoicesTyped /\ ControlsTyped /\ MueShape /\ DevicesCounted /\ IdsTyped
  /\ [LsubNext]_lsubVars
  => [Nearer]_lsubVars
<1> SUFFICES ASSUME ChoicesTyped, ControlsTyped, MueShape, DevicesCounted, IdsTyped, LsubTool
             PROVE  Nearer
  BY DEF LsubNext, LsubExited
<1>1. CASE \/ AllocAcc \/ AllocAccFails \/ InitAcc \/ InitAccFails \/ OptionRefused
           \/ OptionsTaken \/ ScanEnds \/ ScanFails \/ ScanDone \/ OtherCommand
           \/ StartRoutes \/ StartMueLists \/ StartList \/ ListDone \/ CleanUp
  BY <1>1, StagesNearer DEF Nearer
<1>2. CASE GiveFlag \/ GiveHelp \/ GiveIdsFile \/ GiveEntity \/ GiveCna \/ GiveOther
  <2>1. Taken /\ step = "options" /\ args # <<>>
    BY <1>2 DEF GiveFlag, GiveHelp, GiveIdsFile, GiveEntity, GiveCna, GiveOther, Taking
  <2> QED
    BY <2>1, OptionNearer
<1>3. CASE (\E u \in Uent : ScanUent(u)) \/ AddDevice
  BY <1>3, ScanNearer, DeviceNearer
<1>4. CASE InRoutes \/ InMueLists
  BY <1>4, RoutesNearer, MueNearer
<1>5. CASE ListSkip \/ ListNumeric \/ AskName \/ ListNamed
  BY <1>5, ListStepNearer, AskNearer, NameNearer
<1> QED
  BY <1>1, <1>2, <1>3, <1>4, <1>5 DEF LsubTool

(* Every run of lsub ends, whatever fails and however long the files are    *)
(* that it reads: six natural numbers, compared in order, go down with each *)
(* step it takes.                                                           *)
THEOREM LsubRunsOut == LsubSpec => []LeftCounted /\ [][Nearer]_lsubVars
<1>1. LsubInit => DevicesCounted
  BY EmptySeq DEF LsubInit, MueInit, DevicesCounted
<1>2. LsubSpec => []DevicesCounted
  BY <1>1, ChoicesInvariant, StepDevices, PTL DEF LsubSpec
<1>3. LsubSpec => []IdsTyped
  BY LsubUsesIds, DatabaseTyped, PTL
<1>4. LsubSpec => []RoutesTypeOK
  <2>1. RoutesSpec => []RoutesTypeOK
    BY InitRoutes, StepRoutes, PTL DEF RoutesSpec
  <2> QED
    BY <2>1, LsubUsesRoutes, PTL
<1> QED
  BY <1>2, <1>3, <1>4, TypesInvariant, Counted, NextNearer, PTL DEF LsubSpec
=============================================================================
