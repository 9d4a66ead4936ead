----------------------------- MODULE DataLemmas ----------------------------
(***************************************************************************)
(* Facts about data that several proofs use: what is in a sequence after   *)
(* an insertion or a removal (the message queues and the content arrays of *)
(* the systems change in these ways only), and what a loop over a counter  *)
(* computes.                                                               *)
(***************************************************************************)
EXTENDS Integers, Sequences, SequencesExt, SequenceTheorems, FiniteSetTheorems,
        WellFoundedInduction, Selections, TLAPS

\* What RemoveAt leaves: everything but the element at i, in order.
LEMMA RemoveAtElements ==
    ASSUME NEW S, NEW s \in Seq(S), NEW i \in 1..Len(s)
    PROVE  /\ RemoveAt(s, i) \in Seq(S)
           /\ Len(RemoveAt(s, i)) = Len(s) - 1
           /\ \A k \in 1..(Len(s) - 1) :
                RemoveAt(s, i)[k] = IF k < i THEN s[k] ELSE s[k + 1]
  <1> DEFINE a == SubSeq(s, 1, i - 1)
             b == SubSeq(s, i + 1, Len(s))
  <1>1. a \in Seq(S) /\ Len(a) = i - 1 /\ \A k \in 1..(i - 1) : a[k] = s[k]
    BY SubSeqProperties
  <1>2. /\ b \in Seq(S) /\ Len(b) = Len(s) - i
        /\ \A k \in 1..(Len(s) - i) : b[k] = s[i + k]
    BY SubSeqProperties
  <1> HIDE DEF a, b
  <1>3. Len(s) \in Nat /\ i \in Nat \ {0} /\ Len(a) + Len(b) = Len(s) - 1
    BY <1>1, <1>2
  <1>4. /\ a \o b \in Seq(S) /\ Len(a \o b) = Len(a) + Len(b)
        /\ \A k \in 1..(Len(a) + Len(b)) :
             (a \o b)[k] = IF k <= Len(a) THEN a[k] ELSE b[k - Len(a)]
    BY <1>1, <1>2, ConcatProperties
  <1>5. RemoveAt(s, i) = a \o b
    BY DEF RemoveAt, a, b
  <1>6. ASSUME NEW k \in 1..(Len(s) - 1)
        PROVE  (a \o b)[k] = IF k < i THEN s[k] ELSE s[k + 1]
    <2>1. CASE k < i
      BY <1>1, <1>3, <1>4, <2>1
    <2>2. CASE ~(k < i)
      <3>1. k - (i - 1) \in 1..(Len(s) - i) /\ i + (k - (i - 1)) = k + 1
        BY <1>3, <2>2
      <3>2. (a \o b)[k] = b[k - (i - 1)]
        BY <1>1, <1>3, <1>4, <2>2
      <3> QED BY <1>2, <2>2, <3>1, <3>2
    <2> QED BY <2>1, <2>2
  <1> QED BY <1>3, <1>4, <1>5, <1>6

LEMMA AppendElements ==
    ASSUME NEW S, NEW s \in Seq(S), NEW e \in S
    PROVE  Append(s, e) \in Seq(S) /\ ToSet(Append(s, e)) = ToSet(s) \cup {e}
  <1> DEFINE t == Append(s, e)
  <1>1. /\ t \in Seq(S) /\ Len(t) = Len(s) + 1 /\ t[Len(s) + 1] = e
        /\ Len(s) \in Nat /\ \A i \in 1..Len(s) : t[i] = s[i]
    OBVIOUS
  <1> HIDE DEF t
  <1>2. ASSUME NEW i \in 1..Len(t) PROVE i \in 1..Len(s) \/ i = Len(s) + 1
    BY <1>1
  <1>3. ASSUME NEW i \in 1..Len(s) PROVE i \in 1..Len(t)
    BY <1>1
  <1>4. Len(s) + 1 \in 1..Len(t)
    BY <1>1
  <1>5. t \in Seq(S) /\ ToSet(t) = ToSet(s) \cup {e}
    BY <1>1, <1>2, <1>3, <1>4 DEF ToSet
  <1> QED BY <1>5 DEF t

LEMMA TailElements ==
    ASSUME NEW S, NEW s \in Seq(S), s # <<>>
    PROVE  /\ Head(s) \in S /\ Tail(s) \in Seq(S)
           /\ ToSet(s) = {Head(s)} \cup ToSet(Tail(s))
  <1>1. /\ Len(s) \in Nat /\ Len(s) >= 1 /\ Head(s) = s[1] /\ s[1] \in S
        /\ Tail(s) \in Seq(S) /\ Len(Tail(s)) = Len(s) - 1
        /\ \A i \in 1..Len(Tail(s)) : Tail(s)[i] = s[i + 1]
    BY EmptySeq, HeadTailProperties
  <1>2. ASSUME NEW i \in 1..Len(s) PROVE s[i] \in {Head(s)} \cup ToSet(Tail(s))
    <2>1. CASE i = 1
      BY <1>1, <2>1
    <2>2. CASE i # 1
      <3>1. i - 1 \in 1..Len(Tail(s)) /\ Tail(s)[i - 1] = s[i]
        BY <1>1, <2>2
      <3>2. DOMAIN Tail(s) = 1..Len(Tail(s))
        BY <1>1
      <3> QED BY <3>1, <3>2 DEF ToSet
    <2> QED BY <2>1, <2>2
  <1>3. ASSUME NEW i \in 1..Len(Tail(s)) PROVE Tail(s)[i] \in ToSet(s)
    <2>1. i + 1 \in 1..Len(s) /\ Tail(s)[i] = s[i + 1]
      BY <1>1
    <2> QED BY <2>1 DEF ToSet
  <1>4. Head(s) \in ToSet(s)
    BY <1>1 DEF ToSet
  <1> QED BY <1>1, <1>2, <1>3, <1>4 DEF ToSet

LEMMA PrependElements ==
    ASSUME NEW S, NEW s \in Seq(S), NEW e \in S
    PROVE  <<e>> \o s \in Seq(S) /\ ToSet(<<e>> \o s) = {e} \cup ToSet(s)
  <1> DEFINE t == <<e>> \o s
  <1>1. /\ t \in Seq(S) /\ Len(t) = Len(s) + 1 /\ t[1] = e
        /\ \A i \in 1..Len(s) : t[i + 1] = s[i]
    OBVIOUS
  <1> HIDE DEF t
  <1>2. ASSUME NEW i \in 1..Len(t) PROVE t[i] \in {e} \cup ToSet(s)
    <2>1. CASE i = 1
      BY <1>1, <2>1
    <2>2. CASE i # 1
      <3>1. i - 1 \in 1..Len(s) /\ (i - 1) + 1 = i
        BY <1>1, <2>2
      <3>2. t[i] = s[i - 1]
        BY <1>1, <3>1
      <3> QED BY <1>1, <3>1, <3>2 DEF ToSet
    <2> QED BY <2>1, <2>2
  <1>3. e \in ToSet(t)
    BY <1>1 DEF ToSet
  <1>4. ASSUME NEW i \in 1..Len(s) PROVE s[i] \in ToSet(t)
    <2>1. i + 1 \in 1..Len(t) /\ t[i + 1] = s[i]
      BY <1>1
    <2> QED BY <2>1 DEF ToSet
  <1>5. t \in Seq(S) /\ ToSet(t) = {e} \cup ToSet(s)
    BY <1>1, <1>2, <1>3, <1>4 DEF ToSet
  <1> QED BY <1>5 DEF t

\* A queue with nothing twice stays so, given that what comes is new to it.
LEMMA InjectiveQueue ==
    ASSUME NEW S, NEW s \in Seq(S), IsInjective(s)
    PROVE  /\ \A e \in S \ ToSet(s) : IsInjective(Append(s, e)) /\ IsInjective(<<e>> \o s)
           /\ s # <<>> => IsInjective(Tail(s)) /\ Head(s) \notin ToSet(Tail(s))
  <1>1. ASSUME NEW e \in S \ ToSet(s) PROVE IsInjective(Append(s, e))
    BY <1>1 DEF IsInjective, ToSet
  <1>2. ASSUME NEW e \in S \ ToSet(s) PROVE IsInjective(<<e>> \o s)
    <2> DEFINE t == <<e>> \o s
    <2>1. /\ Len(t) = Len(s) + 1 /\ t[1] = e /\ DOMAIN t = 1..Len(t)
          /\ \A i \in 1..Len(s) : t[i + 1] = s[i]
      OBVIOUS
    <2> HIDE DEF t
    <2>2. ASSUME NEW i \in 2..Len(t) PROVE i - 1 \in 1..Len(s) /\ t[i] = s[i - 1]
      <3>1. i - 1 \in 1..Len(s) /\ (i - 1) + 1 = i
        BY <2>1
      <3> QED BY <2>1, <3>1
    <2>3. \A i \in 2..Len(t) : t[i] # e
      BY <2>2 DEF ToSet
    <2>4. \A i, j \in 2..Len(t) : t[i] = t[j] => i = j
      BY <2>2 DEF IsInjective
    <2>5. \A i \in 1..Len(t) : i = 1 \/ i \in 2..Len(t)
      BY <2>1
    <2>6. IsInjective(t)
      BY <2>1, <2>3, <2>4, <2>5 DEF IsInjective
    <2> QED BY <2>6 DEF t
  <1>3. ASSUME s # <<>> PROVE IsInjective(Tail(s)) /\ Head(s) \notin ToSet(Tail(s))
    <2>1. /\ Len(s) \in Nat /\ Len(s) >= 1 /\ Head(s) = s[1]
          /\ Tail(s) \in Seq(S) /\ Len(Tail(s)) = Len(s) - 1
          /\ \A i \in 1..Len(Tail(s)) : Tail(s)[i] = s[i + 1]
      BY <1>3, EmptySeq, HeadTailProperties
    <2>2. ASSUME NEW i \in 1..Len(Tail(s))
          PROVE  i + 1 \in 1..Len(s) /\ i + 1 # 1 /\ Tail(s)[i] = s[i + 1]
      BY <2>1
    <2> QED BY <2>1, <2>2 DEF IsInjective, ToSet
  <1> QED BY <1>1, <1>2, <1>3

\* The elements of a sequence.
LEMMA ElementsAre ==
    ASSUME NEW S, NEW s \in Seq(S)
    PROVE  \A x : x \in ToSet(s) <=> \E k \in 1..Len(s) : s[k] = x
  BY DEF ToSet

\* In a sequence without repetitions a removal takes one element away.
LEMMA RemoveInjective ==
    ASSUME NEW S, NEW s \in Seq(S), IsInjective(s), NEW i \in 1..Len(s)
    PROVE  IsInjective(RemoveAt(s, i)) /\ ToSet(RemoveAt(s, i)) = ToSet(s) \ {s[i]}
  <1>1. PICK n \in Nat : n = Len(s)
    OBVIOUS
  <1>2. PICK t \in Seq(S) :
          /\ t = RemoveAt(s, i) /\ Len(t) = n - 1
          /\ \A k \in 1..(n - 1) : t[k] = IF k < i THEN s[k] ELSE s[k + 1]
    BY <1>1, RemoveAtElements
  <1>3. \A j, k \in 1..n : s[j] = s[k] => j = k
    BY <1>1 DEF IsInjective
  <1>4. ASSUME NEW k \in 1..(n - 1)
        PROVE  \E j \in 1..n : t[k] = s[j] /\ j # i /\ j = IF k < i THEN k ELSE k + 1
    <2>1. CASE k < i
      BY <1>1, <1>2, <2>1
    <2>2. CASE ~(k < i)
      <3>1. k + 1 \in 1..n /\ k + 1 # i
        BY <1>1, <2>2
      <3> QED BY <1>2, <2>2, <3>1
    <2> QED BY <2>1, <2>2
  <1>5. IsInjective(t)
    <2>1. ASSUME NEW a \in 1..(n - 1), NEW b \in 1..(n - 1), t[a] = t[b] PROVE a = b
      <3>1. PICK j \in 1..n : t[a] = s[j] /\ j = IF a < i THEN a ELSE a + 1
        BY <1>4
      <3>2. PICK l \in 1..n : t[b] = s[l] /\ l = IF b < i THEN b ELSE b + 1
        BY <1>4
      <3>3. j = l
        BY <1>3, <2>1, <3>1, <3>2
      <3> QED BY <1>1, <3>1, <3>2, <3>3
    <2>2. DOMAIN t = 1..(n - 1)
      BY <1>2
    <2> QED BY <2>1, <2>2 DEF IsInjective
  <1>6. ASSUME NEW j \in 1..n, j # i PROVE \E k \in 1..(n - 1) : t[k] = s[j]
    <2>1. CASE j < i
      <3>1. j \in 1..(n - 1)
        BY <1>1, <2>1
      <3> QED BY <1>2, <2>1, <3>1
    <2>2. CASE j > i
      <3>1. j - 1 \in 1..(n - 1) /\ ~(j - 1 < i) /\ (j - 1) + 1 = j
        BY <1>1, <2>2
      <3> QED BY <1>2, <3>1
    <2> QED BY <1>1, <1>6, <2>1, <2>2
  <1>7. \A x : x \in ToSet(t) <=> \E k \in 1..(n - 1) : t[k] = x
    BY <1>2, ElementsAre
  <1>8. \A x : x \in ToSet(s) <=> \E k \in 1..n : s[k] = x
    BY <1>1, ElementsAre
  <1>9. ASSUME NEW x \in ToSet(t) PROVE x \in ToSet(s) \ {s[i]}
    <2>1. PICK k \in 1..(n - 1) : t[k] = x
      BY <1>7
    <2>2. PICK j \in 1..n : t[k] = s[j] /\ j # i
      BY <1>4
    <2> QED BY <1>1, <1>3, <1>8, <2>1, <2>2
  <1>10. ASSUME NEW x \in ToSet(s) \ {s[i]} PROVE x \in ToSet(t)
    <2>1. PICK j \in 1..n : s[j] = x /\ j # i
      BY <1>8
    <2> QED BY <1>6, <1>7, <2>1
  <1> QED BY <1>2, <1>5, <1>9, <1>10

\* A sequence without repetitions has as many elements as places.
LEMMA InjectiveCount ==
    ASSUME NEW S, NEW s \in Seq(S), IsInjective(s)
    PROVE  IsFiniteSet(ToSet(s)) /\ Cardinality(ToSet(s)) = Len(s)
  <1>1. PICK n \in Nat : n = Len(s) /\ s \in [1..n -> S]
    OBVIOUS
  <1>2. \A x : x \in ToSet(s) <=> \E k \in 1..n : s[k] = x
    BY <1>1, ElementsAre
  <1>3. s \in [1..n -> ToSet(s)]
    BY <1>1, <1>2
  <1>4. s \in Bijection(1..n, ToSet(s))
    BY <1>2, <1>3 DEF Bijection, Injection, Surjection
  <1>5. ExistsBijection(1..n, ToSet(s))
    BY <1>4 DEF ExistsBijection
  <1>6. IsFiniteSet(1..n) /\ Cardinality(1..n) = n
    <2>1. 1 \in Int /\ n \in Int
      BY <1>1
    <2>2. IsFiniteSet(1..n) /\ Cardinality(1..n) = IF 1 > n THEN 0 ELSE n - 1 + 1
      BY <2>1, FS_Interval
    <2> QED BY <1>1, <2>2
  <1> QED BY <1>1, <1>5, <1>6, FS_Bijection

LEMMA ElementsFinite ==
    ASSUME NEW S, NEW s \in Seq(S)
    PROVE  IsFiniteSet(ToSet(s))
  <1>1. PICK n \in Nat : n = Len(s) /\ s \in [1..n -> S]
    OBVIOUS
  <1>2. \A x : x \in ToSet(s) <=> \E k \in 1..n : s[k] = x
    BY <1>1, ElementsAre
  <1>3. s \in [1..n -> ToSet(s)]
    BY <1>1, <1>2
  <1>4. s \in Surjection(1..n, ToSet(s))
    BY <1>2, <1>3 DEF Surjection
  <1>5. IsFiniteSet(1..n)
    BY <1>1, FS_Interval
  <1> QED BY <1>4, <1>5, FS_Surjection

\* Of two beginnings of one sequence the shorter begins the longer.
LEMMA BeginsBoth ==
    ASSUME NEW S, NEW s \in Seq(S), NEW t \in Seq(S), NEW v \in Seq(S), NEW w \in Seq(S),
           s \o v = t \o w, Len(s) <= Len(t)
    PROVE  IsPrefix(s, t)
  <1>1. PICK m \in Nat, n \in Nat : m = Len(s) /\ n = Len(t) /\ m <= n
    OBVIOUS
  <1>2. ASSUME NEW i \in 1..m PROVE s[i] = t[i]
    <2>1. (s \o v)[i] = s[i]
      BY <1>1, ConcatProperties
    <2>2. i \in 1..n
      BY <1>1
    <2>3. (t \o w)[i] = t[i]
      BY <1>1, <2>2, ConcatProperties
    <2> QED BY <2>1, <2>3
  <1>3. PICK a \in Seq(S) : a = SubSeq(s, 1, m) /\ Len(a) = m /\ \A i \in 1..m : a[i] = s[i]
    <2> DEFINE a == SubSeq(s, 1, m)
    <2>1. a \in Seq(S) /\ Len(a) = m /\ \A i \in 1..m : a[i] = s[i]
      BY <1>1, SubSeqProperties
    <2> HIDE DEF a
    <2> QED BY <2>1 DEF a
  <1>4. PICK b \in Seq(S) : b = SubSeq(t, 1, m) /\ Len(b) = m /\ \A i \in 1..m : b[i] = t[i]
    <2> DEFINE b == SubSeq(t, 1, m)
    <2>1. b \in Seq(S) /\ Len(b) = m /\ \A i \in 1..m : b[i] = t[i]
      BY <1>1, SubSeqProperties
    <2> HIDE DEF b
    <2> QED BY <2>1 DEF b
  <1>5. a = b
    BY <1>2, <1>3, <1>4, SeqEqual
  <1> QED BY <1>1, <1>3, <1>4, <1>5 DEF IsPrefix

-----------------------------------------------------------------------------
(* Induction, as the least counterexample, and the functions that loops     *)
(* define.                                                                  *)

LEMMA LeastNatural ==
    ASSUME NEW T \in SUBSET Nat, T # {}
    PROVE  \E x \in T : \A y \in T : x <= y
  <1>1. PICK x \in T : \A y \in T : ~(<<y, x>> \in OpToRel(<, Nat))
    BY NatLessThanWellFounded, WFMin
  <1>2. ASSUME NEW y \in T PROVE x <= y
    <2>1. ~(y < x)
      BY <1>1 DEF OpToRel
    <2> QED BY <2>1
  <1> QED BY <1>2

\* What holds before a loop and is kept by each pass holds after each.
LEMMA LoopInvariant ==
    ASSUME NEW S, NEW N \in Nat, NEW f, f[0] \in S,
           \A k \in 1..N : f[k - 1] \in S => f[k] \in S
    PROVE  \A k \in 0..N : f[k] \in S
  <1> DEFINE T == {k \in 0..N : f[k] \notin S}
  <1> SUFFICES ASSUME T # {} PROVE FALSE
    OBVIOUS
  <1>1. PICK k \in T : \A m \in T : k <= m
    <2>1. T \in SUBSET Nat
      OBVIOUS
    <2> HIDE DEF T
    <2> QED BY <2>1, LeastNatural
  <1>2. k \in 1..N /\ k - 1 \in 0..N /\ ~(k <= k - 1)
    BY <1>1
  <1> QED BY <1>1, <1>2

\* The same for what holds of the counter.
LEMMA LoopHolds ==
    ASSUME NEW N \in Nat, NEW T, 0 \in T, \A k \in 1..N : k - 1 \in T => k \in T
    PROVE  \A k \in 0..N : k \in T
  <1> DEFINE U == {k \in 0..N : k \notin T}
  <1> SUFFICES ASSUME U # {} PROVE FALSE
    OBVIOUS
  <1>1. PICK k \in U : \A m \in U : k <= m
    <2>1. U \in SUBSET Nat
      OBVIOUS
    <2> HIDE DEF U
    <2> QED BY <2>1, LeastNatural
  <1>2. k \in 1..N /\ k - 1 \in 0..N /\ ~(k <= k - 1)
    BY <1>1
  <1> QED BY <1>1, <1>2

\* The states g of a loop that runs n times from the state base, its k-th pass
\* taking the state s to step[<<k, s>>].
Runs(g, n, S, base, step) ==
    /\ g \in [0..n -> S] /\ g[0] = base
    /\ \A k \in 1..n : g[k] = step[<<k, g[k - 1]>>]

LEMMA LoopStates ==
    ASSUME NEW S, NEW base \in S, NEW step \in [Nat \X S -> S]
    PROVE  \A n \in Nat : \E g : Runs(g, n, S, base, step)
  <1> DEFINE P(n) == \E g \in [0..n -> S] :
                       g[0] = base /\ \A k \in 1..n : g[k] = step[<<k, g[k - 1]>>]
             T == {n \in Nat : ~P(n)}
  <1>0. ASSUME NEW n \in Nat, P(n) PROVE \E g : Runs(g, n, S, base, step)
    BY <1>0 DEF Runs
  <1> SUFFICES ASSUME T # {} PROVE FALSE
    BY <1>0
  <1>1. PICK n \in T : \A y \in T : n <= y
    <2>1. T \in SUBSET Nat
      OBVIOUS
    <2> HIDE DEF T
    <2> QED BY <2>1, LeastNatural
  <1>2. P(0)
    <2> DEFINE g == [k \in 0..0 |-> base]
    <2>1. g \in [0..0 -> S] /\ g[0] = base
      OBVIOUS
    <2>2. \A k \in 1..0 : g[k] = step[<<k, g[k - 1]>>]
      OBVIOUS
    <2> HIDE DEF g
    <2> QED BY <2>1, <2>2
  <1>3. n \in Nat /\ n # 0 /\ n - 1 \in Nat /\ P(n - 1)
    <2>1. n \in Nat /\ n # 0
      BY <1>2
    <2>2. n - 1 \in Nat /\ n - 1 \notin T
      BY <1>1, <2>1, SMTT(20)
    <2> QED BY <2>1, <2>2
  <1>4. PICK g \in [0..(n - 1) -> S] :
          g[0] = base /\ \A k \in 1..(n - 1) : g[k] = step[<<k, g[k - 1]>>]
    BY <1>3
  <1> DEFINE h == [k \in 0..n |-> IF k = n THEN step[<<n, g[n - 1]>>] ELSE g[k]]
  <1>5. h \in [0..n -> S] /\ h[0] = base /\ \A k \in 1..n : h[k] = step[<<k, h[k - 1]>>]
    <2>1. n \in Nat /\ n # 0
      BY <1>3
    <2>2. step[<<n, g[n - 1]>>] \in S
      <3>1. g[n - 1] \in S
        BY <2>1
      <3> QED BY <2>1, <3>1
    <2>3. \A k \in 0..n : k # n => k \in 0..(n - 1)
      BY <2>1
    <2>4. h \in [0..n -> S]
      BY <2>2, <2>3
    <2>5. h[0] = base
      BY <1>4, <2>1
    <2>6. ASSUME NEW k \in 1..n PROVE h[k] = step[<<k, h[k - 1]>>]
      <3>1. k \in 0..n /\ k - 1 \in 0..n /\ k - 1 # n
        BY <2>1
      <3>2. h[k - 1] = g[k - 1]
        BY <3>1
      <3>3. CASE k = n
        BY <3>1, <3>2, <3>3
      <3>4. CASE k # n
        <4>1. k \in 1..(n - 1)
          BY <2>1, <3>4
        <4> QED BY <1>4, <3>1, <3>2, <3>4, <4>1
      <3> QED BY <3>3, <3>4
    <2> QED BY <2>4, <2>5, <2>6
  <1> QED BY <1>5

\* A sequence from its end to its beginning.
LEMMA Reversed ==
    ASSUME NEW S, NEW s \in Seq(S)
    PROVE  \E t \in Seq(S) : /\ t = Reverse(s) /\ Len(t) = Len(s)
                             /\ \A i \in 1..Len(s) : t[i] = s[Len(s) - i + 1]
  <1> DEFINE t == Reverse(s)
  <1>1. PICK n \in Nat : n = Len(s)
    OBVIOUS
  <1>2. t = [i \in 1..n |-> s[(n - i) + 1]]
    BY <1>1 DEF Reverse
  <1>3. \A i \in 1..n : s[(n - i) + 1] \in S
    BY <1>1
  <1> HIDE DEF t
  <1>4. t \in Seq(S) /\ Len(t) = n /\ \A i \in 1..n : t[i] = s[(n - i) + 1]
    BY <1>2, <1>3
  <1> QED BY <1>1, <1>4 DEF t

\* A suffix, counted from the ends.
LEMMA SuffixIs ==
    ASSUME NEW S, NEW s \in Seq(S), NEW t \in Seq(S)
    PROVE  IsSuffix(s, t) <=>
             /\ Len(s) <= Len(t)
             /\ \A k \in 0..(Len(s) - 1) : s[Len(s) - k] = t[Len(t) - k]
  <1>1. PICK m \in Nat, n \in Nat : m = Len(s) /\ n = Len(t)
    OBVIOUS
  <1>2. PICK a \in Seq(S) : a = Reverse(s) /\ Len(a) = m /\ \A i \in 1..m : a[i] = s[m - i + 1]
    BY <1>1, Reversed
  <1>3. PICK b \in Seq(S) : b = Reverse(t) /\ Len(b) = n /\ \A i \in 1..n : b[i] = t[n - i + 1]
    BY <1>1, Reversed
  <1>4. IsSuffix(s, t) <=> m <= n /\ SubSeq(a, 1, m) = SubSeq(b, 1, m)
    BY <1>2, <1>3 DEF IsSuffix, IsPrefix
  <1>5. ASSUME m <= n
        PROVE  SubSeq(a, 1, m) = SubSeq(b, 1, m) <=> \A i \in 1..m : a[i] = b[i]
    <2>1. PICK c \in Seq(S) : c = SubSeq(a, 1, m) /\ Len(c) = m /\ \A i \in 1..m : c[i] = a[i]
      <3> DEFINE c == SubSeq(a, 1, m)
      <3>1. c \in Seq(S) /\ Len(c) = m /\ \A i \in 1..m : c[i] = a[i]
        BY <1>1, <1>2, SubSeqProperties
      <3> HIDE DEF c
      <3> QED BY <3>1 DEF c
    <2>2. PICK d \in Seq(S) : d = SubSeq(b, 1, m) /\ Len(d) = m /\ \A i \in 1..m : d[i] = b[i]
      <3> DEFINE d == SubSeq(b, 1, m)
      <3>1. d \in Seq(S) /\ Len(d) = m /\ \A i \in 1..m : d[i] = b[i]
        BY <1>1, <1>3, <1>5, SubSeqProperties
      <3> HIDE DEF d
      <3> QED BY <3>1 DEF d
    <2>3. c = d <=> \A i \in 1..m : c[i] = d[i]
      BY <2>1, <2>2, SeqEqual
    <2> QED BY <2>1, <2>2, <2>3
  <1>6. ASSUME m <= n
        PROVE  (\A i \in 1..m : a[i] = b[i]) <=> (\A k \in 0..(m - 1) : s[m - k] = t[n - k])
    <2>1. ASSUME \A i \in 1..m : a[i] = b[i], NEW k \in 0..(m - 1) PROVE s[m - k] = t[n - k]
      <3>1. /\ k + 1 \in 1..m /\ k + 1 \in 1..n
            /\ m - (k + 1) + 1 = m - k /\ n - (k + 1) + 1 = n - k
        BY <1>6
      <3>2. a[k + 1] = s[m - (k + 1) + 1] /\ b[k + 1] = t[n - (k + 1) + 1] /\ a[k + 1] = b[k + 1]
        BY <1>2, <1>3, <2>1, <3>1
      <3> QED BY <3>1, <3>2
    <2>2. ASSUME \A k \in 0..(m - 1) : s[m - k] = t[n - k], NEW i \in 1..m PROVE a[i] = b[i]
      <3>1. /\ i - 1 \in 0..(m - 1) /\ i \in 1..n
            /\ m - (i - 1) = m - i + 1 /\ n - (i - 1) = n - i + 1
        BY <1>6
      <3>2. s[m - (i - 1)] = t[n - (i - 1)]
        BY <2>2, <3>1
      <3> QED BY <1>2, <1>3, <3>1, <3>2
    <2> QED BY <2>1, <2>2
  <1> QED BY <1>1, <1>4, <1>5, <1>6

LEMMA SuffixProperties ==
    ASSUME NEW S, NEW s \in Seq(S), NEW t \in Seq(S), NEW e \in S
    PROVE  /\ IsSuffix(<<>>, t) /\ IsSuffix(t, t)
           /\ IsSuffix(s, t) => IsSuffix(Append(s, e), Append(t, e))
  <1>1. PICK m \in Nat, n \in Nat : m = Len(s) /\ n = Len(t)
    OBVIOUS
  <1>2. PICK none \in Seq(S) : none = <<>> /\ Len(none) = 0
    <2>1. <<>> \in Seq(S) /\ Len(<<>>) = 0
      OBVIOUS
    <2> QED BY <2>1
  <1>3. IsSuffix(none, t) /\ IsSuffix(t, t)
    <2>1. Len(none) <= Len(t) /\ \A k \in 0..(Len(none) - 1) : none[Len(none) - k] = t[Len(t) - k]
      BY <1>1, <1>2
    <2>2. Len(t) <= Len(t) /\ \A k \in 0..(Len(t) - 1) : t[Len(t) - k] = t[Len(t) - k]
      BY <1>1
    <2>3. IsSuffix(none, t)
      BY <2>1, SuffixIs
    <2> QED BY <2>2, <2>3, SuffixIs
  <1>4. ASSUME IsSuffix(s, t) PROVE IsSuffix(Append(s, e), Append(t, e))
    <2>1. PICK a \in Seq(S) :
            a = Append(s, e) /\ Len(a) = m + 1 /\ a[m + 1] = e /\ \A i \in 1..m : a[i] = s[i]
      <3> DEFINE a == Append(s, e)
      <3>1. a \in Seq(S) /\ Len(a) = m + 1 /\ a[m + 1] = e /\ \A i \in 1..m : a[i] = s[i]
        BY <1>1
      <3> HIDE DEF a
      <3> QED BY <3>1 DEF a
    <2>2. PICK b \in Seq(S) :
            b = Append(t, e) /\ Len(b) = n + 1 /\ b[n + 1] = e /\ \A i \in 1..n : b[i] = t[i]
      <3> DEFINE b == Append(t, e)
      <3>1. b \in Seq(S) /\ Len(b) = n + 1 /\ b[n + 1] = e /\ \A i \in 1..n : b[i] = t[i]
        BY <1>1
      <3> HIDE DEF b
      <3> QED BY <3>1 DEF b
    <2>3. m <= n /\ \A k \in 0..(m - 1) : s[m - k] = t[n - k]
      BY <1>1, <1>4, SuffixIs
    <2>4. ASSUME NEW k \in 0..m PROVE a[m + 1 - k] = b[n + 1 - k]
      <3>1. CASE k = 0
        BY <2>1, <2>2, <3>1
      <3>2. CASE k # 0
        <4>1. /\ k - 1 \in 0..(m - 1) /\ m + 1 - k \in 1..m /\ n + 1 - k \in 1..n
              /\ m - (k - 1) = m + 1 - k /\ n - (k - 1) = n + 1 - k
          BY <2>3, <3>2
        <4>2. s[m - (k - 1)] = t[n - (k - 1)]
          BY <2>3, <4>1
        <4> QED BY <2>1, <2>2, <4>1, <4>2
      <3> QED BY <3>1, <3>2
    <2>5. Len(a) <= Len(b) /\ \A k \in 0..(Len(a) - 1) : a[Len(a) - k] = b[Len(b) - k]
      <3>1. Len(a) - 1 = m /\ Len(a) = m + 1 /\ Len(b) = n + 1
        BY <2>1, <2>2
      <3>2. Len(a) <= Len(b)
        BY <2>3, <3>1
      <3>3. ASSUME NEW k \in 0..(Len(a) - 1) PROVE a[Len(a) - k] = b[Len(b) - k]
        <4>1. k \in 0..m
          BY <3>1
        <4>2. a[m + 1 - k] = b[n + 1 - k]
          BY <2>4, <4>1
        <4> QED BY <3>1, <4>2
      <3> QED BY <3>2, <3>3
    <2>6. IsSuffix(a, b)
      BY <2>5, SuffixIs
    <2> QED BY <2>1, <2>2, <2>6
  <1> QED BY <1>2, <1>3, <1>4

-----------------------------------------------------------------------------
(* What is kept of a sequence, item by item.                                 *)

KeptOne(s, K, k, so_far) == IF k \in K THEN Append(so_far, s[k]) ELSE so_far

Keeps(f, s, K) ==
    /\ f[0] = <<>>
    /\ \A k \in 1..Len(s) : f[k] = KeptOne(s, K, k, f[k - 1])

LEMMA KeptStates ==
    ASSUME NEW S, NEW s \in Seq(S), NEW K
    PROVE  \E f \in [0..Len(s) -> Seq(S)] : Keeps(f, s, K) /\ Kept(s, K) = f[Len(s)]
  <1> DEFINE P == Seq(S)
  <1>0. <<>> \in P
    OBVIOUS
  <1>1. PICK n \in Nat : n = Len(s)
    OBVIOUS
  <1>2. ASSUME NEW k \in 1..n, NEW so_far \in P PROVE KeptOne(s, K, k, so_far) \in P
    <2>1. s[k] \in S
      BY <1>1
    <2>2. Append(so_far, s[k]) \in P
      BY <2>1
    <2> QED BY <2>2 DEF KeptOne
  <1>3. PICK step \in [Nat \X P -> P] :
          \A k \in 1..n, so_far \in P : step[<<k, so_far>>] = KeptOne(s, K, k, so_far)
    <2> DEFINE t == [kp \in Nat \X P |->
                       IF kp[1] \in 1..n THEN KeptOne(s, K, kp[1], kp[2]) ELSE kp[2]]
    <2> HIDE DEF P
    <2>1. t \in [Nat \X P -> P]
      BY <1>2
    <2>2. \A k \in 1..n, so_far \in P : t[<<k, so_far>>] = KeptOne(s, K, k, so_far)
      OBVIOUS
    <2> HIDE DEF t
    <2> QED BY <2>1, <2>2
  <1> HIDE DEF P
  <1>4. PICK g \in [0..n -> P] : g[0] = <<>> /\ \A k \in 1..n : g[k] = step[<<k, g[k - 1]>>]
    <2>1. PICK base \in P : base = <<>>
      BY <1>0
    <2>2. \E g : Runs(g, n, P, base, step)
      BY LoopStates
    <2> QED BY <2>1, <2>2 DEF Runs
  <1> DEFINE F(f) == [k \in 0..n |-> IF k = 0 THEN <<>> ELSE KeptOne(s, K, k, f[k - 1])]
             kept == CHOOSE kept : kept = F(kept)
  <1>5. g = F(g)
    <2>1. ASSUME NEW k \in 1..n PROVE g[k] = KeptOne(s, K, k, g[k - 1])
      <3>1. k \in 1..n /\ k - 1 \in 0..n
        OBVIOUS
      <3>2. g[k - 1] \in P
        BY <3>1
      <3> QED BY <1>3, <1>4, <3>1, <3>2
    <2>2. \A k \in 0..n : k = 0 \/ k \in 1..n
      OBVIOUS
    <2> QED BY <1>4, <2>1, <2>2
  <1> HIDE DEF F
  <1>6. kept = F(kept)
    BY <1>5
  <1>7. Kept(s, K) = kept[n]
    BY <1>1 DEF Kept, KeptOne, F
  <1> HIDE DEF kept
  <1>8. PICK f : f = kept /\ f = F(f)
    BY <1>6
  <1>9. f[0] = <<>> /\ \A k \in 1..n : f[k] = KeptOne(s, K, k, f[k - 1])
    BY <1>8 DEF F
  <1>10. \A k \in 0..n : f[k] \in P
    <2>1. ASSUME NEW k \in 1..n, f[k - 1] \in P PROVE f[k] \in P
      BY <1>2, <1>9, <2>1
    <2> QED BY <1>0, <1>9, <2>1, LoopInvariant
  <1>11. f \in [0..n -> P]
    BY <1>8, <1>10 DEF F
  <1>12. f \in [0..Len(s) -> Seq(S)]
    BY <1>1, <1>11 DEF P
  <1>13. Keeps(f, s, K) /\ Kept(s, K) = f[Len(s)]
    BY <1>1, <1>7, <1>8, <1>9 DEF Keeps
  <1> QED BY <1>12, <1>13

LEMMA KeptNone == ASSUME NEW K PROVE Kept(<<>>, K) = <<>>
  <1>1. PICK s \in Seq({}) : s = <<>> /\ Len(s) = 0
    <2>1. <<>> \in Seq({}) /\ Len(<<>>) = 0
      OBVIOUS
    <2> QED BY <2>1
  <1>2. PICK f \in [0..Len(s) -> Seq({})] : Keeps(f, s, K) /\ Kept(s, K) = f[Len(s)]
    BY KeptStates
  <1> QED BY <1>1, <1>2 DEF Keeps

\* One more item is kept behind the others or is left out.
LEMMA KeptAppend ==
    ASSUME NEW S, NEW s \in Seq(S), NEW e \in S, NEW K, NEW L,
           \A i \in 1..Len(s) : i \in K <=> i \in L
    PROVE  /\ Kept(s, K) \in Seq(S)
           /\ Kept(Append(s, e), L) =
                IF Len(s) + 1 \in L THEN Append(Kept(s, K), e) ELSE Kept(s, K)
  <1>1. PICK n \in Nat : n = Len(s)
    OBVIOUS
  <1>2. PICK t \in Seq(S) :
          t = Append(s, e) /\ Len(t) = n + 1 /\ t[n + 1] = e /\ \A i \in 1..n : t[i] = s[i]
    <2> DEFINE t == Append(s, e)
    <2>1. t \in Seq(S) /\ Len(t) = n + 1 /\ t[n + 1] = e /\ \A i \in 1..n : t[i] = s[i]
      BY <1>1
    <2> HIDE DEF t
    <2> QED BY <2>1 DEF t
  <1>3. PICK f \in [0..n -> Seq(S)] : Keeps(f, s, K) /\ Kept(s, K) = f[n]
    BY <1>1, KeptStates
  <1>4. PICK g \in [0..(n + 1) -> Seq(S)] : Keeps(g, t, L) /\ Kept(t, L) = g[n + 1]
    <2>1. PICK g \in [0..Len(t) -> Seq(S)] : Keeps(g, t, L) /\ Kept(t, L) = g[Len(t)]
      BY KeptStates
    <2> QED BY <1>2, <2>1
  <1>5. \A k \in 0..n : g[k] = f[k]
    <2> DEFINE h == [k \in 0..n |-> g[k] = f[k]]
    <2>1. h[0] \in {TRUE}
      <3>1. f[0] = <<>> /\ g[0] = <<>> /\ 0 \in 0..n
        BY <1>3, <1>4 DEF Keeps
      <3>2. g[0] = f[0]
        BY <3>1
      <3> QED BY <3>1, <3>2
    <2>2. ASSUME NEW k \in 1..n, h[k - 1] \in {TRUE} PROVE h[k] \in {TRUE}
      <3>1. k - 1 \in 0..n /\ k \in 0..n /\ k \in 1..(n + 1)
        OBVIOUS
      <3>2. g[k - 1] = f[k - 1]
        BY <2>2, <3>1
      <3>3. f[k] = KeptOne(s, K, k, f[k - 1]) /\ g[k] = KeptOne(t, L, k, g[k - 1])
        BY <1>1, <1>2, <1>3, <1>4, <3>1 DEF Keeps
      <3>4. s[k] = t[k] /\ (k \in K <=> k \in L)
        BY <1>1, <1>2
      <3>5. g[k] = f[k]
        BY <3>2, <3>3, <3>4 DEF KeptOne
      <3> QED BY <3>1, <3>5
    <2> HIDE DEF h
    <2>3. \A k \in 0..n : h[k] \in {TRUE}
      <3>1. PICK Equal : Equal = {TRUE}
        OBVIOUS
      <3>2. h[0] \in Equal /\ \A k \in 1..n : h[k - 1] \in Equal => h[k] \in Equal
        BY <2>1, <2>2, <3>1
      <3>3. \A k \in 0..n : h[k] \in Equal
        BY <3>2, LoopInvariant
      <3> QED BY <3>1, <3>3
    <2> QED BY <2>3 DEF h
  <1>6. g[n + 1] = KeptOne(t, L, n + 1, f[n])
    <2>1. n + 1 \in 1..(n + 1) /\ n \in 0..n /\ (n + 1) - 1 = n
      OBVIOUS
    <2>2. g[n + 1] = KeptOne(t, L, n + 1, g[n])
      BY <1>2, <1>4, <2>1 DEF Keeps
    <2> QED BY <1>5, <2>1, <2>2
  <1>7. f[n] \in Seq(S)
    OBVIOUS
  <1> QED BY <1>1, <1>2, <1>3, <1>4, <1>6, <1>7 DEF KeptOne

\* Whatever is kept has what the places in K have.
LEMMA KeptIn ==
    ASSUME NEW S, NEW s \in Seq(S), NEW K, NEW T,
           \A i \in 1..Len(s) : i \in K => s[i] \in T
    PROVE  Kept(s, K) \in Seq(T)
  <1>1. PICK n \in Nat : n = Len(s)
    OBVIOUS
  <1>2. PICK f \in [0..n -> Seq(S)] : Keeps(f, s, K) /\ Kept(s, K) = f[n]
    <2>1. PICK f \in [0..Len(s) -> Seq(S)] : Keeps(f, s, K) /\ Kept(s, K) = f[Len(s)]
      BY KeptStates
    <2> QED BY <1>1, <2>1
  <1>3. PICK P : P = Seq(T)
    OBVIOUS
  <1>4. f[0] \in P
    <2>1. f[0] = <<>>
      BY <1>2 DEF Keeps
    <2>2. <<>> \in Seq(T)
      OBVIOUS
    <2> QED BY <1>3, <2>1, <2>2
  <1>5. ASSUME NEW k \in 1..n, f[k - 1] \in P PROVE f[k] \in P
    <2>1. f[k] = KeptOne(s, K, k, f[k - 1])
      BY <1>1, <1>2 DEF Keeps
    <2>2. k \in K => s[k] \in T
      BY <1>1
    <2>3. PICK t \in Seq(T) : t = f[k - 1]
      BY <1>3, <1>5
    <2>4. k \in K => Append(t, s[k]) \in Seq(T)
      BY <2>2
    <2> QED BY <1>3, <2>1, <2>3, <2>4 DEF KeptOne
  <1>6. \A k \in 0..n : f[k] \in P
    BY <1>4, <1>5, LoopInvariant
  <1> QED BY <1>2, <1>3, <1>6
=============================================================================
