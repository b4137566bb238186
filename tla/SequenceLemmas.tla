---------------------------- MODULE SequenceLemmas ----------------------------
(***************************************************************************)
(* Induction for data: what the folds over sequences of the models compute,*)
(* for sequences of every length.  FoldLeft takes its operator as a        *)
(* parameter, so a lemma about a fold is stated once for each operator,    *)
(* and gets from here, in terms of a function G that stands for the        *)
(* operator, that the fold's recursive function exists (FoldExists) and    *)
(* that its values are a chain along the sequence (FoldRun), about which   *)
(* ChainInduction proves what holds at its end.                            *)
(***************************************************************************)
EXTENDS Integers, SequencesExt, Selection, SequenceTheorems, WellFoundedInduction, TLAPS

\* Numbers are well-founded, so a set of them has a least one.
LEMMA LeastNumber ==
    ASSUME NEW S \in SUBSET Nat, S # {}
    PROVE  \E n \in S : \A m \in S : n <= m
<1>1. PICK n \in S : \A m \in S : <<m, n>> \notin OpToRel(<, Nat)
  BY NatLessThanWellFounded, WFMin
<1>2. \A m \in S : ~(m < n)
  BY <1>1 DEF OpToRel
<1> QED BY <1>2

\* Induction, with the set of the numbers that have a property in place of it.
LEMMA SetInduction ==
    ASSUME NEW S \in SUBSET Nat, 0 \in S, \A n \in S : n + 1 \in S
    PROVE  S = Nat
<1> SUFFICES ASSUME Nat \ S # {} PROVE FALSE
  OBVIOUS
<1>1. PICK n \in Nat \ S : \A m \in Nat \ S : n <= m
  BY LeastNumber
<1>2. n # 0 /\ n - 1 \in Nat
  OBVIOUS
<1>3. n - 1 \in S
  BY <1>1, <1>2
<1>4. (n - 1) + 1 \in S
  BY <1>3
<1> QED BY <1>1, <1>4

\* Induction up to a bound.
LEMMA ChainInduction ==
    ASSUME NEW n \in Nat, NEW Good, 0 \in Good, \A k \in 1..n : k - 1 \in Good => k \in Good
    PROVE  0..n \subseteq Good /\ n \in Good
<1> DEFINE S == {k \in Nat : k <= n => k \in Good}
<1>1. 0 \in S
  OBVIOUS
<1>2. ASSUME NEW k \in S PROVE k + 1 \in S
  <2>1. k \in Nat /\ (k + 1 <= n => k + 1 \in 1..n /\ k <= n /\ (k + 1) - 1 = k)
    OBVIOUS
  <2> QED BY <2>1
<1> HIDE DEF S
<1>3. S = Nat
  BY <1>1, <1>2, SetInduction DEF S
<1> QED BY <1>3 DEF S
-----------------------------------------------------------------------------
(* The largest element, by which FoldLeft walks over the positions.        *)

LEMMA MaxIs ==
    ASSUME NEW S \in SUBSET Nat, NEW n \in S, \A m \in S : m <= n
    PROVE  Max(S) = n
<1>1. Max(S) \in S /\ \A m \in S : Max(S) >= m
  BY DEF Max
<1>2. n \in Nat /\ Max(S) \in Nat /\ Max(S) <= n /\ Max(S) >= n
  BY <1>1
<1> QED BY <1>2

LEMMA MaxOfInitial ==
    ASSUME NEW k \in Nat \ {0}
    PROVE  Max(1..k) = k /\ (1..k) \ {k} = 1..(k - 1)
<1>1. Max(1..k) = k
  BY MaxIs
<1> QED BY <1>1

LEMMA MaxIsIn ==
    ASSUME NEW n \in Nat, NEW S \in SUBSET (1..n), S # {}
    PROVE  Max(S) \in S
<1> DEFINE R == {m \in Nat : n - m \in S}
<1>1. \A x \in S : x \in 1..n /\ n - x \in Nat /\ n - (n - x) = x
  OBVIOUS
<1>2. R \in SUBSET Nat /\ R # {}
  BY <1>1
<1>3. PICK r \in R : \A m \in R : r <= m
  BY <1>2, LeastNumber
<1>4. \A y \in S : n - y \in R
  BY <1>1
<1>5. \A y \in S : r <= n - y
  BY <1>3, <1>4
<1>6. n - r \in S /\ \A y \in S : y <= n - r
  BY <1>1, <1>5
<1>7. S \in SUBSET Nat
  OBVIOUS
<1> HIDE DEF R
<1>8. Max(S) = n - r
  BY <1>6, <1>7, MaxIs
<1> QED BY <1>6, <1>8
-----------------------------------------------------------------------------
(* Folds.  G[<<k, t>>] stands for op(t, seq[k]).                           *)

\* F is the recursive function of a fold over n positions.
FoldOf(n, b, G, F) ==
    F = [s \in SUBSET (1..n) |-> IF s = {} THEN b ELSE G[<<Max(s), F[s \ {Max(s)}]>>]]

\* There is one: it is extended from 1..k to 1..(k + 1).
LEMMA FoldExists ==
    ASSUME NEW T, NEW b \in T, NEW n \in Nat, NEW G \in [(1..n) \X T -> T]
    PROVE  \E F \in [SUBSET (1..n) -> T] : FoldOf(n, b, G, F)
<1> DEFINE S == {k \in Nat : k <= n => \E F \in [SUBSET (1..k) -> T] : FoldOf(k, b, G, F)}
<1>1. 0 \in S
  <2> DEFINE F == [s \in SUBSET (1..0) |-> b]
  <2>1. SUBSET (1..0) = {{}}
    OBVIOUS
  <2>2. F \in [SUBSET (1..0) -> T] /\ FoldOf(0, b, G, F)
    BY <2>1 DEF FoldOf
  <2> QED BY <2>2
<1>2. ASSUME NEW k \in S PROVE k + 1 \in S
  <2>1. k \in Nat /\ k + 1 \in Nat /\ (k + 1 <= n => k <= n)
    OBVIOUS
  <2>2. SUFFICES ASSUME k + 1 <= n
                 PROVE  \E F \in [SUBSET (1..(k + 1)) -> T] : FoldOf(k + 1, b, G, F)
    BY <2>1
  <2>3. PICK F \in [SUBSET (1..k) -> T] : FoldOf(k, b, G, F)
    BY <2>1, <2>2
  <2> DEFINE H == [s \in SUBSET (1..(k + 1)) |->
                      IF k + 1 \in s THEN G[<<k + 1, F[s \ {k + 1}]>>] ELSE F[s]]
  <2>4. ASSUME NEW s \in SUBSET (1..(k + 1))
        PROVE  /\ H[s] \in T
               /\ H[s] = IF s = {} THEN b ELSE G[<<Max(s), H[s \ {Max(s)}]>>]
    <3>1. CASE k + 1 \in s
      <4>1. Max(s) = k + 1
        BY <3>1, MaxIs
      <4>2. s \ {k + 1} \in SUBSET (1..k) /\ s \ {k + 1} \in SUBSET (1..(k + 1))
        OBVIOUS
      <4>3. H[s \ {k + 1}] = F[s \ {k + 1}] /\ F[s \ {k + 1}] \in T
        BY <4>2
      <4>4. <<k + 1, F[s \ {k + 1}]>> \in (1..n) \X T
        BY <4>3, <2>1, <2>2
      <4> QED BY <3>1, <4>1, <4>3, <4>4
    <3>2. CASE k + 1 \notin s /\ s # {}
      <4>1. s \in SUBSET (1..k)
        BY <3>2
      <4>2. H[s] = F[s] /\ F[s] \in T /\ F[s] = G[<<Max(s), F[s \ {Max(s)}]>>]
        BY <4>1, <2>3, <3>2 DEF FoldOf
      <4>3. H[s \ {Max(s)}] = F[s \ {Max(s)}]
        BY <4>1, <3>2
      <4> QED BY <3>2, <4>2, <4>3
    <3>3. CASE s = {}
      <4>1. {} \in SUBSET (1..k) /\ F[{}] = b
        BY <2>3 DEF FoldOf
      <4> QED BY <3>3, <4>1
    <3> QED BY <3>1, <3>2, <3>3
  <2>5. H \in [SUBSET (1..(k + 1)) -> T] /\ FoldOf(k + 1, b, G, H)
    BY <2>4 DEF FoldOf
  <2> QED BY <2>5
<1> HIDE DEF S
<1>3. S = Nat
  BY <1>1, <1>2, SetInduction DEF S
<1>4. n \in S /\ n <= n
  BY <1>3
<1> QED BY <1>4 DEF S

\* h[k] is the value after k elements.
ChainOf(n, b, G, h) == h[0] = b /\ \A k \in 1..n : h[k] = G[<<k, h[k - 1]>>]

\* iter takes the steps of a fold wherever its values have the fold's type.
FoldSteps(n, b, T, G, iter) ==
    /\ n \in Nat /\ b \in T /\ G \in [(1..n) \X T -> T] /\ iter[{}] = b
    /\ \A q \in SUBSET (1..n) :
          q # {} /\ iter[q \ {Max(q)}] \in T => iter[q] = G[<<Max(q), iter[q \ {Max(q)}]>>]

\* Its values on 1..k are a chain of values of that type.
LEMMA FoldRun ==
    ASSUME NEW n, NEW b, NEW T, NEW G, NEW iter, FoldSteps(n, b, T, G, iter)
    PROVE  \E h \in [0..n -> T] : ChainOf(n, b, G, h) /\ h[n] = iter[1..n]
<1>1. /\ n \in Nat /\ b \in T /\ G \in [(1..n) \X T -> T] /\ iter[{}] = b
      /\ \A q \in SUBSET (1..n) :
            q # {} /\ iter[q \ {Max(q)}] \in T => iter[q] = G[<<Max(q), iter[q \ {Max(q)}]>>]
  BY DEF FoldSteps
<1> DEFINE h == [k \in 0..n |-> iter[1..k]]
<1>2. h[0] = b
  <2>1. 1..0 = {}
    OBVIOUS
  <2> QED BY <2>1, <1>1
<1>3. ASSUME NEW k \in 1..n, h[k - 1] \in T
      PROVE  h[k] = G[<<k, h[k - 1]>>] /\ h[k] \in T
  <2>1. h[k] = iter[1..k] /\ h[k - 1] = iter[1..(k - 1)]
    BY <1>1
  <2>2. Max(1..k) = k /\ (1..k) \ {k} = 1..(k - 1) /\ 1..k \in SUBSET (1..n) /\ 1..k # {}
    <3>1. k \in Nat \ {0}
      BY <1>1
    <3> QED BY <3>1, <1>1, MaxOfInitial
  <2>3. <<k, h[k - 1]>> \in (1..n) \X T
    BY <1>3
  <2> HIDE DEF h
  <2>4. iter[1..k] = G[<<k, iter[1..(k - 1)]>>]
    BY <1>1, <1>3, <2>1, <2>2
  <2> QED BY <1>1, <2>1, <2>3, <2>4
<1>4. h = [k \in 0..n |-> h[k]] /\ h[n] = iter[1..n]
  BY <1>1
<1> HIDE DEF h
<1> DEFINE Good == {k \in 0..n : h[k] \in T}
<1>5. 0 \in Good
  BY <1>1, <1>2
<1>6. ASSUME NEW k \in 1..n, k - 1 \in Good PROVE k \in Good
  <2>1. k \in 0..n
    BY <1>1
  <2>2. h[k - 1] \in T
    BY <1>6
  <2>3. h[k] \in T
    BY <1>3, <2>2
  <2> QED BY <2>1, <2>3
<1> HIDE DEF Good
<1>7. 0..n \subseteq Good
  BY <1>1, <1>5, <1>6, ChainInduction
<1>8. \A k \in 0..n : h[k] \in T
  BY <1>7 DEF Good
<1>9. h \in [0..n -> T]
  BY <1>4, <1>8
<1>10. \A k \in 1..n : h[k] = G[<<k, h[k - 1]>>]
  BY <1>1, <1>3, <1>8
<1> QED BY <1>2, <1>4, <1>9, <1>10 DEF ChainOf
-----------------------------------------------------------------------------
(* Elements of sequences.                                                  *)

LEMMA AppendedSet ==
    ASSUME NEW T, NEW s \in Seq(T), NEW x \in T
    PROVE  Append(s, x) \in Seq(T) /\ ToSet(Append(s, x)) = ToSet(s) \union {x}
<1>1. /\ Append(s, x) \in Seq(T) /\ DOMAIN Append(s, x) = DOMAIN s \union {Len(s) + 1}
      /\ Append(s, x)[Len(s) + 1] = x /\ \A i \in DOMAIN s : Append(s, x)[i] = s[i]
  OBVIOUS
<1> QED BY <1>1 DEF ToSet

LEMMA FrontOf ==
    ASSUME NEW T, NEW s \in Seq(T), s # <<>>
    PROVE  /\ SubSeq(s, 1, Len(s) - 1) \in Seq(T)
           /\ Len(SubSeq(s, 1, Len(s) - 1)) = Len(s) - 1
           /\ \A i \in 1..(Len(s) - 1) : SubSeq(s, 1, Len(s) - 1)[i] = s[i]
           /\ s[Len(s)] \in T
<1> DEFINE m == Len(s) - 1
<1>1. m \in Int /\ m >= 0 /\ 1 \in Int /\ s[Len(s)] \in T /\ \A i \in 1..m : s[i] \in T
  OBVIOUS
<1> HIDE DEF m
<1>2. /\ SubSeq(s, 1, m) \in Seq(T)
      /\ Len(SubSeq(s, 1, m)) = IF 1 <= m THEN m - 1 + 1 ELSE 0
      /\ \A i \in 1..(m - 1 + 1) : SubSeq(s, 1, m)[i] = s[1 + i - 1]
  BY <1>1, SubSeqProperties
<1>3. Len(SubSeq(s, 1, m)) = m /\ \A i \in 1..m : SubSeq(s, 1, m)[i] = s[i]
  BY <1>1, <1>2
<1> QED BY <1>1, <1>2, <1>3 DEF m
-----------------------------------------------------------------------------
(* Concatenation.                                                          *)

\* r is s followed by t.
Joins(T, s, t, r) ==
    /\ r \in Seq(T) /\ Len(r) = Len(s) + Len(t)
    /\ \A i \in 1..(Len(s) + Len(t)) : r[i] = IF i <= Len(s) THEN s[i] ELSE t[i - Len(s)]

LEMMA ConcatIs ==
    ASSUME NEW T, NEW s \in Seq(T), NEW t \in Seq(T)
    PROVE  Joins(T, s, t, s \o t)
  BY ConcatProperties DEF Joins

LEMMA Associates ==
    ASSUME NEW T, NEW t \in Seq(T), NEW u \in Seq(T), NEW v \in Seq(T)
    PROVE  (t \o u) \o v = t \o (u \o v)
<1> DEFINE a == t \o u
           b == u \o v
           l == a \o v
           r == t \o b
<1>1. Joins(T, t, u, a) /\ Joins(T, u, v, b)
  BY ConcatIs
<1>2. a \in Seq(T) /\ b \in Seq(T)
  BY <1>1 DEF Joins
<1> HIDE DEF a, b
<1>3. Joins(T, a, v, l) /\ Joins(T, t, b, r)
  BY <1>2, ConcatIs
<1> HIDE DEF l, r
<1>4. /\ l \in Seq(T) /\ r \in Seq(T) /\ Len(l) = Len(r)
      /\ Len(l) = Len(t) + Len(u) + Len(v)
  BY <1>1, <1>3 DEF Joins
<1>5. ASSUME NEW i \in 1..(Len(t) + Len(u) + Len(v)) PROVE l[i] = r[i]
  <2>1. Len(a) = Len(t) + Len(u) /\ Len(b) = Len(u) + Len(v)
    BY <1>1 DEF Joins
  <2>2. /\ l[i] = IF i <= Len(t) + Len(u) THEN a[i] ELSE v[i - (Len(t) + Len(u))]
        /\ r[i] = IF i <= Len(t) THEN t[i] ELSE b[i - Len(t)]
    BY <1>3, <2>1 DEF Joins
  <2>3. CASE i <= Len(t)
    <3>1. i \in 1..(Len(t) + Len(u))
      BY <2>3
    <3> QED BY <1>1, <2>2, <2>3, <3>1 DEF Joins
  <2>4. CASE i > Len(t) /\ i <= Len(t) + Len(u)
    <3>1. i \in 1..(Len(t) + Len(u)) /\ i - Len(t) \in 1..(Len(u) + Len(v)) /\ i - Len(t) <= Len(u)
      BY <2>4
    <3> QED BY <1>1, <2>2, <2>4, <3>1 DEF Joins
  <2>5. CASE i > Len(t) + Len(u)
    <3>1. /\ i - Len(t) \in 1..(Len(u) + Len(v)) /\ ~(i - Len(t) <= Len(u))
          /\ (i - Len(t)) - Len(u) = i - (Len(t) + Len(u))
          /\ ~(i <= Len(t)) /\ ~(i <= Len(t) + Len(u))
      BY <2>5
    <3>2. b[i - Len(t)] = v[(i - Len(t)) - Len(u)]
      BY <1>1, <3>1 DEF Joins
    <3> QED BY <2>2, <3>1, <3>2
  <2> QED BY <2>3, <2>4, <2>5
<1>6. l = r
  BY <1>4, <1>5, SeqEqual
<1> QED BY <1>6 DEF l, r, a, b
-----------------------------------------------------------------------------
(* FlattenSeq.                                                             *)

\* h[k] is the concatenation of the first k sequences.
FlatChain(s, h) == h[0] = <<>> /\ \A k \in 1..Len(s) : h[k] = h[k - 1] \o s[k]

\* There is such a chain, because concatenation is a fold.
LEMMA FlatChainExists ==
    ASSUME NEW T, NEW s \in Seq(Seq(T))
    PROVE  \E h \in [0..Len(s) -> Seq(T)] : FlatChain(s, h)
<1> DEFINE n == Len(s)
           G == [x \in (1..n) \X Seq(T) |-> x[2] \o s[x[1]]]
<1>1. n \in Nat /\ <<>> \in Seq(T) /\ \A k \in 1..n : s[k] \in Seq(T)
  OBVIOUS
<1>2. G \in [(1..n) \X Seq(T) -> Seq(T)] /\ \A k \in 1..n, t \in Seq(T) : G[<<k, t>>] = t \o s[k]
  <2>1. \A k \in 1..n, t \in Seq(T) : t \o s[k] \in Seq(T)
    BY <1>1, ConcatProperties
  <2> HIDE DEF n
  <2> QED BY <2>1
<1> HIDE DEF G
<1>3. PICK F \in [SUBSET (1..n) -> Seq(T)] : FoldOf(n, <<>>, G, F)
  BY <1>1, <1>2, FoldExists
<1>4. FoldSteps(n, <<>>, Seq(T), G, F)
  <2>1. {} \in SUBSET (1..n) /\ F[{}] = <<>>
    BY <1>3 DEF FoldOf
  <2>2. \A q \in SUBSET (1..n) : q # {} => F[q] = G[<<Max(q), F[q \ {Max(q)}]>>]
    BY <1>3 DEF FoldOf
  <2> QED BY <1>1, <1>2, <2>1, <2>2 DEF FoldSteps
<1>5. PICK h \in [0..n -> Seq(T)] : ChainOf(n, <<>>, G, h)
  BY <1>4, FoldRun
<1>6. \A k \in 1..n : k - 1 \in 0..n
  BY <1>1
<1> QED BY <1>2, <1>5, <1>6 DEF ChainOf, FlatChain

\* It ends in the flattened sequence.
LEMMA FlattenRuns ==
    ASSUME NEW T, NEW s \in Seq(Seq(T))
    PROVE  \E h \in [0..Len(s) -> Seq(T)] : FlatChain(s, h) /\ h[Len(s)] = FlattenSeq(s)
<1>1. PICK h \in [0..Len(s) -> Seq(T)] : FlatChain(s, h)
  BY FlatChainExists
<1>2. CASE Len(s) = 0
  BY <1>1, <1>2 DEF FlatChain, FlattenSeq
<1>3. CASE Len(s) # 0
  <2> DEFINE n == Len(s)
             Eq(f) == f = [i \in 1..n |-> IF i = 1 THEN s[i] ELSE f[i - 1] \o s[i]]
             flatten == CHOOSE f : Eq(f)
             g == [i \in 1..n |-> h[i]]
  <2>1. n \in Nat \ {0} /\ \A k \in 1..n : s[k] \in Seq(T)
    BY <1>3
  <2>2. FlattenSeq(s) = flatten[n]
    BY <1>3 DEF FlattenSeq
  <2>3. Eq(g)
    <3>1. h[1] = s[1]
      <4>1. 1 \in 1..n /\ h[1] = h[0] \o s[1]
        <5>1. 1 \in 1..n /\ 1 - 1 = 0
          BY <2>1
        <5>2. h[1] = h[1 - 1] \o s[1]
          BY <1>1, <5>1 DEF FlatChain
        <5> QED BY <5>1, <5>2
      <4>2. h[0] = <<>> /\ s[1] \in Seq(T)
        BY <1>1, <2>1, <4>1 DEF FlatChain
      <4>3. <<>> \o s[1] = s[1]
        BY <4>2, ConcatEmptySeq
      <4> QED BY <4>1, <4>2, <4>3
    <3>2. ASSUME NEW i \in 1..n, i # 1 PROVE g[i] = g[i - 1] \o s[i]
      <4>1. i - 1 \in 1..n
        BY <2>1, <3>2
      <4> QED BY <1>1, <4>1 DEF FlatChain
    <3> HIDE DEF n
    <3>3. g = [i \in 1..n |-> IF i = 1 THEN s[i] ELSE g[i - 1] \o s[i]]
      BY <3>1, <3>2
    <3> QED BY <3>3
  <2>4. Eq(flatten)
    <3> HIDE DEF g, Eq
    <3> QED BY <2>3, Zenon
  <2> HIDE DEF flatten
  <2> DEFINE Good == {k \in 0..n : k = 0 \/ flatten[k] = h[k]}
  <2>5. 0 \in Good
    BY <2>1
  <2>6. ASSUME NEW k \in 1..n, k - 1 \in Good PROVE k \in Good
    <3>1. flatten[k] = IF k = 1 THEN s[k] ELSE flatten[k - 1] \o s[k]
      BY <2>4
    <3>2. h[k] = h[k - 1] \o s[k]
      BY <1>1 DEF FlatChain
    <3>3. CASE k = 1
      <4>1. h[0] = <<>> /\ s[1] \in Seq(T) /\ k - 1 = 0 /\ k \in 0..n
        BY <1>1, <2>1, <3>3 DEF FlatChain
      <4>2. <<>> \o s[1] = s[1]
        BY <4>1, ConcatEmptySeq
      <4>3. flatten[k] = h[k]
        BY <3>1, <3>2, <3>3, <4>1, <4>2
      <4> QED BY <4>1, <4>3
    <3>4. CASE k # 1
      <4>1. flatten[k - 1] = h[k - 1] /\ k \in 0..n
        BY <2>1, <2>6, <3>4
      <4>2. flatten[k] = h[k]
        BY <3>1, <3>2, <3>4, <4>1
      <4> QED BY <4>1, <4>2
    <3> QED BY <3>3, <3>4
  <2> HIDE DEF Good
  <2>7. n \in Good
    BY <2>1, <2>5, <2>6, ChainInduction
  <2>8. flatten[n] = h[n]
    BY <2>1, <2>7 DEF Good
  <2> QED BY <1>1, <2>2, <2>8
<1> QED BY <1>2, <1>3

\* What holds of the empty sequence and of two sequences together holds of
\* all of them together.
LEMMA FlattenClosed ==
    ASSUME NEW T, NEW Good \in SUBSET Seq(T), NEW s \in Seq(Good), <<>> \in Good,
           \A t, u \in Good : t \o u \in Good
    PROVE  FlattenSeq(s) \in Good
<1>1. s \in Seq(Seq(T)) /\ Len(s) \in Nat /\ \A k \in 1..Len(s) : s[k] \in Good
  <2>1. Len(s) \in Nat /\ \A k \in 1..Len(s) : s[k] \in Good
    OBVIOUS
  <2> QED BY <2>1
<1>2. PICK h \in [0..Len(s) -> Seq(T)] : FlatChain(s, h) /\ h[Len(s)] = FlattenSeq(s)
  BY <1>1, FlattenRuns
<1> DEFINE D == {k \in 0..Len(s) : h[k] \in Good}
<1>3. 0 \in D
  BY <1>1, <1>2 DEF FlatChain
<1>4. ASSUME NEW k \in 1..Len(s), k - 1 \in D PROVE k \in D
  <2>1. h[k - 1] \in Good /\ s[k] \in Good /\ k \in 0..Len(s)
    BY <1>1, <1>4
  <2>2. h[k] = h[k - 1] \o s[k]
    BY <1>2 DEF FlatChain
  <2>3. h[k] \in Good
    BY <2>1, <2>2
  <2> QED BY <2>1, <2>3
<1> HIDE DEF D
<1>5. Len(s) \in D
  BY <1>1, <1>3, <1>4, ChainInduction
<1> QED BY <1>2, <1>5 DEF D

LEMMA FlattenLength ==
    ASSUME NEW T, NEW s \in Seq(Seq(T)), NEW m \in Nat, \A i \in DOMAIN s : Len(s[i]) = m
    PROVE  FlattenSeq(s) \in Seq(T) /\ Len(FlattenSeq(s)) = Len(s) * m
<1>1. Len(s) \in Nat /\ DOMAIN s = 1..Len(s) /\ \A k \in 1..Len(s) : s[k] \in Seq(T) /\ Len(s[k]) = m
  OBVIOUS
<1>2. PICK h \in [0..Len(s) -> Seq(T)] : FlatChain(s, h) /\ h[Len(s)] = FlattenSeq(s)
  BY FlattenRuns
<1> DEFINE D == {k \in 0..Len(s) : Len(h[k]) = k * m}
<1>3. 0 \in D
  <2>1. 0 \in 0..Len(s) /\ h[0] = <<>> /\ 0 * m = 0
    BY <1>1, <1>2 DEF FlatChain
  <2> QED BY <2>1
<1>4. ASSUME NEW k \in 1..Len(s), k - 1 \in D PROVE k \in D
  <2>1. k - 1 \in 0..Len(s) /\ k \in 0..Len(s) /\ Len(h[k - 1]) = (k - 1) * m
    BY <1>1, <1>4
  <2>2. h[k] = h[k - 1] \o s[k] /\ h[k - 1] \in Seq(T) /\ s[k] \in Seq(T)
    BY <1>1, <1>2, <2>1 DEF FlatChain
  <2>3. Len(h[k]) = (k - 1) * m + m
    <3>1. Len(h[k - 1] \o s[k]) = Len(h[k - 1]) + Len(s[k])
      BY <2>2, ConcatProperties
    <3>2. Len(s[k]) = m
      BY <1>1
    <3> QED BY <2>1, <2>2, <3>1, <3>2
  <2>4. (k - 1) * m + m = k * m
    BY <1>1
  <2> QED BY <2>1, <2>3, <2>4
<1> HIDE DEF D
<1>5. Len(s) \in D
  BY <1>1, <1>3, <1>4, ChainInduction
<1> QED BY <1>1, <1>2, <1>5 DEF D

LEMMA ConcatHolds ==
    ASSUME NEW T, NEW s \in Seq(T), NEW t \in Seq(T)
    PROVE  ToSet(s) \subseteq ToSet(s \o t) /\ ToSet(t) \subseteq ToSet(s \o t)
<1>1. Joins(T, s, t, s \o t)
  BY ConcatIs
<1> DEFINE r == s \o t
<1>2. DOMAIN r = 1..(Len(s) + Len(t)) /\ Len(s) \in Nat /\ Len(t) \in Nat
  BY <1>1 DEF Joins
<1>3. ASSUME NEW i \in 1..Len(s) PROVE s[i] \in ToSet(r)
  <2>1. i \in DOMAIN r /\ r[i] = s[i]
    BY <1>1, <1>2 DEF Joins
  <2> QED BY <2>1 DEF ToSet
<1>4. ASSUME NEW i \in 1..Len(t) PROVE t[i] \in ToSet(r)
  <2>1. Len(s) + i \in DOMAIN r /\ ~(Len(s) + i <= Len(s)) /\ (Len(s) + i) - Len(s) = i
    BY <1>2
  <2>2. r[Len(s) + i] = t[i]
    BY <1>1, <1>2, <2>1 DEF Joins
  <2> QED BY <2>1, <2>2 DEF ToSet
<1> HIDE DEF r
<1>5. ToSet(s) \subseteq ToSet(r)
  <2>1. \A x \in ToSet(s) : \E i \in 1..Len(s) : x = s[i]
    BY DEF ToSet
  <2> QED BY <1>3, <2>1
<1>6. ToSet(t) \subseteq ToSet(r)
  <2>1. \A x \in ToSet(t) : \E i \in 1..Len(t) : x = t[i]
    BY DEF ToSet
  <2> QED BY <1>4, <2>1
<1> QED BY <1>5, <1>6 DEF r

LEMMA FlattenHolds ==
    ASSUME NEW T, NEW s \in Seq(Seq(T)), NEW i \in DOMAIN s
    PROVE  ToSet(s[i]) \subseteq ToSet(FlattenSeq(s))
<1>1. Len(s) \in Nat /\ DOMAIN s = 1..Len(s) /\ \A k \in 1..Len(s) : s[k] \in Seq(T)
  OBVIOUS
<1>2. PICK h \in [0..Len(s) -> Seq(T)] : FlatChain(s, h) /\ h[Len(s)] = FlattenSeq(s)
  BY FlattenRuns
<1> DEFINE D == {k \in 0..Len(s) : k >= i => ToSet(s[i]) \subseteq ToSet(h[k])}
<1>3. 0 \in D
  BY <1>1
<1>4. ASSUME NEW k \in 1..Len(s), k - 1 \in D PROVE k \in D
  <2>1. k - 1 \in 0..Len(s) /\ k \in 0..Len(s) /\ (k - 1 >= i => ToSet(s[i]) \subseteq ToSet(h[k - 1]))
    BY <1>1, <1>4
  <2>2. h[k] = h[k - 1] \o s[k] /\ h[k - 1] \in Seq(T) /\ s[k] \in Seq(T)
    BY <1>1, <1>2, <2>1 DEF FlatChain
  <2>3. ToSet(h[k - 1]) \subseteq ToSet(h[k]) /\ ToSet(s[k]) \subseteq ToSet(h[k])
    BY <2>2, ConcatHolds
  <2> QED BY <1>1, <2>1, <2>3
<1> HIDE DEF D
<1>5. Len(s) \in D
  BY <1>1, <1>3, <1>4, ChainInduction
<1> QED BY <1>1, <1>2, <1>5 DEF D
-----------------------------------------------------------------------------
(* Folds by their values.  A fold over s from b, with values in T, whose    *)
(* operator is the function G on pairs of a value and an element.          *)

FoldFn(E, T, G) == G \in [T \X E -> T]
On(G, t, x) == G[<<t, x>>]

Runs(s, b, T, G, h) ==
    /\ h \in [0..Len(s) -> T] /\ h[0] = b
    /\ \A k \in 1..Len(s) : h[k] = On(G, h[k - 1], s[k])

EndOf(s, b, T, G) == CHOOSE v : \E h : Runs(s, b, T, G, h) /\ v = h[Len(s)]

LEMMA OnType ==
    ASSUME NEW E, NEW T, NEW G, FoldFn(E, T, G)
    PROVE  \A t \in T, x \in E : On(G, t, x) \in T
BY DEF FoldFn, On

\* What holds of the empty sequence and is kept by one more element holds of
\* every sequence.
LEMMA SeqInduction ==
    ASSUME NEW E, NEW Good, <<>> \in Good,
           \A s \in Seq(E), x \in E : s \in Good => Append(s, x) \in Good
    PROVE  Seq(E) \subseteq Good
<1> DEFINE S == {n \in Nat : \A s \in Seq(E) : Len(s) = n => s \in Good}
<1>1. 0 \in S
  <2>1. \A s \in Seq(E) : Len(s) = 0 => s = <<>>
    OBVIOUS
  <2> QED BY <2>1
<1>2. ASSUME NEW n \in S PROVE n + 1 \in S
  <2>1. SUFFICES ASSUME NEW s \in Seq(E), Len(s) = n + 1 PROVE s \in Good
    OBVIOUS
  <2>2. s # <<>>
    BY <2>1
  <2>3. PICK t \in Seq(E), x \in E : s = Append(t, x)
    BY <2>2, SequenceEmptyOrAppend
  <2>4. Len(t) = n
    BY <2>1, <2>3
  <2> QED BY <2>3, <2>4
<1> HIDE DEF S
<1>3. S = Nat
  <2>1. S \in SUBSET Nat
    BY DEF S
  <2> QED BY <1>1, <1>2, <2>1, SetInduction
<1> QED BY <1>3 DEF S

\* Two runs over sequences with a common beginning have their values there in
\* common.
LEMMA RunsShare ==
    ASSUME NEW s, NEW t, NEW b, NEW T, NEW G, NEW g, NEW h, Runs(s, b, T, G, g), Runs(t, b, T, G, h),
           NEW m \in Nat, Len(s) \in Nat, Len(t) \in Nat, m <= Len(s), m <= Len(t),
           \A i \in 1..m : s[i] = t[i]
    PROVE  g[m] = h[m]
<1> DEFINE Good == {k \in 0..m : g[k] = h[k]}
<1>1. 0 \in Good
  BY DEF Runs
<1>2. ASSUME NEW k \in 1..m, k - 1 \in Good PROVE k \in Good
  <2>1. k \in 1..Len(s) /\ k \in 1..Len(t) /\ k \in 0..m /\ s[k] = t[k]
    OBVIOUS
  <2>2. g[k - 1] = h[k - 1]
    BY <1>2
  <2> QED BY <2>1, <2>2 DEF Runs
<1> HIDE DEF Good
<1>3. m \in Good
  BY <1>1, <1>2, ChainInduction
<1> QED BY <1>3 DEF Good

LEMMA RunsEnd ==
    ASSUME NEW s, NEW b, NEW T, NEW G, NEW h, Runs(s, b, T, G, h), Len(s) \in Nat
    PROVE  EndOf(s, b, T, G) = h[Len(s)] /\ h[Len(s)] \in T
<1>1. PICK g : Runs(s, b, T, G, g) /\ EndOf(s, b, T, G) = g[Len(s)]
  BY DEF EndOf
<1>2. g[Len(s)] = h[Len(s)]
  BY <1>1, RunsShare
<1>3. h[Len(s)] \in T
  BY DEF Runs
<1> QED BY <1>1, <1>2, <1>3

\* There is a run over every sequence.
LEMMA RunExists ==
    ASSUME NEW E, NEW s \in Seq(E), NEW T, NEW b \in T, NEW G, FoldFn(E, T, G)
    PROVE  \E h : Runs(s, b, T, G, h)
<1> DEFINE Good == {t \in Seq(E) : \E h : Runs(t, b, T, G, h)}
<1>1. <<>> \in Good
  <2> DEFINE h == [k \in 0..0 |-> b]
  <2>1. <<>> \in Seq(E) /\ Len(<<>>) = 0
    OBVIOUS
  <2>2. Runs(<<>>, b, T, G, h)
    BY <2>1 DEF Runs
  <2> QED BY <2>1, <2>2
<1>2. ASSUME NEW t \in Seq(E), NEW x \in E, t \in Good PROVE Append(t, x) \in Good
  <2> DEFINE n == Len(t)
             u == Append(t, x)
  <2>1. PICK g : Runs(t, b, T, G, g)
    BY <1>2
  <2>2. /\ n \in Nat /\ Len(u) = n + 1 /\ u \in Seq(E) /\ u[n + 1] = x
        /\ \A i \in 1..n : u[i] = t[i]
    BY AppendProperties
  <2>3. g \in [0..n -> T] /\ g[0] = b /\ \A k \in 1..n : g[k] = On(G, g[k - 1], t[k])
    BY <2>1 DEF Runs
  <2> HIDE DEF n, u
  <2> DEFINE h == [k \in 0..(n + 1) |-> IF k = n + 1 THEN On(G, g[n], x) ELSE g[k]]
  <2>4. g[n] \in T /\ On(G, g[n], x) \in T
    <3>1. g[n] \in T
      BY <2>2, <2>3
    <3> QED BY <3>1, OnType
  <2>5. h \in [0..(n + 1) -> T] /\ h[0] = b
    BY <2>2, <2>3, <2>4
  <2>6. ASSUME NEW k \in 1..(n + 1) PROVE h[k] = On(G, h[k - 1], u[k])
    <3>1. k - 1 \in 0..n /\ k - 1 # n + 1 /\ k - 1 \in 0..(n + 1)
      BY <2>2
    <3>2. h[k - 1] = g[k - 1]
      BY <3>1
    <3>3. CASE k = n + 1
      <4>1. k - 1 = n
        BY <2>2, <3>3
      <4>2. h[k] = On(G, g[n], x) /\ h[k - 1] = g[n] /\ u[k] = x
        BY <2>2, <3>2, <3>3, <4>1
      <4> HIDE DEF h
      <4> QED BY <4>2
    <3>4. CASE k # n + 1
      <4>1. k \in 1..n /\ k \in 0..(n + 1)
        BY <2>2, <3>4
      <4> QED BY <2>2, <2>3, <3>2, <3>4, <4>1
    <3> QED BY <3>3, <3>4
  <2> HIDE DEF h
  <2>7. Runs(u, b, T, G, h)
    BY <2>2, <2>5, <2>6 DEF Runs
  <2> QED BY <2>2, <2>7 DEF u
<1> HIDE DEF Good
<1>3. Seq(E) \subseteq Good
  BY <1>1, <1>2, SeqInduction
<1> QED BY <1>3 DEF Good

LEMMA EndType ==
    ASSUME NEW E, NEW s \in Seq(E), NEW T, NEW b \in T, NEW G, FoldFn(E, T, G)
    PROVE  EndOf(s, b, T, G) \in T
<1>1. PICK h : Runs(s, b, T, G, h)
  BY RunExists
<1>2. Len(s) \in Nat
  OBVIOUS
<1> QED BY <1>1, <1>2, RunsEnd

LEMMA EndEmpty ==
    ASSUME NEW T, NEW b \in T, NEW G
    PROVE  EndOf(<<>>, b, T, G) = b
<1> DEFINE h == [k \in 0..0 |-> b]
<1>1. Len(<<>>) = 0 /\ h[0] = b
  OBVIOUS
<1>2. Runs(<<>>, b, T, G, h)
  BY <1>1 DEF Runs
<1> HIDE DEF h
<1>3. EndOf(<<>>, b, T, G) = h[Len(<<>>)]
  BY <1>1, <1>2, RunsEnd
<1> QED BY <1>1, <1>3

LEMMA EndAppend ==
    ASSUME NEW E, NEW s \in Seq(E), NEW x \in E, NEW T, NEW b \in T, NEW G, FoldFn(E, T, G)
    PROVE  EndOf(Append(s, x), b, T, G) = On(G, EndOf(s, b, T, G), x)
<1> DEFINE u == Append(s, x)
           n == Len(s)
<1>1. /\ n \in Nat /\ Len(u) = n + 1 /\ u \in Seq(E) /\ u[n + 1] = x
      /\ \A i \in 1..n : u[i] = s[i]
  BY AppendProperties
<1>2. PICK h : Runs(u, b, T, G, h)
  BY <1>1, RunExists
<1>3. PICK g : Runs(s, b, T, G, g)
  BY RunExists
<1>4. EndOf(u, b, T, G) = h[n + 1] /\ EndOf(s, b, T, G) = g[n]
  <2>1. EndOf(s, b, T, G) = g[n]
    BY <1>1, <1>3, RunsEnd
  <2> HIDE DEF u, n
  <2>2. Len(u) \in Nat /\ Len(u) = n + 1
    BY <1>1
  <2>3. EndOf(u, b, T, G) = h[Len(u)]
    BY <1>2, <2>2, RunsEnd
  <2> QED BY <2>1, <2>2, <2>3
<1>5. g[n] = h[n]
  <2> HIDE DEF n, u
  <2>1. n <= n + 1 /\ n <= n /\ n + 1 \in Nat /\ n = Len(s)
    BY <1>1 DEF n
  <2>2. Len(s) \in Nat /\ Len(u) \in Nat /\ n <= Len(s) /\ n <= Len(u) /\ \A i \in 1..n : s[i] = u[i]
    BY <1>1, <2>1
  <2> QED BY <1>1, <1>2, <1>3, <2>2, RunsShare
<1>6. h[n + 1] = On(G, h[n], x)
  <2>1. n + 1 \in 1..Len(u) /\ (n + 1) - 1 = n
    BY <1>1
  <2>2. h[n + 1] = On(G, h[(n + 1) - 1], u[n + 1])
    BY <1>2, <2>1 DEF Runs
  <2> QED BY <1>1, <2>1, <2>2
<1> QED BY <1>4, <1>5, <1>6

\* FoldLeft's function takes, for each set of positions of s, the step of its
\* largest one.
IterOf(F, s, b, T, G) ==
    /\ F \in [SUBSET (1..Len(s)) -> T]
    /\ \A q \in SUBSET (1..Len(s)) :
          F[q] = IF q = {} THEN b ELSE On(G, F[q \ {Max(q)}], s[Max(q)])

Iterates(iter, s, b, T, G) ==
    /\ iter[{}] = b
    /\ \A q \in SUBSET (1..Len(s)) :
          q # {} /\ iter[q \ {Max(q)}] \in T => iter[q] = On(G, iter[q \ {Max(q)}], s[Max(q)])

\* FoldLeft's function, wherever its values have the fold's type.
LEMMA IterEnds ==
    ASSUME NEW E, NEW s \in Seq(E), NEW T, NEW b \in T, NEW G, FoldFn(E, T, G), NEW iter, Iterates(iter, s, b, T, G)
    PROVE  iter[1..Len(s)] = EndOf(s, b, T, G)
<1> DEFINE n == Len(s)
           H == [p \in (1..n) \X T |-> On(G, p[2], s[p[1]])]
<1>1. n \in Nat /\ \A k \in 1..n : s[k] \in E
  OBVIOUS
<1>2. H \in [(1..n) \X T -> T] /\ \A k \in 1..n, t \in T : H[<<k, t>>] = On(G, t, s[k])
  <2>1. \A k \in 1..n, t \in T : On(G, t, s[k]) \in T
    BY <1>1, OnType
  <2> HIDE DEF n
  <2> QED BY <2>1
<1>3. FoldSteps(n, b, T, H, iter)
  <2>1. ASSUME NEW q \in SUBSET (1..n), q # {}, iter[q \ {Max(q)}] \in T
        PROVE  iter[q] = H[<<Max(q), iter[q \ {Max(q)}]>>]
    <3>1. Max(q) \in 1..n
      BY <1>1, <2>1, MaxIsIn
    <3>2. iter[q] = On(G, iter[q \ {Max(q)}], s[Max(q)])
      BY <2>1 DEF Iterates
    <3> QED BY <1>2, <2>1, <3>1, <3>2
  <2>2. iter[{}] = b
    BY DEF Iterates
  <2> QED BY <1>1, <1>2, <2>1, <2>2 DEF FoldSteps
<1> HIDE DEF H
<1>4. PICK h \in [0..n -> T] : ChainOf(n, b, H, h) /\ h[n] = iter[1..n]
  BY <1>3, FoldRun
<1>5. Runs(s, b, T, G, h)
  <2>1. \A k \in 1..n : k - 1 \in 0..n
    BY <1>1
  <2>2. \A k \in 1..n : h[k] = On(G, h[k - 1], s[k])
    BY <1>2, <1>4, <2>1 DEF ChainOf
  <2> QED BY <1>4, <2>2 DEF Runs, ChainOf
<1> QED BY <1>1, <1>4, <1>5, RunsEnd

\* There is a function that FoldLeft could choose.
LEMMA IterExists ==
    ASSUME NEW E, NEW s \in Seq(E), NEW T, NEW b \in T, NEW G, FoldFn(E, T, G)
    PROVE  \E F : IterOf(F, s, b, T, G)
<1> DEFINE n == Len(s)
           H == [p \in (1..n) \X T |-> On(G, p[2], s[p[1]])]
<1>1. n \in Nat /\ \A k \in 1..n : s[k] \in E
  OBVIOUS
<1>2. H \in [(1..n) \X T -> T] /\ \A k \in 1..n, t \in T : H[<<k, t>>] = On(G, t, s[k])
  <2>1. \A k \in 1..n, t \in T : On(G, t, s[k]) \in T
    BY <1>1, OnType
  <2> HIDE DEF n
  <2> QED BY <2>1
<1> HIDE DEF H
<1>3. PICK F \in [SUBSET (1..n) -> T] : FoldOf(n, b, H, F)
  BY <1>1, <1>2, FoldExists
<1>4. ASSUME NEW q \in SUBSET (1..n)
      PROVE  F[q] = IF q = {} THEN b ELSE On(G, F[q \ {Max(q)}], s[Max(q)])
  <2>1. F[q] = IF q = {} THEN b ELSE H[<<Max(q), F[q \ {Max(q)}]>>]
    BY <1>3 DEF FoldOf
  <2>2. q # {} => Max(q) \in 1..n /\ F[q \ {Max(q)}] \in T
    BY <1>1, MaxIsIn
  <2> QED BY <1>2, <2>1, <2>2
<1>5. IterOf(F, s, b, T, G)
  BY <1>3, <1>4 DEF IterOf
<1> QED BY <1>5

\* The value of a fold over one more element.
Unfolds(E, b, T, G) ==
    /\ EndOf(<<>>, b, T, G) = b
    /\ \A s \in Seq(E) : EndOf(s, b, T, G) \in T
    /\ \A s \in Seq(E), x \in E :
          EndOf(Append(s, x), b, T, G) = On(G, EndOf(s, b, T, G), x)

LEMMA EndUnfolds ==
    ASSUME NEW E, NEW T, NEW b \in T, NEW G, FoldFn(E, T, G)
    PROVE  Unfolds(E, b, T, G)
<1>1. EndOf(<<>>, b, T, G) = b
  BY EndEmpty
<1>2. ASSUME NEW s \in Seq(E) PROVE EndOf(s, b, T, G) \in T
  BY EndType
<1>3. ASSUME NEW s \in Seq(E), NEW x \in E
      PROVE  EndOf(Append(s, x), b, T, G) = On(G, EndOf(s, b, T, G), x)
  BY EndAppend
<1> QED BY <1>1, <1>2, <1>3 DEF Unfolds

-----------------------------------------------------------------------------
(* Concatenation and filters, one element at a time.                       *)

LEMMA ConcatAppend ==
    ASSUME NEW E, NEW s \in Seq(E), NEW t \in Seq(E), NEW x \in E
    PROVE  s \o Append(t, x) = Append(s \o t, x) /\ s \o t \in Seq(E)
<1>1. s \o t \in Seq(E) /\ <<x>> \in Seq(E)
  BY ConcatProperties
<1>2. Append(t, x) = t \o <<x>>
  BY AppendIsConcat
<1>3. Append(s \o t, x) = (s \o t) \o <<x>>
  BY <1>1, AppendIsConcat
<1> QED BY <1>1, <1>2, <1>3, ConcatAssociative

FlattenFacts(E) ==
    /\ FlattenSeq(<<>>) = <<>>
    /\ \A s \in Seq(Seq(E)) : FlattenSeq(s) \in Seq(E)
    /\ \A s \in Seq(Seq(E)), t \in Seq(E) : FlattenSeq(Append(s, t)) = FlattenSeq(s) \o t

LEMMA FlattenUnfolds == \A E : FlattenFacts(E)
<1> TAKE E
<1> DEFINE T == Seq(E)
           G == [p \in T \X T |-> p[1] \o p[2]]
           b == <<>>
<1>1. b \in T /\ \A t, u \in T : t \o u \in T
  BY ConcatProperties
<1>2. FoldFn(T, T, G) /\ \A t, u \in T : On(G, t, u) = t \o u
  BY <1>1 DEF FoldFn, On
<1> HIDE DEF G, b
<1>3. ASSUME NEW s \in Seq(T) PROVE FlattenSeq(s) = EndOf(s, b, T, G)
  <2>1. PICK h \in [0..Len(s) -> T] : FlatChain(s, h) /\ h[Len(s)] = FlattenSeq(s)
    BY FlattenRuns
  <2>2. Len(s) \in Nat /\ \A k \in 1..Len(s) : s[k] \in T /\ k - 1 \in 0..Len(s)
    OBVIOUS
  <2>3. h[0] = b /\ \A k \in 1..Len(s) : h[k] = h[k - 1] \o s[k]
    BY <2>1 DEF FlatChain, b
  <2>4. \A k \in 1..Len(s) : h[k] = On(G, h[k - 1], s[k])
    BY <1>2, <2>1, <2>2, <2>3
  <2>5. Runs(s, b, T, G, h)
    BY <2>1, <2>3, <2>4 DEF Runs
  <2> QED BY <2>1, <2>2, <2>5, RunsEnd
<1> HIDE DEF T
<1>4. Unfolds(T, b, T, G)
  BY <1>1, <1>2, EndUnfolds
<1>5. /\ EndOf(<<>>, b, T, G) = b
      /\ \A s \in Seq(T) : EndOf(s, b, T, G) \in T
      /\ \A s \in Seq(T), x \in T : EndOf(Append(s, x), b, T, G) = On(G, EndOf(s, b, T, G), x)
  BY <1>4 DEF Unfolds
<1>6. <<>> \in Seq(T) /\ \A s \in Seq(T), x \in T : Append(s, x) \in Seq(T)
  OBVIOUS
<1>7. FlattenSeq(<<>>) = b /\ \A s \in Seq(T) : FlattenSeq(s) \in T
  BY <1>3, <1>5, <1>6
<1>8. ASSUME NEW s \in Seq(T), NEW t \in T PROVE FlattenSeq(Append(s, t)) = FlattenSeq(s) \o t
  <2>1. FlattenSeq(Append(s, t)) = EndOf(Append(s, t), b, T, G) /\ FlattenSeq(s) = EndOf(s, b, T, G)
    BY <1>3, <1>6
  <2> QED BY <1>2, <1>5, <2>1
<1> QED BY <1>7, <1>8 DEF FlattenFacts, T, b

OnlyFacts(E, S) ==
    /\ Only(<<>>, S) = <<>>
    /\ \A s \in Seq(E) : Only(s, S) \in Seq(E)
    /\ \A s \in Seq(E), x \in E :
          Only(Append(s, x), S) =
             IF x \in S THEN Append(Only(s, S), x) ELSE Only(s, S)

LEMMA OnlyUnfolds ==
    ASSUME NEW E, NEW S
    PROVE  OnlyFacts(E, S)
<1> DEFINE Step(t, x) == IF x \in S THEN Append(t, x) ELSE t
           T == Seq(E)
           E1 == E
           b == <<>>
           G == [p \in T \X E1 |-> Step(p[1], p[2])]
<1>1. b \in T
  OBVIOUS
<1>2. \A t \in T, x \in E1 : Step(t, x) \in T
  BY AppendProperties
<1> HIDE DEF Step, T, E1, b
<1>3. \A t \in T, x \in E1 : On(G, t, x) = Step(t, x)
  BY <1>2 DEF On
<1>4. FoldFn(E1, T, G)
  BY <1>2 DEF FoldFn
<1> HIDE DEF G
<1>5. ASSUME NEW s \in Seq(E1) PROVE Only(s, S) = EndOf(s, b, T, G)
  <2> DEFINE len == Len(s)
             Eq(f) == f = [i \in 0..len |-> IF i = 0 THEN b ELSE Step(f[i - 1], s[i])]
             kept == CHOOSE f : Eq(f)
  <2>1. len \in Nat /\ DOMAIN s = 1..len /\ \A i \in 1..len : s[i] \in E1
    OBVIOUS
  <2>2. Only(s, S) = kept[len]
    BY DEF Only, Step, b
  <2> HIDE DEF len
  <2>3. PICK h : Runs(s, b, T, G, h)
    BY <1>1, <1>4, RunExists
  <2>4. /\ h \in [0..len -> T] /\ h[0] = b
        /\ \A i \in 1..len : h[i] = Step(h[i - 1], s[i])
    <3>1. h \in [0..len -> T] /\ h[0] = b /\ \A i \in 1..len : h[i] = On(G, h[i - 1], s[i])
      BY <2>3 DEF Runs, len
    <3>2. \A i \in 1..len : h[i - 1] \in T /\ s[i] \in E1
      BY <2>1, <3>1
    <3> QED BY <1>3, <3>1, <3>2
  <2>5. Eq(h)
    <3>1. \A i \in 0..len : i = 0 \/ i \in 1..len
      BY <2>1
    <3> QED BY <2>4, <3>1
  <2>6. Eq(kept)
    BY <2>5, Zenon
  <2> HIDE DEF kept
  <2> DEFINE Good == {i \in 0..len : kept[i] = h[i]}
  <2>7. 0 \in Good
    BY <2>1, <2>4, <2>6
  <2>8. ASSUME NEW i \in 1..len, i - 1 \in Good PROVE i \in Good
    <3>1. i \in 0..len /\ i # 0 /\ kept[i - 1] = h[i - 1]
      BY <2>1, <2>8
    <3> QED BY <2>4, <2>6, <3>1
  <2> HIDE DEF Good
  <2>9. len \in Good
    BY <2>1, <2>7, <2>8, ChainInduction
  <2>10. EndOf(s, b, T, G) = h[len]
    BY <2>1, <2>3, RunsEnd DEF len
  <2> QED BY <2>2, <2>9, <2>10 DEF Good
<1>6. <<>> \in Seq(E1) /\ \A s \in Seq(E1), x \in E1 : Append(s, x) \in Seq(E1)
  OBVIOUS
<1>7. Unfolds(E1, b, T, G)
  BY <1>1, <1>4, EndUnfolds
<1>8. /\ EndOf(<<>>, b, T, G) = b
      /\ \A s \in Seq(E1) : EndOf(s, b, T, G) \in T
      /\ \A s \in Seq(E1), x \in E1 : EndOf(Append(s, x), b, T, G) = On(G, EndOf(s, b, T, G), x)
  BY <1>7 DEF Unfolds
<1>9. Only(<<>>, S) = b /\ \A s \in Seq(E1) : Only(s, S) \in T
  BY <1>5, <1>6, <1>8
<1>10. ASSUME NEW s \in Seq(E1), NEW x \in E1 PROVE Only(Append(s, x), S) = Step(Only(s, S), x)
  <2>1. Only(Append(s, x), S) = EndOf(Append(s, x), b, T, G) /\ Only(s, S) = EndOf(s, b, T, G)
    BY <1>5, <1>6
  <2> QED BY <1>3, <1>8, <2>1
<1> QED BY <1>9, <1>10 DEF OnlyFacts, Step, T, E1, b

\* What is kept is in the set, and what is in the set is kept.
LEMMA OnlyHolds ==
    ASSUME NEW E, NEW s \in Seq(E), NEW S
    PROVE  Only(s, S) \in Seq(E) /\ ToSet(Only(s, S)) = ToSet(s) \cap S
<1> DEFINE Good == {t \in Seq(E) : ToSet(Only(t, S)) = ToSet(t) \cap S}
<1>9. OnlyFacts(E, S)
  BY OnlyUnfolds
<1>1. <<>> \in Good
  <2>1. ToSet(<<>>) = {} /\ <<>> \in Seq(E)
    BY DEF ToSet
  <2>2. Only(<<>>, S) = <<>>
    BY <1>9 DEF OnlyFacts
  <2> QED BY <2>1, <2>2
<1>2. ASSUME NEW t \in Seq(E), NEW x \in E, t \in Good PROVE Append(t, x) \in Good
  <2>1. Only(t, S) \in Seq(E) /\ Append(t, x) \in Seq(E)
    BY <1>9 DEF OnlyFacts
  <2>2. Only(Append(t, x), S) = IF x \in S THEN Append(Only(t, S), x) ELSE Only(t, S)
    BY <1>9 DEF OnlyFacts
  <2>3. ToSet(Append(t, x)) = ToSet(t) \union {x}
    BY AppendedSet
  <2>4. ToSet(Append(Only(t, S), x)) = ToSet(Only(t, S)) \union {x}
    BY <2>1, AppendedSet
  <2>5. ToSet(Only(t, S)) = ToSet(t) \cap S
    BY <1>2
  <2>6. CASE x \in S
    BY <2>1, <2>2, <2>3, <2>4, <2>5, <2>6
  <2>7. CASE x \notin S
    BY <2>1, <2>2, <2>3, <2>5, <2>7
  <2> QED BY <2>6, <2>7
<1> HIDE DEF Good
<1>3. Seq(E) \subseteq Good
  BY <1>1, <1>2, SeqInduction
<1>4. Only(s, S) \in Seq(E)
  BY <1>9 DEF OnlyFacts
<1> QED BY <1>3, <1>4 DEF Good

LEMMA OnlyConcat ==
    ASSUME NEW E, NEW s \in Seq(E), NEW t \in Seq(E), NEW S
    PROVE  Only(s \o t, S) = Only(s, S) \o Only(t, S)
<1> DEFINE a == Only(s, S)
           Good == {u \in Seq(E) : Only(s \o u, S) = a \o Only(u, S)}
<1>9. OnlyFacts(E, S)
  BY OnlyUnfolds
<1>1. a \in Seq(E)
  BY <1>9 DEF OnlyFacts
<1> HIDE DEF a
<1>2. <<>> \in Good
  <2>1. s \o <<>> = s /\ a \o <<>> = a /\ <<>> \in Seq(E)
    BY <1>1, ConcatEmptySeq
  <2>2. Only(<<>>, S) = <<>>
    BY <1>9 DEF OnlyFacts
  <2> QED BY <2>1, <2>2 DEF a
<1>3. ASSUME NEW u \in Seq(E), NEW x \in E, u \in Good PROVE Append(u, x) \in Good
  <2> DEFINE v == s \o u
             k == Only(u, S)
  <2>1. s \o Append(u, x) = Append(v, x) /\ v \in Seq(E)
    BY ConcatAppend
  <2>2. k \in Seq(E) /\ Only(Append(u, x), S) = IF x \in S THEN Append(k, x) ELSE k
    BY <1>9 DEF OnlyFacts
  <2>3. Only(v, S) = a \o k
    BY <1>3
  <2> HIDE DEF v, k
  <2>4. Only(Append(v, x), S) = IF x \in S THEN Append(Only(v, S), x) ELSE Only(v, S)
    BY <1>9, <2>1 DEF OnlyFacts
  <2>5. a \o Append(k, x) = Append(a \o k, x)
    BY <1>1, <2>2, ConcatAppend
  <2>6. Only(s \o Append(u, x), S) = a \o Only(Append(u, x), S)
    BY <2>1, <2>2, <2>3, <2>4, <2>5
  <2>7. Append(u, x) \in Seq(E)
    OBVIOUS
  <2> QED BY <2>6, <2>7
<1> HIDE DEF Good
<1>4. Seq(E) \subseteq Good
  BY <1>2, <1>3, SeqInduction
<1>5. t \in Good
  BY <1>4
<1> QED BY <1>5 DEF Good, a

\* Only depends on which elements of the sequence are in the set.
LEMMA OnlySame ==
    ASSUME NEW E, NEW s \in Seq(E), NEW S, NEW R, \A x \in ToSet(s) : x \in S <=> x \in R
    PROVE  Only(s, S) = Only(s, R)
<1> DEFINE Good == {t \in Seq(E) : (\A x \in ToSet(t) : x \in S <=> x \in R) => Only(t, S) = Only(t, R)}
<1>9. OnlyFacts(E, S) /\ OnlyFacts(E, R)
  BY OnlyUnfolds
<1>1. <<>> \in Good
  <2>1. Only(<<>>, S) = <<>> /\ Only(<<>>, R) = <<>>
    BY <1>9 DEF OnlyFacts
  <2> QED BY <2>1
<1>2. ASSUME NEW t \in Seq(E), NEW x \in E, t \in Good PROVE Append(t, x) \in Good
  <2>1. Append(t, x) \in Seq(E) /\ ToSet(Append(t, x)) = ToSet(t) \union {x}
    BY AppendedSet
  <2>2. Only(Append(t, x), S) = IF x \in S THEN Append(Only(t, S), x) ELSE Only(t, S)
    BY <1>9 DEF OnlyFacts
  <2>3. Only(Append(t, x), R) = IF x \in R THEN Append(Only(t, R), x) ELSE Only(t, R)
    BY <1>9 DEF OnlyFacts
  <2>4. ASSUME \A y \in ToSet(Append(t, x)) : y \in S <=> y \in R
        PROVE  Only(Append(t, x), S) = Only(Append(t, x), R)
    <3>1. Only(t, S) = Only(t, R) /\ (x \in S <=> x \in R)
      BY <1>2, <2>1, <2>4
    <3> QED BY <2>2, <2>3, <3>1
  <2> QED BY <2>1, <2>4
<1> HIDE DEF Good
<1>3. Seq(E) \subseteq Good
  BY <1>1, <1>2, SeqInduction
<1> QED BY <1>3 DEF Good

LEMMA OnlyOnly ==
    ASSUME NEW E, NEW s \in Seq(E), NEW S, NEW R
    PROVE  Only(Only(s, S), R) = Only(s, S \cap R)
<1> DEFINE B == S \cap R
           Good == {t \in Seq(E) : Only(Only(t, S), R) = Only(t, B)}
<1>8. \A x : x \in B <=> x \in S /\ x \in R
  OBVIOUS
<1> HIDE DEF B
<1>9. OnlyFacts(E, S) /\ OnlyFacts(E, R) /\ OnlyFacts(E, B)
  BY OnlyUnfolds
<1>1. <<>> \in Good
  <2>1. Only(<<>>, S) = <<>> /\ Only(<<>>, R) = <<>> /\ Only(<<>>, B) = <<>>
    BY <1>9 DEF OnlyFacts
  <2> QED BY <2>1
<1>2. ASSUME NEW t \in Seq(E), NEW x \in E, t \in Good PROVE Append(t, x) \in Good
  <2> DEFINE k == Only(t, S)
  <2>1. k \in Seq(E) /\ Only(Append(t, x), S) = IF x \in S THEN Append(k, x) ELSE k
    BY <1>9 DEF OnlyFacts
  <2>2. Only(Append(t, x), B) = IF x \in B THEN Append(Only(t, B), x) ELSE Only(t, B)
    BY <1>9 DEF OnlyFacts
  <2>3. Only(k, R) = Only(t, B)
    BY <1>2
  <2> HIDE DEF k
  <2>4. Only(Append(k, x), R) = IF x \in R THEN Append(Only(k, R), x) ELSE Only(k, R)
    BY <1>9, <2>1 DEF OnlyFacts
  <2>5. Only(Only(Append(t, x), S), R) = Only(Append(t, x), B)
    <3>1. CASE x \in S
      <4>1. Only(Append(t, x), S) = Append(k, x)
        BY <2>1, <3>1
      <4>2. Only(Append(k, x), R) = Only(Append(t, x), B)
        BY <1>8, <2>2, <2>3, <2>4, <3>1
      <4> QED BY <4>1, <4>2
    <3>2. CASE x \notin S
      <4>1. Only(Append(t, x), S) = k /\ Only(Append(t, x), B) = Only(t, B)
        BY <1>8, <2>1, <2>2, <3>2
      <4> QED BY <2>3, <4>1
    <3> QED BY <3>1, <3>2
  <2>6. Append(t, x) \in Seq(E)
    OBVIOUS
  <2> QED BY <2>5, <2>6
<1> HIDE DEF Good
<1>3. Seq(E) \subseteq Good
  BY <1>1, <1>2, SeqInduction
<1> QED BY <1>3 DEF Good, B

LEMMA OnlyAll ==
    ASSUME NEW E, NEW s \in Seq(E), NEW S, ToSet(s) \subseteq S
    PROVE  Only(s, S) = s
<1> DEFINE Good == {t \in Seq(E) : ToSet(t) \subseteq S => Only(t, S) = t}
<1>9. OnlyFacts(E, S)
  BY OnlyUnfolds
<1>1. <<>> \in Good
  <2>1. Only(<<>>, S) = <<>>
    BY <1>9 DEF OnlyFacts
  <2> QED BY <2>1
<1>2. ASSUME NEW t \in Seq(E), NEW x \in E, t \in Good PROVE Append(t, x) \in Good
  <2>1. Append(t, x) \in Seq(E) /\ ToSet(Append(t, x)) = ToSet(t) \union {x}
    BY AppendedSet
  <2>2. Only(Append(t, x), S) = IF x \in S THEN Append(Only(t, S), x) ELSE Only(t, S)
    BY <1>9 DEF OnlyFacts
  <2>3. ASSUME ToSet(Append(t, x)) \subseteq S PROVE Only(Append(t, x), S) = Append(t, x)
    <3>1. Only(t, S) = t /\ x \in S
      BY <1>2, <2>1, <2>3
    <3> QED BY <2>2, <3>1
  <2> QED BY <2>1, <2>3
<1> HIDE DEF Good
<1>3. Seq(E) \subseteq Good
  BY <1>1, <1>2, SeqInduction
<1> QED BY <1>3 DEF Good

LEMMA SeqOfSubset ==
    ASSUME NEW E, NEW D, NEW s \in Seq(E), ToSet(s) \subseteq D
    PROVE  s \in Seq(D)
<1>1. Len(s) \in Nat /\ s \in [1..Len(s) -> E] /\ ToSet(s) = {s[i] : i \in 1..Len(s)}
  BY DEF ToSet
<1>2. s \in [1..Len(s) -> D]
  BY <1>1
<1> QED BY <1>1, <1>2, SeqDef

LEMMA OnlyIn ==
    ASSUME NEW E, NEW s \in Seq(E), NEW S
    PROVE  Only(s, S) \in Seq(S)
BY OnlyHolds, SeqOfSubset

LEMMA OnlyMore ==
    ASSUME NEW E, NEW s \in Seq(E), NEW x \in E, NEW S
    PROVE  Only(Append(s, x), S) = IF x \in S THEN Append(Only(s, S), x) ELSE Only(s, S)
<1>1. OnlyFacts(E, S)
  BY OnlyUnfolds
<1> QED BY <1>1 DEF OnlyFacts

LEMMA OnlyNone == \A S : Only(<<>>, S) = <<>>
<1> TAKE S
<1>1. OnlyFacts({}, S)
  BY OnlyUnfolds
<1> QED BY <1>1 DEF OnlyFacts

LEMMA ConcatSet ==
    ASSUME NEW E, NEW s \in Seq(E), NEW t \in Seq(E)
    PROVE  ToSet(s \o t) = ToSet(s) \union ToSet(t)
<1> DEFINE Good == {u \in Seq(E) : ToSet(s \o u) = ToSet(s) \union ToSet(u)}
<1>1. <<>> \in Good
  <2>1. s \o <<>> = s /\ ToSet(<<>>) = {} /\ <<>> \in Seq(E)
    BY ConcatEmptySeq DEF ToSet
  <2> QED BY <2>1
<1>2. ASSUME NEW u \in Seq(E), NEW x \in E, u \in Good PROVE Append(u, x) \in Good
  <2> DEFINE v == s \o u
  <2>1. s \o Append(u, x) = Append(v, x) /\ v \in Seq(E)
    BY ConcatAppend
  <2>2. ToSet(v) = ToSet(s) \union ToSet(u)
    BY <1>2
  <2> HIDE DEF v
  <2>3. ToSet(Append(v, x)) = ToSet(v) \union {x}
    BY <2>1, AppendedSet
  <2>4. Append(u, x) \in Seq(E) /\ ToSet(Append(u, x)) = ToSet(u) \union {x}
    BY AppendedSet
  <2> QED BY <2>1, <2>2, <2>3, <2>4
<1> HIDE DEF Good
<1>3. Seq(E) \subseteq Good
  BY <1>1, <1>2, SeqInduction
<1>4. t \in Good
  BY <1>3
<1> QED BY <1>4 DEF Good

-----------------------------------------------------------------------------
(* Short sequences, the ends of long ones, and images.                     *)

LEMMA AppendIs ==
    ASSUME NEW T, NEW s \in Seq(T), NEW x \in T
    PROVE  /\ Append(s, x) \in Seq(T) /\ Len(s) \in Nat /\ DOMAIN s = 1..Len(s)
           /\ DOMAIN Append(s, x) = 1..(Len(s) + 1) /\ Len(Append(s, x)) = Len(s) + 1
           /\ Append(s, x) = [i \in 1..(Len(s) + 1) |-> IF i = Len(s) + 1 THEN x ELSE s[i]]
<1> DEFINE a == Append(s, x)
           n == Len(s)
<1>1. n \in Nat /\ DOMAIN s = 1..n /\ a \in Seq(T) /\ Len(a) = n + 1 /\ DOMAIN a = 1..(n + 1)
      /\ \A i \in 1..(n + 1) : a[i] = IF i = n + 1 THEN x ELSE s[i]
  OBVIOUS
<1> HIDE DEF a
<1>2. a = [i \in DOMAIN a |-> a[i]]
  BY <1>1
<1>3. a = [i \in 1..(n + 1) |-> IF i = n + 1 THEN x ELSE s[i]]
  BY <1>1, <1>2
<1> QED BY <1>1, <1>3 DEF a

\* The values of F at the elements of a sequence.
Mapped(s, F) == [i \in DOMAIN s |-> F[s[i]]]

MapFacts(E, D, F, s, x) ==
    /\ Mapped(<<>>, F) = <<>> /\ Mapped(s, F) \in Seq(D) /\ Append(s, x) \in Seq(E)
    /\ Len(Mapped(s, F)) = Len(s) /\ F[x] \in D
    /\ Mapped(Append(s, x), F) = Append(Mapped(s, F), F[x])

LEMMA MapMore ==
    ASSUME NEW E, NEW D, NEW F \in [E -> D], NEW s \in Seq(E), NEW x \in E
    PROVE  MapFacts(E, D, F, s, x)
<1> DEFINE n == Len(s)
           m == Mapped(s, F)
           a == Append(s, x)
<1>1. /\ a \in Seq(E) /\ n \in Nat /\ DOMAIN s = 1..n /\ DOMAIN a = 1..(n + 1)
      /\ a = [i \in 1..(n + 1) |-> IF i = n + 1 THEN x ELSE s[i]] /\ \A i \in 1..n : s[i] \in E
  BY AppendIs
<1> HIDE DEF n, a
<1>2. m \in [1..n -> D] /\ \A i \in 1..n : m[i] = F[s[i]]
  BY <1>1 DEF Mapped
<1>3. m \in Seq(D) /\ Len(m) = n
  BY <1>1, <1>2
<1> HIDE DEF m
<1>4. F[x] \in D
  OBVIOUS
<1>5. Append(m, F[x]) = [i \in 1..(n + 1) |-> IF i = n + 1 THEN F[x] ELSE m[i]]
  BY <1>3, <1>4, AppendIs
<1>6. ASSUME NEW i \in 1..(n + 1) PROVE F[a[i]] = IF i = n + 1 THEN F[x] ELSE m[i]
  <2>1. i = n + 1 \/ i \in 1..n
    BY <1>1
  <2> QED BY <1>1, <1>2, <2>1
<1>7. Mapped(a, F) = Append(m, F[x])
  BY <1>1, <1>5, <1>6 DEF Mapped
<1>8. Mapped(<<>>, F) = <<>>
  BY DEF Mapped
<1> QED BY <1>1, <1>3, <1>4, <1>7, <1>8 DEF n, m, a, MapFacts

LEMMA LastOff ==
    ASSUME NEW T, NEW c \in Seq(T), c # <<>>
    PROVE  \E p \in Seq(T) : c = Append(p, c[Len(c)]) /\ c[Len(c)] \in T
<1> DEFINE p == SubSeq(c, 1, Len(c) - 1)
<1>1. p \in Seq(T) /\ c[Len(c)] \in T
  BY FrontOf
<1>2. c = Append(p, c[Len(c)])
  OBVIOUS
<1> QED BY <1>1, <1>2

Times(n, x) == [i \in 1..n |-> x]

LEMMA OneAndTwo ==
    \A x : /\ <<x>> = Times(1, x) /\ <<x, x>> = Times(2, x)
           /\ Times(1, x) = Append(<<>>, x) /\ Times(2, x) = Append(Append(<<>>, x), x)
<1>1. TAKE x
<1>2. 1..1 = {1} /\ 1..2 = {1, 2}
  OBVIOUS
<1>3. <<x>> = Times(1, x) /\ <<x, x>> = Times(2, x)
  BY <1>2 DEF Times
<1>4. <<x>> = Append(<<>>, x)
  OBVIOUS
<1>5. <<x, x>> = Append(<<x>>, x)
  <2>1. x \in {x}
    OBVIOUS
  <2> DEFINE T == {x}
  <2> HIDE DEF T
  <2>2. <<x>> \in Seq(T) /\ Len(<<x>>) = 1
    BY DEF T
  <2>3. Append(<<x>>, x) = [i \in 1..(1 + 1) |-> IF i = 1 + 1 THEN x ELSE <<x>>[i]]
    BY <2>1, <2>2, AppendIs DEF T
  <2>4. <<x, x>> = [i \in 1..2 |-> x]
    BY <1>3 DEF Times
  <2>5. \A i \in 1..2 : (IF i = 1 + 1 THEN x ELSE <<x>>[i]) = x
    BY <1>2
  <2> QED BY <2>3, <2>4, <2>5
<1> QED BY <1>3, <1>4, <1>5

LEMMA PrefixOf ==
    ASSUME NEW T, NEW q \in Seq(T), NEW k \in 0..Len(q)
    PROVE  /\ SubSeq(q, 1, k) \in Seq(T) /\ Len(SubSeq(q, 1, k)) = k
           /\ \A i \in 1..k : SubSeq(q, 1, k)[i] = q[i]
<1>1. \A i \in 1..k : q[i] \in T /\ 1 + i - 1 = i
  OBVIOUS
<1>2. k \in Nat /\ SubSeq(q, 1, k) = [i \in 1..k |-> q[i]]
  BY <1>1
<1> QED BY <1>1, <1>2

LEMMA FourJoin ==
    ASSUME NEW T, NEW x \in T, NEW y \in T, NEW z \in T, NEW v \in T
    PROVE  <<x>> \o <<y, z>> \o <<v>> = <<x, y, z, v>>
<1> DEFINE a == <<x>>
           b == <<y, z>>
           c == <<v>>
           e == <<x, y, z, v>>
           ab == a \o b
           abc == ab \o c
<1>1. a \in Seq(T) /\ Len(a) = 1 /\ a[1] = x
  OBVIOUS
<1>2. b \in Seq(T) /\ Len(b) = 2 /\ b[1] = y /\ b[2] = z
  OBVIOUS
<1>3. c \in Seq(T) /\ Len(c) = 1 /\ c[1] = v
  OBVIOUS
<1>4. e \in Seq(T) /\ Len(e) = 4 /\ e[1] = x /\ e[2] = y /\ e[3] = z /\ e[4] = v
  OBVIOUS
<1> HIDE DEF a, b, c, e
<1>5. Joins(T, a, b, ab)
  BY <1>1, <1>2, ConcatIs
<1>6. ab \in Seq(T) /\ Len(ab) = 3 /\ ab[1] = x /\ ab[2] = y /\ ab[3] = z
  BY <1>1, <1>2, <1>5 DEF Joins
<1> HIDE DEF ab
<1>7. Joins(T, ab, c, abc)
  BY <1>3, <1>6, ConcatIs
<1>8. abc \in Seq(T) /\ Len(abc) = 4 /\ abc[1] = x /\ abc[2] = y /\ abc[3] = z /\ abc[4] = v
  BY <1>3, <1>6, <1>7 DEF Joins
<1> HIDE DEF abc
<1>9. \A i \in 1..4 : i = 1 \/ i = 2 \/ i = 3 \/ i = 4
  OBVIOUS
<1>10. \A i \in 1..4 : abc[i] = e[i]
  BY <1>4, <1>8, <1>9
<1>11. abc = e
  BY <1>4, <1>8, <1>10, SeqEqual
<1> QED BY <1>11 DEF abc, ab, a, b, c, e

Triple(T, x, y, z) ==
           /\ <<x, y>> \in Seq(T) /\ Len(<<x, y>>) = 2 /\ <<x, y>>[1] = x /\ <<x, y>>[2] = y
           /\ Append(<<x, y>>, z) \in Seq(T) /\ Len(Append(<<x, y>>, z)) = 3 /\ DOMAIN Append(<<x, y>>, z) = 1..3
           /\ Append(<<x, y>>, z)[1] = x /\ Append(<<x, y>>, z)[2] = y /\ Append(<<x, y>>, z)[3] = z

LEMMA PairAppend ==
    ASSUME NEW T, NEW x \in T, NEW y \in T, NEW z \in T
    PROVE  Triple(T, x, y, z)
<1> DEFINE s == <<x, y>>
           a == Append(s, z)
<1>1. s \in Seq(T) /\ Len(s) = 2 /\ s[1] = x /\ s[2] = y
  OBVIOUS
<1> HIDE DEF s
<1>2. a \in Seq(T) /\ Len(a) = 3 /\ DOMAIN a = 1..3 /\ a[1] = x /\ a[2] = y /\ a[3] = z
  <2>1. a \in Seq(T) /\ DOMAIN a = 1..(Len(s) + 1) /\ Len(a) = Len(s) + 1
        /\ a = [i \in 1..(Len(s) + 1) |-> IF i = Len(s) + 1 THEN z ELSE s[i]]
    BY <1>1, AppendIs
  <2>2. Len(s) + 1 = 3 /\ 1 \in 1..3 /\ 2 \in 1..3 /\ 3 \in 1..3
    BY <1>1
  <2> HIDE DEF a
  <2> QED BY <1>1, <2>1, <2>2
<1> QED BY <1>1, <1>2 DEF Triple, a, s
=============================================================================
