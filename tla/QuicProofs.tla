----------------------------- MODULE QuicProofs -----------------------------
(***************************************************************************)
(* Proofs about QuicRecovery.  Inv says of what the capture can consist;   *)
(* the folds of the recovery are then followed by induction over the       *)
(* frames: what is reassembled is a prefix of the octets of a stream.      *)
(***************************************************************************)
EXTENDS QuicRecovery, SequenceLemmas

\* The octets of a stream from the a-th to the b-th.
Octets(a, b) == [i \in 1..(b - a + 1) |-> a + i - 1]

LEMMA OctetsAre ==
    ASSUME NEW a \in Nat, NEW b \in Nat, a <= b + 1
    PROVE  /\ Octets(a, b) \in Seq(Nat) /\ Len(Octets(a, b)) = b - a + 1
           /\ \A i \in 1..(b - a + 1) : Octets(a, b)[i] = a + i - 1
<1> DEFINE n == b - a + 1
<1>1. n \in Nat /\ \A i \in 1..n : a + i - 1 \in Nat
  OBVIOUS
<1>2. Octets(a, b) = [i \in 1..n |-> a + i - 1]
  BY DEF Octets
<1> HIDE DEF n
<1>3. Octets(a, b) \in [1..n -> Nat]
  BY <1>1, <1>2
<1> QED BY <1>1, <1>2, <1>3 DEF n

LEMMA OctetsFromOne ==
    ASSUME NEW k \in Nat
    PROVE  Octets(1, k) \in Seq(Nat) /\ Len(Octets(1, k)) = k /\ \A i \in 1..k : Octets(1, k)[i] = i
<1>1. 1 \in Nat /\ 1 <= k + 1 /\ k - 1 + 1 = k /\ \A i \in 1..k : 1 + i - 1 = i
  OBVIOUS
<1>2. /\ Octets(1, k) \in Seq(Nat) /\ Len(Octets(1, k)) = k - 1 + 1
      /\ \A i \in 1..(k - 1 + 1) : Octets(1, k)[i] = 1 + i - 1
  BY <1>1, OctetsAre
<1> QED BY <1>1, <1>2

LEMMA OctetsBehind ==
    ASSUME NEW o \in Nat, NEW m \in Nat, o <= m
    PROVE  /\ Octets(o + 1, m) \in Seq(Nat) /\ Len(Octets(o + 1, m)) = m - o
           /\ \A i \in 1..(m - o) : Octets(o + 1, m)[i] = o + i
<1> DEFINE a == o + 1
<1>1. a \in Nat /\ a <= m + 1 /\ m - a + 1 = m - o /\ \A i \in 1..(m - o) : a + i - 1 = o + i
  OBVIOUS
<1> HIDE DEF a
<1>2. /\ Octets(a, m) \in Seq(Nat) /\ Len(Octets(a, m)) = m - a + 1
      /\ \A i \in 1..(m - a + 1) : Octets(a, m)[i] = a + i - 1
  BY <1>1, OctetsAre
<1> QED BY <1>1, <1>2 DEF a

\* A run of octets, continued with the part of another one that lies behind it.
LEMMA OctetsJoin ==
    ASSUME NEW k \in Nat, NEW o \in Nat, NEW m \in Nat, o <= k, o < m
    PROVE  Octets(1, k) \o SubSeq(Octets(o + 1, m), k - o + 1, m - o)
              = Octets(1, IF m > k THEN m ELSE k)
<1> DEFINE s == Octets(1, k)
           t == Octets(o + 1, m)
           p == SubSeq(t, k - o + 1, m - o)
<1>1. s \in Seq(Nat) /\ Len(s) = k /\ \A i \in 1..k : s[i] = i
  BY OctetsFromOne
<1>2. t \in Seq(Nat) /\ Len(t) = m - o /\ \A i \in 1..(m - o) : t[i] = o + i
  BY OctetsBehind
<1> HIDE DEF s, t
<1>3. CASE m > k
  <2>1. p \in Seq(Nat) /\ Len(p) = m - k /\ \A i \in 1..(m - k) : p[i] = t[(k - o) + i]
    <3> DEFINE f == k - o + 1
               l == m - o
    <3>1. /\ f \in Int /\ l \in Int /\ f <= l /\ l - f + 1 = m - k
          /\ \A i \in f..l : i \in 1..(m - o)
          /\ \A i \in 1..(m - k) : f + i - 1 = (k - o) + i
      BY <1>3
    <3>2. p = SubSeq(t, f, l)
      OBVIOUS
    <3>3. \A i \in f..l : t[i] \in Nat
      BY <1>2, <3>1
    <3> HIDE DEF f, l, p
    <3>4. /\ SubSeq(t, f, l) \in Seq(Nat) /\ Len(SubSeq(t, f, l)) = l - f + 1
          /\ \A i \in 1..(l - f + 1) : SubSeq(t, f, l)[i] = t[f + i - 1]
      BY <3>1, <3>3, SubSeqProperties
    <3> QED BY <3>1, <3>2, <3>4
  <2>2. \A i \in 1..(m - k) : p[i] = k + i
    <3>1. \A i \in 1..(m - k) : (k - o) + i \in 1..(m - o) /\ o + ((k - o) + i) = k + i
      BY <1>3
    <3> QED BY <1>2, <2>1, <3>1
  <2> HIDE DEF p
  <2>3. s \o p \in Seq(Nat) /\ Len(s \o p) = m
    <3>1. s \o p \in Seq(Nat) /\ Len(s \o p) = Len(s) + Len(p)
      BY <1>1, <2>1, ConcatProperties
    <3> QED BY <1>1, <1>3, <2>1, <3>1
  <2>4. \A i \in 1..m : (s \o p)[i] = i
    <3>1. ASSUME NEW i \in 1..m PROVE (s \o p)[i] = i
      <4>1. CASE i <= k
        <5>1. i \in 1..k
          BY <4>1
        <5> QED BY <1>1, <2>1, <2>3, <5>1, ConcatProperties
      <4>2. CASE i > k
        <5>1. i - k \in 1..(m - k) /\ k + (i - k) = i /\ i \notin 1..k
          BY <4>2
        <5>2. (s \o p)[i] = p[i - k]
          BY <1>1, <1>3, <2>1, <5>1
        <5> QED BY <2>2, <5>1, <5>2
      <4>3. i <= k \/ i > k
        OBVIOUS
      <4> QED BY <4>1, <4>2, <4>3, Zenon
    <3> QED BY <3>1
  <2>5. Octets(1, m) \in Seq(Nat) /\ Len(Octets(1, m)) = m /\ \A i \in 1..m : Octets(1, m)[i] = i
    BY OctetsFromOne
  <2>6. s \o p = Octets(1, m)
    BY <2>3, <2>4, <2>5, SeqEqual
  <2>7. (IF m > k THEN m ELSE k) = m
    BY <1>3
  <2> QED BY <2>6, <2>7 DEF s, t, p
<1>4. CASE m <= k
  <2>1. p = <<>>
    BY <1>2, <1>4, SubSeqEmpty
  <2>2. s \o <<>> = s
    BY <1>1
  <2>3. (IF m > k THEN m ELSE k) = k
    BY <1>4
  <2>4. s \o p = s
    BY <2>1, <2>2
  <2> QED BY <2>3, <2>4 DEF s, t, p
<1> QED BY <1>3, <1>4

-----------------------------------------------------------------------------
(* Frames, and the pieces of a stream by their offsets.                     *)

\* A frame of a stream of n octets.
FrameOf(n) == {f \in [offset : Nat, data : Seq(Nat)] :
                 \E m \in 1..n : f.offset < m /\ f.data = Octets(f.offset + 1, m)}
AnyFrame(n) == FrameOf(n) \union {Ping}

Pieces(n) == {g \in UNION {[D -> Seq(Nat)] : D \in SUBSET Nat} :
                \A o \in DOMAIN g : \E m \in 1..n : o < m /\ g[o] = Octets(o + 1, m)}

LEMMA PiecesAre ==
    ASSUME NEW n, NEW g
    PROVE  g \in Pieces(n) <=>
              /\ g = [o \in DOMAIN g |-> g[o]] /\ DOMAIN g \subseteq Nat
              /\ \A o \in DOMAIN g :
                    g[o] \in Seq(Nat) /\ \E m \in 1..n : o < m /\ g[o] = Octets(o + 1, m)
<1> DEFINE All == UNION {[D -> Seq(Nat)] : D \in SUBSET Nat}
<1>1. ASSUME g \in All
      PROVE  g = [o \in DOMAIN g |-> g[o]] /\ DOMAIN g \subseteq Nat /\ \A o \in DOMAIN g : g[o] \in Seq(Nat)
  <2>1. PICK D \in SUBSET Nat : g \in [D -> Seq(Nat)]
    BY <1>1
  <2> QED BY <2>1
<1>2. ASSUME g = [o \in DOMAIN g |-> g[o]], DOMAIN g \subseteq Nat, \A o \in DOMAIN g : g[o] \in Seq(Nat)
      PROVE  g \in All
  <2>1. g \in [DOMAIN g -> Seq(Nat)]
    BY <1>2
  <2> QED BY <1>2, <2>1
<1> HIDE DEF All
<1>3. g \in Pieces(n) <=> g \in All /\ \A o \in DOMAIN g : \E m \in 1..n : o < m /\ g[o] = Octets(o + 1, m)
  BY DEF Pieces, All
<1> QED BY <1>1, <1>2, <1>3

LEMMA NoPieces == \A n : <<>> \in Pieces(n)
<1> TAKE n
<1>1. DOMAIN <<>> = {} /\ <<>> = [o \in {} |-> <<>>[o]]
  OBVIOUS
<1> QED BY <1>1, PiecesAre

FirstFacts(n, base) ==
    /\ AddFirst(base, <<>>) = base
    /\ \A s \in Seq(FrameOf(n)) : AddFirst(base, s) \in Pieces(n)
    /\ \A s \in Seq(FrameOf(n)), x \in FrameOf(n) :
          AddFirst(base, Append(s, x)) =
             [o \in DOMAIN AddFirst(base, s) \union {x.offset} |-> IF o \in DOMAIN AddFirst(base, s) THEN AddFirst(base, s)[o] ELSE x.data]

LEMMA FirstUnfolds ==
    ASSUME NEW n, NEW base \in Pieces(n)
    PROVE  FirstFacts(n, base)
<1> DEFINE Step(t, x) == [o \in DOMAIN t \union {x.offset} |-> IF o \in DOMAIN t THEN t[o] ELSE x.data]
           T == Pieces(n)
           E1 == FrameOf(n)
           b == base
           G == [p \in T \X E1 |-> Step(p[1], p[2])]
<1>1. b \in T
  OBVIOUS
<1>2. \A t \in T, x \in E1 : Step(t, x) \in T
  <2>1. SUFFICES ASSUME NEW t \in T, NEW f \in E1 PROVE Step(t, f) \in T
    OBVIOUS
  <2> DEFINE u == Step(t, f)
  <2>2. /\ t = [o \in DOMAIN t |-> t[o]] /\ DOMAIN t \subseteq Nat
        /\ \A o \in DOMAIN t : t[o] \in Seq(Nat) /\ \E m \in 1..n : o < m /\ t[o] = Octets(o + 1, m)
    BY PiecesAre
  <2>3. /\ f.offset \in Nat /\ f.data \in Seq(Nat)
        /\ \E m \in 1..n : f.offset < m /\ f.data = Octets(f.offset + 1, m)
    BY DEF FrameOf
  <2>4. /\ DOMAIN u = DOMAIN t \union {f.offset} /\ u = [o \in DOMAIN u |-> u[o]]
        /\ \A o \in DOMAIN u : u[o] = (IF o \in DOMAIN t THEN t[o] ELSE f.data)
    OBVIOUS
  <2>5. ASSUME NEW o \in DOMAIN u
        PROVE  u[o] \in Seq(Nat) /\ \E m \in 1..n : o < m /\ u[o] = Octets(o + 1, m)
    BY <2>2, <2>3, <2>4
  <2>6. DOMAIN u \subseteq Nat
    BY <2>2, <2>3, <2>4
  <2> HIDE DEF u
  <2>7. u \in Pieces(n)
    BY <2>4, <2>5, <2>6, PiecesAre
  <2> QED BY <2>7 DEF u
<1> HIDE DEF Step, T, E1, b
<1>3. \A t \in T, x \in E1 : On(G, t, x) = Step(t, x)
  BY <1>2 DEF On
<1>4. FoldFn(E1, T, G)
  BY <1>2 DEF FoldFn
<1> HIDE DEF G
<1>5. ASSUME NEW s \in Seq(E1) PROVE AddFirst(base, s) = EndOf(s, b, T, G)
  <2> DEFINE len == Len(s)
             Eq(iter) == iter = [q \in SUBSET DOMAIN s |->
                           IF q = {} THEN b ELSE Step(iter[q \ {Max(q)}], s[Max(q)])]
             iter == CHOOSE iter : Eq(iter)
  <2>1. len \in Nat /\ DOMAIN s = 1..len /\ \A k \in 1..len : s[k] \in E1
    OBVIOUS
  <2>2. AddFirst(base, s) = iter[1..len]
    BY <2>1 DEF AddFirst, Step, b, FoldLeft, MapThenFoldSet
  <2> HIDE DEF len
  <2>3. PICK F : IterOf(F, s, b, T, G)
    BY <1>1, <1>4, IterExists
  <2>4. Eq(F)
    <3>0. F \in [SUBSET (1..len) -> T] /\ \A q \in SUBSET (1..len) :
            F[q] = IF q = {} THEN b ELSE On(G, F[q \ {Max(q)}], s[Max(q)])
      BY <2>3 DEF IterOf, len
    <3>1. ASSUME NEW q \in SUBSET (1..len), q # {}
          PROVE  On(G, F[q \ {Max(q)}], s[Max(q)]) = Step(F[q \ {Max(q)}], s[Max(q)])
      <4>1. Max(q) \in 1..len /\ F[q \ {Max(q)}] \in T
        BY <2>1, <3>0, <3>1, MaxIsIn
      <4> QED BY <1>3, <2>1, <4>1
    <3>2. F = [q \in SUBSET (1..len) |-> F[q]]
      BY <3>0
    <3> QED BY <2>1, <3>0, <3>1, <3>2
  <2>5. Eq(iter)
    BY <2>4, Zenon
  <2> HIDE DEF iter
  <2>6. iter[{}] = b
    BY <2>5
  <2>7. ASSUME NEW q \in SUBSET (1..len), q # {}, iter[q \ {Max(q)}] \in T
        PROVE  iter[q] = On(G, iter[q \ {Max(q)}], s[Max(q)])
    <3>1. Max(q) \in 1..len
      BY <2>1, <2>7, MaxIsIn
    <3>2. iter[q] = Step(iter[q \ {Max(q)}], s[Max(q)])
      BY <2>1, <2>5, <2>7
    <3> QED BY <1>3, <2>1, <2>7, <3>1, <3>2
  <2> HIDE DEF Eq
  <2>8. Iterates(iter, s, b, T, G)
    BY <2>6, <2>7 DEF Iterates, len
  <2>9. iter[1..Len(s)] = EndOf(s, b, T, G)
    BY <1>1, <1>4, <2>8, IterEnds
  <2> QED BY <2>2, <2>9 DEF len
<1>6. <<>> \in Seq(E1) /\ \A s \in Seq(E1), x \in E1 : Append(s, x) \in Seq(E1)
  OBVIOUS
<1>7. Unfolds(E1, b, T, G)
  BY <1>1, <1>4, EndUnfolds
<1>8. /\ EndOf(<<>>, b, T, G) = b
      /\ \A s \in Seq(E1) : EndOf(s, b, T, G) \in T
      /\ \A s \in Seq(E1), x \in E1 : EndOf(Append(s, x), b, T, G) = On(G, EndOf(s, b, T, G), x)
  BY <1>7 DEF Unfolds
<1>9. AddFirst(base, <<>>) = b /\ \A s \in Seq(E1) : AddFirst(base, s) \in T
  BY <1>5, <1>6, <1>8
<1>10. ASSUME NEW s \in Seq(E1), NEW x \in E1 PROVE AddFirst(base, Append(s, x)) = Step(AddFirst(base, s), x)
  <2>1. AddFirst(base, Append(s, x)) = EndOf(Append(s, x), b, T, G) /\ AddFirst(base, s) = EndOf(s, b, T, G)
    BY <1>5, <1>6
  <2> QED BY <1>3, <1>8, <2>1
<1> QED BY <1>9, <1>10 DEF FirstFacts, Step, T, E1, b

LastFacts(n, base) ==
    /\ AddLast(base, <<>>) = base
    /\ \A s \in Seq(FrameOf(n)) : AddLast(base, s) \in Pieces(n)
    /\ \A s \in Seq(FrameOf(n)), x \in FrameOf(n) :
          AddLast(base, Append(s, x)) =
             [o \in DOMAIN AddLast(base, s) \union {x.offset} |-> IF o = x.offset THEN x.data ELSE AddLast(base, s)[o]]

LEMMA LastUnfolds ==
    ASSUME NEW n, NEW base \in Pieces(n)
    PROVE  LastFacts(n, base)
<1> DEFINE Step(t, x) == [o \in DOMAIN t \union {x.offset} |-> IF o = x.offset THEN x.data ELSE t[o]]
           T == Pieces(n)
           E1 == FrameOf(n)
           b == base
           G == [p \in T \X E1 |-> Step(p[1], p[2])]
<1>1. b \in T
  OBVIOUS
<1>2. \A t \in T, x \in E1 : Step(t, x) \in T
  <2>1. SUFFICES ASSUME NEW t \in T, NEW f \in E1 PROVE Step(t, f) \in T
    OBVIOUS
  <2> DEFINE u == Step(t, f)
  <2>2. /\ t = [o \in DOMAIN t |-> t[o]] /\ DOMAIN t \subseteq Nat
        /\ \A o \in DOMAIN t : t[o] \in Seq(Nat) /\ \E m \in 1..n : o < m /\ t[o] = Octets(o + 1, m)
    BY PiecesAre
  <2>3. /\ f.offset \in Nat /\ f.data \in Seq(Nat)
        /\ \E m \in 1..n : f.offset < m /\ f.data = Octets(f.offset + 1, m)
    BY DEF FrameOf
  <2>4. /\ DOMAIN u = DOMAIN t \union {f.offset} /\ u = [o \in DOMAIN u |-> u[o]]
        /\ \A o \in DOMAIN u : u[o] = (IF o = f.offset THEN f.data ELSE t[o])
    OBVIOUS
  <2>5. ASSUME NEW o \in DOMAIN u
        PROVE  u[o] \in Seq(Nat) /\ \E m \in 1..n : o < m /\ u[o] = Octets(o + 1, m)
    BY <2>2, <2>3, <2>4
  <2>6. DOMAIN u \subseteq Nat
    BY <2>2, <2>3, <2>4
  <2> HIDE DEF u
  <2>7. u \in Pieces(n)
    BY <2>4, <2>5, <2>6, PiecesAre
  <2> QED BY <2>7 DEF u
<1> HIDE DEF Step, T, E1, b
<1>3. \A t \in T, x \in E1 : On(G, t, x) = Step(t, x)
  BY <1>2 DEF On
<1>4. FoldFn(E1, T, G)
  BY <1>2 DEF FoldFn
<1> HIDE DEF G
<1>5. ASSUME NEW s \in Seq(E1) PROVE AddLast(base, s) = EndOf(s, b, T, G)
  <2> DEFINE len == Len(s)
             Eq(iter) == iter = [q \in SUBSET DOMAIN s |->
                           IF q = {} THEN b ELSE Step(iter[q \ {Max(q)}], s[Max(q)])]
             iter == CHOOSE iter : Eq(iter)
  <2>1. len \in Nat /\ DOMAIN s = 1..len /\ \A k \in 1..len : s[k] \in E1
    OBVIOUS
  <2>2. AddLast(base, s) = iter[1..len]
    BY <2>1 DEF AddLast, Step, b, FoldLeft, MapThenFoldSet
  <2> HIDE DEF len
  <2>3. PICK F : IterOf(F, s, b, T, G)
    BY <1>1, <1>4, IterExists
  <2>4. Eq(F)
    <3>0. F \in [SUBSET (1..len) -> T] /\ \A q \in SUBSET (1..len) :
            F[q] = IF q = {} THEN b ELSE On(G, F[q \ {Max(q)}], s[Max(q)])
      BY <2>3 DEF IterOf, len
    <3>1. ASSUME NEW q \in SUBSET (1..len), q # {}
          PROVE  On(G, F[q \ {Max(q)}], s[Max(q)]) = Step(F[q \ {Max(q)}], s[Max(q)])
      <4>1. Max(q) \in 1..len /\ F[q \ {Max(q)}] \in T
        BY <2>1, <3>0, <3>1, MaxIsIn
      <4> QED BY <1>3, <2>1, <4>1
    <3>2. F = [q \in SUBSET (1..len) |-> F[q]]
      BY <3>0
    <3> QED BY <2>1, <3>0, <3>1, <3>2
  <2>5. Eq(iter)
    BY <2>4, Zenon
  <2> HIDE DEF iter
  <2>6. iter[{}] = b
    BY <2>5
  <2>7. ASSUME NEW q \in SUBSET (1..len), q # {}, iter[q \ {Max(q)}] \in T
        PROVE  iter[q] = On(G, iter[q \ {Max(q)}], s[Max(q)])
    <3>1. Max(q) \in 1..len
      BY <2>1, <2>7, MaxIsIn
    <3>2. iter[q] = Step(iter[q \ {Max(q)}], s[Max(q)])
      BY <2>1, <2>5, <2>7
    <3> QED BY <1>3, <2>1, <2>7, <3>1, <3>2
  <2> HIDE DEF Eq
  <2>8. Iterates(iter, s, b, T, G)
    BY <2>6, <2>7 DEF Iterates, len
  <2>9. iter[1..Len(s)] = EndOf(s, b, T, G)
    BY <1>1, <1>4, <2>8, IterEnds
  <2> QED BY <2>2, <2>9 DEF len
<1>6. <<>> \in Seq(E1) /\ \A s \in Seq(E1), x \in E1 : Append(s, x) \in Seq(E1)
  OBVIOUS
<1>7. Unfolds(E1, b, T, G)
  BY <1>1, <1>4, EndUnfolds
<1>8. /\ EndOf(<<>>, b, T, G) = b
      /\ \A s \in Seq(E1) : EndOf(s, b, T, G) \in T
      /\ \A s \in Seq(E1), x \in E1 : EndOf(Append(s, x), b, T, G) = On(G, EndOf(s, b, T, G), x)
  BY <1>7 DEF Unfolds
<1>9. AddLast(base, <<>>) = b /\ \A s \in Seq(E1) : AddLast(base, s) \in T
  BY <1>5, <1>6, <1>8
<1>10. ASSUME NEW s \in Seq(E1), NEW x \in E1 PROVE AddLast(base, Append(s, x)) = Step(AddLast(base, s), x)
  <2>1. AddLast(base, Append(s, x)) = EndOf(Append(s, x), b, T, G) /\ AddLast(base, s) = EndOf(s, b, T, G)
    BY <1>5, <1>6
  <2> QED BY <1>3, <1>8, <2>1
<1> QED BY <1>9, <1>10 DEF LastFacts, Step, T, E1, b

-----------------------------------------------------------------------------
(* Frames of a packet, and the offsets at which pieces begin.               *)

LEMMA PingIsNoFrame == \A n : Ping \notin FrameOf(n)
BY DEF Ping, FrameOf

\* What the parser returns of a packet's frames has no PING in it, and it is all
\* of them when there is none.
LEMMA ParsedFrames ==
    ASSUME NEW n, NEW frames \in Seq(AnyFrame(n))
    PROVE  /\ _parse_crypto_frames(frames) \in Seq(FrameOf(n))
           /\ Ping \notin ToSet(frames) => _parse_crypto_frames(frames) = frames
<1> DEFINE pings == {i \in DOMAIN frames : frames[i] = Ping}
           first == CHOOSE i \in pings : \A j \in pings : i <= j
<1>1. DOMAIN frames = 1..Len(frames) /\ Len(frames) \in Nat /\ \A i \in 1..Len(frames) : frames[i] \in AnyFrame(n)
  OBVIOUS
<1>2. \A i \in 1..Len(frames) : i \in pings \/ frames[i] \in FrameOf(n)
  BY <1>1 DEF AnyFrame
<1>3. ToSet(frames) = {frames[i] : i \in 1..Len(frames)}
  BY <1>1 DEF ToSet
<1>4. CASE pings = {}
  <2>1. _parse_crypto_frames(frames) = frames
    BY <1>4 DEF _parse_crypto_frames
  <2>2. frames = [i \in 1..Len(frames) |-> frames[i]] /\ \A i \in 1..Len(frames) : frames[i] \in FrameOf(n)
    BY <1>1, <1>2, <1>4
  <2>3. frames \in [1..Len(frames) -> FrameOf(n)]
    BY <2>2
  <2>4. frames \in Seq(FrameOf(n))
    BY <1>1, <2>3, SeqDef
  <2> QED BY <2>1, <2>4
<1>5. CASE pings # {}
  <2>1. pings \subseteq Nat
    BY <1>1
  <2>2. \E i \in pings : \A j \in pings : i <= j
    BY <1>5, <2>1, LeastNumber
  <2>3. first \in pings /\ \A j \in pings : first <= j
    BY <2>2
  <2>4. _parse_crypto_frames(frames) = SubSeq(frames, 1, first - 1)
    BY <1>5 DEF _parse_crypto_frames
  <2>5. first \in 1..Len(frames) /\ Ping \in ToSet(frames)
    BY <1>1, <1>3, <2>3
  <2>6. \A i \in 1..(first - 1) : frames[i] \in FrameOf(n)
    <3>1. ASSUME NEW i \in 1..(first - 1) PROVE frames[i] \in FrameOf(n)
      <4>1. i \in 1..Len(frames) /\ i < first
        BY <1>1, <2>5
      <4>2. i \notin pings
        BY <2>3, <2>5, <4>1
      <4> QED BY <1>2, <4>1, <4>2
    <3> QED BY <3>1
  <2> HIDE DEF first
  <2>7. SubSeq(frames, 1, first - 1) \in Seq(FrameOf(n))
    BY <2>5, <2>6, SubSeqProperties
  <2> QED BY <2>4, <2>5, <2>7
<1> QED BY <1>4, <1>5

\* The numbers below x in their order.
Below(x) == [i \in 1..x |-> i - 1]

LEMMA BelowUnfolds ==
    /\ Below(0) = <<>>
    /\ \A x \in Nat : Below(x) \in Seq(Nat) /\ Below(x + 1) = Append(Below(x), x)
<1>1. Below(0) = <<>>
  BY DEF Below
<1>2. ASSUME NEW x \in Nat PROVE Below(x) \in Seq(Nat)
  BY DEF Below
<1>3. ASSUME NEW x \in Nat PROVE Below(x + 1) = Append(Below(x), x)
  BY <1>2 DEF Below
<1> QED BY <1>1, <1>2, <1>3

AllOctets == ClientHelloLen + ServerHelloLen + Flight

LEMMA OffsetsAre ==
    ASSUME NEW g
    PROVE  Offsets(g) = Only(Below(AllOctets), DOMAIN g)
BY DEF Offsets, Below, AllOctets

\* The sum of a sequence of numbers, from a number.
SumFrom(base, s) == FoldLeft(LAMBDA a, n : a + n, base, s)

SumFacts(base) ==
    /\ SumFrom(base, <<>>) = base
    /\ \A s \in Seq(Nat) : SumFrom(base, s) \in Nat
    /\ \A s \in Seq(Nat), x \in Nat :
          SumFrom(base, Append(s, x)) =
             SumFrom(base, s) + x

LEMMA SumUnfolds ==
    ASSUME NEW base \in Nat
    PROVE  SumFacts(base)
<1> DEFINE Step(t, x) == t + x
           T == Nat
           E1 == Nat
           b == base
           G == [p \in T \X E1 |-> Step(p[1], p[2])]
<1>1. b \in T
  OBVIOUS
<1>2. \A t \in T, x \in E1 : Step(t, x) \in T
  OBVIOUS
<1> HIDE DEF Step, T, E1, b
<1>3. \A t \in T, x \in E1 : On(G, t, x) = Step(t, x)
  BY <1>2 DEF On
<1>4. FoldFn(E1, T, G)
  BY <1>2 DEF FoldFn
<1> HIDE DEF G
<1>5. ASSUME NEW s \in Seq(E1) PROVE SumFrom(base, s) = EndOf(s, b, T, G)
  <2> DEFINE len == Len(s)
             Eq(iter) == iter = [q \in SUBSET DOMAIN s |->
                           IF q = {} THEN b ELSE Step(iter[q \ {Max(q)}], s[Max(q)])]
             iter == CHOOSE iter : Eq(iter)
  <2>1. len \in Nat /\ DOMAIN s = 1..len /\ \A k \in 1..len : s[k] \in E1
    OBVIOUS
  <2>2. SumFrom(base, s) = iter[1..len]
    BY <2>1 DEF SumFrom, Step, b, FoldLeft, MapThenFoldSet
  <2> HIDE DEF len
  <2>3. PICK F : IterOf(F, s, b, T, G)
    BY <1>1, <1>4, IterExists
  <2>4. Eq(F)
    <3>0. F \in [SUBSET (1..len) -> T] /\ \A q \in SUBSET (1..len) :
            F[q] = IF q = {} THEN b ELSE On(G, F[q \ {Max(q)}], s[Max(q)])
      BY <2>3 DEF IterOf, len
    <3>1. ASSUME NEW q \in SUBSET (1..len), q # {}
          PROVE  On(G, F[q \ {Max(q)}], s[Max(q)]) = Step(F[q \ {Max(q)}], s[Max(q)])
      <4>1. Max(q) \in 1..len /\ F[q \ {Max(q)}] \in T
        BY <2>1, <3>0, <3>1, MaxIsIn
      <4> QED BY <1>3, <2>1, <4>1
    <3>2. F = [q \in SUBSET (1..len) |-> F[q]]
      BY <3>0
    <3> QED BY <2>1, <3>0, <3>1, <3>2
  <2>5. Eq(iter)
    BY <2>4, Zenon
  <2> HIDE DEF iter
  <2>6. iter[{}] = b
    BY <2>5
  <2>7. ASSUME NEW q \in SUBSET (1..len), q # {}, iter[q \ {Max(q)}] \in T
        PROVE  iter[q] = On(G, iter[q \ {Max(q)}], s[Max(q)])
    <3>1. Max(q) \in 1..len
      BY <2>1, <2>7, MaxIsIn
    <3>2. iter[q] = Step(iter[q \ {Max(q)}], s[Max(q)])
      BY <2>1, <2>5, <2>7
    <3> QED BY <1>3, <2>1, <2>7, <3>1, <3>2
  <2> HIDE DEF Eq
  <2>8. Iterates(iter, s, b, T, G)
    BY <2>6, <2>7 DEF Iterates, len
  <2>9. iter[1..Len(s)] = EndOf(s, b, T, G)
    BY <1>1, <1>4, <2>8, IterEnds
  <2> QED BY <2>2, <2>9 DEF len
<1>6. <<>> \in Seq(E1) /\ \A s \in Seq(E1), x \in E1 : Append(s, x) \in Seq(E1)
  OBVIOUS
<1>7. Unfolds(E1, b, T, G)
  BY <1>1, <1>4, EndUnfolds
<1>8. /\ EndOf(<<>>, b, T, G) = b
      /\ \A s \in Seq(E1) : EndOf(s, b, T, G) \in T
      /\ \A s \in Seq(E1), x \in E1 : EndOf(Append(s, x), b, T, G) = On(G, EndOf(s, b, T, G), x)
  BY <1>7 DEF Unfolds
<1>9. SumFrom(base, <<>>) = b /\ \A s \in Seq(E1) : SumFrom(base, s) \in T
  BY <1>5, <1>6, <1>8
<1>10. ASSUME NEW s \in Seq(E1), NEW x \in E1 PROVE SumFrom(base, Append(s, x)) = Step(SumFrom(base, s), x)
  <2>1. SumFrom(base, Append(s, x)) = EndOf(Append(s, x), b, T, G) /\ SumFrom(base, s) = EndOf(s, b, T, G)
    BY <1>5, <1>6
  <2> QED BY <1>3, <1>8, <2>1
<1> QED BY <1>9, <1>10 DEF SumFacts, Step, T, E1, b

LEMMA LengthsAre ==
    /\ ClientHelloLen \in Nat \ {0} /\ ServerHelloLen \in Nat \ {0} /\ Messages \in Seq(Nat) /\ Flight \in Nat
    /\ AllOctets \in Nat
<1>1. /\ ClientHelloLen \in Nat \ {0} /\ ServerHelloLen \in Nat \ {0} /\ Messages \in Seq(Nat \ {0})
  BY SessionAssumption DEF SessionAssumption
<1>2. Messages \in Seq(Nat)
  BY <1>1
<1>3. SumFacts(0)
  BY SumUnfolds
<1>4. Flight \in Nat
  BY <1>2, <1>3 DEF SumFacts, Flight, SumFrom
<1> QED BY <1>1, <1>2, <1>4 DEF AllOctets

-----------------------------------------------------------------------------
(* The hellos.                                                              *)

\* A run of octets from the first one.
FirstOctets(n) == {Octets(1, k) : k \in 0..n}

PrefixUpTo(g, s) ==
    FoldLeft(LAMBDA out, o : IF o > Len(out) THEN out
                 ELSE out \o SubSeq(g[o], Len(out) - o + 1, Len(g[o])), <<>>, s)

LEMMA JoinsOctets ==
    ASSUME NEW k \in Nat, NEW o \in Nat, NEW m \in Nat, NEW piece, o <= k, o < m, piece = Octets(o + 1, m)
    PROVE  Octets(1, k) \o SubSeq(piece, k - o + 1, Len(piece)) = Octets(1, IF m > k THEN m ELSE k)
<1>1. Len(piece) = m - o
  BY OctetsBehind
<1> QED BY <1>1, OctetsJoin

PrefixFacts(n, g) ==
    /\ PrefixUpTo(g, <<>>) = <<>>
    /\ \A s \in Seq(DOMAIN g) : PrefixUpTo(g, s) \in FirstOctets(n)
    /\ \A s \in Seq(DOMAIN g), x \in DOMAIN g :
          PrefixUpTo(g, Append(s, x)) =
             IF x > Len(PrefixUpTo(g, s)) THEN PrefixUpTo(g, s) ELSE PrefixUpTo(g, s) \o SubSeq(g[x], Len(PrefixUpTo(g, s)) - x + 1, Len(g[x]))

LEMMA PrefixUnfolds ==
    ASSUME NEW n \in Nat, NEW g \in Pieces(n)
    PROVE  PrefixFacts(n, g)
<1> DEFINE Step(t, x) == IF x > Len(t) THEN t ELSE t \o SubSeq(g[x], Len(t) - x + 1, Len(g[x]))
           T == FirstOctets(n)
           E1 == DOMAIN g
           b == <<>>
           G == [p \in T \X E1 |-> Step(p[1], p[2])]
<1>1. b \in T
  <2>1. Octets(1, 0) = <<>>
    BY DEF Octets
  <2> QED BY <2>1 DEF FirstOctets
<1>2. \A t \in T, x \in E1 : Step(t, x) \in T
  <2>1. SUFFICES ASSUME NEW t \in T, NEW o \in E1 PROVE Step(t, o) \in T
    OBVIOUS
  <2>2. PICK k \in 0..n : t = Octets(1, k)
    BY DEF FirstOctets
  <2>3. Len(t) = k /\ o \in Nat
    BY <2>2, OctetsFromOne, PiecesAre
  <2>4. CASE o > Len(t)
    BY <2>4
  <2>5. CASE ~ (o > Len(t))
    <3>1. o <= k /\ k \in Nat
      BY <2>3, <2>5
    <3>2. PICK m \in 1..n : o < m /\ g[o] = Octets(o + 1, m)
      BY PiecesAre
    <3> DEFINE l == IF m > k THEN m ELSE k
    <3>3. l \in 0..n /\ m \in Nat
      BY <3>1
    <3>4. Octets(1, k) \o SubSeq(g[o], k - o + 1, Len(g[o])) = Octets(1, l)
      BY <2>3, <3>1, <3>2, <3>3, JoinsOctets
    <3> HIDE DEF l
    <3>5. Step(t, o) = Octets(1, l)
      BY <2>2, <2>3, <2>5, <3>4
    <3> HIDE DEF Step
    <3> QED BY <3>3, <3>5 DEF FirstOctets
  <2> QED BY <2>4, <2>5
<1> HIDE DEF Step, T, E1, b
<1>3. \A t \in T, x \in E1 : On(G, t, x) = Step(t, x)
  BY <1>2 DEF On
<1>4. FoldFn(E1, T, G)
  BY <1>2 DEF FoldFn
<1> HIDE DEF G
<1>5. ASSUME NEW s \in Seq(E1) PROVE PrefixUpTo(g, s) = EndOf(s, b, T, G)
  <2> DEFINE len == Len(s)
             Eq(iter) == iter = [q \in SUBSET DOMAIN s |->
                           IF q = {} THEN b ELSE Step(iter[q \ {Max(q)}], s[Max(q)])]
             iter == CHOOSE iter : Eq(iter)
  <2>1. len \in Nat /\ DOMAIN s = 1..len /\ \A k \in 1..len : s[k] \in E1
    OBVIOUS
  <2>2. PrefixUpTo(g, s) = iter[1..len]
    BY <2>1 DEF PrefixUpTo, Step, b, FoldLeft, MapThenFoldSet
  <2> HIDE DEF len
  <2>3. PICK F : IterOf(F, s, b, T, G)
    BY <1>1, <1>4, IterExists
  <2>4. Eq(F)
    <3>0. F \in [SUBSET (1..len) -> T] /\ \A q \in SUBSET (1..len) :
            F[q] = IF q = {} THEN b ELSE On(G, F[q \ {Max(q)}], s[Max(q)])
      BY <2>3 DEF IterOf, len
    <3>1. ASSUME NEW q \in SUBSET (1..len), q # {}
          PROVE  On(G, F[q \ {Max(q)}], s[Max(q)]) = Step(F[q \ {Max(q)}], s[Max(q)])
      <4>1. Max(q) \in 1..len /\ F[q \ {Max(q)}] \in T
        BY <2>1, <3>0, <3>1, MaxIsIn
      <4> QED BY <1>3, <2>1, <4>1
    <3>2. F = [q \in SUBSET (1..len) |-> F[q]]
      BY <3>0
    <3> QED BY <2>1, <3>0, <3>1, <3>2
  <2>5. Eq(iter)
    BY <2>4, Zenon
  <2> HIDE DEF iter
  <2>6. iter[{}] = b
    BY <2>5
  <2>7. ASSUME NEW q \in SUBSET (1..len), q # {}, iter[q \ {Max(q)}] \in T
        PROVE  iter[q] = On(G, iter[q \ {Max(q)}], s[Max(q)])
    <3>1. Max(q) \in 1..len
      BY <2>1, <2>7, MaxIsIn
    <3>2. iter[q] = Step(iter[q \ {Max(q)}], s[Max(q)])
      BY <2>1, <2>5, <2>7
    <3> QED BY <1>3, <2>1, <2>7, <3>1, <3>2
  <2> HIDE DEF Eq
  <2>8. Iterates(iter, s, b, T, G)
    BY <2>6, <2>7 DEF Iterates, len
  <2>9. iter[1..Len(s)] = EndOf(s, b, T, G)
    BY <1>1, <1>4, <2>8, IterEnds
  <2> QED BY <2>2, <2>9 DEF len
<1>6. <<>> \in Seq(E1) /\ \A s \in Seq(E1), x \in E1 : Append(s, x) \in Seq(E1)
  OBVIOUS
<1>7. Unfolds(E1, b, T, G)
  BY <1>1, <1>4, EndUnfolds
<1>8. /\ EndOf(<<>>, b, T, G) = b
      /\ \A s \in Seq(E1) : EndOf(s, b, T, G) \in T
      /\ \A s \in Seq(E1), x \in E1 : EndOf(Append(s, x), b, T, G) = On(G, EndOf(s, b, T, G), x)
  BY <1>7 DEF Unfolds
<1>9. PrefixUpTo(g, <<>>) = b /\ \A s \in Seq(E1) : PrefixUpTo(g, s) \in T
  BY <1>5, <1>6, <1>8
<1>10. ASSUME NEW s \in Seq(E1), NEW x \in E1 PROVE PrefixUpTo(g, Append(s, x)) = Step(PrefixUpTo(g, s), x)
  <2>1. PrefixUpTo(g, Append(s, x)) = EndOf(Append(s, x), b, T, G) /\ PrefixUpTo(g, s) = EndOf(s, b, T, G)
    BY <1>5, <1>6
  <2> QED BY <1>3, <1>8, <2>1
<1> QED BY <1>9, <1>10 DEF PrefixFacts, Step, T, E1, b

\* The reassembled beginning of a stream is a run of its octets from the first.
LEMMA PrefixIsRun ==
    ASSUME NEW n \in Nat, NEW g \in Pieces(n)
    PROVE  _reassemble_crypto_prefix(g) \in FirstOctets(n)
<1>1. Below(AllOctets) \in Seq(Nat)
  BY BelowUnfolds, LengthsAre
<1>2. Offsets(g) \in Seq(DOMAIN g)
  BY <1>1, OffsetsAre, OnlyIn
<1>3. PrefixFacts(n, g)
  BY PrefixUnfolds
<1>4. PrefixUpTo(g, Offsets(g)) \in FirstOctets(n)
  BY <1>2, <1>3 DEF PrefixFacts
<1> QED BY <1>4 DEF PrefixUpTo, _reassemble_crypto_prefix

LEMMA FoundIsWhole ==
    ASSUME NEW n \in Nat, NEW data \in FirstOctets(n)
    PROVE  _parse_handshake_from_crypto(data, n) \in {<<>>, Octets(1, n)}
<1>1. PICK k \in 0..n : data = Octets(1, k)
  BY DEF FirstOctets
<1>2. data \in Seq(Nat) /\ Len(data) = k
  BY <1>1, OctetsFromOne
<1>3. CASE k < n
  BY <1>2, <1>3 DEF _parse_handshake_from_crypto
<1>4. CASE k = n
  <2>1. SubSeq(data, 1, n) = data
    BY <1>2, <1>4
  <2> QED BY <1>1, <1>2, <1>4, <2>1 DEF _parse_handshake_from_crypto
<1> QED BY <1>3, <1>4

-----------------------------------------------------------------------------
(* Packets, and what the loop over the Initial packets holds.               *)

Ids == {"", "original", "retry", "client", "server", "any"}

Packet ==
    {p \in [type : {"initial", "handshake", "short", "retry", "probe"}, toServer : BOOLEAN,
            dcid : Ids, key : Ids, frames : Seq(AnyFrame(AllOctets))] :
        /\ p.type = "initial" =>
              p.frames \in Seq(AnyFrame(IF p.toServer THEN ClientHelloLen ELSE ServerHelloLen))
        /\ p.type = "handshake" /\ ~p.toServer => p.frames \in Seq(AnyFrame(Flight))}

Hello == [dcid : Ids, client : Pieces(ClientHelloLen), server : Pieces(ServerHelloLen),
          ch : {<<>>, ClientHello}, sh : {<<>>, ServerHello}]

NoHello == [dcid |-> "", client |-> <<>>, server |-> <<>>, ch |-> <<>>, sh |-> <<>>]

LEMMA HellosAre == ClientHello = Octets(1, ClientHelloLen) /\ ServerHello = Octets(1, ServerHelloLen)
BY LengthsAre DEF ClientHello, ServerHello, Octets

LEMMA FirstKeeps ==
    ASSUME NEW n, NEW base \in Pieces(n), NEW frames \in Seq(FrameOf(n))
    PROVE  AddFirst(base, frames) \in Pieces(n)
<1>1. FirstFacts(n, base)
  BY FirstUnfolds
<1> QED BY <1>1 DEF FirstFacts

LEMMA FoundIs ==
    ASSUME NEW n \in Nat, NEW g \in Pieces(n)
    PROVE  _parse_handshake_from_crypto(_reassemble_crypto_prefix(g), n) \in {<<>>, Octets(1, n)}
BY PrefixIsRun, FoundIsWhole

\* The frames that an Initial gives to the loop belong to the stream of its
\* sender.
LEMMA OpenedFrames ==
    ASSUME NEW p \in Packet, p.type = "initial", NEW opened,
           opened \in {<<>>, _parse_crypto_frames(p.frames)}
    PROVE  opened \in Seq(FrameOf(IF p.toServer THEN ClientHelloLen ELSE ServerHelloLen))
<1> DEFINE n == IF p.toServer THEN ClientHelloLen ELSE ServerHelloLen
<1>1. p.frames \in Seq(AnyFrame(n))
  BY DEF Packet
<1> HIDE DEF n
<1>2. _parse_crypto_frames(p.frames) \in Seq(FrameOf(n)) /\ <<>> \in Seq(FrameOf(n))
  BY <1>1, ParsedFrames
<1> QED BY <1>2 DEF n

LEMMA StepKeepsHello ==
    ASSUME NEW acc \in Hello, NEW p \in Packet
    PROVE  InitialStep(acc, p) \in Hello
<1>1. CASE p.type # "initial" \/ (acc.ch # <<>> /\ acc.sh # <<>>)
  BY <1>1 DEF InitialStep
<1>2. CASE ~(p.type # "initial" \/ (acc.ch # <<>> /\ acc.sh # <<>>))
  <2> DEFINE opened == IF KeysDcid(acc, p) = p.key THEN _parse_crypto_frames(p.frames) ELSE <<>>
             client == IF p.toServer THEN AddFirst(acc.client, opened) ELSE acc.client
             server == IF p.toServer THEN acc.server ELSE AddFirst(acc.server, opened)
             ch == IF acc.ch # <<>> THEN acc.ch
                   ELSE _parse_handshake_from_crypto(_reassemble_crypto_prefix(client), ClientHelloLen)
             sh == IF acc.sh # <<>> THEN acc.sh
                   ELSE _parse_handshake_from_crypto(_reassemble_crypto_prefix(server), ServerHelloLen)
             dcidOf == IF p.toServer THEN p.dcid ELSE acc.dcid
  <2>1. InitialStep(acc, p) = [dcid |-> dcidOf, client |-> client, server |-> server, ch |-> ch, sh |-> sh]
    BY <1>2 DEF InitialStep
  <2>2. /\ acc.client \in Pieces(ClientHelloLen) /\ acc.server \in Pieces(ServerHelloLen)
        /\ acc.ch \in {<<>>, ClientHello} /\ acc.sh \in {<<>>, ServerHello} /\ acc.dcid \in Ids
        /\ p.dcid \in Ids /\ p.toServer \in BOOLEAN
    BY DEF Hello, Packet
  <2>3. opened \in {<<>>, _parse_crypto_frames(p.frames)}
    OBVIOUS
  <2> HIDE DEF opened
  <2>4. opened \in Seq(FrameOf(IF p.toServer THEN ClientHelloLen ELSE ServerHelloLen))
    BY <1>2, <2>3, OpenedFrames
  <2>5. client \in Pieces(ClientHelloLen)
    <3>1. CASE p.toServer
      BY <2>2, <2>4, <3>1, FirstKeeps
    <3>2. CASE ~p.toServer
      BY <2>2, <3>2
    <3> QED BY <3>1, <3>2
  <2>6. server \in Pieces(ServerHelloLen)
    <3>1. CASE p.toServer
      BY <2>2, <3>1
    <3>2. CASE ~p.toServer
      BY <2>2, <2>4, <3>2, FirstKeeps
    <3> QED BY <3>1, <3>2
  <2> HIDE DEF client, server
  <2>7. ch \in {<<>>, ClientHello}
    <3>1. _parse_handshake_from_crypto(_reassemble_crypto_prefix(client), ClientHelloLen) \in {<<>>, ClientHello}
      BY <2>5, LengthsAre, HellosAre, FoundIs
    <3> QED BY <2>2, <3>1
  <2>8. sh \in {<<>>, ServerHello}
    <3>1. _parse_handshake_from_crypto(_reassemble_crypto_prefix(server), ServerHelloLen) \in {<<>>, ServerHello}
      BY <2>6, LengthsAre, HellosAre, FoundIs
    <3> QED BY <2>2, <3>1
  <2>9. dcidOf \in Ids
    BY <2>2
  <2> HIDE DEF ch, sh, dcidOf
  <2> QED BY <2>1, <2>5, <2>6, <2>7, <2>8, <2>9 DEF Hello
<1> QED BY <1>1, <1>2

HelloFrom(s) == FoldLeft(InitialStep, NoHello, s)

HelloFacts ==
    /\ HelloFrom(<<>>) = NoHello
    /\ \A s \in Seq(Packet) : HelloFrom(s) \in Hello
    /\ \A s \in Seq(Packet), x \in Packet :
          HelloFrom(Append(s, x)) =
             InitialStep(HelloFrom(s), x)

LEMMA HelloUnfolds == HelloFacts
<1> DEFINE Step(t, x) == InitialStep(t, x)
           T == Hello
           E1 == Packet
           b == NoHello
           G == [p \in T \X E1 |-> Step(p[1], p[2])]
<1>1. b \in T
  BY NoPieces DEF NoHello, Hello, Ids
<1>2. \A t \in T, x \in E1 : Step(t, x) \in T
  BY StepKeepsHello
<1> HIDE DEF Step, T, E1, b
<1>3. \A t \in T, x \in E1 : On(G, t, x) = Step(t, x)
  BY <1>2 DEF On
<1>4. FoldFn(E1, T, G)
  BY <1>2 DEF FoldFn
<1> HIDE DEF G
<1>5. ASSUME NEW s \in Seq(E1) PROVE HelloFrom(s) = EndOf(s, b, T, G)
  <2> DEFINE len == Len(s)
             Eq(iter) == iter = [q \in SUBSET DOMAIN s |->
                           IF q = {} THEN b ELSE Step(iter[q \ {Max(q)}], s[Max(q)])]
             iter == CHOOSE iter : Eq(iter)
  <2>1. len \in Nat /\ DOMAIN s = 1..len /\ \A k \in 1..len : s[k] \in E1
    OBVIOUS
  <2>2. HelloFrom(s) = iter[1..len]
    BY <2>1 DEF HelloFrom, Step, b, FoldLeft, MapThenFoldSet
  <2> HIDE DEF len
  <2>3. PICK F : IterOf(F, s, b, T, G)
    BY <1>1, <1>4, IterExists
  <2>4. Eq(F)
    <3>0. F \in [SUBSET (1..len) -> T] /\ \A q \in SUBSET (1..len) :
            F[q] = IF q = {} THEN b ELSE On(G, F[q \ {Max(q)}], s[Max(q)])
      BY <2>3 DEF IterOf, len
    <3>1. ASSUME NEW q \in SUBSET (1..len), q # {}
          PROVE  On(G, F[q \ {Max(q)}], s[Max(q)]) = Step(F[q \ {Max(q)}], s[Max(q)])
      <4>1. Max(q) \in 1..len /\ F[q \ {Max(q)}] \in T
        BY <2>1, <3>0, <3>1, MaxIsIn
      <4> QED BY <1>3, <2>1, <4>1
    <3>2. F = [q \in SUBSET (1..len) |-> F[q]]
      BY <3>0
    <3> QED BY <2>1, <3>0, <3>1, <3>2
  <2>5. Eq(iter)
    BY <2>4, Zenon
  <2> HIDE DEF iter
  <2>6. iter[{}] = b
    BY <2>5
  <2>7. ASSUME NEW q \in SUBSET (1..len), q # {}, iter[q \ {Max(q)}] \in T
        PROVE  iter[q] = On(G, iter[q \ {Max(q)}], s[Max(q)])
    <3>1. Max(q) \in 1..len
      BY <2>1, <2>7, MaxIsIn
    <3>2. iter[q] = Step(iter[q \ {Max(q)}], s[Max(q)])
      BY <2>1, <2>5, <2>7
    <3> QED BY <1>3, <2>1, <2>7, <3>1, <3>2
  <2> HIDE DEF Eq
  <2>8. Iterates(iter, s, b, T, G)
    BY <2>6, <2>7 DEF Iterates, len
  <2>9. iter[1..Len(s)] = EndOf(s, b, T, G)
    BY <1>1, <1>4, <2>8, IterEnds
  <2> QED BY <2>2, <2>9 DEF len
<1>6. <<>> \in Seq(E1) /\ \A s \in Seq(E1), x \in E1 : Append(s, x) \in Seq(E1)
  OBVIOUS
<1>7. Unfolds(E1, b, T, G)
  BY <1>1, <1>4, EndUnfolds
<1>8. /\ EndOf(<<>>, b, T, G) = b
      /\ \A s \in Seq(E1) : EndOf(s, b, T, G) \in T
      /\ \A s \in Seq(E1), x \in E1 : EndOf(Append(s, x), b, T, G) = On(G, EndOf(s, b, T, G), x)
  BY <1>7 DEF Unfolds
<1>9. HelloFrom(<<>>) = b /\ \A s \in Seq(E1) : HelloFrom(s) \in T
  BY <1>5, <1>6, <1>8
<1>10. ASSUME NEW s \in Seq(E1), NEW x \in E1 PROVE HelloFrom(Append(s, x)) = Step(HelloFrom(s), x)
  <2>1. HelloFrom(Append(s, x)) = EndOf(Append(s, x), b, T, G) /\ HelloFrom(s) = EndOf(s, b, T, G)
    BY <1>5, <1>6
  <2> QED BY <1>3, <1>8, <2>1
<1> QED BY <1>9, <1>10 DEF HelloFacts, Step, T, E1, b

Datagrams == Seq(Seq(Packet))

LEMMA HelloIs ==
    ASSUME NEW datagrams \in Datagrams
    PROVE  _extract_quic_crypto_data(datagrams) = HelloFrom(FlattenSeq(datagrams)) /\ FlattenSeq(datagrams) \in Seq(Packet)
<1>1. FlattenFacts(Packet)
  BY FlattenUnfolds
<1>2. FlattenSeq(datagrams) \in Seq(Packet)
  BY <1>1 DEF FlattenFacts, Datagrams
<1> QED BY <1>2 DEF _extract_quic_crypto_data, HelloFrom, NoHello, _iter_coalesced_packets

LEMMA HelloTyped ==
    ASSUME NEW datagrams \in Datagrams
    PROVE  _extract_quic_crypto_data(datagrams) \in Hello
BY HelloIs, HelloUnfolds DEF HelloFacts
-----------------------------------------------------------------------------
(* The session: the capture holds packets of the two endpoints.             *)

ArchiveOf(archive, r) ==
    CASE archive = "raw" -> r
      [] archive = "compact" -> _quic_packet_events(r)
      [] archive = "minarx"  -> CompactQuic(r)

ResultOf(r, usable, truth) == [a \in Archives |-> derive_quic(ArchiveOf(a, r), usable, truth)]

SessionInv ==
    /\ phase \in {"talk", "stopped", "derived"}
    /\ sent \in [Stream -> Nat] /\ \A s \in Stream : sent[s] <= StreamLen[s]
    /\ dcid \in Ids /\ key \in Ids
    /\ rows \in Datagrams

\* The result is that of the capture as it is.
ResultInv ==
    /\ phase # "derived" => result = [a \in Archives |-> NoResult]
    /\ phase = "derived" =>
          \E r \in Datagrams, usable, truth \in BOOLEAN : r = rows /\ result = ResultOf(r, usable, truth)

Inv == SessionInv /\ ResultInv

LEMMA StreamLengths ==
    /\ StreamLen["client_initial"] = ClientHelloLen /\ StreamLen["server_initial"] = ServerHelloLen
    /\ StreamLen["server_handshake"] = Flight
    /\ \A s \in Stream : StreamLen[s] \in Nat /\ StreamLen[s] <= AllOctets
BY LengthsAre DEF StreamLen, Stream, AllOctets

LEMMA FlightPositive == Flight \in Nat \ {0}
<1>1. Messages \in Seq(Nat \ {0}) /\ Messages # <<>>
  BY SessionAssumption DEF SessionAssumption
<1>2. PICK t \in Seq(Nat \ {0}), x \in Nat \ {0} : Messages = Append(t, x)
  BY <1>1, SequenceEmptyOrAppend
<1>3. t \in Seq(Nat) /\ x \in Nat
  BY <1>2
<1>4. SumFacts(0)
  BY SumUnfolds
<1>5. SumFrom(0, t) \in Nat /\ SumFrom(0, Append(t, x)) = SumFrom(0, t) + x
  BY <1>3, <1>4 DEF SumFacts
<1>6. Flight = SumFrom(0, Messages)
  BY DEF Flight, SumFrom
<1> QED BY <1>2, <1>3, <1>5, <1>6

LEMMA FrameIs ==
    ASSUME NEW n \in Nat, NEW from \in 1..n, NEW to \in from..n
    PROVE  Frame(from, to) \in FrameOf(n)
<1> DEFINE o == from - 1
           d == [i \in 1..(to - from + 1) |-> from + i - 1]
<1>1. o \in Nat /\ o < to /\ to \in 1..n /\ o <= to /\ o + 1 = from /\ to \in Nat
  OBVIOUS
<1>2. d = Octets(from, to)
  BY DEF Octets
<1>3. Frame(from, to) = [offset |-> o, data |-> d]
  BY DEF Frame
<1> HIDE DEF o, d
<1>4. d = Octets(o + 1, to)
  BY <1>1, <1>2
<1>5. d \in Seq(Nat)
  BY <1>1, <1>4, OctetsBehind
<1> QED BY <1>1, <1>3, <1>4, <1>5 DEF FrameOf

LEMMA FramesFit ==
    ASSUME NEW n \in Nat, NEW k \in Nat, n <= k
    PROVE  FrameOf(n) \subseteq FrameOf(k) /\ Seq(AnyFrame(n)) \subseteq Seq(AnyFrame(k))
<1>1. FrameOf(n) \subseteq FrameOf(k)
  <2>1. ASSUME NEW f \in FrameOf(n) PROVE f \in FrameOf(k)
    <3>1. f \in [offset : Nat, data : Seq(Nat)]
      BY DEF FrameOf
    <3>2. PICK m \in 1..n : f.offset < m /\ f.data = Octets(f.offset + 1, m)
      BY DEF FrameOf
    <3>3. m \in 1..k
      OBVIOUS
    <3> QED BY <3>1, <3>2, <3>3 DEF FrameOf
  <2> QED BY <2>1
<1>2. AnyFrame(n) \subseteq AnyFrame(k)
  BY <1>1 DEF AnyFrame
<1> HIDE DEF AnyFrame
<1>3. ASSUME NEW s \in Seq(AnyFrame(n)) PROVE s \in Seq(AnyFrame(k))
  BY <1>2
<1> QED BY <1>1, <1>3

\* A packet with frames of its stream.
LEMMA PacketIs ==
    ASSUME NEW s \in Stream, NEW frames \in Seq(AnyFrame(StreamLen[s])), NEW p,
           dcid \in Ids, key \in Ids,
           p = IF s = "server_handshake" THEN Handshake(FALSE, frames) ELSE Initial(ToServer(s), frames)
    PROVE  p \in Packet
<1>1. frames \in Seq(AnyFrame(AllOctets))
  BY StreamLengths, LengthsAre, FramesFit
<1>2. CASE s = "server_handshake"
  BY <1>1, <1>2, StreamLengths DEF Handshake, Packet, Ids
<1>3. CASE s # "server_handshake"
  <2>1. /\ p.type = "initial" /\ p.toServer = (s = "client_initial") /\ p.frames = frames /\ p.dcid \in Ids
        /\ p.key \in Ids
        /\ p = [type |-> p.type, toServer |-> p.toServer, dcid |-> p.dcid, key |-> p.key, frames |-> p.frames]
    BY <1>3 DEF Initial, ToServer, Ids
  <2>2. StreamLen[s] = IF s = "client_initial" THEN ClientHelloLen ELSE ServerHelloLen
    BY <1>3, StreamLengths DEF Stream
  <2>3. p.frames \in Seq(AnyFrame(IF p.toServer THEN ClientHelloLen ELSE ServerHelloLen))
    <3>1. frames \in Seq(AnyFrame(IF s = "client_initial" THEN ClientHelloLen ELSE ServerHelloLen))
      BY <2>2
    <3> QED BY <2>1, <3>1, Zenon
  <2> QED BY <1>1, <2>1, <2>3 DEF Packet
<1> QED BY <1>2, <1>3

LEMMA PairIs ==
    ASSUME NEW S, NEW a \in S, NEW b \in S
    PROVE  <<a>> \o <<b>> = <<a, b>> /\ <<a, b>> \in Seq(S) /\ <<a>> \in Seq(S)
<1>1. <<a>> \in Seq(S) /\ <<a, b>> \in Seq(S)
  OBVIOUS
<1>2. Append(<<a>>, b) = <<a>> \o <<b>>
  BY <1>1, AppendIsConcat
<1>3. Append(<<a>>, b) = <<a, b>>
  <2> DEFINE t == Append(<<a>>, b)
  <2>1. t \in Seq(S) /\ Len(t) = 2 /\ t[1] = a /\ t[2] = b
    BY <1>1, AppendProperties
  <2> HIDE DEF t
  <2>2. Len(<<a, b>>) = 2 /\ <<a, b>>[1] = a /\ <<a, b>>[2] = b
    OBVIOUS
  <2>3. \A i \in 1..Len(t) : t[i] = <<a, b>>[i]
    <3>1. \A i \in 1..2 : i = 1 \/ i = 2
      OBVIOUS
    <3> QED BY <2>1, <2>2, <3>1
  <2>4. t = <<a, b>>
    BY <1>1, <2>1, <2>2, <2>3, SeqEqual
  <2> QED BY <2>4 DEF t
<1> QED BY <1>1, <1>2, <1>3

LEMMA CryptoIs ==
    ASSUME NEW s \in Stream, NEW from \in 1..StreamLen[s], NEW to \in from..StreamLen[s],
           dcid \in Ids, key \in Ids
    PROVE  /\ CryptoPacket(s, from, to) \in Packet
           /\ [CryptoPacket(s, from, to) EXCEPT !.frames = <<Ping>> \o @] \in Packet
<1> DEFINE n == StreamLen[s]
           f == Frame(from, to)
           P(frames) == IF s = "server_handshake" THEN Handshake(FALSE, frames) ELSE Initial(ToServer(s), frames)
<1>1. n \in Nat
  BY StreamLengths
<1>2. f \in AnyFrame(n) /\ Ping \in AnyFrame(n)
  BY <1>1, FrameIs DEF AnyFrame
<1>3. CryptoPacket(s, from, to) = P(<<f>>)
  BY DEF CryptoPacket
<1> HIDE DEF f
<1>4. [CryptoPacket(s, from, to) EXCEPT !.frames = <<Ping>> \o @] = P(<<Ping, f>>)
  <2>1. P(<<f>>).frames = <<f>> /\ [P(<<f>>) EXCEPT !.frames = <<Ping, f>>] = P(<<Ping, f>>)
    <3>1. CASE s = "server_handshake"
      <4> DEFINE H(b, frames) == [type |-> "handshake", toServer |-> b, dcid |-> "any", key |-> "any",
                                  frames |-> frames]
      <4>1. \A b, x, y : [H(b, x) EXCEPT !.frames = y] = H(b, y) /\ H(b, x).frames = x
        OBVIOUS
      <4>2. \A frames : P(frames) = H(FALSE, frames)
        BY <3>1 DEF Handshake
      <4> HIDE DEF P, H
      <4> QED BY <4>1, <4>2
    <3>2. CASE s # "server_handshake"
      <4>1. \A frames : P(frames) = Initial(ToServer(s), frames)
        BY <3>2
      <4> HIDE DEF P
      <4> QED BY <4>1 DEF Initial
    <3> QED BY <3>1, <3>2
  <2>2. <<Ping>> \o <<f>> = <<Ping, f>>
    BY <1>2, PairIs
  <2> HIDE DEF P
  <2> QED BY <1>3, <2>1, <2>2
<1>5. <<f>> \in Seq(AnyFrame(n)) /\ <<Ping, f>> \in Seq(AnyFrame(n))
  BY <1>2
<1> QED BY <1>3, <1>4, <1>5, PacketIs

LEMMA PlainPackets ==
    /\ Probe \in Packet /\ RetryPacket \in Packet
    /\ \A b \in BOOLEAN : Short(b) \in Packet
    /\ Handshake(TRUE, <<Frame(1, 1)>>) \in Packet
<1>1. <<>> \in Seq(AnyFrame(AllOctets))
  OBVIOUS
<1>2. Frame(1, 1) \in AnyFrame(AllOctets)
  <2>1. AllOctets \in Nat /\ 1 \in 1..AllOctets
    BY LengthsAre DEF AllOctets
  <2>2. 1 \in 1..AllOctets /\ 1 \in 1..AllOctets
    BY <2>1
  <2> QED BY <2>1, FrameIs DEF AnyFrame
<1>3. <<Frame(1, 1)>> \in Seq(AnyFrame(AllOctets))
  BY <1>2
<1> HIDE DEF AnyFrame
<1> QED BY <1>1, <1>3 DEF Probe, RetryPacket, Short, Handshake, Packet, Ids

LEMMA EmptyInitial ==
    ASSUME NEW b \in BOOLEAN, dcid \in Ids, key \in Ids
    PROVE  Initial(b, <<>>) \in Packet
<1>1. \A n : <<>> \in Seq(AnyFrame(n))
  OBVIOUS
<1> QED BY <1>1 DEF Initial, Packet, Ids

LEMMA CaptureKeeps ==
    ASSUME rows \in Datagrams, NEW datagram \in Seq(Packet), NEW cost, Capture(datagram, cost)
    PROVE  rows' \in Datagrams
BY DEF Capture, Datagrams

LEMMA SessionStart == Init => SessionInv
<1> SUFFICES ASSUME Init PROVE SessionInv
  OBVIOUS
<1>1. rows = <<<<Probe>>>> /\ phase = "talk" /\ dcid = "original" /\ key = "original" /\ sent = [s \in Stream |-> 0]
  BY DEF Init, SessionInit
<1>2. <<<<Probe>>>> \in Datagrams
  BY PlainPackets DEF Datagrams
<1> QED BY <1>1, <1>2, StreamLengths DEF SessionInv, Ids

LEMMA SessionStep ==
    ASSUME SessionInv, Talk
    PROVE  SessionInv'
<1>1. /\ phase = "talk" /\ sent \in [Stream -> Nat] /\ \A s \in Stream : sent[s] <= StreamLen[s]
      /\ dcid \in Ids /\ key \in Ids /\ rows \in Datagrams
  BY DEF SessionInv, Talk
<1>2. ASSUME NEW s \in Stream, NEW n \in 1..3, SendCrypto(s, n) PROVE SessionInv'
  <2> DEFINE p == CryptoPacket(s, sent[s] + 1, sent[s] + n)
  <2>1. sent[s] + 1 \in 1..StreamLen[s] /\ sent[s] + n \in (sent[s] + 1)..StreamLen[s]
    BY <1>1, <1>2, StreamLengths DEF SendCrypto
  <2>2. p \in Packet /\ [p EXCEPT !.frames = <<Ping>> \o @] \in Packet
    BY <1>1, <2>1, CryptoIs
  <2>3. Capture(<<p>>, 0) \/ Capture(<<[p EXCEPT !.frames = <<Ping>> \o @]>>, 1)
    BY <1>2 DEF SendCrypto
  <2> HIDE DEF p
  <2>4. rows' \in Datagrams
    <3>1. CASE Capture(<<p>>, 0)
      <4>1. <<p>> \in Seq(Packet)
        BY <2>2
      <4> QED BY <1>1, <3>1, <4>1, CaptureKeeps
    <3>2. CASE Capture(<<[p EXCEPT !.frames = <<Ping>> \o @]>>, 1)
      <4>1. <<[p EXCEPT !.frames = <<Ping>> \o @]>> \in Seq(Packet)
        BY <2>2
      <4> QED BY <1>1, <3>2, <4>1, CaptureKeeps
    <3> QED BY <2>3, <3>1, <3>2
  <2>5. /\ sent' = [sent EXCEPT ![s] = @ + n] /\ sent[s] + n <= StreamLen[s]
        /\ dcid' = (IF ToServer(s) THEN dcid ELSE "server") /\ key' = key /\ phase' = phase
    BY <1>2 DEF SendCrypto, Switch
  <2>6. sent' \in [Stream -> Nat] /\ \A t \in Stream : sent'[t] <= StreamLen[t]
    BY <1>1, <2>5
  <2> QED BY <1>1, <2>4, <2>5, <2>6 DEF SessionInv, Ids
<1>3. CASE SendCoalesced
  <2> DEFINE p == CryptoPacket("server_initial", 1, ServerHelloLen)
             q == CryptoPacket("server_handshake", 1, Flight)
  <2>1. Capture(<<p, q>>, 0)
    BY <1>3 DEF SendCoalesced
  <2>2. p \in Packet
    <3>1. "server_initial" \in Stream /\ 1 \in 1..StreamLen["server_initial"]
          /\ ServerHelloLen \in 1..StreamLen["server_initial"]
      BY StreamLengths, LengthsAre DEF Stream
    <3> QED BY <1>1, <3>1, CryptoIs
  <2>3. q \in Packet
    <3>1. "server_handshake" \in Stream /\ 1 \in 1..StreamLen["server_handshake"]
          /\ Flight \in 1..StreamLen["server_handshake"]
      BY StreamLengths, FlightPositive DEF Stream
    <3> QED BY <1>1, <3>1, CryptoIs
  <2> HIDE DEF p, q
  <2>4. <<p, q>> \in Seq(Packet)
    BY <2>2, <2>3
  <2>5. rows' \in Datagrams
    BY <1>1, <2>1, <2>4, CaptureKeeps
  <2>6. /\ sent' = [sent EXCEPT !["server_initial"] = ServerHelloLen, !["server_handshake"] = Flight]
        /\ dcid' = "server" /\ key' = key /\ phase' = phase
    BY <1>3 DEF SendCoalesced, Switch, ToServer
  <2>7. sent' \in [Stream -> Nat] /\ \A t \in Stream : sent'[t] <= StreamLen[t]
    BY <1>1, <2>6, StreamLengths, LengthsAre DEF Stream
  <2> QED BY <1>1, <2>5, <2>6, <2>7 DEF SessionInv, Ids
<1>4. CASE Retry
  <2>1. <<RetryPacket>> \in Seq(Packet)
    BY PlainPackets
  <2>2. rows' \in Datagrams
    BY <1>1, <1>4, <2>1, CaptureKeeps DEF Retry
  <2>3. sent' = [sent EXCEPT !["client_initial"] = 0] /\ dcid' = "retry" /\ key' = "retry" /\ phase' = phase
    BY <1>4 DEF Retry
  <2>4. sent' \in [Stream -> Nat] /\ \A t \in Stream : sent'[t] <= StreamLen[t]
    BY <1>1, <2>3, StreamLengths DEF Stream
  <2> QED BY <1>1, <2>2, <2>3, <2>4 DEF SessionInv, Ids
<1>5. ASSUME NEW s \in Stream, NEW from \in 1..StreamLen[s], NEW to \in from..StreamLen[s], Resend(s, from, to)
      PROVE  SessionInv'
  <2>1. CryptoPacket(s, from, to) \in Packet
    BY <1>1, CryptoIs
  <2>2. <<CryptoPacket(s, from, to)>> \in Seq(Packet)
    BY <2>1
  <2>3. rows' \in Datagrams
    BY <1>1, <1>5, <2>2, CaptureKeeps DEF Resend
  <2>4. dcid' = (IF ToServer(s) THEN dcid ELSE "server") /\ UNCHANGED <<phase, sent, key>>
    BY <1>5 DEF Resend, Switch
  <2> QED BY <1>1, <2>3, <2>4 DEF SessionInv, Ids
<1>6. ASSUME NEW b \in BOOLEAN, AckInitial(b) PROVE SessionInv'
  <2>1. Initial(b, <<>>) \in Packet
    BY <1>1, EmptyInitial
  <2>2. <<Initial(b, <<>>)>> \in Seq(Packet)
    BY <2>1
  <2>3. rows' \in Datagrams
    BY <1>1, <1>6, <2>2, CaptureKeeps DEF AckInitial
  <2>4. dcid' = (IF b THEN dcid ELSE "server") /\ UNCHANGED <<phase, sent, key>>
    BY <1>6 DEF AckInitial
  <2> QED BY <1>1, <2>3, <2>4 DEF SessionInv, Ids
<1>7. ASSUME NEW b \in BOOLEAN, SendShort(b) PROVE SessionInv'
  <2> DEFINE d == IF b THEN <<Handshake(TRUE, <<Frame(1, 1)>>), Short(TRUE)>> ELSE <<Short(FALSE)>>
  <2>1. d \in Seq(Packet)
    <3>1. Handshake(TRUE, <<Frame(1, 1)>>) \in Packet /\ Short(TRUE) \in Packet /\ Short(FALSE) \in Packet
      BY PlainPackets
    <3>2. /\ <<Handshake(TRUE, <<Frame(1, 1)>>), Short(TRUE)>> \in Seq(Packet)
          /\ <<Short(FALSE)>> \in Seq(Packet)
      BY <3>1, PairIs
    <3> QED BY <3>2
  <2>2. Capture(d, 0)
    BY <1>7 DEF SendShort
  <2> HIDE DEF d
  <2>3. rows' \in Datagrams
    BY <1>1, <2>1, <2>2, CaptureKeeps
  <2>4. UNCHANGED <<phase, sent, dcid, key>>
    BY <1>7 DEF SendShort
  <2> QED BY <1>1, <2>3, <2>4 DEF SessionInv
<1> QED BY <1>2, <1>3, <1>4, <1>5, <1>6, <1>7 DEF Talk
-----------------------------------------------------------------------------
(* The invariant, the hellos and success.                                   *)

\* Each packet in a datagram of its own.
Singles(s) == [i \in DOMAIN s |-> <<s[i]>>]

LEMMA SinglesAre ==
    ASSUME NEW E, NEW s \in Seq(E)
    PROVE  Singles(s) \in Seq(Seq(E)) /\ FlattenSeq(Singles(s)) = s
<1> DEFINE Good == {t \in Seq(E) : Singles(t) \in Seq(Seq(E)) /\ FlattenSeq(Singles(t)) = t}
<1>1. FlattenFacts(E)
  BY FlattenUnfolds
<1>2. <<>> \in Good
  <2>1. Singles(<<>>) = <<>>
    BY DEF Singles
  <2>2. <<>> \in Seq(Seq(E)) /\ <<>> \in Seq(E)
    OBVIOUS
  <2>3. FlattenSeq(<<>>) = <<>>
    BY <1>1 DEF FlattenFacts
  <2> QED BY <2>1, <2>2, <2>3
<1>3. ASSUME NEW t \in Seq(E), NEW x \in E, t \in Good PROVE Append(t, x) \in Good
  <2> DEFINE u == Append(t, x)
             n == Len(t)
  <2>1. /\ n \in Nat /\ u \in Seq(E) /\ Len(u) = n + 1 /\ DOMAIN u = 1..(n + 1) /\ DOMAIN t = 1..n
        /\ u[n + 1] = x /\ \A i \in 1..n : u[i] = t[i]
    BY AppendProperties
  <2>2. \A i \in 1..n : t[i] \in E
    OBVIOUS
  <2>3. Singles(t) \in Seq(Seq(E)) /\ FlattenSeq(Singles(t)) = t
    BY <1>3
  <2> HIDE DEF u, n
  <2>4. DOMAIN Singles(t) = 1..n /\ Len(Singles(t)) = n /\ \A i \in 1..n : Singles(t)[i] = <<t[i]>>
    <3>1. DOMAIN Singles(t) = 1..n /\ \A i \in 1..n : Singles(t)[i] = <<t[i]>>
      BY <2>1 DEF Singles
    <3> HIDE DEF Singles
    <3> QED BY <2>1, <2>3, <3>1
  <2>5. <<x>> \in Seq(E)
    OBVIOUS
  <2> DEFINE v == Append(Singles(t), <<x>>)
  <2>6. /\ v \in Seq(Seq(E)) /\ DOMAIN v = 1..(n + 1) /\ v[n + 1] = <<x>>
        /\ \A i \in 1..n : v[i] = Singles(t)[i]
    BY <2>3, <2>4, <2>5, AppendProperties
  <2> HIDE DEF v
  <2>7. \A i \in 1..(n + 1) : v[i] = <<u[i]>>
    <3>1. \A i \in 1..(n + 1) : i \in 1..n \/ i = n + 1
      BY <2>1
    <3> QED BY <2>1, <2>4, <2>6, <3>1
  <2>8. v = [i \in 1..(n + 1) |-> v[i]]
    BY <2>6
  <2>9. Singles(u) = v
    BY <2>1, <2>7, <2>8 DEF Singles
  <2>10. FlattenSeq(v) = t \o <<x>>
    BY <1>1, <2>3, <2>5 DEF FlattenFacts, v
  <2>11. t \o <<x>> = u
    BY AppendIsConcat DEF u
  <2> QED BY <2>1, <2>6, <2>9, <2>10, <2>11 DEF u
<1> HIDE DEF Good
<1>4. Seq(E) \subseteq Good
  BY <1>2, <1>3, SeqInduction
<1> QED BY <1>4 DEF Good

LEMMA CompactIs ==
    ASSUME NEW r \in Datagrams
    PROVE  /\ FlattenSeq(r) \in Seq(Packet)
           /\ _quic_packet_events(r) \in Datagrams
           /\ FlattenSeq(_quic_packet_events(r)) = Only(FlattenSeq(r), {p \in ToSet(FlattenSeq(r)) : Kept(p)})
<1> DEFINE packets == FlattenSeq(r)
           kept == Only(packets, {p \in ToSet(packets) : Kept(p)})
<1>1. packets \in Seq(Packet)
  BY HelloIs
<1>2. kept \in Seq(Packet)
  BY <1>1, OnlyHolds
<1>3. _quic_packet_events(r) = Singles(kept)
  BY DEF _quic_packet_events, _iter_coalesced_packets, Singles
<1> HIDE DEF kept
<1>4. Singles(kept) \in Seq(Seq(Packet)) /\ FlattenSeq(Singles(kept)) = kept
  BY <1>2, SinglesAre
<1> QED BY <1>1, <1>3, <1>4 DEF Datagrams, kept

LEMMA ArchiveTyped ==
    ASSUME NEW r \in Datagrams, NEW a \in Archives
    PROVE  ArchiveOf(a, r) \in Datagrams
<1>1. _quic_packet_events(r) \in Datagrams
  BY CompactIs
<1>2. CompactQuic(r) \in Datagrams
  BY OnlyHolds DEF CompactQuic, Datagrams
<1> QED BY <1>1, <1>2 DEF ArchiveOf, Archives

LEMMA MaterializedIs ==
    \A a \in Archives : Materialized(a) = ArchiveOf(a, rows)
BY DEF Materialized, ArchiveOf, Archives

\* The session's state has its type, every packet in the capture is one that an
\* endpoint or the probe sends, a frame of a server's Handshake packet is a run of
\* the server's flight, and a result is what derive_quic makes of the capture.
THEOREM QuicInvariant == Spec => []Inv
<1>1. Init => Inv
  BY SessionStart DEF Init, SessionInit, Inv, ResultInv
<1>2. Inv /\ [Next]_vars => Inv'
  <2> SUFFICES ASSUME Inv, [Next]_vars PROVE Inv'
    OBVIOUS
  <2>1. SessionInv /\ ResultInv
    BY DEF Inv
  <2>2. CASE Talk /\ UNCHANGED result
    <3>1. SessionInv'
      BY <2>1, <2>2, SessionStep
    <3>2. phase = "talk" /\ phase' = "talk" /\ result' = result
      BY <2>2 DEF Talk, SendCrypto, SendCoalesced, Retry, Resend, AckInitial, SendShort
    <3> QED BY <2>1, <3>1, <3>2 DEF Inv, ResultInv
  <2>3. CASE Stop
    <3>1. phase = "talk" /\ phase' = "stopped" /\ UNCHANGED <<sent, dcid, key, rows, result>>
      BY <2>3 DEF Stop
    <3> QED BY <2>1, <3>1 DEF Inv, SessionInv, ResultInv
  <2>4. ASSUME NEW usable \in BOOLEAN, NEW truth \in BOOLEAN, Derive(usable, truth) PROVE Inv'
    <3>1. phase' = "derived" /\ UNCHANGED <<sent, dcid, key, rows>>
      BY <2>4 DEF Derive
    <3>2. SessionInv'
      BY <2>1, <3>1 DEF SessionInv
    <3>3. result' = ResultOf(rows, usable, truth)
      BY <2>4, MaterializedIs DEF Derive, ResultOf
    <3>4. PICK r \in Datagrams : r = rows
      BY <2>1 DEF SessionInv
    <3>5. r = rows' /\ result' = ResultOf(r, usable, truth)
      BY <3>1, <3>3, <3>4
    <3>6. ResultInv'
      BY <3>1, <3>5 DEF ResultInv
    <3> QED BY <3>2, <3>6 DEF Inv
  <2>5. CASE UNCHANGED vars
    BY <2>1, <2>5 DEF Inv, SessionInv, ResultInv, vars, sessionVars
  <2> QED BY <2>2, <2>3, <2>4, <2>5 DEF Next
<1> QED BY <1>1, <1>2, PTL DEF Spec

\* A hello that the recovery extracts of an archive is the endpoints' own, or there
\* is none, whatever was lost, repeated, cut otherwise or protected under keys
\* that the recovery does not have (_extract_quic_crypto_data).
THEOREM QuicHelloIsExact == Spec => []HelloIsExact
<1>1. Inv => HelloIsExact
  <2> SUFFICES ASSUME Inv, NEW a \in Archives
               PROVE  /\ Extracted(a).ch \in {<<>>, ClientHello}
                      /\ Extracted(a).sh \in {<<>>, ServerHello}
    BY DEF HelloIsExact
  <2>1. ArchiveOf(a, rows) \in Datagrams
    BY ArchiveTyped DEF Inv, SessionInv
  <2>2. Extracted(a) \in Hello
    BY <2>1, MaterializedIs, HelloTyped DEF Extracted
  <2> QED BY <2>2 DEF Hello
<1> QED BY <1>1, QuicInvariant, PTL

\* What derive_quic calls a success.
LEMMA GenuineResult ==
    ASSUME NEW datagrams, NEW usable \in BOOLEAN, NEW truth \in BOOLEAN, NEW q,
           q = derive_quic(datagrams, usable, truth), q.success
    PROVE  q.keylog = {RealHs, RealApp} /\ ~q.partial /\ HasShort(datagrams)
<1> DEFINE hello == _extract_quic_crypto_data(datagrams)
           hs == HandshakeSecret(hello)
           messages == IF hs = RealHs THEN _extract_quic_decrypted_handshake(datagrams) ELSE <<>>
           app == AppSecret(hello, Transcript(messages))
           all == {hs, app}
           plain == verify_quic_stream_data(datagrams, all)
<1>1. q = IF Refused(hello, usable) THEN NoResult
          ELSE IF messages = <<>> THEN [success |-> FALSE, partial |-> TRUE, keylog |-> {hs}]
          ELSE [success |-> Succeeded(truth, all, plain), partial |-> FALSE, keylog |-> all]
  BY DEF derive_quic
<1>2. hs # RealApp /\ RealHs # RealApp
  BY DEF HandshakeSecret, RealApp, RealHs
<1> HIDE DEF hs, app, all, plain
<1>3. messages # <<>> /\ q = [success |-> Succeeded(truth, all, plain), partial |-> FALSE, keylog |-> all]
  BY <1>1 DEF NoResult
<1>4. hs = RealHs
  BY <1>3
<1>5. Succeeded(truth, all, plain)
  BY <1>3
<1>6. RealApp \in all /\ HasShort(datagrams)
  BY <1>5 DEF Succeeded, plain, verify_quic_stream_data
<1>7. all = {RealHs, RealApp}
  BY <1>2, <1>4, <1>6 DEF all
<1> QED BY <1>3, <1>6, <1>7

\* Success means the session's own secrets, also where no ground truth was there
\* to compare with, and application data in the archive (derive_quic).
THEOREM QuicSuccessIsGenuine == Spec => []SuccessIsGenuine
<1>1. Inv => SuccessIsGenuine
  <2> SUFFICES ASSUME Inv, NEW a \in Archives, result[a].success
               PROVE  /\ result[a].keylog = {RealHs, RealApp} /\ ~result[a].partial
                      /\ HasShort(Materialized(a))
    BY DEF SuccessIsGenuine
  <2>1. phase = "derived"
    BY DEF Inv, ResultInv, NoResult
  <2>2. PICK usable, truth \in BOOLEAN : result = ResultOf(rows, usable, truth)
    BY <2>1 DEF Inv, ResultInv
  <2>3. result[a] = derive_quic(ArchiveOf(a, rows), usable, truth)
    BY <2>2 DEF ResultOf
  <2> QED BY <2>3, GenuineResult, MaterializedIs
<1> QED BY <1>1, QuicInvariant, PTL
-----------------------------------------------------------------------------
(* The archives agree: the recovery reads the Initial packets, the server's *)
(* Handshake packets and whether there is a 1-RTT packet, no more.          *)

Initials == {p \in Packet : p.type = "initial"}
ServerHandshakes == {p \in Packet : p.type = "handshake" /\ ~p.toServer}
Shorts == {p \in Packet : p.type = "short"}

Found(mine) ==
    ParsedMessages(Reassembled(AddLast(<<>>,
        FlattenSeq([i \in DOMAIN mine |-> _parse_crypto_frames(mine[i].frames)]))))

LEMMA FlattenedSet ==
    ASSUME NEW E, NEW s \in Seq(Seq(E))
    PROVE  ToSet(FlattenSeq(s)) = UNION {ToSet(s[i]) : i \in DOMAIN s}
<1> DEFINE U(t) == UNION {ToSet(t[i]) : i \in DOMAIN t}
           Good == {t \in Seq(Seq(E)) : ToSet(FlattenSeq(t)) = U(t)}
           T == Seq(E)
<1>1. FlattenFacts(E)
  BY FlattenUnfolds
<1>2. /\ FlattenSeq(<<>>) = <<>> /\ \A t \in Seq(T) : FlattenSeq(t) \in T
      /\ \A t \in Seq(T), x \in T : FlattenSeq(Append(t, x)) = FlattenSeq(t) \o x
  BY <1>1 DEF FlattenFacts
<1>3. <<>> \in Good
  <2>1. ToSet(<<>>) = {} /\ U(<<>>) = {} /\ <<>> \in Seq(T)
    BY DEF ToSet
  <2> QED BY <1>2, <2>1
<1>4. ASSUME NEW t \in Seq(T), NEW x \in T, t \in Good PROVE Append(t, x) \in Good
  <2> DEFINE u == Append(t, x)
             n == Len(t)
             a == FlattenSeq(t)
  <2>1. /\ n \in Nat /\ u \in Seq(T) /\ DOMAIN u = 1..(n + 1) /\ DOMAIN t = 1..n
        /\ u[n + 1] = x /\ \A i \in 1..n : u[i] = t[i]
    BY AppendProperties
  <2>2. a \in T /\ ToSet(a) = U(t) /\ FlattenSeq(u) = a \o x
    BY <1>2, <1>4
  <2> HIDE DEF T, a
  <2>3. ToSet(a \o x) = ToSet(a) \union ToSet(x)
    BY <2>2, ConcatSet DEF T
  <2> HIDE DEF u, n
  <2>4. U(u) = U(t) \union ToSet(x)
    <3>1. \A i \in 1..(n + 1) : i \in 1..n \/ i = n + 1
      BY <2>1
    <3>2. n + 1 \in 1..(n + 1) /\ 1..n \subseteq 1..(n + 1)
      BY <2>1
    <3> QED BY <2>1, <3>1, <3>2
  <2> HIDE DEF U
  <2> QED BY <2>1, <2>2, <2>3, <2>4 DEF u, T
<1> HIDE DEF Good, T
<1>5. Seq(T) \subseteq Good
  BY <1>3, <1>4, SeqInduction
<1>6. s \in Good
  BY <1>5 DEF T
<1> QED BY <1>6 DEF Good

\* Packets that are no Initial leave the hellos as they are.
LEMMA HelloOfInitials ==
    ASSUME NEW s \in Seq(Packet)
    PROVE  HelloFrom(s) = HelloFrom(Only(s, Initials))
<1> DEFINE Good == {t \in Seq(Packet) : HelloFrom(t) = HelloFrom(Only(t, Initials))}
<1>1. HelloFacts
  BY HelloUnfolds
<1>2. <<>> \in Good
  <2>1. Only(<<>>, Initials) = <<>> /\ <<>> \in Seq(Packet)
    BY OnlyNone
  <2> QED BY <2>1
<1>3. ASSUME NEW t \in Seq(Packet), NEW p \in Packet, t \in Good PROVE Append(t, p) \in Good
  <2> DEFINE k == Only(t, Initials)
  <2>1. k \in Seq(Packet) /\ Only(Append(t, p), Initials) = IF p \in Initials THEN Append(k, p) ELSE k
    BY OnlyHolds, OnlyMore
  <2>2. HelloFrom(t) = HelloFrom(k)
    BY <1>3
  <2> HIDE DEF k
  <2>3. HelloFrom(Append(t, p)) = InitialStep(HelloFrom(t), p)
    BY <1>1 DEF HelloFacts
  <2>4. HelloFrom(Append(k, p)) = InitialStep(HelloFrom(k), p)
    BY <1>1, <2>1 DEF HelloFacts
  <2>5. HelloFrom(Append(t, p)) = HelloFrom(Only(Append(t, p), Initials))
    <3>1. CASE p \in Initials
      <4>1. Only(Append(t, p), Initials) = Append(k, p)
        BY <2>1, <3>1
      <4> QED BY <2>2, <2>3, <2>4, <4>1
    <3>2. CASE p \notin Initials
      <4>1. Only(Append(t, p), Initials) = k
        BY <2>1, <3>2
      <4>2. p.type # "initial"
        BY <3>2 DEF Initials
      <4>3. InitialStep(HelloFrom(t), p) = HelloFrom(t)
        BY <4>2 DEF InitialStep
      <4> QED BY <2>2, <2>3, <4>1, <4>3
    <3> QED BY <3>1, <3>2
  <2>6. Append(t, p) \in Seq(Packet)
    OBVIOUS
  <2> QED BY <2>5, <2>6
<1> HIDE DEF Good
<1>4. Seq(Packet) \subseteq Good
  BY <1>2, <1>3, SeqInduction
<1> QED BY <1>4 DEF Good

LEMMA FoundIsOf ==
    ASSUME NEW d \in Datagrams
    PROVE  _extract_quic_decrypted_handshake(d) = Found(Only(FlattenSeq(d), ServerHandshakes))
<1> DEFINE packets == FlattenSeq(d)
           S == {p \in ToSet(packets) : p.type = "handshake" /\ ~p.toServer}
<1>1. packets \in Seq(Packet)
  BY HelloIs
<1>2. \A p \in ToSet(packets) : p \in Packet
  BY <1>1 DEF ToSet
<1>3. \A p \in ToSet(packets) : p \in S <=> p \in ServerHandshakes
  BY <1>2 DEF ServerHandshakes
<1> HIDE DEF S
<1>4. Only(packets, S) = Only(packets, ServerHandshakes)
  BY <1>1, <1>3, OnlySame
<1>5. _extract_quic_decrypted_handshake(d) = Found(Only(packets, S))
  BY DEF _extract_quic_decrypted_handshake, _iter_coalesced_packets, Found, S
<1> QED BY <1>4, <1>5

LEMMA ShortIs ==
    ASSUME NEW d \in Datagrams
    PROVE  HasShort(d) <=> ToSet(Only(FlattenSeq(d), Shorts)) # {}
<1> DEFINE packets == FlattenSeq(d)
<1>1. packets \in Seq(Packet)
  BY HelloIs
<1>2. ToSet(Only(packets, Shorts)) = ToSet(packets) \cap Shorts
  BY <1>1, OnlyHolds
<1>3. ToSet(packets) = UNION {ToSet(d[i]) : i \in DOMAIN d}
  BY FlattenedSet DEF Datagrams
<1>4. \A i \in DOMAIN d : ToSet(d[i]) = {d[i][j] : j \in DOMAIN d[i]}
  BY DEF ToSet
<1>5. \A i \in DOMAIN d : \A j \in DOMAIN d[i] : d[i][j] \in Packet
  BY DEF Datagrams
<1>6. HasShort(d) => \E p \in ToSet(packets) : p \in Shorts
  <2> SUFFICES ASSUME HasShort(d) PROVE \E p \in ToSet(packets) : p \in Shorts
    OBVIOUS
  <2>1. PICK i \in DOMAIN d : \E j \in DOMAIN d[i] : d[i][j].type = "short"
    BY DEF HasShort
  <2>2. PICK j \in DOMAIN d[i] : d[i][j].type = "short"
    BY <2>1
  <2>3. d[i][j] \in ToSet(packets) /\ d[i][j] \in Packet
    BY <1>3, <1>4, <1>5
  <2> QED BY <2>2, <2>3 DEF Shorts
<1>7. (\E p \in ToSet(packets) : p \in Shorts) => HasShort(d)
  <2> SUFFICES ASSUME NEW p \in ToSet(packets), p \in Shorts PROVE HasShort(d)
    OBVIOUS
  <2>1. PICK i \in DOMAIN d : p \in ToSet(d[i])
    BY <1>3
  <2>2. PICK j \in DOMAIN d[i] : p = d[i][j]
    BY <1>4, <2>1
  <2> QED BY <2>2 DEF Shorts, HasShort
<1> QED BY <1>2, <1>6, <1>7

\* What the recovery reads is the same in every archive, but that the compact one
\* may have lost the 1-RTT packets.
LEMMA SameReading ==
    ASSUME NEW r \in Datagrams
    PROVE  /\ \A S \in {Initials, ServerHandshakes, Shorts} :
                 Only(FlattenSeq(CompactQuic(r)), S) = Only(FlattenSeq(r), S)
           /\ \A S \in {Initials, ServerHandshakes} :
                 Only(FlattenSeq(_quic_packet_events(r)), S) = Only(FlattenSeq(r), S)
           /\ ToSet(Only(FlattenSeq(_quic_packet_events(r)), Shorts)) \subseteq ToSet(Only(FlattenSeq(r), Shorts))
<1> DEFINE packets == FlattenSeq(r)
           K == {p \in ToSet(packets) : Kept(p)}
           T == Seq(Packet)
           B == T \ {<<Probe>>}
<1>1. packets \in T /\ FlattenSeq(_quic_packet_events(r)) = Only(packets, K)
  BY CompactIs
<1>2. ASSUME NEW S \in {Initials, ServerHandshakes}
      PROVE  Only(Only(packets, K), S) = Only(packets, S)
  <2>1. Only(Only(packets, K), S) = Only(packets, K \cap S)
    BY <1>1, OnlyOnly
  <2>2. \A p \in ToSet(packets) : p \in K \cap S <=> p \in S
    BY DEF Kept, Initials, ServerHandshakes
  <2> HIDE DEF K
  <2>3. Only(packets, K \cap S) = Only(packets, S)
    BY <1>1, <2>2, OnlySame
  <2> QED BY <2>1, <2>3
<1>3. ToSet(Only(Only(packets, K), Shorts)) \subseteq ToSet(Only(packets, Shorts))
  <2>1. Only(Only(packets, K), Shorts) = Only(packets, K \cap Shorts)
    BY <1>1, OnlyOnly
  <2>2. ToSet(Only(packets, K \cap Shorts)) = ToSet(packets) \cap (K \cap Shorts)
    BY <1>1, OnlyHolds
  <2>3. ToSet(Only(packets, Shorts)) = ToSet(packets) \cap Shorts
    BY <1>1, OnlyHolds
  <2> QED BY <2>1, <2>2, <2>3
<1>4. CompactQuic(r) = Only(r, B)
  <2>1. \A x \in ToSet(r) : x \in ToSet(r) \ {<<Probe>>} <=> x \in B
    BY DEF Datagrams, ToSet
  <2> HIDE DEF B
  <2> QED BY <2>1, OnlySame DEF CompactQuic, Datagrams
<1>5. ASSUME NEW S, Probe \notin S PROVE Only(FlattenSeq(Only(r, B)), S) = Only(FlattenSeq(r), S)
  <2> DEFINE Good == {t \in Seq(T) : Only(FlattenSeq(Only(t, B)), S) = Only(FlattenSeq(t), S)}
  <2>1. FlattenFacts(Packet)
    BY FlattenUnfolds
  <2>2. /\ FlattenSeq(<<>>) = <<>> /\ \A t \in Seq(T) : FlattenSeq(t) \in T
        /\ \A t \in Seq(T), x \in T : FlattenSeq(Append(t, x)) = FlattenSeq(t) \o x
    BY <2>1 DEF FlattenFacts
  <2>3. <<>> \in Good
    <3>1. Only(<<>>, B) = <<>> /\ <<>> \in Seq(T)
      BY OnlyNone
    <3> QED BY <3>1
  <2>4. ASSUME NEW t \in Seq(T), NEW x \in T, t \in Good PROVE Append(t, x) \in Good
    <3> DEFINE k == Only(t, B)
               a == FlattenSeq(t)
               c == FlattenSeq(k)
    <3>1. Append(t, x) \in Seq(T) /\ k \in Seq(T)
      BY OnlyHolds
    <3>2. Only(Append(t, x), B) = IF x \in B THEN Append(k, x) ELSE k
      BY OnlyMore
    <3>3. Only(c, S) = Only(a, S)
      BY <2>4
    <3> HIDE DEF k
    <3>4. a \in T /\ c \in T /\ FlattenSeq(Append(t, x)) = a \o x /\ FlattenSeq(Append(k, x)) = c \o x
      BY <2>2, <3>1
    <3> HIDE DEF a, c
    <3>5. Only(a \o x, S) = Only(a, S) \o Only(x, S)
      BY <3>4, OnlyConcat
    <3>6. Only(c \o x, S) = Only(c, S) \o Only(x, S)
      BY <3>4, OnlyConcat
    <3>7. Only(FlattenSeq(Only(Append(t, x), B)), S) = Only(FlattenSeq(Append(t, x)), S)
      <4>1. CASE x \in B
        <5>1. Only(Append(t, x), B) = Append(k, x)
          BY <3>2, <4>1
        <5> QED BY <3>3, <3>4, <3>5, <3>6, <5>1
      <4>2. CASE x \notin B
        <5>1. Only(Append(t, x), B) = k /\ x = <<Probe>>
          BY <3>2, <4>2
        <5>2. Only(x, S) = <<>>
          <6>1. <<>> \in T /\ Append(<<>>, Probe) = <<Probe>> /\ Probe \in Packet
            BY PlainPackets
          <6>2. Only(Append(<<>>, Probe), S) = Only(<<>>, S)
            BY <1>5, <6>1, OnlyMore
          <6> QED BY <5>1, <6>1, <6>2, OnlyNone
        <5>3. Only(a, S) \in T
          BY <3>4, OnlyHolds
        <5>4. Only(a, S) \o <<>> = Only(a, S)
          BY <5>3, ConcatEmptySeq
        <5> QED BY <3>3, <3>4, <3>5, <5>1, <5>2, <5>4 DEF c
      <4> QED BY <4>1, <4>2
    <3> QED BY <3>1, <3>7
  <2> HIDE DEF Good
  <2>5. Seq(T) \subseteq Good
    BY <2>3, <2>4, SeqInduction
  <2>6. r \in Seq(T)
    BY DEF Datagrams
  <2>7. r \in Good
    BY <2>5, <2>6
  <2> QED BY <2>7 DEF Good
<1>6. \A S \in {Initials, ServerHandshakes, Shorts} : Probe \notin S
  BY DEF Probe, Initials, ServerHandshakes, Shorts
<1> HIDE DEF K, B
<1>7. \A S \in {Initials, ServerHandshakes, Shorts} :
         Only(FlattenSeq(CompactQuic(r)), S) = Only(FlattenSeq(r), S)
  BY <1>4, <1>5, <1>6
<1> QED BY <1>1, <1>2, <1>3, <1>7

\* What derive_quic makes of what it reads.
OutcomeOf(hello, found, hasShort, usable, truth) ==
    LET hs       == HandshakeSecret(hello)
        messages == IF hs = RealHs THEN found ELSE <<>>
        all      == {hs, AppSecret(hello, Transcript(messages))}
    IN  IF Refused(hello, usable)
        THEN NoResult
        ELSE IF messages = <<>>
        THEN [success |-> FALSE, partial |-> TRUE, keylog |-> {hs}]
        ELSE [success |-> Succeeded(truth, all, RealApp \in all /\ hasShort), partial |-> FALSE, keylog |-> all]

LEMMA OutcomeIs ==
    ASSUME NEW d, NEW usable, NEW truth
    PROVE  derive_quic(d, usable, truth) =
              OutcomeOf(_extract_quic_crypto_data(d), _extract_quic_decrypted_handshake(d), HasShort(d),
                        usable, truth)
BY DEF derive_quic, OutcomeOf, verify_quic_stream_data

\* An archive that reads as another does gives what that gives, but for the success
\* that needs a 1-RTT packet.
LEMMA OutcomesAgree ==
    ASSUME NEW hello, NEW found, NEW usable, NEW truth, NEW few \in BOOLEAN, NEW many \in BOOLEAN, few => many
    PROVE  LET q == OutcomeOf(hello, found, few, usable, truth)
               r == OutcomeOf(hello, found, many, usable, truth)
           IN  q.keylog = r.keylog /\ (q.success => r.success) /\ (r.success /\ few => q.success)
<1> DEFINE hs == HandshakeSecret(hello)
           messages == IF hs = RealHs THEN found ELSE <<>>
           all == {hs, AppSecret(hello, Transcript(messages))}
           Q(hasShort) == OutcomeOf(hello, found, hasShort, usable, truth)
<1>1. \A hasShort : Q(hasShort) =
         IF Refused(hello, usable) THEN NoResult
         ELSE IF messages = <<>> THEN [success |-> FALSE, partial |-> TRUE, keylog |-> {hs}]
         ELSE [success |-> Succeeded(truth, all, RealApp \in all /\ hasShort), partial |-> FALSE, keylog |-> all]
  BY DEF OutcomeOf
<1> HIDE DEF hs, messages, all, Q
<1>2. CASE Refused(hello, usable)
  <2>1. Q(few) = NoResult /\ Q(many) = NoResult
    BY <1>1, <1>2
  <2> QED BY <2>1 DEF NoResult, Q
<1>3. CASE ~Refused(hello, usable) /\ messages = <<>>
  <2>1. \A hasShort : Q(hasShort) = [success |-> FALSE, partial |-> TRUE, keylog |-> {hs}]
    BY <1>1, <1>3
  <2>2. Q(few) = Q(many) /\ Q(few).success = FALSE
    BY <2>1
  <2> QED BY <2>2 DEF Q
<1>4. CASE ~Refused(hello, usable) /\ messages # <<>>
  <2>1. \A hasShort : Q(hasShort) = [success |-> Succeeded(truth, all, RealApp \in all /\ hasShort), partial |-> FALSE,
                               keylog |-> all]
    BY <1>1, <1>4
  <2>2. \A hasShort : Q(hasShort).keylog = all /\ (Q(hasShort).success = Succeeded(truth, all, RealApp \in all /\ hasShort))
    BY <2>1
  <2>3. /\ Q(few).keylog = all /\ Q(many).keylog = all
        /\ Q(few).success = Succeeded(truth, all, RealApp \in all /\ few)
        /\ Q(many).success = Succeeded(truth, all, RealApp \in all /\ many)
    BY <2>2
  <2>4. /\ Succeeded(truth, all, RealApp \in all /\ few) => Succeeded(truth, all, RealApp \in all /\ many)
        /\ Succeeded(truth, all, RealApp \in all /\ many) /\ few => Succeeded(truth, all, RealApp \in all /\ few)
    BY DEF Succeeded
  <2> QED BY <2>3, <2>4 DEF Q
<1> QED BY <1>2, <1>3, <1>4

\* An archive gives what the raw capture gives, although the compact one splits
\* datagrams and leaves packets out; the compact one needs a packet of the request,
\* the raw capture may do with the answer (_quic_packet_events, compact_chunk_pcaps).
THEOREM QuicArchivesAgree == Spec => []ArchivesAgree
<1>1. Inv => ArchivesAgree
  <2> SUFFICES ASSUME Inv, phase = "derived"
               PROVE  /\ result["minarx"] = result["raw"]
                      /\ result["compact"].keylog = result["raw"].keylog
                      /\ result["compact"].success => result["raw"].success
                      /\ result["raw"].success /\ HasShort(Materialized("compact")) => result["compact"].success
    BY DEF ArchivesAgree
  <2>1. PICK usable, truth \in BOOLEAN : result = ResultOf(rows, usable, truth)
    BY DEF Inv, ResultInv
  <2> DEFINE A == {"raw", "compact", "minarx"}
             Hi(a) == _extract_quic_crypto_data(ArchiveOf(a, rows))
             Fo(a) == _extract_quic_decrypted_handshake(ArchiveOf(a, rows))
             Sh(a) == HasShort(ArchiveOf(a, rows))
  <2>2. \A a \in A : result[a] = OutcomeOf(Hi(a), Fo(a), Sh(a), usable, truth)
    BY <2>1, OutcomeIs DEF ResultOf, Archives
  <2>3. rows \in Datagrams /\ \A a \in A : ArchiveOf(a, rows) \in Datagrams
    BY ArchiveTyped DEF Inv, SessionInv, Archives
  <2>4. /\ ArchiveOf("raw", rows) = rows /\ ArchiveOf("compact", rows) = _quic_packet_events(rows)
        /\ ArchiveOf("minarx", rows) = CompactQuic(rows)
    BY DEF ArchiveOf
  <2> DEFINE F(a) == FlattenSeq(ArchiveOf(a, rows))
  <2>5. /\ \A S \in {Initials, ServerHandshakes, Shorts} : Only(F("minarx"), S) = Only(F("raw"), S)
        /\ \A S \in {Initials, ServerHandshakes} : Only(F("compact"), S) = Only(F("raw"), S)
        /\ ToSet(Only(F("compact"), Shorts)) \subseteq ToSet(Only(F("raw"), Shorts))
    BY <2>3, <2>4, SameReading
  <2>6. \A a \in A : Hi(a) = HelloFrom(Only(F(a), Initials))
    BY <2>3, HelloIs, HelloOfInitials
  <2>7. \A a \in A : Fo(a) = Found(Only(F(a), ServerHandshakes))
    BY <2>3, FoundIsOf
  <2>8. \A a \in A : Sh(a) <=> ToSet(Only(F(a), Shorts)) # {}
    BY <2>3, ShortIs
  <2>9. \A a \in A : Sh(a) \in BOOLEAN
    BY DEF HasShort
  <2>10. Sh("compact") = HasShort(Materialized("compact"))
    BY MaterializedIs DEF Archives
  <2> HIDE DEF Hi, Fo, Sh, F
  <2>11. Hi("minarx") = Hi("raw") /\ Fo("minarx") = Fo("raw") /\ Hi("compact") = Hi("raw") /\ Fo("compact") = Fo("raw")
    BY <2>5, <2>6, <2>7
  <2>12. (Sh("minarx") <=> Sh("raw")) /\ (Sh("compact") => Sh("raw"))
    <3>1. Only(F("minarx"), Shorts) = Only(F("raw"), Shorts)
      BY <2>5
    <3> QED BY <2>5, <2>8, <3>1
  <2>13. Sh("minarx") = Sh("raw")
    BY <2>9, <2>12
  <2>14. result["minarx"] = result["raw"]
    BY <2>2, <2>11, <2>13
  <2>15. /\ result["compact"] = OutcomeOf(Hi("raw"), Fo("raw"), Sh("compact"), usable, truth)
         /\ result["raw"] = OutcomeOf(Hi("raw"), Fo("raw"), Sh("raw"), usable, truth)
    BY <2>2, <2>11
  <2>16. Sh("compact") \in BOOLEAN /\ Sh("raw") \in BOOLEAN
    BY <2>9
  <2>17. LET q == OutcomeOf(Hi("raw"), Fo("raw"), Sh("compact"), usable, truth)
             r == OutcomeOf(Hi("raw"), Fo("raw"), Sh("raw"), usable, truth)
         IN  q.keylog = r.keylog /\ (q.success => r.success) /\ (r.success /\ Sh("compact") => q.success)
    BY <2>12, <2>16, OutcomesAgree
  <2> QED BY <2>10, <2>14, <2>15, <2>17
<1> QED BY <1>1, QuicInvariant, PTL

-----------------------------------------------------------------------------
(* The transcript: what reassembles, when the frames cover the flight.      *)

\* Frames that begin at different offsets all stay.
LEMMA LastHolds ==
    ASSUME NEW n, NEW frames \in Seq(FrameOf(n)),
           \A f, g \in ToSet(frames) : f.offset = g.offset => f = g
    PROVE  /\ AddLast(<<>>, frames) \in Pieces(n)
           /\ DOMAIN AddLast(<<>>, frames) = {f.offset : f \in ToSet(frames)}
           /\ \A f \in ToSet(frames) : AddLast(<<>>, frames)[f.offset] = f.data
<1> DEFINE A(t) == AddLast(<<>>, t)
           Distinct(t) == \A f, g \in ToSet(t) : f.offset = g.offset => f = g
           Holds(t) == DOMAIN A(t) = {f.offset : f \in ToSet(t)} /\ \A f \in ToSet(t) : A(t)[f.offset] = f.data
           Good == {t \in Seq(FrameOf(n)) : Distinct(t) => Holds(t)}
<1>1. <<>> \in Pieces(n) /\ LastFacts(n, <<>>)
  BY NoPieces, LastUnfolds
<1>2. /\ A(<<>>) = <<>> /\ \A t \in Seq(FrameOf(n)) : A(t) \in Pieces(n)
      /\ \A t \in Seq(FrameOf(n)), x \in FrameOf(n) :
            A(Append(t, x)) = [o \in DOMAIN A(t) \union {x.offset} |-> IF o = x.offset THEN x.data ELSE A(t)[o]]
  BY <1>1 DEF LastFacts
<1> HIDE DEF A
<1>3. <<>> \in Good
  <2>1. ToSet(<<>>) = {} /\ <<>> \in Seq(FrameOf(n)) /\ DOMAIN <<>> = {}
    BY DEF ToSet
  <2> QED BY <1>2, <2>1
<1>4. ASSUME NEW t \in Seq(FrameOf(n)), NEW x \in FrameOf(n), t \in Good PROVE Append(t, x) \in Good
  <2> DEFINE u == Append(t, x)
  <2>1. u \in Seq(FrameOf(n)) /\ ToSet(u) = ToSet(t) \union {x}
    BY AppendedSet
  <2>2. A(u) = [o \in DOMAIN A(t) \union {x.offset} |-> IF o = x.offset THEN x.data ELSE A(t)[o]]
    BY <1>2
  <2> HIDE DEF u
  <2>3. ASSUME Distinct(u) PROVE Holds(u)
    <3>1. Holds(t)
      BY <1>4, <2>1, <2>3
    <3>2. DOMAIN A(u) = DOMAIN A(t) \union {x.offset}
      BY <2>2
    <3>3. DOMAIN A(u) = {f.offset : f \in ToSet(u)}
      BY <2>1, <3>1, <3>2
    <3>4. ASSUME NEW f \in ToSet(u) PROVE A(u)[f.offset] = f.data
      <4>1. CASE f.offset = x.offset
        <5>1. f = x
          BY <2>1, <2>3, <4>1
        <5> QED BY <2>2, <4>1, <5>1
      <4>2. CASE f.offset # x.offset
        <5>1. f \in ToSet(t) /\ f.offset \in DOMAIN A(t) /\ A(t)[f.offset] = f.data
          BY <2>1, <3>1, <4>2
        <5> QED BY <2>2, <4>2, <5>1
      <4> QED BY <4>1, <4>2
    <3> QED BY <3>3, <3>4
  <2> QED BY <2>1, <2>3 DEF u
<1> HIDE DEF Good, Distinct, Holds
<1>5. Seq(FrameOf(n)) \subseteq Good
  BY <1>3, <1>4, SeqInduction
<1>6. Distinct(frames)
  BY DEF Distinct
<1>7. Holds(frames)
  BY <1>5, <1>6 DEF Good
<1> QED BY <1>2, <1>7 DEF Holds, A

\* Reassembled over the offsets of s.
FlightUpTo(g, s) ==
    FoldLeft(LAMBDA out, o :
                 IF o > Len(out) THEN out \o Zeros(o - Len(out)) \o g[o]
                 ELSE out \o SubSeq(g[o], Len(out) - o + 1, Len(g[o])),
             <<>>, s)

FlightFacts(n, g) ==
    /\ FlightUpTo(g, <<>>) = <<>>
    /\ \A s \in Seq(DOMAIN g) : FlightUpTo(g, s) \in Seq(Nat)
    /\ \A s \in Seq(DOMAIN g), x \in DOMAIN g :
          FlightUpTo(g, Append(s, x)) =
             IF x > Len(FlightUpTo(g, s)) THEN FlightUpTo(g, s) \o Zeros(x - Len(FlightUpTo(g, s))) \o g[x] ELSE FlightUpTo(g, s) \o SubSeq(g[x], Len(FlightUpTo(g, s)) - x + 1, Len(g[x]))

LEMMA FlightUnfolds ==
    ASSUME NEW n \in Nat, NEW g \in Pieces(n)
    PROVE  FlightFacts(n, g)
<1> DEFINE Step(t, x) == IF x > Len(t) THEN t \o Zeros(x - Len(t)) \o g[x] ELSE t \o SubSeq(g[x], Len(t) - x + 1, Len(g[x]))
           T == Seq(Nat)
           E1 == DOMAIN g
           b == <<>>
           G == [p \in T \X E1 |-> Step(p[1], p[2])]
<1>1. b \in T
  OBVIOUS
<1>2. \A t \in T, x \in E1 : Step(t, x) \in T
  <2>1. SUFFICES ASSUME NEW t \in T, NEW o \in E1 PROVE Step(t, o) \in T
    OBVIOUS
  <2>2. o \in Nat /\ g[o] \in Seq(Nat) /\ Len(t) \in Nat /\ Len(g[o]) \in Nat
    BY PiecesAre
  <2>3. CASE o > Len(t)
    <3>1. Zeros(o - Len(t)) \in Seq(Nat)
      <4>1. o - Len(t) \in Nat
        BY <2>2, <2>3
      <4> QED BY <4>1 DEF Zeros
    <3>2. t \o Zeros(o - Len(t)) \in Seq(Nat)
      BY <3>1, ConcatProperties
    <3>3. t \o Zeros(o - Len(t)) \o g[o] \in Seq(Nat)
      BY <2>2, <3>2, ConcatProperties
    <3> QED BY <2>3, <3>3
  <2>4. CASE ~ (o > Len(t))
    <3> DEFINE f == Len(t) - o + 1
               l == Len(g[o])
    <3>1. f \in Int /\ l \in Int /\ \A i \in f..l : g[o][i] \in Nat
      BY <2>2, <2>4
    <3> HIDE DEF f, l
    <3>2. SubSeq(g[o], f, l) \in Seq(Nat)
      BY <3>1, SubSeqProperties
    <3>3. t \o SubSeq(g[o], f, l) \in Seq(Nat)
      BY <3>2, ConcatProperties
    <3> QED BY <2>4, <3>3 DEF f, l
  <2> QED BY <2>3, <2>4
<1> HIDE DEF Step, T, E1, b
<1>3. \A t \in T, x \in E1 : On(G, t, x) = Step(t, x)
  BY <1>2 DEF On
<1>4. FoldFn(E1, T, G)
  BY <1>2 DEF FoldFn
<1> HIDE DEF G
<1>5. ASSUME NEW s \in Seq(E1) PROVE FlightUpTo(g, s) = EndOf(s, b, T, G)
  <2> DEFINE len == Len(s)
             Eq(iter) == iter = [q \in SUBSET DOMAIN s |->
                           IF q = {} THEN b ELSE Step(iter[q \ {Max(q)}], s[Max(q)])]
             iter == CHOOSE iter : Eq(iter)
  <2>1. len \in Nat /\ DOMAIN s = 1..len /\ \A k \in 1..len : s[k] \in E1
    OBVIOUS
  <2>2. FlightUpTo(g, s) = iter[1..len]
    BY <2>1 DEF FlightUpTo, Step, b, FoldLeft, MapThenFoldSet
  <2> HIDE DEF len
  <2>3. PICK F : IterOf(F, s, b, T, G)
    BY <1>1, <1>4, IterExists
  <2>4. Eq(F)
    <3>0. F \in [SUBSET (1..len) -> T] /\ \A q \in SUBSET (1..len) :
            F[q] = IF q = {} THEN b ELSE On(G, F[q \ {Max(q)}], s[Max(q)])
      BY <2>3 DEF IterOf, len
    <3>1. ASSUME NEW q \in SUBSET (1..len), q # {}
          PROVE  On(G, F[q \ {Max(q)}], s[Max(q)]) = Step(F[q \ {Max(q)}], s[Max(q)])
      <4>1. Max(q) \in 1..len /\ F[q \ {Max(q)}] \in T
        BY <2>1, <3>0, <3>1, MaxIsIn
      <4> QED BY <1>3, <2>1, <4>1
    <3>2. F = [q \in SUBSET (1..len) |-> F[q]]
      BY <3>0
    <3> QED BY <2>1, <3>0, <3>1, <3>2
  <2>5. Eq(iter)
    BY <2>4, Zenon
  <2> HIDE DEF iter
  <2>6. iter[{}] = b
    BY <2>5
  <2>7. ASSUME NEW q \in SUBSET (1..len), q # {}, iter[q \ {Max(q)}] \in T
        PROVE  iter[q] = On(G, iter[q \ {Max(q)}], s[Max(q)])
    <3>1. Max(q) \in 1..len
      BY <2>1, <2>7, MaxIsIn
    <3>2. iter[q] = Step(iter[q \ {Max(q)}], s[Max(q)])
      BY <2>1, <2>5, <2>7
    <3> QED BY <1>3, <2>1, <2>7, <3>1, <3>2
  <2> HIDE DEF Eq
  <2>8. Iterates(iter, s, b, T, G)
    BY <2>6, <2>7 DEF Iterates, len
  <2>9. iter[1..Len(s)] = EndOf(s, b, T, G)
    BY <1>1, <1>4, <2>8, IterEnds
  <2> QED BY <2>2, <2>9 DEF len
<1>6. <<>> \in Seq(E1) /\ \A s \in Seq(E1), x \in E1 : Append(s, x) \in Seq(E1)
  OBVIOUS
<1>7. Unfolds(E1, b, T, G)
  BY <1>1, <1>4, EndUnfolds
<1>8. /\ EndOf(<<>>, b, T, G) = b
      /\ \A s \in Seq(E1) : EndOf(s, b, T, G) \in T
      /\ \A s \in Seq(E1), x \in E1 : EndOf(Append(s, x), b, T, G) = On(G, EndOf(s, b, T, G), x)
  BY <1>7 DEF Unfolds
<1>9. FlightUpTo(g, <<>>) = b /\ \A s \in Seq(E1) : FlightUpTo(g, s) \in T
  BY <1>5, <1>6, <1>8
<1>10. ASSUME NEW s \in Seq(E1), NEW x \in E1 PROVE FlightUpTo(g, Append(s, x)) = Step(FlightUpTo(g, s), x)
  <2>1. FlightUpTo(g, Append(s, x)) = EndOf(Append(s, x), b, T, G) /\ FlightUpTo(g, s) = EndOf(s, b, T, G)
    BY <1>5, <1>6
  <2> QED BY <1>3, <1>8, <2>1
<1> QED BY <1>9, <1>10 DEF FlightFacts, Step, T, E1, b

\* Pieces that cover the stream leave no gap.
LEMMA CoverIsWhole ==
    ASSUME NEW n \in Nat \ {0}, n <= AllOctets, NEW g \in Pieces(n),
           \A i \in 1..n : \E o \in DOMAIN g : o < i /\ i <= o + Len(g[o])
    PROVE  Reassembled(g) = Octets(1, n)
<1> DEFINE D == DOMAIN g
           W(x) == FlightUpTo(g, Only(Below(x), D))
           Run(x, k) == /\ k \in 0..n /\ W(x) = Octets(1, k)
                        /\ \A o \in D : o < x => o + Len(g[o]) <= k
           Good == {x \in 0..AllOctets : \E k \in 0..n : Run(x, k)}
<1>1. AllOctets \in Nat
  BY LengthsAre
<1>2. FlightFacts(n, g)
  BY FlightUnfolds
<1>3. /\ FlightUpTo(g, <<>>) = <<>>
      /\ \A s \in Seq(D), x \in D : FlightUpTo(g, Append(s, x)) =
            IF x > Len(FlightUpTo(g, s))
            THEN FlightUpTo(g, s) \o Zeros(x - Len(FlightUpTo(g, s))) \o g[x]
            ELSE FlightUpTo(g, s) \o SubSeq(g[x], Len(FlightUpTo(g, s)) - x + 1, Len(g[x]))
  BY <1>2 DEF FlightFacts
<1>4. \A o \in D : o \in Nat /\ Len(g[o]) \in Nat
  BY PiecesAre
<1>5. 0 \in Good
  <2>1. W(0) = <<>> /\ Octets(1, 0) = <<>>
    BY <1>3, BelowUnfolds, OnlyNone DEF Octets
  <2> HIDE DEF W
  <2>2. \A o \in D : ~(o < 0)
    BY <1>4
  <2>3. Run(0, 0)
    BY <2>1, <2>2
  <2> QED BY <1>1, <2>3
<1>6. ASSUME NEW y \in 1..AllOctets, y - 1 \in Good PROVE y \in Good
  <2> DEFINE x == y - 1
             s == Only(Below(x), D)
  <2>1. x \in Nat /\ x + 1 = y /\ y \in 0..AllOctets
    BY <1>1
  <2>2. PICK k \in 0..n : Run(x, k)
    BY <1>6
  <2>3. k \in Nat /\ Len(Octets(1, k)) = k
    BY OctetsFromOne
  <2> HIDE DEF x
  <2>4. Below(x) \in Seq(Nat) /\ Below(y) = Append(Below(x), x)
    BY <2>1, BelowUnfolds
  <2>5. s \in Seq(D)
    BY <2>4, OnlyIn
  <2>6. Only(Below(y), D) = IF x \in D THEN Append(s, x) ELSE s
    <3>1. OnlyFacts(Nat, D)
      BY OnlyUnfolds
    <3>2. Only(Append(Below(x), x), D) = IF x \in D THEN Append(s, x) ELSE s
      BY <2>1, <2>4, <3>1 DEF OnlyFacts
    <3> QED BY <2>4, <3>2
  <2>7. FlightUpTo(g, s) = Octets(1, k)
    BY <2>2
  <2> HIDE DEF s
  <2>8. CASE x \notin D
    <3>1. W(y) = Octets(1, k)
      BY <2>6, <2>7, <2>8
    <3>2. \A o \in D : o < y => o < x
      BY <1>4, <2>1, <2>8
    <3>3. Run(y, k)
      BY <2>2, <3>1, <3>2
    <3> QED BY <2>1, <3>3
  <2>9. CASE x \in D
    <3>1. PICK m \in 1..n : x < m /\ g[x] = Octets(x + 1, m)
      BY <2>9, PiecesAre
    <3>2. m \in Nat /\ Len(g[x]) = m - x
      <4>1. m \in Nat /\ x <= m
        BY <2>1, <3>1
      <4> QED BY <2>1, <3>1, <4>1, OctetsBehind
    <3>3. x <= k
      <4>1. CASE x = 0
        BY <2>3, <4>1
      <4>2. CASE x # 0
        <5>1. x \in 1..n
          BY <2>1, <3>1, <4>2
        <5>2. PICK o \in D : o < x /\ x <= o + Len(g[o])
          BY <5>1
        <5>3. o + Len(g[o]) <= k
          BY <2>2, <5>2
        <5> QED BY <1>4, <2>1, <2>3, <5>2, <5>3
      <4> QED BY <4>1, <4>2
    <3> DEFINE l == IF m > k THEN m ELSE k
    <3>4. l \in 0..n /\ m <= l /\ k <= l
      BY <2>3, <3>1, <3>2
    <3>5. Octets(1, k) \o SubSeq(g[x], k - x + 1, Len(g[x])) = Octets(1, l)
      BY <2>1, <2>3, <3>1, <3>2, <3>3, JoinsOctets
    <3> HIDE DEF l
    <3>6. W(y) = Octets(1, l)
      <4>1. W(y) = FlightUpTo(g, Append(s, x))
        BY <2>6, <2>9
      <4>2. FlightUpTo(g, Append(s, x)) = Octets(1, k) \o SubSeq(g[x], k - x + 1, Len(g[x]))
        <5> DEFINE t == FlightUpTo(g, s)
        <5>1. FlightUpTo(g, Append(s, x)) = IF x > Len(t) THEN t \o Zeros(x - Len(t)) \o g[x]
                                            ELSE t \o SubSeq(g[x], Len(t) - x + 1, Len(g[x]))
          BY <1>3, <2>5, <2>9
        <5>2. t = Octets(1, k) /\ Len(t) = k /\ ~(x > k)
          BY <2>1, <2>3, <2>7, <3>3
        <5> HIDE DEF t
        <5> QED BY <5>1, <5>2
      <4> QED BY <3>5, <4>1, <4>2
    <3> HIDE DEF W
    <3>7. ASSUME NEW o \in D, o < y PROVE o + Len(g[o]) <= l
      <4>1. CASE o = x
        BY <2>1, <3>2, <3>4, <4>1
      <4>2. CASE o # x
        <5>1. o < x
          BY <1>4, <2>1, <3>7, <4>2
        <5>2. o + Len(g[o]) <= k
          BY <2>2, <5>1
        <5> QED BY <1>4, <2>3, <3>4, <5>2
      <4> QED BY <4>1, <4>2
    <3>8. Run(y, l)
      BY <3>4, <3>6, <3>7
    <3> QED BY <2>1, <3>4, <3>8
  <2> QED BY <2>8, <2>9
<1> HIDE DEF Good
<1>7. AllOctets \in Good
  BY <1>1, <1>5, <1>6, ChainInduction
<1>8. PICK k \in 0..n : Run(AllOctets, k)
  BY <1>7 DEF Good
<1>9. k = n
  <2>1. PICK o \in D : o < n /\ n <= o + Len(g[o])
    OBVIOUS
  <2>2. o + Len(g[o]) <= k
    BY <1>1, <1>4, <1>8, <2>1
  <2> QED BY <1>4, <2>1, <2>2
<1>10. W(AllOctets) = Octets(1, n)
  BY <1>8, <1>9
<1> QED BY <1>10, OffsetsAre DEF Reassembled, FlightUpTo

-----------------------------------------------------------------------------
(* The messages of the flight.                                              *)

LEMMA StartsAre ==
    /\ Start(1) = 1 /\ Start(Len(Messages) + 1) = Flight + 1
    /\ \A m \in 1..(Len(Messages) + 1) : Start(m) \in Nat
    /\ \A m \in 1..Len(Messages) : Start(m + 1) = Start(m) + Messages[m] /\ Messages[m] \in Nat \ {0}
<1> DEFINE n == Len(Messages)
           Up(m) == SubSeq(Messages, 1, m)
<1>1. Messages \in Seq(Nat \ {0}) /\ Messages \in Seq(Nat) /\ n \in Nat
  BY SessionAssumption, LengthsAre DEF SessionAssumption
<1>2. \A m \in 1..n : Messages[m] \in Nat \ {0}
  BY <1>1
<1>3. SumFacts(0) /\ SumFacts(1)
  BY SumUnfolds
<1>4. /\ SumFrom(1, <<>>) = 1 /\ SumFrom(0, <<>>) = 0
      /\ \A s \in Seq(Nat) : SumFrom(1, s) \in Nat /\ SumFrom(0, s) \in Nat
      /\ \A s \in Seq(Nat), x \in Nat : SumFrom(1, Append(s, x)) = SumFrom(1, s) + x
      /\ \A s \in Seq(Nat), x \in Nat : SumFrom(0, Append(s, x)) = SumFrom(0, s) + x
  BY <1>3 DEF SumFacts
<1>5. \A m \in 1..(n + 1) : Start(m) = SumFrom(1, Up(m - 1))
  BY DEF Start, SumFrom
<1>6. ASSUME NEW m \in 0..n PROVE Up(m) \in Seq(Nat)
  BY <1>1
<1>7. ASSUME NEW m \in 1..n PROVE Up(m) = Append(Up(m - 1), Messages[m])
  BY <1>1
<1> HIDE DEF Up
<1>8. Start(1) = 1
  <2>1. 1 \in 1..(n + 1) /\ 1 - 1 = 0
    BY <1>1
  <2>2. Up(0) = <<>>
    BY DEF Up
  <2> QED BY <1>4, <1>5, <2>1, <2>2
<1>9. ASSUME NEW m \in 1..(n + 1) PROVE Start(m) \in Nat
  <2>1. m - 1 \in 0..n
    BY <1>1
  <2> QED BY <1>4, <1>5, <1>6, <2>1
<1>10. ASSUME NEW m \in 1..n PROVE Start(m + 1) = Start(m) + Messages[m]
  <2>1. m + 1 \in 1..(n + 1) /\ m \in 1..(n + 1) /\ (m + 1) - 1 = m /\ m - 1 \in 0..n /\ Messages[m] \in Nat
    BY <1>1, <1>2
  <2>2. Start(m + 1) = SumFrom(1, Up(m)) /\ Start(m) = SumFrom(1, Up(m - 1))
    BY <1>5, <2>1
  <2>3. Up(m - 1) \in Seq(Nat) /\ Up(m) = Append(Up(m - 1), Messages[m])
    BY <1>6, <1>7, <2>1
  <2> QED BY <1>4, <2>1, <2>2, <2>3
<1>11. \A s \in Seq(Nat) : SumFrom(1, s) = SumFrom(0, s) + 1
  <2> DEFINE Good == {s \in Seq(Nat) : SumFrom(1, s) = SumFrom(0, s) + 1}
  <2>1. <<>> \in Good
    <3>1. <<>> \in Seq(Nat)
      OBVIOUS
    <3> QED BY <1>4, <3>1
  <2>2. ASSUME NEW s \in Seq(Nat), NEW x \in Nat, s \in Good PROVE Append(s, x) \in Good
    <3>1. SumFrom(1, s) = SumFrom(0, s) + 1 /\ SumFrom(0, s) \in Nat /\ Append(s, x) \in Seq(Nat)
      BY <1>4, <2>2
    <3>2. SumFrom(1, Append(s, x)) = SumFrom(1, s) + x /\ SumFrom(0, Append(s, x)) = SumFrom(0, s) + x
      BY <1>4
    <3> QED BY <3>1, <3>2
  <2> HIDE DEF Good
  <2>3. Seq(Nat) \subseteq Good
    BY <2>1, <2>2, SeqInduction
  <2> QED BY <2>3 DEF Good
<1>12. Start(n + 1) = Flight + 1
  <2>1. n + 1 \in 1..(n + 1) /\ (n + 1) - 1 = n
    BY <1>1
  <2>2. Up(n) = Messages
    BY <1>1 DEF Up
  <2>3. Start(n + 1) = SumFrom(1, Messages)
    BY <1>5, <2>1, <2>2
  <2>4. Flight = SumFrom(0, Messages)
    BY DEF Flight, SumFrom
  <2> QED BY <1>1, <1>11, <2>3, <2>4
<1> QED BY <1>2, <1>8, <1>9, <1>10, <1>12

LEMMA StartsGrow ==
    \A i, j \in 1..(Len(Messages) + 1) : i < j => Start(i) < Start(j)
<1> DEFINE n == Len(Messages)
<1>1. n \in Nat
  BY LengthsAre
<1> SUFFICES ASSUME NEW i \in 1..(n + 1) PROVE \A j \in 1..(n + 1) : i < j => Start(i) < Start(j)
  OBVIOUS
<1> DEFINE Good == {k \in 0..n : i < k + 1 => Start(i) < Start(k + 1)}
<1>2. 0 \in Good
  BY <1>1
<1>3. ASSUME NEW k \in 1..n, k - 1 \in Good PROVE k \in Good
  <2>1. k \in 0..n /\ (k - 1) + 1 = k /\ k \in 1..(n + 1) /\ k + 1 \in 1..(n + 1)
    BY <1>1
  <2>2. Start(k + 1) = Start(k) + Messages[k] /\ Messages[k] \in Nat \ {0} /\ Start(k) \in Nat /\ Start(i) \in Nat
    BY <2>1, StartsAre
  <2>3. i < k => Start(i) < Start(k)
    BY <1>3, <2>1
  <2>4. i < k + 1 => i = k \/ i < k
    BY <1>1
  <2> QED BY <2>1, <2>2, <2>3, <2>4
<1> HIDE DEF Good
<1>4. \A k \in 0..n : k \in Good
  <2>1. SUFFICES ASSUME NEW l \in 0..n PROVE l \in Good
    OBVIOUS
  <2>2. \A k \in 1..l : k - 1 \in Good => k \in Good
    BY <1>1, <1>3
  <2>3. l \in Nat
    BY <1>1
  <2> QED BY <1>2, <2>2, <2>3, ChainInduction
<1>5. \A j \in 1..(n + 1) : j - 1 \in 0..n /\ (j - 1) + 1 = j
  BY <1>1
<1> QED BY <1>4, <1>5 DEF Good

LEMMA RealMessagesAre ==
    /\ RealMessages \in Seq(Seq(Nat)) /\ Len(RealMessages) = Len(Messages)
    /\ \A m \in 1..Len(Messages) : /\ RealMessages[m] = Octets(Start(m), Start(m) + Messages[m] - 1)
                                  /\ Len(RealMessages[m]) = Messages[m] /\ RealMessages[m][1] = Start(m)
<1> DEFINE n == Len(Messages)
<1>1. n \in Nat /\ DOMAIN Messages = 1..n
  BY LengthsAre
<1>2. \A m \in 1..n : Start(m) \in Nat /\ Messages[m] \in Nat \ {0}
  BY <1>1, StartsAre
<1>3. ASSUME NEW m \in 1..n
      PROVE  /\ RealMessages[m] = Octets(Start(m), Start(m) + Messages[m] - 1) /\ RealMessages[m] \in Seq(Nat)
             /\ Len(RealMessages[m]) = Messages[m] /\ RealMessages[m][1] = Start(m)
  <2> DEFINE a == Start(m)
             b == a + Messages[m] - 1
  <2>1. a \in Nat /\ b \in Nat /\ a <= b + 1 /\ b - a + 1 = Messages[m] /\ 1 \in 1..Messages[m] /\ a + 1 - 1 = a
    BY <1>2
  <2>2. RealMessages[m] = [i \in 1..Messages[m] |-> a + i - 1]
    BY <1>1 DEF RealMessages
  <2> HIDE DEF a, b
  <2>3. RealMessages[m] = Octets(a, b)
    BY <2>1, <2>2 DEF Octets
  <2>4. /\ Octets(a, b) \in Seq(Nat) /\ Len(Octets(a, b)) = b - a + 1
        /\ \A i \in 1..(b - a + 1) : Octets(a, b)[i] = a + i - 1
    BY <2>1, OctetsAre
  <2>5. Octets(a, b) \in Seq(Nat) /\ Len(Octets(a, b)) = Messages[m]
    BY <2>1, <2>4
  <2>6. Octets(a, b)[1] = a
    BY <2>1, <2>4
  <2> QED BY <2>3, <2>5, <2>6 DEF a, b
<1>4. DOMAIN RealMessages = 1..n /\ RealMessages = [m \in 1..n |-> RealMessages[m]]
  BY <1>1 DEF RealMessages
<1>5. RealMessages \in [1..n -> Seq(Nat)]
  BY <1>3, <1>4
<1>6. RealMessages \in Seq(Seq(Nat)) /\ Len(RealMessages) = n
  BY <1>1, <1>5
<1> QED BY <1>3, <1>6

LEMMA LengthAtStart ==
    ASSUME NEW m \in 1..Len(Messages)
    PROVE  LengthAt(Start(m)) = Messages[m]
<1> DEFINE n == Len(Messages)
           At == {l \in DOMAIN Messages : Start(l) = Start(m)}
<1>1. n \in Nat /\ DOMAIN Messages = 1..n
  BY LengthsAre
<1>2. Start(m) # 0
  <2>1. m \in 1..(n + 1) /\ 1 \in 1..(n + 1) /\ (m = 1 \/ 1 < m)
    BY <1>1
  <2>2. m = 1 \/ Start(1) < Start(m)
    BY <2>1, StartsGrow
  <2> QED BY <2>1, <2>2, StartsAre
<1>3. ASSUME NEW l \in DOMAIN Messages, Start(l) = Start(m) PROVE l = m
  <2>1. l \in 1..(n + 1) /\ m \in 1..(n + 1) /\ (l = m \/ l < m \/ m < l)
    BY <1>1
  <2>2. Start(l) \in Nat /\ Start(m) \in Nat
    BY <2>1, StartsAre
  <2> QED BY <1>3, <2>1, <2>2, StartsGrow
<1>4. m \in DOMAIN Messages
  BY <1>1
<1>5. (CHOOSE l \in DOMAIN Messages : Start(l) = Start(m)) = m
  BY <1>3, <1>4
<1> QED BY <1>2, <1>4, <1>5 DEF LengthAt

Parsing == [done : Seq(Seq(Nat)), message : Seq(Nat), need : Int]
NothingParsed == [done |-> <<>>, message |-> <<>>, need |-> 0]

NeedOf(acc, octet) == IF acc.need = 0 THEN LengthAt(octet) ELSE acc.need
ParseStep(acc, octet) ==
    IF NeedOf(acc, octet) = 1
    THEN [done |-> Append(acc.done, Append(acc.message, octet)), message |-> <<>>, need |-> 0]
    ELSE [done |-> acc.done, message |-> Append(acc.message, octet), need |-> NeedOf(acc, octet) - 1]

ParsedUpTo(octets) ==
    FoldLeft(LAMBDA acc, octet :
                 LET need    == IF acc.need = 0 THEN LengthAt(octet) ELSE acc.need
                     message == Append(acc.message, octet)
                 IN  IF need = 1 THEN [done |-> Append(acc.done, message), message |-> <<>>, need |-> 0]
                     ELSE [done |-> acc.done, message |-> message, need |-> need - 1],
             NothingParsed, octets)

LEMMA LengthAtIs == \A octet \in Nat : LengthAt(octet) \in Nat
<1> TAKE octet \in Nat
<1>1. \A m \in DOMAIN Messages : Messages[m] \in Nat
  BY LengthsAre
<1>2. CASE \E m \in DOMAIN Messages : Start(m) = octet
  BY <1>1, <1>2, LengthsAre DEF LengthAt
<1>3. CASE ~ \E m \in DOMAIN Messages : Start(m) = octet
  BY <1>3, LengthsAre DEF LengthAt
<1> QED BY <1>2, <1>3

ParseFacts ==
    /\ ParsedUpTo(<<>>) = NothingParsed
    /\ \A s \in Seq(Nat) : ParsedUpTo(s) \in Parsing
    /\ \A s \in Seq(Nat), x \in Nat :
          ParsedUpTo(Append(s, x)) =
             ParseStep(ParsedUpTo(s), x)

LEMMA ParseUnfolds == ParseFacts
<1> DEFINE Step(t, x) == ParseStep(t, x)
           T == Parsing
           E1 == Nat
           b == NothingParsed
           G == [p \in T \X E1 |-> Step(p[1], p[2])]
<1>1. b \in T
  BY DEF NothingParsed, Parsing
<1>2. \A t \in T, x \in E1 : Step(t, x) \in T
  <2>1. SUFFICES ASSUME NEW t \in T, NEW x \in E1 PROVE ParseStep(t, x) \in T
    OBVIOUS
  <2>2. t.done \in Seq(Seq(Nat)) /\ t.message \in Seq(Nat) /\ t.need \in Int
    BY DEF Parsing
  <2>3. NeedOf(t, x) \in Int
    BY <2>2, LengthAtIs DEF NeedOf
  <2> DEFINE d == t.done
             u == Append(t.message, x)
  <2>4. u \in Seq(Nat) /\ Append(d, u) \in Seq(Seq(Nat)) /\ d \in Seq(Seq(Nat)) /\ <<>> \in Seq(Nat)
    BY <2>2
  <2> HIDE DEF d, u
  <2>5. ParseStep(t, x) = IF NeedOf(t, x) = 1 THEN [done |-> Append(d, u), message |-> <<>>, need |-> 0]
                          ELSE [done |-> d, message |-> u, need |-> NeedOf(t, x) - 1]
    BY DEF ParseStep, d, u
  <2> QED BY <2>3, <2>4, <2>5 DEF Parsing
<1> HIDE DEF Step, T, E1, b
<1>3. \A t \in T, x \in E1 : On(G, t, x) = Step(t, x)
  BY <1>2 DEF On
<1>4. FoldFn(E1, T, G)
  BY <1>2 DEF FoldFn
<1> HIDE DEF G
<1>5. ASSUME NEW s \in Seq(E1) PROVE ParsedUpTo(s) = EndOf(s, b, T, G)
  <2> DEFINE len == Len(s)
             Eq(iter) == iter = [q \in SUBSET DOMAIN s |->
                           IF q = {} THEN b ELSE Step(iter[q \ {Max(q)}], s[Max(q)])]
             iter == CHOOSE iter : Eq(iter)
  <2>1. len \in Nat /\ DOMAIN s = 1..len /\ \A k \in 1..len : s[k] \in E1
    OBVIOUS
  <2>2. ParsedUpTo(s) = iter[1..len]
    BY <2>1 DEF ParsedUpTo, ParseStep, NeedOf, Step, b, FoldLeft, MapThenFoldSet
  <2> HIDE DEF len
  <2>3. PICK F : IterOf(F, s, b, T, G)
    BY <1>1, <1>4, IterExists
  <2>4. Eq(F)
    <3>0. F \in [SUBSET (1..len) -> T] /\ \A q \in SUBSET (1..len) :
            F[q] = IF q = {} THEN b ELSE On(G, F[q \ {Max(q)}], s[Max(q)])
      BY <2>3 DEF IterOf, len
    <3>1. ASSUME NEW q \in SUBSET (1..len), q # {}
          PROVE  On(G, F[q \ {Max(q)}], s[Max(q)]) = Step(F[q \ {Max(q)}], s[Max(q)])
      <4>1. Max(q) \in 1..len /\ F[q \ {Max(q)}] \in T
        BY <2>1, <3>0, <3>1, MaxIsIn
      <4> QED BY <1>3, <2>1, <4>1
    <3>2. F = [q \in SUBSET (1..len) |-> F[q]]
      BY <3>0
    <3> QED BY <2>1, <3>0, <3>1, <3>2
  <2>5. Eq(iter)
    BY <2>4, Zenon
  <2> HIDE DEF iter
  <2>6. iter[{}] = b
    BY <2>5
  <2>7. ASSUME NEW q \in SUBSET (1..len), q # {}, iter[q \ {Max(q)}] \in T
        PROVE  iter[q] = On(G, iter[q \ {Max(q)}], s[Max(q)])
    <3>1. Max(q) \in 1..len
      BY <2>1, <2>7, MaxIsIn
    <3>2. iter[q] = Step(iter[q \ {Max(q)}], s[Max(q)])
      BY <2>1, <2>5, <2>7
    <3> QED BY <1>3, <2>1, <2>7, <3>1, <3>2
  <2> HIDE DEF Eq
  <2>8. Iterates(iter, s, b, T, G)
    BY <2>6, <2>7 DEF Iterates, len
  <2>9. iter[1..Len(s)] = EndOf(s, b, T, G)
    BY <1>1, <1>4, <2>8, IterEnds
  <2> QED BY <2>2, <2>9 DEF len
<1>6. <<>> \in Seq(E1) /\ \A s \in Seq(E1), x \in E1 : Append(s, x) \in Seq(E1)
  OBVIOUS
<1>7. Unfolds(E1, b, T, G)
  BY <1>1, <1>4, EndUnfolds
<1>8. /\ EndOf(<<>>, b, T, G) = b
      /\ \A s \in Seq(E1) : EndOf(s, b, T, G) \in T
      /\ \A s \in Seq(E1), x \in E1 : EndOf(Append(s, x), b, T, G) = On(G, EndOf(s, b, T, G), x)
  BY <1>7 DEF Unfolds
<1>9. ParsedUpTo(<<>>) = b /\ \A s \in Seq(E1) : ParsedUpTo(s) \in T
  BY <1>5, <1>6, <1>8
<1>10. ASSUME NEW s \in Seq(E1), NEW x \in E1 PROVE ParsedUpTo(Append(s, x)) = Step(ParsedUpTo(s), x)
  <2>1. ParsedUpTo(Append(s, x)) = EndOf(Append(s, x), b, T, G) /\ ParsedUpTo(s) = EndOf(s, b, T, G)
    BY <1>5, <1>6
  <2> QED BY <1>3, <1>8, <2>1
<1> QED BY <1>9, <1>10 DEF ParseFacts, Step, T, E1, b

-----------------------------------------------------------------------------
(* A whole flight parses to the messages of the server.                     *)

LEMMA OneMoreOctet ==
    ASSUME NEW a \in Nat, NEW j \in Nat
    PROVE  Append(Octets(a, a + j - 1), a + j) = Octets(a, a + j)
<1> DEFINE s == [i \in 1..j |-> a + i - 1]
           t == [i \in 1..(j + 1) |-> a + i - 1]
<1>1. (a + j - 1) - a + 1 = j /\ (a + j) - a + 1 = j + 1 /\ a + (j + 1) - 1 = a + j
  OBVIOUS
<1>2. Octets(a, a + j - 1) = s /\ Octets(a, a + j) = t
  BY <1>1 DEF Octets
<1>3. \A i \in 1..j : a + i - 1 \in Int
  OBVIOUS
<1>4. s \in Seq(Int) /\ Len(s) = j
  BY <1>3
<1>5. Append(s, a + j) = t
  BY <1>1, <1>4
<1> QED BY <1>2, <1>5

\* Behind the first k octets, m messages are done and j octets of the next one are
\* there.
ParsedAt(k, m, j) ==
    /\ m \in 0..Len(Messages) /\ j \in Nat /\ k = Start(m + 1) + j - 1
    /\ m = Len(Messages) => j = 0
    /\ m < Len(Messages) => j < Messages[m + 1]
    /\ ParsedUpTo(Octets(1, k)) =
          [done |-> SubSeq(RealMessages, 1, m), message |-> Octets(Start(m + 1), Start(m + 1) + j - 1),
           need |-> IF j = 0 THEN 0 ELSE Messages[m + 1] - j]

LEMMA ParsedAtStart == ParsedAt(0, 0, 0)
<1>1. Octets(1, 0) = <<>> /\ SubSeq(RealMessages, 1, 0) = <<>>
  BY RealMessagesAre DEF Octets
<1>2. ParsedUpTo(<<>>) = NothingParsed
  BY ParseUnfolds DEF ParseFacts
<1>3. /\ Len(Messages) \in Nat /\ 0 \in 0..Len(Messages) /\ Start(0 + 1) = 1 /\ 1 + 0 - 1 = 0
      /\ (0 < Len(Messages) => 0 < Messages[0 + 1])
  <2>1. Len(Messages) \in Nat /\ Start(1) = 1 /\ \A m \in 1..Len(Messages) : Messages[m] \in Nat \ {0}
    BY LengthsAre, StartsAre
  <2>2. 0 + 1 = 1
    OBVIOUS
  <2>3. 0 < Len(Messages) => 1 \in 1..Len(Messages)
    BY <2>1
  <2> QED BY <2>1, <2>2, <2>3
<1> QED BY <1>1, <1>2, <1>3 DEF ParsedAt, NothingParsed

LEMMA ParsedAtNext ==
    ASSUME NEW k \in 1..Flight, NEW m, NEW j, ParsedAt(k - 1, m, j)
    PROVE  \E l, i : ParsedAt(k, l, i)
<1> DEFINE n == Len(Messages)
           a == Start(m + 1)
           M == Messages[m + 1]
           acc == ParsedUpTo(Octets(1, k - 1))
<1>1. n \in Nat /\ Flight \in Nat /\ Start(n + 1) = Flight + 1
  BY LengthsAre, StartsAre
<1>2. /\ m \in 0..n /\ j \in Nat /\ k - 1 = a + j - 1 /\ (m = n => j = 0) /\ (m < n => j < M)
      /\ acc = [done |-> SubSeq(RealMessages, 1, m), message |-> Octets(a, a + j - 1),
                need |-> IF j = 0 THEN 0 ELSE M - j]
  BY DEF ParsedAt
<1>3. a \in Nat
  <2>1. m + 1 \in 1..(n + 1)
    BY <1>1, <1>2
  <2> QED BY <2>1, StartsAre
<1>4. m < n
  <2>1. m = n => k - 1 = Flight
    BY <1>1, <1>2
  <2> QED BY <1>1, <1>2, <2>1
<1>5. m + 1 \in 1..n /\ m + 1 \in 0..n /\ (m + 1) + 1 \in 1..(n + 1)
  BY <1>1, <1>2, <1>4
<1>6. /\ M \in Nat \ {0} /\ Start((m + 1) + 1) = a + M /\ RealMessages[m + 1] = Octets(a, a + M - 1)
      /\ LengthAt(a) = M
  BY <1>5, StartsAre, RealMessagesAre, LengthAtStart
<1> HIDE DEF n, a, M, acc
<1>7. k = a + j /\ j < M
  BY <1>2, <1>3, <1>4
<1>8. ParsedUpTo(Octets(1, k)) = ParseStep(acc, k)
  <2>1. k - 1 \in Nat /\ k \in Nat /\ 1 + (k - 1) - 1 = k - 1 /\ 1 + (k - 1) = k
    BY <1>1
  <2>2. Append(Octets(1, 1 + (k - 1) - 1), 1 + (k - 1)) = Octets(1, 1 + (k - 1))
    BY <2>1, OneMoreOctet
  <2>3. Octets(1, k - 1) \in Seq(Nat)
    BY <2>1, OctetsFromOne
  <2>4. ParsedUpTo(Append(Octets(1, k - 1), k)) = ParseStep(acc, k)
    BY <2>1, <2>3, ParseUnfolds DEF ParseFacts, acc
  <2> QED BY <2>1, <2>2, <2>4
<1>9. NeedOf(acc, k) = M - j
  <2>1. acc.need = IF j = 0 THEN 0 ELSE M - j
    BY <1>2
  <2>2. CASE j = 0
    <3>1. acc.need = 0 /\ k = a
      BY <1>2, <1>3, <1>7, <2>1, <2>2
    <3> QED BY <1>6, <2>2, <3>1 DEF NeedOf
  <2>3. CASE j # 0
    <3>1. acc.need = M - j /\ M - j # 0
      BY <1>2, <1>6, <1>7, <2>1, <2>3
    <3> QED BY <3>1 DEF NeedOf
  <2> QED BY <2>2, <2>3
<1>10. /\ acc.done = SubSeq(RealMessages, 1, m) /\ Append(acc.message, k) = Octets(a, a + j)
  <2>1. Append(Octets(a, a + j - 1), a + j) = Octets(a, a + j)
    BY <1>2, <1>3, OneMoreOctet
  <2> QED BY <1>2, <1>7, <2>1
<1>11. CASE M - j = 1
  <2>1. a + j = a + M - 1
    BY <1>2, <1>3, <1>6, <1>11
  <2>2. ParsedUpTo(Octets(1, k)) =
           [done |-> Append(SubSeq(RealMessages, 1, m), RealMessages[m + 1]), message |-> <<>>, need |-> 0]
    BY <1>6, <1>8, <1>9, <1>10, <1>11, <2>1 DEF ParseStep
  <2>3. Append(SubSeq(RealMessages, 1, m), RealMessages[m + 1]) = SubSeq(RealMessages, 1, m + 1)
    <3>1. RealMessages \in Seq(Seq(Nat)) /\ Len(RealMessages) = n
      BY RealMessagesAre DEF n
    <3> QED BY <1>2, <1>5, <3>1
  <2> DEFINE l == m + 1
  <2>4. l \in 0..n /\ Start(l + 1) = a + M /\ k = Start(l + 1) + 0 - 1
    BY <1>2, <1>3, <1>5, <1>6, <1>7, <2>1
  <2>5. Octets(Start(l + 1), Start(l + 1) + 0 - 1) = <<>>
    <3>1. Start(l + 1) \in Nat
      BY <1>3, <1>6, <2>4
    <3> HIDE DEF l
    <3>2. (Start(l + 1) + 0 - 1) - Start(l + 1) + 1 = 0
      BY <3>1
    <3> QED BY <3>2 DEF Octets
  <2>6. l < n => 0 < Messages[l + 1]
    <3>1. l < n => l + 1 \in 1..n
      BY <1>1, <2>4
    <3> QED BY <3>1, StartsAre DEF n
  <2>7. ParsedAt(k, l, 0)
    BY <2>2, <2>3, <2>4, <2>5, <2>6 DEF ParsedAt, n
  <2> QED BY <2>7
<1>12. CASE M - j # 1
  <2>1. j + 1 \in Nat /\ j + 1 < M /\ j + 1 # 0 /\ k = a + (j + 1) - 1 /\ a + j = a + (j + 1) - 1
        /\ (M - j) - 1 = M - (j + 1)
    BY <1>2, <1>3, <1>6, <1>7, <1>12
  <2>2. ParsedUpTo(Octets(1, k)) =
           [done |-> SubSeq(RealMessages, 1, m), message |-> Octets(a, a + (j + 1) - 1), need |-> M - (j + 1)]
    BY <1>8, <1>9, <1>10, <1>12, <2>1 DEF ParseStep
  <2>3. m # n
    BY <1>1, <1>2, <1>4
  <2>4. ParsedAt(k, m, j + 1)
    BY <1>2, <2>1, <2>2, <2>3 DEF ParsedAt, n, a, M
  <2> QED BY <2>4
<1> QED BY <1>11, <1>12

LEMMA ParsesAll == ParsedMessages(Octets(1, Flight)) = RealMessages
<1> DEFINE Good == {k \in 0..Flight : \E l, i : ParsedAt(k, l, i)}
<1>1. Flight \in Nat
  BY LengthsAre
<1>2. 0 \in Good
  BY <1>1, ParsedAtStart
<1>3. \A k \in 1..Flight : k - 1 \in Good => k \in Good
  BY <1>1, ParsedAtNext
<1> HIDE DEF Good
<1>4. Flight \in Good
  BY <1>1, <1>2, <1>3, ChainInduction
<1>5. PICK m, j : ParsedAt(Flight, m, j)
  BY <1>4 DEF Good
<1> DEFINE n == Len(Messages)
<1>6. /\ m \in 0..n /\ j \in Nat /\ Flight = Start(m + 1) + j - 1 /\ (m = n => j = 0) /\ (m < n => j < Messages[m + 1])
      /\ ParsedUpTo(Octets(1, Flight)).done = SubSeq(RealMessages, 1, m)
  BY <1>5 DEF ParsedAt
<1>7. n \in Nat
  BY LengthsAre
<1>8. m = n
  <2> SUFFICES ASSUME m < n PROVE FALSE
    BY <1>6, <1>7
  <2>1. m + 1 \in 1..n /\ (m + 1) + 1 \in 1..(n + 1) /\ n + 1 \in 1..(n + 1) /\ ((m + 1) + 1 = n + 1 \/ (m + 1) + 1 < n + 1)
    BY <1>6, <1>7
  <2>2. Start((m + 1) + 1) = Start(m + 1) + Messages[m + 1] /\ Messages[m + 1] \in Nat \ {0}
    BY <2>1, StartsAre
  <2>3. Start(n + 1) = Flight + 1 /\ Start(m + 1) \in Nat /\ Start((m + 1) + 1) \in Nat
    BY <2>1, <1>6, <1>7, StartsAre
  <2>4. (m + 1) + 1 = n + 1 \/ Start((m + 1) + 1) < Start(n + 1)
    BY <2>1, StartsGrow
  <2>5. Start((m + 1) + 1) <= Start(n + 1)
    <3>1. CASE (m + 1) + 1 = n + 1
      BY <2>3, <3>1
    <3>2. CASE Start((m + 1) + 1) < Start(n + 1)
      BY <1>1, <2>3, <3>2
    <3> QED BY <2>4, <3>1, <3>2
  <2> QED BY <1>1, <1>6, <2>2, <2>3, <2>5
<1>9. SubSeq(RealMessages, 1, n) = RealMessages
  <2>1. RealMessages \in Seq(Seq(Nat)) /\ Len(RealMessages) = n
    BY RealMessagesAre
  <2> QED BY <1>7, <2>1
<1>10. ParsedUpTo(Octets(1, Flight)).done = RealMessages
  BY <1>6, <1>8, <1>9
<1> QED BY <1>10 DEF ParsedMessages, ParsedUpTo, NothingParsed

\* The transcript ends with the Finished, which is the last message.
LEMMA TranscriptIsAll == Transcript(RealMessages) = RealMessages
<1> DEFINE n == Len(Messages)
           ends == {i \in DOMAIN RealMessages : RealMessages[i] = Finished}
<1>1. n \in Nat /\ n # 0
  BY LengthsAre, SessionAssumption DEF SessionAssumption
<1>2. RealMessages \in Seq(Seq(Nat)) /\ Len(RealMessages) = n /\ DOMAIN RealMessages = 1..n
  BY RealMessagesAre
<1>3. \A m \in 1..n : RealMessages[m][1] = Start(m)
  BY RealMessagesAre
<1>4. Finished = RealMessages[n]
  BY <1>2 DEF Finished, Last
<1>5. ends = {n}
  <2>1. n \in 1..n
    BY <1>1
  <2>2. ASSUME NEW i \in 1..n, RealMessages[i] = RealMessages[n] PROVE i = n
    <3>1. Start(i) = Start(n)
      BY <1>3, <2>1, <2>2
    <3>2. i \in 1..(n + 1) /\ n \in 1..(n + 1) /\ (i = n \/ i < n)
      BY <1>1
    <3>3. Start(n) \in Nat
      BY <3>2, StartsAre
    <3>4. i < n => Start(i) < Start(n)
      BY <3>2, StartsGrow
    <3> QED BY <3>1, <3>2, <3>3, <3>4
  <2> QED BY <1>2, <1>4, <2>1, <2>2
<1> HIDE DEF ends
<1>6. ends # {} /\ (CHOOSE i \in ends : \A j \in ends : i <= j) = n
  BY <1>1, <1>5
<1>7. Transcript(RealMessages) = SubSeq(RealMessages, 1, n)
  BY <1>6 DEF Transcript, ends
<1> QED BY <1>1, <1>2, <1>7

\* The server's Handshake packets and their frames.
LEMMA ServerFramesAre ==
    ASSUME NEW r \in Datagrams, r = rows, Ping \notin ServerFrames
    PROVE  \E frames \in Seq(FrameOf(Flight)) :
              /\ ToSet(frames) = ServerFrames
              /\ _extract_quic_decrypted_handshake(r) = ParsedMessages(Reassembled(AddLast(<<>>, frames)))
<1> DEFINE packets == FlattenSeq(r)
           mine == Only(packets, ServerHandshakes)
           F == FrameOf(Flight)
           all == [i \in DOMAIN mine |-> mine[i].frames]
           parsed == [i \in DOMAIN mine |-> _parse_crypto_frames(mine[i].frames)]
<1>1. packets \in Seq(Packet)
  BY HelloIs
<1>2. mine \in Seq(ServerHandshakes) /\ ToSet(mine) = ToSet(packets) \cap ServerHandshakes
  BY <1>1, OnlyHolds, OnlyIn
<1>3. ToSet(mine) = {p \in ToSet(packets) : p.type = "handshake" /\ ~p.toServer}
  <2>1. \A p \in ToSet(packets) : p \in Packet
    BY <1>1 DEF ToSet
  <2> QED BY <1>2, <2>1 DEF ServerHandshakes
<1>4. ServerFrames = UNION {ToSet(p.frames) : p \in ToSet(mine)}
  BY <1>3 DEF ServerFrames, _iter_coalesced_packets
<1> HIDE DEF packets, mine
<1>5. DOMAIN mine = 1..Len(mine) /\ Len(mine) \in Nat /\ ToSet(mine) = {mine[i] : i \in DOMAIN mine}
      /\ \A i \in DOMAIN mine : mine[i] \in ServerHandshakes
  BY <1>2 DEF ToSet
<1>6. ServerFrames = UNION {ToSet(mine[i].frames) : i \in DOMAIN mine}
  BY <1>4, <1>5
<1>7. ASSUME NEW i \in DOMAIN mine
      PROVE  parsed[i] = mine[i].frames /\ parsed[i] \in Seq(F)
  <2>1. mine[i].frames \in Seq(AnyFrame(Flight))
    BY <1>5 DEF ServerHandshakes, Packet
  <2>2. Ping \notin ToSet(mine[i].frames)
    BY <1>6
  <2> QED BY <2>1, <2>2, ParsedFrames
<1>8. parsed \in Seq(Seq(F)) /\ DOMAIN parsed = DOMAIN mine
  <2>1. parsed \in [1..Len(mine) -> Seq(F)]
    BY <1>5, <1>7
  <2> QED BY <1>5, <2>1
<1> HIDE DEF F
<1>9. ToSet(FlattenSeq(parsed)) = UNION {ToSet(parsed[i]) : i \in DOMAIN parsed}
  BY <1>8, FlattenedSet
<1>10. FlattenSeq(parsed) \in Seq(F)
  <2>1. FlattenFacts(F)
    BY FlattenUnfolds
  <2> QED BY <1>8, <2>1 DEF FlattenFacts
<1>11. ToSet(FlattenSeq(parsed)) = ServerFrames
  BY <1>6, <1>7, <1>8, <1>9
<1>12. _extract_quic_decrypted_handshake(r) = ParsedMessages(Reassembled(AddLast(<<>>, FlattenSeq(parsed))))
  BY FoundIsOf DEF Found, mine, packets
<1> HIDE DEF parsed
<1> QED BY <1>10, <1>11, <1>12 DEF F

\* When the frames in the capture cover the server's flight, begin at different
\* offsets and none is hidden behind a PING, the transcript is the endpoints', in
\* whatever order the frames came and however they overlap
\* (_extract_quic_decrypted_handshake).
THEOREM QuicTranscriptIsExact == Spec => []TranscriptIsExact
<1>1. Inv => TranscriptIsExact
  <2> SUFFICES ASSUME Inv, Ping \notin ServerFrames,
                      UNION {ToSet(f.data) : f \in ServerFrames} = 1..Flight,
                      \A f, g \in ServerFrames : f.offset = g.offset => f = g
               PROVE  Transcript(_extract_quic_decrypted_handshake(rows)) = RealMessages
    BY DEF TranscriptIsExact
  <2>1. PICK r \in Datagrams : r = rows
    BY DEF Inv, SessionInv
  <2>2. PICK frames \in Seq(FrameOf(Flight)) :
           /\ ToSet(frames) = ServerFrames
           /\ _extract_quic_decrypted_handshake(r) = ParsedMessages(Reassembled(AddLast(<<>>, frames)))
    BY <2>1, ServerFramesAre
  <2> DEFINE g == AddLast(<<>>, frames)
  <2>3. /\ g \in Pieces(Flight) /\ DOMAIN g = {f.offset : f \in ToSet(frames)}
        /\ \A f \in ToSet(frames) : g[f.offset] = f.data
    BY <2>2, LastHolds
  <2>4. Flight \in Nat \ {0} /\ Flight <= AllOctets
    BY FlightPositive, LengthsAre DEF AllOctets
  <2> HIDE DEF g
  <2>5. ASSUME NEW i \in 1..Flight PROVE \E o \in DOMAIN g : o < i /\ i <= o + Len(g[o])
    <3>1. PICK f \in ToSet(frames) : i \in ToSet(f.data)
      BY <2>2
    <3>2. f.offset \in DOMAIN g /\ g[f.offset] = f.data
      BY <2>3, <3>1
    <3> DEFINE o == f.offset
    <3>3. o \in Nat /\ g[o] \in Seq(Nat) /\ \E m \in 1..Flight : o < m /\ g[o] = Octets(o + 1, m)
      BY <2>3, <3>2, PiecesAre
    <3>4. PICK m \in 1..Flight : o < m /\ g[o] = Octets(o + 1, m)
      BY <3>3
    <3>5. i \in ToSet(g[o]) /\ o \in DOMAIN g
      BY <3>1, <3>2
    <3> HIDE DEF o
    <3>6. m \in Nat /\ o <= m
      BY <2>4, <3>3, <3>4
    <3>7. Len(g[o]) = m - o /\ \A l \in 1..(m - o) : g[o][l] = o + l
      BY <3>3, <3>4, <3>6, OctetsBehind
    <3>8. PICK l \in 1..(m - o) : i = g[o][l]
      <4>1. DOMAIN g[o] = 1..Len(g[o])
        BY <3>3
      <4> QED BY <3>5, <3>7, <4>1 DEF ToSet
    <3>9. o < i /\ i <= o + Len(g[o])
      BY <3>3, <3>6, <3>7, <3>8
    <3> QED BY <3>5, <3>9
  <2>6. Reassembled(g) = Octets(1, Flight)
    BY <2>3, <2>4, <2>5, CoverIsWhole
  <2>7. _extract_quic_decrypted_handshake(rows) = RealMessages
    BY <2>1, <2>2, <2>6, ParsesAll DEF g
  <2> QED BY <2>7, TranscriptIsAll
<1> QED BY <1>1, QuicInvariant, PTL
=============================================================================
