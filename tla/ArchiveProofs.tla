---------------------------- MODULE ArchiveProofs ----------------------------
(***************************************************************************)
(* Theorems of TcpArchive, TlsArchive and TlsRecovery, for any             *)
(* connections, sessions, record lengths and captured segments.            *)
(*                                                                         *)
(* TCP: an accepted transcript is exact, and the two archivers agree.      *)
(* Both are folds over the rows; their values are a chain, about which an  *)
(* invariant is proved by induction over the rows.                         *)
(*                                                                         *)
(* TLS: the captures are those in which every row fits its stream; that is *)
(* the inductive invariant, and the rest is about operators.  Octets in    *)
(* the order of each direction are read as a prefix of its records; what   *)
(* the encoder makes of records is decoded to them, what is written to a   *)
(* PCAP is read back, and a recovery reads nothing that an archive drops.  *)
(***************************************************************************)
EXTENDS TlsRecovery, SequenceLemmas

Row   == {Segment(f, d, from, from + n - 1) :
              f \in Flow, d \in Direction, from \in Nat \ {0}, n \in Nat \ {0}}
Chunk == [dir : Direction, data : Seq(Nat)]
Acc   == [error : BOOLEAN, flow : {<<>>} \cup {<<f>> : f \in Flow},
          next : [Direction -> Nat], chunks : Seq(Chunk)]
-----------------------------------------------------------------------------
(* Runs of octets.                                                         *)

LEMMA OctetsAre ==
    ASSUME NEW a \in Nat \ {0}, NEW b \in Nat, b >= a - 1
    PROVE  /\ Octets(a, b) \in Seq(Nat) /\ Len(Octets(a, b)) = b - a + 1
           /\ \A i \in 1..(b - a + 1) : Octets(a, b)[i] = a + i - 1
<1>1. b - a + 1 \in Nat /\ \A i \in 1..(b - a + 1) : a + i - 1 \in Nat
  OBVIOUS
<1>2. Octets(a, b) \in [1..(b - a + 1) -> Nat]
  BY <1>1 DEF Octets
<1>3. Octets(a, b) \in Seq(Nat)
  BY <1>1, <1>2
<1> QED BY <1>1, <1>2, <1>3 DEF Octets

LEMMA OctetsJoin ==
    ASSUME NEW a \in Nat \ {0}, NEW b \in Nat, NEW c \in Nat, b >= a - 1, c >= b
    PROVE  Octets(a, b) \o Octets(b + 1, c) = Octets(a, c)
<1>1. /\ Octets(a, b) \in Seq(Nat) /\ Len(Octets(a, b)) = b - a + 1
      /\ \A i \in 1..(b - a + 1) : Octets(a, b)[i] = a + i - 1
  BY OctetsAre
<1>2. /\ Octets(b + 1, c) \in Seq(Nat) /\ Len(Octets(b + 1, c)) = c - b
      /\ \A i \in 1..(c - b) : Octets(b + 1, c)[i] = b + i
  <2>1. b + 1 \in Nat \ {0} /\ c >= (b + 1) - 1 /\ c - (b + 1) + 1 = c - b
    OBVIOUS
  <2>2. \A i \in 1..(c - b) : (b + 1) + i - 1 = b + i
    OBVIOUS
  <2> QED BY <2>1, <2>2, OctetsAre
<1>3. /\ Octets(a, c) \in Seq(Nat) /\ Len(Octets(a, c)) = c - a + 1
      /\ \A i \in 1..(c - a + 1) : Octets(a, c)[i] = a + i - 1
  <2>1. c >= a - 1
    OBVIOUS
  <2> QED BY <2>1, OctetsAre
<1> DEFINE s == Octets(a, b)
           t == Octets(b + 1, c)
           u == Octets(a, c)
<1> HIDE DEF s, t, u
<1>4. /\ s \in Seq(Nat) /\ t \in Seq(Nat) /\ u \in Seq(Nat)
      /\ Len(s) = b - a + 1 /\ Len(t) = c - b /\ Len(u) = c - a + 1
  BY <1>1, <1>2, <1>3 DEF s, t, u
<1>5. /\ s \o t \in Seq(Nat) /\ Len(s \o t) = c - a + 1
      /\ \A i \in 1..(c - a + 1) : (s \o t)[i] = IF i <= b - a + 1 THEN s[i] ELSE t[i - (b - a + 1)]
  <2>1. /\ s \o t \in Seq(Nat) /\ Len(s \o t) = Len(s) + Len(t)
        /\ \A i \in 1..(Len(s) + Len(t)) :
              (s \o t)[i] = IF i <= Len(s) THEN s[i] ELSE t[i - Len(s)]
    BY <1>4, ConcatProperties
  <2>2. Len(s) + Len(t) = c - a + 1
    BY <1>4
  <2> QED BY <1>4, <2>1, <2>2
<1>6. ASSUME NEW i \in 1..(c - a + 1) PROVE (s \o t)[i] = u[i]
  <2>1. u[i] = a + i - 1
    BY <1>3 DEF u
  <2>2. CASE i <= b - a + 1
    <3>1. i \in 1..(b - a + 1)
      BY <2>2
    <3>2. s[i] = a + i - 1
      BY <1>1, <3>1 DEF s
    <3> QED BY <1>5, <2>1, <2>2, <3>2
  <2>3. CASE ~(i <= b - a + 1)
    <3>1. i - (b - a + 1) \in 1..(c - b) /\ b + (i - (b - a + 1)) = a + i - 1
      BY <2>3
    <3>2. t[i - (b - a + 1)] = b + (i - (b - a + 1))
      BY <1>2, <3>1 DEF t
    <3> QED BY <1>5, <2>1, <2>3, <3>1, <3>2
  <2> QED BY <2>2, <2>3
<1>7. s \o t = u
  BY <1>4, <1>5, <1>6, SeqEqual
<1> QED BY <1>7 DEF s, t, u

LEMMA RowIs ==
    ASSUME NEW r \in Row
    PROVE  /\ r.flow \in Flow /\ r.dir \in Direction /\ r.seq \in Nat \ {0}
           /\ r.data \in Seq(Nat) /\ Len(r.data) \in Nat \ {0}
           /\ LastOctet(r) \in Nat /\ LastOctet(r) >= r.seq
           /\ r.data = Octets(r.seq, LastOctet(r))
<1>1. PICK f \in Flow, d \in Direction, from \in Nat \ {0}, n \in Nat \ {0} :
        r = Segment(f, d, from, from + n - 1)
  BY DEF Row
<1>2. /\ r.flow = f /\ r.dir = d /\ r.seq = from /\ r.data = Octets(from, from + n - 1)
  BY <1>1 DEF Segment
<1>3. from + n - 1 \in Nat /\ from + n - 1 >= from - 1 /\ (from + n - 1) - from + 1 = n
  OBVIOUS
<1>4. r.data \in Seq(Nat) /\ Len(r.data) = n
  BY <1>2, <1>3, OctetsAre
<1>5. LastOctet(r) = from + n - 1
  BY <1>2, <1>4 DEF LastOctet
<1> QED BY <1>2, <1>3, <1>4, <1>5

\* What a row adds is the run from the octet expected to the row's last one.
LEMMA NovelIs ==
    ASSUME NEW r \in Row, NEW e \in Nat, e >= r.seq
    PROVE  IF e > LastOctet(r) THEN Novel(r, e) = <<>>
           ELSE /\ Novel(r, e) = Octets(e, LastOctet(r)) /\ Novel(r, e) # <<>>
                /\ Novel(r, e) \in Seq(Nat) /\ e + Len(Novel(r, e)) = LastOctet(r) + 1
<1> DEFINE q == r.seq
           last == LastOctet(r)
           d == r.data
           m == e - q + 1
           n == last - q + 1
<1>1. q \in Nat \ {0} /\ d \in Seq(Nat) /\ last \in Nat /\ last >= q /\ d = Octets(q, last)
  BY RowIs
<1> HIDE DEF q, last, d
<1>2. Len(d) = n /\ \A i \in 1..n : d[i] = q + i - 1 /\ d[i] \in Nat
  <2>1. last >= q - 1
    BY <1>1
  <2>2. Len(d) = n /\ \A i \in 1..n : d[i] = q + i - 1
    BY <1>1, <2>1, OctetsAre
  <2> QED BY <1>1, <2>2
<1>3. m \in Nat \ {0} /\ n \in Nat /\ n - m + 1 = last - e + 1 /\ e >= q
  BY <1>1 DEF q
<1>4. Novel(r, e) = SubSeq(d, m, n)
  BY <1>2 DEF Novel, d, q
<1>5. CASE e > last
  <2>1. n < m /\ m \in Int /\ n \in Int
    BY <1>1, <1>3, <1>5
  <2>2. SubSeq(d, m, n) = <<>>
    BY <2>1, SubSeqEmpty
  <2> QED BY <1>4, <1>5, <2>2 DEF last
<1>6. CASE ~(e > last)
  <2> DEFINE t == SubSeq(d, m, n)
             u == Octets(e, last)
  <2>1. m \in Int /\ n \in Int /\ m <= n /\ \A i \in m..n : d[i] \in Nat
    BY <1>1, <1>2, <1>3, <1>6
  <2>2. /\ t \in Seq(Nat) /\ Len(t) = n - m + 1 /\ \A i \in 1..(n - m + 1) : t[i] = d[m + i - 1]
    BY <2>1, SubSeqProperties
  <2>3. e \in Nat \ {0} /\ last >= e - 1 /\ last >= e
    BY <1>1, <1>3, <1>6
  <2>4. /\ u \in Seq(Nat) /\ Len(u) = last - e + 1 /\ \A i \in 1..(last - e + 1) : u[i] = e + i - 1
    BY <1>1, <2>3, OctetsAre
  <2> HIDE DEF t, u
  <2>5. ASSUME NEW i \in 1..(last - e + 1) PROVE t[i] = u[i]
    <3>1. m + i - 1 \in 1..n /\ q + (m + i - 1) - 1 = e + i - 1
      BY <1>1, <1>3
    <3>2. d[m + i - 1] = q + (m + i - 1) - 1
      BY <1>2, <3>1
    <3> QED BY <1>3, <2>2, <2>4, <3>1, <3>2
  <2>6. Len(t) = last - e + 1
    BY <1>3, <2>2
  <2>7. t = u
    BY <2>2, <2>4, <2>5, <2>6, SeqEqual
  <2>8. t # <<>> /\ e + Len(t) = last + 1
    BY <1>1, <2>3, <2>6
  <2> QED BY <1>4, <1>6, <2>2, <2>7, <2>8 DEF t, u, last
<1> QED BY <1>5, <1>6 DEF last

-----------------------------------------------------------------------------
(* The stream of a direction.                                              *)

\* h[k] is the stream of the first k chunks.
StreamChain(chunks, d, h) ==
    /\ h \in [0..Len(chunks) -> Seq(Nat)] /\ h[0] = <<>>
    /\ \A k \in 1..Len(chunks) :
          h[k] = IF chunks[k].dir = d THEN h[k - 1] \o chunks[k].data ELSE h[k - 1]

LEMMA StreamIs ==
    ASSUME NEW c \in Seq(Chunk), NEW d
    PROVE  \E h : StreamChain(c, d, h) /\ h[Len(c)] = Stream(c, d)
<1> DEFINE T == Seq(Nat)
           n == Len(c)
           r == Stream(c, d)
           Step(t, x) == IF x.dir = d THEN t \o x.data ELSE t
           G == [p \in (1..n) \X T |-> Step(p[2], c[p[1]])]
           Eq(iter) == iter = [q \in SUBSET DOMAIN c |->
                         IF q = {} THEN <<>> ELSE Step(iter[q \ {Max(q)}], c[Max(q)])]
           iter == CHOOSE iter : Eq(iter)
<1>1. n \in Nat /\ DOMAIN c = 1..n /\ <<>> \in T /\ \A k \in 1..n : c[k] \in Chunk
  OBVIOUS
<1>2. \A k \in 1..n, t \in T : Step(t, c[k]) \in T
  BY <1>1 DEF Chunk
<1>3. G \in [(1..n) \X T -> T] /\ \A k \in 1..n, t \in T : G[<<k, t>>] = Step(t, c[k])
  <2> HIDE DEF Step, T, n
  <2> QED BY <1>2
<1>4. r = iter[1..n]
  BY <1>1 DEF Stream, FoldLeft, MapThenFoldSet
<1> HIDE DEF G, T, n, r, Step
<1>5. PICK F \in [SUBSET (1..n) -> T] : FoldOf(n, <<>>, G, F)
  BY <1>1, <1>3, FoldExists
<1>6. Eq(F)
  <2>1. ASSUME NEW q \in SUBSET (1..n), q # {}
        PROVE  G[<<Max(q), F[q \ {Max(q)}]>>] = Step(F[q \ {Max(q)}], c[Max(q)])
    BY <2>1, MaxIsIn, <1>1, <1>3
  <2> QED BY <2>1, <1>1, <1>5 DEF FoldOf
<1>7. Eq(iter)
  BY <1>6, Zenon
<1> HIDE DEF iter
<1>8. iter[{}] = <<>>
  BY <1>7
<1>9. ASSUME NEW q \in SUBSET (1..n), q # {}, iter[q \ {Max(q)}] \in T
      PROVE  iter[q] = G[<<Max(q), iter[q \ {Max(q)}]>>]
  BY <1>1, <1>3, <1>7, <1>9, MaxIsIn
<1>10. FoldSteps(n, <<>>, T, G, iter)
  BY <1>1, <1>3, <1>8, <1>9 DEF FoldSteps
<1> HIDE DEF Eq
<1>11. PICK h \in [0..n -> T] : ChainOf(n, <<>>, G, h) /\ h[n] = iter[1..n]
  BY <1>10, FoldRun
<1>12. h[0] = <<>> /\ \A k \in 1..n : h[k] = Step(h[k - 1], c[k])
  <2>1. \A k \in 1..n : k - 1 \in 0..n
    BY <1>1
  <2> QED BY <1>3, <1>11, <2>1 DEF ChainOf
<1> QED BY <1>4, <1>11, <1>12 DEF StreamChain, T, n, r, Step

\* Two sequences with a common beginning have a common stream there.
LEMMA StreamShared ==
    ASSUME NEW b \in Seq(Chunk), NEW c \in Seq(Chunk), NEW d, NEW g, NEW h,
           StreamChain(b, d, g), StreamChain(c, d, h), NEW m \in Nat,
           m <= Len(b), m <= Len(c), \A i \in 1..m : b[i] = c[i]
    PROVE  g[m] = h[m]
<1> DEFINE Good == {k \in 0..m : g[k] = h[k]}
<1>1. 0 \in Good
  BY DEF StreamChain
<1>2. ASSUME NEW k \in 1..m, k - 1 \in Good PROVE k \in Good
  <2>1. k \in 1..Len(b) /\ k \in 1..Len(c) /\ k \in 0..m /\ b[k] = c[k]
    OBVIOUS
  <2>2. g[k - 1] = h[k - 1]
    BY <1>2
  <2> QED BY <2>1, <2>2 DEF StreamChain
<1> HIDE DEF Good
<1>3. m \in Good
  BY <1>1, <1>2, ChainInduction
<1> QED BY <1>3 DEF Good

LEMMA StreamNone ==
    ASSUME NEW d
    PROVE  Stream(<<>>, d) = <<>>
<1>1. <<>> \in Seq(Chunk) /\ Len(<<>>) = 0
  OBVIOUS
<1>2. PICK h : StreamChain(<<>>, d, h) /\ h[0] = Stream(<<>>, d)
  BY <1>1, StreamIs
<1> QED BY <1>2 DEF StreamChain

\* c is b with one more chunk.
OneMore(b, c) == Len(c) = Len(b) + 1 /\ \A i \in 1..Len(b) : c[i] = b[i]

\* The last chunk adds its data to the stream of its direction.
LEMMA StreamLast ==
    ASSUME NEW b \in Seq(Chunk), NEW c \in Seq(Chunk), NEW d, OneMore(b, c)
    PROVE  /\ Stream(b, d) \in Seq(Nat) /\ Stream(c, d) \in Seq(Nat)
           /\ Stream(c, d) = IF c[Len(c)].dir = d THEN Stream(b, d) \o c[Len(c)].data ELSE Stream(b, d)
<1>1. PICK g : StreamChain(b, d, g) /\ g[Len(b)] = Stream(b, d)
  BY StreamIs
<1>2. PICK h : StreamChain(c, d, h) /\ h[Len(c)] = Stream(c, d)
  BY StreamIs
<1>3. Len(b) \in Nat /\ Len(c) \in 1..Len(c) /\ Len(c) - 1 = Len(b) /\ Len(b) <= Len(c)
      /\ Len(b) \in 0..Len(b) /\ Len(c) \in 0..Len(c)
  BY DEF OneMore
<1>4. g[Len(b)] = h[Len(b)]
  BY <1>1, <1>2, <1>3, StreamShared DEF OneMore
<1> QED BY <1>1, <1>2, <1>3, <1>4 DEF StreamChain

LEMMA MergedChunk ==
    ASSUME NEW y \in Chunk, NEW octets
    PROVE  [y EXCEPT !.data = octets] = [dir |-> y.dir, data |-> octets]
  BY DEF Chunk

LEMMA StreamAdd ==
    ASSUME NEW c \in Seq(Chunk), NEW d \in Direction, NEW data \in Seq(Nat)
    PROVE  /\ AddChunk(c, d, data) \in Seq(Chunk) /\ AddChunk(c, d, data) # <<>>
           /\ \A e : Stream(AddChunk(c, d, data), e) =
                        IF e = d THEN Stream(c, e) \o data ELSE Stream(c, e)
<1> DEFINE n == Len(c)
           a == AddChunk(c, d, data)
<1>1. CASE c # <<>> /\ Last(c).dir = d
  <2> DEFINE x == [dir |-> d, data |-> c[n].data \o data]
             p == SubSeq(c, 1, n - 1)
  <2>1. n \in Nat \ {0} /\ c[n] \in Chunk /\ c[n].dir = d
    BY <1>1 DEF Last
  <2>2. x \in Chunk /\ c[n].data \in Seq(Nat)
    BY <2>1 DEF Chunk
  <2>3. [c[n] EXCEPT !.data = @ \o data] = x
    BY <2>1, MergedChunk
  <2>4. a = [c EXCEPT ![n] = x]
    BY <1>1, <2>3 DEF AddChunk
  <2> HIDE DEF x
  <2>5. a \in Seq(Chunk) /\ Len(a) = n /\ a[n] = x /\ a # <<>> /\ \A i \in 1..(n - 1) : a[i] = c[i]
    BY <2>1, <2>2, <2>4
  <2>6. p \in Seq(Chunk) /\ Len(p) = n - 1 /\ \A i \in 1..(n - 1) : p[i] = c[i]
    BY <1>1, FrontOf
  <2> HIDE DEF a, p
  <2>7. ASSUME NEW e PROVE Stream(a, e) = IF e = d THEN Stream(c, e) \o data ELSE Stream(c, e)
    <3>1. /\ Stream(p, e) \in Seq(Nat)
          /\ Stream(c, e) = IF c[n].dir = e THEN Stream(p, e) \o c[n].data ELSE Stream(p, e)
      <4>1. OneMore(p, c)
        BY <2>1, <2>6 DEF OneMore
      <4> QED BY <4>1, <2>6, StreamLast
    <3>2. Stream(a, e) = IF a[n].dir = e THEN Stream(p, e) \o a[n].data ELSE Stream(p, e)
      <4>1. OneMore(p, a)
        BY <2>1, <2>5, <2>6 DEF OneMore
      <4> HIDE DEF n
      <4> QED BY <4>1, <2>5, <2>6, StreamLast
    <3>3. a[n].dir = d /\ a[n].data = c[n].data \o data
      BY <2>5 DEF x
    <3>4. CASE e = d
      <4> DEFINE t == Stream(p, e)
                 u == c[n].data
      <4> HIDE DEF t, u
      <4>1. t \in Seq(Nat) /\ u \in Seq(Nat) /\ data \in Seq(Nat)
        BY <2>2, <3>1 DEF t, u
      <4>2. (t \o u) \o data = t \o (u \o data)
        BY <4>1, Associates
      <4> USE DEF t, u
      <4> QED BY <2>1, <3>1, <3>2, <3>3, <3>4, <4>2
    <3> QED BY <2>1, <3>1, <3>2, <3>3, <3>4
  <2> QED BY <2>5, <2>7 DEF a
<1>2. CASE ~(c # <<>> /\ Last(c).dir = d)
  <2> DEFINE x == [dir |-> d, data |-> data]
  <2>1. x \in Chunk
    BY DEF Chunk
  <2>2. a = Append(c, x)
    BY <1>2 DEF AddChunk
  <2> HIDE DEF x
  <2>3. a \in Seq(Chunk) /\ Len(a) = Len(c) + 1 /\ a[Len(a)] = x /\ a # <<>> /\ \A i \in 1..Len(c) : a[i] = c[i]
    BY <2>1, <2>2
  <2> HIDE DEF a
  <2>4. OneMore(c, a)
    BY <2>3 DEF OneMore
  <2>5. ASSUME NEW e PROVE Stream(a, e) = IF e = d THEN Stream(c, e) \o data ELSE Stream(c, e)
    <3>1. Stream(a, e) = IF a[Len(a)].dir = e THEN Stream(c, e) \o a[Len(a)].data ELSE Stream(c, e)
      BY <2>3, <2>4, StreamLast
    <3> QED BY <2>3, <3>1 DEF x
  <2> QED BY <2>3, <2>5 DEF a
<1> QED BY <1>1, <1>2

LEMMA StreamAppend ==
    ASSUME NEW c \in Seq(Chunk), NEW x \in Chunk
    PROVE  /\ Append(c, x) \in Seq(Chunk) /\ Append(c, x) # <<>>
           /\ \A e : Stream(Append(c, x), e) =
                        IF e = x.dir THEN Stream(c, e) \o x.data ELSE Stream(c, e)
<1> DEFINE a == Append(c, x)
<1>1. a \in Seq(Chunk) /\ Len(a) = Len(c) + 1 /\ a[Len(a)] = x /\ a # <<>> /\ \A i \in 1..Len(c) : a[i] = c[i]
  OBVIOUS
<1> HIDE DEF a
<1>2. OneMore(c, a)
  BY <1>1 DEF OneMore
<1>3. ASSUME NEW e PROVE Stream(a, e) = IF e = x.dir THEN Stream(c, e) \o x.data ELSE Stream(c, e)
  <2>1. Stream(a, e) = IF a[Len(a)].dir = e THEN Stream(c, e) \o a[Len(a)].data ELSE Stream(c, e)
    BY <1>1, <1>2, StreamLast
  <2> QED BY <1>1, <2>1
<1> QED BY <1>1, <1>3 DEF a
-----------------------------------------------------------------------------
(* One row.                                                                *)

Expected(acc, r) == IF acc.next[r.dir] = 0 THEN r.seq ELSE acc.next[r.dir]

\* A row before which octets are missing.
Leaps(acc, r) == acc.next[r.dir] # 0 /\ r.seq > acc.next[r.dir]

\* What a row without error makes of the two streams.
Advance(acc, new, r) ==
    IF Expected(acc, r) > LastOctet(r)
    THEN new.next = acc.next /\ new.chunks = acc.chunks
    ELSE /\ new.next = [acc.next EXCEPT ![r.dir] = LastOctet(r) + 1]
         /\ new.chunks # <<>>
         /\ \A d : Stream(new.chunks, d) =
                      IF d = r.dir THEN Stream(acc.chunks, d) \o Octets(Expected(acc, r), LastOctet(r))
                      ELSE Stream(acc.chunks, d)

LEMMA Failed ==
    ASSUME NEW acc \in Acc
    PROVE  [acc EXCEPT !.error = TRUE] \in Acc /\ [acc EXCEPT !.error = TRUE].error
  BY DEF Acc

LEMMA Typed ==
    ASSUME NEW acc \in Acc, NEW r \in Row
    PROVE  /\ acc.error \in BOOLEAN /\ acc.next \in [Direction -> Nat] /\ acc.next[r.dir] \in Nat
           /\ acc.chunks \in Seq(Chunk) /\ acc.flow \in {<<>>} \cup {<<f>> : f \in Flow}
           /\ Expected(acc, r) \in Nat /\ (~Leaps(acc, r) => Expected(acc, r) >= r.seq)
           /\ (Leaps(acc, r) <=> r.seq > Expected(acc, r))
<1>1. r.dir \in Direction /\ r.seq \in Nat
  BY RowIs
<1>2. /\ acc.error \in BOOLEAN /\ acc.next \in [Direction -> Nat]
      /\ acc.chunks \in Seq(Chunk) /\ acc.flow \in {<<>>} \cup {<<f>> : f \in Flow}
  BY DEF Acc
<1> QED BY <1>1, <1>2 DEF Expected, Leaps

LEMMA ChunkRowIs ==
    ASSUME NEW acc \in Acc, NEW r \in Row
    PROVE  /\ ChunkRow(acc, r) \in Acc
           /\ IF acc.error \/ (acc.flow # <<>> /\ acc.flow # <<r.flow>>) \/ Leaps(acc, r)
              THEN ChunkRow(acc, r).error
              ELSE /\ ~ChunkRow(acc, r).error /\ Advance(acc, ChunkRow(acc, r), r)
                   /\ ChunkRow(acc, r).flow = IF Expected(acc, r) > LastOctet(r) THEN acc.flow ELSE <<r.flow>>
<1> DEFINE new == ChunkRow(acc, r)
           e == Expected(acc, r)
           novel == Novel(r, e)
           bad == acc.error \/ (acc.flow # <<>> /\ acc.flow # <<r.flow>>) \/ r.seq > e
<1>1. new = IF bad THEN [acc EXCEPT !.error = TRUE]
            ELSE IF novel = <<>> THEN acc
            ELSE [error |-> FALSE, flow |-> <<r.flow>>,
                  next |-> [acc.next EXCEPT ![r.dir] = e + Len(novel)],
                  chunks |-> AddChunk(acc.chunks, r.dir, novel)]
  BY DEF ChunkRow, Expected
<1>2. /\ e \in Nat /\ acc.chunks \in Seq(Chunk) /\ acc.next \in [Direction -> Nat] /\ acc.error \in BOOLEAN
      /\ (Leaps(acc, r) <=> r.seq > e)
  BY Typed
<1>3. r.dir \in Direction /\ r.flow \in Flow /\ r.seq \in Nat /\ LastOctet(r) \in Nat
  BY RowIs
<1> HIDE DEF new, e, novel
<1>4. CASE bad
  BY <1>1, <1>2, <1>4, Failed DEF new
<1>5. CASE ~bad
  <2>1. e >= r.seq
    BY <1>2, <1>3, <1>5
  <2>2. IF e > LastOctet(r) THEN novel = <<>>
        ELSE /\ novel = Octets(e, LastOctet(r)) /\ novel # <<>>
             /\ novel \in Seq(Nat) /\ e + Len(novel) = LastOctet(r) + 1
    BY <1>2, <2>1, NovelIs DEF novel
  <2>3. CASE e > LastOctet(r)
    <3>1. new = acc
      BY <1>1, <1>5, <2>2, <2>3
    <3> QED BY <1>2, <1>5, <2>3, <3>1 DEF new, e, Advance
  <2>4. CASE ~(e > LastOctet(r))
    <3> DEFINE chunks == AddChunk(acc.chunks, r.dir, novel)
    <3>1. /\ chunks \in Seq(Chunk) /\ chunks # <<>>
          /\ \A d : Stream(chunks, d) = IF d = r.dir THEN Stream(acc.chunks, d) \o novel ELSE Stream(acc.chunks, d)
      BY <1>2, <1>3, <2>2, <2>4, StreamAdd
    <3> HIDE DEF chunks
    <3>3. new = [error |-> FALSE, flow |-> <<r.flow>>,
                 next |-> [acc.next EXCEPT ![r.dir] = LastOctet(r) + 1], chunks |-> chunks]
      BY <1>1, <1>5, <2>2, <2>4 DEF chunks
    <3>4. [acc.next EXCEPT ![r.dir] = LastOctet(r) + 1] \in [Direction -> Nat]
      BY <1>2, <1>3
    <3>5. new \in Acc
      BY <1>2, <1>3, <3>1, <3>3, <3>4 DEF Acc
    <3>6. /\ ~new.error /\ new.flow = <<r.flow>> /\ new.chunks = chunks
          /\ new.next = [acc.next EXCEPT ![r.dir] = LastOctet(r) + 1]
      BY <1>5, <3>3
    <3>7. Advance(acc, new, r)
      BY <2>2, <2>4, <3>1, <3>6 DEF Advance, e
    <3> QED BY <1>2, <1>5, <2>4, <3>5, <3>6, <3>7 DEF new, e
  <2> QED BY <2>3, <2>4
<1> QED BY <1>4, <1>5

LEMMA EventRowIs ==
    ASSUME NEW acc \in Acc, NEW r \in Row
    PROVE  /\ EventRow(acc, r) \in Acc
           /\ IF acc.error \/ Leaps(acc, r) THEN EventRow(acc, r).error
              ELSE ~EventRow(acc, r).error /\ Advance(acc, EventRow(acc, r), r)
<1> DEFINE new == EventRow(acc, r)
           e == Expected(acc, r)
           novel == Novel(r, e)
           payload == IF acc.next[r.dir] = 0 THEN r.data ELSE Novel(r, acc.next[r.dir])
<1>1. new = IF acc.error \/ Leaps(acc, r) THEN [acc EXCEPT !.error = TRUE]
            ELSE IF payload = <<>> THEN acc
            ELSE [error |-> FALSE, flow |-> acc.flow,
                  next |-> [acc.next EXCEPT ![r.dir] = e + Len(payload)],
                  chunks |-> Append(acc.chunks, [dir |-> r.dir, data |-> payload])]
  BY DEF EventRow, Expected, Leaps
<1>2. /\ e \in Nat /\ acc.chunks \in Seq(Chunk) /\ acc.next \in [Direction -> Nat] /\ acc.error \in BOOLEAN
      /\ (Leaps(acc, r) <=> r.seq > e) /\ acc.next[r.dir] \in Nat
  BY Typed
<1>3. /\ r.dir \in Direction /\ r.flow \in Flow /\ r.seq \in Nat \ {0} /\ LastOctet(r) \in Nat
      /\ LastOctet(r) >= r.seq /\ r.data = Octets(r.seq, LastOctet(r)) /\ r.data \in Seq(Nat)
  BY RowIs
<1>4. CASE acc.error \/ Leaps(acc, r)
  BY <1>1, <1>4, Failed
<1>5. CASE ~(acc.error \/ Leaps(acc, r))
  <2>1. e >= r.seq
    BY <1>2, <1>3, <1>5
  <2>2. IF e > LastOctet(r) THEN novel = <<>>
        ELSE /\ novel = Octets(e, LastOctet(r)) /\ novel # <<>>
             /\ novel \in Seq(Nat) /\ e + Len(novel) = LastOctet(r) + 1
    <3> HIDE DEF e
    <3> QED BY <1>2, <2>1, NovelIs
  <2>3. payload = novel
    <3>1. CASE acc.next[r.dir] = 0
      <4>1. e = r.seq /\ ~(e > LastOctet(r))
        BY <1>3, <3>1 DEF Expected
      <4>2. novel = Octets(r.seq, LastOctet(r))
        <5> HIDE DEF e, novel
        <5> QED BY <2>2, <4>1
      <4> QED BY <1>3, <3>1, <4>2
    <3>2. CASE acc.next[r.dir] # 0
      BY <3>2 DEF Expected
    <3> QED BY <3>1, <3>2
  <2> HIDE DEF new, e, novel, payload
  <2>4. CASE e > LastOctet(r)
    <3>1. new = acc
      BY <1>1, <1>5, <2>2, <2>3, <2>4
    <3> QED BY <1>2, <1>5, <2>4, <3>1 DEF new, e, Advance
  <2>5. CASE ~(e > LastOctet(r))
    <3> DEFINE x == [dir |-> r.dir, data |-> novel]
               chunks == Append(acc.chunks, x)
    <3>1. x \in Chunk
      BY <1>3, <2>2, <2>5 DEF Chunk
    <3>2. x.dir = r.dir /\ x.data = novel
      OBVIOUS
    <3> HIDE DEF x
    <3>4. /\ chunks \in Seq(Chunk) /\ chunks # <<>>
          /\ \A d : Stream(chunks, d) = IF d = x.dir THEN Stream(acc.chunks, d) \o x.data ELSE Stream(acc.chunks, d)
      BY <1>2, <3>1, StreamAppend
    <3> HIDE DEF chunks
    <3>5. new = [error |-> FALSE, flow |-> acc.flow,
                 next |-> [acc.next EXCEPT ![r.dir] = LastOctet(r) + 1], chunks |-> chunks]
      BY <1>1, <1>5, <2>2, <2>3, <2>5 DEF chunks, x
    <3>6. [acc.next EXCEPT ![r.dir] = LastOctet(r) + 1] \in [Direction -> Nat]
      BY <1>2, <1>3
    <3>7. new \in Acc
      BY <1>2, <1>3, <3>4, <3>5, <3>6 DEF Acc
    <3>8. /\ ~new.error /\ new.chunks = chunks
          /\ new.next = [acc.next EXCEPT ![r.dir] = LastOctet(r) + 1]
      BY <1>5, <3>5
    <3>9. Advance(acc, new, r)
      BY <2>2, <2>5, <3>2, <3>4, <3>8 DEF Advance, e
    <3> QED BY <1>2, <1>5, <3>7, <3>8, <3>9 DEF new
  <2> QED BY <2>4, <2>5
<1> QED BY <1>4, <1>5
-----------------------------------------------------------------------------
(* The two loops.                                                          *)

ExtractChain(s, h) ==
    /\ h \in [0..Len(s) -> Acc] /\ h[0] = Fresh
    /\ \A k \in 1..Len(s) : h[k] = ChunkRow(h[k - 1], s[k])

MineRow(s, acc, r) == IF r.flow = s[1].flow THEN EventRow(acc, r) ELSE acc

EventChain(s, h) ==
    /\ h \in [0..Len(s) -> Acc] /\ h[0] = Fresh
    /\ \A k \in 1..Len(s) : h[k] = MineRow(s, h[k - 1], s[k])

LEMMA FreshIs ==
    /\ Fresh \in Acc /\ ~Fresh.error /\ Fresh.flow = <<>> /\ Fresh.chunks = <<>>
    /\ \A d \in Direction : Fresh.next[d] = 0
  BY DEF Fresh, Acc

LEMMA ExtractRun ==
    ASSUME NEW s \in Seq(Row)
    PROVE  \E h : ExtractChain(s, h) /\ extract_tcp_chunks(s) =
                     [ok |-> ~h[Len(s)].error /\ h[Len(s)].chunks # <<>>, chunks |-> h[Len(s)].chunks]
<1> DEFINE n == Len(s)
           r == FoldLeft(ChunkRow, Fresh, s)
           G == [p \in (1..n) \X Acc |-> ChunkRow(p[2], s[p[1]])]
           Eq(iter) == iter = [q \in SUBSET DOMAIN s |->
                         IF q = {} THEN Fresh ELSE ChunkRow(iter[q \ {Max(q)}], s[Max(q)])]
           iter == CHOOSE iter : Eq(iter)
<1>1. n \in Nat /\ DOMAIN s = 1..n /\ Fresh \in Acc /\ \A k \in 1..n : s[k] \in Row
  BY FreshIs
<1>2. \A k \in 1..n, t \in Acc : ChunkRow(t, s[k]) \in Acc
  BY <1>1, ChunkRowIs
<1>3. G \in [(1..n) \X Acc -> Acc] /\ \A k \in 1..n, t \in Acc : G[<<k, t>>] = ChunkRow(t, s[k])
  <2> HIDE DEF n
  <2> QED BY <1>2
<1>4. r = iter[1..n]
  BY <1>1 DEF FoldLeft, MapThenFoldSet
<1> HIDE DEF G, n, r
<1>5. PICK F \in [SUBSET (1..n) -> Acc] : FoldOf(n, Fresh, G, F)
  BY <1>1, <1>3, FoldExists
<1>6. Eq(F)
  <2>1. ASSUME NEW q \in SUBSET (1..n), q # {}
        PROVE  G[<<Max(q), F[q \ {Max(q)}]>>] = ChunkRow(F[q \ {Max(q)}], s[Max(q)])
    BY <2>1, MaxIsIn, <1>1, <1>3
  <2> QED BY <2>1, <1>1, <1>5 DEF FoldOf
<1>7. Eq(iter)
  BY <1>6, Zenon
<1> HIDE DEF iter
<1>8. iter[{}] = Fresh
  BY <1>7
<1>9. ASSUME NEW q \in SUBSET (1..n), q # {}, iter[q \ {Max(q)}] \in Acc
      PROVE  iter[q] = G[<<Max(q), iter[q \ {Max(q)}]>>]
  BY <1>1, <1>3, <1>7, <1>9, MaxIsIn
<1>10. FoldSteps(n, Fresh, Acc, G, iter)
  BY <1>1, <1>3, <1>8, <1>9 DEF FoldSteps
<1> HIDE DEF Eq
<1>11. PICK h \in [0..n -> Acc] : ChainOf(n, Fresh, G, h) /\ h[n] = iter[1..n]
  BY <1>10, FoldRun
<1>12. h[0] = Fresh /\ \A k \in 1..n : h[k] = ChunkRow(h[k - 1], s[k])
  <2>1. \A k \in 1..n : k - 1 \in 0..n
    BY <1>1
  <2> QED BY <1>3, <1>11, <2>1 DEF ChainOf
<1>13. ExtractChain(s, h) /\ h[Len(s)] = r
  BY <1>4, <1>11, <1>12 DEF ExtractChain, n
<1>14. extract_tcp_chunks(s) = [ok |-> ~r.error /\ r.chunks # <<>>, chunks |-> r.chunks]
  BY DEF extract_tcp_chunks, r
<1> QED BY <1>13, <1>14

LEMMA EventRun ==
    ASSUME NEW s \in Seq(Row)
    PROVE  \E h : EventChain(s, h) /\ _tcp_events(s) =
                     [ok |-> ~h[Len(s)].error /\ h[Len(s)].chunks # <<>>, chunks |-> h[Len(s)].chunks]
<1> DEFINE n == Len(s)
           Step(t, x) == IF x.flow = s[1].flow THEN EventRow(t, x) ELSE t
           r == FoldLeft(Step, Fresh, s)
           G == [p \in (1..n) \X Acc |-> Step(p[2], s[p[1]])]
           Eq(iter) == iter = [q \in SUBSET DOMAIN s |->
                         IF q = {} THEN Fresh ELSE Step(iter[q \ {Max(q)}], s[Max(q)])]
           iter == CHOOSE iter : Eq(iter)
<1>1. n \in Nat /\ DOMAIN s = 1..n /\ Fresh \in Acc /\ \A k \in 1..n : s[k] \in Row
  BY FreshIs
<1>2. \A k \in 1..n, t \in Acc : Step(t, s[k]) \in Acc
  BY <1>1, EventRowIs
<1>3. G \in [(1..n) \X Acc -> Acc] /\ \A k \in 1..n, t \in Acc : G[<<k, t>>] = Step(t, s[k])
  <2> HIDE DEF n, Step
  <2> QED BY <1>2
<1>4. r = iter[1..n]
  BY <1>1 DEF FoldLeft, MapThenFoldSet
<1>5. _tcp_events(s) = [ok |-> ~r.error /\ r.chunks # <<>>, chunks |-> r.chunks]
  BY DEF _tcp_events
<1> HIDE DEF G, n, r, Step
<1>6. PICK F \in [SUBSET (1..n) -> Acc] : FoldOf(n, Fresh, G, F)
  BY <1>1, <1>3, FoldExists
<1>7. Eq(F)
  <2>1. ASSUME NEW q \in SUBSET (1..n), q # {}
        PROVE  G[<<Max(q), F[q \ {Max(q)}]>>] = Step(F[q \ {Max(q)}], s[Max(q)])
    BY <2>1, MaxIsIn, <1>1, <1>3
  <2> QED BY <2>1, <1>1, <1>6 DEF FoldOf
<1>8. Eq(iter)
  BY <1>7, Zenon
<1> HIDE DEF iter
<1>9. iter[{}] = Fresh
  BY <1>8
<1>10. ASSUME NEW q \in SUBSET (1..n), q # {}, iter[q \ {Max(q)}] \in Acc
      PROVE  iter[q] = G[<<Max(q), iter[q \ {Max(q)}]>>]
  BY <1>1, <1>3, <1>8, <1>10, MaxIsIn
<1>11. FoldSteps(n, Fresh, Acc, G, iter)
  BY <1>1, <1>3, <1>9, <1>10 DEF FoldSteps
<1> HIDE DEF Eq
<1>12. PICK h \in [0..n -> Acc] : ChainOf(n, Fresh, G, h) /\ h[n] = iter[1..n]
  BY <1>11, FoldRun
<1>13. h[0] = Fresh /\ \A k \in 1..n : h[k] = Step(h[k - 1], s[k])
  <2>1. \A k \in 1..n : k - 1 \in 0..n
    BY <1>1
  <2> QED BY <1>3, <1>12, <2>1 DEF ChainOf
<1>14. EventChain(s, h) /\ h[Len(s)] = r
  BY <1>4, <1>12, <1>13 DEF EventChain, MineRow, n, Step
<1> QED BY <1>5, <1>14
-----------------------------------------------------------------------------
(* What holds of the first loop after k rows.                              *)

\* A direction's stream is the run of octets from the first row of the
\* direction to the octet before the one expected next.
DirInv(s, k, acc, d) ==
    IF \A i \in 1..k : s[i].dir # d THEN acc.next[d] = 0 /\ Stream(acc.chunks, d) = <<>>
    ELSE \E f \in 1..k :
            /\ s[f].dir = d
            /\ \A j \in 1..k : s[j].dir = d => f <= j /\ LastOctet(s[j]) < acc.next[d]
            /\ Stream(acc.chunks, d) = Octets(s[f].seq, acc.next[d] - 1)

FlowInv(s, k, acc) ==
    /\ \A i \in 1..k : s[i].flow = s[1].flow
    /\ IF k = 0 THEN acc.flow = <<>> ELSE acc.flow = <<s[1].flow>> /\ acc.chunks # <<>>

ExactInv(s, k, acc) == acc.error \/ (FlowInv(s, k, acc) /\ \A d \in Direction : DirInv(s, k, acc, d))

LEMMA DirKept ==
    ASSUME NEW s \in Seq(Row), NEW k \in 1..Len(s), NEW acc \in Acc, NEW new \in Acc,
           Advance(acc, new, s[k]), ~Leaps(acc, s[k]), NEW d \in Direction, DirInv(s, k - 1, acc, d)
    PROVE  DirInv(s, k, new, d)
<1> DEFINE r == s[k]
           e == Expected(acc, r)
           last == LastOctet(r)
<1>1. /\ r \in Row /\ \A i \in 1..k : s[i] \in Row
      /\ \A i \in 1..k : i \in 1..(k - 1) \/ i = k
      /\ \A i \in 1..(k - 1) : i \in 1..k /\ i < k
  OBVIOUS
<1>2. /\ r.dir \in Direction /\ r.seq \in Nat \ {0} /\ last \in Nat /\ last >= r.seq
  BY <1>1, RowIs
<1>3. /\ e \in Nat /\ acc.next \in [Direction -> Nat] /\ acc.chunks \in Seq(Chunk) /\ e >= r.seq
      /\ acc.next[d] \in Nat
  BY <1>1, Typed
<1>4. IF e > last THEN new.next = acc.next /\ new.chunks = acc.chunks
      ELSE /\ new.next = [acc.next EXCEPT ![r.dir] = last + 1]
           /\ Stream(new.chunks, d) = IF d = r.dir THEN Stream(acc.chunks, d) \o Octets(e, last)
                                      ELSE Stream(acc.chunks, d)
  BY DEF Advance
<1>5. e = IF acc.next[r.dir] = 0 THEN r.seq ELSE acc.next[r.dir]
  BY DEF Expected
<1> HIDE DEF r, e, last
<1>6. CASE d # r.dir
  <2>1. new.next[d] = acc.next[d] /\ Stream(new.chunks, d) = Stream(acc.chunks, d)
    BY <1>2, <1>3, <1>4, <1>6
  <2>2. s[k].dir # d
    BY <1>6 DEF r
  <2>3. CASE \A i \in 1..(k - 1) : s[i].dir # d
    <3>1. \A i \in 1..k : s[i].dir # d
      BY <1>1, <2>2, <2>3
    <3> QED BY <2>1, <2>3, <3>1 DEF DirInv
  <2>4. CASE ~(\A i \in 1..(k - 1) : s[i].dir # d)
    <3>1. PICK f \in 1..(k - 1) :
            /\ s[f].dir = d
            /\ \A j \in 1..(k - 1) : s[j].dir = d => f <= j /\ LastOctet(s[j]) < acc.next[d]
            /\ Stream(acc.chunks, d) = Octets(s[f].seq, acc.next[d] - 1)
      BY <2>4 DEF DirInv
    <3>2. f \in 1..k /\ \A j \in 1..k : s[j].dir = d => f <= j /\ LastOctet(s[j]) < new.next[d]
      BY <1>1, <2>1, <2>2, <3>1
    <3> QED BY <2>1, <3>1, <3>2 DEF DirInv
  <2> QED BY <2>3, <2>4
<1>7. CASE d = r.dir
  <2>1. s[k].dir = d /\ k \in 1..k /\ s[k].seq = r.seq /\ LastOctet(s[k]) = last
    BY <1>7 DEF r, last
  <2>2. CASE \A i \in 1..(k - 1) : s[i].dir # d
    <3>1. acc.next[d] = 0 /\ Stream(acc.chunks, d) = <<>>
      BY <2>2 DEF DirInv
    <3>2. e = r.seq /\ ~(e > last)
      BY <1>2, <1>5, <1>7, <3>1
    <3>3. new.next[d] = last + 1
      BY <1>2, <1>3, <1>4, <1>7, <3>2
    <3>4. Stream(new.chunks, d) = <<>> \o Octets(r.seq, last)
      BY <1>4, <1>7, <3>1, <3>2
    <3>5. Octets(r.seq, last) \in Seq(Nat)
      <4>1. last >= r.seq - 1
        BY <1>2
      <4> QED BY <1>2, <4>1, OctetsAre
    <3>6. <<>> \o Octets(r.seq, last) = Octets(r.seq, last)
      BY <3>5, ConcatEmptySeq
    <3>7. new.next[d] - 1 = last
      BY <1>2, <3>3
    <3>8. Stream(new.chunks, d) = Octets(s[k].seq, new.next[d] - 1)
      BY <2>1, <3>4, <3>6, <3>7
    <3>9. \A j \in 1..k : s[j].dir = d => k <= j /\ LastOctet(s[j]) < new.next[d]
      BY <1>1, <1>2, <2>1, <2>2, <3>3
    <3> QED BY <2>1, <3>8, <3>9 DEF DirInv
  <2>3. CASE ~(\A i \in 1..(k - 1) : s[i].dir # d)
    <3> DEFINE m == acc.next[d]
    <3>1. PICK f \in 1..(k - 1) :
            /\ s[f].dir = d
            /\ \A j \in 1..(k - 1) : s[j].dir = d => f <= j /\ LastOctet(s[j]) < m
            /\ Stream(acc.chunks, d) = Octets(s[f].seq, m - 1)
      BY <2>3 DEF DirInv
    <3>2. s[f] \in Row /\ f \in 1..k /\ f <= k
      BY <1>1
    <3>3. s[f].seq \in Nat \ {0} /\ LastOctet(s[f]) >= s[f].seq /\ LastOctet(s[f]) \in Nat
      BY <3>2, RowIs
    <3>4. m \in Nat /\ m > s[f].seq
      BY <1>3, <3>1, <3>3
    <3>5. e = m
      BY <1>5, <1>7, <3>3, <3>4
    <3>6. CASE m > last
      <4>1. new.next[d] = m /\ Stream(new.chunks, d) = Stream(acc.chunks, d)
        BY <1>4, <3>5, <3>6
      <4>2. \A j \in 1..k : s[j].dir = d => f <= j /\ LastOctet(s[j]) < new.next[d]
        BY <1>1, <2>1, <3>1, <3>2, <3>6, <4>1
      <4> QED BY <2>1, <3>1, <3>2, <4>1, <4>2 DEF DirInv
    <3>7. CASE ~(m > last)
      <4>1. new.next[d] = last + 1 /\ Stream(new.chunks, d) = Octets(s[f].seq, m - 1) \o Octets(m, last)
        BY <1>2, <1>3, <1>4, <1>7, <3>1, <3>5, <3>7
      <4>2. Octets(s[f].seq, m - 1) \o Octets(m, last) = Octets(s[f].seq, last)
        <5> DEFINE a == s[f].seq
                   b == m - 1
        <5>1. a \in Nat \ {0} /\ b \in Nat /\ b >= a - 1 /\ last \in Nat /\ last >= b /\ b + 1 = m
          BY <1>2, <3>3, <3>4, <3>7
        <5> HIDE DEF a, b
        <5>2. Octets(a, b) \o Octets(b + 1, last) = Octets(a, last)
          BY <5>1, OctetsJoin
        <5> QED BY <5>1, <5>2 DEF a, b
      <4>3. new.next[d] - 1 = last
        BY <1>2, <4>1
      <4>4. \A j \in 1..k : s[j].dir = d => f <= j /\ LastOctet(s[j]) < new.next[d]
        <5>1. ASSUME NEW j \in 1..k, s[j].dir = d PROVE f <= j /\ LastOctet(s[j]) < last + 1
          <6>1. CASE j = k
            BY <1>2, <2>1, <3>2, <6>1
          <6>2. CASE j \in 1..(k - 1)
            <7>1. f <= j /\ LastOctet(s[j]) < m /\ LastOctet(s[j]) \in Nat
              BY <1>1, <3>1, <5>1, <6>2, RowIs
            <7> QED BY <1>2, <3>4, <3>7, <7>1
          <6> QED BY <1>1, <6>1, <6>2
        <5> QED BY <4>1, <5>1
      <4> QED BY <2>1, <3>1, <3>2, <4>1, <4>2, <4>3, <4>4 DEF DirInv
    <3> QED BY <3>6, <3>7
  <2> QED BY <2>2, <2>3
<1> QED BY <1>6, <1>7

LEMMA ExactKept ==
    ASSUME NEW s \in Seq(Row), NEW k \in 1..Len(s), NEW acc \in Acc, ExactInv(s, k - 1, acc)
    PROVE  /\ ExactInv(s, k, ChunkRow(acc, s[k]))
           /\ ~ChunkRow(acc, s[k]).error => ~acc.error /\ s[k].flow = s[1].flow
           /\ ~acc.error /\ ChunkRow(acc, s[k]).error =>
                 s[k].flow # s[1].flow \/ Leaps(acc, s[k])
<1> DEFINE r == s[k]
           new == ChunkRow(acc, r)
<1>1. r \in Row /\ 1 \in 1..k /\ k - 1 \in Nat /\ \A i \in 1..k : i \in 1..(k - 1) \/ i = k
  OBVIOUS
<1>2. /\ new \in Acc
      /\ IF acc.error \/ (acc.flow # <<>> /\ acc.flow # <<r.flow>>) \/ Leaps(acc, r)
         THEN new.error
         ELSE /\ ~new.error /\ Advance(acc, new, r)
              /\ new.flow = IF Expected(acc, r) > LastOctet(r) THEN acc.flow ELSE <<r.flow>>
  BY <1>1, ChunkRowIs
<1> HIDE DEF new
<1>3. CASE acc.error
  BY <1>2, <1>3 DEF ExactInv, new
<1>4. CASE ~acc.error
  <2>1. FlowInv(s, k - 1, acc) /\ \A d \in Direction : DirInv(s, k - 1, acc, d)
    BY <1>4 DEF ExactInv
  <2>2. acc.flow = IF k = 1 THEN <<>> ELSE <<s[1].flow>>
    BY <1>1, <2>1 DEF FlowInv
  <2>3. (acc.flow # <<>> /\ acc.flow # <<r.flow>>) <=> r.flow # s[1].flow
    <3>1. CASE k = 1
      BY <2>2, <3>1
    <3>2. CASE k # 1
      BY <2>2, <3>2
    <3> QED BY <3>1, <3>2
  <2>4. CASE r.flow # s[1].flow \/ Leaps(acc, r)
    <3>1. new.error
      BY <1>2, <2>3, <2>4
    <3> QED BY <1>4, <2>4, <3>1 DEF ExactInv, new
  <2>5. CASE ~(r.flow # s[1].flow \/ Leaps(acc, r))
    <3>1. /\ ~new.error /\ Advance(acc, new, r)
          /\ new.flow = IF Expected(acc, r) > LastOctet(r) THEN acc.flow ELSE <<r.flow>>
      BY <1>2, <1>4, <2>3, <2>5
    <3>2. \A d \in Direction : DirInv(s, k, new, d)
      BY <1>2, <2>1, <2>5, <3>1, DirKept
    <3>3. \A i \in 1..k : s[i].flow = s[1].flow
      BY <1>1, <2>1, <2>5 DEF FlowInv
    <3>4. new.flow = <<s[1].flow>> /\ new.chunks # <<>>
      <4>1. CASE Expected(acc, r) > LastOctet(r)
        <5>1. k # 1
          <6>1. ASSUME k = 1 PROVE FALSE
            <7>1. r.dir \in Direction /\ r.seq \in Nat /\ LastOctet(r) \in Nat /\ LastOctet(r) >= r.seq
              BY <1>1, RowIs
            <7>2. DirInv(s, 0, acc, r.dir)
              BY <2>1, <6>1, <7>1
            <7>3. acc.next[r.dir] = 0
              BY <7>2 DEF DirInv
            <7> QED BY <4>1, <7>1, <7>3 DEF Expected
          <6> QED BY <6>1
        <5>2. acc.flow = <<s[1].flow>> /\ acc.chunks # <<>>
          BY <1>1, <2>1, <5>1 DEF FlowInv
        <5> QED BY <3>1, <4>1, <5>2 DEF Advance
      <4>2. CASE ~(Expected(acc, r) > LastOctet(r))
        BY <2>5, <3>1, <4>2 DEF Advance
      <4> QED BY <4>1, <4>2
    <3>5. FlowInv(s, k, new)
      BY <1>1, <3>3, <3>4 DEF FlowInv
    <3> QED BY <1>4, <2>5, <3>1, <3>2, <3>5 DEF ExactInv, new
  <2> QED BY <2>4, <2>5
<1> QED BY <1>3, <1>4

\* The invariant holds after every row.
LEMMA ExactRun ==
    ASSUME NEW s \in Seq(Row), NEW h, ExtractChain(s, h)
    PROVE  \A k \in 0..Len(s) : ExactInv(s, k, h[k])
<1> DEFINE n == Len(s)
           Good == {k \in 0..n : ExactInv(s, k, h[k])}
<1>1. n \in Nat /\ \A k \in 1..n : k \in 0..n /\ k - 1 \in 0..n
  OBVIOUS
<1>2. /\ \A k \in 0..n : h[k] \in Acc
      /\ h[0] = Fresh /\ \A k \in 1..n : h[k] = ChunkRow(h[k - 1], s[k])
  BY DEF ExtractChain
<1>3. ExactInv(s, 0, Fresh)
  <2>1. ASSUME NEW d \in Direction PROVE DirInv(s, 0, Fresh, d)
    BY FreshIs, StreamNone DEF DirInv
  <2>2. FlowInv(s, 0, Fresh)
    BY FreshIs DEF FlowInv
  <2> QED BY <2>1, <2>2 DEF ExactInv
<1>4. 0 \in Good
  BY <1>1, <1>2, <1>3
<1>5. ASSUME NEW k \in 1..n, k - 1 \in Good PROVE k \in Good
  <2>1. ExactInv(s, k - 1, h[k - 1]) /\ h[k - 1] \in Acc
    BY <1>1, <1>2, <1>5
  <2>2. ExactInv(s, k, h[k])
    BY <1>2, <2>1, ExactKept
  <2> QED BY <1>1, <2>2
<1> HIDE DEF Good
<1>6. 0..n \subseteq Good
  BY <1>1, <1>4, <1>5, ChainInduction
<1> QED BY <1>6 DEF Good
-----------------------------------------------------------------------------
(* The two loops, row by row: acc is the first one's state, evt the        *)
(* second's.                                                               *)

PairInv(s, k, acc, evt) ==
    IF acc.error THEN evt.error \/ \E i \in 1..k : s[i].flow # s[1].flow
    ELSE /\ ~evt.error /\ evt.next = acc.next
         /\ \A d \in Direction : Stream(evt.chunks, d) = Stream(acc.chunks, d)
         /\ k > 0 => evt.chunks # <<>>

\* The same row takes equal streams to equal streams.
LEMMA SameAdvance ==
    ASSUME NEW acc, NEW evt, NEW a, NEW b, NEW r, Advance(acc, a, r), Advance(evt, b, r),
           evt.next = acc.next, \A d \in Direction : Stream(evt.chunks, d) = Stream(acc.chunks, d)
    PROVE  b.next = a.next /\ \A d \in Direction : Stream(b.chunks, d) = Stream(a.chunks, d)
<1>1. Expected(evt, r) = Expected(acc, r)
  BY DEF Expected
<1>2. CASE Expected(acc, r) > LastOctet(r)
  BY <1>1, <1>2 DEF Advance
<1>3. CASE ~(Expected(acc, r) > LastOctet(r))
  <2> DEFINE run == Octets(Expected(acc, r), LastOctet(r))
  <2>1. \A d : Stream(a.chunks, d) = IF d = r.dir THEN Stream(acc.chunks, d) \o run ELSE Stream(acc.chunks, d)
    BY <1>3 DEF Advance
  <2>2. \A d : Stream(b.chunks, d) = IF d = r.dir THEN Stream(evt.chunks, d) \o run ELSE Stream(evt.chunks, d)
    BY <1>1, <1>3 DEF Advance
  <2>3. b.next = a.next
    BY <1>1, <1>3 DEF Advance
  <2> HIDE DEF run
  <2> QED BY <2>1, <2>2, <2>3
<1> QED BY <1>2, <1>3

LEMMA PairKept ==
    ASSUME NEW s \in Seq(Row), NEW k \in 1..Len(s), NEW acc \in Acc, NEW evt \in Acc,
           ExactInv(s, k - 1, acc), PairInv(s, k - 1, acc, evt)
    PROVE  PairInv(s, k, ChunkRow(acc, s[k]), MineRow(s, evt, s[k]))
<1> DEFINE r == s[k]
           a == ChunkRow(acc, r)
           b == MineRow(s, evt, r)
<1>1. r \in Row /\ k \in 1..k /\ \A i \in 1..(k - 1) : i \in 1..k
  OBVIOUS
<1>2. IF acc.error \/ (acc.flow # <<>> /\ acc.flow # <<r.flow>>) \/ Leaps(acc, r)
      THEN a.error ELSE ~a.error /\ Advance(acc, a, r)
  BY <1>1, ChunkRowIs
<1>3. r.flow = s[1].flow =>
          IF evt.error \/ Leaps(evt, r) THEN b.error ELSE ~b.error /\ Advance(evt, b, r)
  BY <1>1, EventRowIs DEF MineRow
<1>4. r.flow # s[1].flow => b = evt
  BY DEF MineRow
<1>5. /\ ~a.error => ~acc.error /\ r.flow = s[1].flow
      /\ ~acc.error /\ a.error => r.flow # s[1].flow \/ Leaps(acc, r)
  BY ExactKept
<1>6. acc.error \in BOOLEAN /\ evt.error \in BOOLEAN
  BY <1>1, Typed
<1> HIDE DEF a, b
<1>7. CASE acc.error
  <2>1. a.error
    BY <1>2, <1>7
  <2>2. evt.error \/ \E i \in 1..(k - 1) : s[i].flow # s[1].flow
    BY <1>7 DEF PairInv
  <2>3. b.error \/ \E i \in 1..k : s[i].flow # s[1].flow
    <3>1. CASE r.flow # s[1].flow
      BY <1>1, <3>1 DEF r
    <3>2. CASE r.flow = s[1].flow
      BY <1>1, <1>3, <2>2, <3>2
    <3> QED BY <3>1, <3>2
  <2> QED BY <2>1, <2>3 DEF PairInv, a, b
<1>8. CASE ~acc.error
  <2>1. /\ ~evt.error /\ evt.next = acc.next
        /\ \A d \in Direction : Stream(evt.chunks, d) = Stream(acc.chunks, d)
        /\ k - 1 > 0 => evt.chunks # <<>>
    BY <1>8 DEF PairInv
  <2>2. Leaps(evt, r) <=> Leaps(acc, r)
    BY <2>1 DEF Leaps
  <2>3. CASE a.error
    <3>1. CASE r.flow # s[1].flow
      BY <1>1, <2>3, <3>1 DEF PairInv, a, b, r
    <3>2. CASE r.flow = s[1].flow
      <4>1. b.error
        BY <1>3, <1>5, <1>8, <2>2, <2>3, <3>2
      <4> QED BY <2>3, <4>1 DEF PairInv, a, b
    <3> QED BY <3>1, <3>2
  <2>4. CASE ~a.error
    <3>1. r.flow = s[1].flow /\ Advance(acc, a, r) /\ ~Leaps(acc, r)
      BY <1>2, <1>5, <2>4
    <3>2. ~b.error /\ Advance(evt, b, r)
      BY <1>3, <2>1, <2>2, <3>1
    <3>3. b.next = a.next /\ \A d \in Direction : Stream(b.chunks, d) = Stream(a.chunks, d)
      BY <2>1, <3>1, <3>2, SameAdvance
    <3>4. b.chunks # <<>>
      <4>1. CASE Expected(evt, r) > LastOctet(r)
        <5>1. ASSUME k = 1 PROVE FALSE
          <6>1. r.dir \in Direction /\ r.seq \in Nat /\ LastOctet(r) \in Nat /\ LastOctet(r) >= r.seq
            BY <1>1, RowIs
          <6>2. DirInv(s, 0, acc, r.dir)
            BY <1>8, <5>1, <6>1 DEF ExactInv
          <6>3. evt.next[r.dir] = 0
            BY <2>1, <6>2 DEF DirInv
          <6> QED BY <4>1, <6>1, <6>3 DEF Expected
        <5>2. k - 1 > 0
          BY <5>1
        <5> QED BY <2>1, <3>2, <4>1, <5>2 DEF Advance
      <4>2. CASE ~(Expected(evt, r) > LastOctet(r))
        BY <3>2, <4>2 DEF Advance
      <4> QED BY <4>1, <4>2
    <3> QED BY <2>4, <3>2, <3>3, <3>4 DEF PairInv, a, b
  <2> QED BY <2>3, <2>4
<1> QED BY <1>7, <1>8

LEMMA PairRun ==
    ASSUME NEW s \in Seq(Row), NEW h, NEW g, ExtractChain(s, h), EventChain(s, g)
    PROVE  \A k \in 0..Len(s) : PairInv(s, k, h[k], g[k])
<1> DEFINE n == Len(s)
           Good == {k \in 0..n : PairInv(s, k, h[k], g[k])}
<1>1. n \in Nat /\ \A k \in 1..n : k \in 0..n /\ k - 1 \in 0..n
  OBVIOUS
<1>2. /\ \A k \in 0..n : h[k] \in Acc /\ g[k] \in Acc
      /\ h[0] = Fresh /\ \A k \in 1..n : h[k] = ChunkRow(h[k - 1], s[k])
      /\ g[0] = Fresh /\ \A k \in 1..n : g[k] = MineRow(s, g[k - 1], s[k])
  BY DEF ExtractChain, EventChain
<1>3. \A k \in 0..n : ExactInv(s, k, h[k])
  BY ExactRun
<1>4. 0 \in Good
  <2>1. PairInv(s, 0, Fresh, Fresh)
    BY FreshIs DEF PairInv
  <2> QED BY <1>1, <1>2, <2>1
<1>5. ASSUME NEW k \in 1..n, k - 1 \in Good PROVE k \in Good
  <2>1. /\ PairInv(s, k - 1, h[k - 1], g[k - 1]) /\ ExactInv(s, k - 1, h[k - 1])
        /\ h[k - 1] \in Acc /\ g[k - 1] \in Acc
    BY <1>1, <1>2, <1>3, <1>5
  <2>2. PairInv(s, k, h[k], g[k])
    BY <1>2, <2>1, PairKept
  <2> QED BY <1>1, <2>2
<1> HIDE DEF Good
<1>6. 0..n \subseteq Good
  BY <1>1, <1>4, <1>5, ChainInduction
<1> QED BY <1>6 DEF Good
-----------------------------------------------------------------------------
(* Captures.                                                               *)

LEMMA RowsAre == Spec => [](rows \in Seq(Row))
<1>1. Init => rows \in Seq(Row)
  BY DEF Init
<1>2. rows \in Seq(Row) /\ [Next]_vars => (rows \in Seq(Row))'
  <2> SUFFICES ASSUME rows \in Seq(Row), [Next]_vars PROVE rows' \in Seq(Row)
    OBVIOUS
  <2>1. CASE UNCHANGED vars
    BY <2>1 DEF vars
  <2>2. ASSUME NEW f \in Flow, NEW d \in Direction, NEW n \in 1..MaxSegment,
               NEW from \in 1..Total[f], Capture(f, d, from, n)
        PROVE  rows' \in Seq(Row)
    <3>1. from \in Nat \ {0} /\ n \in Nat \ {0}
      BY ArchiveAssumption
    <3>2. Segment(f, d, from, from + n - 1) \in Row
      BY <3>1 DEF Row
    <3> QED BY <2>2, <3>2 DEF Capture
  <2> QED BY <2>1, <2>2 DEF Next
<1> QED BY <1>1, <1>2, PTL DEF Spec

\* Whatever segments were dropped, delayed or sent again with other boundaries,
\* a transcript that extract_tcp_chunks accepts is one run of octets in each
\* direction, of one connection.
THEOREM AcceptedIsExact == Spec => []TranscriptIsExact
<1>1. rows \in Seq(Row) => TranscriptIsExact
  <2> SUFFICES ASSUME rows \in Seq(Row), Extracted.ok PROVE
        /\ \A i, j \in DOMAIN rows : rows[i].flow = rows[j].flow
        /\ \A d \in Direction :
              LET mine   == OfDirection(d)
                  first  == rows[CHOOSE i \in mine : \A j \in mine : i <= j]
                  stream == Stream(Extracted.chunks, d)
              IN  IF mine = {} THEN stream = <<>>
                  ELSE /\ stream = Octets(first.seq, first.seq + Len(stream) - 1)
                       /\ \A i \in mine : LastOctet(rows[i]) <= Last(stream)
    BY DEF TranscriptIsExact
  <2> DEFINE n == Len(rows)
  <2>1. PICK h : ExtractChain(rows, h) /\ Extracted =
                   [ok |-> ~h[n].error /\ h[n].chunks # <<>>, chunks |-> h[n].chunks]
    BY ExtractRun DEF Extracted
  <2> DEFINE acc == h[n]
  <2>2. ~acc.error /\ Extracted.chunks = acc.chunks
    BY <2>1
  <2>3. n \in 0..n /\ DOMAIN rows = 1..n /\ n \in Nat
    OBVIOUS
  <2>4. ExactInv(rows, n, acc) /\ acc \in Acc
    BY <2>1, <2>3, ExactRun DEF ExtractChain
  <2> HIDE DEF acc, n
  <2>5. FlowInv(rows, n, acc) /\ \A d \in Direction : DirInv(rows, n, acc, d)
    BY <2>2, <2>4 DEF ExactInv
  <2>6. \A i, j \in DOMAIN rows : rows[i].flow = rows[j].flow
    BY <2>3, <2>5 DEF FlowInv
  <2>7. ASSUME NEW d \in Direction
        PROVE  LET mine   == OfDirection(d)
                   first  == rows[CHOOSE i \in mine : \A j \in mine : i <= j]
                   stream == Stream(Extracted.chunks, d)
               IN  IF mine = {} THEN stream = <<>>
                   ELSE /\ stream = Octets(first.seq, first.seq + Len(stream) - 1)
                        /\ \A i \in mine : LastOctet(rows[i]) <= Last(stream)
    <3> DEFINE mine   == OfDirection(d)
               least  == CHOOSE i \in mine : \A j \in mine : i <= j
               stream == Stream(acc.chunks, d)
               m      == acc.next[d]
    <3>1. DirInv(rows, n, acc, d) /\ m \in Nat
      BY <2>4, <2>5 DEF Acc
    <3>2. \A i : i \in mine <=> i \in 1..n /\ rows[i].dir = d
      BY <2>3 DEF OfDirection
    <3>3. CASE mine = {}
      <4>1. \A i \in 1..n : rows[i].dir # d
        BY <3>2, <3>3
      <4> QED BY <2>2, <3>1, <3>3, <4>1 DEF DirInv
    <3>4. CASE mine # {}
      <4>1. ~(\A i \in 1..n : rows[i].dir # d)
        BY <3>2, <3>4
      <4>2. PICK f \in 1..n :
              /\ rows[f].dir = d
              /\ \A j \in 1..n : rows[j].dir = d => f <= j /\ LastOctet(rows[j]) < m
              /\ stream = Octets(rows[f].seq, m - 1)
        BY <3>1, <4>1 DEF DirInv
      <4>3. f \in mine /\ \A j \in mine : f <= j
        BY <3>2, <4>2
      <4>4. least \in mine /\ \A j \in mine : least <= j
        BY <4>3
      <4>5. mine \in SUBSET Nat
        BY <3>2
      <4> HIDE DEF least, mine
      <4>6. least = f
        <5>1. least \in Nat /\ f \in Nat /\ least <= f /\ f <= least
          BY <4>3, <4>4, <4>5
        <5> QED BY <5>1
      <4>7. rows[f] \in Row
        BY <2>3
      <4>8. rows[f].seq \in Nat \ {0} /\ LastOctet(rows[f]) \in Nat /\ LastOctet(rows[f]) >= rows[f].seq
        BY <4>7, RowIs
      <4> DEFINE a == rows[f].seq
                 b == m - 1
      <4>9. a \in Nat \ {0} /\ b \in Nat /\ b >= a /\ b >= a - 1
        BY <3>1, <4>2, <4>8
      <4> HIDE DEF a, b, stream
      <4>10. stream = Octets(a, b)
        BY <4>2 DEF a, b
      <4>11. /\ Octets(a, b) \in Seq(Nat) /\ Len(Octets(a, b)) = b - a + 1
             /\ \A i \in 1..(b - a + 1) : Octets(a, b)[i] = a + i - 1
        BY <4>9, OctetsAre
      <4>12. Len(stream) = b - a + 1 /\ a + Len(stream) - 1 = b
        BY <4>9, <4>10, <4>11
      <4>13. Last(stream) = b
        <5>1. b - a + 1 \in 1..(b - a + 1) /\ a + (b - a + 1) - 1 = b
          BY <4>9
        <5> QED BY <4>10, <4>11, <4>12, <5>1 DEF Last
      <4>14. \A i \in mine : LastOctet(rows[i]) <= b
        <5>1. ASSUME NEW i \in mine PROVE LastOctet(rows[i]) <= b
          <6>1. i \in 1..n /\ rows[i].dir = d
            BY <3>2 DEF mine
          <6>2. LastOctet(rows[i]) < m /\ rows[i] \in Row
            BY <2>3, <4>2, <6>1
          <6>3. LastOctet(rows[i]) \in Nat
            BY <6>2, RowIs
          <6> QED BY <3>1, <6>2, <6>3 DEF b
        <5> QED BY <5>1
      <4>15. rows[least].seq = a
        BY <4>6 DEF a
      <4>16. stream = Octets(rows[least].seq, rows[least].seq + Len(stream) - 1)
        BY <4>10, <4>12, <4>15
      <4> QED BY <2>2, <3>4, <4>13, <4>14, <4>16 DEF mine, least, stream
    <3> QED BY <3>3, <3>4
  <2> QED BY <2>6, <2>7
<1> QED BY <1>1, RowsAre, PTL

\* The two archivers read the same streams from a capture that MinARX accepts,
\* and a capture that it rejects is accepted under the policies only if there is
\* a second connection in it.
THEOREM ArchiversReadAlike == Spec => []ArchiversAgree
<1>1. rows \in Seq(Row) => ArchiversAgree
  <2> SUFFICES ASSUME rows \in Seq(Row), rows # <<>> PROVE
        IF Extracted.ok
        THEN /\ _tcp_events(rows).ok
             /\ \A d \in Direction : Stream(_tcp_events(rows).chunks, d) = Stream(Extracted.chunks, d)
        ELSE _tcp_events(rows).ok => \E i \in DOMAIN rows : rows[i].flow # rows[1].flow
    BY DEF ArchiversAgree
  <2> DEFINE n == Len(rows)
             policy == _tcp_events(rows)
  <2>1. PICK h : ExtractChain(rows, h) /\ Extracted =
                   [ok |-> ~h[n].error /\ h[n].chunks # <<>>, chunks |-> h[n].chunks]
    BY ExtractRun DEF Extracted
  <2>2. PICK g : EventChain(rows, g) /\ policy =
                   [ok |-> ~g[n].error /\ g[n].chunks # <<>>, chunks |-> g[n].chunks]
    BY EventRun
  <2>3. n \in 0..n /\ n > 0 /\ DOMAIN rows = 1..n
    OBVIOUS
  <2>4. PairInv(rows, n, h[n], g[n]) /\ ExactInv(rows, n, h[n])
    BY <2>1, <2>2, <2>3, PairRun, ExactRun
  <2>5. h[n].error \in BOOLEAN /\ g[n].error \in BOOLEAN
    <3>1. h[n] \in Acc /\ g[n] \in Acc
      BY <2>1, <2>2, <2>3 DEF ExtractChain, EventChain
    <3> QED BY <3>1 DEF Acc
  <2> HIDE DEF n, policy
  <2>6. CASE h[n].error
    <3>1. ~Extracted.ok
      BY <2>1, <2>6
    <3>2. g[n].error \/ \E i \in 1..n : rows[i].flow # rows[1].flow
      BY <2>4, <2>6 DEF PairInv
    <3>3. policy.ok => \E i \in DOMAIN rows : rows[i].flow # rows[1].flow
      BY <2>2, <2>3, <3>2
    <3> QED BY <3>1, <3>3 DEF policy
  <2>7. CASE ~h[n].error
    <3>1. h[n].chunks # <<>>
      BY <2>3, <2>4, <2>7 DEF ExactInv, FlowInv
    <3>2. /\ ~g[n].error /\ g[n].chunks # <<>>
          /\ \A d \in Direction : Stream(g[n].chunks, d) = Stream(h[n].chunks, d)
      BY <2>3, <2>4, <2>7 DEF PairInv
    <3>3. Extracted.ok /\ Extracted.chunks = h[n].chunks
      BY <2>1, <2>7, <3>1
    <3>4. policy.ok /\ policy.chunks = g[n].chunks
      BY <2>2, <3>2
    <3> QED BY <3>2, <3>3, <3>4 DEF policy
  <2> QED BY <2>6, <2>7
<1> QED BY <1>1, RowsAre, PTL

-----------------------------------------------------------------------------
(* The records that a direction sends, by where they begin.                *)

\* Octets of the first k records.
Upto(s, d, k) == Length(SubSeq(s.records[d], 1, k))

LEMMA SessionIs ==
    ASSUME NEW s \in Sessions, NEW d \in Direction
    PROVE  /\ s.records[d] \in Seq(AnyRecord) /\ Length(s.records[d]) = Total[TlsFlow]
           /\ s.records[d][1].type = "handshake"
BY SessionsAssumption DEF SessionsAssumption

LengthFacts ==
    /\ Length(<<>>) = 0
    /\ \A s \in Seq(AnyRecord) : Length(s) \in Nat
    /\ \A s \in Seq(AnyRecord), x \in AnyRecord :
          Length(Append(s, x)) =
             Length(s) + x.len

LEMMA LengthUnfolds == LengthFacts
<1> DEFINE Step(t, x) == t + x.len
           T == Nat
           E1 == AnyRecord
           b == 0
           G == [p \in T \X E1 |-> Step(p[1], p[2])]
<1>1. b \in T
  OBVIOUS
<1>2. \A t \in T, x \in E1 : Step(t, x) \in T
  BY DEF AnyRecord
<1> HIDE DEF Step, T, E1, b
<1>3. \A t \in T, x \in E1 : On(G, t, x) = Step(t, x)
  BY <1>2 DEF On
<1>4. FoldFn(E1, T, G)
  BY <1>2 DEF FoldFn
<1> HIDE DEF G
<1>5. ASSUME NEW s \in Seq(E1) PROVE Length(s) = EndOf(s, b, T, G)
  <2> DEFINE len == Len(s)
             Eq(iter) == iter = [q \in SUBSET DOMAIN s |->
                           IF q = {} THEN b ELSE Step(iter[q \ {Max(q)}], s[Max(q)])]
             iter == CHOOSE iter : Eq(iter)
  <2>1. len \in Nat /\ DOMAIN s = 1..len /\ \A k \in 1..len : s[k] \in E1
    OBVIOUS
  <2>2. Length(s) = iter[1..len]
    BY <2>1 DEF Length, Step, b, FoldLeft, MapThenFoldSet
  <2> HIDE DEF len
  <2>3. PICK F : IterOf(F, s, b, T, G)
    BY <1>1, <1>4, IterExists
  <2>4. Eq(F)
    <3>0. F \in [SUBSET (1..len) -> T] /\ \A q \in SUBSET (1..len) :
            F[q] = IF q = {} THEN b ELSE On(G, F[q \ {Max(q)}], s[Max(q)])
      BY <2>3 DEF IterOf, len
    <3>1. ASSUME NEW q \in SUBSET (1..len), q # {}
          PROVE  On(G, F[q \ {Max(q)}], s[Max(q)]) = Step(F[q \ {Max(q)}], s[Max(q)])
      <4>1. Max(q) \in 1..len /\ F[q \ {Max(q)}] \in T
        BY <2>1, <3>0, <3>1, MaxIsIn
      <4> QED BY <1>3, <2>1, <4>1
    <3>2. F = [q \in SUBSET (1..len) |-> F[q]]
      BY <3>0
    <3> QED BY <2>1, <3>0, <3>1, <3>2
  <2>5. Eq(iter)
    BY <2>4, Zenon
  <2> HIDE DEF iter
  <2>6. iter[{}] = b
    BY <2>5
  <2>7. ASSUME NEW q \in SUBSET (1..len), q # {}, iter[q \ {Max(q)}] \in T
        PROVE  iter[q] = On(G, iter[q \ {Max(q)}], s[Max(q)])
    <3>1. Max(q) \in 1..len
      BY <2>1, <2>7, MaxIsIn
    <3>2. iter[q] = Step(iter[q \ {Max(q)}], s[Max(q)])
      BY <2>1, <2>5, <2>7
    <3> QED BY <1>3, <2>1, <2>7, <3>1, <3>2
  <2> HIDE DEF Eq
  <2>8. Iterates(iter, s, b, T, G)
    BY <2>6, <2>7 DEF Iterates, len
  <2>9. iter[1..Len(s)] = EndOf(s, b, T, G)
    BY <1>1, <1>4, <2>8, IterEnds
  <2> QED BY <2>2, <2>9 DEF len
<1>6. <<>> \in Seq(E1) /\ \A s \in Seq(E1), x \in E1 : Append(s, x) \in Seq(E1)
  OBVIOUS
<1>7. Unfolds(E1, b, T, G)
  BY <1>1, <1>4, EndUnfolds
<1>8. /\ EndOf(<<>>, b, T, G) = b
      /\ \A s \in Seq(E1) : EndOf(s, b, T, G) \in T
      /\ \A s \in Seq(E1), x \in E1 : EndOf(Append(s, x), b, T, G) = On(G, EndOf(s, b, T, G), x)
  BY <1>7 DEF Unfolds
<1>9. Length(<<>>) = b /\ \A s \in Seq(E1) : Length(s) \in T
  BY <1>5, <1>6, <1>8
<1>10. ASSUME NEW s \in Seq(E1), NEW x \in E1 PROVE Length(Append(s, x)) = Step(Length(s), x)
  <2>1. Length(Append(s, x)) = EndOf(Append(s, x), b, T, G) /\ Length(s) = EndOf(s, b, T, G)
    BY <1>5, <1>6
  <2> QED BY <1>3, <1>8, <2>1
<1> QED BY <1>9, <1>10 DEF LengthFacts, Step, T, E1, b

LEMMA UptoIs ==
    ASSUME NEW s \in Sessions, NEW d \in Direction
    PROVE  /\ Len(s.records[d]) \in Nat /\ DOMAIN s.records[d] = 1..Len(s.records[d])
           /\ Upto(s, d, 0) = 0 /\ Upto(s, d, Len(s.records[d])) = Total[TlsFlow]
           /\ \A k \in 0..Len(s.records[d]) : Upto(s, d, k) \in Nat
           /\ \A k \in 1..Len(s.records[d]) :
                 /\ s.records[d][k] \in AnyRecord /\ s.records[d][k].len \in Nat \ {0}
                 /\ Upto(s, d, k) = Upto(s, d, k - 1) + s.records[d][k].len
<1> DEFINE r == s.records[d]
           n == Len(r)
           Up(k) == SubSeq(r, 1, k)
<1>1. r \in Seq(AnyRecord) /\ Length(r) = Total[TlsFlow] /\ n \in Nat /\ DOMAIN r = 1..n
  BY SessionIs
<1>2. LengthFacts
  BY LengthUnfolds
<1>3. /\ Length(<<>>) = 0 /\ \A t \in Seq(AnyRecord) : Length(t) \in Nat
      /\ \A t \in Seq(AnyRecord), x \in AnyRecord : Length(Append(t, x)) = Length(t) + x.len
  BY <1>2 DEF LengthFacts
<1>4. \A k : Upto(s, d, k) = Length(Up(k))
  BY DEF Upto
<1> HIDE DEF r
<1>5. /\ \A k \in 0..n : Up(k) \in Seq(AnyRecord)
      /\ \A k \in 1..n : k - 1 \in 0..n /\ Up(k) = Append(Up(k - 1), r[k]) /\ r[k] \in AnyRecord
      /\ Up(0) = <<>> /\ Up(n) = r
  BY <1>1
<1>6. \A k \in 1..n : r[k].len \in Nat \ {0}
  BY <1>5 DEF AnyRecord
<1> HIDE DEF Up, n
<1>7. /\ Length(Up(0)) = 0 /\ Length(Up(n)) = Total[TlsFlow]
      /\ \A k \in 0..n : Length(Up(k)) \in Nat
  BY <1>1, <1>3, <1>5
<1>8. ASSUME NEW k \in 1..n PROVE Length(Up(k)) = Length(Up(k - 1)) + r[k].len
  BY <1>3, <1>5
<1> QED BY <1>1, <1>4, <1>5, <1>6, <1>7, <1>8 DEF r, n

LEMMA UptoGrows ==
    ASSUME NEW s \in Sessions, NEW d \in Direction, NEW i \in 0..Len(s.records[d])
    PROVE  \A j \in 0..Len(s.records[d]) : i < j => Upto(s, d, i) < Upto(s, d, j)
<1> DEFINE n == Len(s.records[d])
           U(k) == Upto(s, d, k)
<1>1. n \in Nat /\ \A k \in 0..n : U(k) \in Nat
  BY UptoIs
<1>2. \A k \in 1..n : s.records[d][k].len \in Nat \ {0} /\ U(k) = U(k - 1) + s.records[d][k].len
  BY UptoIs
<1> HIDE DEF U
<1>3. ASSUME NEW k \in 1..n PROVE U(k - 1) < U(k)
  <2>1. k - 1 \in 0..n /\ k \in 0..n
    BY <1>1
  <2>2. U(k - 1) \in Nat /\ U(k) \in Nat
    BY <1>1, <2>1
  <2> DEFINE l == s.records[d][k].len
  <2>3. l \in Nat \ {0} /\ U(k) = U(k - 1) + l
    BY <1>2
  <2> HIDE DEF l
  <2> QED BY <2>2, <2>3
<1> DEFINE Good == {k \in 0..n : i < k => U(i) < U(k)}
<1>4. 0 \in Good
  BY <1>1
<1>5. ASSUME NEW k \in 1..n, k - 1 \in Good PROVE k \in Good
  <2>1. k \in 0..n /\ k - 1 \in 0..n /\ (i < k => i = k - 1 \/ i < k - 1)
    BY <1>1
  <2> QED BY <1>1, <1>3, <1>5, <2>1
<1> HIDE DEF Good
<1>6. 0..n \subseteq Good
  BY <1>1, <1>4, <1>5, ChainInduction
<1> QED BY <1>6 DEF Good, U

LEMMA StartsAtIs ==
    ASSUME NEW s \in Sessions, NEW d \in Direction, NEW i \in 1..Len(s.records[d])
    PROVE  StartsAt(s, d, Upto(s, d, i - 1) + 1) = {i}
<1> DEFINE n == Len(s.records[d])
           U(k) == Upto(s, d, k)
<1>1. n \in Nat /\ DOMAIN s.records[d] = 1..n /\ \A k \in 0..n : U(k) \in Nat
  BY UptoIs
<1>2. StartsAt(s, d, U(i - 1) + 1) = {j \in 1..n : U(j - 1) + 1 = U(i - 1) + 1}
  BY <1>1 DEF StartsAt, Upto
<1>3. ASSUME NEW j \in 1..n, U(j - 1) + 1 = U(i - 1) + 1 PROVE j = i
  <2>1. j - 1 \in 0..n /\ i - 1 \in 0..n /\ (j = i \/ j - 1 < i - 1 \/ i - 1 < j - 1)
    BY <1>1
  <2>2. U(j - 1) \in Nat /\ U(i - 1) \in Nat
    BY <1>1, <2>1
  <2>3. (j - 1 < i - 1 => U(j - 1) < U(i - 1)) /\ (i - 1 < j - 1 => U(i - 1) < U(j - 1))
    BY <2>1, UptoGrows
  <2> HIDE DEF U
  <2> QED BY <1>3, <2>1, <2>2, <2>3
<1> HIDE DEF U
<1>4. {j \in 1..n : U(j - 1) + 1 = U(i - 1) + 1} = {i}
  BY <1>3
<1> QED BY <1>2, <1>4 DEF U

-----------------------------------------------------------------------------
(* Splitting into records, octet by octet.                                 *)

Byte == Direction \X Nat
Got == [dir : Direction, record : AnyRecord, data : Seq(Nat)]
Splitting == [error : BOOLEAN, pending : [Direction -> Seq(Nat)], records : Seq(Got)]

LEMMA OneMoreOctet ==
    ASSUME NEW a \in Nat \ {0}, NEW j \in Nat
    PROVE  Append(Octets(a, a + j - 1), a + j) = Octets(a, a + j)
<1> DEFINE s == [i \in 1..j |-> a + i - 1]
           t == [i \in 1..(j + 1) |-> a + i - 1]
<1>1. (a + j - 1) - a + 1 = j /\ (a + j) - a + 1 = j + 1 /\ a + (j + 1) - 1 = a + j
  OBVIOUS
<1>2. Octets(a, a + j - 1) = s /\ Octets(a, a + j) = t
  BY <1>1 DEF Octets
<1>3. \A i \in 1..j : a + i - 1 \in Int
  OBVIOUS
<1>4. s \in Seq(Int) /\ Len(s) = j
  BY <1>3
<1>5. Append(s, a + j) = t
  BY <1>1, <1>4
<1> QED BY <1>2, <1>5

\* A buffer and the record that its header names.
LEMMA BufferIs ==
    ASSUME NEW s \in Sessions, NEW acc \in Splitting, NEW d \in Direction, NEW o \in Nat
    PROVE  /\ Append(acc.pending[d], o) \in Seq(Nat)
           /\ acc.records \in Seq(Got) /\ acc.pending \in [Direction -> Seq(Nat)] /\ acc.error \in BOOLEAN
           /\ \A i \in DOMAIN s.records[d] : s.records[d][i] \in AnyRecord
<1>1. acc.pending[d] \in Seq(Nat) /\ acc.records \in Seq(Got) /\ acc.pending \in [Direction -> Seq(Nat)]
      /\ acc.error \in BOOLEAN
  BY DEF Splitting
<1>2. \A i \in DOMAIN s.records[d] : s.records[d][i] \in AnyRecord
  BY UptoIs
<1> QED BY <1>1, <1>2

LEMMA OctetTyped ==
    ASSUME NEW s \in Sessions, NEW acc \in Splitting, NEW d \in Direction, NEW o \in Nat
    PROVE  Octet(s, acc, d, o) \in Splitting
<1> DEFINE buffer == Append(acc.pending[d], o)
           starts == StartsAt(s, d, buffer[1])
           record == s.records[d][CHOOSE i \in starts : TRUE]
           whole == Len(buffer) >= record.len
           got == [dir |-> d, record |-> record, data |-> buffer]
           P == [acc.pending EXCEPT ![d] = IF whole THEN <<>> ELSE buffer]
           R == IF whole THEN Append(acc.records, got) ELSE acc.records
<1>1. /\ buffer \in Seq(Nat) /\ acc.records \in Seq(Got) /\ acc.pending \in [Direction -> Seq(Nat)]
      /\ acc.error \in BOOLEAN /\ \A i \in DOMAIN s.records[d] : s.records[d][i] \in AnyRecord
  BY BufferIs
<1>2. Octet(s, acc, d, o) = IF starts = {} THEN [acc EXCEPT !.error = TRUE]
                            ELSE [error |-> acc.error, pending |-> P, records |-> R]
  BY DEF Octet
<1>3. starts # {} => record \in AnyRecord
  <2>1. \A i \in starts : i \in DOMAIN s.records[d]
    BY DEF StartsAt
  <2> QED BY <1>1, <2>1
<1> HIDE DEF buffer, starts, record, whole
<1>4. starts # {} => got \in Got
  BY <1>1, <1>3 DEF Got
<1> HIDE DEF got
<1>5. P \in [Direction -> Seq(Nat)]
  BY <1>1
<1>6. starts # {} => R \in Seq(Got)
  BY <1>1, <1>4
<1> HIDE DEF P, R
<1>7. starts # {} => [error |-> acc.error, pending |-> P, records |-> R] \in Splitting
  BY <1>1, <1>5, <1>6 DEF Splitting
<1>8. [acc EXCEPT !.error = TRUE] \in Splitting
  BY DEF Splitting
<1> QED BY <1>2, <1>7, <1>8

LEMMA SentIs ==
    ASSUME NEW s \in Sessions, NEW d \in Direction
    PROVE  /\ Sent(s, d) \in Seq(Got) /\ Len(Sent(s, d)) = Len(s.records[d])
           /\ \A i \in 1..Len(s.records[d]) :
                 /\ Sent(s, d)[i].dir = d /\ Sent(s, d)[i].record = s.records[d][i]
                 /\ Sent(s, d)[i].data = Octets(Upto(s, d, i - 1) + 1, Upto(s, d, i))
                 /\ Sent(s, d)[i] = [dir |-> d, record |-> s.records[d][i],
                                     data |-> Octets(Upto(s, d, i - 1) + 1, Upto(s, d, i))]
                 /\ Sent(s, d)[i].data \in Seq(Nat) /\ Len(Sent(s, d)[i].data) = s.records[d][i].len
<1> DEFINE n == Len(s.records[d])
<1>1. n \in Nat /\ DOMAIN s.records[d] = 1..n /\ \A i \in 1..n : s.records[d][i] \in AnyRecord
  BY UptoIs
<1>2. Sent(s, d) = [i \in 1..n |-> [dir |-> d, record |-> s.records[d][i],
                                    data |-> Octets(Upto(s, d, i - 1) + 1, Upto(s, d, i))]]
  BY <1>1 DEF Sent, Upto
<1>3. ASSUME NEW i \in 1..n
      PROVE  /\ Octets(Upto(s, d, i - 1) + 1, Upto(s, d, i)) \in Seq(Nat)
             /\ Len(Octets(Upto(s, d, i - 1) + 1, Upto(s, d, i))) = s.records[d][i].len
  <2> DEFINE a == Upto(s, d, i - 1) + 1
             b == Upto(s, d, i)
             l == s.records[d][i].len
  <2>1. i - 1 \in 0..n /\ i \in 0..n
    BY <1>1
  <2>2. Upto(s, d, i - 1) \in Nat /\ b \in Nat /\ l \in Nat \ {0} /\ b = Upto(s, d, i - 1) + l
    BY <2>1, UptoIs
  <2>3. a \in Nat \ {0} /\ b >= a - 1 /\ b - a + 1 = l
    BY <2>2
  <2> HIDE DEF a, b, l
  <2>4. Octets(a, b) \in Seq(Nat) /\ Len(Octets(a, b)) = b - a + 1
    BY <2>2, <2>3, OctetsAre
  <2> QED BY <2>3, <2>4 DEF a, b, l
<1> HIDE DEF n
<1>4. Sent(s, d) \in [1..n -> Got]
  BY <1>1, <1>2, <1>3 DEF Got
<1>5. Sent(s, d) \in Seq(Got) /\ Len(Sent(s, d)) = n
  BY <1>1, <1>4
<1>6. \A i \in 1..n : Sent(s, d)[i] = [dir |-> d, record |-> s.records[d][i],
                                        data |-> Octets(Upto(s, d, i - 1) + 1, Upto(s, d, i))]
  BY <1>2
<1> QED BY <1>3, <1>5, <1>6 DEF n

\* j octets of the i-th record of a direction are pending.
Begun(s, acc, d, i, j) ==
    /\ i \in 1..Len(s.records[d]) /\ j \in Nat /\ j < s.records[d][i].len
    /\ acc.pending[d] = Octets(Upto(s, d, i - 1) + 1, Upto(s, d, i - 1) + j)

GoesOn(s, acc, d, i, j) ==
    LET u     == Upto(s, d, i - 1)
        whole == j + 1 = s.records[d][i].len
    IN  Octet(s, acc, d, u + j + 1) =
           [error   |-> acc.error,
            pending |-> [acc.pending EXCEPT ![d] = IF whole THEN <<>> ELSE Octets(u + 1, u + j + 1)],
            records |-> IF whole THEN Append(acc.records, Sent(s, d)[i]) ELSE acc.records]

\* One octet more of the i-th record of a direction.
LEMMA OctetIs ==
    ASSUME NEW s \in Sessions, NEW acc \in Splitting, NEW d \in Direction, NEW i, NEW j, Begun(s, acc, d, i, j)
    PROVE  GoesOn(s, acc, d, i, j)
<1> DEFINE u == Upto(s, d, i - 1)
<1>0. /\ i \in 1..Len(s.records[d]) /\ j \in Nat /\ j < s.records[d][i].len
      /\ acc.pending[d] = Octets(u + 1, u + j) /\ u \in Nat
  <2>1. i \in 1..Len(s.records[d]) /\ j \in Nat /\ j < s.records[d][i].len
        /\ acc.pending[d] = Octets(u + 1, u + j)
    BY DEF Begun
  <2>2. i - 1 \in 0..Len(s.records[d])
    BY <2>1, UptoIs
  <2> QED BY <2>1, <2>2, UptoIs
<1> DEFINE buffer == Append(acc.pending[d], u + j + 1)
           starts == StartsAt(s, d, buffer[1])
           l == s.records[d][i].len
           a == u + 1
           b == u + j + 1
<1>1. l \in Nat \ {0} /\ Upto(s, d, i) = u + l /\ i \in DOMAIN s.records[d]
  BY <1>0, UptoIs
<1> HIDE DEF u
<1>2. a \in Nat \ {0} /\ a + j - 1 = u + j /\ a + j = b /\ b \in Nat /\ b >= a - 1
      /\ b - a + 1 = j + 1 /\ 1 \in 1..(j + 1) /\ a + 1 - 1 = a
  <2>1. \A x, y \in Nat : /\ x + 1 \in Nat \ {0} /\ (x + 1) + y - 1 = x + y /\ (x + 1) + y = x + y + 1
                         /\ x + y + 1 \in Nat /\ x + y + 1 >= (x + 1) - 1 /\ (x + y + 1) - (x + 1) + 1 = y + 1
                         /\ 1 \in 1..(y + 1) /\ (x + 1) + 1 - 1 = x + 1
    OBVIOUS
  <2> QED BY <1>0, <2>1
<1>3. Append(acc.pending[d], b) = Octets(a, b)
  <2>1. acc.pending[d] = Octets(a, a + j - 1)
    BY <1>0, <1>2
  <2> HIDE DEF a, b
  <2>2. Append(Octets(a, a + j - 1), a + j) = Octets(a, a + j)
    BY <1>0, <1>2, OneMoreOctet
  <2> QED BY <1>2, <2>1, <2>2
<1>4. buffer = Octets(a, b)
  BY <1>3
<1>5. Len(buffer) = j + 1 /\ buffer[1] = a
  <2> HIDE DEF a, b
  <2>1. Len(Octets(a, b)) = b - a + 1 /\ \A k \in 1..(b - a + 1) : Octets(a, b)[k] = a + k - 1
    BY <1>2, OctetsAre
  <2> QED BY <1>2, <1>4, <2>1
<1>6. starts = {i}
  <2>1. StartsAt(s, d, u + 1) = {i}
    BY <1>0, StartsAtIs DEF u
  <2> QED BY <1>5, <2>1
<1> HIDE DEF starts, buffer
<1>7. (CHOOSE k \in starts : TRUE) = i
  BY <1>6
<1> DEFINE whole == Len(buffer) >= l
<1>8. Octet(s, acc, d, b) =
         [error   |-> acc.error,
          pending |-> [acc.pending EXCEPT ![d] = IF whole THEN <<>> ELSE buffer],
          records |-> IF whole THEN Append(acc.records, [dir |-> d, record |-> s.records[d][i], data |-> buffer])
                      ELSE acc.records]
  BY <1>6, <1>7 DEF Octet, starts, buffer
<1>9. whole <=> j + 1 = l
  <2>1. j < l
    BY <1>0
  <2> HIDE DEF l
  <2> QED BY <1>0, <1>1, <1>5, <2>1
<1>10. whole => [dir |-> d, record |-> s.records[d][i], data |-> buffer] = Sent(s, d)[i]
  <2> SUFFICES ASSUME whole PROVE [dir |-> d, record |-> s.records[d][i], data |-> buffer] = Sent(s, d)[i]
    OBVIOUS
  <2>1. b = Upto(s, d, i)
    <3> HIDE DEF l
    <3> QED BY <1>0, <1>1, <1>9
  <2> HIDE DEF b
  <2>2. Sent(s, d)[i] = [dir |-> d, record |-> s.records[d][i],
                        data |-> Octets(Upto(s, d, i - 1) + 1, Upto(s, d, i))]
    BY <1>0, SentIs
  <2> QED BY <1>4, <2>1, <2>2 DEF u
<1> HIDE DEF whole
<1>11. Octet(s, acc, d, b) =
         [error   |-> acc.error,
          pending |-> [acc.pending EXCEPT ![d] = IF whole THEN <<>> ELSE Octets(a, b)],
          records |-> IF whole THEN Append(acc.records, Sent(s, d)[i]) ELSE acc.records]
  BY <1>4, <1>8, <1>10
<1>12. Octet(s, acc, d, u + j + 1) =
         [error   |-> acc.error,
          pending |-> [acc.pending EXCEPT ![d] = IF j + 1 = l THEN <<>> ELSE Octets(u + 1, u + j + 1)],
          records |-> IF j + 1 = l THEN Append(acc.records, Sent(s, d)[i]) ELSE acc.records]
  BY <1>9, <1>11
<1> QED BY <1>12 DEF GoesOn, u

\* The state after some octets.
ReadBytes(s, bytes) == FoldLeft(LAMBDA acc, b : Octet(s, acc, b[1], b[2]), NoRecords, bytes)

ReadFacts(session) ==
    /\ ReadBytes(session, <<>>) = NoRecords
    /\ \A s \in Seq(Byte) : ReadBytes(session, s) \in Splitting
    /\ \A s \in Seq(Byte), x \in Byte :
          ReadBytes(session, Append(s, x)) =
             Octet(session, ReadBytes(session, s), x[1], x[2])

LEMMA ReadUnfolds ==
    ASSUME NEW session \in Sessions
    PROVE  ReadFacts(session)
<1> DEFINE Step(t, x) == Octet(session, t, x[1], x[2])
           T == Splitting
           E1 == Byte
           b == NoRecords
           G == [p \in T \X E1 |-> Step(p[1], p[2])]
<1>1. b \in T
  <2>1. [d \in Direction |-> <<>>] \in [Direction -> Seq(Nat)] /\ <<>> \in Seq(Got) /\ FALSE \in BOOLEAN
    OBVIOUS
  <2> QED BY <2>1 DEF NoRecords, Splitting
<1>2. \A t \in T, x \in E1 : Step(t, x) \in T
  <2>1. SUFFICES ASSUME NEW t \in T, NEW x \in E1 PROVE Step(t, x) \in T
    OBVIOUS
  <2>2. x[1] \in Direction /\ x[2] \in Nat
    BY DEF Byte
  <2> QED BY <2>2, OctetTyped
<1> HIDE DEF Step, T, E1, b
<1>3. \A t \in T, x \in E1 : On(G, t, x) = Step(t, x)
  BY <1>2 DEF On
<1>4. FoldFn(E1, T, G)
  BY <1>2 DEF FoldFn
<1> HIDE DEF G
<1>5. ASSUME NEW s \in Seq(E1) PROVE ReadBytes(session, s) = EndOf(s, b, T, G)
  <2> DEFINE len == Len(s)
             Eq(iter) == iter = [q \in SUBSET DOMAIN s |->
                           IF q = {} THEN b ELSE Step(iter[q \ {Max(q)}], s[Max(q)])]
             iter == CHOOSE iter : Eq(iter)
  <2>1. len \in Nat /\ DOMAIN s = 1..len /\ \A k \in 1..len : s[k] \in E1
    OBVIOUS
  <2>2. ReadBytes(session, s) = iter[1..len]
    BY <2>1 DEF ReadBytes, Step, b, FoldLeft, MapThenFoldSet
  <2> HIDE DEF len
  <2>3. PICK F : IterOf(F, s, b, T, G)
    BY <1>1, <1>4, IterExists
  <2>4. Eq(F)
    <3>0. F \in [SUBSET (1..len) -> T] /\ \A q \in SUBSET (1..len) :
            F[q] = IF q = {} THEN b ELSE On(G, F[q \ {Max(q)}], s[Max(q)])
      BY <2>3 DEF IterOf, len
    <3>1. ASSUME NEW q \in SUBSET (1..len), q # {}
          PROVE  On(G, F[q \ {Max(q)}], s[Max(q)]) = Step(F[q \ {Max(q)}], s[Max(q)])
      <4>1. Max(q) \in 1..len /\ F[q \ {Max(q)}] \in T
        BY <2>1, <3>0, <3>1, MaxIsIn
      <4> QED BY <1>3, <2>1, <4>1
    <3>2. F = [q \in SUBSET (1..len) |-> F[q]]
      BY <3>0
    <3> QED BY <2>1, <3>0, <3>1, <3>2
  <2>5. Eq(iter)
    BY <2>4, Zenon
  <2> HIDE DEF iter
  <2>6. iter[{}] = b
    BY <2>5
  <2>7. ASSUME NEW q \in SUBSET (1..len), q # {}, iter[q \ {Max(q)}] \in T
        PROVE  iter[q] = On(G, iter[q \ {Max(q)}], s[Max(q)])
    <3>1. Max(q) \in 1..len
      BY <2>1, <2>7, MaxIsIn
    <3>2. iter[q] = Step(iter[q \ {Max(q)}], s[Max(q)])
      BY <2>1, <2>5, <2>7
    <3> QED BY <1>3, <2>1, <2>7, <3>1, <3>2
  <2> HIDE DEF Eq
  <2>8. Iterates(iter, s, b, T, G)
    BY <2>6, <2>7 DEF Iterates, len
  <2>9. iter[1..Len(s)] = EndOf(s, b, T, G)
    BY <1>1, <1>4, <2>8, IterEnds
  <2> QED BY <2>2, <2>9 DEF len
<1>6. <<>> \in Seq(E1) /\ \A s \in Seq(E1), x \in E1 : Append(s, x) \in Seq(E1)
  OBVIOUS
<1>7. Unfolds(E1, b, T, G)
  BY <1>1, <1>4, EndUnfolds
<1>8. /\ EndOf(<<>>, b, T, G) = b
      /\ \A s \in Seq(E1) : EndOf(s, b, T, G) \in T
      /\ \A s \in Seq(E1), x \in E1 : EndOf(Append(s, x), b, T, G) = On(G, EndOf(s, b, T, G), x)
  BY <1>7 DEF Unfolds
<1>9. ReadBytes(session, <<>>) = b /\ \A s \in Seq(E1) : ReadBytes(session, s) \in T
  BY <1>5, <1>6, <1>8
<1>10. ASSUME NEW s \in Seq(E1), NEW x \in E1 PROVE ReadBytes(session, Append(s, x)) = Step(ReadBytes(session, s), x)
  <2>1. ReadBytes(session, Append(s, x)) = EndOf(Append(s, x), b, T, G) /\ ReadBytes(session, s) = EndOf(s, b, T, G)
    BY <1>5, <1>6
  <2> QED BY <1>3, <1>8, <2>1
<1> QED BY <1>9, <1>10 DEF ReadFacts, Step, T, E1, b

-----------------------------------------------------------------------------
(* The octets of chunks.                                                   *)

\* The octets of one direction, each with it.
Tag(d, data) == [j \in DOMAIN data |-> <<d, data[j]>>]
Side(d) == {<<d, o>> : o \in Nat}

LEMMA TagIs ==
    ASSUME NEW d \in Direction, NEW s \in Seq(Nat)
    PROVE  /\ Tag(d, s) \in Seq(Byte) /\ Len(Tag(d, s)) = Len(s) /\ ToSet(Tag(d, s)) \subseteq Side(d)
           /\ \A i \in 1..Len(s) : Tag(d, s)[i] = <<d, s[i]>>
<1>1. Len(s) \in Nat /\ DOMAIN s = 1..Len(s) /\ \A j \in 1..Len(s) : s[j] \in Nat
  OBVIOUS
<1>2. Tag(d, s) \in [1..Len(s) -> Byte]
  BY <1>1 DEF Tag, Byte
<1>3. Tag(d, s) \in Seq(Byte) /\ Len(Tag(d, s)) = Len(s) /\ DOMAIN Tag(d, s) = 1..Len(s)
  BY <1>1, <1>2
<1>4. \A i \in 1..Len(s) : Tag(d, s)[i] = <<d, s[i]>>
  BY <1>1 DEF Tag
<1>5. ToSet(Tag(d, s)) \subseteq Side(d)
  BY <1>1, <1>3, <1>4 DEF ToSet, Side
<1> QED BY <1>3, <1>4, <1>5

LEMMA TagNone == ASSUME NEW d PROVE Tag(d, <<>>) = <<>>
BY DEF Tag

LEMMA TagMore ==
    ASSUME NEW d \in Direction, NEW s \in Seq(Nat), NEW o \in Nat
    PROVE  Tag(d, Append(s, o)) = Append(Tag(d, s), <<d, o>>)
<1> DEFINE n == Len(s)
           t == Tag(d, s)
           u == Tag(d, Append(s, o))
           x == <<d, o>>
<1>1. n \in Nat /\ Append(s, o) \in Seq(Nat) /\ Len(Append(s, o)) = n + 1 /\ x \in Byte
      /\ \A i \in 1..(n + 1) : Append(s, o)[i] = IF i = n + 1 THEN o ELSE s[i]
  BY DEF Byte
<1>2. u \in Seq(Byte) /\ Len(u) = n + 1 /\ \A i \in 1..(n + 1) : u[i] = <<d, Append(s, o)[i]>>
  BY <1>1, TagIs
<1>3. t \in Seq(Byte) /\ Len(t) = n /\ \A i \in 1..n : t[i] = <<d, s[i]>>
  BY TagIs
<1> HIDE DEF t, u, n, x
<1>4. /\ Append(t, x) \in Seq(Byte) /\ Len(Append(t, x)) = n + 1
      /\ \A i \in 1..(n + 1) : Append(t, x)[i] = IF i = n + 1 THEN x ELSE t[i]
  BY <1>1, <1>3
<1>5. ASSUME NEW i \in 1..(n + 1) PROVE u[i] = Append(t, x)[i]
  <2>1. i = n + 1 \/ i \in 1..n
    BY <1>1
  <2> QED BY <1>1, <1>2, <1>3, <1>4, <2>1 DEF x
<1>6. u = Append(t, x)
  BY <1>1, <1>2, <1>4, <1>5, SeqEqual
<1> QED BY <1>6 DEF t, u, x

LEMMA TagConcat ==
    ASSUME NEW d \in Direction, NEW s \in Seq(Nat), NEW t \in Seq(Nat)
    PROVE  Tag(d, s \o t) = Tag(d, s) \o Tag(d, t)
<1> DEFINE Good == {v \in Seq(Nat) : Tag(d, s \o v) = Tag(d, s) \o Tag(d, v)}
<1>1. <<>> \in Good
  <2>1. s \o <<>> = s /\ Tag(d, <<>>) = <<>> /\ Tag(d, s) \o <<>> = Tag(d, s)
    BY TagNone, TagIs, ConcatEmptySeq
  <2>2. Tag(d, s \o <<>>) = Tag(d, s) \o Tag(d, <<>>)
    BY <2>1, Zenon
  <2>3. <<>> \in Seq(Nat)
    OBVIOUS
  <2> QED BY <2>2, <2>3
<1>2. ASSUME NEW v \in Seq(Nat), NEW o \in Nat, v \in Good PROVE Append(v, o) \in Good
  <2>1. s \o Append(v, o) = Append(s \o v, o) /\ s \o v \in Seq(Nat) /\ Append(v, o) \in Seq(Nat)
    BY ConcatAppend
  <2>2. Tag(d, s \o Append(v, o)) = Append(Tag(d, s) \o Tag(d, v), <<d, o>>)
    BY <1>2, <2>1, TagMore
  <2>3. Tag(d, s) \in Seq(Byte) /\ Tag(d, v) \in Seq(Byte) /\ <<d, o>> \in Byte
    BY TagIs DEF Byte
  <2>4. Tag(d, s) \o Append(Tag(d, v), <<d, o>>) = Append(Tag(d, s) \o Tag(d, v), <<d, o>>)
    BY <2>3, ConcatAppend
  <2>5. Tag(d, Append(v, o)) = Append(Tag(d, v), <<d, o>>)
    BY TagMore
  <2> QED BY <2>1, <2>2, <2>4, <2>5
<1> HIDE DEF Good
<1>3. Seq(Nat) \subseteq Good
  BY <1>1, <1>2, SeqInduction
<1> QED BY <1>3 DEF Good

LEMMA BytesMore ==
    ASSUME NEW c \in Seq(Chunk), NEW x \in Chunk
    PROVE  /\ Bytes(<<>>) = <<>> /\ Bytes(c) \in Seq(Byte) /\ Append(c, x) \in Seq(Chunk)
           /\ Tag(x.dir, x.data) \in Seq(Byte)
           /\ Bytes(Append(c, x)) = Bytes(c) \o Tag(x.dir, x.data)
<1> DEFINE T(y) == Tag(y.dir, y.data)
           Tags(q) == [i \in DOMAIN q |-> T(q[i])]
<1>1. \A q : Bytes(q) = FlattenSeq(Tags(q))
  BY DEF Bytes, Tag
<1>2. \A y \in Chunk : T(y) \in Seq(Byte)
  BY TagIs DEF Chunk
<1> HIDE DEF T
<1>3. Tags(<<>>) = <<>>
  OBVIOUS
<1>4. Tags(c) \in Seq(Seq(Byte)) /\ Len(Tags(c)) = Len(c)
  <2>1. Len(c) \in Nat /\ DOMAIN c = 1..Len(c) /\ \A i \in 1..Len(c) : c[i] \in Chunk
    OBVIOUS
  <2>2. Tags(c) \in [1..Len(c) -> Seq(Byte)]
    BY <1>2, <2>1
  <2> QED BY <2>1, <2>2
<1>5. Tags(Append(c, x)) = Append(Tags(c), T(x))
  <2> DEFINE n == Len(c)
             t == Tags(c)
             y == T(x)
  <2>1. n \in Nat /\ DOMAIN c = 1..n /\ DOMAIN Append(c, x) = 1..(n + 1)
        /\ \A i \in 1..(n + 1) : Append(c, x)[i] = IF i = n + 1 THEN x ELSE c[i]
    OBVIOUS
  <2>2. /\ Append(t, y) = [i \in 1..(n + 1) |-> IF i = n + 1 THEN y ELSE t[i]]
    BY <1>2, <1>4
  <2>3. \A i \in 1..n : t[i] = T(c[i])
    BY <2>1
  <2> HIDE DEF t, y, n
  <2>4. ASSUME NEW i \in 1..(n + 1) PROVE T(Append(c, x)[i]) = IF i = n + 1 THEN y ELSE t[i]
    <3>1. i = n + 1 \/ i \in 1..n
      BY <2>1
    <3> QED BY <2>1, <2>3, <3>1 DEF y
  <2>5. Tags(Append(c, x)) = [i \in 1..(n + 1) |-> T(Append(c, x)[i])]
    BY <2>1
  <2>6. Tags(Append(c, x)) = Append(t, y)
    BY <2>2, <2>4, <2>5
  <2> QED BY <2>6 DEF t, y
<1> HIDE DEF Tags
<1>6. FlattenFacts(Byte)
  BY FlattenUnfolds
<1>7. /\ FlattenSeq(<<>>) = <<>> /\ FlattenSeq(Tags(c)) \in Seq(Byte)
      /\ FlattenSeq(Append(Tags(c), T(x))) = FlattenSeq(Tags(c)) \o T(x)
  BY <1>2, <1>4, <1>6 DEF FlattenFacts
<1>8. Bytes(<<>>) = <<>> /\ Bytes(c) \in Seq(Byte)
  BY <1>1, <1>3, <1>7
<1>9. Bytes(Append(c, x)) = Bytes(c) \o T(x)
  BY <1>1, <1>5, <1>7
<1>10. T(x) \in Seq(Byte) /\ Append(c, x) \in Seq(Chunk)
  BY <1>2
<1> QED BY <1>8, <1>9, <1>10 DEF T

LEMMA BytesAre ==
    /\ Bytes(<<>>) = <<>>
    /\ \A c \in Seq(Chunk) : Bytes(c) \in Seq(Byte)
    /\ \A c \in Seq(Chunk), x \in Chunk : Bytes(Append(c, x)) = Bytes(c) \o Tag(x.dir, x.data)
<1> DEFINE some == [dir |-> 0, data |-> <<>>]
<1>1. some \in Chunk /\ <<>> \in Seq(Chunk)
  BY DEF Chunk, Direction
<1> HIDE DEF some
<1>2. Bytes(<<>>) = <<>> /\ \A c \in Seq(Chunk) : Bytes(c) \in Seq(Byte)
  BY <1>1, BytesMore
<1>3. ASSUME NEW c \in Seq(Chunk), NEW x \in Chunk PROVE Bytes(Append(c, x)) = Bytes(c) \o Tag(x.dir, x.data)
  BY BytesMore
<1> QED BY <1>2, <1>3

LEMMA BytesConcat ==
    ASSUME NEW b \in Seq(Chunk), NEW c \in Seq(Chunk)
    PROVE  Bytes(b \o c) = Bytes(b) \o Bytes(c)
<1> DEFINE Good == {v \in Seq(Chunk) : Bytes(b \o v) = Bytes(b) \o Bytes(v)}
<1>1. <<>> \in Good
  <2>1. b \o <<>> = b /\ Bytes(<<>>) = <<>> /\ Bytes(b) \o <<>> = Bytes(b)
    BY BytesAre, ConcatEmptySeq
  <2>2. Bytes(b \o <<>>) = Bytes(b) \o Bytes(<<>>)
    BY <2>1, Zenon
  <2>3. <<>> \in Seq(Chunk)
    OBVIOUS
  <2> QED BY <2>2, <2>3
<1>2. ASSUME NEW v \in Seq(Chunk), NEW x \in Chunk, v \in Good PROVE Append(v, x) \in Good
  <2> DEFINE t == Tag(x.dir, x.data)
  <2>1. b \o Append(v, x) = Append(b \o v, x) /\ b \o v \in Seq(Chunk) /\ Append(v, x) \in Seq(Chunk)
    BY ConcatAppend
  <2>2. t \in Seq(Byte) /\ Bytes(b) \in Seq(Byte) /\ Bytes(v) \in Seq(Byte)
    BY BytesMore
  <2> HIDE DEF t
  <2>3. Bytes(Append(b \o v, x)) = Bytes(b \o v) \o t /\ Bytes(Append(v, x)) = Bytes(v) \o t
    BY <2>1, BytesMore DEF t
  <2>4. (Bytes(b) \o Bytes(v)) \o t = Bytes(b) \o (Bytes(v) \o t)
    BY <2>2, Associates
  <2> QED BY <1>2, <2>1, <2>3, <2>4
<1> HIDE DEF Good
<1>3. Seq(Chunk) \subseteq Good
  BY <1>1, <1>2, SeqInduction
<1> QED BY <1>3 DEF Good

LEMMA OnlyTag ==
    ASSUME NEW d \in Direction, NEW e \in Direction, NEW s \in Seq(Nat)
    PROVE  Only(Tag(d, s), Side(e)) = IF d = e THEN Tag(d, s) ELSE <<>>
<1>1. Tag(d, s) \in Seq(Byte) /\ ToSet(Tag(d, s)) \subseteq Side(d)
  BY TagIs
<1>2. CASE d = e
  BY <1>1, <1>2, OnlyAll
<1>3. CASE d # e
  <2>1. ToSet(Only(Tag(d, s), Side(e))) = ToSet(Tag(d, s)) \cap Side(e) /\ Only(Tag(d, s), Side(e)) \in Seq(Byte)
    BY <1>1, OnlyHolds
  <2>2. Side(d) \cap Side(e) = {}
    BY <1>3 DEF Side
  <2>3. ToSet(Only(Tag(d, s), Side(e))) = {}
    BY <1>1, <2>1, <2>2
  <2> DEFINE t == Only(Tag(d, s), Side(e))
  <2>4. t # <<>> => t[1] \in ToSet(t)
    BY <2>1 DEF ToSet
  <2> QED BY <1>3, <2>3, <2>4
<1> QED BY <1>2, <1>3

\* The octets of a direction are its stream.
LEMMA OnlyBytes ==
    ASSUME NEW c \in Seq(Chunk), NEW d \in Direction
    PROVE  Only(Bytes(c), Side(d)) = Tag(d, Stream(c, d)) /\ Stream(c, d) \in Seq(Nat)
<1> DEFINE Good == {v \in Seq(Chunk) : Only(Bytes(v), Side(d)) = Tag(d, Stream(v, d)) /\ Stream(v, d) \in Seq(Nat)}
<1>1. <<>> \in Good
  <2>1. <<>> \in Seq(Chunk) /\ <<>> \in Seq(Nat)
    OBVIOUS
  <2> QED BY <2>1, BytesAre, OnlyNone, StreamNone, TagNone
<1>2. ASSUME NEW v \in Seq(Chunk), NEW x \in Chunk, v \in Good PROVE Append(v, x) \in Good
  <2> DEFINE t == Tag(x.dir, x.data)
             w == Append(v, x)
  <2>1. x.dir \in Direction /\ x.data \in Seq(Nat)
    BY DEF Chunk
  <2>2. t \in Seq(Byte) /\ Bytes(v) \in Seq(Byte) /\ Bytes(w) = Bytes(v) \o t /\ w \in Seq(Chunk)
    BY BytesMore
  <2>3. Stream(w, d) = IF d = x.dir THEN Stream(v, d) \o x.data ELSE Stream(v, d)
    BY StreamAppend
  <2>4. Only(t, Side(d)) = IF x.dir = d THEN t ELSE <<>>
    BY <2>1, OnlyTag
  <2> HIDE DEF t, w
  <2>5. Only(Bytes(w), Side(d)) = Only(Bytes(v), Side(d)) \o Only(t, Side(d))
    BY <2>2, OnlyConcat
  <2>6. Only(Bytes(v), Side(d)) = Tag(d, Stream(v, d)) /\ Stream(v, d) \in Seq(Nat)
    BY <1>2
  <2>7. CASE x.dir = d
    <3>1. Tag(d, Stream(v, d) \o x.data) = Tag(d, Stream(v, d)) \o t
      BY <2>1, <2>6, <2>7, TagConcat DEF t
    <3>2. Stream(v, d) \o x.data \in Seq(Nat)
      BY <2>1, <2>6
    <3> QED BY <2>2, <2>3, <2>4, <2>5, <2>6, <2>7, <3>1, <3>2 DEF w
  <2>8. CASE x.dir # d
    <3>1. Tag(d, Stream(v, d)) \o <<>> = Tag(d, Stream(v, d))
      BY <2>6, TagIs, ConcatEmptySeq
    <3> QED BY <2>2, <2>3, <2>4, <2>5, <2>6, <2>8, <3>1 DEF w
  <2> QED BY <2>7, <2>8
<1> HIDE DEF Good
<1>3. Seq(Chunk) \subseteq Good
  BY <1>1, <1>2, SeqInduction
<1> QED BY <1>3 DEF Good

-----------------------------------------------------------------------------
(* Reading records back.                                                   *)

LEMMA RunIs ==
    ASSUME NEW u \in Nat, NEW j \in Nat
    PROVE  Octets(u + 1, u + j) \in Seq(Nat) /\ Len(Octets(u + 1, u + j)) = j /\ (j = 0 => Octets(u + 1, u + j) = <<>>)
<1> DEFINE a == u + 1
           b == u + j
<1>1. a \in Nat \ {0} /\ b \in Nat /\ b >= a - 1 /\ b - a + 1 = j
  OBVIOUS
<1> HIDE DEF a, b
<1>2. Octets(a, b) \in Seq(Nat) /\ Len(Octets(a, b)) = j
  BY <1>1, OctetsAre
<1>3. j = 0 => Octets(a, b) = <<>>
  BY <1>2
<1> QED BY <1>2, <1>3 DEF a, b

LEMMA ReadMore ==
    ASSUME NEW s \in Sessions, NEW b \in Seq(Byte), NEW x \in Byte
    PROVE  /\ ReadBytes(s, b) \in Splitting /\ ReadBytes(s, <<>>) = NoRecords
           /\ ReadBytes(s, Append(b, x)) = Octet(s, ReadBytes(s, b), x[1], x[2])
<1>1. ReadFacts(s)
  BY ReadUnfolds
<1> QED BY <1>1 DEF ReadFacts

\* A record read from where no other one of its direction has begun.
LEMMA ReadRecord ==
    ASSUME NEW s \in Sessions, NEW b \in Seq(Byte), NEW d \in Direction, NEW i \in 1..Len(s.records[d]),
           ReadBytes(s, b).pending[d] = <<>>
    PROVE  LET acc == ReadBytes(s, b)
           IN  ReadBytes(s, b \o Tag(d, Sent(s, d)[i].data)) =
                  [error |-> acc.error, pending |-> acc.pending, records |-> Append(acc.records, Sent(s, d)[i])]
<1> DEFINE acc == ReadBytes(s, b)
           u == Upto(s, d, i - 1)
           l == s.records[d][i].len
           got == Sent(s, d)[i]
           run(j) == Octets(u + 1, u + j)
           After(j) == [error   |-> acc.error,
                        pending |-> [acc.pending EXCEPT ![d] = IF j = l THEN <<>> ELSE run(j)],
                        records |-> IF j = l THEN Append(acc.records, got) ELSE acc.records]
           Good == {j \in 0..l : ReadBytes(s, b \o Tag(d, run(j))) = After(j)}
<1>1. u \in Nat /\ l \in Nat \ {0} /\ Upto(s, d, i) = u + l
  <2>1. i - 1 \in 0..Len(s.records[d])
    BY UptoIs
  <2> QED BY <2>1, UptoIs
<1>2. acc \in Splitting /\ acc.pending \in [Direction -> Seq(Nat)] /\ acc.pending[d] = <<>>
  <2>1. <<d, 0>> \in Byte
    BY DEF Byte
  <2>2. acc \in Splitting
    BY <2>1, ReadMore
  <2> QED BY <2>2 DEF Splitting
<1>3. \A j \in 0..l : run(j) \in Seq(Nat) /\ Len(run(j)) = j
  <2> SUFFICES ASSUME NEW j \in 0..l PROVE run(j) \in Seq(Nat) /\ Len(run(j)) = j
    OBVIOUS
  <2>1. j \in Nat /\ u \in Nat
    BY <1>1
  <2> HIDE DEF u
  <2> QED BY <2>1, RunIs
<1>4. got.data = run(l)
  <2>1. got.data = Octets(Upto(s, d, i - 1) + 1, Upto(s, d, i))
    BY SentIs
  <2> QED BY <1>1, <2>1
<1> HIDE DEF u, l, acc, got
<1>5. 0 \in Good
  <2>1. run(0) = <<>> /\ 0 \in 0..l /\ 0 # l
    <3>1. run(0) = <<>>
      BY <1>1, RunIs
    <3> QED BY <1>1, <3>1
  <2>2. b \o Tag(d, <<>>) = b
    BY TagNone, ConcatEmptySeq
  <2>3. [acc.pending EXCEPT ![d] = <<>>] = acc.pending
    BY <1>2
  <2>4. acc = [error |-> acc.error, pending |-> acc.pending, records |-> acc.records]
    BY <1>2 DEF Splitting
  <2>5. acc = After(0)
    BY <2>1, <2>3, <2>4
  <2>6. ReadBytes(s, b \o Tag(d, run(0))) = After(0)
    <3> HIDE DEF After, run
    <3> QED BY <2>1, <2>2, <2>5 DEF acc
  <2> QED BY <2>1, <2>6
<1>6. ASSUME NEW j \in 1..l, j - 1 \in Good PROVE j \in Good
  <2> DEFINE k == j - 1
             t == b \o Tag(d, run(k))
             x == <<d, u + k + 1>>
             mid == After(k)
  <2>1. k \in Nat /\ k \in 0..l /\ j \in 0..l /\ k < l /\ k # l /\ k + 1 = j /\ u + k + 1 \in Nat /\ u + j = u + k + 1
    BY <1>1
  <2> HIDE DEF k
  <2>2. x \in Byte /\ x[1] = d /\ x[2] = u + k + 1
    BY <2>1 DEF Byte
  <2>3. run(j) = Append(run(k), u + k + 1)
    <3> DEFINE a == u + 1
    <3>1. a \in Nat \ {0} /\ a + k - 1 = u + k /\ a + k = u + k + 1 /\ a + k = u + j
      BY <1>1, <2>1
    <3> HIDE DEF a
    <3>2. Append(Octets(a, a + k - 1), a + k) = Octets(a, a + k)
      BY <2>1, <3>1, OneMoreOctet
    <3>3. Append(Octets(a, u + k), u + k + 1) = Octets(a, u + j)
      BY <3>1, <3>2
    <3> QED BY <3>3 DEF a
  <2>4. run(k) \in Seq(Nat)
    BY <1>3, <2>1
  <2> HIDE DEF run
  <2>5. Tag(d, run(j)) = Append(Tag(d, run(k)), x) /\ Tag(d, run(k)) \in Seq(Byte)
    BY <2>1, <2>3, <2>4, TagMore, TagIs
  <2>6. b \o Tag(d, run(j)) = Append(t, x) /\ t \in Seq(Byte)
    BY <2>2, <2>5, ConcatAppend
  <2> HIDE DEF t, x
  <2>7. ReadBytes(s, Append(t, x)) = Octet(s, mid, d, u + k + 1)
    <3>1. ReadBytes(s, t) = mid
      BY <1>6 DEF t, k
    <3>2. ReadBytes(s, Append(t, x)) = Octet(s, ReadBytes(s, t), x[1], x[2])
      BY <2>2, <2>6, ReadMore
    <3> HIDE DEF mid
    <3> QED BY <2>2, <3>1, <3>2
  <2>8. mid \in Splitting
    <3>1. ReadBytes(s, t) = mid
      BY <1>6 DEF t, k
    <3> HIDE DEF mid
    <3>2. ReadBytes(s, t) \in Splitting
      BY <2>2, <2>6, ReadMore
    <3> QED BY <3>1, <3>2
  <2>9. mid.error = acc.error /\ mid.pending = [acc.pending EXCEPT ![d] = run(k)] /\ mid.records = acc.records
    BY <2>1
  <2>10. mid.pending[d] = run(k) /\ \A v : [mid.pending EXCEPT ![d] = v] = [acc.pending EXCEPT ![d] = v]
    BY <1>2, <2>9
  <2> HIDE DEF mid
  <2>11. Octet(s, mid, d, u + k + 1) =
           [error   |-> mid.error,
            pending |-> [mid.pending EXCEPT ![d] = IF k + 1 = l THEN <<>> ELSE Octets(u + 1, u + k + 1)],
            records |-> IF k + 1 = l THEN Append(mid.records, got) ELSE mid.records]
    <3>1. u = Upto(s, d, i - 1) /\ l = s.records[d][i].len /\ got = Sent(s, d)[i]
      BY DEF u, l, got
    <3>2. mid.pending[d] = Octets(u + 1, u + k)
      BY <2>10 DEF run
    <3> DEFINE m == s.records[d][i].len
    <3>3. Octet(s, mid, d, u + k + 1) =
           [error   |-> mid.error,
            pending |-> [mid.pending EXCEPT ![d] = IF k + 1 = m THEN <<>> ELSE Octets(u + 1, u + k + 1)],
            records |-> IF k + 1 = m THEN Append(mid.records, Sent(s, d)[i]) ELSE mid.records]
      <4>1. Begun(s, mid, d, i, k)
        BY <2>1, <3>1, <3>2 DEF Begun
      <4>2. GoesOn(s, mid, d, i, k)
        BY <2>8, <4>1, OctetIs
      <4> QED BY <3>1, <4>2 DEF GoesOn
    <3> HIDE DEF m
    <3>4. m = l
      BY <3>1 DEF m
    <3> QED BY <3>1, <3>3, <3>4
  <2>12. Octets(u + 1, u + k + 1) = run(j)
    BY <2>1 DEF run
  <2>13. Octet(s, mid, d, u + k + 1) = After(j)
    BY <2>1, <2>9, <2>10, <2>11, <2>12
  <2> HIDE DEF After
  <2>14. ReadBytes(s, b \o Tag(d, run(j))) = After(j)
    BY <2>6, <2>7, <2>13
  <2> QED BY <2>1, <2>14
<1> HIDE DEF Good
<1>7. l \in Good
  BY <1>1, <1>5, <1>6, ChainInduction
<1>8. ReadBytes(s, b \o Tag(d, run(l))) = After(l)
  BY <1>7 DEF Good
<1>9. After(l) = [error |-> acc.error, pending |-> acc.pending, records |-> Append(acc.records, got)]
  <2>1. [acc.pending EXCEPT ![d] = <<>>] = acc.pending
    BY <1>2
  <2> QED BY <2>1
<1> HIDE DEF After, run
<1> QED BY <1>4, <1>8, <1>9 DEF acc, got

\* Any of the records that a session sends, and records as chunks.
Sending(s) == UNION {ToSet(Sent(s, d)) : d \in Direction}
Plain(q) == [i \in DOMAIN q |-> [dir |-> q[i].dir, data |-> q[i].data]]

LEMMA SendingIs ==
    ASSUME NEW s \in Sessions, NEW r \in Sending(s)
    PROVE  /\ r \in Got /\ r.dir \in Direction /\ r.data \in Seq(Nat) /\ r.record \in AnyRecord
           /\ Len(r.data) = r.record.len /\ Len(r.data) \in Nat \ {0}
           /\ \E i \in 1..Len(s.records[r.dir]) : r = Sent(s, r.dir)[i]
<1>1. PICK d \in Direction : r \in ToSet(Sent(s, d))
  BY DEF Sending
<1>2. /\ Sent(s, d) \in Seq(Got) /\ Len(Sent(s, d)) = Len(s.records[d])
      /\ \A i \in 1..Len(s.records[d]) : Sent(s, d)[i].dir = d
  BY SentIs
<1>3. PICK i \in 1..Len(s.records[d]) : r = Sent(s, d)[i]
  BY <1>1, <1>2 DEF ToSet
<1>4. Len(Sent(s, d)[i].data) = s.records[d][i].len /\ Sent(s, d)[i].record = s.records[d][i]
      /\ s.records[d][i].len \in Nat \ {0}
  <2>1. Len(Sent(s, d)[i].data) = s.records[d][i].len /\ Sent(s, d)[i].record = s.records[d][i]
    BY SentIs
  <2>2. s.records[d][i].len \in Nat \ {0}
    BY UptoIs
  <2> QED BY <2>1, <2>2
<1>5. r \in Got /\ r.dir = d
  BY <1>2, <1>3
<1> QED BY <1>3, <1>4, <1>5 DEF Got

LEMMA PlainMore ==
    ASSUME NEW s \in Sessions, NEW q \in Seq(Sending(s)), NEW r \in Sending(s)
    PROVE  /\ Plain(<<>>) = <<>> /\ Plain(q) \in Seq(Chunk) /\ Append(q, r) \in Seq(Sending(s))
           /\ [dir |-> r.dir, data |-> r.data] \in Chunk
           /\ Plain(Append(q, r)) = Append(Plain(q), [dir |-> r.dir, data |-> r.data])
<1> DEFINE C(x) == [dir |-> x.dir, data |-> x.data]
           F == [x \in Sending(s) |-> C(x)]
<1>1. \A x \in Sending(s) : C(x) \in Chunk
  BY SendingIs DEF Chunk
<1> HIDE DEF C
<1>2. F \in [Sending(s) -> Chunk] /\ \A x \in Sending(s) : F[x] = C(x)
  BY <1>1
<1> HIDE DEF F
<1>3. ASSUME NEW p \in Seq(Sending(s)) PROVE Plain(p) = Mapped(p, F)
  <2>1. \A i \in DOMAIN p : p[i] \in Sending(s)
    OBVIOUS
  <2> QED BY <1>2, <2>1 DEF Plain, Mapped, C
<1>4. /\ Mapped(<<>>, F) = <<>> /\ Mapped(q, F) \in Seq(Chunk) /\ Append(q, r) \in Seq(Sending(s))
      /\ Mapped(Append(q, r), F) = Append(Mapped(q, F), F[r]) /\ <<>> \in Seq(Sending(s))
  <2>1. MapFacts(Sending(s), Chunk, F, q, r)
    BY <1>2, MapMore
  <2> QED BY <2>1 DEF MapFacts
<1> QED BY <1>1, <1>2, <1>3, <1>4 DEF C

\* The octets of records are those records.
LEMMA ReadRecords ==
    ASSUME NEW s \in Sessions, NEW q \in Seq(Sending(s))
    PROVE  ReadBytes(s, Bytes(Plain(q))) = [error |-> FALSE, pending |-> [d \in Direction |-> <<>>], records |-> q]
<1> DEFINE P == [d \in Direction |-> <<>>]
           R(v) == [error |-> FALSE, pending |-> P, records |-> v]
           Good == {v \in Seq(Sending(s)) : ReadBytes(s, Bytes(Plain(v))) = R(v)}
<1>1. <<>> \in Good
  <2>1. Plain(<<>>) = <<>> /\ <<>> \in Seq(Sending(s)) /\ <<>> \in Seq(Byte) /\ <<0, 0>> \in Byte
    BY DEF Plain, Byte, Direction
  <2>2. Bytes(<<>>) = <<>>
    BY BytesAre
  <2>3. ReadBytes(s, <<>>) = R(<<>>)
    BY <2>1, ReadMore DEF NoRecords
  <2> HIDE DEF R
  <2> QED BY <2>1, <2>2, <2>3
<1>2. ASSUME NEW v \in Seq(Sending(s)), NEW r \in Sending(s), v \in Good PROVE Append(v, r) \in Good
  <2> DEFINE x == [dir |-> r.dir, data |-> r.data]
             b == Bytes(Plain(v))
             d == r.dir
  <2>1. Plain(v) \in Seq(Chunk) /\ x \in Chunk /\ Plain(Append(v, r)) = Append(Plain(v), x)
        /\ Append(v, r) \in Seq(Sending(s))
    BY PlainMore
  <2>2. x.dir = d /\ x.data = r.data
    OBVIOUS
  <2>3. d \in Direction
    BY SendingIs
  <2>4. PICK i \in 1..Len(s.records[d]) : r = Sent(s, d)[i]
    BY SendingIs
  <2> HIDE DEF x, d
  <2>5. Bytes(Plain(Append(v, r))) = b \o Tag(d, r.data) /\ b \in Seq(Byte)
    BY <2>1, <2>2, BytesMore
  <2>6. ReadBytes(s, b) = R(v)
    BY <1>2
  <2>7. R(v).error = FALSE /\ R(v).pending = P /\ R(v).records = v /\ P[d] = <<>>
    BY <2>3
  <2> HIDE DEF R, P, b
  <2>8. ReadBytes(s, b \o Tag(d, Sent(s, d)[i].data)) =
           [error |-> ReadBytes(s, b).error, pending |-> ReadBytes(s, b).pending,
            records |-> Append(ReadBytes(s, b).records, Sent(s, d)[i])]
    BY <2>3, <2>5, <2>6, <2>7, ReadRecord
  <2>9. ReadBytes(s, b \o Tag(d, r.data)) = [error |-> FALSE, pending |-> P, records |-> Append(v, r)]
    BY <2>4, <2>6, <2>7, <2>8
  <2> QED BY <2>1, <2>5, <2>9 DEF R
<1> HIDE DEF Good
<1>3. Seq(Sending(s)) \subseteq Good
  BY <1>1, <1>2, SeqInduction
<1> QED BY <1>3 DEF Good

LEMMA SplitIs ==
    ASSUME NEW s, NEW chunks
    PROVE  LET end == ReadBytes(s, Bytes(chunks))
           IN  split_tls_records(s, chunks) =
                  [ok |-> ~end.error /\ \A d \in Direction : end.pending[d] = <<>>, records |-> end.records]
BY DEF split_tls_records, ReadBytes

\* Chunks with the octets of records split into those records.
LEMMA SplitRecords ==
    ASSUME NEW s \in Sessions, NEW q \in Seq(Sending(s)), NEW chunks, Bytes(chunks) = Bytes(Plain(q))
    PROVE  split_tls_records(s, chunks) = [ok |-> TRUE, records |-> q]
<1> DEFINE P == [d \in Direction |-> <<>>]
           end == ReadBytes(s, Bytes(chunks))
<1>1. end = [error |-> FALSE, pending |-> P, records |-> q]
  BY ReadRecords
<1>2. split_tls_records(s, chunks) =
                  [ok |-> ~end.error /\ \A d \in Direction : end.pending[d] = <<>>, records |-> end.records]
  BY SplitIs
<1> HIDE DEF end
<1>3. end.error = FALSE /\ end.pending = P /\ end.records = q
  BY <1>1
<1>4. (~end.error /\ \A d \in Direction : end.pending[d] = <<>>) = TRUE
  BY <1>3
<1> QED BY <1>2, <1>3, <1>4

-----------------------------------------------------------------------------
(* Reading streams that begin with their first octet.                      *)

Of(d) == {x \in Got : x.dir = d}

\* Of each direction, bytes has the first n[d] octets, in their order.
InStep(bytes, n) ==
    /\ n \in [Direction -> Nat]
    /\ \A d \in Direction : n[d] <= Total[TlsFlow] /\ Only(bytes, Side(d)) = Tag(d, Octets(1, n[d]))

\* k records of direction d are complete, and j octets of the next one pending.
DirRead(s, acc, d, n, k, j) ==
    /\ k \in 0..Len(s.records[d]) /\ j \in Nat /\ n = Upto(s, d, k) + j
    /\ k = Len(s.records[d]) => j = 0
    /\ k < Len(s.records[d]) => j < s.records[d][k + 1].len
    /\ acc.pending[d] = Octets(Upto(s, d, k) + 1, Upto(s, d, k) + j)
    /\ Only(acc.records, Of(d)) = SubSeq(Sent(s, d), 1, k)

ReadsOn(s, acc, n) ==
    /\ ~acc.error /\ acc.records \in Seq(Sending(s))
    /\ \A d \in Direction : \E k, j : DirRead(s, acc, d, n[d], k, j)

LEMMA OctetsMore ==
    ASSUME NEW n \in Nat \ {0}
    PROVE  /\ Octets(1, n) = Append(Octets(1, n - 1), n) /\ Octets(1, n - 1) \in Seq(Nat) /\ n - 1 \in Nat
           /\ Octets(1, n) \in Seq(Nat) /\ Len(Octets(1, n)) = n /\ Octets(1, 0) = <<>>
<1> DEFINE j == n - 1
<1>1. j \in Nat /\ 1 + j - 1 = j /\ 1 + j = n /\ 1 \in Nat \ {0}
  OBVIOUS
<1> HIDE DEF j
<1>2. Append(Octets(1, 1 + j - 1), 1 + j) = Octets(1, 1 + j)
  BY <1>1, OneMoreOctet
<1>3. Octets(1, n) = Append(Octets(1, j), n)
  BY <1>1, <1>2
<1>4. \A m \in Nat : Octets(1, m) \in Seq(Nat) /\ Len(Octets(1, m)) = m
  <2> SUFFICES ASSUME NEW m \in Nat PROVE Octets(1, m) \in Seq(Nat) /\ Len(Octets(1, m)) = m
    OBVIOUS
  <2>1. 1 \in Nat \ {0} /\ m >= 1 - 1 /\ m - 1 + 1 = m
    OBVIOUS
  <2> QED BY <2>1, OctetsAre
<1>5. Octets(1, 0) = <<>>
  BY <1>4
<1> QED BY <1>1, <1>3, <1>4, <1>5 DEF j

LEMMA InStepNone ==
    ASSUME NEW n, InStep(<<>>, n), NEW d \in Direction
    PROVE  n[d] = 0
<1>1. n[d] \in Nat /\ <<>> = Tag(d, Octets(1, n[d]))
  BY OnlyNone DEF InStep
<1>2. CASE n[d] # 0
  <2>1. Octets(1, n[d]) \in Seq(Nat) /\ Len(Octets(1, n[d])) = n[d]
    BY <1>1, <1>2, OctetsMore
  <2>2. Len(Tag(d, Octets(1, n[d]))) = n[d]
    BY <2>1, TagIs
  <2> QED BY <1>1, <1>2, <2>2
<1> QED BY <1>2

LEMMA InStepLess ==
    ASSUME NEW b \in Seq(Byte), NEW d \in Direction, NEW o \in Nat, NEW n, InStep(Append(b, <<d, o>>), n),
           Total[TlsFlow] \in Nat
    PROVE  o = n[d] /\ n[d] # 0 /\ InStep(b, [n EXCEPT ![d] = n[d] - 1])
<1> DEFINE x == <<d, o>>
           N == n[d]
           m == [n EXCEPT ![d] = N - 1]
           old == Only(b, Side(d))
<1>1. x \in Byte /\ x \in Side(d) /\ \A e \in Direction : e # d => x \notin Side(e)
  BY DEF Byte, Side
<1>2. /\ n \in [Direction -> Nat] /\ N \in Nat
      /\ \A e \in Direction : n[e] <= Total[TlsFlow] /\ Only(Append(b, x), Side(e)) = Tag(e, Octets(1, n[e]))
  BY DEF InStep
<1> HIDE DEF x
<1>3. \A e \in Direction : Only(Append(b, x), Side(e)) = IF e = d THEN Append(Only(b, Side(d)), x) ELSE Only(b, Side(e))
  BY <1>1, OnlyMore
<1>4. Append(old, x) = Tag(d, Octets(1, N)) /\ old \in Seq(Byte)
  BY <1>1, <1>2, <1>3, OnlyHolds
<1>5. N # 0
  <2> SUFFICES ASSUME N = 0 PROVE FALSE
    OBVIOUS
  <2>1. 1 \in Nat \ {0}
    OBVIOUS
  <2>2. Octets(1, N) = <<>>
    BY <2>1, OctetsMore
  <2>3. Append(old, x) = <<>>
    BY <1>4, <2>2, TagNone
  <2> HIDE DEF old
  <2> QED BY <1>1, <1>4, <2>3, AppendProperties
<1>6. /\ Octets(1, N) = Append(Octets(1, N - 1), N) /\ Octets(1, N - 1) \in Seq(Nat) /\ N - 1 \in Nat
  BY <1>2, <1>5, OctetsMore
<1> HIDE DEF N, old
<1>7. Tag(d, Octets(1, N)) = Append(Tag(d, Octets(1, N - 1)), <<d, N>>)
  BY <1>2, <1>6, TagMore
<1> DEFINE t == Tag(d, Octets(1, N - 1))
           y == <<d, N>>
<1>8. t \in Seq(Byte) /\ y \in Byte
  BY <1>2, <1>6, TagIs DEF Byte
<1> HIDE DEF t
<1>9. old = t /\ x = y
  <2> HIDE DEF y
  <2>1. Append(old, x) = Append(t, y)
    BY <1>4, <1>7 DEF t, y
  <2> QED BY <1>1, <1>4, <1>8, <2>1, AppendInjective
<1>10. o = N
  BY <1>9 DEF x
<1>11. m \in [Direction -> Nat] /\ \A e \in Direction : m[e] = IF e = d THEN N - 1 ELSE n[e]
  BY <1>2, <1>6
<1> HIDE DEF m
<1>12. ASSUME NEW e \in Direction PROVE m[e] <= Total[TlsFlow] /\ Only(b, Side(e)) = Tag(e, Octets(1, m[e]))
  <2>1. CASE e = d
    <3>1. N <= Total[TlsFlow] /\ Total[TlsFlow] \in Nat
      BY <1>2 DEF N
    <3>2. N - 1 <= Total[TlsFlow]
      BY <1>2, <3>1
    <3>3. m[e] = N - 1 /\ Only(b, Side(e)) = Tag(e, Octets(1, N - 1))
      BY <1>9, <1>11, <2>1 DEF old, t
    <3> QED BY <3>2, <3>3
  <2>2. CASE e # d
    BY <1>2, <1>3, <1>11, <2>2
  <2> QED BY <2>1, <2>2
<1>13. InStep(b, m)
  BY <1>11, <1>12 DEF InStep
<1> QED BY <1>5, <1>10, <1>13 DEF N, m

\* One octet more of direction d.
LEMMA DirReadOn ==
    ASSUME NEW s \in Sessions, NEW acc \in Splitting, NEW d \in Direction, NEW n \in Nat, n < Total[TlsFlow],
           NEW k, NEW j, DirRead(s, acc, d, n, k, j), acc.records \in Seq(Sending(s))
    PROVE  LET new == Octet(s, acc, d, n + 1)
           IN  /\ new.error = acc.error /\ new.records \in Seq(Sending(s))
               /\ \E l, i : DirRead(s, new, d, n + 1, l, i)
               /\ \A e \in Direction \ {d} :
                     new.pending[e] = acc.pending[e] /\ Only(new.records, Of(e)) = Only(acc.records, Of(e))
<1> DEFINE new == Octet(s, acc, d, n + 1)
           N == Len(s.records[d])
           u == Upto(s, d, k)
           len == s.records[d][k + 1].len
           got == Sent(s, d)[k + 1]
           whole == j + 1 = len
           R == acc.records
           q == Sent(s, d)
<1>1. /\ N \in Nat /\ Upto(s, d, N) = Total[TlsFlow] /\ \A i \in 0..N : Upto(s, d, i) \in Nat
      /\ k \in 0..N /\ j \in Nat /\ n = u + j
  BY UptoIs DEF DirRead
<1>2. k # N
  <2> SUFFICES ASSUME k = N PROVE FALSE
    OBVIOUS
  <2>1. j = 0 /\ u = Total[TlsFlow]
    BY <1>1 DEF DirRead
  <2> QED BY <1>1, <2>1
<1>3. k \in Nat /\ k < N /\ k + 1 \in 1..N /\ k + 1 \in 0..N /\ (k + 1) - 1 = k
  BY <1>1, <1>2
<1>4. j < len /\ acc.pending[d] = Octets(u + 1, u + j) /\ Only(R, Of(d)) = SubSeq(q, 1, k)
  BY <1>3 DEF DirRead
<1>5. u \in Nat /\ len \in Nat \ {0} /\ Upto(s, d, k + 1) = u + len
  <2>1. Upto(s, d, k + 1) = Upto(s, d, (k + 1) - 1) + len /\ len \in Nat \ {0}
    BY <1>3, UptoIs
  <2> HIDE DEF len
  <2> QED BY <1>1, <1>3, <2>1
<1>6. Begun(s, acc, d, k + 1, j)
  BY <1>1, <1>3, <1>4 DEF Begun
<1>7. GoesOn(s, acc, d, k + 1, j)
  BY <1>6, OctetIs
<1>8. Octet(s, acc, d, u + j + 1) =
           [error   |-> acc.error,
            pending |-> [acc.pending EXCEPT ![d] = IF whole THEN <<>> ELSE Octets(u + 1, u + j + 1)],
            records |-> IF whole THEN Append(R, got) ELSE R]
  BY <1>3, <1>7 DEF GoesOn
<1>9. u + j + 1 = n + 1
  BY <1>1
<1>10. acc.pending \in [Direction -> Seq(Nat)]
  BY DEF Splitting
<1> HIDE DEF u, len, got, whole, R, new, q
<1>11. /\ new.error = acc.error /\ new.records = IF whole THEN Append(R, got) ELSE R
       /\ new.pending[d] = IF whole THEN <<>> ELSE Octets(u + 1, u + j + 1)
       /\ \A e \in Direction \ {d} : new.pending[e] = acc.pending[e]
  <2> DEFINE P == acc.pending
             v == IF whole THEN <<>> ELSE Octets(u + 1, u + j + 1)
             w == IF whole THEN Append(R, got) ELSE R
  <2>1. new = [error |-> acc.error, pending |-> [P EXCEPT ![d] = v], records |-> w]
    BY <1>8, <1>9 DEF new
  <2>2. P \in [Direction -> Seq(Nat)]
    BY <1>10
  <2> HIDE DEF v, w, P
  <2>3. new.error = acc.error /\ new.records = w /\ new.pending = [P EXCEPT ![d] = v]
    BY <2>1
  <2>4. new.pending[d] = v /\ \A e \in Direction \ {d} : new.pending[e] = P[e]
    BY <2>2, <2>3
  <2> QED BY <2>3, <2>4 DEF v, w, P
<1>12. got \in Sending(s) /\ got \in Of(d) /\ got \in Got /\ got.dir = d
  <2>1. q \in Seq(Got) /\ Len(q) = N /\ got.dir = d
    BY <1>3, SentIs DEF got, q
  <2>2. got \in ToSet(q) /\ got \in Got
    BY <1>3, <2>1 DEF got, q, ToSet
  <2> QED BY <2>1, <2>2 DEF Sending, Of, q
<1>13. R \in Seq(Sending(s)) /\ R \in Seq(Got)
  <2>1. R \in Seq(Sending(s)) /\ \A x \in Sending(s) : x \in Got
    BY SendingIs DEF R
  <2> QED BY <2>1
<1>14. new.records \in Seq(Sending(s))
  BY <1>11, <1>12, <1>13
<1>15. ASSUME NEW e \in Direction \ {d}
       PROVE  new.pending[e] = acc.pending[e] /\ Only(new.records, Of(e)) = Only(R, Of(e))
  <2>1. got \notin Of(e)
    BY <1>12 DEF Of
  <2>2. Only(Append(R, got), Of(e)) = Only(R, Of(e))
    BY <1>12, <1>13, <2>1, OnlyMore
  <2> QED BY <1>11, <2>2
<1>16. \E l, i : DirRead(s, new, d, n + 1, l, i)
  <2>1. CASE whole
    <3>1. Only(new.records, Of(d)) = SubSeq(q, 1, k + 1)
      <4>1. Only(Append(R, got), Of(d)) = Append(Only(R, Of(d)), got)
        BY <1>12, <1>13, OnlyMore
      <4>2. SubSeq(q, 1, k + 1) = Append(SubSeq(q, 1, k), got)
        <5>1. q \in Seq(Got) /\ Len(q) = N
          BY SentIs DEF q
        <5>2. got = q[k + 1]
          BY DEF q, got
        <5> QED BY <1>3, <5>1, <5>2
      <4> QED BY <1>4, <1>11, <2>1, <4>1, <4>2
    <3>2. n + 1 = Upto(s, d, k + 1) + 0
      BY <1>1, <1>5, <2>1 DEF whole
    <3>3. new.pending[d] = Octets(Upto(s, d, k + 1) + 1, Upto(s, d, k + 1) + 0)
      <4>1. Upto(s, d, k + 1) \in Nat /\ 0 \in Nat
        BY <1>5
      <4>2. Octets(Upto(s, d, k + 1) + 1, Upto(s, d, k + 1) + 0) = <<>>
        BY <4>1, RunIs
      <4> QED BY <1>11, <2>1, <4>2
    <3>4. k + 1 < N => 0 < s.records[d][(k + 1) + 1].len
      <4>1. k + 1 < N => (k + 1) + 1 \in 1..N
        BY <1>1, <1>3
      <4>2. \A i \in 1..N : s.records[d][i].len \in Nat \ {0}
        BY UptoIs
      <4> QED BY <4>1, <4>2
    <3>5. DirRead(s, new, d, n + 1, k + 1, 0)
      BY <1>3, <3>1, <3>2, <3>3, <3>4 DEF DirRead, q
    <3> QED BY <3>5
  <2>2. CASE ~whole
    <3>1. j + 1 \in Nat /\ n + 1 = u + (j + 1) /\ u + j + 1 = u + (j + 1) /\ j + 1 < len
      BY <1>1, <1>4, <1>5, <2>2 DEF whole
    <3>2. new.pending[d] = Octets(u + 1, u + (j + 1)) /\ Only(new.records, Of(d)) = SubSeq(q, 1, k)
      BY <1>4, <1>11, <2>2, <3>1
    <3>3. DirRead(s, new, d, n + 1, k, j + 1)
      BY <1>1, <1>2, <3>1, <3>2 DEF DirRead, u, len, q
    <3> QED BY <3>3
  <2> QED BY <2>1, <2>2
<1> QED BY <1>11, <1>14, <1>15, <1>16 DEF new, R

\* What is read of octets that are in order.
LEMMA ReadInStep ==
    ASSUME NEW s \in Sessions, NEW b \in Seq(Byte), NEW n, InStep(b, n)
    PROVE  ReadsOn(s, ReadBytes(s, b), n)
<1> DEFINE Good == {v \in Seq(Byte) : \A m : InStep(v, m) => ReadsOn(s, ReadBytes(s, v), m)}
<1>1. <<>> \in Good
  <2> SUFFICES ASSUME NEW m, InStep(<<>>, m) PROVE ReadsOn(s, ReadBytes(s, <<>>), m)
    OBVIOUS
  <2> DEFINE acc == ReadBytes(s, <<>>)
  <2>1. acc = NoRecords
    <3>1. <<>> \in Seq(Byte) /\ <<0, 0>> \in Byte
      BY DEF Byte, Direction
    <3> QED BY <3>1, ReadMore
  <2> HIDE DEF acc
  <2>2. ~acc.error /\ acc.records = <<>> /\ \A d \in Direction : acc.pending[d] = <<>>
    BY <2>1 DEF NoRecords
  <2>3. ASSUME NEW d \in Direction PROVE DirRead(s, acc, d, m[d], 0, 0)
    <3>1. m[d] = 0
      BY InStepNone
    <3>2. Upto(s, d, 0) = 0 /\ Len(s.records[d]) \in Nat
          /\ \A i \in 1..Len(s.records[d]) : s.records[d][i].len \in Nat \ {0}
      BY UptoIs
    <3>3. 0 < Len(s.records[d]) => 0 < s.records[d][0 + 1].len
      BY <3>2
    <3>4. Octets(0 + 1, 0 + 0) = <<>>
      BY RunIs
    <3>5. SubSeq(Sent(s, d), 1, 0) = <<>> /\ Only(<<>>, Of(d)) = <<>>
      BY SentIs, OnlyNone
    <3>6. m[d] = Upto(s, d, 0) + 0 /\ 0 \in 0..Len(s.records[d]) /\ 0 \in Nat
      BY <3>1, <3>2
    <3>7. acc.pending[d] = Octets(Upto(s, d, 0) + 1, Upto(s, d, 0) + 0)
      BY <2>2, <3>2, <3>4
    <3> QED BY <2>2, <3>3, <3>5, <3>6, <3>7 DEF DirRead
  <2>4. acc.records \in Seq(Sending(s))
    BY <2>2
  <2>5. ReadsOn(s, acc, m)
    BY <2>2, <2>3, <2>4 DEF ReadsOn
  <2> QED BY <2>5 DEF acc
<1>2. ASSUME NEW v \in Seq(Byte), NEW x \in Byte, v \in Good PROVE Append(v, x) \in Good
  <2> SUFFICES ASSUME NEW m, InStep(Append(v, x), m) PROVE ReadsOn(s, ReadBytes(s, Append(v, x)), m)
    OBVIOUS
  <2> DEFINE acc == ReadBytes(s, v)
             d == x[1]
             l == [m EXCEPT ![d] = m[d] - 1]
             new == Octet(s, acc, d, m[d])
  <2>1. d \in Direction /\ x[2] \in Nat /\ x = <<d, x[2]>>
    BY DEF Byte
  <2>2. x[2] = m[d] /\ m[d] # 0 /\ InStep(v, l)
    <3>1. Total[TlsFlow] \in Nat
      BY <2>1, UptoIs
    <3> HIDE DEF d, l
    <3>2. InStep(Append(v, <<d, x[2]>>), m)
      BY <2>1
    <3>3. x[2] = m[d] /\ m[d] # 0 /\ InStep(v, [m EXCEPT ![d] = m[d] - 1])
      BY <2>1, <3>1, <3>2, InStepLess
    <3> QED BY <3>3 DEF l
  <2>3. acc \in Splitting /\ ReadBytes(s, Append(v, x)) = new
    BY <2>2, ReadMore
  <2>4. m \in [Direction -> Nat] /\ m[d] <= Total[TlsFlow]
    BY <2>1 DEF InStep
  <2>5. l[d] = m[d] - 1 /\ l[d] \in Nat /\ l[d] + 1 = m[d] /\ \A e \in Direction \ {d} : l[e] = m[e]
    BY <2>1, <2>2, <2>4
  <2>6. ReadsOn(s, acc, l)
    BY <1>2, <2>2
  <2> HIDE DEF acc, l, d
  <2>7. PICK k, j : DirRead(s, acc, d, l[d], k, j)
    BY <2>1, <2>6 DEF ReadsOn
  <2>8. ~acc.error /\ acc.records \in Seq(Sending(s))
    BY <2>6 DEF ReadsOn
  <2>9. l[d] < Total[TlsFlow]
    <3>1. Total[TlsFlow] \in Nat
      BY <2>1, UptoIs
    <3> QED BY <2>4, <2>5, <3>1
  <2>10. /\ new.error = acc.error /\ new.records \in Seq(Sending(s))
         /\ \E h, i : DirRead(s, new, d, l[d] + 1, h, i)
         /\ \A e \in Direction \ {d} :
               new.pending[e] = acc.pending[e] /\ Only(new.records, Of(e)) = Only(acc.records, Of(e))
    BY <2>1, <2>3, <2>5, <2>7, <2>8, <2>9, DirReadOn
  <2> HIDE DEF new
  <2>11. ASSUME NEW e \in Direction PROVE \E h, i : DirRead(s, new, e, m[e], h, i)
    <3>1. CASE e = d
      BY <2>5, <2>10, <3>1
    <3>2. CASE e # d
      <4>1. PICK h, i : DirRead(s, acc, e, l[e], h, i)
        BY <2>6 DEF ReadsOn
      <4>2. DirRead(s, new, e, m[e], h, i)
        BY <2>5, <2>10, <3>2, <4>1 DEF DirRead
      <4> QED BY <4>2
    <3> QED BY <3>1, <3>2
  <2>12. ReadsOn(s, new, m)
    BY <2>8, <2>10, <2>11 DEF ReadsOn
  <2> QED BY <2>3, <2>12
<1> HIDE DEF Good
<1>3. Seq(Byte) \subseteq Good
  BY <1>1, <1>2, SeqInduction
<1> QED BY <1>3 DEF Good

-----------------------------------------------------------------------------
(* The octets that the two archivers extract.                              *)

LEMMA BytesAdd ==
    ASSUME NEW c \in Seq(Chunk), NEW d \in Direction, NEW data \in Seq(Nat)
    PROVE  Bytes(AddChunk(c, d, data)) = Bytes(c) \o Tag(d, data)
<1> DEFINE x == [dir |-> d, data |-> data]
<1>1. x \in Chunk /\ x.dir = d /\ x.data = data
  BY DEF Chunk
<1>2. CASE c # <<>> /\ Last(c).dir = d
  <2> DEFINE y == c[Len(c)]
             z == [dir |-> d, data |-> y.data \o data]
  <2>1. PICK p \in Seq(Chunk) : c = Append(p, y) /\ y \in Chunk
    BY <1>2, LastOff
  <2>2. y.dir = d /\ y.data \in Seq(Nat)
    BY <1>2, <2>1 DEF Last, Chunk
  <2>3. [c[Len(c)] EXCEPT !.data = @ \o data] = z
    BY <2>1, <2>2, MergedChunk
  <2>4. z \in Chunk /\ z.dir = d /\ z.data = y.data \o data
    BY <2>2 DEF Chunk
  <2>5. AddChunk(c, d, data) = [c EXCEPT ![Len(c)] = z]
    BY <1>2, <2>3 DEF AddChunk
  <2> HIDE DEF y, z
  <2>6. [c EXCEPT ![Len(c)] = z] = Append(p, z)
    <3>1. Len(p) \in Nat /\ DOMAIN c = 1..(Len(p) + 1) /\ Len(c) = Len(p) + 1
          /\ \A i \in 1..Len(p) : c[i] = p[i]
      BY <2>1
    <3>2. [c EXCEPT ![Len(c)] = z] = [i \in 1..(Len(p) + 1) |-> IF i = Len(p) + 1 THEN z ELSE c[i]]
      BY <3>1
    <3>3. Append(p, z) = [i \in 1..(Len(p) + 1) |-> IF i = Len(p) + 1 THEN z ELSE p[i]]
      BY <2>1, <2>4, AppendIs
    <3>4. \A i \in 1..(Len(p) + 1) : i = Len(p) + 1 \/ i \in 1..Len(p)
      BY <3>1
    <3> HIDE DEF x
    <3> QED BY <3>1, <3>2, <3>3, <3>4
  <2>7. Bytes(c) = Bytes(p) \o Tag(d, y.data) /\ Bytes(p) \in Seq(Byte)
    BY <2>1, <2>2, BytesAre
  <2>8. Bytes(Append(p, z)) = Bytes(p) \o Tag(d, y.data \o data)
    BY <2>1, <2>4, BytesAre
  <2>9. Tag(d, y.data \o data) = Tag(d, y.data) \o Tag(d, data)
    BY <2>2, TagConcat
  <2>10. Tag(d, y.data) \in Seq(Byte) /\ Tag(d, data) \in Seq(Byte)
    BY <2>2, TagIs
  <2>11. (Bytes(p) \o Tag(d, y.data)) \o Tag(d, data) = Bytes(p) \o (Tag(d, y.data) \o Tag(d, data))
    BY <2>7, <2>10, Associates
  <2> QED BY <2>5, <2>6, <2>7, <2>8, <2>9, <2>11
<1>3. CASE ~(c # <<>> /\ Last(c).dir = d)
  <2>1. AddChunk(c, d, data) = Append(c, x)
    BY <1>3 DEF AddChunk
  <2> HIDE DEF x
  <2> QED BY <1>1, <2>1, BytesAre
<1> QED BY <1>2, <1>3

\* What a row adds to the octets before it.
Gained(acc, r) ==
    IF Expected(acc, r) > LastOctet(r) THEN Bytes(acc.chunks)
    ELSE Bytes(acc.chunks) \o Tag(r.dir, Octets(Expected(acc, r), LastOctet(r)))

LEMMA ChunkRowBytes ==
    ASSUME NEW acc \in Acc, NEW r \in Row, ~ChunkRow(acc, r).error
    PROVE  Bytes(ChunkRow(acc, r).chunks) = Gained(acc, r)
<1> DEFINE new == ChunkRow(acc, r)
           e == Expected(acc, r)
           novel == Novel(r, e)
           bad == acc.error \/ (acc.flow # <<>> /\ acc.flow # <<r.flow>>) \/ r.seq > e
<1>1. new = IF bad THEN [acc EXCEPT !.error = TRUE]
            ELSE IF novel = <<>> THEN acc
            ELSE [error |-> FALSE, flow |-> <<r.flow>>,
                  next |-> [acc.next EXCEPT ![r.dir] = e + Len(novel)],
                  chunks |-> AddChunk(acc.chunks, r.dir, novel)]
  BY DEF ChunkRow, Expected
<1>2. e \in Nat /\ acc.chunks \in Seq(Chunk)
  BY Typed
<1>3. r.dir \in Direction /\ r.seq \in Nat /\ LastOctet(r) \in Nat
  BY RowIs
<1> HIDE DEF new, e, novel
<1>4. ~bad
  BY <1>1, Failed DEF new
<1>5. e >= r.seq
  BY <1>2, <1>3, <1>4
<1>6. IF e > LastOctet(r) THEN novel = <<>>
      ELSE /\ novel = Octets(e, LastOctet(r)) /\ novel # <<>>
           /\ novel \in Seq(Nat) /\ e + Len(novel) = LastOctet(r) + 1
  BY <1>2, <1>5, NovelIs DEF novel
<1>7. CASE e > LastOctet(r)
  <2>1. new = acc
    BY <1>1, <1>4, <1>6, <1>7
  <2> QED BY <1>7, <2>1 DEF new, e, Gained
<1>8. CASE ~(e > LastOctet(r))
  <2>1. new.chunks = AddChunk(acc.chunks, r.dir, novel)
    BY <1>1, <1>4, <1>6, <1>8
  <2>2. Bytes(new.chunks) = Bytes(acc.chunks) \o Tag(r.dir, novel)
    BY <1>2, <1>3, <1>6, <1>8, <2>1, BytesAdd
  <2> QED BY <1>6, <1>8, <2>2 DEF new, e, Gained
<1> QED BY <1>7, <1>8

LEMMA EventRowBytes ==
    ASSUME NEW acc \in Acc, NEW r \in Row, ~EventRow(acc, r).error
    PROVE  Bytes(EventRow(acc, r).chunks) = Gained(acc, r)
<1> DEFINE new == EventRow(acc, r)
           e == Expected(acc, r)
           novel == Novel(r, e)
           payload == IF acc.next[r.dir] = 0 THEN r.data ELSE Novel(r, acc.next[r.dir])
           x == [dir |-> r.dir, data |-> payload]
<1>1. new = IF acc.error \/ Leaps(acc, r) THEN [acc EXCEPT !.error = TRUE]
            ELSE IF payload = <<>> THEN acc
            ELSE [error |-> FALSE, flow |-> acc.flow,
                  next |-> [acc.next EXCEPT ![r.dir] = e + Len(payload)],
                  chunks |-> Append(acc.chunks, x)]
  BY DEF EventRow, Expected, Leaps
<1>2. /\ e \in Nat /\ acc.chunks \in Seq(Chunk) /\ (Leaps(acc, r) <=> r.seq > e) /\ acc.next[r.dir] \in Nat
  BY Typed
<1>3. /\ r.dir \in Direction /\ r.seq \in Nat \ {0} /\ LastOctet(r) \in Nat
      /\ LastOctet(r) >= r.seq /\ r.data = Octets(r.seq, LastOctet(r)) /\ r.data \in Seq(Nat)
  BY RowIs
<1>4. ~(acc.error \/ Leaps(acc, r))
  <2> HIDE DEF payload, e, x
  <2> QED BY <1>1, Failed DEF new
<1>5. e >= r.seq
  BY <1>2, <1>3, <1>4
<1>6. IF e > LastOctet(r) THEN novel = <<>>
      ELSE /\ novel = Octets(e, LastOctet(r)) /\ novel # <<>>
           /\ novel \in Seq(Nat) /\ e + Len(novel) = LastOctet(r) + 1
  <2> HIDE DEF e
  <2> QED BY <1>2, <1>5, NovelIs
<1>7. payload = novel
  <2>1. CASE acc.next[r.dir] = 0
    <3>1. e = r.seq /\ ~(e > LastOctet(r))
      BY <1>3, <2>1 DEF Expected
    <3>2. novel = Octets(r.seq, LastOctet(r))
      <4> HIDE DEF e, novel
      <4> QED BY <1>6, <3>1
    <3> QED BY <1>3, <2>1, <3>2
  <2>2. CASE acc.next[r.dir] # 0
    BY <2>2 DEF Expected
  <2> QED BY <2>1, <2>2
<1>8. x.dir = r.dir /\ x.data = payload
  OBVIOUS
<1>9. payload \in Seq(Nat) => x \in Chunk
  BY <1>3 DEF Chunk
<1> HIDE DEF new, e, novel, payload, x
<1>10. CASE e > LastOctet(r)
  <2>1. new = acc
    BY <1>1, <1>4, <1>6, <1>7, <1>10
  <2> QED BY <1>10, <2>1 DEF new, e, Gained
<1>11. CASE ~(e > LastOctet(r))
  <2>1. new.chunks = Append(acc.chunks, x) /\ x \in Chunk
    BY <1>1, <1>4, <1>6, <1>7, <1>9, <1>11
  <2>2. Bytes(new.chunks) = Bytes(acc.chunks) \o Tag(r.dir, payload)
    BY <1>2, <1>8, <2>1, BytesAre
  <2> QED BY <1>6, <1>7, <1>11, <2>2 DEF new, e, Gained
<1> QED BY <1>10, <1>11

\* The two loops extract the same octets, in the same order.
LEMMA BytesRun ==
    ASSUME NEW s \in Seq(Row), NEW h, NEW g, ExtractChain(s, h), EventChain(s, g)
    PROVE  \A k \in 0..Len(s) : ~h[k].error => Bytes(g[k].chunks) = Bytes(h[k].chunks)
<1> DEFINE n == Len(s)
           Good == {k \in 0..n : ~h[k].error => Bytes(g[k].chunks) = Bytes(h[k].chunks)}
<1>1. n \in Nat /\ \A k \in 1..n : k \in 0..n /\ k - 1 \in 0..n /\ s[k] \in Row
  OBVIOUS
<1>2. /\ \A k \in 0..n : h[k] \in Acc /\ g[k] \in Acc
      /\ h[0] = Fresh /\ \A k \in 1..n : h[k] = ChunkRow(h[k - 1], s[k])
      /\ g[0] = Fresh /\ \A k \in 1..n : g[k] = MineRow(s, g[k - 1], s[k])
  BY DEF ExtractChain, EventChain
<1>3. /\ \A k \in 0..n : ExactInv(s, k, h[k])
      /\ \A k \in 0..n : PairInv(s, k, h[k], g[k])
  BY ExactRun, PairRun
<1>4. 0 \in Good
  BY <1>1, <1>2
<1>5. ASSUME NEW k \in 1..n, k - 1 \in Good PROVE k \in Good
  <2> SUFFICES ASSUME ~h[k].error PROVE Bytes(g[k].chunks) = Bytes(h[k].chunks)
    BY <1>1
  <2> DEFINE acc == h[k - 1]
             evt == g[k - 1]
             r == s[k]
  <2>1. /\ acc \in Acc /\ evt \in Acc /\ r \in Row /\ h[k] = ChunkRow(acc, r) /\ g[k] = MineRow(s, evt, r)
        /\ ExactInv(s, k - 1, acc) /\ PairInv(s, k - 1, acc, evt)
        /\ (~acc.error => Bytes(evt.chunks) = Bytes(acc.chunks))
    BY <1>1, <1>2, <1>3, <1>5
  <2>2. ~acc.error /\ r.flow = s[1].flow
    BY <2>1, ExactKept
  <2>3. g[k] = EventRow(evt, r) /\ ~evt.error /\ evt.next = acc.next
    BY <2>1, <2>2 DEF MineRow, PairInv
  <2>4. ~EventRow(evt, r).error
    <3>1. PairInv(s, k, h[k], g[k])
      BY <1>1, <1>3
    <3> QED BY <2>3, <3>1 DEF PairInv
  <2>5. Bytes(h[k].chunks) = Gained(acc, r)
    BY <2>1, ChunkRowBytes
  <2>6. Bytes(g[k].chunks) = Gained(evt, r)
    BY <2>1, <2>3, <2>4, EventRowBytes
  <2>7. Expected(evt, r) = Expected(acc, r)
    BY <2>3 DEF Expected
  <2> QED BY <2>1, <2>2, <2>5, <2>6, <2>7 DEF Gained
<1> HIDE DEF Good
<1>6. 0..n \subseteq Good
  BY <1>1, <1>4, <1>5, ChainInduction
<1> QED BY <1>6 DEF Good

\* What follows the last octet of a direction.
LEMMA NextRun ==
    ASSUME NEW s \in Seq(Row), NEW h, ExtractChain(s, h), NEW d \in Direction
    PROVE  \A k \in 0..Len(s) :
              ~h[k].error => h[k].next[d] = 0 \/ \E i \in 1..k : h[k].next[d] = LastOctet(s[i]) + 1
<1> DEFINE n == Len(s)
           Ok(k) == ~h[k].error => h[k].next[d] = 0 \/ \E i \in 1..k : h[k].next[d] = LastOctet(s[i]) + 1
           Good == {k \in 0..n : Ok(k)}
<1>1. n \in Nat /\ \A k \in 1..n : k \in 0..n /\ k - 1 \in 0..n /\ s[k] \in Row /\ k \in 1..k /\ \A i \in 1..(k - 1) : i \in 1..k
  OBVIOUS
<1>2. /\ \A k \in 0..n : h[k] \in Acc
      /\ h[0] = Fresh /\ \A k \in 1..n : h[k] = ChunkRow(h[k - 1], s[k])
  BY DEF ExtractChain
<1>3. 0 \in Good
  BY <1>1, <1>2, FreshIs
<1>4. ASSUME NEW k \in 1..n, k - 1 \in Good PROVE k \in Good
  <2> SUFFICES ASSUME ~h[k].error PROVE h[k].next[d] = 0 \/ \E i \in 1..k : h[k].next[d] = LastOctet(s[i]) + 1
    BY <1>1
  <2> DEFINE acc == h[k - 1]
             r == s[k]
  <2>1. acc \in Acc /\ r \in Row /\ h[k] = ChunkRow(acc, r) /\ Ok(k - 1)
    BY <1>1, <1>2, <1>4
  <2>2. ~acc.error /\ Advance(acc, h[k], r)
    BY <2>1, ChunkRowIs
  <2>3. r.dir \in Direction /\ acc.next \in [Direction -> Nat]
    BY <2>1, RowIs, Typed
  <2>4. acc.next[d] = 0 \/ \E i \in 1..(k - 1) : acc.next[d] = LastOctet(s[i]) + 1
    BY <2>1, <2>2
  <2>5. h[k].next[d] = acc.next[d] \/ h[k].next[d] = LastOctet(r) + 1
    BY <2>2, <2>3 DEF Advance
  <2> QED BY <1>1, <2>4, <2>5
<1> HIDE DEF Good
<1>5. 0..n \subseteq Good
  BY <1>1, <1>3, <1>4, ChainInduction
<1> QED BY <1>5 DEF Good

\* The rows are segments of their flows.
Fit(s) == s \in Seq(Row) /\ \A i \in DOMAIN s : LastOctet(s[i]) <= Total[s[i].flow]

LEMMA RowsFit == Spec => []Fit(rows)
<1>1. Init => Fit(rows)
  BY DEF Init, Fit
<1>2. Fit(rows) /\ [Next]_vars => Fit(rows)'
  <2> SUFFICES ASSUME Fit(rows), [Next]_vars PROVE Fit(rows)'
    OBVIOUS
  <2>1. CASE UNCHANGED vars
    BY <2>1 DEF vars, Fit, LastOctet
  <2>2. ASSUME NEW f \in Flow, NEW d \in Direction, NEW n \in 1..MaxSegment,
               NEW from \in 1..Total[f], Capture(f, d, from, n)
        PROVE  Fit(rows)'
    <3> DEFINE r == Segment(f, d, from, from + n - 1)
    <3>1. from \in Nat \ {0} /\ n \in Nat \ {0} /\ Total[f] \in Nat
      BY ArchiveAssumption
    <3>2. r \in Row /\ r.flow = f
      <4>1. r \in Row
        BY <3>1 DEF Row
      <4>2. r.flow = f
        BY DEF Segment
      <4> QED BY <4>1, <4>2
    <3>3. LastOctet(r) = from + n - 1
      <4>1. from + n - 1 \in Nat /\ from + n - 1 >= from - 1 /\ (from + n - 1) - from + 1 = n
        BY <3>1
      <4>2. r.seq = from /\ r.data = Octets(from, from + n - 1)
        BY DEF Segment
      <4>3. Len(Octets(from, from + n - 1)) = n
        BY <3>1, <4>1, OctetsAre
      <4> QED BY <3>1, <4>2, <4>3 DEF LastOctet
    <3>4. LastOctet(r) <= Total[r.flow]
      BY <2>2, <3>2, <3>3 DEF Capture
    <3>5. rows' = Append(rows, r) /\ rows \in Seq(Row) /\ \A i \in DOMAIN rows : LastOctet(rows[i]) <= Total[rows[i].flow]
      BY <2>2 DEF Capture, Fit
    <3> HIDE DEF r
    <3> DEFINE s == Append(rows, r)
    <3>6. s \in Seq(Row) /\ \A i \in DOMAIN s : (i \in DOMAIN rows /\ s[i] = rows[i]) \/ s[i] = r
      BY <3>2, <3>5
    <3> HIDE DEF s
    <3>7. \A i \in DOMAIN s : LastOctet(s[i]) <= Total[s[i].flow]
      BY <3>4, <3>5, <3>6
    <3>8. Fit(s)
      BY <3>6, <3>7 DEF Fit
    <3>9. rows' = s
      BY <3>5 DEF s
    <3> QED BY <3>8, <3>9 DEF Fit, LastOctet
  <2> QED BY <2>1, <2>2 DEF Next
<1> QED BY <1>1, <1>2, PTL DEF Spec

\* A capture in which no beginning is missing gives the first octets of each
\* direction in their order, and both archivers the same ones.
LEMMA WholeIs ==
    ASSUME Fit(rows), Whole, NEW s \in Sessions
    PROVE  /\ Extracted.chunks \in Seq(Chunk) /\ Bytes(Extracted.chunks) \in Seq(Byte)
           /\ Bytes(_tcp_events(rows).chunks) = Bytes(Extracted.chunks)
           /\ _tcp_events(rows).ok
           /\ InStep(Bytes(Extracted.chunks), [d \in Direction |-> Len(Stream(Extracted.chunks, d))])
<1> DEFINE n == Len(rows)
           c == Extracted.chunks
           L == [d \in Direction |-> Len(Stream(c, d))]
<1>1. rows \in Seq(Row) /\ n \in 0..n /\ n \in Nat /\ DOMAIN rows = 1..n
      /\ \A i \in 1..n : rows[i] \in Row /\ LastOctet(rows[i]) <= Total[rows[i].flow]
  BY DEF Fit
<1>2. PICK h : ExtractChain(rows, h) /\ Extracted =
                   [ok |-> ~h[n].error /\ h[n].chunks # <<>>, chunks |-> h[n].chunks]
  BY <1>1, ExtractRun DEF Extracted
<1>3. PICK g : EventChain(rows, g) /\ _tcp_events(rows) =
                   [ok |-> ~g[n].error /\ g[n].chunks # <<>>, chunks |-> g[n].chunks]
  BY <1>1, EventRun
<1>4. Extracted.ok /\ rows[1].flow = TlsFlow
      /\ \A d \in Direction : Stream(Extracted.chunks, d) # <<>> => Stream(Extracted.chunks, d)[1] = 1
  BY DEF Whole
<1> DEFINE acc == h[n]
<1>5. ~acc.error /\ acc.chunks # <<>> /\ c = acc.chunks
  BY <1>2, <1>4
<1>6. ExactInv(rows, n, acc) /\ acc \in Acc /\ PairInv(rows, n, acc, g[n])
      /\ Bytes(g[n].chunks) = Bytes(acc.chunks)
  BY <1>1, <1>2, <1>3, <1>5, ExactRun, PairRun, BytesRun DEF ExtractChain
<1>7. c \in Seq(Chunk) /\ acc.next \in [Direction -> Nat]
  BY <1>5, <1>6 DEF Acc
<1>8. Bytes(c) \in Seq(Byte)
  BY <1>7, BytesAre
<1>9. _tcp_events(rows).chunks = g[n].chunks /\ _tcp_events(rows).ok
  <2>1. n # 0
    <3>1. n = 0 => acc = Fresh
      BY <1>2 DEF ExtractChain
    <3> QED BY <1>5, <3>1, FreshIs
  <2>2. ~g[n].error /\ g[n].chunks # <<>>
    BY <1>1, <1>5, <1>6, <2>1 DEF PairInv
  <2>4. _tcp_events(rows) = [ok |-> TRUE, chunks |-> g[n].chunks]
    <3>1. (~g[n].error /\ g[n].chunks # <<>>) = TRUE
      BY <2>2
    <3> QED BY <1>3, <3>1
  <2> HIDE DEF n
  <2>5. \A b : [ok |-> TRUE, chunks |-> b].ok /\ [ok |-> TRUE, chunks |-> b].chunks = b
    OBVIOUS
  <2>6. [ok |-> TRUE, chunks |-> g[n].chunks].ok /\ [ok |-> TRUE, chunks |-> g[n].chunks].chunks = g[n].chunks
    BY <2>5, Zenon
  <2> QED BY <2>4, <2>6, Zenon
<1>10. FlowInv(rows, n, acc) /\ \A d \in Direction : DirInv(rows, n, acc, d)
  BY <1>5, <1>6 DEF ExactInv
<1>11. \A i \in 1..n : rows[i].flow = TlsFlow
  BY <1>4, <1>10 DEF FlowInv
<1> HIDE DEF c, acc, n
<1>12. ASSUME NEW d \in Direction
       PROVE  Len(Stream(c, d)) \in Nat /\ Len(Stream(c, d)) <= Total[TlsFlow]
              /\ Stream(c, d) = Octets(1, Len(Stream(c, d)))
  <2> DEFINE m == acc.next[d]
             stream == Stream(c, d)
  <2>1. m \in Nat /\ Total[TlsFlow] \in Nat
    BY <1>7, UptoIs
  <2>2. DirInv(rows, n, acc, d)
    BY <1>10
  <2>3. CASE \A i \in 1..n : rows[i].dir # d
    <3>1. stream = <<>>
      BY <1>5, <2>2, <2>3 DEF DirInv
    <3>2. Octets(1, 0) = <<>> /\ Len(stream) = 0
      BY <3>1, OctetsMore
    <3> QED BY <2>1, <3>1, <3>2
  <2>4. CASE ~(\A i \in 1..n : rows[i].dir # d)
    <3>1. PICK f \in 1..n : rows[f].dir = d /\ LastOctet(rows[f]) < m /\ stream = Octets(rows[f].seq, m - 1)
      BY <1>5, <2>2, <2>4 DEF DirInv
    <3> DEFINE a == rows[f].seq
               b == m - 1
    <3>2. a \in Nat \ {0} /\ LastOctet(rows[f]) \in Nat /\ LastOctet(rows[f]) >= a
      BY <1>1, RowIs
    <3>3. b \in Nat /\ b >= a /\ b >= a - 1 /\ b - a + 1 \in Nat \ {0} /\ m # 0 /\ 1 \in 1..(b - a + 1) /\ a + 1 - 1 = a
      BY <2>1, <3>1, <3>2
    <3>4. stream = Octets(a, b)
      BY <3>1
    <3> HIDE DEF a, b, stream
    <3>5. Len(stream) = b - a + 1 /\ stream[1] = a /\ stream # <<>>
      BY <3>2, <3>3, <3>4, OctetsAre
    <3>6. a = 1
      BY <1>4, <3>5 DEF stream, c
    <3>7. Len(stream) = b /\ stream = Octets(1, Len(stream))
      BY <3>3, <3>4, <3>5, <3>6
    <3>8. b <= Total[TlsFlow]
      <4>1. PICK i \in 1..n : m = LastOctet(rows[i]) + 1
        BY <1>1, <1>2, <1>5, <3>3, NextRun DEF acc, n
      <4>2. LastOctet(rows[i]) <= Total[TlsFlow] /\ LastOctet(rows[i]) \in Nat
        BY <1>1, <1>11, RowIs
      <4> QED BY <2>1, <4>1, <4>2 DEF b
    <3> QED BY <3>3, <3>7, <3>8 DEF stream
  <2> QED BY <2>3, <2>4
<1>13. InStep(Bytes(c), L)
  <2>1. L \in [Direction -> Nat] /\ \A d \in Direction : L[d] = Len(Stream(c, d))
    BY <1>12
  <2> HIDE DEF L
  <2>2. ASSUME NEW d \in Direction
        PROVE  L[d] <= Total[TlsFlow] /\ Only(Bytes(c), Side(d)) = Tag(d, Octets(1, L[d]))
    BY <1>7, <1>12, <2>1, OnlyBytes
  <2> QED BY <2>1, <2>2 DEF InStep
<1> QED BY <1>5, <1>6, <1>7, <1>8, <1>9, <1>13 DEF c, acc

-----------------------------------------------------------------------------
(* Layout and opaque octets.                                               *)

Entry == [dir : Direction, record : AnyRecord, header : Nat, opaque : BOOLEAN, clear : Seq(Nat), length : Nat]
Encoding == [layout : Seq(Entry), opaque : Seq(Nat), active : [Direction -> BOOLEAN]]

EntryOf(r, o) ==
    [dir |-> r.dir, record |-> r.record, header |-> Head(r.data), opaque |-> o,
     clear |-> IF o THEN <<>> ELSE Tail(r.data), length |-> Len(Tail(r.data))]

Adds(acc, r, o) ==
    /\ o \in BOOLEAN /\ (o <=> r.record.type = "application" \/ acc.active[r.dir])
    /\ EncodeRecord(acc, r) =
          [layout |-> Append(acc.layout, EntryOf(r, o)),
           opaque |-> IF o THEN acc.opaque \o Tail(r.data) ELSE acc.opaque,
           active |-> IF r.record.type = "ccs" THEN [acc.active EXCEPT ![r.dir] = TRUE] ELSE acc.active]

LEMMA EntryIs ==
    ASSUME NEW s \in Sessions, NEW r \in Sending(s), NEW o \in BOOLEAN
    PROVE  /\ EntryOf(r, o) \in Entry /\ Head(r.data) \in Nat /\ Tail(r.data) \in Seq(Nat)
           /\ r.data = <<Head(r.data)>> \o Tail(r.data) /\ Len(Tail(r.data)) = r.record.len - 1
           /\ Len(Tail(r.data)) \in Nat
<1>1. r.dir \in Direction /\ r.record \in AnyRecord /\ r.data \in Seq(Nat) /\ Len(r.data) = r.record.len
      /\ Len(r.data) \in Nat \ {0}
  BY SendingIs
<1>2. Head(r.data) \in Nat /\ Tail(r.data) \in Seq(Nat) /\ Len(Tail(r.data)) = r.record.len - 1
      /\ Len(Tail(r.data)) \in Nat
  BY <1>1
<1>3. r.data = <<Head(r.data)>> \o Tail(r.data)
  BY <1>1
<1>4. (IF o THEN <<>> ELSE Tail(r.data)) \in Seq(Nat)
  BY <1>2
<1>5. EntryOf(r, o) \in Entry
  BY <1>1, <1>2, <1>4 DEF EntryOf, Entry
<1> QED BY <1>2, <1>3, <1>5

LEMMA EncodeIs ==
    ASSUME NEW s \in Sessions, NEW acc \in Encoding, NEW r \in Sending(s)
    PROVE  (\E o : Adds(acc, r, o)) /\ EncodeRecord(acc, r) \in Encoding
<1>1. acc.layout \in Seq(Entry) /\ acc.opaque \in Seq(Nat) /\ acc.active \in [Direction -> BOOLEAN]
  BY DEF Encoding
<1>2. r.dir \in Direction
  BY SendingIs
<1> DEFINE o == IsOpaque(r.record, acc.active[r.dir])
<1>3. o \in BOOLEAN /\ (o <=> r.record.type = "application" \/ acc.active[r.dir])
  BY <1>1, <1>2 DEF IsOpaque
<1>4. EncodeRecord(acc, r) =
          [layout |-> Append(acc.layout, EntryOf(r, o)),
           opaque |-> IF o THEN acc.opaque \o Tail(r.data) ELSE acc.opaque,
           active |-> IF r.record.type = "ccs" THEN [acc.active EXCEPT ![r.dir] = TRUE] ELSE acc.active]
  BY DEF EncodeRecord, EntryOf
<1> HIDE DEF o
<1>5. Adds(acc, r, o)
  BY <1>3, <1>4 DEF Adds
<1>6. EntryOf(r, o) \in Entry /\ Tail(r.data) \in Seq(Nat)
  BY <1>3, EntryIs
<1>7. Append(acc.layout, EntryOf(r, o)) \in Seq(Entry)
  BY <1>1, <1>6
<1>8. (IF o THEN acc.opaque \o Tail(r.data) ELSE acc.opaque) \in Seq(Nat)
  BY <1>1, <1>6, ConcatProperties
<1>9. (IF r.record.type = "ccs" THEN [acc.active EXCEPT ![r.dir] = TRUE] ELSE acc.active) \in [Direction -> BOOLEAN]
  BY <1>1
<1>10. EncodeRecord(acc, r) \in Encoding
  BY <1>4, <1>7, <1>8, <1>9 DEF Encoding
<1> QED BY <1>5, <1>10

Encoded(q) == FoldLeft(EncodeRecord, NothingEncoded, q)

EncodedFacts(session) ==
    /\ Encoded(<<>>) = NothingEncoded
    /\ \A s \in Seq(Sending(session)) : Encoded(s) \in Encoding
    /\ \A s \in Seq(Sending(session)), x \in Sending(session) :
          Encoded(Append(s, x)) =
             EncodeRecord(Encoded(s), x)

LEMMA EncodedUnfolds ==
    ASSUME NEW session \in Sessions
    PROVE  EncodedFacts(session)
<1> DEFINE Step(t, x) == EncodeRecord(t, x)
           T == Encoding
           E1 == Sending(session)
           b == NothingEncoded
           G == [p \in T \X E1 |-> Step(p[1], p[2])]
<1>1. b \in T
  <2>1. [d \in Direction |-> FALSE] \in [Direction -> BOOLEAN] /\ <<>> \in Seq(Entry) /\ <<>> \in Seq(Nat)
    OBVIOUS
  <2> QED BY <2>1 DEF NothingEncoded, Encoding
<1>2. \A t \in T, x \in E1 : Step(t, x) \in T
  BY EncodeIs
<1> HIDE DEF Step, T, E1, b
<1>3. \A t \in T, x \in E1 : On(G, t, x) = Step(t, x)
  BY <1>2 DEF On
<1>4. FoldFn(E1, T, G)
  BY <1>2 DEF FoldFn
<1> HIDE DEF G
<1>5. ASSUME NEW s \in Seq(E1) PROVE Encoded(s) = EndOf(s, b, T, G)
  <2> DEFINE len == Len(s)
             Eq(iter) == iter = [q \in SUBSET DOMAIN s |->
                           IF q = {} THEN b ELSE Step(iter[q \ {Max(q)}], s[Max(q)])]
             iter == CHOOSE iter : Eq(iter)
  <2>1. len \in Nat /\ DOMAIN s = 1..len /\ \A k \in 1..len : s[k] \in E1
    OBVIOUS
  <2>2. Encoded(s) = iter[1..len]
    BY <2>1 DEF Encoded, Step, b, FoldLeft, MapThenFoldSet
  <2> HIDE DEF len
  <2>3. PICK F : IterOf(F, s, b, T, G)
    BY <1>1, <1>4, IterExists
  <2>4. Eq(F)
    <3>0. F \in [SUBSET (1..len) -> T] /\ \A q \in SUBSET (1..len) :
            F[q] = IF q = {} THEN b ELSE On(G, F[q \ {Max(q)}], s[Max(q)])
      BY <2>3 DEF IterOf, len
    <3>1. ASSUME NEW q \in SUBSET (1..len), q # {}
          PROVE  On(G, F[q \ {Max(q)}], s[Max(q)]) = Step(F[q \ {Max(q)}], s[Max(q)])
      <4>1. Max(q) \in 1..len /\ F[q \ {Max(q)}] \in T
        BY <2>1, <3>0, <3>1, MaxIsIn
      <4> QED BY <1>3, <2>1, <4>1
    <3>2. F = [q \in SUBSET (1..len) |-> F[q]]
      BY <3>0
    <3> QED BY <2>1, <3>0, <3>1, <3>2
  <2>5. Eq(iter)
    BY <2>4, Zenon
  <2> HIDE DEF iter
  <2>6. iter[{}] = b
    BY <2>5
  <2>7. ASSUME NEW q \in SUBSET (1..len), q # {}, iter[q \ {Max(q)}] \in T
        PROVE  iter[q] = On(G, iter[q \ {Max(q)}], s[Max(q)])
    <3>1. Max(q) \in 1..len
      BY <2>1, <2>7, MaxIsIn
    <3>2. iter[q] = Step(iter[q \ {Max(q)}], s[Max(q)])
      BY <2>1, <2>5, <2>7
    <3> QED BY <1>3, <2>1, <2>7, <3>1, <3>2
  <2> HIDE DEF Eq
  <2>8. Iterates(iter, s, b, T, G)
    BY <2>6, <2>7 DEF Iterates, len
  <2>9. iter[1..Len(s)] = EndOf(s, b, T, G)
    BY <1>1, <1>4, <2>8, IterEnds
  <2> QED BY <2>2, <2>9 DEF len
<1>6. <<>> \in Seq(E1) /\ \A s \in Seq(E1), x \in E1 : Append(s, x) \in Seq(E1)
  OBVIOUS
<1>7. Unfolds(E1, b, T, G)
  BY <1>1, <1>4, EndUnfolds
<1>8. /\ EndOf(<<>>, b, T, G) = b
      /\ \A s \in Seq(E1) : EndOf(s, b, T, G) \in T
      /\ \A s \in Seq(E1), x \in E1 : EndOf(Append(s, x), b, T, G) = On(G, EndOf(s, b, T, G), x)
  BY <1>7 DEF Unfolds
<1>9. Encoded(<<>>) = b /\ \A s \in Seq(E1) : Encoded(s) \in T
  BY <1>5, <1>6, <1>8
<1>10. ASSUME NEW s \in Seq(E1), NEW x \in E1 PROVE Encoded(Append(s, x)) = Step(Encoded(s), x)
  <2>1. Encoded(Append(s, x)) = EndOf(Append(s, x), b, T, G) /\ Encoded(s) = EndOf(s, b, T, G)
    BY <1>5, <1>6
  <2> QED BY <1>3, <1>8, <2>1
<1> QED BY <1>9, <1>10 DEF EncodedFacts, Step, T, E1, b

\* Octets of protected fragments.
SealedOctets(q) == FoldLeft(LAMBDA n, r : IF r.record.sealed THEN n + r.record.len - 1 ELSE n, 0, q)

SealedFacts(session) ==
    /\ SealedOctets(<<>>) = 0
    /\ \A s \in Seq(Sending(session)) : SealedOctets(s) \in Nat
    /\ \A s \in Seq(Sending(session)), x \in Sending(session) :
          SealedOctets(Append(s, x)) =
             IF x.record.sealed THEN SealedOctets(s) + x.record.len - 1 ELSE SealedOctets(s)

LEMMA SealedUnfolds ==
    ASSUME NEW session \in Sessions
    PROVE  SealedFacts(session)
<1> DEFINE Step(t, x) == IF x.record.sealed THEN t + x.record.len - 1 ELSE t
           T == Nat
           E1 == Sending(session)
           b == 0
           G == [p \in T \X E1 |-> Step(p[1], p[2])]
<1>1. b \in T
  OBVIOUS
<1>2. \A t \in T, x \in E1 : Step(t, x) \in T
  <2>1. SUFFICES ASSUME NEW t \in T, NEW x \in E1 PROVE Step(t, x) \in T
    OBVIOUS
  <2>2. x.record.len \in Nat \ {0}
    BY SendingIs
  <2> QED BY <2>2
<1> HIDE DEF Step, T, E1, b
<1>3. \A t \in T, x \in E1 : On(G, t, x) = Step(t, x)
  BY <1>2 DEF On
<1>4. FoldFn(E1, T, G)
  BY <1>2 DEF FoldFn
<1> HIDE DEF G
<1>5. ASSUME NEW s \in Seq(E1) PROVE SealedOctets(s) = EndOf(s, b, T, G)
  <2> DEFINE len == Len(s)
             Eq(iter) == iter = [q \in SUBSET DOMAIN s |->
                           IF q = {} THEN b ELSE Step(iter[q \ {Max(q)}], s[Max(q)])]
             iter == CHOOSE iter : Eq(iter)
  <2>1. len \in Nat /\ DOMAIN s = 1..len /\ \A k \in 1..len : s[k] \in E1
    OBVIOUS
  <2>2. SealedOctets(s) = iter[1..len]
    BY <2>1 DEF SealedOctets, Step, b, FoldLeft, MapThenFoldSet
  <2> HIDE DEF len
  <2>3. PICK F : IterOf(F, s, b, T, G)
    BY <1>1, <1>4, IterExists
  <2>4. Eq(F)
    <3>0. F \in [SUBSET (1..len) -> T] /\ \A q \in SUBSET (1..len) :
            F[q] = IF q = {} THEN b ELSE On(G, F[q \ {Max(q)}], s[Max(q)])
      BY <2>3 DEF IterOf, len
    <3>1. ASSUME NEW q \in SUBSET (1..len), q # {}
          PROVE  On(G, F[q \ {Max(q)}], s[Max(q)]) = Step(F[q \ {Max(q)}], s[Max(q)])
      <4>1. Max(q) \in 1..len /\ F[q \ {Max(q)}] \in T
        BY <2>1, <3>0, <3>1, MaxIsIn
      <4> QED BY <1>3, <2>1, <4>1
    <3>2. F = [q \in SUBSET (1..len) |-> F[q]]
      BY <3>0
    <3> QED BY <2>1, <3>0, <3>1, <3>2
  <2>5. Eq(iter)
    BY <2>4, Zenon
  <2> HIDE DEF iter
  <2>6. iter[{}] = b
    BY <2>5
  <2>7. ASSUME NEW q \in SUBSET (1..len), q # {}, iter[q \ {Max(q)}] \in T
        PROVE  iter[q] = On(G, iter[q \ {Max(q)}], s[Max(q)])
    <3>1. Max(q) \in 1..len
      BY <2>1, <2>7, MaxIsIn
    <3>2. iter[q] = Step(iter[q \ {Max(q)}], s[Max(q)])
      BY <2>1, <2>5, <2>7
    <3> QED BY <1>3, <2>1, <2>7, <3>1, <3>2
  <2> HIDE DEF Eq
  <2>8. Iterates(iter, s, b, T, G)
    BY <2>6, <2>7 DEF Iterates, len
  <2>9. iter[1..Len(s)] = EndOf(s, b, T, G)
    BY <1>1, <1>4, <2>8, IterEnds
  <2> QED BY <2>2, <2>9 DEF len
<1>6. <<>> \in Seq(E1) /\ \A s \in Seq(E1), x \in E1 : Append(s, x) \in Seq(E1)
  OBVIOUS
<1>7. Unfolds(E1, b, T, G)
  BY <1>1, <1>4, EndUnfolds
<1>8. /\ EndOf(<<>>, b, T, G) = b
      /\ \A s \in Seq(E1) : EndOf(s, b, T, G) \in T
      /\ \A s \in Seq(E1), x \in E1 : EndOf(Append(s, x), b, T, G) = On(G, EndOf(s, b, T, G), x)
  BY <1>7 DEF Unfolds
<1>9. SealedOctets(<<>>) = b /\ \A s \in Seq(E1) : SealedOctets(s) \in T
  BY <1>5, <1>6, <1>8
<1>10. ASSUME NEW s \in Seq(E1), NEW x \in E1 PROVE SealedOctets(Append(s, x)) = Step(SealedOctets(s), x)
  <2>1. SealedOctets(Append(s, x)) = EndOf(Append(s, x), b, T, G) /\ SealedOctets(s) = EndOf(s, b, T, G)
    BY <1>5, <1>6
  <2> QED BY <1>3, <1>8, <2>1
<1> QED BY <1>9, <1>10 DEF SealedFacts, Step, T, E1, b

-----------------------------------------------------------------------------
\* Of each direction, the first records in their order.
InOrder(s, q) ==
    /\ q \in Seq(Sending(s))
    /\ \A d \in Direction : \E k \in 0..Len(s.records[d]) : Only(q, Of(d)) = SubSeq(Sent(s, d), 1, k)

\* r is the record after the first ones.
Next1(s, q, r, k) ==
    /\ k \in 1..Len(s.records[r.dir]) /\ r = Sent(s, r.dir)[k]
    /\ Only(q, Of(r.dir)) = SubSeq(Sent(s, r.dir), 1, k - 1)
    /\ Only(Append(q, r), Of(r.dir)) = SubSeq(Sent(s, r.dir), 1, k)

LEMMA PrefixIs ==
    ASSUME NEW s \in Sessions, NEW d \in Direction
    PROVE  /\ Len(s.records[d]) \in Nat
           /\ \A k \in 0..Len(s.records[d]) :
                 /\ SubSeq(Sent(s, d), 1, k) \in Seq(Got) /\ Len(SubSeq(Sent(s, d), 1, k)) = k
                 /\ \A i \in 1..k : SubSeq(Sent(s, d), 1, k)[i] = Sent(s, d)[i]
           /\ \A k \in 1..Len(s.records[d]) :
                 SubSeq(Sent(s, d), 1, k) = Append(SubSeq(Sent(s, d), 1, k - 1), Sent(s, d)[k])
<1> DEFINE n == Len(s.records[d])
           q == Sent(s, d)
<1>1. q \in Seq(Got) /\ Len(q) = n /\ n \in Nat
  BY SentIs, UptoIs
<1> HIDE DEF n, q
<1>2. \A k \in 0..n : SubSeq(q, 1, k) \in Seq(Got) /\ Len(SubSeq(q, 1, k)) = k /\ \A i \in 1..k : SubSeq(q, 1, k)[i] = q[i]
  <2>1. SUFFICES ASSUME NEW k \in 0..n
        PROVE  SubSeq(q, 1, k) \in Seq(Got) /\ Len(SubSeq(q, 1, k)) = k /\ \A i \in 1..k : SubSeq(q, 1, k)[i] = q[i]
    OBVIOUS
  <2>2. \A i \in 1..k : q[i] \in Got /\ 1 + i - 1 = i
    BY <1>1
  <2>3. k \in Nat /\ SubSeq(q, 1, k) = [i \in 1..k |-> q[i]]
    BY <1>1, <2>2
  <2> QED BY <2>2, <2>3
<1>3. \A k \in 1..n : SubSeq(q, 1, k) = Append(SubSeq(q, 1, k - 1), q[k])
  <2>1. SUFFICES ASSUME NEW k \in 1..n PROVE SubSeq(q, 1, k) = Append(SubSeq(q, 1, k - 1), q[k])
    OBVIOUS
  <2>2. k - 1 \in 0..n /\ k \in 0..n /\ k \in Nat /\ k - 1 \in Nat
    BY <1>1
  <2> DEFINE a == SubSeq(q, 1, k)
             b == SubSeq(q, 1, k - 1)
  <2>3. a \in Seq(Got) /\ Len(a) = k /\ b \in Seq(Got) /\ Len(b) = k - 1
        /\ \A i \in 1..k : a[i] = q[i]
    BY <1>2, <2>2
  <2>4. \A i \in 1..(k - 1) : b[i] = q[i]
    BY <1>2, <2>2
  <2> HIDE DEF a, b
  <2>5. q[k] \in Got
    BY <1>1
  <2> DEFINE c == Append(b, q[k])
  <2>6. c \in Seq(Got) /\ Len(c) = k /\ \A i \in 1..k : c[i] = IF i = k THEN q[k] ELSE b[i]
    BY <2>2, <2>3, <2>5
  <2> HIDE DEF c
  <2>7. \A i \in 1..k : c[i] = a[i]
    BY <2>2, <2>3, <2>4, <2>6
  <2>8. a = c
    BY <2>3, <2>6, <2>7, SeqEqual
  <2> QED BY <2>8 DEF a, b, c
<1> QED BY <1>1, <1>2, <1>3 DEF n, q

LEMMA InOrderLess ==
    ASSUME NEW s \in Sessions, NEW q \in Seq(Sending(s)), NEW r \in Sending(s), InOrder(s, Append(q, r))
    PROVE  /\ InOrder(s, q) /\ r.dir \in Direction /\ \E k : Next1(s, q, r, k)
           /\ \A d \in Direction \ {r.dir} : Only(Append(q, r), Of(d)) = Only(q, Of(d))
<1>1. r.dir \in Direction /\ r \in Got
  BY SendingIs
<1>2. \A d \in Direction :
         Only(Append(q, r), Of(d)) = IF r \in Of(d) THEN Append(Only(q, Of(d)), r) ELSE Only(q, Of(d))
  BY OnlyMore
<1>3. \A d \in Direction : r \in Of(d) <=> r.dir = d
  BY <1>1 DEF Of
<1>4. \A d \in Direction \ {r.dir} : Only(Append(q, r), Of(d)) = Only(q, Of(d))
  BY <1>2, <1>3
<1> DEFINE a == r.dir
           p == Only(q, Of(a))
           sending == Sent(s, a)
           n == Len(s.records[a])
<1>5. PICK k \in 0..n : Only(Append(q, r), Of(a)) = SubSeq(sending, 1, k)
  BY <1>1 DEF InOrder
<1>6. Append(p, r) = SubSeq(sending, 1, k)
  BY <1>1, <1>2, <1>3, <1>5
<1>7. p \in Seq(Got)
  <2>1. Sending(s) \subseteq Got
    BY SendingIs
  <2>2. p \in Seq(Sending(s))
    BY OnlyHolds
  <2> QED BY <2>1, <2>2
<1>8. n \in Nat /\ Len(SubSeq(sending, 1, k)) = k
  BY <1>1, <1>5, PrefixIs
<1>9. Len(p) \in Nat /\ Len(Append(p, r)) = Len(p) + 1
  BY <1>7
<1>10. k \in 1..n /\ k - 1 \in 0..n
  BY <1>6, <1>8, <1>9
<1>11. SubSeq(sending, 1, k) = Append(SubSeq(sending, 1, k - 1), sending[k]) /\ SubSeq(sending, 1, k - 1) \in Seq(Got)
       /\ sending[k] \in Got
  <2>1. sending \in Seq(Got) /\ Len(sending) = n
    BY <1>1, SentIs
  <2>2. sending[k] \in Got
    BY <1>10, <2>1
  <2> QED BY <1>1, <1>10, <2>2, PrefixIs
<1> HIDE DEF p, sending, n, a
<1>12. p = SubSeq(sending, 1, k - 1) /\ r = sending[k]
  BY <1>1, <1>6, <1>7, <1>11, AppendInjective
<1>13. Next1(s, q, r, k)
  BY <1>5, <1>10, <1>12 DEF p, sending, n, a, Next1
<1>14. InOrder(s, q)
  <2>1. SUFFICES ASSUME NEW d \in Direction
        PROVE  \E i \in 0..Len(s.records[d]) : Only(q, Of(d)) = SubSeq(Sent(s, d), 1, i)
    BY DEF InOrder
  <2>2. CASE d = a
    BY <1>10, <1>12, <2>2 DEF p, sending, n
  <2>3. CASE d # a
    <3>1. Only(Append(q, r), Of(d)) = Only(q, Of(d))
      BY <1>4, <2>3 DEF a
    <3> QED BY <3>1 DEF InOrder
  <2> QED BY <2>2, <2>3
<1> QED BY <1>1, <1>4, <1>13, <1>14

-----------------------------------------------------------------------------
\* No other hello is asked for; what follows ChangeCipherSpec and application
\* records are protected.
Protected(s) ==
    \A d \in Direction : \A i \in DOMAIN s.records[d] :
        LET r == s.records[d][i]
        IN  /\ r.message # "HelloRetryRequest"
            /\ r.sealed <=> \/ r.type = "application"
                           \/ \E j \in 1..(i - 1) : s.records[d][j].type = "ccs"

Changed(s, d, k) == \E j \in 1..k : s.records[d][j].type = "ccs"

SealsRight(s, q) ==
    LET end == Encoded(q)
    IN  /\ end \in Encoding
        /\ \A d \in Direction : \A k \in 0..Len(s.records[d]) :
              Only(q, Of(d)) = SubSeq(Sent(s, d), 1, k) => (end.active[d] <=> Changed(s, d, k))
        /\ \A e \in ToSet(end.layout) : e.opaque <=> e.record.sealed
        /\ Len(end.opaque) = SealedOctets(q) /\ SealedOctets(q) \in Nat

LEMMA SealsNone ==
    ASSUME NEW s \in Sessions
    PROVE  SealsRight(s, <<>>)
<1> DEFINE end == Encoded(<<>>)
<1>1. EncodedFacts(s) /\ SealedFacts(s)
  BY EncodedUnfolds, SealedUnfolds
<1>2. end = NothingEncoded /\ SealedOctets(<<>>) = 0 /\ <<>> \in Seq(Sending(s))
  BY <1>1 DEF EncodedFacts, SealedFacts
<1>3. end \in Encoding
  BY <1>1, <1>2 DEF EncodedFacts
<1>4. end.layout = <<>> /\ end.opaque = <<>> /\ end.active = [d \in Direction |-> FALSE]
  <2>1. NothingEncoded.layout = <<>> /\ NothingEncoded.opaque = <<>>
    BY DEF NothingEncoded
  <2>2. NothingEncoded.active = [d \in Direction |-> FALSE]
    BY DEF NothingEncoded
  <2> QED BY <1>2, <2>1, <2>2
<1> HIDE DEF end
<1>5. ToSet(end.layout) = {} /\ Len(end.opaque) = 0
  BY <1>4 DEF ToSet
<1>6. ASSUME NEW d \in Direction, NEW k \in 0..Len(s.records[d]), Only(<<>>, Of(d)) = SubSeq(Sent(s, d), 1, k)
      PROVE  end.active[d] <=> Changed(s, d, k)
  <2>1. Len(SubSeq(Sent(s, d), 1, k)) = k
    BY PrefixIs
  <2>2. k = 0
    BY <1>6, <2>1, OnlyNone
  <2>3. ~Changed(s, d, k)
    BY <2>2 DEF Changed
  <2>4. end.active[d] = FALSE
    BY <1>4
  <2> QED BY <2>3, <2>4
<1> QED BY <1>2, <1>3, <1>5, <1>6 DEF SealsRight, end

LEMMA SealsMore ==
    ASSUME NEW s \in Sessions, Protected(s), NEW q \in Seq(Sending(s)), NEW r \in Sending(s),
           InOrder(s, Append(q, r)), SealsRight(s, q)
    PROVE  SealsRight(s, Append(q, r))
<1> DEFINE acc == Encoded(q)
           end == Encoded(Append(q, r))
           d == r.dir
<1>1. EncodedFacts(s) /\ SealedFacts(s)
  BY EncodedUnfolds, SealedUnfolds
<1>2. acc \in Encoding /\ end = EncodeRecord(acc, r) /\ end \in Encoding
      /\ SealedOctets(q) \in Nat
      /\ SealedOctets(Append(q, r)) = IF r.record.sealed THEN SealedOctets(q) + r.record.len - 1 ELSE SealedOctets(q)
  <2>1. Append(q, r) \in Seq(Sending(s))
    OBVIOUS
  <2> QED BY <1>1, <2>1 DEF EncodedFacts, SealedFacts
<1>3. PICK o : Adds(acc, r, o)
  BY <1>2, EncodeIs
<1>4. PICK k : Next1(s, q, r, k)
  BY InOrderLess
<1>5. d \in Direction /\ r.record.len \in Nat \ {0} /\ (\A e \in Direction \ {d} : Only(Append(q, r), Of(e)) = Only(q, Of(e)))
  BY SendingIs, InOrderLess
<1>6. /\ k \in 1..Len(s.records[d]) /\ r = Sent(s, d)[k]
      /\ Only(q, Of(d)) = SubSeq(Sent(s, d), 1, k - 1)
      /\ Only(Append(q, r), Of(d)) = SubSeq(Sent(s, d), 1, k)
  BY <1>4 DEF Next1
<1>7. k - 1 \in 0..Len(s.records[d]) /\ k \in DOMAIN s.records[d] /\ r.record = s.records[d][k] /\ Len(s.records[d]) \in Nat
      /\ k \in 0..Len(s.records[d]) /\ k \in Nat
  <2> HIDE DEF d
  <2>1. Len(s.records[d]) \in Nat /\ DOMAIN s.records[d] = 1..Len(s.records[d])
    BY <1>5, UptoIs
  <2>2. r.record = s.records[d][k]
    <3>1. \A i \in 1..Len(s.records[d]) : Sent(s, d)[i].record = s.records[d][i]
      BY <1>5, SentIs
    <3> QED BY <1>6, <3>1
  <2> QED BY <1>6, <2>1, <2>2
<1>8. acc.active[d] <=> Changed(s, d, k - 1)
  BY <1>5, <1>6, <1>7 DEF SealsRight
<1>9. r.record.sealed <=> r.record.type = "application" \/ Changed(s, d, k - 1)
  BY <1>5, <1>7 DEF Protected, Changed
<1>10. o \in BOOLEAN /\ (o <=> r.record.sealed)
       /\ end = [layout |-> Append(acc.layout, EntryOf(r, o)),
                 opaque |-> IF o THEN acc.opaque \o Tail(r.data) ELSE acc.opaque,
                 active |-> IF r.record.type = "ccs" THEN [acc.active EXCEPT ![d] = TRUE] ELSE acc.active]
  BY <1>2, <1>3, <1>8, <1>9 DEF Adds
<1>11. acc.layout \in Seq(Entry) /\ acc.opaque \in Seq(Nat) /\ acc.active \in [Direction -> BOOLEAN]
  BY <1>2 DEF Encoding
<1>12. EntryOf(r, o) \in Entry /\ Tail(r.data) \in Seq(Nat) /\ Len(Tail(r.data)) = r.record.len - 1
  BY <1>10, EntryIs
<1>13. Len(acc.opaque) = SealedOctets(q) /\ \A e \in ToSet(acc.layout) : e.opaque <=> e.record.sealed
  BY DEF SealsRight
<1>14. end.layout = Append(acc.layout, EntryOf(r, o))
       /\ end.opaque = (IF o THEN acc.opaque \o Tail(r.data) ELSE acc.opaque)
       /\ end.active = (IF r.record.type = "ccs" THEN [acc.active EXCEPT ![d] = TRUE] ELSE acc.active)
  BY <1>10
<1>15. \A e \in ToSet(end.layout) : e.opaque <=> e.record.sealed
  <2>1. ToSet(end.layout) = ToSet(acc.layout) \union {EntryOf(r, o)}
    BY <1>11, <1>12, <1>14, AppendedSet
  <2>2. EntryOf(r, o).opaque = o /\ EntryOf(r, o).record = r.record
    BY DEF EntryOf
  <2> QED BY <1>10, <1>13, <2>1, <2>2
<1>16. Len(end.opaque) = SealedOctets(Append(q, r)) /\ SealedOctets(Append(q, r)) \in Nat
  <2>1. CASE o
    <3>1. end.opaque = acc.opaque \o Tail(r.data) /\ SealedOctets(Append(q, r)) = SealedOctets(q) + r.record.len - 1
      BY <1>2, <1>10, <1>14, <2>1
    <3>2. Len(end.opaque) = Len(acc.opaque) + Len(Tail(r.data))
      BY <1>11, <1>12, <3>1, ConcatProperties
    <3>3. \A a \in Nat, b \in Nat \ {0} : a + b - 1 = a + (b - 1) /\ a + (b - 1) \in Nat
      OBVIOUS
    <3> HIDE DEF acc, end, d
    <3> QED BY <1>2, <1>5, <1>12, <1>13, <3>1, <3>2, <3>3
  <2>2. CASE ~o
    BY <1>2, <1>10, <1>13, <1>14, <2>2
  <2> QED BY <1>10, <2>1, <2>2
<1> HIDE DEF acc, end, d
<1>17. ASSUME NEW e \in Direction, NEW m \in 0..Len(s.records[e]), Only(Append(q, r), Of(e)) = SubSeq(Sent(s, e), 1, m)
       PROVE  end.active[e] <=> Changed(s, e, m)
  <2>1. CASE e = d
    <3>1. m = k
      <4>1. Len(SubSeq(Sent(s, e), 1, m)) = m /\ Len(SubSeq(Sent(s, e), 1, k)) = k
        BY <1>7, <2>1, PrefixIs
      <4> QED BY <1>6, <1>17, <2>1, <4>1
    <3>2. Changed(s, d, k) <=> Changed(s, d, k - 1) \/ r.record.type = "ccs"
      <4>1. \A j : j \in 1..k <=> j \in 1..(k - 1) \/ j = k
        BY <1>6, <1>7
      <4> QED BY <1>7, <4>1 DEF Changed
    <3>3. end.active[d] <=> acc.active[d] \/ r.record.type = "ccs"
      BY <1>5, <1>11, <1>14
    <3> QED BY <1>8, <2>1, <3>1, <3>2, <3>3
  <2>2. CASE e # d
    <3>1. end.active[e] = acc.active[e]
      BY <1>5, <1>11, <1>14, <2>2
    <3>2. Only(q, Of(e)) = SubSeq(Sent(s, e), 1, m)
      BY <1>5, <1>17, <2>2
    <3> QED BY <3>1, <3>2 DEF SealsRight, acc
  <2> QED BY <2>1, <2>2
<1> QED BY <1>2, <1>15, <1>16, <1>17 DEF SealsRight, end

LEMMA Seals ==
    ASSUME NEW s \in Sessions, Protected(s), NEW q, InOrder(s, q)
    PROVE  SealsRight(s, q)
<1> DEFINE Good == {p \in Seq(Sending(s)) : InOrder(s, p) => SealsRight(s, p)}
<1>1. <<>> \in Good
  BY SealsNone
<1>2. ASSUME NEW p \in Seq(Sending(s)), NEW r \in Sending(s), p \in Good PROVE Append(p, r) \in Good
  <2>1. Append(p, r) \in Seq(Sending(s))
    OBVIOUS
  <2>2. ASSUME InOrder(s, Append(p, r)) PROVE SealsRight(s, Append(p, r))
    <3>1. InOrder(s, p)
      BY <2>2, InOrderLess
    <3>2. SealsRight(s, p)
      BY <1>2, <3>1
    <3> QED BY <2>2, <3>2, SealsMore
  <2> QED BY <2>1, <2>2
<1> HIDE DEF Good
<1>3. Seq(Sending(s)) \subseteq Good
  BY <1>1, <1>2, SeqInduction
<1> QED BY <1>3 DEF Good, InOrder

-----------------------------------------------------------------------------
(* The records of a capture in which no beginning is missing.              *)

Split(s) == split_tls_records(s, Extracted.chunks)

\* The stream of a direction is empty, or ends with some record.
EndsWith(s, d, k) == k \in 0..Len(s.records[d]) /\ Upto(s, d, k) = Len(Stream(Extracted.chunks, d))

LEMMA DirReadEnds ==
    ASSUME NEW s \in Sessions, NEW acc, NEW d \in Direction, NEW n \in Nat, NEW k, NEW j, DirRead(s, acc, d, n, k, j)
    PROVE  /\ acc.pending[d] = <<>> <=> j = 0
           /\ acc.pending[d] = <<>> /\ n # 0 => k # 0
           /\ (\E i \in 0..Len(s.records[d]) : Upto(s, d, i) = n) => acc.pending[d] = <<>>
<1> DEFINE m == Len(s.records[d])
           u == Upto(s, d, k)
<1>1. k \in 0..m /\ j \in Nat /\ n = u + j /\ (k = m => j = 0) /\ (k < m => j < s.records[d][k + 1].len)
      /\ acc.pending[d] = Octets(u + 1, u + j)
  BY DEF DirRead
<1>2. m \in Nat /\ u \in Nat /\ Upto(s, d, 0) = 0
  BY <1>1, UptoIs
<1>3. Len(Octets(u + 1, u + j)) = j /\ (j = 0 => Octets(u + 1, u + j) = <<>>)
  BY <1>1, <1>2, RunIs
<1>4. acc.pending[d] = <<>> <=> j = 0
  BY <1>1, <1>3
<1>5. acc.pending[d] = <<>> /\ n # 0 => k # 0
  BY <1>1, <1>2, <1>4
<1>6. ASSUME NEW i \in 0..m, Upto(s, d, i) = n PROVE j = 0
  <2>1. SUFFICES ASSUME j # 0 PROVE FALSE
    OBVIOUS
  <2>2. k < m /\ k + 1 \in 1..m /\ k + 1 \in 0..m /\ (k + 1) - 1 = k
    BY <1>1, <1>2, <2>1
  <2>3. Upto(s, d, k + 1) = u + s.records[d][k + 1].len /\ s.records[d][k + 1].len \in Nat
    BY <2>2, UptoIs
  <2>4. u < n /\ n < Upto(s, d, k + 1)
    BY <1>1, <1>2, <2>1, <2>2, <2>3
  <2>5. CASE i <= k
    <3>1. i < k => Upto(s, d, i) < u
      BY <1>1, <1>6, UptoGrows
    <3>2. i = k => Upto(s, d, i) = u
      OBVIOUS
    <3>3. Upto(s, d, i) <= u
      <4>1. i < k \/ i = k
        BY <1>1, <2>5
      <4> QED BY <1>2, <3>1, <3>2, <4>1, <1>6
    <3> QED BY <1>2, <1>6, <2>4, <3>3
  <2>6. CASE ~(i <= k)
    <3>1. k + 1 < i => Upto(s, d, k + 1) < Upto(s, d, i)
      BY <1>6, <2>2, UptoGrows
    <3>2. k + 1 < i \/ k + 1 = i
      BY <1>1, <1>6, <2>6
    <3>3. Upto(s, d, k + 1) \in Nat
      BY <2>2, UptoIs
    <3> QED BY <1>6, <2>4, <3>1, <3>2, <3>3
  <2> QED BY <2>5, <2>6
<1> QED BY <1>4, <1>5, <1>6

SplitFacts(s) ==
    LET split == Split(s)
    IN  /\ InOrder(s, split.records)
        /\ split_tls_records(s, _tcp_events(rows).chunks) = split
        /\ (\A d \in Direction : \E k : EndsWith(s, d, k)) => split.ok
        /\ split.ok => \A d \in Direction :
              Stream(Extracted.chunks, d) # <<>> =>
                 \E k \in 1..Len(s.records[d]) : Only(split.records, Of(d)) = SubSeq(Sent(s, d), 1, k)

LEMMA WholeSplit ==
    ASSUME Fit(rows), Whole, NEW s \in Sessions
    PROVE  SplitFacts(s)
<1> DEFINE c == Extracted.chunks
           b == Bytes(c)
           n == [d \in Direction |-> Len(Stream(c, d))]
           acc == ReadBytes(s, b)
           split == Split(s)
<1>1. c \in Seq(Chunk) /\ b \in Seq(Byte) /\ Bytes(_tcp_events(rows).chunks) = b /\ InStep(b, n)
  BY WholeIs
<1>2. split = [ok |-> ~acc.error /\ \A d \in Direction : acc.pending[d] = <<>>, records |-> acc.records]
  BY SplitIs DEF Split
<1>3. split_tls_records(s, _tcp_events(rows).chunks) = split
  <2> HIDE DEF b, c
  <2>1. \A x : split_tls_records(s, x) =
                 [ok |-> ~ReadBytes(s, Bytes(x)).error /\ \A d \in Direction : ReadBytes(s, Bytes(x)).pending[d] = <<>>,
                  records |-> ReadBytes(s, Bytes(x)).records]
    BY SplitIs
  <2> HIDE DEF split, acc
  <2>2. split_tls_records(s, _tcp_events(rows).chunks) =
           [ok |-> ~ReadBytes(s, b).error /\ \A d \in Direction : ReadBytes(s, b).pending[d] = <<>>,
            records |-> ReadBytes(s, b).records]
    BY <1>1, <2>1, Zenon
  <2> QED BY <1>2, <2>2, Zenon DEF acc
<1> HIDE DEF b, n
<1>4. ReadsOn(s, acc, n)
  BY <1>1, ReadInStep
<1> HIDE DEF acc, split, c
<1>5. ~acc.error /\ acc.records \in Seq(Sending(s)) /\ \A d \in Direction : \E k, j : DirRead(s, acc, d, n[d], k, j)
  BY <1>4 DEF ReadsOn
<1>6. split.records = acc.records
  BY <1>2
<1>7. split.ok <=> \A d \in Direction : acc.pending[d] = <<>>
  <2>1. split.ok = (~acc.error /\ \A d \in Direction : acc.pending[d] = <<>>)
    BY <1>2
  <2> QED BY <1>5, <2>1
<1>8. \A d \in Direction : n[d] = Len(Stream(c, d)) /\ Stream(c, d) \in Seq(Nat) /\ n[d] \in Nat
  <2>1. \A d \in Direction : n[d] = Len(Stream(c, d))
    BY DEF n
  <2>2. \A d \in Direction : Stream(c, d) \in Seq(Nat)
    BY <1>1, OnlyBytes
  <2>3. \A x \in Seq(Nat) : Len(x) \in Nat
    OBVIOUS
  <2> QED BY <2>1, <2>2, <2>3
<1>9. InOrder(s, split.records)
  <2>1. ASSUME NEW d \in Direction PROVE \E k \in 0..Len(s.records[d]) : Only(acc.records, Of(d)) = SubSeq(Sent(s, d), 1, k)
    BY <1>5 DEF DirRead
  <2> QED BY <1>5, <1>6, <2>1 DEF InOrder
<1>10. ASSUME \A d \in Direction : \E k : EndsWith(s, d, k) PROVE split.ok
  <2>1. SUFFICES ASSUME NEW d \in Direction PROVE acc.pending[d] = <<>>
    BY <1>7
  <2>2. PICK k, j : DirRead(s, acc, d, n[d], k, j)
    BY <1>5
  <2>3. \E i \in 0..Len(s.records[d]) : Upto(s, d, i) = n[d]
    BY <1>8, <1>10 DEF EndsWith, c
  <2> QED BY <1>8, <2>2, <2>3, DirReadEnds
<1>11. ASSUME split.ok, NEW d \in Direction, Stream(c, d) # <<>>
       PROVE  \E k \in 1..Len(s.records[d]) : Only(split.records, Of(d)) = SubSeq(Sent(s, d), 1, k)
  <2>1. PICK k, j : DirRead(s, acc, d, n[d], k, j)
    BY <1>5
  <2>2. n[d] # 0
    <3>1. \A x \in Seq(Nat) : x # <<>> => Len(x) # 0
      OBVIOUS
    <3> QED BY <1>8, <1>11, <3>1
  <2>3. k # 0
    BY <1>7, <1>8, <1>11, <2>1, <2>2, DirReadEnds
  <2>4. k \in 0..Len(s.records[d]) /\ Only(acc.records, Of(d)) = SubSeq(Sent(s, d), 1, k)
    BY <2>1 DEF DirRead
  <2>5. k \in 1..Len(s.records[d])
    BY <2>3, <2>4, UptoIs
  <2> QED BY <1>6, <2>4, <2>5
<1> QED BY <1>3, <1>9, <1>10, <1>11 DEF SplitFacts, split, c

-----------------------------------------------------------------------------
\* The records that came are among those of the session.
LEMMA CameFrom ==
    ASSUME NEW s \in Sessions, NEW q, InOrder(s, q), NEW r \in ToSet(q)
    PROVE  /\ r \in Sending(s) /\ r.dir \in Direction
           /\ \E i \in 1..Len(s.records[r.dir]) : r = Sent(s, r.dir)[i] /\ r.record = s.records[r.dir][i]
           /\ r.record \in ToSet(s.records[r.dir])
           /\ r \in ToSet(Only(q, Of(r.dir)))
<1>1. q \in Seq(Sending(s))
  BY DEF InOrder
<1>2. r \in Sending(s)
  BY <1>1 DEF ToSet
<1>3. r \in Got /\ r.dir \in Direction /\ \E i \in 1..Len(s.records[r.dir]) : r = Sent(s, r.dir)[i]
  BY <1>2, SendingIs
<1>4. PICK i \in 1..Len(s.records[r.dir]) : r = Sent(s, r.dir)[i]
  BY <1>3
<1>5. r.record = s.records[r.dir][i] /\ i \in DOMAIN s.records[r.dir]
  <2> DEFINE d == r.dir
  <2>1. d \in Direction /\ i \in 1..Len(s.records[d]) /\ r = Sent(s, d)[i]
    BY <1>3, <1>4
  <2> HIDE DEF d
  <2>2. DOMAIN s.records[d] = 1..Len(s.records[d]) /\ Sent(s, d)[i].record = s.records[d][i]
    <3>1. DOMAIN s.records[d] = 1..Len(s.records[d])
      BY <2>1, UptoIs
    <3>2. \A j \in 1..Len(s.records[d]) : Sent(s, d)[j].record = s.records[d][j]
      BY <2>1, SentIs
    <3> QED BY <2>1, <3>1, <3>2
  <2>3. r.record = s.records[d][i] /\ i \in DOMAIN s.records[d]
    BY <2>1, <2>2
  <2> QED BY <2>3 DEF d
<1>6. r.record \in ToSet(s.records[r.dir])
  BY <1>5 DEF ToSet
<1>7. r \in Of(r.dir)
  BY <1>3 DEF Of
<1>8. ToSet(Only(q, Of(r.dir))) = ToSet(q) \cap Of(r.dir)
  BY <1>1, OnlyHolds
<1> QED BY <1>2, <1>3, <1>4, <1>5, <1>6, <1>7, <1>8

\* The first record of a direction, if any came.
LEMMA FirstCame ==
    ASSUME NEW s \in Sessions, NEW q, InOrder(s, q), NEW d \in Direction, NEW k \in 1..Len(s.records[d]),
           Only(q, Of(d)) = SubSeq(Sent(s, d), 1, k)
    PROVE  Sent(s, d)[1] \in ToSet(q) /\ Sent(s, d)[1].record = s.records[d][1] /\ s.records[d][1].type = "handshake"
<1>1. q \in Seq(Sending(s))
  BY DEF InOrder
<1>2. Len(s.records[d]) \in Nat
  BY UptoIs
<1>3. 1 \in 1..k /\ k \in 0..Len(s.records[d]) /\ 1 \in 1..Len(s.records[d])
  BY <1>2
<1>4. Len(SubSeq(Sent(s, d), 1, k)) = k /\ SubSeq(Sent(s, d), 1, k)[1] = Sent(s, d)[1] /\ SubSeq(Sent(s, d), 1, k) \in Seq(Got)
  BY <1>3, PrefixIs
<1>5. Sent(s, d)[1] \in ToSet(Only(q, Of(d)))
  BY <1>3, <1>4 DEF ToSet
<1>6. ToSet(Only(q, Of(d))) \subseteq ToSet(q)
  <2>1. ToSet(Only(q, Of(d))) = ToSet(q) \cap Of(d)
    BY <1>1, OnlyHolds
  <2> QED BY <2>1
<1>7. Sent(s, d)[1].record = s.records[d][1]
  BY <1>3, SentIs
<1> QED BY <1>5, <1>6, <1>7, SessionIs

\* A ServerHello and no other demand: the session's records are protected.
LEMMA Answered ==
    ASSUME NEW s \in Sessions, NEW q, InOrder(s, q), NEW r \in ToSet(q), r.record.message = "ServerHello",
           \A x \in ToSet(q) : x.record.type = "handshake" => x.record.message # "HelloRetryRequest"
    PROVE  /\ Protected(s) /\ s.records[1][1].message = "ServerHello" /\ s.records[1][1].type = "handshake"
           /\ \E k \in 1..Len(s.records[1]) : Only(q, Of(1)) = SubSeq(Sent(s, 1), 1, k)
<1>1. r.dir \in Direction /\ r.record \in ToSet(s.records[r.dir]) /\ r \in ToSet(Only(q, Of(r.dir)))
  BY CameFrom
<1>2. 0 \in Direction /\ 1 \in Direction
  BY DEF Direction
<1>3. \A x \in ToSet(s.records[0]) : x.message \notin {"ServerHello", "HelloRetryRequest"}
  BY SessionsAssumption
<1>4. r.dir = 1
  <2>1. r.dir # 0
    BY <1>1, <1>3
  <2> QED BY <1>1, <2>1 DEF Direction
<1>5. PICK k \in 0..Len(s.records[1]) : Only(q, Of(1)) = SubSeq(Sent(s, 1), 1, k)
  BY <1>2 DEF InOrder
<1>6. k # 0
  <2>1. SUFFICES ASSUME k = 0 PROVE FALSE
    OBVIOUS
  <2>2. Len(SubSeq(Sent(s, 1), 1, k)) = 0 /\ SubSeq(Sent(s, 1), 1, k) \in Seq(Got)
    BY <1>2, <1>5, <2>1, PrefixIs
  <2>3. ToSet(Only(q, Of(1))) = {}
    BY <1>5, <2>2 DEF ToSet
  <2> QED BY <1>1, <1>4, <2>3
<1>7. k \in 1..Len(s.records[1])
  BY <1>2, <1>5, <1>6, UptoIs
<1>8. Sent(s, 1)[1] \in ToSet(q) /\ Sent(s, 1)[1].record = s.records[1][1] /\ s.records[1][1].type = "handshake"
  BY <1>2, <1>5, <1>7, FirstCame
<1>9. s.records[1][1].message # "HelloRetryRequest"
  BY <1>8
<1>10. s.records[1][1].message = "ServerHello" /\ Protected(s)
  BY <1>9, SessionsAssumption DEF Protected
<1> QED BY <1>5, <1>7, <1>8, <1>10

LEMMA HelloFacts ==
    ASSUME NEW q
    PROVE  validate(q) =>
              /\ \E r \in ToSet(q) : r.record.type = "handshake" /\ r.record.message = "ClientHello"
              /\ \E r \in ToSet(q) : r.record.type = "handshake" /\ r.record.message = "ServerHello"
              /\ \A x \in ToSet(q) : x.record.type = "handshake" => x.record.message # "HelloRetryRequest"
<1> DEFINE messages == {r.record.message : r \in {x \in ToSet(q) : x.record.type = "handshake"}}
<1>1. tls_hello_parameters(q) = [ok |-> "ClientHello" \in messages /\ "HelloRetryRequest" \notin messages,
                                 answered |-> "ServerHello" \in messages]
  BY DEF tls_hello_parameters
<1>2. validate(q) <=> "ClientHello" \in messages /\ "HelloRetryRequest" \notin messages /\ "ServerHello" \in messages
  <2> HIDE DEF messages
  <2>1. tls_hello_parameters(q).ok = ("ClientHello" \in messages /\ "HelloRetryRequest" \notin messages)
    BY <1>1
  <2>2. tls_hello_parameters(q).answered = ("ServerHello" \in messages)
    BY <1>1
  <2> QED BY <2>1, <2>2 DEF validate
<1> QED BY <1>2

\* Every capture of octets that either endpoint of the flow could have sent is
\* archived with the protected fragments among the opaque octets, and nothing
\* else there: _encode_tls_records never puts one into the compressed layout.
THEOREM LayoutShowsNoSecret == Spec => []OpaqueIsSealed
<1>1. ASSUME Fit(rows) PROVE OpaqueIsSealed
  <2>1. SUFFICES ASSUME Whole, NEW s \in Sessions, Split(s).ok, validate(Split(s).records)
        PROVE  LET encoded == _encode_tls_records(Split(s).records)
               IN  /\ \A e \in ToSet(encoded.layout) : e.opaque <=> e.record.sealed
                   /\ Len(encoded.opaque) =
                         FoldLeft(LAMBDA n, r : IF r.record.sealed THEN n + r.record.len - 1 ELSE n, 0, Split(s).records)
    BY DEF OpaqueIsSealed, Split
  <2> DEFINE q == Split(s).records
             end == Encoded(q)
  <2>2. InOrder(s, q)
    BY <1>1, <2>1, WholeSplit DEF SplitFacts
  <2> HIDE DEF q
  <2>3. validate(q)
    BY <2>1 DEF q
  <2>4. Protected(s)
    BY <2>2, <2>3, HelloFacts, Answered
  <2>5. SealsRight(s, q)
    BY <2>2, <2>4, Seals
  <2>6. (\A e \in ToSet(end.layout) : e.opaque <=> e.record.sealed) /\ Len(end.opaque) = SealedOctets(q)
    BY <2>5 DEF SealsRight
  <2>7. _encode_tls_records(q) = [layout |-> end.layout, opaque |-> end.opaque]
    BY DEF _encode_tls_records, Encoded
  <2> HIDE DEF end
  <2>8. (\A e \in ToSet(_encode_tls_records(q).layout) : e.opaque <=> e.record.sealed)
        /\ Len(_encode_tls_records(q).opaque) = SealedOctets(q)
    BY <2>6, <2>7
  <2> QED BY <2>8 DEF q, SealedOctets
<1>2. Spec => []Fit(rows)
  BY RowsFit
<1> QED BY <1>1, <1>2, PTL

-----------------------------------------------------------------------------
(* Chunks written to a synthetic PCAP and read back.                       *)

Piece == {x \in Chunk : x.data # <<>>}

LEMMA Quotient ==
    ASSUME NEW n \in Nat, NEW p \in Nat \ {0}
    PROVE  LET m == (n + p - 1) \div p
           IN  /\ m \in Nat /\ n <= m * p
               /\ \A i \in 1..m : (i - 1) * p < n /\ (i - 1) * p \in Nat /\ i * p \in Nat /\ i * p = (i - 1) * p + p
<1> DEFINE a == n + p - 1
           m == a \div p
<1>1. a \in Nat
  OBVIOUS
<1>2. \A x \in Nat, y \in Nat \ {0} : x \div y \in Nat /\ (x \div y) * y <= x /\ x < (x \div y) * y + y
  OBVIOUS
<1>3. m \in Nat /\ m * p <= a /\ a < m * p + p
  BY <1>1, <1>2
<1> HIDE DEF m
<1>4. \A x, y \in Nat : x * y \in Nat
  OBVIOUS
<1>5. n <= m * p
  BY <1>3, <1>4 DEF a
<1>6. ASSUME NEW i \in 1..m
      PROVE  (i - 1) * p < n /\ (i - 1) * p \in Nat /\ i * p \in Nat /\ i * p = (i - 1) * p + p
  <2>1. i - 1 \in Nat /\ i \in Nat /\ i <= m
    BY <1>3
  <2>2. i * p = (i - 1) * p + p
    BY <2>1
  <2>3. i * p <= m * p
    BY <1>3, <2>1
  <2>4. (i - 1) * p \in Nat /\ i * p \in Nat
    BY <1>4, <2>1
  <2> QED BY <1>3, <1>4, <2>2, <2>3, <2>4 DEF a
<1> QED BY <1>3, <1>5, <1>6 DEF m, a

\* The pieces of a chunk have its octets.
LEMMA PiecesAre ==
    ASSUME NEW x \in Chunk
    PROVE  Pieces(x) \in Seq(Piece) /\ Bytes(Pieces(x)) = Tag(x.dir, x.data)
<1> DEFINE d == x.dir
           data == x.data
           n == Len(data)
           p == PieceSize
           m == (n + p - 1) \div p
           End(i) == IF i * p < n THEN i * p ELSE n
           One(i) == [dir |-> d, data |-> SubSeq(data, (i - 1) * p + 1, End(i))]
<1>1. d \in Direction /\ data \in Seq(Nat) /\ n \in Nat /\ p \in Nat \ {0}
  BY ArchiveAssumption DEF Chunk
<1>2. Pieces(x) = [i \in 1..m |-> One(i)]
  BY DEF Pieces
<1> HIDE DEF d, data, n, p
<1>3. /\ m \in Nat /\ n <= m * p
      /\ \A i \in 1..m : (i - 1) * p < n /\ (i - 1) * p \in Nat /\ i * p \in Nat /\ i * p = (i - 1) * p + p
  BY <1>1, Quotient
<1> HIDE DEF m
<1>4. \A i \in 1..m : End(i) \in Nat /\ End(i) <= n /\ (i - 1) * p < End(i)
  BY <1>1, <1>3
<1> HIDE DEF End
<1>5. \A a, b \in Nat : a < b /\ b <= n =>
         SubSeq(data, a + 1, b) \in Seq(Nat) /\ Len(SubSeq(data, a + 1, b)) = b - a
         /\ \A j \in 1..(b - a) : SubSeq(data, a + 1, b)[j] = data[a + j]
  <2>1. SUFFICES ASSUME NEW a \in Nat, NEW b \in Nat, a < b, b <= n
        PROVE  SubSeq(data, a + 1, b) \in Seq(Nat) /\ Len(SubSeq(data, a + 1, b)) = b - a
               /\ \A j \in 1..(b - a) : SubSeq(data, a + 1, b)[j] = data[a + j]
    OBVIOUS
  <2>2. (a + 1)..b \subseteq 1..Len(data) /\ a + 1 \in Nat /\ b - (a + 1) + 1 = b - a
    BY <1>1, <2>1 DEF n
  <2>3. \A i \in (a + 1)..b : data[i] \in Nat
    BY <1>1, <2>2
  <2>4. Len(SubSeq(data, a + 1, b)) = b - a
    BY <1>1, <2>1, <2>2
  <2>5. \A j \in 1..(b - a) : SubSeq(data, a + 1, b)[j] = data[a + j]
    BY <1>1, <2>1, <2>2
  <2>6. SubSeq(data, a + 1, b) \in Seq(Nat)
    BY <1>1, <2>1, <2>2, <2>3, SubSeqProperties
  <2> QED BY <2>4, <2>5, <2>6
<1>6. \A i \in 1..m : One(i) \in Piece
  <2>1. SUFFICES ASSUME NEW i \in 1..m PROVE One(i) \in Piece
    OBVIOUS
  <2> DEFINE a == (i - 1) * p
             sub == SubSeq(data, a + 1, End(i))
  <2>2. a \in Nat /\ End(i) \in Nat /\ a < End(i) /\ End(i) <= n
    BY <1>3, <1>4
  <2> HIDE DEF a
  <2>3. sub \in Seq(Nat) /\ Len(sub) = End(i) - a
    BY <1>5, <2>2
  <2>4. sub # <<>>
    <3>1. \A z \in Seq(Nat) : Len(z) # 0 => z # <<>>
      OBVIOUS
    <3>2. End(i) - a # 0
      BY <2>2
    <3> QED BY <2>3, <3>1, <3>2
  <2>5. One(i) = [dir |-> d, data |-> sub]
    BY DEF a
  <2> HIDE DEF sub
  <2> QED BY <1>1, <2>3, <2>4, <2>5 DEF Piece, Chunk
<1>7. Pieces(x) \in Seq(Piece) /\ Len(Pieces(x)) = m /\ \A i \in 1..m : Pieces(x)[i] = One(i)
  BY <1>2, <1>3, <1>6
<1> DEFINE all == Pieces(x)
           Upto1(k) == IF k = 0 THEN 0 ELSE End(k)
           Good == {k \in 0..m : SubSeq(all, 1, k) \in Seq(Piece)
                                 /\ Bytes(SubSeq(all, 1, k)) = Tag(d, SubSeq(data, 1, Upto1(k)))}
<1> HIDE DEF all
<1>8. all \in Seq(Piece) /\ Len(all) = m /\ \A i \in 1..m : all[i] \in Piece /\ all[i] = One(i)
  BY <1>6, <1>7 DEF all
<1>9. 0 \in Good
  <2>1. SubSeq(all, 1, 0) = <<>> /\ SubSeq(data, 1, 0) = <<>> /\ 0 \in 0..m /\ <<>> \in Seq(Piece)
    BY <1>1, <1>3, <1>8
  <2> QED BY <2>1, BytesAre, TagNone
<1>10. ASSUME NEW k \in 1..m, k - 1 \in Good PROVE k \in Good
  <2> DEFINE q == SubSeq(all, 1, k - 1)
             a == (k - 1) * p
             b == End(k)
             sub == SubSeq(data, a + 1, b)
             one == One(k)
  <2>1. a \in Nat /\ b \in Nat /\ a < b /\ b <= n
    BY <1>3, <1>4
  <2>2. Upto1(k - 1) = a /\ Upto1(k) = b
    <3>1. Upto1(k) = b
      BY <1>3
    <3>2. CASE k = 1
      BY <3>2, <1>1
    <3>3. CASE k # 1
      <4>1. k - 1 \in 1..m /\ k - 1 # 0
        BY <3>3, <1>3
      <4>2. End(k - 1) = a
        <5>1. (k - 1) * p < n
          BY <1>3
        <5> QED BY <5>1 DEF End
      <4> QED BY <4>1, <4>2
    <3> QED BY <3>1, <3>2, <3>3
  <2>3. q \in Seq(Piece) /\ Bytes(q) = Tag(d, SubSeq(data, 1, a))
    BY <1>10, <2>2
  <2>4. SubSeq(all, 1, k) = Append(q, one) /\ one \in Piece
    <3>1. all[k] = one /\ one \in Piece
      BY <1>8
    <3>2. Len(q) = k - 1 /\ \A i \in 1..(k - 1) : q[i] = all[i]
      BY <1>3, <1>8
    <3>3. k \in Nat /\ Len(SubSeq(all, 1, k)) = k /\ \A i \in 1..k : SubSeq(all, 1, k)[i] = all[i]
      BY <1>3, <1>8
    <3>4. SubSeq(all, 1, k) \in Seq(Piece)
      BY <1>3, <1>8, SubSeqProperties
    <3> HIDE DEF one, q
    <3>5. Append(q, one) \in Seq(Piece) /\ Len(Append(q, one)) = k
          /\ \A i \in 1..k : Append(q, one)[i] = IF i = k THEN one ELSE q[i]
      BY <2>3, <3>1, <3>2, <3>3
    <3>6. \A i \in 1..k : Append(q, one)[i] = SubSeq(all, 1, k)[i]
      BY <3>1, <3>2, <3>3, <3>5
    <3>7. SubSeq(all, 1, k) = Append(q, one)
      BY <3>3, <3>4, <3>5, <3>6, SeqEqual
    <3> QED BY <3>1, <3>7
  <2>5. one.dir = d /\ one.data = sub
    OBVIOUS
  <2>6. sub \in Seq(Nat) /\ Len(sub) = b - a /\ \A j \in 1..(b - a) : sub[j] = data[a + j]
    BY <1>5, <2>1
  <2> HIDE DEF a, b
  <2>7. SubSeq(data, 1, a) \in Seq(Nat) /\ Len(SubSeq(data, 1, a)) = a
        /\ \A j \in 1..a : SubSeq(data, 1, a)[j] = data[j]
    <3>1. CASE a = 0
      BY <1>1, <3>1
    <3>2. CASE a # 0
      BY <1>1, <1>5, <2>1, <3>2, SubSeqProperties DEF n
    <3> QED BY <3>1, <3>2
  <2>8. SubSeq(data, 1, b) \in Seq(Nat) /\ Len(SubSeq(data, 1, b)) = b
        /\ \A j \in 1..b : SubSeq(data, 1, b)[j] = data[j]
    BY <1>1, <2>1, SubSeqProperties DEF n
  <2> DEFINE l == SubSeq(data, 1, a)
             r == SubSeq(data, 1, b)
  <2> HIDE DEF one, q, sub, l, r
  <2>9. r = l \o sub
    <3> DEFINE c == l \o sub
    <3>1. c \in Seq(Nat) /\ Len(c) = a + (b - a) /\ \A j \in 1..(a + (b - a)) : c[j] = IF j <= a THEN l[j] ELSE sub[j - a]
      BY <2>1, <2>6, <2>7, ConcatProperties DEF l
    <3> HIDE DEF c
    <3>2. a + (b - a) = b
      BY <2>1
    <3>3. \A j \in 1..b : c[j] = r[j]
      <4>1. SUFFICES ASSUME NEW j \in 1..b PROVE c[j] = r[j]
        OBVIOUS
      <4>2. CASE j <= a
        <5>1. j \in 1..a /\ j \in 1..(a + (b - a))
          BY <2>1, <4>2
        <5> QED BY <2>7, <2>8, <3>1, <4>2, <5>1 DEF l, r
      <4>3. CASE ~(j <= a)
        <5>1. j - a \in 1..(b - a) /\ a + (j - a) = j /\ j \in 1..(a + (b - a))
          BY <2>1, <4>3
        <5> QED BY <2>6, <2>8, <3>1, <4>3, <5>1 DEF r
      <4> QED BY <4>2, <4>3
    <3>4. r = c
      BY <2>8, <3>1, <3>2, <3>3, SeqEqual DEF r
    <3> QED BY <3>4 DEF c
  <2>10. Tag(d, r) = Tag(d, l) \o Tag(d, sub)
    BY <1>1, <2>6, <2>7, <2>9, TagConcat DEF l
  <2>11. q \in Seq(Chunk) /\ one \in Chunk
    BY <2>3, <2>4 DEF Piece
  <2>12. Bytes(Append(q, one)) = Tag(d, l) \o Tag(d, sub)
    BY <2>3, <2>5, <2>11, BytesAre DEF l
  <2>13. Append(q, one) \in Seq(Piece)
    BY <2>3, <2>4
  <2>14. SubSeq(data, 1, Upto1(k)) = r
    BY <2>2, Zenon DEF r
  <2>15. k \in 0..m
    BY <1>3
  <2> HIDE DEF Upto1
  <2>16. Bytes(SubSeq(all, 1, k)) = Tag(d, SubSeq(data, 1, Upto1(k))) /\ SubSeq(all, 1, k) \in Seq(Piece)
    BY <2>4, <2>10, <2>12, <2>13, <2>14
  <2> QED BY <2>15, <2>16
<1> HIDE DEF Good
<1>11. m \in Good
  <2>1. 0..m \subseteq Good /\ m \in 0..m
    BY <1>3, <1>9, <1>10, ChainInduction
  <2> QED BY <2>1
<1>12. SubSeq(all, 1, m) = all
  BY <1>3, <1>8
<1>13. Upto1(m) = n
  <2>1. CASE m = 0
    BY <1>1, <1>3, <2>1
  <2>2. CASE m # 0
    BY <1>1, <1>3, <2>2 DEF End
  <2> QED BY <2>1, <2>2
<1>14. SubSeq(data, 1, n) = data
  BY <1>1 DEF n
<1> QED BY <1>7, <1>11, <1>12, <1>13, <1>14 DEF Good, all, d, data

Cut(c) == FlattenSeq([i \in DOMAIN c |-> Pieces(c[i])])

LEMMA CutIs ==
    ASSUME NEW c \in Seq(Chunk)
    PROVE  Cut(c) \in Seq(Piece) /\ Bytes(Cut(c)) = Bytes(c)
<1> DEFINE F == [x \in Chunk |-> Pieces(x)]
           Good == {s \in Seq(Chunk) : Cut(s) \in Seq(Piece) /\ Bytes(Cut(s)) = Bytes(s)}
<1>1. F \in [Chunk -> Seq(Piece)] /\ \A x \in Chunk : F[x] = Pieces(x)
  BY PiecesAre
<1>2. \A s \in Seq(Chunk) : Cut(s) = FlattenSeq(Mapped(s, F))
  <2>1. SUFFICES ASSUME NEW s \in Seq(Chunk) PROVE Cut(s) = FlattenSeq(Mapped(s, F))
    OBVIOUS
  <2>2. [i \in DOMAIN s |-> Pieces(s[i])] = Mapped(s, F)
    BY <1>1 DEF Mapped
  <2> QED BY <2>2, Zenon DEF Cut
<1> HIDE DEF F
<1>3. FlattenFacts(Piece)
  BY FlattenUnfolds
<1>4. <<>> \in Good
  <2>1. <<>> \in Seq(Chunk) /\ <<>> \in Seq(Piece)
    OBVIOUS
  <2>2. Cut(<<>>) = FlattenSeq(Mapped(<<>>, F)) /\ Mapped(<<>>, F) = <<>>
    <3>1. Mapped(<<>>, F) = <<>>
      BY DEF Mapped
    <3> QED BY <1>2, <2>1, <3>1
  <2>3. FlattenSeq(<<>>) = <<>>
    BY <1>3 DEF FlattenFacts
  <2> QED BY <2>1, <2>2, <2>3
<1>5. ASSUME NEW s \in Seq(Chunk), NEW x \in Chunk, s \in Good PROVE Append(s, x) \in Good
  <2> DEFINE t == Append(s, x)
  <2>1. t \in Seq(Chunk)
    OBVIOUS
  <2>2. Mapped(s, F) \in Seq(Seq(Piece)) /\ Mapped(t, F) = Append(Mapped(s, F), F[x]) /\ F[x] \in Seq(Piece)
    <3> DEFINE D == Seq(Piece)
    <3>1. F \in [Chunk -> D]
      BY <1>1
    <3> HIDE DEF D
    <3>2. MapFacts(Chunk, D, F, s, x)
      BY <3>1, MapMore
    <3> QED BY <3>2 DEF D, MapFacts
  <2>3. FlattenSeq(Mapped(t, F)) = FlattenSeq(Mapped(s, F)) \o F[x]
    <3>1. \A u \in Seq(Seq(Piece)), v \in Seq(Piece) : FlattenSeq(Append(u, v)) = FlattenSeq(u) \o v
      BY <1>3 DEF FlattenFacts
    <3> QED BY <2>2, <3>1
  <2> HIDE DEF t
  <2>4. Cut(t) = Cut(s) \o Pieces(x)
    BY <1>1, <1>2, <2>1, <2>3
  <2>5. Cut(s) \in Seq(Piece) /\ Bytes(Cut(s)) = Bytes(s) /\ Pieces(x) \in Seq(Piece) /\ Bytes(Pieces(x)) = Tag(x.dir, x.data)
    BY <1>5, PiecesAre
  <2>6. Cut(t) \in Seq(Piece)
    BY <2>4, <2>5, ConcatProperties
  <2>7. Cut(s) \in Seq(Chunk) /\ Pieces(x) \in Seq(Chunk)
    BY <2>5 DEF Piece
  <2>8. Bytes(Cut(t)) = Bytes(Cut(s)) \o Bytes(Pieces(x))
    BY <2>4, <2>7, BytesConcat
  <2>9. Bytes(t) = Bytes(s) \o Tag(x.dir, x.data)
    BY BytesAre DEF t
  <2>10. Bytes(Cut(t)) = Bytes(t)
    BY <2>5, <2>8, <2>9
  <2> QED BY <2>1, <2>6, <2>10 DEF t
<1> HIDE DEF Good
<1>6. Seq(Chunk) \subseteq Good
  BY <1>4, <1>5, SeqInduction
<1> QED BY <1>6 DEF Good

WRow == {w \in [flow : {0}, dir : Direction, seq : Nat \ {0}, data : Seq(Nat)] : w.data # <<>>}
Writer == [rows : Seq(WRow), seq : [Direction -> Nat \ {0}]]

\* The row of a piece.
RowOf(acc, p) == [flow |-> 0, dir |-> p.dir, seq |-> acc.seq[p.dir], data |-> p.data]

LEMMA WritePieceIs ==
    ASSUME NEW acc \in Writer, NEW p \in Piece
    PROVE  /\ WritePiece(acc, p) \in Writer /\ RowOf(acc, p) \in WRow
           /\ WritePiece(acc, p) = [rows |-> Append(acc.rows, RowOf(acc, p)),
                                    seq |-> [acc.seq EXCEPT ![p.dir] = acc.seq[p.dir] + Len(p.data)]]
<1>1. acc.rows \in Seq(WRow) /\ acc.seq \in [Direction -> Nat \ {0}]
  BY DEF Writer
<1>2. p.dir \in Direction /\ p.data \in Seq(Nat) /\ p.data # <<>>
  BY DEF Piece, Chunk
<1>3. RowOf(acc, p) \in WRow
  BY <1>1, <1>2 DEF RowOf, WRow
<1>4. WritePiece(acc, p) = [rows |-> Append(acc.rows, RowOf(acc, p)),
                            seq |-> [acc.seq EXCEPT ![p.dir] = acc.seq[p.dir] + Len(p.data)]]
  BY DEF WritePiece, RowOf
<1>5. Append(acc.rows, RowOf(acc, p)) \in Seq(WRow)
  BY <1>1, <1>3
<1>6. Len(p.data) \in Nat
  BY <1>2
<1>7. [acc.seq EXCEPT ![p.dir] = acc.seq[p.dir] + Len(p.data)] \in [Direction -> Nat \ {0}]
  <2> DEFINE n == Len(p.data)
  <2> HIDE DEF n
  <2>1. n \in Nat
    BY <1>6 DEF n
  <2>2. acc.seq[p.dir] + n \in Nat \ {0}
    BY <1>1, <1>2, <2>1
  <2> QED BY <1>1, <1>2, <2>2 DEF n
<1> QED BY <1>3, <1>4, <1>5, <1>7 DEF Writer

Written(p) == FoldLeft(WritePiece, NothingWritten, p)

WrittenFacts ==
    /\ Written(<<>>) = NothingWritten
    /\ \A s \in Seq(Piece) : Written(s) \in Writer
    /\ \A s \in Seq(Piece), x \in Piece :
          Written(Append(s, x)) =
             WritePiece(Written(s), x)

LEMMA WrittenUnfolds == WrittenFacts
<1> DEFINE Step(t, x) == WritePiece(t, x)
           T == Writer
           E1 == Piece
           b == NothingWritten
           G == [p \in T \X E1 |-> Step(p[1], p[2])]
<1>1. b \in T
  <2>1. [d \in Direction |-> 1] \in [Direction -> Nat \ {0}] /\ <<>> \in Seq(WRow)
    OBVIOUS
  <2> QED BY <2>1 DEF NothingWritten, Writer
<1>2. \A t \in T, x \in E1 : Step(t, x) \in T
  BY WritePieceIs
<1> HIDE DEF Step, T, E1, b
<1>3. \A t \in T, x \in E1 : On(G, t, x) = Step(t, x)
  BY <1>2 DEF On
<1>4. FoldFn(E1, T, G)
  BY <1>2 DEF FoldFn
<1> HIDE DEF G
<1>5. ASSUME NEW s \in Seq(E1) PROVE Written(s) = EndOf(s, b, T, G)
  <2> DEFINE len == Len(s)
             Eq(iter) == iter = [q \in SUBSET DOMAIN s |->
                           IF q = {} THEN b ELSE Step(iter[q \ {Max(q)}], s[Max(q)])]
             iter == CHOOSE iter : Eq(iter)
  <2>1. len \in Nat /\ DOMAIN s = 1..len /\ \A k \in 1..len : s[k] \in E1
    OBVIOUS
  <2>2. Written(s) = iter[1..len]
    BY <2>1 DEF Written, Step, b, FoldLeft, MapThenFoldSet
  <2> HIDE DEF len
  <2>3. PICK F : IterOf(F, s, b, T, G)
    BY <1>1, <1>4, IterExists
  <2>4. Eq(F)
    <3>0. F \in [SUBSET (1..len) -> T] /\ \A q \in SUBSET (1..len) :
            F[q] = IF q = {} THEN b ELSE On(G, F[q \ {Max(q)}], s[Max(q)])
      BY <2>3 DEF IterOf, len
    <3>1. ASSUME NEW q \in SUBSET (1..len), q # {}
          PROVE  On(G, F[q \ {Max(q)}], s[Max(q)]) = Step(F[q \ {Max(q)}], s[Max(q)])
      <4>1. Max(q) \in 1..len /\ F[q \ {Max(q)}] \in T
        BY <2>1, <3>0, <3>1, MaxIsIn
      <4> QED BY <1>3, <2>1, <4>1
    <3>2. F = [q \in SUBSET (1..len) |-> F[q]]
      BY <3>0
    <3> QED BY <2>1, <3>0, <3>1, <3>2
  <2>5. Eq(iter)
    BY <2>4, Zenon
  <2> HIDE DEF iter
  <2>6. iter[{}] = b
    BY <2>5
  <2>7. ASSUME NEW q \in SUBSET (1..len), q # {}, iter[q \ {Max(q)}] \in T
        PROVE  iter[q] = On(G, iter[q \ {Max(q)}], s[Max(q)])
    <3>1. Max(q) \in 1..len
      BY <2>1, <2>7, MaxIsIn
    <3>2. iter[q] = Step(iter[q \ {Max(q)}], s[Max(q)])
      BY <2>1, <2>5, <2>7
    <3> QED BY <1>3, <2>1, <2>7, <3>1, <3>2
  <2> HIDE DEF Eq
  <2>8. Iterates(iter, s, b, T, G)
    BY <2>6, <2>7 DEF Iterates, len
  <2>9. iter[1..Len(s)] = EndOf(s, b, T, G)
    BY <1>1, <1>4, <2>8, IterEnds
  <2> QED BY <2>2, <2>9 DEF len
<1>6. <<>> \in Seq(E1) /\ \A s \in Seq(E1), x \in E1 : Append(s, x) \in Seq(E1)
  OBVIOUS
<1>7. Unfolds(E1, b, T, G)
  BY <1>1, <1>4, EndUnfolds
<1>8. /\ EndOf(<<>>, b, T, G) = b
      /\ \A s \in Seq(E1) : EndOf(s, b, T, G) \in T
      /\ \A s \in Seq(E1), x \in E1 : EndOf(Append(s, x), b, T, G) = On(G, EndOf(s, b, T, G), x)
  BY <1>7 DEF Unfolds
<1>9. Written(<<>>) = b /\ \A s \in Seq(E1) : Written(s) \in T
  BY <1>5, <1>6, <1>8
<1>10. ASSUME NEW s \in Seq(E1), NEW x \in E1 PROVE Written(Append(s, x)) = Step(Written(s), x)
  <2>1. Written(Append(s, x)) = EndOf(Append(s, x), b, T, G) /\ Written(s) = EndOf(s, b, T, G)
    BY <1>5, <1>6
  <2> QED BY <1>3, <1>8, <2>1
<1> QED BY <1>9, <1>10 DEF WrittenFacts, Step, T, E1, b

-----------------------------------------------------------------------------
(* The two loops over written rows.                                        *)

WAcc == [error : BOOLEAN, flow : {<<>>, <<0>>}, next : [Direction -> Nat], chunks : Seq(Chunk)]

LEMMA WRowIs ==
    ASSUME NEW w \in WRow
    PROVE  /\ w.flow = 0 /\ w.dir \in Direction /\ w.seq \in Nat \ {0} /\ w.data \in Seq(Nat) /\ w.data # <<>>
           /\ Len(w.data) \in Nat
<1>1. w.flow = 0 /\ w.dir \in Direction /\ w.seq \in Nat \ {0} /\ w.data \in Seq(Nat) /\ w.data # <<>>
  BY DEF WRow
<1> QED BY <1>1

LEMMA NovelTyped ==
    ASSUME NEW w \in WRow, NEW e \in Nat, ~(w.seq > e)
    PROVE  Novel(w, e) \in Seq(Nat) /\ (e = w.seq => Novel(w, e) = w.data)
<1> DEFINE data == w.data
           a == e - w.seq + 1
<1>1. w.seq \in Nat \ {0} /\ data \in Seq(Nat) /\ Len(data) \in Nat
  BY WRowIs
<1>2. a \in Nat \ {0}
  BY <1>1
<1>3. Novel(w, e) = SubSeq(data, a, Len(data))
  BY DEF Novel
<1> HIDE DEF data, a
<1>4. SubSeq(data, a, Len(data)) \in Seq(Nat)
  BY <1>1, <1>2, SubSeqProperties
<1>5. SubSeq(data, 1, Len(data)) = data
  BY <1>1
<1>6. e = w.seq => a = 1
  BY <1>1 DEF a
<1> QED BY <1>3, <1>4, <1>5, <1>6 DEF data

LEMMA WTyped ==
    ASSUME NEW acc \in WAcc, NEW w \in WRow
    PROVE  /\ acc.error \in BOOLEAN /\ acc.flow \in {<<>>, <<0>>} /\ acc.next \in [Direction -> Nat]
           /\ acc.chunks \in Seq(Chunk) /\ acc.next[w.dir] \in Nat
           /\ [acc EXCEPT !.error = TRUE] \in WAcc /\ Expected(acc, w) \in Nat
<1>1. acc.error \in BOOLEAN /\ acc.flow \in {<<>>, <<0>>} /\ acc.next \in [Direction -> Nat] /\ acc.chunks \in Seq(Chunk)
  BY DEF WAcc
<1>2. acc.next[w.dir] \in Nat /\ w.seq \in Nat
  BY <1>1, WRowIs
<1>3. [acc EXCEPT !.error = TRUE] \in WAcc
  BY DEF WAcc
<1> QED BY <1>1, <1>2, <1>3 DEF Expected

LEMMA ChunkRowWritten ==
    ASSUME NEW acc \in WAcc, NEW w \in WRow
    PROVE  /\ ChunkRow(acc, w) \in WAcc
           /\ ~acc.error /\ acc.next[w.dir] \in {0, w.seq} =>
                 LET new == ChunkRow(acc, w)
                 IN  /\ ~new.error /\ new.next = [acc.next EXCEPT ![w.dir] = w.seq + Len(w.data)]
                     /\ Bytes(new.chunks) = Bytes(acc.chunks) \o Tag(w.dir, w.data)
<1> DEFINE new == ChunkRow(acc, w)
           e == Expected(acc, w)
           novel == Novel(w, e)
           bad == acc.error \/ (acc.flow # <<>> /\ acc.flow # <<w.flow>>) \/ w.seq > e
           more == [error |-> FALSE, flow |-> <<w.flow>>,
                    next |-> [acc.next EXCEPT ![w.dir] = e + Len(novel)],
                    chunks |-> AddChunk(acc.chunks, w.dir, novel)]
<1>1. new = IF bad THEN [acc EXCEPT !.error = TRUE] ELSE IF novel = <<>> THEN acc ELSE more
  BY DEF ChunkRow, Expected
<1>2. /\ acc.error \in BOOLEAN /\ acc.flow \in {<<>>, <<0>>} /\ acc.next \in [Direction -> Nat]
      /\ acc.chunks \in Seq(Chunk) /\ acc.next[w.dir] \in Nat
      /\ [acc EXCEPT !.error = TRUE] \in WAcc /\ e \in Nat
  BY WTyped
<1>3. w.flow = 0 /\ w.dir \in Direction /\ w.seq \in Nat \ {0} /\ w.data \in Seq(Nat) /\ w.data # <<>>
  BY WRowIs
<1> HIDE DEF new, e
<1>4. ~bad => novel \in Seq(Nat)
  BY <1>2, NovelTyped
<1> HIDE DEF novel
<1>5. ASSUME novel \in Seq(Nat) PROVE more \in WAcc
  <2>1. AddChunk(acc.chunks, w.dir, novel) \in Seq(Chunk)
    BY <1>2, <1>3, <1>5, StreamAdd
  <2>2. [acc.next EXCEPT ![w.dir] = e + Len(novel)] \in [Direction -> Nat]
    <3>1. Len(novel) \in Nat
      BY <1>5
    <3> DEFINE n == Len(novel)
    <3> HIDE DEF n
    <3>2. n \in Nat /\ e + n \in Nat
      BY <1>2, <3>1 DEF n
    <3> QED BY <1>2, <1>3, <3>2 DEF n
  <2>3. <<w.flow>> \in {<<>>, <<0>>}
    BY <1>3
  <2> QED BY <2>1, <2>2, <2>3 DEF WAcc
<1>6. new \in WAcc
  <2> HIDE DEF more
  <2>1. CASE bad
    BY <1>1, <1>2, <2>1
  <2>2. CASE ~bad
    BY <1>1, <1>4, <1>5, <2>2
  <2> QED BY <2>1, <2>2
<1>7. ASSUME ~acc.error, acc.next[w.dir] \in {0, w.seq}
      PROVE  /\ ~new.error /\ new.next = [acc.next EXCEPT ![w.dir] = w.seq + Len(w.data)]
             /\ Bytes(new.chunks) = Bytes(acc.chunks) \o Tag(w.dir, w.data)
  <2>1. e = w.seq
    BY <1>7 DEF e, Expected
  <2>2. ~bad
    BY <1>2, <1>3, <1>7, <2>1
  <2>3. novel = w.data
    BY <1>2, <1>3, <2>1, NovelTyped DEF novel
  <2>4. new = more
    <3> HIDE DEF more
    <3> QED BY <1>1, <1>3, <2>2, <2>3
  <2>5. new = [error |-> FALSE, flow |-> <<w.flow>>,
               next |-> [acc.next EXCEPT ![w.dir] = w.seq + Len(w.data)],
               chunks |-> AddChunk(acc.chunks, w.dir, w.data)]
    BY <2>1, <2>3, <2>4
  <2>6. Bytes(AddChunk(acc.chunks, w.dir, w.data)) = Bytes(acc.chunks) \o Tag(w.dir, w.data)
    BY <1>2, <1>3, BytesAdd
  <2> QED BY <2>5, <2>6
<1> QED BY <1>6, <1>7 DEF new

LEMMA EventRowWritten ==
    ASSUME NEW acc \in WAcc, NEW w \in WRow
    PROVE  /\ EventRow(acc, w) \in WAcc
           /\ ~acc.error /\ acc.next[w.dir] \in {0, w.seq} =>
                 LET new == EventRow(acc, w)
                 IN  /\ ~new.error /\ new.next = [acc.next EXCEPT ![w.dir] = w.seq + Len(w.data)]
                     /\ Bytes(new.chunks) = Bytes(acc.chunks) \o Tag(w.dir, w.data)
<1> DEFINE new == EventRow(acc, w)
           m == acc.next[w.dir]
           payload == IF m = 0 THEN w.data ELSE Novel(w, m)
           start == IF m = 0 THEN w.seq ELSE m
           bad == acc.error \/ (m # 0 /\ w.seq > m)
           more == [error |-> FALSE, flow |-> acc.flow,
                    next |-> [acc.next EXCEPT ![w.dir] = start + Len(payload)],
                    chunks |-> Append(acc.chunks, [dir |-> w.dir, data |-> payload])]
<1>1. new = IF bad THEN [acc EXCEPT !.error = TRUE] ELSE IF payload = <<>> THEN acc ELSE more
  BY DEF EventRow
<1>2. /\ acc.error \in BOOLEAN /\ acc.flow \in {<<>>, <<0>>} /\ acc.next \in [Direction -> Nat]
      /\ acc.chunks \in Seq(Chunk) /\ m \in Nat
      /\ [acc EXCEPT !.error = TRUE] \in WAcc
  BY WTyped
<1>3. w.dir \in Direction /\ w.seq \in Nat \ {0} /\ w.data \in Seq(Nat) /\ w.data # <<>>
  BY WRowIs
<1> HIDE DEF new, m
<1>4. ~bad => payload \in Seq(Nat)
  <2>1. ~bad /\ m # 0 => Novel(w, m) \in Seq(Nat)
    BY <1>2, NovelTyped
  <2> QED BY <1>3, <2>1
<1>5. start \in Nat
  BY <1>2, <1>3
<1> HIDE DEF payload, start
<1>6. ASSUME payload \in Seq(Nat) PROVE more \in WAcc
  <2>1. [dir |-> w.dir, data |-> payload] \in Chunk
    BY <1>3, <1>6 DEF Chunk
  <2>2. Append(acc.chunks, [dir |-> w.dir, data |-> payload]) \in Seq(Chunk)
    BY <1>2, <2>1
  <2>3. [acc.next EXCEPT ![w.dir] = start + Len(payload)] \in [Direction -> Nat]
    <3>1. Len(payload) \in Nat
      BY <1>6
    <3> DEFINE n == Len(payload)
    <3> HIDE DEF n
    <3>2. n \in Nat /\ start + n \in Nat
      BY <1>5, <3>1 DEF n
    <3> QED BY <1>2, <1>3, <3>2 DEF n
  <2> QED BY <1>2, <2>2, <2>3 DEF WAcc
<1>7. new \in WAcc
  <2> HIDE DEF more
  <2>1. CASE bad
    BY <1>1, <1>2, <2>1
  <2>2. CASE ~bad
    BY <1>1, <1>4, <1>6, <2>2
  <2> QED BY <2>1, <2>2
<1>8. ASSUME ~acc.error, m \in {0, w.seq}
      PROVE  /\ ~new.error /\ new.next = [acc.next EXCEPT ![w.dir] = w.seq + Len(w.data)]
             /\ Bytes(new.chunks) = Bytes(acc.chunks) \o Tag(w.dir, w.data)
  <2>1. ~bad /\ start = w.seq
    BY <1>2, <1>3, <1>8 DEF start
  <2>2. payload = w.data
    <3>1. CASE m = 0
      BY <3>1 DEF payload
    <3>2. CASE m # 0
      <4>1. m = w.seq /\ ~(w.seq > m)
        BY <1>3, <1>8, <3>2
      <4>2. Novel(w, m) = w.data
        BY <1>2, <4>1, NovelTyped
      <4> QED BY <3>2, <4>2 DEF payload
    <3> QED BY <3>1, <3>2
  <2>3. new = more
    <3> HIDE DEF more, bad
    <3> QED BY <1>1, <1>3, <2>1, <2>2
  <2> DEFINE x == [dir |-> w.dir, data |-> w.data]
  <2>4. x \in Chunk /\ x.dir = w.dir /\ x.data = w.data
    BY <1>3 DEF Chunk
  <2>5. new = [error |-> FALSE, flow |-> acc.flow,
               next |-> [acc.next EXCEPT ![w.dir] = w.seq + Len(w.data)],
               chunks |-> Append(acc.chunks, x)]
    BY <2>1, <2>2, <2>3
  <2> HIDE DEF x
  <2>6. Bytes(Append(acc.chunks, x)) = Bytes(acc.chunks) \o Tag(w.dir, w.data)
    BY <1>2, <2>4, BytesAre
  <2> QED BY <2>5, <2>6
<1> QED BY <1>7, <1>8 DEF new, m

LEMMA FreshWritten == Fresh \in WAcc /\ ~Fresh.error /\ Fresh.chunks = <<>> /\ \A d \in Direction : Fresh.next[d] = 0
<1>1. [d \in Direction |-> 0] \in [Direction -> Nat] /\ <<>> \in Seq(Chunk) /\ <<>> \in {<<>>, <<0>>} /\ FALSE \in BOOLEAN
  OBVIOUS
<1>2. Fresh \in WAcc
  BY <1>1 DEF Fresh, WAcc
<1> QED BY <1>2, FreshIs

Extracting(w) == FoldLeft(ChunkRow, Fresh, w)
Eventing(f, w) == FoldLeft(LAMBDA acc, r : IF r.flow = f THEN EventRow(acc, r) ELSE acc, Fresh, w)

ExtractingFacts ==
    /\ Extracting(<<>>) = Fresh
    /\ \A s \in Seq(WRow) : Extracting(s) \in WAcc
    /\ \A s \in Seq(WRow), x \in WRow :
          Extracting(Append(s, x)) =
             ChunkRow(Extracting(s), x)

LEMMA ExtractingUnfolds == ExtractingFacts
<1> DEFINE Step(t, x) == ChunkRow(t, x)
           T == WAcc
           E1 == WRow
           b == Fresh
           G == [p \in T \X E1 |-> Step(p[1], p[2])]
<1>1. b \in T
  BY FreshWritten
<1>2. \A t \in T, x \in E1 : Step(t, x) \in T
  BY ChunkRowWritten
<1> HIDE DEF Step, T, E1, b
<1>3. \A t \in T, x \in E1 : On(G, t, x) = Step(t, x)
  BY <1>2 DEF On
<1>4. FoldFn(E1, T, G)
  BY <1>2 DEF FoldFn
<1> HIDE DEF G
<1>5. ASSUME NEW s \in Seq(E1) PROVE Extracting(s) = EndOf(s, b, T, G)
  <2> DEFINE len == Len(s)
             Eq(iter) == iter = [q \in SUBSET DOMAIN s |->
                           IF q = {} THEN b ELSE Step(iter[q \ {Max(q)}], s[Max(q)])]
             iter == CHOOSE iter : Eq(iter)
  <2>1. len \in Nat /\ DOMAIN s = 1..len /\ \A k \in 1..len : s[k] \in E1
    OBVIOUS
  <2>2. Extracting(s) = iter[1..len]
    BY <2>1 DEF Extracting, Step, b, FoldLeft, MapThenFoldSet
  <2> HIDE DEF len
  <2>3. PICK F : IterOf(F, s, b, T, G)
    BY <1>1, <1>4, IterExists
  <2>4. Eq(F)
    <3>0. F \in [SUBSET (1..len) -> T] /\ \A q \in SUBSET (1..len) :
            F[q] = IF q = {} THEN b ELSE On(G, F[q \ {Max(q)}], s[Max(q)])
      BY <2>3 DEF IterOf, len
    <3>1. ASSUME NEW q \in SUBSET (1..len), q # {}
          PROVE  On(G, F[q \ {Max(q)}], s[Max(q)]) = Step(F[q \ {Max(q)}], s[Max(q)])
      <4>1. Max(q) \in 1..len /\ F[q \ {Max(q)}] \in T
        BY <2>1, <3>0, <3>1, MaxIsIn
      <4> QED BY <1>3, <2>1, <4>1
    <3>2. F = [q \in SUBSET (1..len) |-> F[q]]
      BY <3>0
    <3> QED BY <2>1, <3>0, <3>1, <3>2
  <2>5. Eq(iter)
    BY <2>4, Zenon
  <2> HIDE DEF iter
  <2>6. iter[{}] = b
    BY <2>5
  <2>7. ASSUME NEW q \in SUBSET (1..len), q # {}, iter[q \ {Max(q)}] \in T
        PROVE  iter[q] = On(G, iter[q \ {Max(q)}], s[Max(q)])
    <3>1. Max(q) \in 1..len
      BY <2>1, <2>7, MaxIsIn
    <3>2. iter[q] = Step(iter[q \ {Max(q)}], s[Max(q)])
      BY <2>1, <2>5, <2>7
    <3> QED BY <1>3, <2>1, <2>7, <3>1, <3>2
  <2> HIDE DEF Eq
  <2>8. Iterates(iter, s, b, T, G)
    BY <2>6, <2>7 DEF Iterates, len
  <2>9. iter[1..Len(s)] = EndOf(s, b, T, G)
    BY <1>1, <1>4, <2>8, IterEnds
  <2> QED BY <2>2, <2>9 DEF len
<1>6. <<>> \in Seq(E1) /\ \A s \in Seq(E1), x \in E1 : Append(s, x) \in Seq(E1)
  OBVIOUS
<1>7. Unfolds(E1, b, T, G)
  BY <1>1, <1>4, EndUnfolds
<1>8. /\ EndOf(<<>>, b, T, G) = b
      /\ \A s \in Seq(E1) : EndOf(s, b, T, G) \in T
      /\ \A s \in Seq(E1), x \in E1 : EndOf(Append(s, x), b, T, G) = On(G, EndOf(s, b, T, G), x)
  BY <1>7 DEF Unfolds
<1>9. Extracting(<<>>) = b /\ \A s \in Seq(E1) : Extracting(s) \in T
  BY <1>5, <1>6, <1>8
<1>10. ASSUME NEW s \in Seq(E1), NEW x \in E1 PROVE Extracting(Append(s, x)) = Step(Extracting(s), x)
  <2>1. Extracting(Append(s, x)) = EndOf(Append(s, x), b, T, G) /\ Extracting(s) = EndOf(s, b, T, G)
    BY <1>5, <1>6
  <2> QED BY <1>3, <1>8, <2>1
<1> QED BY <1>9, <1>10 DEF ExtractingFacts, Step, T, E1, b

EventingFacts(f) ==
    /\ Eventing(f, <<>>) = Fresh
    /\ \A s \in Seq(WRow) : Eventing(f, s) \in WAcc
    /\ \A s \in Seq(WRow), x \in WRow :
          Eventing(f, Append(s, x)) =
             IF x.flow = f THEN EventRow(Eventing(f, s), x) ELSE Eventing(f, s)

LEMMA EventingUnfolds ==
    ASSUME NEW f
    PROVE  EventingFacts(f)
<1> DEFINE Step(t, x) == IF x.flow = f THEN EventRow(t, x) ELSE t
           T == WAcc
           E1 == WRow
           b == Fresh
           G == [p \in T \X E1 |-> Step(p[1], p[2])]
<1>1. b \in T
  BY FreshWritten
<1>2. \A t \in T, x \in E1 : Step(t, x) \in T
  BY EventRowWritten
<1> HIDE DEF Step, T, E1, b
<1>3. \A t \in T, x \in E1 : On(G, t, x) = Step(t, x)
  BY <1>2 DEF On
<1>4. FoldFn(E1, T, G)
  BY <1>2 DEF FoldFn
<1> HIDE DEF G
<1>5. ASSUME NEW s \in Seq(E1) PROVE Eventing(f, s) = EndOf(s, b, T, G)
  <2> DEFINE len == Len(s)
             Eq(iter) == iter = [q \in SUBSET DOMAIN s |->
                           IF q = {} THEN b ELSE Step(iter[q \ {Max(q)}], s[Max(q)])]
             iter == CHOOSE iter : Eq(iter)
  <2>1. len \in Nat /\ DOMAIN s = 1..len /\ \A k \in 1..len : s[k] \in E1
    OBVIOUS
  <2>2. Eventing(f, s) = iter[1..len]
    BY <2>1 DEF Eventing, Step, b, FoldLeft, MapThenFoldSet
  <2> HIDE DEF len
  <2>3. PICK F : IterOf(F, s, b, T, G)
    BY <1>1, <1>4, IterExists
  <2>4. Eq(F)
    <3>0. F \in [SUBSET (1..len) -> T] /\ \A q \in SUBSET (1..len) :
            F[q] = IF q = {} THEN b ELSE On(G, F[q \ {Max(q)}], s[Max(q)])
      BY <2>3 DEF IterOf, len
    <3>1. ASSUME NEW q \in SUBSET (1..len), q # {}
          PROVE  On(G, F[q \ {Max(q)}], s[Max(q)]) = Step(F[q \ {Max(q)}], s[Max(q)])
      <4>1. Max(q) \in 1..len /\ F[q \ {Max(q)}] \in T
        BY <2>1, <3>0, <3>1, MaxIsIn
      <4> QED BY <1>3, <2>1, <4>1
    <3>2. F = [q \in SUBSET (1..len) |-> F[q]]
      BY <3>0
    <3> QED BY <2>1, <3>0, <3>1, <3>2
  <2>5. Eq(iter)
    BY <2>4, Zenon
  <2> HIDE DEF iter
  <2>6. iter[{}] = b
    BY <2>5
  <2>7. ASSUME NEW q \in SUBSET (1..len), q # {}, iter[q \ {Max(q)}] \in T
        PROVE  iter[q] = On(G, iter[q \ {Max(q)}], s[Max(q)])
    <3>1. Max(q) \in 1..len
      BY <2>1, <2>7, MaxIsIn
    <3>2. iter[q] = Step(iter[q \ {Max(q)}], s[Max(q)])
      BY <2>1, <2>5, <2>7
    <3> QED BY <1>3, <2>1, <2>7, <3>1, <3>2
  <2> HIDE DEF Eq
  <2>8. Iterates(iter, s, b, T, G)
    BY <2>6, <2>7 DEF Iterates, len
  <2>9. iter[1..Len(s)] = EndOf(s, b, T, G)
    BY <1>1, <1>4, <2>8, IterEnds
  <2> QED BY <2>2, <2>9 DEF len
<1>6. <<>> \in Seq(E1) /\ \A s \in Seq(E1), x \in E1 : Append(s, x) \in Seq(E1)
  OBVIOUS
<1>7. Unfolds(E1, b, T, G)
  BY <1>1, <1>4, EndUnfolds
<1>8. /\ EndOf(<<>>, b, T, G) = b
      /\ \A s \in Seq(E1) : EndOf(s, b, T, G) \in T
      /\ \A s \in Seq(E1), x \in E1 : EndOf(Append(s, x), b, T, G) = On(G, EndOf(s, b, T, G), x)
  BY <1>7 DEF Unfolds
<1>9. Eventing(f, <<>>) = b /\ \A s \in Seq(E1) : Eventing(f, s) \in T
  BY <1>5, <1>6, <1>8
<1>10. ASSUME NEW s \in Seq(E1), NEW x \in E1 PROVE Eventing(f, Append(s, x)) = Step(Eventing(f, s), x)
  <2>1. Eventing(f, Append(s, x)) = EndOf(Append(s, x), b, T, G) /\ Eventing(f, s) = EndOf(s, b, T, G)
    BY <1>5, <1>6
  <2> QED BY <1>3, <1>8, <2>1
<1> QED BY <1>9, <1>10 DEF EventingFacts, Step, T, E1, b

Reached(acc, seqs, bytes) ==
    /\ acc \in WAcc /\ ~acc.error /\ Bytes(acc.chunks) = bytes
    /\ \A d \in Direction : acc.next[d] \in {0, seqs[d]}

ReadsBack(p) ==
    LET w == Written(p)
    IN  /\ w \in Writer /\ Reached(Extracting(w.rows), w.seq, Bytes(p)) /\ Reached(Eventing(0, w.rows), w.seq, Bytes(p))

\* A row keeps this of both loops.
LEMMA ReachedMore ==
    ASSUME NEW acc, NEW new \in WAcc, NEW w \in WRow, NEW seqs \in [Direction -> Nat \ {0}], NEW b,
           Reached(acc, seqs, b), w.seq = seqs[w.dir],
           ~acc.error /\ acc.next[w.dir] \in {0, w.seq} =>
               /\ ~new.error /\ new.next = [acc.next EXCEPT ![w.dir] = w.seq + Len(w.data)]
               /\ Bytes(new.chunks) = Bytes(acc.chunks) \o Tag(w.dir, w.data)
    PROVE  Reached(new, [seqs EXCEPT ![w.dir] = seqs[w.dir] + Len(w.data)], b \o Tag(w.dir, w.data))
<1>1. acc \in WAcc /\ ~acc.error /\ Bytes(acc.chunks) = b /\ \A d \in Direction : acc.next[d] \in {0, seqs[d]}
  BY DEF Reached
<1>2. w.dir \in Direction /\ acc.next \in [Direction -> Nat]
  BY <1>1, WRowIs, WTyped
<1>3. ~new.error /\ new.next = [acc.next EXCEPT ![w.dir] = w.seq + Len(w.data)]
      /\ Bytes(new.chunks) = b \o Tag(w.dir, w.data)
  BY <1>1, <1>2
<1> DEFINE t == [seqs EXCEPT ![w.dir] = seqs[w.dir] + Len(w.data)]
           m == w.seq + Len(w.data)
<1>4. t = [seqs EXCEPT ![w.dir] = m]
  OBVIOUS
<1> HIDE DEF t, m
<1>5. ASSUME NEW d \in Direction PROVE new.next[d] \in {0, t[d]}
  <2>1. new.next = [acc.next EXCEPT ![w.dir] = m]
    BY <1>3 DEF m
  <2>2. CASE d = w.dir
    BY <1>2, <1>4, <2>1, <2>2
  <2>3. CASE d # w.dir
    BY <1>1, <1>2, <1>4, <2>1, <2>3
  <2> QED BY <2>2, <2>3
<1> QED BY <1>3, <1>5 DEF Reached, t

LEMMA ReadsBackAll ==
    ASSUME NEW p \in Seq(Piece)
    PROVE  ReadsBack(p)
<1> DEFINE Good == {q \in Seq(Piece) : ReadsBack(q)}
<1>1. WrittenFacts /\ ExtractingFacts /\ EventingFacts(0)
  BY WrittenUnfolds, ExtractingUnfolds, EventingUnfolds
<1>2. /\ Written(<<>>) = NothingWritten /\ \A q \in Seq(Piece) : Written(q) \in Writer
      /\ \A q \in Seq(Piece), x \in Piece : Written(Append(q, x)) = WritePiece(Written(q), x)
  BY <1>1 DEF WrittenFacts
<1>3. /\ Extracting(<<>>) = Fresh /\ \A s \in Seq(WRow) : Extracting(s) \in WAcc
      /\ \A s \in Seq(WRow), x \in WRow : Extracting(Append(s, x)) = ChunkRow(Extracting(s), x)
  BY <1>1 DEF ExtractingFacts
<1>4. /\ Eventing(0, <<>>) = Fresh /\ \A s \in Seq(WRow) : Eventing(0, s) \in WAcc
      /\ \A s \in Seq(WRow), x \in WRow :
            Eventing(0, Append(s, x)) = IF x.flow = 0 THEN EventRow(Eventing(0, s), x) ELSE Eventing(0, s)
  BY <1>1 DEF EventingFacts
<1>5. <<>> \in Good
  <2>1. <<>> \in Seq(Piece) /\ NothingWritten.rows = <<>>
    BY DEF NothingWritten
  <2>2. Written(<<>>) \in Writer /\ Written(<<>>).rows = <<>>
    BY <1>2, <2>1
  <2>3. Reached(Fresh, NothingWritten.seq, Bytes(<<>>))
    BY FreshWritten DEF Reached
  <2> QED BY <1>2, <1>3, <1>4, <2>1, <2>2, <2>3 DEF ReadsBack
<1>6. ASSUME NEW q \in Seq(Piece), NEW x \in Piece, q \in Good PROVE Append(q, x) \in Good
  <2> DEFINE acc == Written(q)
             w == RowOf(acc, x)
             b == Bytes(q)
             s == acc.rows
             new == Written(Append(q, x))
             one == Extracting(Append(s, w))
             two == Eventing(0, Append(s, w))
  <2>1. acc \in Writer /\ Reached(Extracting(s), acc.seq, b) /\ Reached(Eventing(0, s), acc.seq, b)
    BY <1>6 DEF ReadsBack
  <2>2. new \in Writer /\ w \in WRow /\ new = [rows |-> Append(s, w), seq |-> [acc.seq EXCEPT ![x.dir] = acc.seq[x.dir] + Len(x.data)]]
    BY <1>2, <2>1, WritePieceIs
  <2>3. s \in Seq(WRow) /\ acc.seq \in [Direction -> Nat \ {0}]
    BY <2>1 DEF Writer
  <2>4. w.dir = x.dir /\ w.data = x.data /\ w.seq = acc.seq[w.dir] /\ w.flow = 0
    BY DEF RowOf
  <2>5. new.rows = Append(s, w) /\ new.seq = [acc.seq EXCEPT ![w.dir] = acc.seq[w.dir] + Len(w.data)]
    <3>1. new.rows = Append(s, w) /\ new.seq = [acc.seq EXCEPT ![x.dir] = acc.seq[x.dir] + Len(x.data)]
      <4> HIDE DEF w, s, acc, new
      <4> QED BY <2>2
    <3> QED BY <2>4, <3>1
  <2> HIDE DEF w, new, acc, s
  <2>6. Extracting(s) \in WAcc /\ one = ChunkRow(Extracting(s), w) /\ Eventing(0, s) \in WAcc /\ two = EventRow(Eventing(0, s), w)
    BY <1>3, <1>4, <2>2, <2>3, <2>4
  <2> HIDE DEF one, two
  <2>7. Append(q, x) \in Seq(Piece) /\ Bytes(Append(q, x)) = b \o Tag(w.dir, w.data)
    <3>1. q \in Seq(Chunk) /\ x \in Chunk
      BY DEF Piece
    <3>2. Bytes(Append(q, x)) = Bytes(q) \o Tag(x.dir, x.data)
      BY <3>1, BytesAre
    <3> QED BY <2>4, <3>2
  <2> HIDE DEF b
  <2>8. Reached(one, new.seq, b \o Tag(w.dir, w.data))
    <3>1. ChunkRow(Extracting(s), w) \in WAcc
          /\ (~Extracting(s).error /\ Extracting(s).next[w.dir] \in {0, w.seq} =>
                /\ ~ChunkRow(Extracting(s), w).error
                /\ ChunkRow(Extracting(s), w).next = [Extracting(s).next EXCEPT ![w.dir] = w.seq + Len(w.data)]
                /\ Bytes(ChunkRow(Extracting(s), w).chunks) = Bytes(Extracting(s).chunks) \o Tag(w.dir, w.data))
      BY <2>2, <2>6, ChunkRowWritten
    <3>2. Reached(ChunkRow(Extracting(s), w), [acc.seq EXCEPT ![w.dir] = acc.seq[w.dir] + Len(w.data)], b \o Tag(w.dir, w.data))
      BY <2>1, <2>2, <2>3, <2>4, <3>1, ReachedMore
    <3> QED BY <2>5, <2>6, <3>2
  <2>9. Reached(two, new.seq, b \o Tag(w.dir, w.data))
    <3>1. EventRow(Eventing(0, s), w) \in WAcc
          /\ (~Eventing(0, s).error /\ Eventing(0, s).next[w.dir] \in {0, w.seq} =>
                /\ ~EventRow(Eventing(0, s), w).error
                /\ EventRow(Eventing(0, s), w).next = [Eventing(0, s).next EXCEPT ![w.dir] = w.seq + Len(w.data)]
                /\ Bytes(EventRow(Eventing(0, s), w).chunks) = Bytes(Eventing(0, s).chunks) \o Tag(w.dir, w.data))
      BY <2>2, <2>6, EventRowWritten
    <3>2. Reached(EventRow(Eventing(0, s), w), [acc.seq EXCEPT ![w.dir] = acc.seq[w.dir] + Len(w.data)], b \o Tag(w.dir, w.data))
      BY <2>1, <2>2, <2>3, <2>4, <3>1, ReachedMore
    <3> QED BY <2>5, <2>6, <3>2
  <2>10. ReadsBack(Append(q, x))
    <3>1. one = Extracting(new.rows) /\ two = Eventing(0, new.rows)
      BY <2>5 DEF one, two
    <3>2. Reached(Extracting(new.rows), new.seq, Bytes(Append(q, x))) /\ Reached(Eventing(0, new.rows), new.seq, Bytes(Append(q, x)))
      BY <2>7, <2>8, <2>9, <3>1
    <3> QED BY <2>2, <3>2 DEF ReadsBack, new
  <2> QED BY <2>7, <2>10
<1> HIDE DEF Good
<1>7. Seq(Piece) \subseteq Good
  BY <1>5, <1>6, SeqInduction
<1> QED BY <1>7 DEF Good

\* What is written is read back, by both loops.
WriteBack(c) ==
    /\ write_pcap(c) \in Seq(WRow)
    /\ Bytes(_tcp_events(write_pcap(c)).chunks) = Bytes(c)
    /\ Bytes(extract_tcp_chunks(write_pcap(c)).chunks) = Bytes(c)
    /\ Bytes(c) # <<>> => extract_tcp_chunks(write_pcap(c)).ok

LEMMA WrittenBack ==
    ASSUME NEW c \in Seq(Chunk)
    PROVE  WriteBack(c)
<1> DEFINE p == Cut(c)
           w == Written(p).rows
           one == Extracting(w)
           two == Eventing(0, w)
<1>1. p \in Seq(Piece) /\ Bytes(p) = Bytes(c)
  BY CutIs
<1>2. write_pcap(c) = w
  BY DEF write_pcap, Written, Cut
<1> HIDE DEF p
<1>3. Written(p) \in Writer /\ Reached(one, Written(p).seq, Bytes(p)) /\ Reached(two, Written(p).seq, Bytes(p))
  BY <1>1, ReadsBackAll DEF ReadsBack
<1>4. w \in Seq(WRow)
  BY <1>3 DEF Writer
<1> HIDE DEF w
<1>5. ~one.error /\ Bytes(one.chunks) = Bytes(c) /\ Bytes(two.chunks) = Bytes(c)
  BY <1>1, <1>3 DEF Reached
<1>6. extract_tcp_chunks(w) = [ok |-> ~one.error /\ one.chunks # <<>>, chunks |-> one.chunks]
  BY DEF extract_tcp_chunks, Extracting
<1>7. extract_tcp_chunks(w).chunks = one.chunks
  BY <1>6
<1>8. Bytes(c) # <<>> => extract_tcp_chunks(w).ok
  <2>1. extract_tcp_chunks(w).ok = (~one.error /\ one.chunks # <<>>)
    BY <1>6
  <2>2. Bytes(<<>>) = <<>>
    BY BytesAre
  <2> HIDE DEF one
  <2> QED BY <1>5, <2>1, <2>2
<1>9. _tcp_events(w).chunks = two.chunks
  <2> DEFINE f == w[1].flow
  <2>1. _tcp_events(w) = [ok |-> ~Eventing(f, w).error /\ Eventing(f, w).chunks # <<>>, chunks |-> Eventing(f, w).chunks]
    BY DEF _tcp_events, Eventing, FoldLeft, MapThenFoldSet
  <2>2. _tcp_events(w).chunks = Eventing(f, w).chunks
    BY <2>1
  <2>3. CASE w = <<>>
    <3>1. EventingFacts(f) /\ EventingFacts(0)
      BY EventingUnfolds
    <3>2. Eventing(f, <<>>) = Fresh /\ Eventing(0, <<>>) = Fresh
      BY <3>1 DEF EventingFacts
    <3> QED BY <2>2, <2>3, <3>2
  <2>4. CASE w # <<>>
    <3>1. w[1] \in WRow
      BY <1>4, <2>4
    <3>2. f = 0
      BY <3>1, WRowIs
    <3> QED BY <2>2, <3>2
  <2> QED BY <2>3, <2>4
<1> HIDE DEF one, two
<1>10. Bytes(extract_tcp_chunks(w).chunks) = Bytes(c) /\ Bytes(_tcp_events(w).chunks) = Bytes(c)
  BY <1>5, <1>7, <1>9
<1> QED BY <1>2, <1>4, <1>8, <1>10 DEF WriteBack

-----------------------------------------------------------------------------
(* Layout and opaque octets read back.                                     *)

Decoding == [error : BOOLEAN, chunks : Seq(Chunk), opaque : Seq(Nat)]

LEMMA DecodeTyped ==
    ASSUME NEW acc \in Decoding, NEW e \in Entry
    PROVE  DecodeRecord(acc, e) \in Decoding
<1> DEFINE n == IF e.opaque THEN e.length ELSE 0
           m == Len(acc.opaque)
           fragment == IF e.opaque THEN SubSeq(acc.opaque, 1, n) ELSE e.clear
           left == SubSeq(acc.opaque, n + 1, m)
           x == [dir |-> e.dir, data |-> <<e.header>> \o fragment]
<1>1. acc.error \in BOOLEAN /\ acc.chunks \in Seq(Chunk) /\ acc.opaque \in Seq(Nat) /\ m \in Nat
  BY DEF Decoding
<1>2. e.dir \in Direction /\ e.header \in Nat /\ e.clear \in Seq(Nat) /\ e.length \in Nat /\ n \in Nat
  BY DEF Entry
<1>3. DecodeRecord(acc, e) = IF n > m THEN [acc EXCEPT !.error = TRUE]
                             ELSE [error |-> acc.error, chunks |-> Append(acc.chunks, x), opaque |-> left]
  BY DEF DecodeRecord
<1>4. [acc EXCEPT !.error = TRUE] \in Decoding
  BY DEF Decoding
<1> HIDE DEF n, m
<1>5. ASSUME ~(n > m) PROVE SubSeq(acc.opaque, 1, n) \in Seq(Nat) /\ left \in Seq(Nat)
  <2>1. n <= m /\ n + 1 \in Nat \ {0} /\ 1 \in Nat
    BY <1>1, <1>2, <1>5
  <2>2. m = Len(acc.opaque)
    BY DEF m
  <2> QED BY <1>1, <1>2, <2>1, <2>2, SubSeqProperties
<1>6. ASSUME ~(n > m) PROVE Append(acc.chunks, x) \in Seq(Chunk)
  <2>1. fragment \in Seq(Nat)
    BY <1>2, <1>5, <1>6
  <2> HIDE DEF fragment
  <2>2. <<e.header>> \in Seq(Nat)
    BY <1>2
  <2>3. <<e.header>> \o fragment \in Seq(Nat)
    BY <2>1, <2>2, ConcatProperties
  <2>4. x \in Chunk
    BY <1>2, <2>3 DEF Chunk
  <2> HIDE DEF x
  <2> QED BY <1>1, <2>4
<1> HIDE DEF x, left
<1>7. CASE n > m
  BY <1>3, <1>4, <1>7
<1>8. CASE ~(n > m)
  <2>1. left \in Seq(Nat)
    BY <1>5, <1>8
  <2> QED BY <1>1, <1>3, <1>6, <1>8, <2>1 DEF Decoding
<1> QED BY <1>7, <1>8

DecodingFacts(all) ==
    /\ _decode_tls_records(<<>>, all) = [error |-> FALSE, chunks |-> <<>>, opaque |-> all]
    /\ \A s \in Seq(Entry) : _decode_tls_records(s, all) \in Decoding
    /\ \A s \in Seq(Entry), x \in Entry :
          _decode_tls_records(Append(s, x), all) =
             DecodeRecord(_decode_tls_records(s, all), x)

LEMMA DecodingUnfolds ==
    ASSUME NEW all \in Seq(Nat)
    PROVE  DecodingFacts(all)
<1> DEFINE Step(t, x) == DecodeRecord(t, x)
           T == Decoding
           E1 == Entry
           b == [error |-> FALSE, chunks |-> <<>>, opaque |-> all]
           G == [p \in T \X E1 |-> Step(p[1], p[2])]
<1>1. b \in T
  <2>1. <<>> \in Seq(Chunk) /\ FALSE \in BOOLEAN
    OBVIOUS
  <2> QED BY <2>1 DEF Decoding
<1>2. \A t \in T, x \in E1 : Step(t, x) \in T
  BY DecodeTyped
<1> HIDE DEF Step, T, E1, b
<1>3. \A t \in T, x \in E1 : On(G, t, x) = Step(t, x)
  BY <1>2 DEF On
<1>4. FoldFn(E1, T, G)
  BY <1>2 DEF FoldFn
<1> HIDE DEF G
<1>5. ASSUME NEW s \in Seq(E1) PROVE _decode_tls_records(s, all) = EndOf(s, b, T, G)
  <2> DEFINE len == Len(s)
             Eq(iter) == iter = [q \in SUBSET DOMAIN s |->
                           IF q = {} THEN b ELSE Step(iter[q \ {Max(q)}], s[Max(q)])]
             iter == CHOOSE iter : Eq(iter)
  <2>1. len \in Nat /\ DOMAIN s = 1..len /\ \A k \in 1..len : s[k] \in E1
    OBVIOUS
  <2>2. _decode_tls_records(s, all) = iter[1..len]
    BY <2>1 DEF _decode_tls_records, Step, b, FoldLeft, MapThenFoldSet
  <2> HIDE DEF len
  <2>3. PICK F : IterOf(F, s, b, T, G)
    BY <1>1, <1>4, IterExists
  <2>4. Eq(F)
    <3>0. F \in [SUBSET (1..len) -> T] /\ \A q \in SUBSET (1..len) :
            F[q] = IF q = {} THEN b ELSE On(G, F[q \ {Max(q)}], s[Max(q)])
      BY <2>3 DEF IterOf, len
    <3>1. ASSUME NEW q \in SUBSET (1..len), q # {}
          PROVE  On(G, F[q \ {Max(q)}], s[Max(q)]) = Step(F[q \ {Max(q)}], s[Max(q)])
      <4>1. Max(q) \in 1..len /\ F[q \ {Max(q)}] \in T
        BY <2>1, <3>0, <3>1, MaxIsIn
      <4> QED BY <1>3, <2>1, <4>1
    <3>2. F = [q \in SUBSET (1..len) |-> F[q]]
      BY <3>0
    <3> QED BY <2>1, <3>0, <3>1, <3>2
  <2>5. Eq(iter)
    BY <2>4, Zenon
  <2> HIDE DEF iter
  <2>6. iter[{}] = b
    BY <2>5
  <2>7. ASSUME NEW q \in SUBSET (1..len), q # {}, iter[q \ {Max(q)}] \in T
        PROVE  iter[q] = On(G, iter[q \ {Max(q)}], s[Max(q)])
    <3>1. Max(q) \in 1..len
      BY <2>1, <2>7, MaxIsIn
    <3>2. iter[q] = Step(iter[q \ {Max(q)}], s[Max(q)])
      BY <2>1, <2>5, <2>7
    <3> QED BY <1>3, <2>1, <2>7, <3>1, <3>2
  <2> HIDE DEF Eq
  <2>8. Iterates(iter, s, b, T, G)
    BY <2>6, <2>7 DEF Iterates, len
  <2>9. iter[1..Len(s)] = EndOf(s, b, T, G)
    BY <1>1, <1>4, <2>8, IterEnds
  <2> QED BY <2>2, <2>9 DEF len
<1>6. <<>> \in Seq(E1) /\ \A s \in Seq(E1), x \in E1 : Append(s, x) \in Seq(E1)
  OBVIOUS
<1>7. Unfolds(E1, b, T, G)
  BY <1>1, <1>4, EndUnfolds
<1>8. /\ EndOf(<<>>, b, T, G) = b
      /\ \A s \in Seq(E1) : EndOf(s, b, T, G) \in T
      /\ \A s \in Seq(E1), x \in E1 : EndOf(Append(s, x), b, T, G) = On(G, EndOf(s, b, T, G), x)
  BY <1>7 DEF Unfolds
<1>9. _decode_tls_records(<<>>, all) = b /\ \A s \in Seq(E1) : _decode_tls_records(s, all) \in T
  BY <1>5, <1>6, <1>8
<1>10. ASSUME NEW s \in Seq(E1), NEW x \in E1 PROVE _decode_tls_records(Append(s, x), all) = Step(_decode_tls_records(s, all), x)
  <2>1. _decode_tls_records(Append(s, x), all) = EndOf(Append(s, x), b, T, G) /\ _decode_tls_records(s, all) = EndOf(s, b, T, G)
    BY <1>5, <1>6
  <2> QED BY <1>3, <1>8, <2>1
<1> QED BY <1>9, <1>10 DEF DecodingFacts, Step, T, E1, b

\* The entry of a record gives the record back.
LEMMA DecodeOne ==
    ASSUME NEW s \in Sessions, NEW r \in Sending(s), NEW o \in BOOLEAN, NEW acc \in Decoding, NEW rest \in Seq(Nat),
           acc.opaque = IF o THEN Tail(r.data) \o rest ELSE rest
    PROVE  DecodeRecord(acc, EntryOf(r, o)) =
              [error |-> acc.error, chunks |-> Append(acc.chunks, [dir |-> r.dir, data |-> r.data]), opaque |-> rest]
<1> DEFINE t == Tail(r.data)
           e == EntryOf(r, o)
           n == IF e.opaque THEN e.length ELSE 0
           m == Len(acc.opaque)
           fragment == IF e.opaque THEN SubSeq(acc.opaque, 1, n) ELSE e.clear
           left == SubSeq(acc.opaque, n + 1, m)
           x == [dir |-> e.dir, data |-> <<e.header>> \o fragment]
<1>1. DecodeRecord(acc, e) = IF n > m THEN [acc EXCEPT !.error = TRUE]
                             ELSE [error |-> acc.error, chunks |-> Append(acc.chunks, x), opaque |-> left]
  BY DEF DecodeRecord
<1>2. t \in Seq(Nat) /\ Len(t) \in Nat /\ r.data = <<Head(r.data)>> \o t
  BY EntryIs
<1>3. e.dir = r.dir /\ e.header = Head(r.data) /\ e.length = Len(t)
  BY DEF EntryOf
<1>4. e.opaque = o /\ e.clear = IF o THEN <<>> ELSE t
  BY DEF EntryOf
<1> HIDE DEF e, t
<1>5. ~(n > m) /\ fragment = t /\ left = rest
  <2>1. CASE o
    <3> DEFINE c == t \o rest
    <3>1. n = Len(t) /\ acc.opaque = c /\ fragment = SubSeq(c, 1, Len(t)) /\ left = SubSeq(c, Len(t) + 1, Len(c))
      BY <1>3, <1>4, <2>1 DEF t
    <3>2. c \in Seq(Nat) /\ Len(c) = Len(t) + Len(rest)
          /\ \A i \in 1..(Len(t) + Len(rest)) : c[i] = IF i <= Len(t) THEN t[i] ELSE rest[i - Len(t)]
      BY <1>2, ConcatProperties
    <3> DEFINE a == Len(t)
               b == Len(rest)
    <3> HIDE DEF c
    <3>3. a \in Nat /\ b \in Nat
      BY <1>2
    <3>4. SubSeq(c, 1, a) = t
      <4>1. SubSeq(c, 1, a) \in Seq(Nat) /\ Len(SubSeq(c, 1, a)) = a /\ \A i \in 1..a : SubSeq(c, 1, a)[i] = c[i]
        BY <3>2, <3>3, SubSeqProperties
      <4>2. \A i \in 1..a : c[i] = t[i]
        BY <3>2, <3>3
      <4> QED BY <1>2, <4>1, <4>2, SeqEqual
    <3>5. SubSeq(c, a + 1, Len(c)) = rest
      <4> DEFINE v == SubSeq(c, a + 1, Len(c))
      <4>1. v \in Seq(Nat) /\ Len(v) = b /\ \A i \in 1..b : v[i] = c[a + i]
        BY <3>2, <3>3, SubSeqProperties
      <4>2. \A i \in 1..b : c[a + i] = rest[i]
        <5>1. SUFFICES ASSUME NEW i \in 1..b PROVE c[a + i] = rest[i]
          OBVIOUS
        <5> HIDE DEF a, b
        <5>2. a + i \in 1..(a + b) /\ ~(a + i <= a) /\ (a + i) - a = i
          BY <3>3
        <5> QED BY <3>2, <5>2 DEF a, b
      <4> HIDE DEF v
      <4>3. v = rest
        BY <4>1, <4>2, SeqEqual
      <4> QED BY <4>3 DEF v
    <3>6. m = a + b
      BY <3>1, <3>2
    <3>7. ~(n > m)
      <4> HIDE DEF m, n, a, b
      <4>1. n = a
        BY <3>1 DEF a
      <4> QED BY <3>3, <3>6, <4>1
    <3> QED BY <3>1, <3>4, <3>5, <3>7
  <2>2. CASE ~o
    <3>1. n = 0 /\ acc.opaque = rest /\ fragment = t /\ left = SubSeq(rest, 1, Len(rest)) /\ m = Len(rest)
      BY <1>4, <2>2
    <3>2. Len(rest) \in Nat /\ SubSeq(rest, 1, Len(rest)) = rest
      OBVIOUS
    <3>3. left = rest
      BY <3>1, <3>2
    <3> HIDE DEF n, m, fragment, left
    <3>4. ~(n > m)
      BY <3>1, <3>2
    <3> QED BY <3>1, <3>3, <3>4
  <2> QED BY <2>1, <2>2
<1>6. x = [dir |-> r.dir, data |-> r.data]
  <2> HIDE DEF fragment
  <2> QED BY <1>2, <1>3, <1>5
<1> HIDE DEF n, m, fragment, left, x
<1> QED BY <1>1, <1>5, <1>6 DEF e

LEMMA DecodeEncode ==
    ASSUME NEW s \in Sessions, NEW q \in Seq(Sending(s))
    PROVE  /\ Encoded(q).layout \in Seq(Entry) /\ Encoded(q).opaque \in Seq(Nat)
           /\ \A rest \in Seq(Nat) :
                 _decode_tls_records(Encoded(q).layout, Encoded(q).opaque \o rest) =
                    [error |-> FALSE, chunks |-> Plain(q), opaque |-> rest]
<1> DEFINE R(v, rest) == [error |-> FALSE, chunks |-> Plain(v), opaque |-> rest]
           Ok(v) == \A rest \in Seq(Nat) :
                       _decode_tls_records(Encoded(v).layout, Encoded(v).opaque \o rest) = R(v, rest)
           Good == {v \in Seq(Sending(s)) : Ok(v)}
<1>1. EncodedFacts(s)
  BY EncodedUnfolds
<1>2. /\ Encoded(<<>>) = NothingEncoded
      /\ \A v \in Seq(Sending(s)) : Encoded(v) \in Encoding
      /\ \A v \in Seq(Sending(s)), r \in Sending(s) : Encoded(Append(v, r)) = EncodeRecord(Encoded(v), r)
  BY <1>1 DEF EncodedFacts
<1>3. \A all \in Seq(Nat) : DecodingFacts(all)
  BY DecodingUnfolds
<1>4. \A v \in Seq(Sending(s)) : Encoded(v).layout \in Seq(Entry) /\ Encoded(v).opaque \in Seq(Nat)
  BY <1>2 DEF Encoding
<1>5. <<>> \in Good
  <2>1. SUFFICES ASSUME NEW rest \in Seq(Nat)
        PROVE  _decode_tls_records(Encoded(<<>>).layout, Encoded(<<>>).opaque \o rest) = R(<<>>, rest)
    OBVIOUS
  <2>2. NothingEncoded.layout = <<>> /\ NothingEncoded.opaque = <<>>
    BY DEF NothingEncoded
  <2>3. Encoded(<<>>).layout = <<>> /\ Encoded(<<>>).opaque = <<>>
    BY <1>2, <2>2
  <2>4. <<>> \o rest = rest
    BY ConcatEmptySeq
  <2>5. DecodingFacts(rest)
    BY <1>3
  <2>6. _decode_tls_records(<<>>, rest) = [error |-> FALSE, chunks |-> <<>>, opaque |-> rest]
    BY <2>5 DEF DecodingFacts
  <2>7. Plain(<<>>) = <<>>
    BY DEF Plain
  <2> QED BY <2>3, <2>4, <2>6, <2>7
<1>6. ASSUME NEW v \in Seq(Sending(s)), NEW r \in Sending(s), v \in Good PROVE Append(v, r) \in Good
  <2> DEFINE acc == Encoded(v)
             end == Encoded(Append(v, r))
             t == Tail(r.data)
             y == [dir |-> r.dir, data |-> r.data]
  <2>1. acc \in Encoding /\ end = EncodeRecord(acc, r) /\ acc.layout \in Seq(Entry) /\ acc.opaque \in Seq(Nat)
    BY <1>2, <1>4
  <2>2. PICK o : Adds(acc, r, o)
    BY <2>1, EncodeIs
  <2>3. o \in BOOLEAN /\ end = [layout |-> Append(acc.layout, EntryOf(r, o)),
           opaque |-> IF o THEN acc.opaque \o Tail(r.data) ELSE acc.opaque,
           active |-> IF r.record.type = "ccs" THEN [acc.active EXCEPT ![r.dir] = TRUE] ELSE acc.active]
    BY <2>1, <2>2 DEF Adds
  <2>4. end.layout = Append(acc.layout, EntryOf(r, o)) /\ end.opaque = (IF o THEN acc.opaque \o t ELSE acc.opaque)
    BY <2>3
  <2>5. EntryOf(r, o) \in Entry /\ t \in Seq(Nat)
    BY <2>3, EntryIs
  <2>6. Plain(Append(v, r)) = Append(Plain(v), y) /\ Append(v, r) \in Seq(Sending(s)) /\ Plain(v) \in Seq(Chunk)
    BY PlainMore
  <2>7. Ok(v)
    BY <1>6
  <2> HIDE DEF acc, end, t, y
  <2>8. ASSUME NEW rest \in Seq(Nat)
        PROVE  _decode_tls_records(end.layout, end.opaque \o rest) = R(Append(v, r), rest)
    <3> DEFINE more == IF o THEN t \o rest ELSE rest
               all == acc.opaque \o more
               got == _decode_tls_records(acc.layout, all)
    <3>1. more \in Seq(Nat)
      BY <2>5, ConcatProperties
    <3>2. end.opaque \o rest = all
      <4>1. CASE o
        <5>1. end.opaque = acc.opaque \o t /\ more = t \o rest
          BY <2>4, <4>1
        <5>2. (acc.opaque \o t) \o rest = acc.opaque \o (t \o rest)
          <6> DEFINE u == acc.opaque
          <6>1. u \in Seq(Nat) /\ t \in Seq(Nat) /\ rest \in Seq(Nat)
            BY <2>1, <2>5
          <6> HIDE DEF u, more
          <6>2. (u \o t) \o rest = u \o (t \o rest)
            BY <6>1, Associates
          <6> QED BY <6>2 DEF u
        <5> HIDE DEF more
        <5> QED BY <5>1, <5>2
      <4>2. CASE ~o
        BY <2>4, <4>2
      <4> QED BY <4>1, <4>2
    <3> HIDE DEF more
    <3>3. all \in Seq(Nat)
      BY <2>1, <3>1, ConcatProperties
    <3>4. got = R(v, more)
      BY <2>7, <3>1 DEF acc
    <3> HIDE DEF all
    <3>5. DecodingFacts(all)
      BY <1>3, <3>3
    <3>6. _decode_tls_records(Append(acc.layout, EntryOf(r, o)), all) = DecodeRecord(got, EntryOf(r, o)) /\ got \in Decoding
      BY <2>1, <2>5, <3>5 DEF DecodingFacts
    <3> HIDE DEF got
    <3>7. got.opaque = more /\ got.error = FALSE /\ got.chunks = Plain(v)
      BY <3>4
    <3>8. DecodeRecord(got, EntryOf(r, o)) = [error |-> got.error, chunks |-> Append(got.chunks, y), opaque |-> rest]
      BY <2>3, <3>6, <3>7, DecodeOne DEF more, t, y
    <3> QED BY <2>4, <2>6, <3>2, <3>6, <3>7, <3>8
  <2> QED BY <2>6, <2>8 DEF end
<1> HIDE DEF Good
<1>7. Seq(Sending(s)) \subseteq Good
  BY <1>5, <1>6, SeqInduction
<1> QED BY <1>4, <1>7 DEF Good

-----------------------------------------------------------------------------
(* The archive of a session.                                               *)

Pcaps == [error : BOOLEAN, pcaps : Seq(Seq(WRow)), opaque : Seq(Nat)]

LEMMA PcapsTyped ==
    ASSUME NEW acc \in Pcaps, NEW l \in Seq(Entry)
    PROVE  MaterializePcap(acc, l) \in Pcaps
<1> DEFINE read == _decode_tls_records(l, acc.opaque)
<1>1. acc.error \in BOOLEAN /\ acc.pcaps \in Seq(Seq(WRow)) /\ acc.opaque \in Seq(Nat)
  BY DEF Pcaps
<1>2. read \in Decoding
  <2>1. DecodingFacts(acc.opaque)
    BY <1>1, DecodingUnfolds
  <2> QED BY <2>1 DEF DecodingFacts
<1> HIDE DEF read
<1>3. read.chunks \in Seq(Chunk) /\ read.opaque \in Seq(Nat)
  BY <1>2 DEF Decoding
<1>4. write_pcap(read.chunks) \in Seq(WRow)
  BY <1>3, WrittenBack DEF WriteBack
<1>5. MaterializePcap(acc, l) = IF read.error THEN [acc EXCEPT !.error = TRUE]
                                ELSE [error |-> acc.error, pcaps |-> Append(acc.pcaps, write_pcap(read.chunks)),
                                      opaque |-> read.opaque]
  BY DEF MaterializePcap, read, Taken
<1>6. [acc EXCEPT !.error = TRUE] \in Pcaps
  BY DEF Pcaps
<1> DEFINE D == Seq(WRow)
<1>7. Append(acc.pcaps, write_pcap(read.chunks)) \in Seq(D)
  <2> HIDE DEF D
  <2>1. acc.pcaps \in Seq(D) /\ write_pcap(read.chunks) \in D
    BY <1>1, <1>4 DEF D
  <2> QED BY <2>1
<1>8. [error |-> acc.error, pcaps |-> Append(acc.pcaps, write_pcap(read.chunks)), opaque |-> read.opaque] \in Pcaps
  BY <1>1, <1>3, <1>7 DEF Pcaps
<1> QED BY <1>5, <1>6, <1>8

Materialized(all, layouts) == FoldLeft(MaterializePcap, [error |-> FALSE, pcaps |-> <<>>, opaque |-> all], layouts)

MaterializedFacts(all) ==
    /\ Materialized(all, <<>>) = [error |-> FALSE, pcaps |-> <<>>, opaque |-> all]
    /\ \A s \in Seq(Seq(Entry)) : Materialized(all, s) \in Pcaps
    /\ \A s \in Seq(Seq(Entry)), x \in Seq(Entry) :
          Materialized(all, Append(s, x)) =
             MaterializePcap(Materialized(all, s), x)

LEMMA MaterializedUnfolds ==
    ASSUME NEW all \in Seq(Nat)
    PROVE  MaterializedFacts(all)
<1> DEFINE Step(t, x) == MaterializePcap(t, x)
           T == Pcaps
           E1 == Seq(Entry)
           b == [error |-> FALSE, pcaps |-> <<>>, opaque |-> all]
           G == [p \in T \X E1 |-> Step(p[1], p[2])]
<1>1. b \in T
  <2>1. <<>> \in Seq(Seq(WRow)) /\ FALSE \in BOOLEAN
    OBVIOUS
  <2> QED BY <2>1 DEF Pcaps
<1>2. \A t \in T, x \in E1 : Step(t, x) \in T
  BY PcapsTyped
<1> HIDE DEF Step, T, E1, b
<1>3. \A t \in T, x \in E1 : On(G, t, x) = Step(t, x)
  BY <1>2 DEF On
<1>4. FoldFn(E1, T, G)
  BY <1>2 DEF FoldFn
<1> HIDE DEF G
<1>5. ASSUME NEW s \in Seq(E1) PROVE Materialized(all, s) = EndOf(s, b, T, G)
  <2> DEFINE len == Len(s)
             Eq(iter) == iter = [q \in SUBSET DOMAIN s |->
                           IF q = {} THEN b ELSE Step(iter[q \ {Max(q)}], s[Max(q)])]
             iter == CHOOSE iter : Eq(iter)
  <2>1. len \in Nat /\ DOMAIN s = 1..len /\ \A k \in 1..len : s[k] \in E1
    OBVIOUS
  <2>2. Materialized(all, s) = iter[1..len]
    BY <2>1 DEF Materialized, Step, b, FoldLeft, MapThenFoldSet
  <2> HIDE DEF len
  <2>3. PICK F : IterOf(F, s, b, T, G)
    BY <1>1, <1>4, IterExists
  <2>4. Eq(F)
    <3>0. F \in [SUBSET (1..len) -> T] /\ \A q \in SUBSET (1..len) :
            F[q] = IF q = {} THEN b ELSE On(G, F[q \ {Max(q)}], s[Max(q)])
      BY <2>3 DEF IterOf, len
    <3>1. ASSUME NEW q \in SUBSET (1..len), q # {}
          PROVE  On(G, F[q \ {Max(q)}], s[Max(q)]) = Step(F[q \ {Max(q)}], s[Max(q)])
      <4>1. Max(q) \in 1..len /\ F[q \ {Max(q)}] \in T
        BY <2>1, <3>0, <3>1, MaxIsIn
      <4> QED BY <1>3, <2>1, <4>1
    <3>2. F = [q \in SUBSET (1..len) |-> F[q]]
      BY <3>0
    <3> QED BY <2>1, <3>0, <3>1, <3>2
  <2>5. Eq(iter)
    BY <2>4, Zenon
  <2> HIDE DEF iter
  <2>6. iter[{}] = b
    BY <2>5
  <2>7. ASSUME NEW q \in SUBSET (1..len), q # {}, iter[q \ {Max(q)}] \in T
        PROVE  iter[q] = On(G, iter[q \ {Max(q)}], s[Max(q)])
    <3>1. Max(q) \in 1..len
      BY <2>1, <2>7, MaxIsIn
    <3>2. iter[q] = Step(iter[q \ {Max(q)}], s[Max(q)])
      BY <2>1, <2>5, <2>7
    <3> QED BY <1>3, <2>1, <2>7, <3>1, <3>2
  <2> HIDE DEF Eq
  <2>8. Iterates(iter, s, b, T, G)
    BY <2>6, <2>7 DEF Iterates, len
  <2>9. iter[1..Len(s)] = EndOf(s, b, T, G)
    BY <1>1, <1>4, <2>8, IterEnds
  <2> QED BY <2>2, <2>9 DEF len
<1>6. <<>> \in Seq(E1) /\ \A s \in Seq(E1), x \in E1 : Append(s, x) \in Seq(E1)
  OBVIOUS
<1>7. Unfolds(E1, b, T, G)
  BY <1>1, <1>4, EndUnfolds
<1>8. /\ EndOf(<<>>, b, T, G) = b
      /\ \A s \in Seq(E1) : EndOf(s, b, T, G) \in T
      /\ \A s \in Seq(E1), x \in E1 : EndOf(Append(s, x), b, T, G) = On(G, EndOf(s, b, T, G), x)
  BY <1>7 DEF Unfolds
<1>9. Materialized(all, <<>>) = b /\ \A s \in Seq(E1) : Materialized(all, s) \in T
  BY <1>5, <1>6, <1>8
<1>10. ASSUME NEW s \in Seq(E1), NEW x \in E1 PROVE Materialized(all, Append(s, x)) = Step(Materialized(all, s), x)
  <2>1. Materialized(all, Append(s, x)) = EndOf(Append(s, x), b, T, G) /\ Materialized(all, s) = EndOf(s, b, T, G)
    BY <1>5, <1>6
  <2> QED BY <1>3, <1>8, <2>1
<1> QED BY <1>9, <1>10 DEF MaterializedFacts, Step, T, E1, b

\* The archive of n equal captures, and what is made of it.
Restores(s, q, ok, n, container) ==
    /\ container.ok <=> ok /\ validate(q)
    /\ materialize_tls_pcaps(container).ok
    /\ \A i \in 1..n : materialize_tls_pcaps(container).pcaps[i] = write_pcap(Plain(q))

LEMMA OnePcap ==
    ASSUME NEW s \in Sessions, NEW q \in Seq(Sending(s)), NEW acc \in Pcaps, NEW rest \in Seq(Nat),
           acc.opaque = Encoded(q).opaque \o rest
    PROVE  MaterializePcap(acc, Encoded(q).layout) =
              [error |-> acc.error, pcaps |-> Append(acc.pcaps, write_pcap(Plain(q))), opaque |-> rest]
<1> DEFINE l == Encoded(q).layout
           read == _decode_tls_records(l, acc.opaque)
<1>1. read = [error |-> FALSE, chunks |-> Plain(q), opaque |-> rest]
  BY DecodeEncode
<1>2. MaterializePcap(acc, l) = IF read.error THEN [acc EXCEPT !.error = TRUE]
                                ELSE [error |-> acc.error, pcaps |-> Append(acc.pcaps, write_pcap(read.chunks)),
                                      opaque |-> read.opaque]
  BY DEF MaterializePcap, Taken
<1> HIDE DEF read, l
<1>3. read.error = FALSE /\ read.chunks = Plain(q) /\ read.opaque = rest
  BY <1>1
<1> QED BY <1>2, <1>3 DEF l

LEMMA ContainerOf ==
    ASSUME NEW s, NEW c, NEW n \in {1, 2}
    PROVE  LET split == split_tls_records(s, c)
               q == split.records
           IN  compact_tls_pcaps(s, Times(n, c)) =
                  [ok |-> \A i \in 1..n : split.ok /\ validate(q), layouts |-> Times(n, Encoded(q).layout),
                   opaque |-> FlattenSeq(Times(n, Encoded(q).opaque))]
<1> DEFINE captures == Times(n, c)
           one == split_tls_records(s, c)
           enc == _encode_tls_records(one.records)
           split == [i \in DOMAIN captures |-> split_tls_records(s, captures[i])]
           encoded == [i \in DOMAIN captures |-> _encode_tls_records(split[i].records)]
<1>1. DOMAIN captures = 1..n /\ \A i \in 1..n : captures[i] = c
  BY DEF Times
<1>2. compact_tls_pcaps(s, captures) =
         [ok |-> \A i \in DOMAIN captures : split[i].ok /\ validate(split[i].records),
          layouts |-> [i \in DOMAIN captures |-> encoded[i].layout],
          opaque |-> FlattenSeq([i \in DOMAIN captures |-> encoded[i].opaque])]
  BY DEF compact_tls_pcaps
<1> HIDE DEF captures
<1>3. \A i \in 1..n : split[i] = one
  BY <1>1
<1> HIDE DEF split, one
<1>4. \A i \in 1..n : encoded[i] = enc
  BY <1>1, <1>3
<1> HIDE DEF encoded
<1>5. enc.layout = Encoded(one.records).layout /\ enc.opaque = Encoded(one.records).opaque
  BY DEF _encode_tls_records, Encoded
<1>6. [i \in DOMAIN captures |-> encoded[i].layout] = Times(n, Encoded(one.records).layout)
      /\ [i \in DOMAIN captures |-> encoded[i].opaque] = Times(n, Encoded(one.records).opaque)
  BY <1>1, <1>4, <1>5 DEF Times
<1>7. (\A i \in DOMAIN captures : split[i].ok /\ validate(split[i].records)) = (\A i \in 1..n : one.ok /\ validate(one.records))
  BY <1>1, <1>3
<1> QED BY <1>2, <1>6, <1>7 DEF one, captures

LEMMA ArchiveRestores ==
    ASSUME NEW s \in Sessions, NEW c, NEW n \in {1, 2}, split_tls_records(s, c).records \in Seq(Sending(s))
    PROVE  Restores(s, split_tls_records(s, c).records, split_tls_records(s, c).ok, n, compact_tls_pcaps(s, Times(n, c)))
<1> DEFINE ok == split_tls_records(s, c).ok
           q == split_tls_records(s, c).records
           container == compact_tls_pcaps(s, Times(n, c))
           l == Encoded(q).layout
           o == Encoded(q).opaque
           w == write_pcap(Plain(q))
           all == FlattenSeq(Times(n, o))
           start == [error |-> FALSE, pcaps |-> <<>>, opaque |-> all]
           end == Materialized(all, Times(n, l))
<1>1. container = [ok |-> \A i \in 1..n : ok /\ validate(q), layouts |-> Times(n, l), opaque |-> all]
  BY ContainerOf
<1>2. q \in Seq(Sending(s)) /\ l \in Seq(Entry) /\ o \in Seq(Nat)
  BY DecodeEncode
<1>3. w \in Seq(WRow)
  <2>1. Plain(q) \in Seq(Chunk)
    <3>1. CASE q = <<>>
      BY <3>1 DEF Plain
    <3>2. CASE q # <<>>
      <4>1. q[1] \in Sending(s)
        BY <1>2, <3>2
      <4>2. Plain(q) \in Seq(Chunk)
        BY <1>2, <4>1, PlainMore
      <4> QED BY <4>2
    <3> QED BY <3>1, <3>2
  <2> QED BY <2>1, WrittenBack DEF WriteBack
<1>4. materialize_tls_pcaps(container) =
         [ok |-> ~Materialized(container.opaque, container.layouts).error
                 /\ Materialized(container.opaque, container.layouts).opaque = <<>>,
          pcaps |-> Materialized(container.opaque, container.layouts).pcaps]
  BY DEF materialize_tls_pcaps, Materialized
<1> HIDE DEF container
<1>5. container.opaque = all /\ container.layouts = Times(n, l)
  BY <1>1
<1>6. container.ok <=> ok /\ validate(q)
  <2>1. container.ok = (\A i \in 1..n : ok /\ validate(q))
    BY <1>1
  <2>2. 1 \in 1..n
    OBVIOUS
  <2> QED BY <2>1, <2>2
<1> HIDE DEF q, l, o, ok
<1>7. FlattenFacts(Nat)
  BY FlattenUnfolds
<1>8. Times(1, o) = Append(<<>>, o) /\ Times(2, o) = Append(Append(<<>>, o), o)
      /\ Times(1, l) = Append(<<>>, l) /\ Times(2, l) = Append(Append(<<>>, l), l)
  BY OneAndTwo
<1>9. <<>> \in Seq(Seq(Nat)) /\ Append(<<>>, o) \in Seq(Seq(Nat)) /\ <<>> \in Seq(Seq(Entry)) /\ Append(<<>>, l) \in Seq(Seq(Entry))
      /\ <<>> \in Seq(Nat)
  <2>1. \A D : <<>> \in Seq(D) /\ \A x \in D : Append(<<>>, x) \in Seq(D)
    OBVIOUS
  <2> QED BY <1>2, <2>1, Zenon
<1>10. FlattenSeq(Append(<<>>, o)) = o /\ FlattenSeq(Append(Append(<<>>, o), o)) = o \o o
  <2>1. FlattenSeq(<<>>) = <<>> /\ \A u \in Seq(Seq(Nat)), v \in Seq(Nat) : FlattenSeq(Append(u, v)) = FlattenSeq(u) \o v
    BY <1>7 DEF FlattenFacts
  <2>2. FlattenSeq(Append(<<>>, o)) = <<>> \o o
    BY <1>2, <1>9, <2>1
  <2>3. <<>> \o o = o
    BY <1>2, ConcatEmptySeq
  <2>4. FlattenSeq(Append(Append(<<>>, o), o)) = FlattenSeq(Append(<<>>, o)) \o o
    BY <1>2, <1>9, <2>1
  <2> QED BY <2>2, <2>3, <2>4
<1>11. o \o <<>> = o
  BY <1>2, ConcatEmptySeq
<1>12. all \in Seq(Nat)
  <2>1. o \o o \in Seq(Nat)
    BY <1>2, ConcatProperties
  <2> QED BY <1>2, <1>8, <1>10, <2>1
<1> HIDE DEF all, start, end, w
<1>13. /\ Materialized(all, <<>>) = start
       /\ \A u \in Seq(Seq(Entry)) : Materialized(all, u) \in Pcaps
       /\ \A u \in Seq(Seq(Entry)), v \in Seq(Entry) :
             Materialized(all, Append(u, v)) = MaterializePcap(Materialized(all, u), v)
  <2>1. MaterializedFacts(all)
    BY <1>12, MaterializedUnfolds
  <2> QED BY <2>1 DEF MaterializedFacts, start
<1>14. start \in Pcaps /\ start.error = FALSE /\ start.pcaps = <<>> /\ start.opaque = all
  BY <1>9, <1>13 DEF start
<1> DEFINE first == Materialized(all, Append(<<>>, l))
<1>15. first = MaterializePcap(start, l) /\ first \in Pcaps
       /\ Materialized(all, Append(Append(<<>>, l), l)) = MaterializePcap(first, l)
  BY <1>2, <1>9, <1>13
<1> HIDE DEF first
<1>16. \A rest \in Seq(Nat), acc \in Pcaps : acc.opaque = o \o rest =>
          MaterializePcap(acc, l) = [error |-> acc.error, pcaps |-> Append(acc.pcaps, w), opaque |-> rest]
  BY <1>2, OnePcap DEF o, l, w
<1>17. ASSUME n = 1 PROVE Restores(s, q, ok, n, container)
  <2>1. all = o \o <<>> /\ end = first
    BY <1>8, <1>10, <1>11, <1>17 DEF all, end, first
  <2>2. end = [error |-> FALSE, pcaps |-> Append(<<>>, w), opaque |-> <<>>]
    BY <1>9, <1>14, <1>15, <1>16, <2>1
  <2>3. end.error = FALSE /\ end.opaque = <<>> /\ end.pcaps = Times(1, w)
    BY <2>2, OneAndTwo
  <2>4. \A i \in 1..n : end.pcaps[i] = w
    BY <1>17, <2>3 DEF Times
  <2>5. materialize_tls_pcaps(container) = [ok |-> ~end.error /\ end.opaque = <<>>, pcaps |-> end.pcaps]
    BY <1>4, <1>5, <1>17 DEF end
  <2>6. materialize_tls_pcaps(container).ok = (~end.error /\ end.opaque = <<>>)
    BY <2>5
  <2>7. materialize_tls_pcaps(container).pcaps = end.pcaps
    BY <2>5
  <2> QED BY <1>6, <2>3, <2>4, <2>6, <2>7 DEF Restores, w
<1>18. ASSUME n = 2 PROVE Restores(s, q, ok, n, container)
  <2>1. all = o \o o
    BY <1>8, <1>10, <1>18 DEF all
  <2>2. first = [error |-> FALSE, pcaps |-> Append(<<>>, w), opaque |-> o]
    BY <1>2, <1>14, <1>15, <1>16, <2>1
  <2>3. first.error = FALSE /\ first.pcaps = Append(<<>>, w) /\ first.opaque = o \o <<>>
    BY <1>11, <2>2
  <2>4. end = MaterializePcap(first, l)
    BY <1>8, <1>15, <1>18 DEF end
  <2>5. end = [error |-> FALSE, pcaps |-> Append(Append(<<>>, w), w), opaque |-> <<>>]
    BY <1>9, <1>15, <1>16, <2>3, <2>4
  <2>6. end.error = FALSE /\ end.opaque = <<>> /\ end.pcaps = Times(2, w)
    BY <2>5, OneAndTwo
  <2>7. \A i \in 1..n : end.pcaps[i] = w
    BY <1>18, <2>6 DEF Times
  <2>8. materialize_tls_pcaps(container) = [ok |-> ~end.error /\ end.opaque = <<>>, pcaps |-> end.pcaps]
    BY <1>4, <1>5, <1>18 DEF end
  <2>9. materialize_tls_pcaps(container).ok = (~end.error /\ end.opaque = <<>>)
    BY <2>8
  <2>10. materialize_tls_pcaps(container).pcaps = end.pcaps
    BY <2>8
  <2> QED BY <1>6, <2>6, <2>7, <2>9, <2>10 DEF Restores, w
<1>19. Restores(s, q, ok, n, container)
  BY <1>17, <1>18
<1> QED BY <1>19 DEF q, ok, container

LEMMA PlainBytes ==
    ASSUME NEW s \in Sessions, NEW q \in Seq(Sending(s))
    PROVE  Plain(q) \in Seq(Chunk) /\ (q # <<>> => Bytes(Plain(q)) # <<>>)
<1>1. CASE q = <<>>
  BY <1>1 DEF Plain
<1>2. CASE q # <<>>
  <2>1. PICK p \in Seq(Sending(s)) : q = Append(p, q[Len(q)]) /\ q[Len(q)] \in Sending(s)
    BY <1>2, LastOff
  <2> DEFINE r == q[Len(q)]
             x == [dir |-> r.dir, data |-> r.data]
  <2>2. r \in Sending(s) /\ q = Append(p, r)
    BY <2>1
  <2> HIDE DEF r
  <2>3. Plain(p) \in Seq(Chunk) /\ x \in Chunk /\ Plain(q) = Append(Plain(p), x)
    BY <2>2, PlainMore
  <2>4. Bytes(Plain(q)) = Bytes(Plain(p)) \o Tag(r.dir, r.data) /\ Bytes(Plain(p)) \in Seq(Byte)
    BY <2>3, BytesAre
  <2>5. r.dir \in Direction /\ r.data \in Seq(Nat) /\ Len(r.data) \in Nat \ {0}
    BY <2>2, SendingIs
  <2>6. Tag(r.dir, r.data) \in Seq(Byte) /\ Len(Tag(r.dir, r.data)) = Len(r.data)
    BY <2>5, TagIs
  <2> DEFINE u == Bytes(Plain(p))
             v == Tag(r.dir, r.data)
  <2> HIDE DEF u, v
  <2>7. Len(u \o v) = Len(u) + Len(v) /\ Len(u) \in Nat
    <3>1. u \in Seq(Byte) /\ v \in Seq(Byte)
      BY <2>4, <2>6 DEF u, v
    <3> QED BY <3>1, ConcatProperties
  <2>8. Len(u \o v) # 0
    BY <2>5, <2>6, <2>7 DEF v
  <2>9. Plain(q) \in Seq(Chunk)
    BY <2>3
  <2> QED BY <2>4, <2>8, <2>9 DEF u, v
<1> QED BY <1>1, <1>2

\* The archive that MinARX makes of two captures of a session gives back the
\* records of each in their order and uses up the opaque section, for every
\* record length and every cut into segments; it refuses no capture but one
\* with a HelloRetryRequest, with a silent endpoint, or that ends in a record.
THEOREM ArchiveGivesBack == Spec => []RecordsSurvive
<1>1. ASSUME Fit(rows) PROVE RecordsSurvive
  <2>1. SUFFICES ASSUME Whole, NEW s \in Sessions
        PROVE LET container == compact_tls_pcaps(s, <<Extracted.chunks, Extracted.chunks>>)
                  read      == materialize_tls_pcaps(container)
                  records   == split_tls_records(s, Extracted.chunks).records
              IN  IF container.ok
                  THEN /\ read.ok
                       /\ \A i \in 1..2 :
                             LET again == extract_tcp_chunks(read.pcaps[i])
                             IN  again.ok /\ split_tls_records(s, again.chunks) = [ok |-> TRUE, records |-> records]
                  ELSE \/ \E d \in Direction : \E i \in DOMAIN s.records[d] :
                              s.records[d][i].message = "HelloRetryRequest"
                       \/ \E d \in Direction :
                              \A k \in 0..Len(s.records[d]) :
                                  Length(SubSeq(s.records[d], 1, k)) # Len(Stream(Extracted.chunks, d))
                       \/ \E d \in Direction : Stream(Extracted.chunks, d) = <<>>
    BY DEF RecordsSurvive
  <2> DEFINE c == Extracted.chunks
             q == Split(s).records
             container == compact_tls_pcaps(s, <<c, c>>)
             read == materialize_tls_pcaps(container)
             w == write_pcap(Plain(q))
             again == extract_tcp_chunks(w)
  <2>2. SplitFacts(s)
    BY <1>1, <2>1, WholeSplit
  <2>3. InOrder(s, q) /\ q \in Seq(Sending(s))
    BY <2>2 DEF SplitFacts, InOrder
  <2>4. <<c, c>> = Times(2, c)
    BY OneAndTwo
  <2>5. Restores(s, q, Split(s).ok, 2, container)
    <3>1. split_tls_records(s, c).records \in Seq(Sending(s))
      BY <2>3 DEF Split
    <3>2. Restores(s, split_tls_records(s, c).records, split_tls_records(s, c).ok, 2, compact_tls_pcaps(s, Times(2, c)))
      <4> HIDE DEF c
      <4> QED BY <2>1, <3>1, ArchiveRestores
    <3> QED BY <2>4, <3>2, Zenon DEF Split
  <2> HIDE DEF c, q, container, w
  <2>6. (container.ok <=> Split(s).ok /\ validate(q)) /\ read.ok /\ \A i \in 1..2 : read.pcaps[i] = w
    BY <2>5 DEF Restores, w
  <2>7. Plain(q) \in Seq(Chunk) /\ (q # <<>> => Bytes(Plain(q)) # <<>>)
    BY <2>1, <2>3, PlainBytes
  <2>8. Bytes(again.chunks) = Bytes(Plain(q)) /\ (Bytes(Plain(q)) # <<>> => again.ok)
    BY <2>7, WrittenBack DEF WriteBack, w
  <2> HIDE DEF again, read
  <2>9. split_tls_records(s, again.chunks) = [ok |-> TRUE, records |-> q]
    BY <2>1, <2>3, <2>8, SplitRecords
  <2>10. CASE container.ok
    <3>1. q # <<>>
      <4>1. \E r \in ToSet(q) : r.record.message = "ClientHello"
        BY <2>6, <2>10, HelloFacts
      <4>2. ToSet(<<>>) = {}
        BY DEF ToSet
      <4> QED BY <4>1, <4>2
    <3>2. again.ok
      BY <2>7, <2>8, <3>1
    <3> QED BY <2>6, <2>9, <2>10, <3>2 DEF read, container, again, c, q, Split
  <2>11. CASE ~container.ok
    <3>1. SUFFICES ASSUME \A d \in Direction : \A i \in DOMAIN s.records[d] : s.records[d][i].message # "HelloRetryRequest",
                          \A d \in Direction : \E k \in 0..Len(s.records[d]) :
                             Length(SubSeq(s.records[d], 1, k)) = Len(Stream(c, d)),
                          \A d \in Direction : Stream(c, d) # <<>>
          PROVE  FALSE
      BY <2>11 DEF container, c
    <3>2. \A d \in Direction : \E k : EndsWith(s, d, k)
      BY <3>1 DEF EndsWith, Upto, c
    <3>3. Split(s).ok
      BY <2>2, <3>2 DEF SplitFacts
    <3>4. \A d \in Direction : \E k \in 1..Len(s.records[d]) : Only(q, Of(d)) = SubSeq(Sent(s, d), 1, k)
      BY <2>2, <3>1, <3>3 DEF SplitFacts, q, c
    <3>5. \A d \in Direction : Sent(s, d)[1] \in ToSet(q) /\ Sent(s, d)[1].record = s.records[d][1] /\ s.records[d][1].type = "handshake"
      BY <2>1, <2>3, <3>4, FirstCame
    <3>6. 0 \in Direction /\ 1 \in Direction
      BY DEF Direction
    <3>7. s.records[0][1].message = "ClientHello" /\ s.records[1][1].message \in {"HelloRetryRequest", "ServerHello"}
      BY <2>1, SessionsAssumption
    <3>8. \A r \in ToSet(q) : r.record.message # "HelloRetryRequest"
      <4>1. SUFFICES ASSUME NEW r \in ToSet(q) PROVE r.record.message # "HelloRetryRequest"
        OBVIOUS
      <4>2. r.dir \in Direction /\ \E i \in 1..Len(s.records[r.dir]) : r.record = s.records[r.dir][i]
        BY <2>1, <2>3, CameFrom
      <4> DEFINE d == r.dir
      <4>3. DOMAIN s.records[d] = 1..Len(s.records[d])
        <5> HIDE DEF d
        <5> QED BY <2>1, <4>2, UptoIs DEF d
      <4> QED BY <3>1, <4>2, <4>3
    <3>9. s.records[1][1].message = "ServerHello"
      BY <3>5, <3>6, <3>7, <3>8
    <3>10. validate(q)
      <4> DEFINE messages == {r.record.message : r \in {x \in ToSet(q) : x.record.type = "handshake"}}
      <4>1. "ClientHello" \in messages
        BY <3>5, <3>6, <3>7
      <4>2. "ServerHello" \in messages
        BY <3>5, <3>6, <3>9
      <4>3. "HelloRetryRequest" \notin messages
        BY <3>8
      <4> HIDE DEF messages
      <4>4. tls_hello_parameters(q) = [ok |-> "ClientHello" \in messages /\ "HelloRetryRequest" \notin messages,
                                       answered |-> "ServerHello" \in messages]
        BY DEF tls_hello_parameters, messages
      <4>5. tls_hello_parameters(q).ok = ("ClientHello" \in messages /\ "HelloRetryRequest" \notin messages)
        BY <4>4
      <4>6. tls_hello_parameters(q).answered = ("ServerHello" \in messages)
        BY <4>4
      <4> QED BY <4>1, <4>2, <4>3, <4>5, <4>6 DEF validate
    <3> QED BY <2>6, <2>11, <3>3, <3>10
  <2> QED BY <2>10, <2>11 DEF container, read, c
<1>2. Spec => []Fit(rows)
  BY RowsFit
<1> QED BY <1>1, <1>2, PTL

-----------------------------------------------------------------------------
(* The messages of records.                                                *)

Messages(q) == [i \in DOMAIN q |-> q[i].record.message]
ClearOf(messages) == {r \in Got : ~r.record.sealed /\ r.record.message \in messages}

LEMMA MessagesAre ==
    ASSUME NEW q \in Seq(Got)
    PROVE  /\ Messages(q) \in Seq(STRING) /\ Len(Messages(q)) = Len(q) /\ DOMAIN Messages(q) = 1..Len(q)
           /\ Len(q) \in Nat
           /\ \A i \in 1..Len(q) : Messages(q)[i] = q[i].record.message
           /\ ToSet(Messages(q)) = {r.record.message : r \in ToSet(q)}
<1>1. Len(q) \in Nat /\ DOMAIN q = 1..Len(q) /\ \A i \in 1..Len(q) : q[i] \in Got
  OBVIOUS
<1>2. \A r \in Got : r.record.message \in STRING
  BY DEF Got, AnyRecord
<1>3. Messages(q) = [i \in 1..Len(q) |-> q[i].record.message]
  BY <1>1 DEF Messages
<1>4. Messages(q) \in [1..Len(q) -> STRING]
  BY <1>1, <1>2, <1>3
<1>5. Messages(q) \in Seq(STRING) /\ Len(Messages(q)) = Len(q) /\ DOMAIN Messages(q) = 1..Len(q)
  BY <1>1, <1>4
<1>6. \A i \in 1..Len(q) : Messages(q)[i] = q[i].record.message
  BY <1>3
<1>7. ToSet(Messages(q)) = {r.record.message : r \in ToSet(q)}
  BY <1>1, <1>5, <1>6 DEF ToSet
<1> QED BY <1>1, <1>5, <1>6, <1>7

LEMMA ClearIs ==
    ASSUME NEW q \in Seq(Got), NEW M
    PROVE  /\ Clear(q, M) = Messages(Only(q, ClearOf(M))) /\ Only(q, ClearOf(M)) \in Seq(Got)
           /\ ToSet(Clear(q, M)) = {r.record.message : r \in ToSet(q) \cap ClearOf(M)}
<1> DEFINE S == {r \in ToSet(q) : ~r.record.sealed /\ r.record.message \in M}
<1>1. Clear(q, M) = Messages(Only(q, S))
  BY DEF Clear, Messages
<1>2. \A x \in ToSet(q) : x \in Got
  BY DEF ToSet
<1>3. \A x \in ToSet(q) : x \in S <=> x \in ClearOf(M)
  BY <1>2 DEF ClearOf
<1> HIDE DEF S
<1>4. Only(q, S) = Only(q, ClearOf(M))
  BY <1>3, OnlySame
<1>5. Only(q, ClearOf(M)) \in Seq(Got) /\ ToSet(Only(q, ClearOf(M))) = ToSet(q) \cap ClearOf(M)
  BY OnlyHolds
<1>6. ToSet(Messages(Only(q, ClearOf(M)))) = {r.record.message : r \in ToSet(Only(q, ClearOf(M)))}
  BY <1>5, MessagesAre
<1> QED BY <1>1, <1>4, <1>5, <1>6

\* One message that is there comes out first.
LEMMA FirstClear ==
    ASSUME NEW q \in Seq(Got), NEW M
    PROVE  /\ First(Clear(q, M)) = Missing \/ First(Clear(q, M)) \in M
           /\ ToSet(q) \cap ClearOf(M) # {} =>
                 \E r \in ToSet(q) \cap ClearOf(M) : First(Clear(q, M)) = r.record.message
<1> DEFINE o == Only(q, ClearOf(M))
           c == Clear(q, M)
<1>1. o \in Seq(Got) /\ c = Messages(o) /\ ToSet(o) = ToSet(q) \cap ClearOf(M)
  BY ClearIs, OnlyHolds
<1> HIDE DEF o, c
<1>2. Len(o) \in Nat /\ Len(c) = Len(o) /\ c \in Seq(STRING) /\ \A i \in 1..Len(o) : c[i] = o[i].record.message
  BY <1>1, MessagesAre
<1>3. CASE Len(o) = 0
  <2>1. c = <<>> /\ ToSet(o) = {}
    BY <1>1, <1>2, <1>3 DEF ToSet
  <2> QED BY <1>1, <2>1 DEF First, c
<1>4. CASE Len(o) # 0
  <2>1. c # <<>> /\ Head(c) = o[1].record.message /\ 1 \in 1..Len(o)
    BY <1>2, <1>4
  <2>2. o[1] \in ToSet(q) \cap ClearOf(M)
    <3>1. DOMAIN o = 1..Len(o)
      BY <1>1
    <3>2. o[1] \in ToSet(o)
      BY <2>1, <3>1 DEF ToSet
    <3> QED BY <1>1, <3>2
  <2>3. First(c) = o[1].record.message
    BY <2>1 DEF First
  <2>4. o[1].record.message \in M
    BY <2>2 DEF ClearOf
  <2> QED BY <2>2, <2>3, <2>4 DEF c
<1> QED BY <1>3, <1>4

-----------------------------------------------------------------------------
(* The records of a direction up to its ChangeCipherSpec.                  *)

LEMMA UpToCcsIs ==
    ASSUME NEW q \in Seq(Got)
    PROVE  /\ UpToCcs(q) \in Seq(Got) /\ ToSet(UpToCcs(q)) \subseteq ToSet(q)
           /\ CcsOf(q) = {} <=> ~\E r \in ToSet(q) : r.record.type = "ccs"
<1>1. Len(q) \in Nat /\ DOMAIN q = 1..Len(q)
  OBVIOUS
<1>2. CcsOf(q) = {} <=> ~\E r \in ToSet(q) : r.record.type = "ccs"
  BY DEF CcsOf, ToSet
<1>3. CASE CcsOf(q) = {}
  BY <1>2, <1>3 DEF UpToCcs
<1>4. CASE CcsOf(q) # {}
  <2> DEFINE m == CHOOSE i \in CcsOf(q) : \A j \in CcsOf(q) : i <= j
  <2>1. CcsOf(q) \in SUBSET Nat /\ CcsOf(q) \subseteq 1..Len(q)
    BY <1>1 DEF CcsOf
  <2>2. m \in CcsOf(q)
    BY <1>4, <2>1, LeastNumber
  <2>3. UpToCcs(q) = SubSeq(q, 1, m)
    BY <1>4 DEF UpToCcs
  <2> HIDE DEF m
  <2>4. m \in 0..Len(q)
    BY <2>1, <2>2
  <2>5. SubSeq(q, 1, m) \in Seq(Got) /\ Len(SubSeq(q, 1, m)) = m /\ \A i \in 1..m : SubSeq(q, 1, m)[i] = q[i]
    BY <1>1, <2>4, PrefixOf
  <2>6. ToSet(SubSeq(q, 1, m)) \subseteq ToSet(q)
    BY <1>1, <2>4, <2>5 DEF ToSet
  <2> QED BY <1>2, <2>3, <2>5, <2>6
<1> QED BY <1>3, <1>4

LEMMA UpToCcsMore ==
    ASSUME NEW q \in Seq(Got), NEW x \in Got
    PROVE  UpToCcs(Append(q, x)) = IF CcsOf(q) = {} THEN Append(q, x) ELSE UpToCcs(q)
<1> DEFINE a == Append(q, x)
           n == Len(q)
           C == CcsOf(q)
           D == CcsOf(a)
           Least(S, i) == i \in S /\ \A j \in S : i <= j
<1>1. /\ a \in Seq(Got) /\ n \in Nat /\ DOMAIN q = 1..n /\ DOMAIN a = 1..(n + 1) /\ Len(a) = n + 1
      /\ \A i \in 1..n : a[i] = q[i]
  <2>1. /\ Append(q, x) \in Seq(Got) /\ Len(q) \in Nat /\ DOMAIN q = 1..Len(q)
        /\ DOMAIN Append(q, x) = 1..(Len(q) + 1) /\ Len(Append(q, x)) = Len(q) + 1
    BY AppendIs
  <2>2. \A i \in 1..Len(q) : Append(q, x)[i] = q[i]
    OBVIOUS
  <2> QED BY <2>1, <2>2
<1> HIDE DEF a, n
<1>2. C \subseteq 1..n /\ D \subseteq 1..(n + 1) /\ \A i \in 1..n : i \in C <=> i \in D
  BY <1>1 DEF CcsOf
<1>3. CASE C = {}
  <2>1. CASE D = {}
    BY <1>3, <2>1 DEF UpToCcs, a
  <2>2. CASE D # {}
    <3>1. D = {n + 1}
      BY <1>1, <1>2, <1>3, <2>2
    <3>2. UpToCcs(a) = SubSeq(a, 1, CHOOSE i \in D : \A j \in D : i <= j)
      BY <2>2 DEF UpToCcs
    <3> HIDE DEF D
    <3>3. (CHOOSE i \in D : \A j \in D : i <= j) = n + 1
      BY <1>1, <3>1
    <3>4. UpToCcs(a) = SubSeq(a, 1, n + 1)
      BY <3>2, <3>3
    <3>5. n + 1 \in 0..Len(a)
      BY <1>1
    <3> DEFINE p == SubSeq(a, 1, n + 1)
    <3>6. p \in Seq(Got) /\ Len(p) = n + 1 /\ \A i \in 1..(n + 1) : p[i] = a[i]
      BY <1>1, <3>5, PrefixOf
    <3> HIDE DEF p
    <3>7. p = a
      BY <1>1, <3>6, SeqEqual
    <3> QED BY <1>3, <3>4, <3>7 DEF p, a, C
  <2> QED BY <2>1, <2>2
<1>4. CASE C # {}
  <2> DEFINE m == CHOOSE i \in C : \A j \in C : i <= j
             k == CHOOSE i \in D : \A j \in D : i <= j
  <2>1. D # {} /\ C \in SUBSET Nat /\ D \in SUBSET Nat
    BY <1>1, <1>2, <1>4
  <2>2. UpToCcs(q) = SubSeq(q, 1, m) /\ UpToCcs(a) = SubSeq(a, 1, k)
    BY <1>4, <2>1 DEF UpToCcs
  <2> HIDE DEF C, D
  <2>3. (m \in C /\ \A j \in C : m <= j) /\ k \in D /\ \A j \in D : k <= j
    BY <1>4, <2>1, LeastNumber
  <2> HIDE DEF m, k
  <2>4. m \in 1..n /\ m \in D
    BY <1>2, <2>3
  <2>5. k <= m /\ k \in 1..n
    BY <1>1, <1>2, <2>3, <2>4
  <2>6. k \in C
    BY <1>2, <2>3, <2>5
  <2>7. k = m
    BY <2>3, <2>4, <2>5, <2>6
  <2>8. m \in 0..Len(q) /\ m \in 0..Len(a)
    BY <1>1, <2>4 DEF n
  <2> DEFINE u == SubSeq(q, 1, m)
             v == SubSeq(a, 1, m)
  <2>9. u \in Seq(Got) /\ Len(u) = m /\ \A i \in 1..m : u[i] = q[i]
    BY <2>8, PrefixOf
  <2>10. v \in Seq(Got) /\ Len(v) = m /\ \A i \in 1..m : v[i] = a[i]
    BY <1>1, <2>8, PrefixOf
  <2> HIDE DEF u, v
  <2>11. \A i \in 1..m : i \in 1..n
    BY <1>1, <2>4
  <2>12. u = v
    BY <1>1, <2>9, <2>10, <2>11, SeqEqual
  <2> QED BY <1>4, <2>2, <2>7, <2>12 DEF u, v, a, C
<1> QED BY <1>3, <1>4

\* What is kept of a direction has the same messages before its ChangeCipherSpec.
LEMMA OnlyUpToCcs ==
    ASSUME NEW q \in Seq(Got), NEW K, NEW S,
           \A r \in ToSet(q) : r.record.type = "ccs" \/ r \in S => r \in K
    PROVE  Only(UpToCcs(Only(q, K)), S) = Only(UpToCcs(q), S)
<1> DEFINE E == {r \in Got : r.record.type = "ccs" \/ r \in S => r \in K}
           Good == {t \in Seq(E) : Only(UpToCcs(Only(t, K)), S) = Only(UpToCcs(t), S)}
<1>1. \A r \in E : r \in Got /\ (r.record.type = "ccs" => r \in K) /\ (r \in S => r \in K)
  OBVIOUS
<1>2. E \subseteq Got /\ q \in Seq(E)
  <2>1. \A r \in ToSet(q) : r \in Got
    BY DEF ToSet
  <2>2. ToSet(q) \subseteq E
    BY <2>1
  <2> HIDE DEF E
  <2>3. q \in Seq(E)
    BY <2>2, SeqOfSubset
  <2> QED BY <1>1, <2>3
<1> HIDE DEF E
<1>3. \A t \in Seq(E) : t \in Seq(Got)
  BY <1>2
<1>4. <<>> \in Good
  <2>1. Only(<<>>, K) = <<>> /\ Only(<<>>, S) = <<>>
    BY OnlyNone
  <2> QED BY <2>1
<1>5. ASSUME NEW t \in Seq(E), NEW x \in E, t \in Good PROVE Append(t, x) \in Good
  <2> DEFINE k == Only(t, K)
             a == Append(t, x)
  <2>1. t \in Seq(Got) /\ x \in Got /\ (x.record.type = "ccs" => x \in K) /\ (x \in S => x \in K)
    BY <1>1, <1>3
  <2>2. k \in Seq(Got) /\ ToSet(k) = ToSet(t) \cap K
    BY <2>1, OnlyHolds
  <2>3. Only(a, K) = IF x \in K THEN Append(k, x) ELSE k
    BY <2>1, OnlyMore
  <2>4. Only(UpToCcs(k), S) = Only(UpToCcs(t), S)
    BY <1>5
  <2> HIDE DEF k
  <2>5. CcsOf(k) = {} <=> CcsOf(t) = {}
    <3>1. CcsOf(k) = {} <=> ~\E r \in ToSet(k) : r.record.type = "ccs"
      BY <2>2, UpToCcsIs
    <3>2. CcsOf(t) = {} <=> ~\E r \in ToSet(t) : r.record.type = "ccs"
      BY <2>1, UpToCcsIs
    <3>3. \A r \in ToSet(t) : r.record.type = "ccs" => r \in K
      BY <1>1, <1>5 DEF ToSet
    <3> QED BY <2>2, <3>1, <3>2, <3>3
  <2>6. UpToCcs(a) = IF CcsOf(t) = {} THEN a ELSE UpToCcs(t)
    BY <2>1, UpToCcsMore
  <2>7. UpToCcs(Append(k, x)) = IF CcsOf(k) = {} THEN Append(k, x) ELSE UpToCcs(k)
    BY <2>1, <2>2, UpToCcsMore
  <2>8. Only(UpToCcs(Only(a, K)), S) = Only(UpToCcs(a), S)
    <3>1. CASE CcsOf(t) # {}
      <4>1. UpToCcs(Only(a, K)) = UpToCcs(k)
        BY <2>3, <2>5, <2>7, <3>1
      <4> QED BY <2>4, <2>6, <3>1, <4>1
    <3>2. CASE CcsOf(t) = {}
      <4>1. UpToCcs(k) = k /\ UpToCcs(t) = t /\ UpToCcs(a) = a
        BY <2>5, <2>6, <3>2 DEF UpToCcs
      <4>2. UpToCcs(Only(a, K)) = Only(a, K)
        BY <2>3, <2>5, <2>7, <3>2, <4>1
      <4>3. Only(k, S) = Only(t, S)
        BY <2>4, <4>1
      <4>4. Only(Append(k, x), S) = IF x \in S THEN Append(Only(k, S), x) ELSE Only(k, S)
        BY <2>1, <2>2, OnlyMore
      <4>5. Only(a, S) = IF x \in S THEN Append(Only(t, S), x) ELSE Only(t, S)
        BY <2>1, OnlyMore
      <4> HIDE DEF a
      <4>6. Only(Only(a, K), S) = Only(a, S)
        BY <2>1, <2>3, <4>3, <4>4, <4>5
      <4> QED BY <4>1, <4>2, <4>6
    <3> QED BY <3>1, <3>2
  <2>9. Append(t, x) \in Seq(E)
    OBVIOUS
  <2> QED BY <2>8, <2>9
<1> HIDE DEF Good
<1>6. Seq(E) \subseteq Good
  BY <1>4, <1>5, SeqInduction
<1> QED BY <1>2, <1>6 DEF Good

-----------------------------------------------------------------------------
(* What a recovery reads of the records.                                   *)

RecoverFrom(s, q, m, truth) ==
    IF s.protocol = "tls12" THEN derive_rsa(s, q, m, truth) ELSE derive_1rtt(q, m, truth)

RsaMessages == {"ClientHello", "ServerHello", "ServerHelloDone", "ClientKeyExchange"}

LEMMA OfIs ==
    ASSUME NEW q \in Seq(Got), NEW d
    PROVE  /\ _handshake_messages_from_stream(q, d) = Clear(UpToCcs(Only(q, Of(d))), RsaMessages)
           /\ Only(q, Of(d)) \in Seq(Got) /\ ToSet(Only(q, Of(d))) = ToSet(q) \cap Of(d)
<1> DEFINE S == {r \in ToSet(q) : r.dir = d}
           mine == Only(q, S)
<1>1. \A x \in ToSet(q) : x \in S <=> x \in Of(d)
  BY DEF ToSet, Of
<1>2. _handshake_messages_from_stream(q, d) = Clear(UpToCcs(mine), RsaMessages)
  BY Zenon DEF _handshake_messages_from_stream, RsaMessages
<1> HIDE DEF S
<1>3. mine = Only(q, Of(d))
  BY <1>1, OnlySame
<1> HIDE DEF mine
<1>4. Only(q, Of(d)) \in Seq(Got) /\ ToSet(Only(q, Of(d))) = ToSet(q) \cap Of(d)
  BY OnlyHolds
<1> QED BY <1>2, <1>3, <1>4

\* The archive of a policy keeps what derive_rsa reads.
Keeps(q, K) ==
    /\ \A r \in ToSet(q) : r.record.type = "ccs" \/ r.record.message \in RsaMessages \/ r.record.message = "request" => r \in K

LEMMA KeptReads ==
    ASSUME NEW q \in Seq(Got), NEW K, Keeps(q, K)
    PROVE  LET k == Only(q, K)
           IN  /\ \A m \in RsaMessages : Clear(k, {m}) = Clear(q, {m})
               /\ \A d : _handshake_messages_from_stream(k, d) = _handshake_messages_from_stream(q, d)
               /\ (\E r \in ToSet(k) : r.record.message = "request") <=> \E r \in ToSet(q) : r.record.message = "request"
<1> DEFINE k == Only(q, K)
<1>1. k \in Seq(Got) /\ ToSet(k) = ToSet(q) \cap K
  BY OnlyHolds
<1>2. \A r \in ToSet(q) : /\ r \in Got
                          /\ r.record.type = "ccs" => r \in K
                          /\ r.record.message \in RsaMessages => r \in K
                          /\ r.record.message = "request" => r \in K
  <2>1. \A r \in ToSet(q) : r \in Got
    BY DEF ToSet
  <2> QED BY <2>1 DEF Keeps
<1>3. ASSUME NEW m \in RsaMessages PROVE Clear(k, {m}) = Clear(q, {m})
  <2> DEFINE C == ClearOf({m})
  <2>1. \A r \in ToSet(q) : r \in C => r \in K
    BY <1>2 DEF ClearOf
  <2>2. Clear(k, {m}) = Messages(Only(k, C)) /\ Clear(q, {m}) = Messages(Only(q, C))
    <3> HIDE DEF k
    <3> QED BY <1>1, ClearIs
  <2> HIDE DEF C
  <2>3. Only(k, C) = Only(q, K \cap C)
    BY OnlyOnly
  <2>4. \A r \in ToSet(q) : r \in K \cap C <=> r \in C
    BY <2>1
  <2>5. Only(q, K \cap C) = Only(q, C)
    BY <2>4, OnlySame
  <2> QED BY <2>2, <2>3, <2>5
<1>4. ASSUME NEW d PROVE _handshake_messages_from_stream(k, d) = _handshake_messages_from_stream(q, d)
  <2> DEFINE C == ClearOf(RsaMessages)
             x == Only(q, Of(d))
             y == Only(k, Of(d))
  <2>1. y = Only(x, K)
    <3>1. y = Only(q, K \cap Of(d)) /\ Only(x, K) = Only(q, Of(d) \cap K)
      BY OnlyOnly
    <3>2. K \cap Of(d) = Of(d) \cap K
      OBVIOUS
    <3> QED BY <3>1, <3>2
  <2>2. x \in Seq(Got) /\ ToSet(x) = ToSet(q) \cap Of(d)
    BY OnlyHolds
  <2>3. _handshake_messages_from_stream(q, d) = Clear(UpToCcs(x), RsaMessages)
    BY OfIs
  <2>4. _handshake_messages_from_stream(k, d) = Clear(UpToCcs(y), RsaMessages)
    <3> HIDE DEF k
    <3> QED BY <1>1, OfIs
  <2> HIDE DEF x, y
  <2>5. \A r \in ToSet(x) : r.record.type = "ccs" \/ r \in C => r \in K
    BY <1>2, <2>2 DEF ClearOf
  <2> HIDE DEF C
  <2>6. Only(UpToCcs(Only(x, K)), C) = Only(UpToCcs(x), C)
    BY <2>2, <2>5, OnlyUpToCcs
  <2>7. y \in Seq(Got)
    BY <2>1, <2>2, OnlyHolds
  <2>8. UpToCcs(x) \in Seq(Got) /\ UpToCcs(y) \in Seq(Got)
    BY <2>2, <2>7, UpToCcsIs
  <2>9. Clear(UpToCcs(x), RsaMessages) = Messages(Only(UpToCcs(x), C))
        /\ Clear(UpToCcs(y), RsaMessages) = Messages(Only(UpToCcs(y), C))
    BY <2>8, ClearIs DEF C
  <2> QED BY <2>1, <2>3, <2>4, <2>6, <2>9
<1>5. (\E r \in ToSet(k) : r.record.message = "request") <=> \E r \in ToSet(q) : r.record.message = "request"
  BY <1>1, <1>2
<1> QED BY <1>3, <1>4, <1>5

LEMMA RsaReads ==
    ASSUME NEW s, NEW q \in Seq(Got), NEW K, Keeps(q, K), NEW m, NEW truth
    PROVE  derive_rsa(s, Only(q, K), m, truth) = derive_rsa(s, q, m, truth)
<1> DEFINE k == Only(q, K)
<1>1. /\ \A x \in RsaMessages : Clear(k, {x}) = Clear(q, {x})
      /\ \A d : _handshake_messages_from_stream(k, d) = _handshake_messages_from_stream(q, d)
      /\ (\E r \in ToSet(k) : r.record.message = "request") <=> \E r \in ToSet(q) : r.record.message = "request"
  BY KeptReads
<1> HIDE DEF k
<1>2. [x \in {"ClientHello", "ServerHello", "ClientKeyExchange"} |-> First(Clear(k, {x}))]
      = [x \in {"ClientHello", "ServerHello", "ClientKeyExchange"} |-> First(Clear(q, {x}))]
  BY <1>1 DEF RsaMessages
<1>3. _extract_handshake_for_session_hash(k) = _extract_handshake_for_session_hash(q)
  BY <1>1 DEF _extract_handshake_for_session_hash
<1>4. \A keys, real : verify_tls_http_request(k, keys, real) = verify_tls_http_request(q, keys, real)
  BY <1>1 DEF verify_tls_http_request
<1> QED BY <1>2, <1>3, <1>4 DEF derive_rsa, k

-----------------------------------------------------------------------------
(* A capture with all the records of a session.                            *)

LEMMA HalvesAdd ==
    ASSUME NEW s \in Sessions, NEW q \in Seq(Sending(s))
    PROVE  Len(q) = Len(Only(q, Of(0))) + Len(Only(q, Of(1)))
<1> DEFINE Good == {t \in Seq(Sending(s)) : Len(t) = Len(Only(t, Of(0))) + Len(Only(t, Of(1)))}
<1>1. <<>> \in Good
  <2>1. Only(<<>>, Of(0)) = <<>> /\ Only(<<>>, Of(1)) = <<>>
    BY OnlyNone
  <2>2. Len(<<>>) = 0 /\ <<>> \in Seq(Sending(s))
    OBVIOUS
  <2> QED BY <2>1, <2>2
<1>2. ASSUME NEW t \in Seq(Sending(s)), NEW x \in Sending(s), t \in Good PROVE Append(t, x) \in Good
  <2> DEFINE a == Only(t, Of(0))
             b == Only(t, Of(1))
             w == Append(t, x)
  <2>1. x \in Got /\ x.dir \in Direction
    BY SendingIs
  <2>2. (x \in Of(0) /\ x \notin Of(1)) \/ (x \in Of(1) /\ x \notin Of(0))
    BY <2>1 DEF Of, Direction
  <2>3. Only(w, Of(0)) = (IF x \in Of(0) THEN Append(a, x) ELSE a) /\ Only(w, Of(1)) = IF x \in Of(1) THEN Append(b, x) ELSE b
    BY OnlyMore
  <2>4. a \in Seq(Sending(s)) /\ b \in Seq(Sending(s))
    BY OnlyHolds
  <2>5. Len(t) = Len(a) + Len(b)
    BY <1>2
  <2> HIDE DEF a, b
  <2>6. Len(Append(a, x)) = Len(a) + 1 /\ Len(Append(b, x)) = Len(b) + 1 /\ Len(w) = Len(t) + 1 /\ w \in Seq(Sending(s))
        /\ Len(a) \in Nat /\ Len(b) \in Nat
    BY <2>4, AppendIs
  <2> HIDE DEF w
  <2>7. Len(w) = Len(Only(w, Of(0))) + Len(Only(w, Of(1)))
    <3>1. CASE x \in Of(0) /\ x \notin Of(1)
      <4>1. Only(w, Of(0)) = Append(a, x) /\ Only(w, Of(1)) = b
        BY <2>3, <3>1
      <4>2. Len(Only(w, Of(0))) = Len(a) + 1 /\ Len(Only(w, Of(1))) = Len(b) /\ Len(w) = Len(a) + Len(b) + 1
        BY <2>5, <2>6, <4>1
      <4>3. \A i, j \in Nat : i + j + 1 = (i + 1) + j /\ i + j + 1 = i + (j + 1)
        OBVIOUS
      <4>4. Len(a) \in Nat /\ Len(b) \in Nat
        BY <2>6
      <4> QED BY <4>2, <4>3, <4>4
    <3>2. CASE x \in Of(1) /\ x \notin Of(0)
      <4>1. Only(w, Of(0)) = a /\ Only(w, Of(1)) = Append(b, x)
        BY <2>3, <3>2
      <4>2. Len(Only(w, Of(0))) = Len(a) /\ Len(Only(w, Of(1))) = Len(b) + 1 /\ Len(w) = Len(a) + Len(b) + 1
        BY <2>5, <2>6, <4>1
      <4>3. \A i, j \in Nat : i + j + 1 = (i + 1) + j /\ i + j + 1 = i + (j + 1)
        OBVIOUS
      <4>4. Len(a) \in Nat /\ Len(b) \in Nat
        BY <2>6
      <4> QED BY <4>2, <4>3, <4>4
    <3> QED BY <2>2, <3>1, <3>2
  <2> QED BY <2>6, <2>7 DEF w
<1> HIDE DEF Good
<1>3. Seq(Sending(s)) \subseteq Good
  BY <1>1, <1>2, SeqInduction
<1> QED BY <1>3 DEF Good

Full(s, q) ==
    /\ q \in Seq(Sending(s)) /\ q \in Seq(Got)
    /\ \A d \in Direction : /\ Only(q, Of(d)) = Sent(s, d) /\ Sent(s, d) \in Seq(Got)
                            /\ ToSet(Sent(s, d)) \subseteq ToSet(q)
                            /\ \A r \in ToSet(Sent(s, d)) : r.dir = d

LEMMA SendingGot ==
    ASSUME NEW s \in Sessions
    PROVE  Seq(Sending(s)) \subseteq Seq(Got)
<1>1. \A r \in Sending(s) : r \in Got
  BY SendingIs
<1>2. Sending(s) \subseteq Got
  BY <1>1
<1> QED BY <1>2

LEMMA AllCame ==
    ASSUME NEW s \in Sessions, NEW q, InOrder(s, q), Len(q) = Len(s.records[0]) + Len(s.records[1])
    PROVE  Full(s, q)
<1>1. q \in Seq(Sending(s)) /\ q \in Seq(Got)
  BY SendingGot DEF InOrder
<1>2. 0 \in Direction /\ 1 \in Direction /\ Direction = {0, 1}
  BY DEF Direction
<1>3. PICK a \in 0..Len(s.records[0]) : Only(q, Of(0)) = SubSeq(Sent(s, 0), 1, a)
  BY <1>2 DEF InOrder
<1>4. PICK b \in 0..Len(s.records[1]) : Only(q, Of(1)) = SubSeq(Sent(s, 1), 1, b)
  BY <1>2 DEF InOrder
<1>5. Len(s.records[0]) \in Nat /\ Len(SubSeq(Sent(s, 0), 1, a)) = a
  BY <1>2, PrefixIs
<1>6. Len(s.records[1]) \in Nat /\ Len(SubSeq(Sent(s, 1), 1, b)) = b
  BY <1>2, PrefixIs
<1>7. Len(q) = a + b
  BY <1>1, <1>3, <1>4, <1>5, <1>6, HalvesAdd
<1>8. a = Len(s.records[0]) /\ b = Len(s.records[1])
  <2>1. \A x, y, i, j \in Nat : i <= x /\ j <= y /\ x + y = i + j => i = x /\ j = y
    OBVIOUS
  <2> DEFINE x == Len(s.records[0])
             y == Len(s.records[1])
  <2>2. x \in Nat /\ y \in Nat /\ a \in 0..x /\ b \in 0..y
    BY <1>5, <1>6
  <2>3. a + b = x + y
    BY <1>7
  <2> HIDE DEF x, y
  <2>4. a \in Nat /\ b \in Nat /\ a <= x /\ b <= y
    BY <2>2
  <2>5. a = x /\ b = y
    BY <2>1, <2>2, <2>3, <2>4
  <2> QED BY <2>5 DEF x, y
<1>9. ASSUME NEW d \in Direction
      PROVE  SubSeq(Sent(s, d), 1, Len(s.records[d])) = Sent(s, d) /\ Sent(s, d) \in Seq(Got)
             /\ \A r \in ToSet(Sent(s, d)) : r.dir = d
  <2> DEFINE t == Sent(s, d)
             n == Len(s.records[d])
             u == SubSeq(t, 1, n)
  <2>1. t \in Seq(Got) /\ Len(t) = n /\ \A i \in 1..n : t[i].dir = d
    BY SentIs
  <2>2. u \in Seq(Got) /\ Len(u) = n /\ \A i \in 1..n : u[i] = t[i]
    <3>1. n \in Nat /\ n \in 0..n
      BY UptoIs
    <3> QED BY <3>1, PrefixIs
  <2> HIDE DEF t, n, u
  <2>3. u = t
    BY <2>1, <2>2, SeqEqual
  <2>4. \A r \in ToSet(t) : r.dir = d
    BY <2>1 DEF ToSet
  <2> QED BY <2>1, <2>3, <2>4 DEF u, t, n
<1>10. ASSUME NEW d \in Direction PROVE Only(q, Of(d)) = Sent(s, d)
  BY <1>2, <1>3, <1>4, <1>8, <1>9
<1>11. ASSUME NEW d \in Direction PROVE ToSet(Sent(s, d)) \subseteq ToSet(q)
  <2>1. ToSet(Only(q, Of(d))) = ToSet(q) \cap Of(d)
    BY <1>1, OnlyHolds
  <2> QED BY <1>10, <2>1
<1> QED BY <1>1, <1>9, <1>10, <1>11 DEF Full

-----------------------------------------------------------------------------
(* The recovery from an RSA key.                                           *)

LEMMA RsaGenuine ==
    ASSUME NEW s, s.protocol = "tls12", NEW q, NEW m \in Materials, NEW truth \in BOOLEAN,
           derive_rsa(s, q, m, truth).success
    PROVE  m = "good" /\ derive_rsa(s, q, m, truth).keylog = Genuine(s)
<1> DEFINE found == [x \in {"ClientHello", "ServerHello", "ClientKeyExchange"} |-> First(Clear(q, {x}))]
           transcript == _extract_handshake_for_session_hash(q)
           master == IF s.ems THEN derive_extended_master_secret(m, transcript)
                     ELSE derive_master_secret(m, found["ClientHello"], found["ServerHello"])
           bad == (\E x \in DOMAIN found : found[x] = Missing) \/ (s.ems /\ transcript = <<>>)
           good == /\ truth => master = RealMaster(s)
                   /\ verify_tls_http_request(q, {master}, RealMaster(s))
<1>1. derive_rsa(s, q, m, truth) = IF bad THEN Failure ELSE [success |-> good, keylog |-> {master}]
  BY DEF derive_rsa
<1>2. good => master = RealMaster(s)
  BY DEF verify_tls_http_request
<1>3. master = RealMaster(s) => m = "good"
  <2> HIDE DEF transcript, found
  <2> QED BY DEF RealMaster, derive_extended_master_secret, derive_master_secret
<1> HIDE DEF good, master, bad
<1>4. ~bad
  BY <1>1 DEF Failure
<1>5. derive_rsa(s, q, m, truth) = [success |-> good, keylog |-> {master}]
  BY <1>1, <1>4
<1>6. derive_rsa(s, q, m, truth).success = good
  <2> DEFINE b == IF good THEN TRUE ELSE FALSE
  <2> QED BY <1>5
<1>7. derive_rsa(s, q, m, truth).keylog = {master}
  BY <1>5
<1> QED BY <1>2, <1>3, <1>6, <1>7 DEF Genuine

LEMMA RsaTranscript ==
    ASSUME NEW s \in Sessions, s.mode = "rsa", NEW q, Full(s, q)
    PROVE  /\ _extract_handshake_for_session_hash(q) =
                 <<"ClientHello", "ServerHello", "ServerHelloDone", "ClientKeyExchange">>
           /\ \A m \in {"ClientHello", "ServerHello", "ClientKeyExchange"} : First(Clear(q, {m})) = m
           /\ \E r \in ToSet(q) : r.record.message = "request"
<1>1. 0 \in Direction /\ 1 \in Direction
  BY DEF Direction
<1>2. /\ s.protocol = "tls12" /\ \E r \in ToSet(s.records[0]) : r.message = "request"
      /\ {"ClientHello", "ClientKeyExchange"} \subseteq ToSet(_handshake_messages_from_stream(Sent(s, 0), 0))
      /\ _handshake_messages_from_stream(Sent(s, 1), 1) = <<"ServerHello", "ServerHelloDone">>
  BY RecoveryAssumption
<1>3. q \in Seq(Got)
  BY DEF Full
<1>4. ASSUME NEW d \in Direction
      PROVE  /\ _handshake_messages_from_stream(q, d) = _handshake_messages_from_stream(Sent(s, d), d)
             /\ \A m \in ToSet(_handshake_messages_from_stream(q, d)) :
                   \E r \in ToSet(q) \cap ClearOf({m}) : r.record.message = m
  <2> DEFINE t == Sent(s, d)
             u == UpToCcs(t)
  <2>1. t \in Seq(Got) /\ Only(q, Of(d)) = t /\ ToSet(t) \subseteq ToSet(q) /\ \A r \in ToSet(t) : r.dir = d
    BY DEF Full
  <2> HIDE DEF t
  <2>2. \A r \in ToSet(t) : r \in Got
    BY <2>1 DEF ToSet
  <2>3. ToSet(t) \subseteq Of(d)
    BY <2>1, <2>2 DEF Of
  <2>4. Only(t, Of(d)) = t
    BY <2>1, <2>3, OnlyAll
  <2>5. _handshake_messages_from_stream(t, d) = Clear(u, RsaMessages)
    BY <2>1, <2>4, OfIs
  <2>6. _handshake_messages_from_stream(q, d) = Clear(u, RsaMessages)
    BY <1>3, <2>1, OfIs
  <2>7. u \in Seq(Got) /\ ToSet(u) \subseteq ToSet(t)
    BY <2>1, UpToCcsIs
  <2> HIDE DEF u
  <2>8. ToSet(Clear(u, RsaMessages)) = {r.record.message : r \in ToSet(u) \cap ClearOf(RsaMessages)}
    BY <2>7, ClearIs
  <2>9. ASSUME NEW m \in ToSet(Clear(u, RsaMessages)) PROVE \E r \in ToSet(q) \cap ClearOf({m}) : r.record.message = m
    <3>1. PICK r \in ToSet(u) \cap ClearOf(RsaMessages) : r.record.message = m
      BY <2>8
    <3>2. r \in ClearOf({m}) /\ r \in ToSet(q)
      BY <2>1, <2>7, <3>1 DEF ClearOf
    <3> QED BY <3>1, <3>2
  <2> QED BY <2>5, <2>6, <2>9 DEF t
<1> DEFINE client == _handshake_messages_from_stream(q, 0)
           server == _handshake_messages_from_stream(q, 1)
<1>5. {"ClientHello", "ClientKeyExchange"} \subseteq ToSet(client)
  BY <1>1, <1>2, <1>4
<1>6. server = <<"ServerHello", "ServerHelloDone">>
  BY <1>1, <1>2, <1>4
<1>7. "ServerHello" \in ToSet(server)
  <2>1. server[1] = "ServerHello" /\ 1 \in DOMAIN server
    BY <1>6
  <2> QED BY <2>1 DEF ToSet
<1>8. \A m \in {"ClientHello", "ServerHello", "ClientKeyExchange"} : \E r \in ToSet(q) \cap ClearOf({m}) : r.record.message = m
  BY <1>1, <1>4, <1>5, <1>7
<1>9. ASSUME NEW m \in {"ClientHello", "ServerHello", "ClientKeyExchange"} PROVE First(Clear(q, {m})) = m
  <2>1. ToSet(q) \cap ClearOf({m}) # {}
    BY <1>8
  <2>2. PICK r \in ToSet(q) \cap ClearOf({m}) : First(Clear(q, {m})) = r.record.message
    BY <1>3, <2>1, FirstClear
  <2> QED BY <2>2 DEF ClearOf
<1>10. _extract_handshake_for_session_hash(q) = <<"ClientHello">> \o server \o <<"ClientKeyExchange">>
  <2> HIDE DEF client
  <2>1. server # <<>>
    BY <1>6
  <2> HIDE DEF server
  <2> QED BY <1>5, <2>1 DEF _extract_handshake_for_session_hash, client, server
<1>11. <<"ClientHello">> \o server \o <<"ClientKeyExchange">> =
          <<"ClientHello", "ServerHello", "ServerHelloDone", "ClientKeyExchange">>
  <2> DEFINE T == RsaMessages
  <2>1. "ClientHello" \in T /\ "ServerHello" \in T /\ "ServerHelloDone" \in T /\ "ClientKeyExchange" \in T
    BY DEF RsaMessages
  <2> HIDE DEF T, server
  <2> QED BY <1>6, <2>1, FourJoin
<1>12. \E r \in ToSet(q) : r.record.message = "request"
  <2>1. PICK i \in 1..Len(s.records[0]) : s.records[0][i].message = "request"
    <3>1. DOMAIN s.records[0] = 1..Len(s.records[0])
      BY <1>1, UptoIs
    <3> QED BY <1>2, <3>1 DEF ToSet
  <2>2. Sent(s, 0) \in Seq(Got) /\ Len(Sent(s, 0)) = Len(s.records[0]) /\ Sent(s, 0)[i].record = s.records[0][i]
    BY <1>1, <2>1, SentIs
  <2>3. Sent(s, 0)[i] \in ToSet(Sent(s, 0))
    BY <2>1, <2>2 DEF ToSet
  <2>4. ToSet(Sent(s, 0)) \subseteq ToSet(q)
    BY <1>1 DEF Full
  <2> QED BY <2>1, <2>2, <2>3, <2>4
<1> QED BY <1>9, <1>10, <1>11, <1>12

LEMMA RsaWorks ==
    ASSUME NEW s \in Sessions, s.mode = "rsa", NEW q, Full(s, q), NEW truth \in BOOLEAN
    PROVE  derive_rsa(s, q, "good", truth).success
<1> DEFINE found == [x \in {"ClientHello", "ServerHello", "ClientKeyExchange"} |-> First(Clear(q, {x}))]
           transcript == _extract_handshake_for_session_hash(q)
           master == IF s.ems THEN derive_extended_master_secret("good", transcript)
                     ELSE derive_master_secret("good", found["ClientHello"], found["ServerHello"])
           bad == (\E x \in DOMAIN found : found[x] = Missing) \/ (s.ems /\ transcript = <<>>)
           good == /\ truth => master = RealMaster(s)
                   /\ verify_tls_http_request(q, {master}, RealMaster(s))
<1>1. derive_rsa(s, q, "good", truth) = IF bad THEN Failure ELSE [success |-> good, keylog |-> {master}]
  BY DEF derive_rsa
<1>2. transcript = <<"ClientHello", "ServerHello", "ServerHelloDone", "ClientKeyExchange">>
      /\ \A x \in {"ClientHello", "ServerHello", "ClientKeyExchange"} : First(Clear(q, {x})) = x
      /\ \E r \in ToSet(q) : r.record.message = "request"
  BY RsaTranscript
<1>3. ~bad
  <2>1. \A x \in DOMAIN found : found[x] = x
    BY <1>2
  <2>2. transcript # <<>>
    <3> HIDE DEF transcript
    <3> QED BY <1>2
  <2> QED BY <2>1, <2>2 DEF Missing
<1>4. master = RealMaster(s)
  <2>1. found["ClientHello"] = "ClientHello" /\ found["ServerHello"] = "ServerHello"
    BY <1>2
  <2> HIDE DEF transcript, found
  <2> QED BY <1>2, <2>1 DEF RealMaster
<1>5. good
  <2> HIDE DEF master
  <2> QED BY <1>2, <1>4 DEF verify_tls_http_request
<1> HIDE DEF good, bad, master
<1>6. derive_rsa(s, q, "good", truth) = [success |-> good, keylog |-> {master}]
  BY <1>1, <1>3
<1>7. derive_rsa(s, q, "good", truth).success = good
  BY <1>6
<1> QED BY <1>5, <1>7

-----------------------------------------------------------------------------
(* The recovery of TLS 1.3.                                                *)

LEMMA FirstSent ==
    ASSUME NEW s \in Sessions, NEW q, Full(s, q), \E r \in ToSet(s.records[0]) : r.message = "request", NEW d \in Direction
    PROVE  /\ Sent(s, d)[1] \in ToSet(q) /\ Sent(s, d)[1] \in Got /\ Sent(s, d)[1].record = s.records[d][1]
           /\ 1 \in DOMAIN s.records[d]
<1>1. 0 \in Direction
  BY DEF Direction
<1>2. Len(s.records[0]) \in Nat \ {0}
  <2>1. DOMAIN s.records[0] = 1..Len(s.records[0]) /\ Len(s.records[0]) \in Nat
    BY <1>1, UptoIs
  <2>2. PICK i \in 1..Len(s.records[0]) : TRUE
    BY <2>1 DEF ToSet
  <2> QED BY <2>1, <2>2
<1>3. Total[TlsFlow] # 0 /\ Total[TlsFlow] \in Nat
  <2> DEFINE n == Len(s.records[0])
  <2>1. 0 \in 0..n /\ n \in 0..n /\ 0 < n
    BY <1>2
  <2>2. Upto(s, 0, 0) = 0 /\ Upto(s, 0, n) = Total[TlsFlow] /\ Upto(s, 0, n) \in Nat
    BY <1>1, <2>1, UptoIs
  <2>3. Upto(s, 0, 0) < Upto(s, 0, n)
    <3> HIDE DEF n
    <3> QED BY <1>1, <2>1, UptoGrows DEF n
  <2> QED BY <2>2, <2>3
<1>4. /\ Len(s.records[d]) \in Nat /\ DOMAIN s.records[d] = 1..Len(s.records[d])
      /\ Upto(s, d, 0) = 0 /\ Upto(s, d, Len(s.records[d])) = Total[TlsFlow]
  BY UptoIs
<1>5. 1 \in 1..Len(s.records[d])
  <2>1. Len(s.records[d]) # 0
    BY <1>3, <1>4
  <2> QED BY <1>4, <2>1
<1>6. Sent(s, d) \in Seq(Got) /\ Len(Sent(s, d)) = Len(s.records[d]) /\ Sent(s, d)[1].record = s.records[d][1]
  <2>1. Sent(s, d) \in Seq(Got) /\ Len(Sent(s, d)) = Len(s.records[d])
    BY SentIs
  <2>2. \A i \in 1..Len(s.records[d]) : Sent(s, d)[i].record = s.records[d][i]
    BY SentIs
  <2> QED BY <1>5, <2>1, <2>2
<1>7. Sent(s, d)[1] \in ToSet(Sent(s, d)) /\ Sent(s, d)[1] \in Got
  BY <1>5, <1>6 DEF ToSet
<1>8. ToSet(Sent(s, d)) \subseteq ToSet(q)
  BY DEF Full
<1> QED BY <1>4, <1>5, <1>6, <1>7, <1>8

LEMMA HelloFound ==
    ASSUME NEW s \in Sessions, NEW q, Full(s, q), \E r \in ToSet(s.records[0]) : r.message = "request",
           \A r \in ToSet(q) : r.record.message # "HelloRetryRequest"
    PROVE  /\ s.records[1][1].message = "ServerHello"
           /\ extract_tls_hello_pair(q) = RealHello
<1>1. 0 \in Direction /\ 1 \in Direction
  BY DEF Direction
<1>2. q \in Seq(Got)
  BY DEF Full
<1>3. \A d \in Direction : /\ Sent(s, d)[1] \in ToSet(q) /\ Sent(s, d)[1] \in Got /\ Sent(s, d)[1].record = s.records[d][1]
                           /\ 1 \in DOMAIN s.records[d]
  BY FirstSent
<1>4. s.records[1][1].message # "HelloRetryRequest"
  BY <1>1, <1>3
<1>5. s.records[1][1].message = "ServerHello" /\ Protected(s) /\ s.records[0][1].message = "ClientHello"
  BY <1>4, SessionsAssumption DEF Protected
<1>6. ASSUME NEW d \in Direction PROVE ~s.records[d][1].sealed
  <2> DEFINE r == s.records[d][1]
  <2>1. r.sealed <=> r.type = "application" \/ \E j \in 1..(1 - 1) : s.records[d][j].type = "ccs"
    BY <1>3, <1>5 DEF Protected
  <2>2. r.type = "handshake"
    BY SessionIs
  <2> HIDE DEF r
  <2>3. 1..(1 - 1) = {}
    OBVIOUS
  <2>4. ~r.sealed
    BY <2>1, <2>2, <2>3
  <2> QED BY <2>4 DEF r
<1>7. Sent(s, 0)[1] \in ToSet(q) \cap ClearOf({"ClientHello"})
  BY <1>1, <1>3, <1>5, <1>6 DEF ClearOf
<1>8. Sent(s, 1)[1] \in ToSet(q) \cap ClearOf({"ServerHello", "HelloRetryRequest"})
  BY <1>1, <1>3, <1>5, <1>6 DEF ClearOf
<1>9. First(Clear(q, {"ClientHello"})) = "ClientHello"
  <2>1. PICK r \in ToSet(q) \cap ClearOf({"ClientHello"}) : First(Clear(q, {"ClientHello"})) = r.record.message
    BY <1>2, <1>7, FirstClear
  <2> QED BY <2>1 DEF ClearOf
<1>10. First(Clear(q, {"ServerHello", "HelloRetryRequest"})) = "ServerHello"
  <2>1. PICK r \in ToSet(q) \cap ClearOf({"ServerHello", "HelloRetryRequest"}) :
           First(Clear(q, {"ServerHello", "HelloRetryRequest"})) = r.record.message
    BY <1>2, <1>8, FirstClear
  <2> QED BY <2>1 DEF ClearOf
<1> QED BY <1>5, <1>9, <1>10 DEF extract_tls_hello_pair, RealHello

OpenedOf == {r \in Got : r.record.sealed /\ r.record.message \in ToSet(RealFlight) \union {"ClientFinished"}}

LEMMA OpenedIs ==
    ASSUME NEW q \in Seq(Got)
    PROVE  extract_decrypted_handshake(q, {HandshakeSecret(RealHello)}) = Messages(Only(q, OpenedOf))
<1> DEFINE S == {r \in ToSet(q) : /\ r.record.sealed /\ HandshakeSecret(RealHello) \in {HandshakeSecret(RealHello)}
                                  /\ r.record.message \in ToSet(RealFlight) \union {"ClientFinished"}}
<1>1. extract_decrypted_handshake(q, {HandshakeSecret(RealHello)}) = Messages(Only(q, S))
  BY DEF extract_decrypted_handshake, Messages
<1>2. \A x \in ToSet(q) : x \in Got
  BY DEF ToSet
<1>3. \A x \in ToSet(q) : x \in S <=> x \in OpenedOf
  BY <1>2 DEF OpenedOf
<1> HIDE DEF S
<1>4. Only(q, S) = Only(q, OpenedOf)
  BY <1>3, OnlySame
<1> QED BY <1>1, <1>4

\* The server's Finished is before the client's.
ServerFirst(q) ==
    \A i, j \in DOMAIN q :
        q[i].record.message = "ServerFinished" /\ q[j].record.message = "ClientFinished" => i < j

LEMMA ServerFirstLess ==
    ASSUME NEW q \in Seq(Got), NEW x \in Got
    PROVE  ServerFirst(Append(q, x)) <=>
              /\ ServerFirst(q)
              /\ x.record.message = "ServerFinished" => ~\E r \in ToSet(q) : r.record.message = "ClientFinished"
<1> DEFINE a == Append(q, x)
           n == Len(q)
<1>1. n \in Nat /\ DOMAIN q = 1..n /\ DOMAIN a = 1..(n + 1) /\ a[n + 1] = x /\ \A i \in 1..n : a[i] = q[i]
  <2>1. Len(q) \in Nat /\ DOMAIN q = 1..Len(q) /\ DOMAIN Append(q, x) = 1..(Len(q) + 1)
    BY AppendIs
  <2>2. Append(q, x)[Len(q) + 1] = x /\ \A i \in 1..Len(q) : Append(q, x)[i] = q[i]
    OBVIOUS
  <2> QED BY <2>1, <2>2
<1> HIDE DEF a, n
<1>2. \A i \in 1..n : i \in 1..(n + 1) /\ i < n + 1 /\ ~(n + 1 < i)
  BY <1>1
<1>3. n + 1 \in 1..(n + 1) /\ \A i \in 1..(n + 1) : i = n + 1 \/ i \in 1..n
  BY <1>1
<1>4. (\E r \in ToSet(q) : r.record.message = "ClientFinished") <=> \E j \in 1..n : q[j].record.message = "ClientFinished"
  BY <1>1 DEF ToSet
<1>5. ASSUME ServerFirst(a)
      PROVE  ServerFirst(q) /\ (x.record.message = "ServerFinished" => ~\E j \in 1..n : q[j].record.message = "ClientFinished")
  BY <1>1, <1>2, <1>3, <1>5 DEF ServerFirst
<1>6. ASSUME ServerFirst(q), x.record.message = "ServerFinished" => ~\E j \in 1..n : q[j].record.message = "ClientFinished"
      PROVE  ServerFirst(a)
  BY <1>1, <1>2, <1>3, <1>6 DEF ServerFirst
<1> QED BY <1>4, <1>5, <1>6 DEF a

LEMMA ServerFirstOnly ==
    ASSUME NEW q \in Seq(Got), NEW S, ServerFirst(q)
    PROVE  ServerFirst(Only(q, S))
<1> DEFINE Good == {t \in Seq(Got) : ServerFirst(t) => ServerFirst(Only(t, S))}
<1>1. <<>> \in Good
  BY OnlyNone
<1>2. ASSUME NEW t \in Seq(Got), NEW x \in Got, t \in Good PROVE Append(t, x) \in Good
  <2> DEFINE k == Only(t, S)
             a == Append(t, x)
  <2>1. k \in Seq(Got) /\ ToSet(k) = ToSet(t) \cap S
    BY OnlyHolds
  <2>2. Only(a, S) = IF x \in S THEN Append(k, x) ELSE k
    BY OnlyMore
  <2>3. ServerFirst(t) => ServerFirst(k)
    BY <1>2
  <2> HIDE DEF k
  <2>4. ServerFirst(a) <=> /\ ServerFirst(t)
                           /\ x.record.message = "ServerFinished" => ~\E r \in ToSet(t) : r.record.message = "ClientFinished"
    BY ServerFirstLess
  <2>5. ServerFirst(Append(k, x)) <=>
           /\ ServerFirst(k)
           /\ x.record.message = "ServerFinished" => ~\E r \in ToSet(k) : r.record.message = "ClientFinished"
    BY <2>1, ServerFirstLess
  <2>6. ServerFirst(a) => ServerFirst(Only(a, S))
    BY <2>1, <2>2, <2>3, <2>4, <2>5
  <2>7. Append(t, x) \in Seq(Got)
    OBVIOUS
  <2> QED BY <2>6, <2>7
<1> HIDE DEF Good
<1>3. Seq(Got) \subseteq Good
  BY <1>1, <1>2, SeqInduction
<1> QED BY <1>3 DEF Good

LEMMA MessagesAppend ==
    ASSUME NEW q \in Seq(Got), NEW x \in Got
    PROVE  Messages(Append(q, x)) = Append(Messages(q), x.record.message)
<1> DEFINE F == [r \in Got |-> r.record.message]
<1>1. \A r \in Got : r.record.message \in STRING
  BY DEF Got, AnyRecord
<1>2. F \in [Got -> STRING] /\ \A r \in Got : F[r] = r.record.message
  BY <1>1
<1> HIDE DEF F
<1>3. MapFacts(Got, STRING, F, q, x)
  BY <1>2, MapMore
<1>4. Mapped(Append(q, x), F) = Append(Mapped(q, F), F[x]) /\ Append(q, x) \in Seq(Got)
  BY <1>3 DEF MapFacts
<1>5. \A u \in Seq(Got) : Mapped(u, F) = Messages(u)
  <2>1. SUFFICES ASSUME NEW u \in Seq(Got) PROVE Mapped(u, F) = Messages(u)
    OBVIOUS
  <2>2. \A i \in DOMAIN u : F[u[i]] = u[i].record.message
    BY <1>2
  <2> QED BY <2>2 DEF Mapped, Messages
<1> QED BY <1>2, <1>4, <1>5

\* All protected handshake messages came: they are the server's flight, then
\* the client's Finished.
LEMMA FlightIs ==
    ASSUME NEW s \in Sessions, NEW q, Full(s, q), ServerFirst(q),
           extract_decrypted_handshake(Sent(s, 0), {HandshakeSecret(RealHello)}) = <<"ClientFinished">>,
           extract_decrypted_handshake(Sent(s, 1), {HandshakeSecret(RealHello)}) = RealFlight
    PROVE  extract_decrypted_handshake(q, {HandshakeSecret(RealHello)}) = Append(RealFlight, "ClientFinished")
<1> DEFINE o == Only(q, OpenedOf)
<1>1. 0 \in Direction /\ 1 \in Direction /\ Direction = {0, 1}
  BY DEF Direction
<1>2. q \in Seq(Got) /\ q \in Seq(Sending(s))
  BY DEF Full
<1>3. o \in Seq(Got) /\ o \in Seq(Sending(s)) /\ ServerFirst(o)
  BY <1>2, OnlyHolds, ServerFirstOnly
<1>4. ASSUME NEW d \in Direction
      PROVE  Messages(Only(o, Of(d))) = extract_decrypted_handshake(Sent(s, d), {HandshakeSecret(RealHello)})
  <2>1. Only(q, Of(d)) = Sent(s, d) /\ Sent(s, d) \in Seq(Got)
    BY DEF Full
  <2>2. Only(o, Of(d)) = Only(q, OpenedOf \cap Of(d)) /\ Only(Only(q, Of(d)), OpenedOf) = Only(q, Of(d) \cap OpenedOf)
    BY <1>2, OnlyOnly
  <2>3. OpenedOf \cap Of(d) = Of(d) \cap OpenedOf
    OBVIOUS
  <2>4. Only(o, Of(d)) = Only(Sent(s, d), OpenedOf)
    BY <2>1, <2>2, <2>3
  <2>5. extract_decrypted_handshake(Sent(s, d), {HandshakeSecret(RealHello)}) = Messages(Only(Sent(s, d), OpenedOf))
    BY <2>1, OpenedIs
  <2> QED BY <2>4, <2>5
<1>5. extract_decrypted_handshake(q, {HandshakeSecret(RealHello)}) = Messages(o)
  BY <1>2, OpenedIs
<1> HIDE DEF o
<1> DEFINE a == Only(o, Of(0))
           b == Only(o, Of(1))
<1>6. /\ a \in Seq(Got) /\ b \in Seq(Got)
      /\ ToSet(a) = ToSet(o) \cap Of(0) /\ ToSet(b) = ToSet(o) \cap Of(1)
  BY <1>3, OnlyHolds
<1>7. Messages(a) = <<"ClientFinished">> /\ Messages(b) = RealFlight
  BY <1>1, <1>4
<1>8. Len(a) = 1 /\ a[1].record.message = "ClientFinished"
  <2> HIDE DEF a
  <2>1. Len(Messages(a)) = Len(a) /\ \A i \in 1..Len(a) : Messages(a)[i] = a[i].record.message
    BY <1>6, MessagesAre
  <2>2. Len(Messages(a)) = 1 /\ Messages(a)[1] = "ClientFinished"
    BY <1>7
  <2> QED BY <2>1, <2>2
<1>9. Len(b) = 2 /\ b[2].record.message = "ServerFinished"
  <2> HIDE DEF b
  <2>1. Len(Messages(b)) = Len(b) /\ \A i \in 1..Len(b) : Messages(b)[i] = b[i].record.message
    BY <1>6, MessagesAre
  <2>2. Len(Messages(b)) = 2 /\ Messages(b)[2] = "ServerFinished"
    BY <1>7 DEF RealFlight
  <2> QED BY <2>1, <2>2
<1>10. o # <<>>
  <2>1. SUFFICES ASSUME o = <<>> PROVE FALSE
    OBVIOUS
  <2>2. a = <<>>
    BY <2>1, OnlyNone
  <2> HIDE DEF a
  <2> QED BY <1>8, <2>2
<1>11. PICK p \in Seq(Sending(s)) : o = Append(p, o[Len(o)]) /\ o[Len(o)] \in Sending(s)
  BY <1>3, <1>10, LastOff
<1> DEFINE l == o[Len(o)]
<1>12. o = Append(p, l) /\ l \in Sending(s) /\ p \in Seq(Sending(s)) /\ p \in Seq(Got)
  BY <1>11, SendingGot
<1>13. l \in Got /\ l.dir \in Direction
  BY <1>12, SendingIs
<1> HIDE DEF l
<1> DEFINE a1 == Only(p, Of(0))
           b1 == Only(p, Of(1))
<1>14. a = (IF l \in Of(0) THEN Append(a1, l) ELSE a1) /\ b = IF l \in Of(1) THEN Append(b1, l) ELSE b1
  BY <1>12, <1>13, OnlyMore
<1>15. /\ a1 \in Seq(Got) /\ b1 \in Seq(Got)
       /\ ToSet(a1) = ToSet(p) \cap Of(0) /\ ToSet(b1) = ToSet(p) \cap Of(1)
  BY <1>12, OnlyHolds
<1>16. ServerFirst(p) /\ (l.record.message = "ServerFinished" => ~\E r \in ToSet(p) : r.record.message = "ClientFinished")
  BY <1>3, <1>12, <1>13, ServerFirstLess
<1> HIDE DEF a, b
<1>17. l \in Of(0) /\ l \notin Of(1)
  <2>1. SUFFICES ASSUME l.dir = 1 PROVE FALSE
    BY <1>1, <1>13 DEF Of
  <2>2. l \in Of(1) /\ l \notin Of(0)
    BY <1>13, <2>1 DEF Of
  <2>3. a = a1 /\ b = Append(b1, l)
    BY <1>14, <2>2
  <2> HIDE DEF a1, b1
  <2>4. Len(Append(b1, l)) = Len(b1) + 1 /\ Append(b1, l)[Len(b1) + 1] = l /\ Len(b1) \in Nat
    BY <1>13, <1>15
  <2>5. l.record.message = "ServerFinished"
    <3>1. Len(b1) + 1 = 2
      BY <1>9, <2>3, <2>4
    <3> QED BY <1>9, <2>3, <2>4, <3>1
  <2>6. a[1] \in ToSet(a)
    <3>1. DOMAIN a = 1..1
      BY <1>6, <1>8
    <3> QED BY <3>1 DEF ToSet
  <2>7. a[1] \in ToSet(p)
    BY <1>15, <2>3, <2>6
  <2> QED BY <1>8, <1>16, <2>5, <2>7
<1>18. a = Append(a1, l) /\ b = b1
  BY <1>14, <1>17
<1> HIDE DEF a1, b1
<1>19. a1 = <<>> /\ l = a[1]
  <2>1. Len(Append(a1, l)) = Len(a1) + 1 /\ Append(a1, l)[Len(a1) + 1] = l /\ Len(a1) \in Nat
    BY <1>13, <1>15
  <2>2. Len(a1) = 0
    BY <1>8, <1>18, <2>1
  <2> QED BY <1>15, <1>18, <2>1, <2>2
<1>20. p = b
  <2>1. ASSUME NEW r \in ToSet(p) PROVE r \in Of(1)
    <3>1. r \in Sending(s)
      BY <1>12 DEF ToSet
    <3>2. r \in Got /\ r.dir \in Direction
      BY <3>1, SendingIs
    <3>3. ToSet(a1) = {}
      <4>1. ToSet(<<>>) = {}
        BY DEF ToSet
      <4> QED BY <1>19, <4>1
    <3>4. r \notin Of(0)
      BY <1>15, <3>3
    <3> QED BY <1>1, <3>2, <3>4 DEF Of
  <2>2. Only(p, Of(1)) = p
    BY <1>12, <2>1, OnlyAll
  <2> QED BY <1>18, <2>2 DEF b1
<1>21. Messages(o) = Append(Messages(p), l.record.message)
  BY <1>12, <1>13, MessagesAppend
<1> QED BY <1>5, <1>7, <1>8, <1>19, <1>20, <1>21

FlightMessages == {"EncryptedExtensions", "ServerFinished", "ClientFinished"}

LEMMA FlightFacts ==
    /\ RealFlight \in Seq(FlightMessages) /\ Len(RealFlight) = 2
    /\ RealFlight[1] = "EncryptedExtensions" /\ RealFlight[2] = "ServerFinished"
    /\ LET f == Append(RealFlight, "ClientFinished")
       IN  /\ f \in Seq(FlightMessages) /\ Len(f) = 3 /\ DOMAIN f = 1..3
           /\ f[1] = "EncryptedExtensions" /\ f[2] = "ServerFinished" /\ f[3] = "ClientFinished"
<1>1. "EncryptedExtensions" \in FlightMessages /\ "ServerFinished" \in FlightMessages /\ "ClientFinished" \in FlightMessages
  BY DEF FlightMessages
<1> DEFINE f == Append(<<"EncryptedExtensions", "ServerFinished">>, "ClientFinished")
<1>2. /\ <<"EncryptedExtensions", "ServerFinished">> \in Seq(FlightMessages)
      /\ Len(<<"EncryptedExtensions", "ServerFinished">>) = 2
      /\ <<"EncryptedExtensions", "ServerFinished">>[1] = "EncryptedExtensions"
      /\ <<"EncryptedExtensions", "ServerFinished">>[2] = "ServerFinished"
      /\ f \in Seq(FlightMessages) /\ Len(f) = 3 /\ DOMAIN f = 1..3
      /\ f[1] = "EncryptedExtensions" /\ f[2] = "ServerFinished" /\ f[3] = "ClientFinished"
  <2>1. Triple(FlightMessages, "EncryptedExtensions", "ServerFinished", "ClientFinished")
    BY <1>1, PairAppend
  <2> QED BY <2>1, Zenon DEF Triple
<1>3. RealFlight = <<"EncryptedExtensions", "ServerFinished">>
  BY DEF RealFlight
<1> QED BY <1>2, <1>3, Zenon

LEMMA FlightEnds == UpToFinished(Append(RealFlight, "ClientFinished")) = RealFlight
<1> DEFINE f == Append(RealFlight, "ClientFinished")
           ends == {i \in DOMAIN f : f[i] \in {"ServerFinished", "ClientFinished"}}
<1>1. /\ RealFlight \in Seq(FlightMessages) /\ Len(RealFlight) = 2
      /\ RealFlight[1] = "EncryptedExtensions" /\ RealFlight[2] = "ServerFinished"
  BY FlightFacts
<1>2. /\ f \in Seq(FlightMessages) /\ Len(f) = 3 /\ DOMAIN f = 1..3
      /\ f[1] = "EncryptedExtensions" /\ f[2] = "ServerFinished" /\ f[3] = "ClientFinished"
  BY FlightFacts
<1> HIDE DEF f
<1>3. 1..3 = {1, 2, 3}
  OBVIOUS
<1>4. ends = {2, 3}
  BY <1>2, <1>3
<1>5. UpToFinished(f) = IF ends = {} THEN f ELSE SubSeq(f, 1, CHOOSE i \in ends : \A j \in ends : i <= j)
  BY DEF UpToFinished
<1> HIDE DEF ends
<1>6. (CHOOSE i \in ends : \A j \in ends : i <= j) = 2
  BY <1>4
<1>7. UpToFinished(f) = SubSeq(f, 1, 2)
  BY <1>4, <1>5, <1>6
<1> DEFINE u == SubSeq(f, 1, 2)
<1>8. u \in Seq(FlightMessages) /\ Len(u) = 2 /\ \A i \in 1..2 : u[i] = f[i]
  BY <1>2, PrefixOf
<1> HIDE DEF u
<1>9. \A i \in 1..2 : u[i] = RealFlight[i]
  BY <1>1, <1>2, <1>8
<1>10. u = RealFlight
  BY <1>1, <1>8, <1>9, SeqEqual
<1> QED BY <1>7, <1>10 DEF u, f

LEMMA OneRttGenuine ==
    ASSUME NEW s, s.protocol = "tls13", NEW q, NEW m \in Materials, NEW truth \in BOOLEAN,
           derive_1rtt(q, m, truth).success
    PROVE  m = "good" /\ derive_1rtt(q, m, truth).keylog = Genuine(s)
<1> DEFINE hello == extract_tls_hello_pair(q)
           hs == HandshakeSecret(hello)
           flight == extract_decrypted_handshake(q, {hs})
           app == AppSecret(hello, UpToFinished(flight))
           bad == \/ m # "good" \/ Missing \in {hello.ch, hello.sh}
                  \/ hello.sh = "HelloRetryRequest"
           good == /\ truth => {hs, app} = {HandshakeSecret(RealHello), RealApp}
                   /\ verify_tls_http_request(q, {hs, app}, RealApp)
<1>1. derive_1rtt(q, m, truth) =
         IF bad THEN Failure
         ELSE IF flight = <<>> THEN [success |-> FALSE, keylog |-> {hs}]
         ELSE [success |-> good, keylog |-> {hs, app}]
  BY DEF derive_1rtt
<1>2. good => RealApp \in {hs, app}
  BY DEF verify_tls_http_request
<1>3. bad \/ m = "good"
  OBVIOUS
<1>4. RealApp \in {hs, app} => {hs, app} = {HandshakeSecret(RealHello), RealApp}
  <2> HIDE DEF flight, hello
  <2> DEFINE f == UpToFinished(flight)
  <2> HIDE DEF f
  <2>1. RealApp = <<"ap", RealHello.ch, RealHello.sh, RealFlight>>
    BY DEF RealApp, AppSecret
  <2>2. hs = <<"hs", hello.ch, hello.sh>>
    BY DEF HandshakeSecret
  <2>3. app = <<"ap", hello.ch, hello.sh, f>>
    BY DEF AppSecret, f
  <2>4. RealApp # hs
    BY <2>1, <2>2
  <2>5. RealApp = app => hello.ch = RealHello.ch /\ hello.sh = RealHello.sh
    BY <2>1, <2>3
  <2>6. RealApp = app => hs = HandshakeSecret(RealHello)
    BY <2>5 DEF HandshakeSecret
  <2> HIDE DEF app, hs
  <2> QED BY <2>4, <2>6
<1> HIDE DEF good, bad, app, hs, flight
<1>5. ~bad
  BY <1>1 DEF Failure
<1>6. flight # <<>>
  <2>1. SUFFICES ASSUME flight = <<>> PROVE FALSE
    OBVIOUS
  <2>2. derive_1rtt(q, m, truth) = [success |-> FALSE, keylog |-> {hs}]
    BY <1>1, <1>5, <2>1
  <2>3. derive_1rtt(q, m, truth).success = FALSE
    BY <2>2
  <2> QED BY <2>3
<1>7. derive_1rtt(q, m, truth) = [success |-> good, keylog |-> {hs, app}]
  BY <1>1, <1>5, <1>6
<1>8. derive_1rtt(q, m, truth).success = good
  BY <1>7
<1>9. derive_1rtt(q, m, truth).keylog = {hs, app}
  BY <1>7
<1> QED BY <1>2, <1>3, <1>4, <1>5, <1>8, <1>9 DEF Genuine

LEMMA OneRttWorks ==
    ASSUME NEW s \in Sessions, s.mode = "1rtt", NEW q, Full(s, q), ServerFirst(q),
           \A r \in ToSet(q) : r.record.message # "HelloRetryRequest", NEW truth \in BOOLEAN
    PROVE  derive_1rtt(q, "good", truth).success
<1> DEFINE hello == extract_tls_hello_pair(q)
           hs == HandshakeSecret(hello)
           flight == extract_decrypted_handshake(q, {hs})
           app == AppSecret(hello, UpToFinished(flight))
           bad == \/ "good" # "good" \/ Missing \in {hello.ch, hello.sh}
                  \/ hello.sh = "HelloRetryRequest"
           good == /\ truth => {hs, app} = {HandshakeSecret(RealHello), RealApp}
                   /\ verify_tls_http_request(q, {hs, app}, RealApp)
<1>1. derive_1rtt(q, "good", truth) =
         IF bad THEN Failure
         ELSE IF flight = <<>> THEN [success |-> FALSE, keylog |-> {hs}]
         ELSE [success |-> good, keylog |-> {hs, app}]
  BY DEF derive_1rtt
<1>2. /\ \E r \in ToSet(s.records[0]) : r.message = "request"
      /\ s.records[1][1].message = "ServerHello" =>
                    /\ extract_decrypted_handshake(Sent(s, 0), {HandshakeSecret(RealHello)}) = <<"ClientFinished">>
                    /\ extract_decrypted_handshake(Sent(s, 1), {HandshakeSecret(RealHello)}) = RealFlight
  BY RecoveryAssumption
<1>3. s.records[1][1].message = "ServerHello" /\ hello = RealHello
  BY <1>2, HelloFound
<1>4. ~bad
  BY <1>3 DEF RealHello, Missing
<1> HIDE DEF hello, bad
<1>5. hs = HandshakeSecret(RealHello)
  BY <1>3
<1>6. flight = Append(RealFlight, "ClientFinished")
  BY <1>2, <1>3, <1>5, FlightIs
<1>7. flight # <<>>
  <2>1. Len(Append(RealFlight, "ClientFinished")) = 3
    BY FlightFacts
  <2> HIDE DEF flight
  <2> QED BY <1>6, <2>1
<1> HIDE DEF flight, hs
<1>8. app = RealApp
  BY <1>3, <1>6, FlightEnds DEF RealApp
<1> HIDE DEF app
<1>9. \E r \in ToSet(q) : r.record.message = "request"
  <2>1. 0 \in Direction
    BY DEF Direction
  <2>2. PICK i \in 1..Len(s.records[0]) : s.records[0][i].message = "request"
    <3>1. DOMAIN s.records[0] = 1..Len(s.records[0])
      BY <2>1, UptoIs
    <3> QED BY <1>2, <3>1 DEF ToSet
  <2>3. Sent(s, 0) \in Seq(Got) /\ Len(Sent(s, 0)) = Len(s.records[0]) /\ Sent(s, 0)[i].record = s.records[0][i]
    <3>1. Sent(s, 0) \in Seq(Got) /\ Len(Sent(s, 0)) = Len(s.records[0])
      BY <2>1, SentIs
    <3>2. \A j \in 1..Len(s.records[0]) : Sent(s, 0)[j].record = s.records[0][j]
      BY <2>1, SentIs
    <3> QED BY <2>2, <3>1, <3>2
  <2>4. Sent(s, 0)[i] \in ToSet(Sent(s, 0))
    BY <2>2, <2>3 DEF ToSet
  <2>5. ToSet(Sent(s, 0)) \subseteq ToSet(q)
    BY <2>1 DEF Full
  <2> QED BY <2>2, <2>3, <2>4, <2>5
<1>10. good
  BY <1>5, <1>8, <1>9 DEF verify_tls_http_request
<1> HIDE DEF good
<1>11. derive_1rtt(q, "good", truth) = [success |-> good, keylog |-> {hs, app}]
  BY <1>1, <1>4, <1>7
<1>12. derive_1rtt(q, "good", truth).success = good
  BY <1>11
<1> QED BY <1>10, <1>12

-----------------------------------------------------------------------------
(* The recovery from a capture, and from what the archives make of it.     *)

LEMMA DissectedBack ==
    ASSUME NEW s \in Sessions, NEW q \in Seq(Sending(s))
    PROVE  Dissected(s, write_pcap(Plain(q))) = q
<1> DEFINE w == write_pcap(Plain(q))
           c == _tcp_events(w).chunks
<1>1. Plain(q) \in Seq(Chunk)
  BY PlainBytes
<1>2. Bytes(c) = Bytes(Plain(q))
  BY <1>1, WrittenBack DEF WriteBack
<1> HIDE DEF c, w
<1>3. split_tls_records(s, c) = [ok |-> TRUE, records |-> q]
  BY <1>2, SplitRecords
<1>4. Dissected(s, w) = split_tls_records(s, c).records
  BY DEF Dissected, c
<1>5. Dissected(s, w) = q
  BY <1>3, <1>4
<1> QED BY <1>5 DEF w

\* What the compact policy leaves out is not read.
LEMMA RetainedReads ==
    ASSUME NEW s \in Sessions, s.mode \in {"rsa", "1rtt"}, NEW q, InOrder(s, q), NEW m, NEW truth
    PROVE  LET kept == Only(q, {r \in ToSet(q) : Retained(s, r)})
           IN  kept \in Seq(Sending(s)) /\ RecoverFrom(s, kept, m, truth) = RecoverFrom(s, q, m, truth)
<1> DEFINE K == {r \in ToSet(q) : Retained(s, r)}
           kept == Only(q, K)
<1>1. q \in Seq(Sending(s)) /\ q \in Seq(Got)
  BY SendingGot DEF InOrder
<1>2. \A r : r \in K <=> r \in ToSet(q) /\ Retained(s, r)
  OBVIOUS
<1> HIDE DEF K
<1>3. kept \in Seq(Sending(s))
  BY <1>1, OnlyHolds
<1>4. CASE s.mode = "1rtt"
  <2>1. s.protocol = "tls13"
    BY <1>4, RecoveryAssumption
  <2>2. \A r : Retained(s, r)
    BY <1>4, <2>1 DEF Retained
  <2>3. ToSet(q) \subseteq K
    BY <1>2, <2>2
  <2>4. kept = q
    BY <1>1, <2>3, OnlyAll
  <2> HIDE DEF kept
  <2> QED BY <1>3, <2>4 DEF kept, K
<1>5. CASE s.mode = "rsa"
  <2>1. /\ s.protocol = "tls12"
        /\ \A r \in ToSet(s.records[1]) :
              r.type \in {"alert", "application"} =>
                  r.message \notin {"ClientHello", "ServerHello", "ServerHelloDone", "ClientKeyExchange", "request"}
    BY <1>5, RecoveryAssumption
  <2>2. ASSUME NEW r \in ToSet(q), r.record.type = "ccs" \/ r.record.message \in RsaMessages \/ r.record.message = "request"
        PROVE  Retained(s, r)
    <3>1. r.dir \in Direction /\ r.record \in ToSet(s.records[r.dir])
      BY CameFrom
    <3>2. r.dir = 0 \/ r.dir = 1
      BY <3>1 DEF Direction
    <3>3. r.dir = 1 => r.record.type \notin {"alert", "application"}
      <4>1. SUFFICES ASSUME r.dir = 1 PROVE r.record.type \notin {"alert", "application"}
        OBVIOUS
      <4>2. r.record \in ToSet(s.records[1])
        BY <3>1, <4>1
      <4> DEFINE x == r.record
      <4>3. x.type \in {"alert", "application"} =>
               x.message \notin {"ClientHello", "ServerHello", "ServerHelloDone", "ClientKeyExchange", "request"}
        BY <2>1, <4>2
      <4>4. x.type = "ccs" \/ x.message \in RsaMessages \/ x.message = "request"
        BY <2>2
      <4> HIDE DEF x
      <4>5. x.type \notin {"alert", "application"}
        BY <4>3, <4>4 DEF RsaMessages
      <4> QED BY <4>5 DEF x
    <3> QED BY <1>5, <3>2, <3>3 DEF Retained
  <2>3. Keeps(q, K)
    BY <1>2, <2>2 DEF Keeps
  <2>4. derive_rsa(s, kept, m, truth) = derive_rsa(s, q, m, truth)
    BY <1>1, <2>3, RsaReads
  <2>5. RecoverFrom(s, kept, m, truth) = RecoverFrom(s, q, m, truth)
    BY <2>1, <2>4 DEF RecoverFrom
  <2> QED BY <1>3, <2>5 DEF kept, K
<1> QED BY <1>4, <1>5

LEMMA RecoverIs ==
    ASSUME NEW s, NEW segments, NEW m, NEW truth
    PROVE  Recover(s, segments, m, truth) = RecoverFrom(s, Dissected(s, segments), m, truth)
BY DEF Recover, RecoverFrom

\* A recovery from a capture (derive_rsa, derive_1rtt) that succeeds had the
\* right key and gives the secrets of the endpoints, with or without ground
\* truth; one from a whole session succeeds.  From the compact archive of the
\* policies and from the MinARX container it gives what the raw PCAP gives.
THEOREM ArchivesRecoverAlike == Spec => []RecoveryIsFaithful
<1>1. ASSUME Fit(rows) PROVE RecoveryIsFaithful
  <2>1. SUFFICES ASSUME Whole, NEW s \in Sessions, s.mode \in {"rsa", "1rtt"}, NEW m \in Materials, NEW truth \in BOOLEAN
        PROVE  LET compact   == _tls_record_events(s, _tcp_events(rows))
                   container == compact_tls_pcaps(s, <<Extracted.chunks>>)
                   raw       == Recover(s, rows, m, truth)
               IN  /\ raw.success => m = "good" /\ raw.keylog = Genuine(s)
                   /\ Complete(s) /\ m = "good" => raw.success
                   /\ compact.ok => Recover(s, _write_tcp_pcap(compact.chunks), m, truth) = raw
                   /\ container.ok => Recover(s, materialize_tls_pcaps(container).pcaps[1], m, truth) = raw
    BY DEF RecoveryIsFaithful
  <2> DEFINE q == Split(s).records
             raw == Recover(s, rows, m, truth)
             compact == _tls_record_events(s, _tcp_events(rows))
             container == compact_tls_pcaps(s, <<Extracted.chunks>>)
             kept == Only(q, {r \in ToSet(q) : Retained(s, r)})
  <2>2. SplitFacts(s)
    BY <1>1, <2>1, WholeSplit
  <2>3. InOrder(s, q) /\ q \in Seq(Sending(s)) /\ split_tls_records(s, _tcp_events(rows).chunks) = Split(s)
    BY <2>2 DEF SplitFacts, InOrder
  <2>4. Dissected(s, rows) = q
    BY <2>3 DEF Dissected
  <2>5. raw = RecoverFrom(s, q, m, truth)
    BY <2>4, RecoverIs
  <2>6. s.mode = "rsa" => s.protocol = "tls12"
    BY <2>1, RecoveryAssumption
  <2>7. s.mode = "1rtt" => s.protocol = "tls13"
    BY <2>1, RecoveryAssumption
  <2>8. kept \in Seq(Sending(s)) /\ RecoverFrom(s, kept, m, truth) = raw
    BY <2>1, <2>3, <2>5, RetainedReads
  <2>9. compact.chunks = Plain(kept)
    <3>1. _tls_record_events(s, _tcp_events(rows)) =
             [ok     |-> _tcp_events(rows).ok /\ Split(s).ok /\ Split(s).records # <<>>,
              chunks |-> [i \in DOMAIN kept |-> [dir |-> kept[i].dir, data |-> kept[i].data]]]
      BY <2>3 DEF _tls_record_events
    <3> HIDE DEF kept
    <3> QED BY <3>1 DEF Plain
  <2>10. Recover(s, _write_tcp_pcap(compact.chunks), m, truth) = raw
    <3> HIDE DEF kept, compact, raw
    <3>1. _write_tcp_pcap(compact.chunks) = write_pcap(Plain(kept))
      BY <2>9 DEF _write_tcp_pcap
    <3>2. Dissected(s, write_pcap(Plain(kept))) = kept
      BY <2>1, <2>8, DissectedBack
    <3>3. Dissected(s, _write_tcp_pcap(compact.chunks)) = kept
      BY <3>1, <3>2
    <3> QED BY <2>8, <3>3, RecoverIs
  <2>11. Recover(s, materialize_tls_pcaps(container).pcaps[1], m, truth) = raw
    <3> DEFINE c == Extracted.chunks
    <3>1. <<c>> = Times(1, c)
      BY OneAndTwo
    <3>2. split_tls_records(s, c).records \in Seq(Sending(s))
      BY <2>3 DEF Split
    <3> HIDE DEF c
    <3>3. Restores(s, split_tls_records(s, c).records, split_tls_records(s, c).ok, 1, compact_tls_pcaps(s, Times(1, c)))
      BY <2>1, <3>2, ArchiveRestores
    <3>4. \A i \in 1..1 : materialize_tls_pcaps(compact_tls_pcaps(s, <<c>>)).pcaps[i] =
                             write_pcap(Plain(split_tls_records(s, c).records))
      BY <3>1, <3>3 DEF Restores
    <3>5. 1 \in 1..1
      OBVIOUS
    <3>6. materialize_tls_pcaps(container).pcaps[1] = write_pcap(Plain(q))
      BY <3>4, <3>5, Zenon DEF Split, c
    <3> HIDE DEF q, container, raw
    <3>7. Dissected(s, write_pcap(Plain(q))) = q
      BY <2>1, <2>3, DissectedBack
    <3>8. Dissected(s, materialize_tls_pcaps(container).pcaps[1]) = q
      BY <3>6, <3>7
    <3> QED BY <2>5, <3>8, RecoverIs
  <2> HIDE DEF q, raw
  <2>12. ASSUME raw.success PROVE m = "good" /\ raw.keylog = Genuine(s)
    <3>1. CASE s.mode = "rsa"
      <4>1. s.protocol = "tls12" /\ raw = derive_rsa(s, q, m, truth)
        BY <2>5, <2>6, <3>1 DEF RecoverFrom
      <4> QED BY <2>1, <2>12, <4>1, RsaGenuine
    <3>2. CASE s.mode = "1rtt"
      <4>1. s.protocol = "tls13" /\ raw = derive_1rtt(q, m, truth)
        BY <2>5, <2>7, <3>2 DEF RecoverFrom
      <4> QED BY <2>1, <2>12, <4>1, OneRttGenuine
    <3> QED BY <2>1, <3>1, <3>2
  <2>13. ASSUME Complete(s), m = "good" PROVE raw.success
    <3> DEFINE At(x) == {i \in DOMAIN q : q[i].record.message = x}
    <3>1. /\ Len(q) = Len(s.records[0]) + Len(s.records[1])
          /\ At("HelloRetryRequest") = {}
          /\ \A i \in At("ServerFinished"), j \in At("ClientFinished") : i < j
      BY <2>4, <2>13 DEF Complete
    <3>2. Full(s, q)
      BY <2>1, <2>3, <3>1, AllCame DEF q
    <3>3. CASE s.mode = "rsa"
      <4>1. raw = derive_rsa(s, q, "good", truth)
        BY <2>5, <2>6, <2>13, <3>3 DEF RecoverFrom
      <4> QED BY <2>1, <3>2, <3>3, <4>1, RsaWorks
    <3>4. CASE s.mode = "1rtt"
      <4>1. raw = derive_1rtt(q, "good", truth)
        BY <2>5, <2>7, <2>13, <3>4 DEF RecoverFrom
      <4>2. ServerFirst(q)
        BY <3>1 DEF ServerFirst
      <4>3. \A r \in ToSet(q) : r.record.message # "HelloRetryRequest"
        BY <3>1 DEF ToSet
      <4> QED BY <2>1, <3>2, <3>4, <4>1, <4>2, <4>3, OneRttWorks
    <3> QED BY <2>1, <3>3, <3>4
  <2> QED BY <2>10, <2>11, <2>12, <2>13 DEF raw
<1>2. Spec => []Fit(rows)
  BY RowsFit
<1> QED BY <1>1, <1>2, PTL
=============================================================================
