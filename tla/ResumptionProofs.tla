-------------------------- MODULE ResumptionProofs --------------------------
(***************************************************************************)
(* A 0-RTT capture and the causality test of its archive.                  *)
(*                                                                         *)
(* First what the capture leaves in its recovery files, for every number   *)
(* of tickets, however late the reader of the server's stderr is; and,     *)
(* when the reader keeps up with the code's pauses, that each file is the  *)
(* pair of its own connection.                                             *)
(*                                                                         *)
(* Then the test.  Its script is a sequence, so what a part of it does to  *)
(* the archive is a function along that part (Follows), and what the whole *)
(* does follows from its pieces (PlaysBoth): every script puts back what   *)
(* it took (ScriptRestores).  What a recovery returns is computed for      *)
(* symbolic secrets (RecoverIsExact), so a run's results are known at      *)
(* every step of the script that it has reached (Running).                 *)
(***************************************************************************)
EXTENDS PskCausality, SequenceLemmas

Pair == [priv : 0..3, pub : 0..3]
Line == [field : {"priv", "pub"}, value : 1..3]
Points == {"client1", "snapshot1", "client2", "snapshot2", "client3", "restore",
           "persist1", "public1", "persist2", "public2", "manifest", "captured", "raised"}

\* The types of the variables that the arguments are about.
Typed ==
    /\ pipe \in Seq(Line) /\ store \in Pair /\ phase1 \in Pair /\ phase2 \in Pair
    /\ taken \in 0..3 /\ oracle \in [1..2 -> Pair] /\ manifest \in BOOLEAN
    /\ cpc \in Points

UpTo2(pair) == pair.priv <= 2 /\ pair.pub <= 2
Complete(pair) == pair.priv /= 0 /\ pair.pub /= 0

\* Until the grandchild connects nothing of it can be in the pipe or the
\* store, and from then on phase 2's copy is out of the reader's reach.
PastInv ==
    /\ cpc \in {"client1", "snapshot1", "client2", "snapshot2", "client3"} =>
         /\ UpTo2(store)
         /\ \A i \in DOMAIN pipe : pipe[i].value <= 2
    /\ UpTo2(phase2) /\ UpTo2(oracle[2])
    /\ cpc = "public2" => taken <= 2
    /\ ~Fresh => oracle[2] = NoFile /\ cpc \notin {"persist2", "public2"}

\* The order in which the files are written.
FilesInv ==
    /\ cpc \in {"persist2", "public2", "manifest", "captured"} => Complete(oracle[1])
    /\ cpc \in {"manifest", "captured"} /\ Fresh => Complete(oracle[2])
    /\ manifest => cpc = "captured"

CapInv == Typed /\ PastInv /\ FilesInv
-----------------------------------------------------------------------------
(* What one line of the pipe and one connection do to it.                  *)

LEMMA LineRead ==
    ASSUME pipe \in Seq(Line), store \in Pair, pipe /= <<>>
    PROVE  /\ Head(pipe) \in Line /\ Head(pipe) = pipe[1] /\ 1 \in DOMAIN pipe
           /\ Tail(pipe) \in Seq(Line)
           /\ \A i \in DOMAIN Tail(pipe) : i + 1 \in DOMAIN pipe /\ Tail(pipe)[i] = pipe[i + 1]
           /\ [store EXCEPT ![Head(pipe).field] = Head(pipe).value] \in Pair
<1>1. Head(pipe) \in Line /\ Head(pipe) = pipe[1] /\ 1 \in DOMAIN pipe
  OBVIOUS
<1>2. Tail(pipe) \in Seq(Line)
  OBVIOUS
<1>3. \A i \in DOMAIN Tail(pipe) : i + 1 \in DOMAIN pipe /\ Tail(pipe)[i] = pipe[i + 1]
  OBVIOUS
<1>4. [store EXCEPT ![Head(pipe).field] = Head(pipe).value] \in Pair
  BY <1>1 DEF Pair, Line
<1> QED BY <1>1, <1>2, <1>3, <1>4

LEMMA LinesAppended ==
    ASSUME pipe \in Seq(Line), NEW c \in 1..3, NEW ticket, Connection(c, ticket)
    PROVE  /\ pipe' \in Seq(Line)
           /\ \A i \in DOMAIN pipe' : \/ i \in DOMAIN pipe /\ pipe'[i] = pipe[i]
                                      \/ pipe'[i].value = c
<1> DEFINE two == <<[field |-> "priv", value |-> c], [field |-> "pub", value |-> c]>>
<1>1. two \in Seq(Line) /\ Len(two) = 2 /\ two[1].value = c /\ two[2].value = c
  BY DEF Line
<1>2. pipe' = pipe \o two \/ pipe' = pipe
  BY DEF Connection
<1>3. CASE pipe' = pipe
  BY <1>3
<1>4. CASE pipe' = pipe \o two
  <2>1. pipe \o two \in Seq(Line) /\ Len(pipe \o two) = Len(pipe) + 2
    BY <1>1
  <2>2. \A i \in 1..(Len(pipe) + 2) :
          (pipe \o two)[i] = IF i <= Len(pipe) THEN pipe[i] ELSE two[i - Len(pipe)]
    BY <1>1
  <2>3. \A i \in 1..(Len(pipe) + 2) : i > Len(pipe) => i - Len(pipe) \in 1..2
    OBVIOUS
  <2>4. \A j \in 1..2 : two[j].value = c
    BY <1>1
  <2> HIDE DEF two
  <2>5. ASSUME NEW i \in DOMAIN (pipe \o two)
        PROVE  \/ i \in DOMAIN pipe /\ (pipe \o two)[i] = pipe[i]
               \/ (pipe \o two)[i].value = c
    <3>1. i \in 1..(Len(pipe) + 2)
      BY <2>1
    <3>2. CASE i <= Len(pipe)
      BY <3>1, <3>2, <2>2
    <3>3. CASE i > Len(pipe)
      BY <3>1, <3>3, <2>2, <2>3, <2>4
    <3> QED BY <3>1, <3>2, <3>3
  <2> QED BY <1>4, <2>1, <2>5
<1> QED BY <1>2, <1>3, <1>4
-----------------------------------------------------------------------------
(* Each step keeps the invariant.                                          *)

LEMMA CaptureInitial == CaptureInit => CapInv
<1> SUFFICES ASSUME CaptureInit PROVE CapInv
  OBVIOUS
<1>1. NoPair \in Pair /\ UpTo2(NoPair)
  BY DEF NoPair, Pair, UpTo2
<1>2. Typed
  <2>1. oracle \in [1..2 -> Pair]
    BY <1>1 DEF CaptureInit, NoFile
  <2>2. pipe \in Seq(Line)
    BY DEF CaptureInit
  <2>3. store \in Pair /\ phase1 \in Pair /\ phase2 \in Pair
    BY <1>1 DEF CaptureInit
  <2>4. taken \in 0..3 /\ cpc \in Points
    BY DEF CaptureInit, Points
  <2>5. manifest \in BOOLEAN
    BY DEF CaptureInit
  <2> QED BY <2>1, <2>2, <2>3, <2>4, <2>5 DEF Typed
<1>3. PastInv
  BY <1>1 DEF CaptureInit, PastInv, NoFile
<1>4. FilesInv
  BY DEF CaptureInit, FilesInv
<1> QED BY <1>2, <1>3, <1>4 DEF CapInv

LEMMA ReadLineKeeps == ASSUME CapInv, ReadLine PROVE CapInv'
<1> USE DEF CapInv
<1>1. Typed /\ pipe /= <<>>
  BY DEF ReadLine
<1>2. /\ Head(pipe) \in Line /\ Head(pipe) = pipe[1] /\ 1 \in DOMAIN pipe
      /\ pipe' \in Seq(Line) /\ store' \in Pair
      /\ \A i \in DOMAIN pipe' : i + 1 \in DOMAIN pipe /\ pipe'[i] = pipe[i + 1]
  BY <1>1, LineRead DEF ReadLine, Typed
<1>3. Typed'
  BY <1>2 DEF ReadLine, Typed, lateVars
<1>4. ASSUME UpTo2(store), \A i \in DOMAIN pipe : pipe[i].value <= 2
      PROVE  UpTo2(store') /\ \A i \in DOMAIN pipe' : pipe'[i].value <= 2
  <2>1. Head(pipe).value <= 2
    BY <1>2, <1>4
  <2>2. UpTo2(store')
    BY <1>1, <1>2, <1>4, <2>1 DEF ReadLine, UpTo2, Line, Pair, Typed
  <2>3. \A i \in DOMAIN pipe' : pipe'[i].value <= 2
    BY <1>2, <1>4
  <2> QED BY <2>2, <2>3
<1>5. PastInv'
  BY <1>4 DEF ReadLine, PastInv, lateVars, Fresh, UpTo2
<1>6. FilesInv'
  BY DEF ReadLine, FilesInv, lateVars, Fresh
<1> QED BY <1>3, <1>5, <1>6

\* What every step of the main thread does to the pipe and to the pairs.
LEMMA MainKeepsTypes == ASSUME CapInv, MainStep PROVE Typed'
<1> USE DEF CapInv, lateVars, hookVars
<1>1. Typed
  OBVIOUS
<1>2. CASE Client1
  <2>1. pipe' \in Seq(Line)
    BY <1>1, <1>2, LinesAppended DEF Client1, Typed
  <2> QED BY <1>1, <1>2, <2>1 DEF Client1, Typed, Points
<1>3. CASE Snapshot1
  BY <1>1, <1>3 DEF Snapshot1, Typed, Points
<1>4. CASE Client2
  <2>1. pipe' \in Seq(Line)
    BY <1>1, <1>4, LinesAppended DEF Client2, Typed
  <2> QED BY <1>1, <1>4, <2>1 DEF Client2, Typed, Points
<1>5. CASE Snapshot2
  BY <1>1, <1>5 DEF Snapshot2, Typed, Points
<1>6. CASE Client3
  <2>1. pipe' \in Seq(Line)
    BY <1>1, <1>6, LinesAppended DEF Client3, Typed
  <2> QED BY <1>1, <1>6, <2>1 DEF Client3, Typed, Points
<1>7. CASE RestorePhase1
  BY <1>1, <1>7 DEF RestorePhase1, Typed, Points
<1>8. ASSUME NEW p \in 1..2, NEW entry \in Pair, TakePrivate(p, entry)
      PROVE  Typed'
  BY <1>1, <1>8 DEF TakePrivate, Typed, Points, Pair
<1>9. ASSUME NEW p \in 1..2, NEW entry \in Pair, PersistPair(p, entry)
      PROVE  Typed'
  <2>1. [priv |-> taken, pub |-> entry.pub] \in Pair
    BY <1>1 DEF Typed, Pair
  <2>2. oracle' \in [1..2 -> Pair]
    BY <1>1, <1>9, <2>1 DEF PersistPair, Typed
  <2>3. cpc' \in Points
    BY <1>9 DEF PersistPair, Points
  <2> QED BY <1>1, <1>9, <2>2, <2>3 DEF PersistPair, Typed
<1>10. CASE Persist
  BY <1>1, <1>8, <1>9, <1>10 DEF Persist, Typed
<1>11. CASE WriteManifest
  BY <1>1, <1>11 DEF WriteManifest, Typed, Points
<1> QED BY <1>2, <1>3, <1>4, <1>5, <1>6, <1>7, <1>10, <1>11 DEF MainStep

LEMMA MainKeepsPast == ASSUME CapInv, MainStep PROVE PastInv'
<1> USE DEF CapInv, lateVars, hookVars, Fresh
<1>1. Typed /\ PastInv
  OBVIOUS
<1>2. ASSUME NEW c \in 1..2, NEW ticket, Connection(c, ticket), UNCHANGED store,
             UpTo2(store), \A i \in DOMAIN pipe : pipe[i].value <= 2
      PROVE  UpTo2(store') /\ \A i \in DOMAIN pipe' : pipe'[i].value <= 2
  <2>1. \A i \in DOMAIN pipe' : \/ i \in DOMAIN pipe /\ pipe'[i] = pipe[i]
                                \/ pipe'[i].value = c
    BY <1>1, <1>2, LinesAppended DEF Typed
  <2> QED BY <1>2, <2>1 DEF UpTo2
<1>3. CASE Client1
  BY <1>1, <1>2, <1>3 DEF Client1, PastInv
<1>4. CASE Snapshot1
  BY <1>1, <1>4 DEF Snapshot1, PastInv
<1>5. CASE Client2
  BY <1>1, <1>2, <1>5 DEF Client2, PastInv
<1>6. CASE Snapshot2
  BY <1>1, <1>6 DEF Snapshot2, PastInv, UpTo2
<1>7. CASE Client3
  BY <1>1, <1>7 DEF Client3, PastInv
<1>8. CASE RestorePhase1
  BY <1>1, <1>8 DEF RestorePhase1, PastInv
<1>9. CASE Persist
  <2>1. CASE TakePrivate(1, store)
    BY <1>1, <2>1 DEF TakePrivate, PastInv
  <2>2. CASE PersistPair(1, store)
    BY <1>1, <2>2 DEF PersistPair, PastInv, Typed
  <2>3. CASE TakePrivate(2, phase2)
    BY <1>1, <2>3 DEF TakePrivate, PastInv, UpTo2
  <2>4. CASE PersistPair(2, phase2)
    BY <1>1, <2>4 DEF PersistPair, PastInv, Typed, UpTo2
  <2> QED BY <1>9, <2>1, <2>2, <2>3, <2>4 DEF Persist
<1>10. CASE WriteManifest
  BY <1>1, <1>10 DEF WriteManifest, PastInv
<1> QED BY <1>3, <1>4, <1>5, <1>6, <1>7, <1>8, <1>9, <1>10 DEF MainStep

LEMMA MainKeepsFiles == ASSUME CapInv, MainStep PROVE FilesInv'
<1> USE DEF CapInv, lateVars, hookVars, Fresh
<1>1. Typed /\ PastInv /\ FilesInv
  OBVIOUS
<1>2. CASE Client1 \/ Snapshot1 \/ Client2 \/ Snapshot2 \/ Client3 \/ RestorePhase1
  BY <1>1, <1>2 DEF Client1, Snapshot1, Client2, Snapshot2, Client3, RestorePhase1, FilesInv
<1>3. CASE Persist
  <2>1. CASE TakePrivate(1, store)
    BY <1>1, <2>1 DEF TakePrivate, FilesInv
  <2>2. CASE PersistPair(1, store)
    BY <1>1, <2>2 DEF PersistPair, FilesInv, Typed, Complete
  <2>3. CASE TakePrivate(2, phase2)
    BY <1>1, <2>3 DEF TakePrivate, FilesInv
  <2>4. CASE PersistPair(2, phase2)
    BY <1>1, <2>4 DEF PersistPair, FilesInv, Typed, Complete
  <2> QED BY <1>3, <2>1, <2>2, <2>3, <2>4 DEF Persist
<1>4. CASE WriteManifest
  BY <1>1, <1>4 DEF WriteManifest, FilesInv
<1> QED BY <1>2, <1>3, <1>4 DEF MainStep

LEMMA CaptureInvariant == CaptureSpec => []CapInv
<1>1. CaptureInit => CapInv
  BY CaptureInitial
<1>2. CapInv /\ [CaptureNext]_captureVars => CapInv'
  <2> SUFFICES ASSUME CapInv, [CaptureNext]_captureVars PROVE CapInv'
    OBVIOUS
  <2>1. CASE MainStep
    BY <2>1, MainKeepsTypes, MainKeepsPast, MainKeepsFiles DEF CapInv
  <2>2. CASE ReadLine
    BY <2>2, ReadLineKeeps
  <2>3. CASE UNCHANGED captureVars
    BY <2>3 DEF captureVars, CapInv, Typed, PastInv, FilesInv, Fresh, UpTo2, Complete
  <2> QED BY <2>1, <2>2, <2>3 DEF CaptureNext
<1> QED BY <1>1, <1>2, PTL DEF CaptureSpec
-----------------------------------------------------------------------------
\* However late the reader of the server's output is, phase 2's recovery file
\* holds nothing of the grandchild's connection (capture_0rtt's copy before
\* phase 3), and a pure-PSK child has no such file.
THEOREM PhaseTwoIsPast == CaptureSpec => []NeverFromTheFuture
<1>1. CapInv => NeverFromTheFuture
  BY DEF CapInv, PastInv, NeverFromTheFuture, UpTo2
<1> QED BY <1>1, CaptureInvariant, PTL

\* A 0-RTT capture with a manifest has a private and a public value for every
\* phase that its recovery needs (persist_recovery_material raises before).
THEOREM ManifestIsComplete == CaptureSpec => []ManifestMeansMaterial
<1>1. CapInv => ManifestMeansMaterial
  BY DEF CapInv, FilesInv, ManifestMeansMaterial, Complete
<1> QED BY <1>1, CaptureInvariant, PTL
-----------------------------------------------------------------------------
(* With a reader that keeps up with the pauses, the files hold the pairs   *)
(* of their own connections.                                               *)

PairOf(c) == [priv |-> c, pub |-> c]
PrivLine(c) == [field |-> "priv", value |-> c]
PubLine(c) == [field |-> "pub", value |-> c]

\* The reader is somewhere in connection c's two lines.
Arriving(c) ==
    \/ pipe = <<PrivLine(c), PubLine(c)>>
    \/ pipe = <<PubLine(c)>> /\ store.priv = c
    \/ pipe = <<>> /\ store = PairOf(c)

\* Every connection starts with an empty pipe, and the main thread copies the
\* store when the pipe is empty again.
StepInv ==
    /\ cpc \in {"client1", "client2", "client3"} => pipe = <<>>
    /\ cpc = "snapshot1" => Arriving(1)
    /\ cpc = "snapshot2" /\ Fresh => Arriving(2)
    /\ cpc \in {"client2", "snapshot2", "client3", "restore"} => phase1 = PairOf(1)
    /\ cpc \in {"client3", "restore", "persist1", "public1", "persist2", "public2"} /\ Fresh =>
         phase2 = PairOf(2)
    /\ cpc \in {"persist1", "public1"} => pipe = <<>> /\ store = PairOf(1)
    /\ cpc = "public1" => taken = 1
    /\ cpc = "public2" => taken = 2 /\ Fresh
    /\ cpc = "persist2" => Fresh
    /\ cpc \in {"persist2", "public2", "manifest", "captured"} => oracle[1] = PairOf(1)
    /\ cpc \in {"manifest", "captured"} /\ Fresh => oracle[2] = PairOf(2)
    /\ manifest => cpc = "captured"

\* A connection that starts with an empty pipe leaves its two lines there.
LEMMA ConnectionArrives ==
    ASSUME NEW c \in 1..2, NEW ticket, Connection(c, ticket), pipe = <<>>, c = 1 \/ Fresh
    PROVE  Arriving(c)'
<1> DEFINE two == <<PrivLine(c), PubLine(c)>>
<1>1. pipe' = <<>> \o two
  BY DEF Connection, PrivLine, PubLine
<1>2. <<>> \o two = two
  OBVIOUS
<1> QED BY <1>1, <1>2 DEF Arriving

\* The reader advances through those two lines.
LEMMA ReaderAdvances ==
    ASSUME CapInv, NEW c \in 1..2, Arriving(c), ReadLine
    PROVE  Arriving(c)'
<1>1. store \in Pair /\ pipe /= <<>>
  BY DEF CapInv, Typed, ReadLine
<1>2. CASE pipe = <<PrivLine(c), PubLine(c)>>
  <2>1. Head(pipe) = PrivLine(c) /\ Tail(pipe) = <<PubLine(c)>>
    BY <1>2
  <2>2. Head(pipe).field = "priv" /\ Head(pipe).value = c
    BY <2>1 DEF PrivLine
  <2>3. store'.priv = c
    BY <1>1, <2>2 DEF ReadLine, Pair
  <2> QED BY <2>1, <2>3 DEF ReadLine, Arriving
<1>3. CASE pipe = <<PubLine(c)>> /\ store.priv = c
  <2>1. Head(pipe) = PubLine(c) /\ Tail(pipe) = <<>>
    BY <1>3
  <2>2. Head(pipe).field = "pub" /\ Head(pipe).value = c
    BY <2>1 DEF PubLine
  <2>3. store' = PairOf(c)
    BY <1>1, <1>3, <2>2 DEF ReadLine, Pair, PairOf
  <2> QED BY <2>1, <2>3 DEF ReadLine, Arriving
<1> QED BY <1>1, <1>2, <1>3 DEF Arriving

\* When the pipe is empty, the store holds the connection's pair.
LEMMA ArrivedWhenEmpty == ASSUME NEW c, Arriving(c), pipe = <<>> PROVE store = PairOf(c)
<1>1. <<>> /= <<PrivLine(c), PubLine(c)>> /\ <<>> /= <<PubLine(c)>>
  OBVIOUS
<1> QED BY <1>1 DEF Arriving

LEMMA ReadLineKeepsStep == ASSUME CapInv, StepInv, ReadLine PROVE StepInv'
<1>1. UNCHANGED <<kex, cpc, phase1, phase2, taken, oracle, manifest>> /\ pipe /= <<>>
  BY DEF ReadLine, lateVars
<1>2. cpc = "snapshot1" => Arriving(1)'
  BY ReaderAdvances DEF StepInv
<1>3. cpc = "snapshot2" /\ Fresh => Arriving(2)'
  BY ReaderAdvances DEF StepInv
<1> QED BY <1>1, <1>2, <1>3 DEF StepInv, Fresh

LEMMA MainKeepsStep == ASSUME CapInv, StepInv, timely, MainStep PROVE StepInv'
<1> USE DEF Fresh
<1>1. Typed /\ FilesInv
  BY DEF CapInv
<1>2. CASE Client1
  <2>1. Arriving(1)'
    BY <1>2, ConnectionArrives DEF Client1, StepInv
  <2> QED BY <1>1, <1>2, <2>1 DEF Client1, StepInv, FilesInv, lateVars
<1>3. CASE Snapshot1
  <2>1. pipe = <<>> /\ store = PairOf(1)
    BY <1>3, ArrivedWhenEmpty DEF Snapshot1, StepInv, ReaderHasCaughtUp
  <2> QED BY <1>1, <1>3, <2>1 DEF Snapshot1, StepInv, FilesInv, lateVars, hookVars
<1>4. CASE Client2
  <2>1. CASE cpc' = "snapshot2"
    <3>1. Fresh => Arriving(2)'
      BY <1>4, <2>1, ConnectionArrives DEF Client2, StepInv
    <3> QED BY <1>1, <1>4, <2>1, <3>1 DEF Client2, StepInv, FilesInv, lateVars
  <2>2. CASE cpc' = "raised"
    BY <1>1, <1>4, <2>2 DEF Client2, StepInv, FilesInv, lateVars
  <2> QED BY <1>4, <2>1, <2>2 DEF Client2
<1>5. CASE Snapshot2
  <2>1. pipe = <<>> /\ (Fresh => store = PairOf(2))
    BY <1>5, ArrivedWhenEmpty DEF Snapshot2, StepInv, ReaderHasCaughtUp
  <2> QED BY <1>1, <1>5, <2>1 DEF Snapshot2, StepInv, FilesInv, lateVars, hookVars
<1>6. CASE Client3
  <2>1. /\ cpc = "client3" /\ cpc' \in {"restore", "raised"} /\ ~manifest
        /\ UNCHANGED <<kex, store, phase1, phase2, taken, oracle, manifest>>
    BY <1>1, <1>6 DEF Client3, FilesInv, lateVars, hookVars
  <2> QED BY <2>1 DEF StepInv
<1>7. CASE RestorePhase1
  BY <1>1, <1>7 DEF RestorePhase1, StepInv, FilesInv, ReaderHasCaughtUp, lateVars
<1>8. CASE Persist
  <2>1. CASE TakePrivate(1, store)
    BY <1>1, <2>1 DEF TakePrivate, StepInv, FilesInv, hookVars, PairOf
  <2>2. CASE PersistPair(1, store)
    BY <1>1, <2>2 DEF PersistPair, StepInv, FilesInv, Typed, hookVars, PairOf
  <2>3. CASE TakePrivate(2, phase2)
    BY <1>1, <2>3 DEF TakePrivate, StepInv, FilesInv, hookVars, PairOf
  <2>4. CASE PersistPair(2, phase2)
    BY <1>1, <2>4 DEF PersistPair, StepInv, FilesInv, Typed, hookVars, PairOf
  <2> QED BY <1>8, <2>1, <2>2, <2>3, <2>4 DEF Persist
<1>9. CASE WriteManifest
  BY <1>1, <1>9 DEF WriteManifest, StepInv, hookVars
<1> QED BY <1>2, <1>3, <1>4, <1>5, <1>6, <1>7, <1>8, <1>9 DEF MainStep

LEMMA TimelyIsFixed == ASSUME [CaptureNext]_captureVars PROVE timely' = timely
<1>1. CASE MainStep
  <2>1. CASE Client2 \/ Client3
    BY <2>1 DEF Client2, Client3
  <2>2. CASE Client1 \/ Snapshot1 \/ Snapshot2 \/ RestorePhase1 \/ WriteManifest
    BY <2>2 DEF Client1, Snapshot1, Snapshot2, RestorePhase1, WriteManifest
  <2>3. CASE Persist
    BY <2>3 DEF Persist, TakePrivate, PersistPair
  <2> QED BY <1>1, <2>1, <2>2, <2>3 DEF MainStep
<1>2. CASE ReadLine
  BY <1>2 DEF ReadLine
<1>3. CASE UNCHANGED captureVars
  BY <1>3 DEF captureVars
<1> QED BY <1>1, <1>2, <1>3 DEF CaptureNext

LEMMA StepInvariant == CaptureSpec => [](timely => StepInv)
<1>1. CaptureInit => StepInv
  BY DEF CaptureInit, StepInv
<1>2. CapInv /\ (timely => StepInv) /\ [CaptureNext]_captureVars => (timely => StepInv)'
  <2> SUFFICES ASSUME CapInv, timely => StepInv, [CaptureNext]_captureVars, timely'
               PROVE  StepInv'
    OBVIOUS
  <2>0. timely /\ StepInv
    BY TimelyIsFixed
  <2>1. CASE MainStep
    BY <2>0, <2>1, MainKeepsStep
  <2>2. CASE ReadLine
    BY <2>0, <2>2, ReadLineKeepsStep
  <2>3. CASE UNCHANGED captureVars
    BY <2>0, <2>3 DEF captureVars, StepInv, Arriving, Fresh
  <2> QED BY <2>1, <2>2, <2>3 DEF CaptureNext
<1> QED BY <1>1, <1>2, CaptureInvariant, PTL DEF CaptureSpec

\* A capture whose reader keeps up with the code's pauses archives the
\* parent's own pair, whatever the server printed for its later connections
\* (capture_0rtt's copy after phase 1 and its restoration before persisting).
THEOREM TimelyKeepsPhase1 == CaptureSpec => []Phase1Preserved
<1>1. (timely => StepInv) => Phase1Preserved
  BY DEF StepInv, Phase1Preserved, PairOf
<1> QED BY <1>1, StepInvariant, PTL

\* The same for the child's own pair, although a grandchild may have connected
\* between the copy and its archiving.
THEOREM TimelyKeepsPhase2 == CaptureSpec => []Phase2IsTheChilds
<1>1. (timely => StepInv) => Phase2IsTheChilds
  BY DEF StepInv, Phase2IsTheChilds, PairOf
<1> QED BY <1>1, StepInvariant, PTL
-----------------------------------------------------------------------------
(* The causality test.                                                     *)

Names == {"parent", "child", "psk", "sslkeylog", "truth", "truth_phase2"}
Step  == [op : {"derive", "withhold", "restore", "overwrite", "write_back"}, on : Names \union Recoveries]

\* What a script has done to the archive: the files renamed away, whether the
\* external PSK is overwritten, and the recoveries done.
Progress == [withheld : SUBSET Names, changed : BOOLEAN, done : SUBSET Recoveries]
At(withheldNow, changedNow, done) == [withheld |-> withheldNow, changed |-> changedNow, done |-> done]
Start == At({}, FALSE, {})

Effect(c, a) ==
    At(CASE c.op = "withhold" -> a.withheld \union {c.on}
         [] c.op = "restore" -> a.withheld \ {c.on}
         [] OTHER -> a.withheld,
       CASE c.op = "overwrite" -> TRUE
         [] c.op = "write_back" -> FALSE
         [] OTHER -> a.changed,
       IF c.op = "derive" THEN a.done \union {c.on} ELSE a.done)

\* The inputs that must be missing when a recovery runs, and the recoveries
\* whose results it uses.
Missing(r) ==
    CASE r = "no_parent" -> {"parent"}
      [] r \in {"early_without_child_dh", "child_without_dh"} -> IF Fresh THEN {"child"} ELSE {}
      [] r = "external_without_psk" -> {"psk"}
      [] r \in {"early_without_truth", "child_without_truth", "grandchild_without_truth",
                "external_without_truth"} -> {"sslkeylog"}
      [] OTHER -> {}

Uses(r) ==
    CASE r \in Child -> {"early"}
      [] r = "grandchild" -> {"child"}
      [] r = "grandchild_without_truth" -> {"child_without_truth"}
      [] r = "grandchild_with_blocked_child" ->
             {IF Fresh THEN "child_without_dh" ELSE "child_with_wrong_psk"}
      [] OTHER -> {}

\* A recovery runs on the archive it is meant for, and nothing is missing when
\* the baseline of early data is taken.
Fit(c, a) ==
    c.op = "derive" =>
        /\ c.on \in Recoveries
        /\ a.withheld \intersect {"parent", "child", "psk", "sslkeylog"} = Missing(c.on)
        /\ a.changed = (c.on = "external_with_wrong_psk")
        /\ a.changed => a.withheld = {}
        /\ c.on = "early" => a.withheld = {}
        /\ Uses(c.on) \subseteq a.done
        /\ c.on \in Alone <=> external
        /\ c.on \in Grandchild => grandchild

\* h[k] is what the first k steps of s do, from a.
Follows(s, a, h) ==
    /\ h \in [0..Len(s) -> Progress] /\ h[0] = a
    /\ \A k \in 1..Len(s) : Fit(s[k], h[k - 1]) /\ h[k] = Effect(s[k], h[k - 1])

Asserted ==
    IF external THEN Alone
    ELSE Early \union Child \union IF grandchild THEN Grandchild ELSE {}

\* The script puts everything back, and does every recovery of the verdict.
Restores(h) ==
    /\ Follows(Script, Start, h)
    /\ h[Len(Script)].withheld = {} /\ ~h[Len(Script)].changed
    /\ Asserted \subseteq h[Len(Script)].done
-----------------------------------------------------------------------------
\* The PSKs that the endpoints used for the second and third connection.
ChildPsk == TicketPsk(Endpoint(wire)[1].res, wire[2].ticket)
GrandchildPsk == TicketPsk(Endpoint(wire)[2].res, wire[3].ticket)

EarlyOpens == MatchesKeyShare(oracle[1], 1) /\ wire[2].ticket \in wire[1].archived
ChildOpens == EarlyOpens /\ (Fresh => MatchesKeyShare(oracle[2], 2))
GrandchildOpens == ChildOpens /\ wire[3].ticket \in wire[2].archived

EarlyResult(c, psk, truth) ==
    Result(TRUE, psk, Endpoint(wire)[c].early, Nothing, {Endpoint(wire)[c].early}, truth)

HandshakeResult(c, early, truth) ==
    Result(TRUE, Nothing, Nothing, Endpoint(wire)[c].res,
           early \union {Endpoint(wire)[c].hs, Endpoint(wire)[c].app}, truth)

WithoutTruth == {"early_without_truth", "child_without_truth", "grandchild_without_truth",
                 "external_without_truth"}

\* What a recovery that runs on the archive it is meant for must return.
Exact(r) ==
    LET truth == r \notin WithoutTruth
        child == HandshakeResult(2, {Endpoint(wire)[2].early}, truth)
    IN  CASE r \in Early \ {"no_parent"} ->
               IF EarlyOpens THEN EarlyResult(2, ChildPsk, truth) ELSE Failed
          [] r \in {"child", "child_without_truth"} -> IF ChildOpens THEN child ELSE Failed
          [] r = "child_without_dh" -> IF ~Fresh /\ EarlyOpens THEN child ELSE Failed
          [] r \in {"grandchild", "grandchild_without_truth"} ->
               IF GrandchildOpens THEN EarlyResult(3, GrandchildPsk, truth) ELSE Failed
          [] r \in {"external", "external_without_truth"} -> HandshakeResult(1, {}, truth)
          [] OTHER -> Failed

Connections == [ticket : Int, dh : BOOLEAN, early : BOOLEAN, archived : SUBSET Nat]

\* The connections that a capture has made.
Made ==
    CASE cpc = "client1" -> {0}
      [] cpc \in {"snapshot1", "client2"} -> {1}
      [] cpc \in {"snapshot2", "client3"} -> {2}
      [] cpc = "raised" -> {1, 2, 3}
      [] OTHER -> IF grandchild THEN {3} ELSE {2}

\* What is so of every connection that was made.
Linked(c) ==
    /\ wire[c].dh <=> c = 1 \/ Fresh
    /\ wire[c].early <=> c > 1
    /\ timely /\ saved[c] # 0 => saved[c] \in wire[c].archived
    /\ IF c = 1 THEN wire[c].ticket = 0 ELSE wire[c].ticket = saved[c - 1] /\ saved[c - 1] # 0

WireInv ==
    /\ wire \in Seq(Connections) /\ saved \in Seq(Nat)
    /\ Len(wire) \in Made /\ Len(saved) = Len(wire)
    /\ \A c \in 1..Len(wire) : Linked(c)
    /\ cpc = "client2" => saved[1] # 0
    /\ cpc = "client3" => saved[2] # 0 /\ grandchild
-----------------------------------------------------------------------------
(* What the pieces of a script do.                                         *)

\* s leads from progress a to progress b.
Plays(s, a, b) == s \in Seq(Step) /\ \E h : Follows(s, a, h) /\ h[Len(s)] = b

LEMMA PlaysNothing == ASSUME NEW a \in Progress PROVE Plays(<<>>, a, a)
<1> DEFINE h == [k \in 0..0 |-> a]
<1>1. Follows(<<>>, a, h) /\ h[Len(<<>>)] = a
  BY DEF Follows
<1> QED BY <1>1 DEF Plays

LEMMA PlaysBoth ==
    ASSUME NEW s, NEW t, NEW a, NEW b, NEW c, Plays(s, a, b), Plays(t, b, c)
    PROVE  Plays(s \o t, a, c)
<1>1. s \in Seq(Step) /\ t \in Seq(Step)
  BY DEF Plays
<1>2. PICK g : Follows(s, a, g) /\ g[Len(s)] = b
  BY DEF Plays
<1>3. PICK h : Follows(t, b, h) /\ h[Len(t)] = c
  BY DEF Plays
<1> DEFINE n == Len(s)
           m == Len(t)
           r == s \o t
           f == [k \in 0..(n + m) |-> IF k <= n THEN g[k] ELSE h[k - n]]
<1>4. n \in Nat /\ m \in Nat /\ Joins(Step, s, t, r)
  BY <1>1, ConcatIs
<1> HIDE DEF r
<1>5. r \in Seq(Step) /\ Len(r) = n + m
  BY <1>4 DEF Joins
<1>6. f \in [0..Len(r) -> Progress] /\ f[0] = a /\ f[n + m] = c
  <2>1. \A k \in 0..(n + m) : k <= n => k \in 0..n
    BY <1>4
  <2>2. \A k \in 0..(n + m) : ~(k <= n) => k - n \in 0..m
    BY <1>4
  <2>3. f \in [0..(n + m) -> Progress]
    BY <1>2, <1>3, <2>1, <2>2 DEF Follows
  <2>4. f[0] = a
    BY <1>2, <1>4 DEF Follows
  <2>5. f[n + m] = c
    <3>1. CASE m = 0
      BY <1>2, <1>3, <1>4, <3>1 DEF Follows
    <3>2. CASE m > 0
      BY <1>3, <1>4, <3>2
    <3> QED BY <1>4, <3>1, <3>2
  <2> QED BY <1>5, <2>3, <2>4, <2>5
<1>7. ASSUME NEW k \in 1..(n + m)
      PROVE  Fit(r[k], f[k - 1]) /\ f[k] = Effect(r[k], f[k - 1])
  <2>1. r[k] = IF k <= n THEN s[k] ELSE t[k - n]
    BY <1>4 DEF Joins
  <2>2. CASE k <= n
    <3>1. k \in 1..n /\ k \in 0..(n + m) /\ k - 1 \in 0..(n + m) /\ k - 1 <= n
      BY <1>4, <2>2
    <3>2. r[k] = s[k] /\ f[k] = g[k] /\ f[k - 1] = g[k - 1]
      BY <2>1, <2>2, <3>1
    <3> HIDE DEF f
    <3> QED BY <1>2, <3>1, <3>2 DEF Follows
  <2>3. CASE ~(k <= n)
    <3>1. k - n \in 1..m /\ k \in 0..(n + m) /\ k - 1 \in 0..(n + m) /\ (k - n) - 1 = (k - 1) - n
      BY <1>4, <2>3
    <3>2. r[k] = t[k - n] /\ f[k] = h[k - n]
      BY <2>1, <2>3, <3>1
    <3>3. f[k - 1] = h[(k - n) - 1]
      <4>1. CASE k - 1 <= n
        <5>1. k - 1 = n /\ (k - n) - 1 = 0
          BY <1>4, <2>3, <4>1
        <5> QED BY <1>2, <1>3, <3>1, <4>1, <5>1 DEF Follows
      <4>2. CASE ~(k - 1 <= n)
        BY <3>1, <4>2
      <4> QED BY <4>1, <4>2
    <3> HIDE DEF f
    <3> QED BY <1>3, <3>1, <3>2, <3>3 DEF Follows
  <2> QED BY <2>2, <2>3
<1> HIDE DEF f
<1>8. Follows(r, a, f) /\ f[Len(r)] = c
  BY <1>5, <1>6, <1>7 DEF Follows
<1> QED BY <1>5, <1>8 DEF Plays, r

\* Renaming files away, and back.
LEMMA PlaysWithhold ==
    ASSUME NEW names \in Seq(Names), NEW a \in Progress
    PROVE  Plays(Do("withhold", names), a,
                 At(a.withheld \union {names[i] : i \in DOMAIN names}, a.changed, a.done))
<1> DEFINE s == Do("withhold", names)
           n == Len(names)
           h == [k \in 0..n |-> At(a.withheld \union {names[i] : i \in 1..k}, a.changed, a.done)]
<1>1. n \in Nat /\ DOMAIN names = 1..n /\ \A i \in 1..n : names[i] \in Names
  OBVIOUS
<1>2. /\ s \in Seq(Step) /\ Len(s) = n
      /\ \A i \in 1..n : s[i] = [op |-> "withhold", on |-> names[i]]
  BY <1>1 DEF Do, Step
<1> HIDE DEF s
<1>3. h \in [0..n -> Progress]
  <2>1. ASSUME NEW k \in 0..n PROVE h[k] \in Progress
    <3>1. {names[i] : i \in 1..k} \subseteq Names
      BY <1>1
    <3> QED BY <3>1 DEF At, Progress
  <2> QED BY <2>1
<1>4. h[0] = a
  <2>1. h[0] = At(a.withheld \union {names[i] : i \in 1..0}, a.changed, a.done) /\ 1..0 = {}
    BY <1>1
  <2> QED BY <2>1 DEF At, Progress
<1>5. ASSUME NEW k \in 1..n PROVE Fit(s[k], h[k - 1]) /\ h[k] = Effect(s[k], h[k - 1])
  <2>1. s[k] = [op |-> "withhold", on |-> names[k]] /\ k - 1 \in 0..n /\ k \in 0..n
    BY <1>1, <1>2
  <2>2. {names[i] : i \in 1..k} = {names[i] : i \in 1..(k - 1)} \union {names[k]}
    <3>1. 1..k = 1..(k - 1) \union {k}
      BY <1>1
    <3> QED BY <3>1
  <2>3. h[k] = At((a.withheld \union {names[i] : i \in 1..(k - 1)}) \union {names[k]}, a.changed, a.done)
    BY <2>1, <2>2
  <2>4. h[k - 1] = At(a.withheld \union {names[i] : i \in 1..(k - 1)}, a.changed, a.done)
    BY <2>1
  <2> DEFINE w == a.withheld \union {names[i] : i \in 1..(k - 1)}
  <2> HIDE DEF h, w
  <2>5. Effect(s[k], At(w, a.changed, a.done)) = At(w \union {names[k]}, a.changed, a.done)
    BY <2>1 DEF Effect, At
  <2> QED BY <2>1, <2>3, <2>4, <2>5 DEF Fit, w
<1>6. h[n] = At(a.withheld \union {names[i] : i \in DOMAIN names}, a.changed, a.done)
  BY <1>1
<1> HIDE DEF h
<1>7. Follows(s, a, h)
  BY <1>2, <1>3, <1>4, <1>5 DEF Follows
<1> QED BY <1>2, <1>6, <1>7 DEF Plays, s

LEMMA PlaysRestore ==
    ASSUME NEW names \in Seq(Names), NEW a \in Progress
    PROVE  Plays(Do("restore", names), a,
                 At(a.withheld \ {names[i] : i \in DOMAIN names}, a.changed, a.done))
<1> DEFINE s == Do("restore", names)
           n == Len(names)
           h == [k \in 0..n |-> At(a.withheld \ {names[i] : i \in 1..k}, a.changed, a.done)]
<1>1. n \in Nat /\ DOMAIN names = 1..n /\ \A i \in 1..n : names[i] \in Names
  OBVIOUS
<1>2. /\ s \in Seq(Step) /\ Len(s) = n
      /\ \A i \in 1..n : s[i] = [op |-> "restore", on |-> names[i]]
  BY <1>1 DEF Do, Step
<1> HIDE DEF s
<1>3. h \in [0..n -> Progress]
  BY DEF At, Progress
<1>4. h[0] = a
  <2>1. h[0] = At(a.withheld \ {names[i] : i \in 1..0}, a.changed, a.done) /\ 1..0 = {}
    BY <1>1
  <2> QED BY <2>1 DEF At, Progress
<1>5. ASSUME NEW k \in 1..n PROVE Fit(s[k], h[k - 1]) /\ h[k] = Effect(s[k], h[k - 1])
  <2>1. s[k] = [op |-> "restore", on |-> names[k]] /\ k - 1 \in 0..n /\ k \in 0..n
    BY <1>1, <1>2
  <2>2. {names[i] : i \in 1..k} = {names[i] : i \in 1..(k - 1)} \union {names[k]}
    <3>1. 1..k = 1..(k - 1) \union {k}
      BY <1>1
    <3> QED BY <3>1
  <2>3. h[k] = At((a.withheld \ {names[i] : i \in 1..(k - 1)}) \ {names[k]}, a.changed, a.done)
    BY <2>1, <2>2
  <2>4. h[k - 1] = At(a.withheld \ {names[i] : i \in 1..(k - 1)}, a.changed, a.done)
    BY <2>1
  <2> DEFINE w == a.withheld \ {names[i] : i \in 1..(k - 1)}
  <2> HIDE DEF h, w
  <2>5. Effect(s[k], At(w, a.changed, a.done)) = At(w \ {names[k]}, a.changed, a.done)
    BY <2>1 DEF Effect, At
  <2> QED BY <2>1, <2>3, <2>4, <2>5 DEF Fit, w
<1>6. h[n] = At(a.withheld \ {names[i] : i \in DOMAIN names}, a.changed, a.done)
  BY <1>1
<1> HIDE DEF h
<1>7. Follows(s, a, h)
  BY <1>2, <1>3, <1>4, <1>5 DEF Follows
<1> QED BY <1>2, <1>6, <1>7 DEF Plays, s

\* A piece of one step.
LEMMA PlaysOne ==
    ASSUME NEW op, NEW x, NEW a \in Progress, [op |-> op, on |-> x] \in Step,
           Fit([op |-> op, on |-> x], a), Effect([op |-> op, on |-> x], a) \in Progress
    PROVE  Plays(Do(op, <<x>>), a, Effect([op |-> op, on |-> x], a))
<1> DEFINE s == Do(op, <<x>>)
           c == [op |-> op, on |-> x]
           b == Effect(c, a)
           h == [k \in 0..1 |-> IF k = 0 THEN a ELSE b]
<1>1. s \in Seq(Step) /\ Len(s) = 1 /\ s[1] = c
  BY DEF Do
<1> HIDE DEF s, c, b
<1>2. h \in [0..1 -> Progress] /\ h[0] = a /\ h[1] = b
  BY DEF b, c
<1>3. Fit(c, a)
  BY DEF c
<1>4. Follows(s, a, h)
  BY <1>1, <1>2, <1>3 DEF Follows, b
<1> QED BY <1>1, <1>2, <1>4 DEF Plays, s, b, c

LEMMA PlaysDerive ==
    ASSUME NEW r \in Recoveries, NEW a \in Progress, Fit([op |-> "derive", on |-> r], a)
    PROVE  Plays(Do("derive", <<r>>), a, At(a.withheld, a.changed, a.done \union {r}))
<1> DEFINE c == [op |-> "derive", on |-> r]
<1>1. c \in Step /\ c.op = "derive" /\ c.on = r
  BY DEF Step
<1> HIDE DEF c
<1>2. Effect(c, a) = At(a.withheld, a.changed, a.done \union {r})
  BY <1>1 DEF Effect, Progress, At
<1>3. Effect(c, a) \in Progress
  BY <1>2 DEF At, Progress
<1> QED BY <1>1, <1>2, <1>3, PlaysOne DEF c

LEMMA PlaysOverwrite ==
    ASSUME NEW a \in Progress, NEW op \in {"overwrite", "write_back"}
    PROVE  Plays(Do(op, <<"psk">>), a, At(a.withheld, op = "overwrite", a.done))
<1> DEFINE c == [op |-> op, on |-> "psk"]
<1>1. c \in Step /\ c.op = op /\ c.on = "psk"
  BY DEF Step, Names
<1> HIDE DEF c
<1>2. Fit(c, a)
  BY <1>1 DEF Fit
<1>3. Effect(c, a) = At(a.withheld, op = "overwrite", a.done)
  BY <1>1 DEF Effect, Progress, At
<1>4. Effect(c, a) \in Progress
  BY <1>3 DEF At, Progress
<1> QED BY <1>1, <1>2, <1>3, <1>4, PlaysOne DEF c
-----------------------------------------------------------------------------
(* The two scripts.                                                        *)

Truths == {TruthFiles[i] : i \in DOMAIN TruthFiles}

LEMMA TruthFacts ==
    /\ TruthFiles \in Seq(Names) /\ Reverse(TruthFiles) \in Seq(Names)
    /\ {Reverse(TruthFiles)[i] : i \in DOMAIN Reverse(TruthFiles)} = Truths
    /\ Truths \subseteq Names
    /\ Truths \intersect {"parent", "child", "psk", "sslkeylog"} = {"sslkeylog"}
<1> DEFINE n == IF Fresh THEN 3 ELSE 2
           s == TruthFiles
           r == Reverse(s)
<1>1. /\ s \in Seq(Names) /\ Len(s) = n /\ s[1] = "sslkeylog" /\ s[2] = "truth"
      /\ Fresh => s[3] = "truth_phase2"
  <2> DEFINE a == <<"sslkeylog", "truth">>
             b == IF Fresh THEN <<"truth_phase2">> ELSE <<>>
  <2>1. a \in Seq(Names) /\ b \in Seq(Names) /\ Len(a) = 2 /\ Len(b) = n - 2
        /\ a[1] = "sslkeylog" /\ a[2] = "truth" /\ (Fresh => b[1] = "truth_phase2")
    <3>1. CASE Fresh
      BY <3>1 DEF Names
    <3>2. CASE ~Fresh
      BY <3>2 DEF Names
    <3> QED BY <3>1, <3>2
  <2>2. s = a \o b
    BY DEF TruthFiles
  <2> HIDE DEF a, b, s
  <2>3. Joins(Names, a, b, s)
    BY <2>1, <2>2, ConcatIs
  <2> QED BY <2>1, <2>3 DEF Joins
<1> HIDE DEF s
<1>2. r \in Seq(Names) /\ Len(r) = n /\ \A i \in 1..n : r[i] = s[n + 1 - i]
  <2>1. r = [i \in 1..n |-> s[(n - i) + 1]]
    BY <1>1 DEF Reverse
  <2>2. \A i \in 1..n : (n - i) + 1 = n + 1 - i /\ n + 1 - i \in 1..n
    OBVIOUS
  <2>3. n \in Nat /\ \A i \in 1..n : s[i] \in Names
    BY <1>1
  <2> HIDE DEF r, n
  <2>4. \A i \in 1..n : r[i] = s[n + 1 - i] /\ r[i] \in Names
    BY <2>1, <2>2, <2>3
  <2>5. DOMAIN r = 1..n /\ r = [i \in 1..n |-> r[i]]
    BY <2>1
  <2>6. r \in Seq(Names) /\ Len(r) = n
    BY <2>3, <2>4, <2>5
  <2> QED BY <2>4, <2>6
<1> HIDE DEF r
<1>3. CASE Fresh
  <2>1. DOMAIN s = {1, 2, 3} /\ DOMAIN r = {1, 2, 3}
    BY <1>1, <1>2, <1>3
  <2>2. {s[i] : i \in DOMAIN s} = {"sslkeylog", "truth", "truth_phase2"}
    BY <1>1, <1>3, <2>1
  <2>3. r[1] = s[3] /\ r[2] = s[2] /\ r[3] = s[1]
    BY <1>2, <1>3
  <2>4. {r[i] : i \in DOMAIN r} = {"sslkeylog", "truth", "truth_phase2"}
    BY <1>1, <1>3, <2>1, <2>3
  <2> QED BY <1>1, <1>2, <2>2, <2>4 DEF Truths, Names, s, r
<1>4. CASE ~Fresh
  <2>1. DOMAIN s = {1, 2} /\ DOMAIN r = {1, 2}
    BY <1>1, <1>2, <1>4
  <2>2. {s[i] : i \in DOMAIN s} = {"sslkeylog", "truth"}
    BY <1>1, <1>4, <2>1
  <2>3. r[1] = s[2] /\ r[2] = s[1]
    BY <1>2, <1>4
  <2>4. {r[i] : i \in DOMAIN r} = {"sslkeylog", "truth"}
    BY <1>1, <1>4, <2>1, <2>3
  <2> QED BY <1>1, <1>2, <2>2, <2>4 DEF Truths, Names, s, r
<1> QED BY <1>3, <1>4

\* The pieces of both scripts in the form in which they are used.
LEMMA PlaysTruth ==
    ASSUME NEW done \in SUBSET Recoveries
    PROVE  /\ Plays(Do("withhold", TruthFiles), At({}, FALSE, done), At(Truths, FALSE, done))
           /\ Plays(Do("restore", Reverse(TruthFiles)), At(Truths, FALSE, done), At({}, FALSE, done))
<1> DEFINE r == Reverse(TruthFiles)
<1>1. At({}, FALSE, done) \in Progress /\ At(Truths, FALSE, done) \in Progress
  BY TruthFacts DEF At, Progress
<1>2. Plays(Do("withhold", TruthFiles), At({}, FALSE, done), At({} \union Truths, FALSE, done))
  <2>1. TruthFiles \in Seq(Names)
    BY TruthFacts
  <2> QED BY <1>1, <2>1, PlaysWithhold DEF At, Truths
<1>3. Plays(Do("restore", r), At(Truths, FALSE, done), At(Truths \ Truths, FALSE, done))
  <2>1. r \in Seq(Names) /\ {r[i] : i \in DOMAIN r} = Truths
    BY TruthFacts
  <2> HIDE DEF r
  <2>2. Plays(Do("restore", r), At(Truths, FALSE, done),
              At(At(Truths, FALSE, done).withheld \ {r[i] : i \in DOMAIN r},
                 At(Truths, FALSE, done).changed, At(Truths, FALSE, done).done))
    BY <1>1, <2>1, PlaysRestore
  <2> QED BY <2>1, <2>2 DEF At
<1> QED BY <1>2, <1>3

LEMMA PlaysRename ==
    ASSUME NEW done \in SUBSET Recoveries, NEW x \in {"parent", "child", "psk"}
    PROVE  /\ Plays(Do("withhold", <<x>>), At({}, FALSE, done), At({x}, FALSE, done))
           /\ Plays(Do("restore", <<x>>), At({x}, FALSE, done), At({}, FALSE, done))
<1> DEFINE names == <<x>>
<1>1. names \in Seq(Names) /\ {names[i] : i \in DOMAIN names} = {x}
  BY DEF Names
<1>2. At({}, FALSE, done) \in Progress /\ At({x}, FALSE, done) \in Progress
  BY DEF At, Progress, Names
<1> HIDE DEF names
<1>3. Plays(Do("withhold", names), At({}, FALSE, done),
            At(At({}, FALSE, done).withheld \union {names[i] : i \in DOMAIN names},
               At({}, FALSE, done).changed, At({}, FALSE, done).done))
  BY <1>1, <1>2, PlaysWithhold
<1>4. Plays(Do("restore", names), At({x}, FALSE, done),
            At(At({x}, FALSE, done).withheld \ {names[i] : i \in DOMAIN names},
               At({x}, FALSE, done).changed, At({x}, FALSE, done).done))
  BY <1>1, <1>2, PlaysRestore
<1> QED BY <1>1, <1>3, <1>4 DEF At, names

LEMMA PlaysRecovery ==
    ASSUME NEW w \in SUBSET Names, NEW changedNow \in BOOLEAN, NEW done \in SUBSET Recoveries,
           NEW r \in Recoveries, Fit([op |-> "derive", on |-> r], At(w, changedNow, done))
    PROVE  Plays(Do("derive", <<r>>), At(w, changedNow, done), At(w, changedNow, done \union {r}))
<1> DEFINE a == At(w, changedNow, done)
<1>1. a \in Progress /\ a.withheld = w /\ a.changed = changedNow /\ a.done = done
  BY DEF At, Progress
<1> HIDE DEF a
<1>2. Plays(Do("derive", <<r>>), a, At(a.withheld, a.changed, a.done \union {r}))
  BY <1>1, PlaysDerive DEF a
<1> QED BY <1>1, <1>2 DEF a

\* A pair of recoveries is one piece.
LEMMA PlaysPair ==
    ASSUME NEW w \in SUBSET Names, NEW done \in SUBSET Recoveries,
           NEW q \in Recoveries, NEW r \in Recoveries,
           Fit([op |-> "derive", on |-> q], At(w, FALSE, done)),
           Fit([op |-> "derive", on |-> r], At(w, FALSE, done \union {q}))
    PROVE  Plays(Do("derive", <<q, r>>), At(w, FALSE, done), At(w, FALSE, done \union {q, r}))
<1> DEFINE s == Do("derive", <<q>>)
           t == Do("derive", <<r>>)
           p == Do("derive", <<q, r>>)
           both == (done \union {q}) \union {r}
<1>1. /\ Plays(s, At(w, FALSE, done), At(w, FALSE, done \union {q}))
      /\ Plays(t, At(w, FALSE, done \union {q}), At(w, FALSE, both))
  BY PlaysRecovery
<1>2. Plays(s \o t, At(w, FALSE, done), At(w, FALSE, both))
  BY <1>1, PlaysBoth
<1>3. s \o t = p
  <2> DEFINE b == s \o t
  <2>1. /\ s \in Seq(Step) /\ Len(s) = 1 /\ s[1] = [op |-> "derive", on |-> q]
        /\ t \in Seq(Step) /\ Len(t) = 1 /\ t[1] = [op |-> "derive", on |-> r]
    BY DEF Do, Step
  <2>2. /\ p \in Seq(Step) /\ Len(p) = 2
        /\ p[1] = [op |-> "derive", on |-> q] /\ p[2] = [op |-> "derive", on |-> r]
    BY DEF Do, Step
  <2> HIDE DEF s, t, p
  <2>3. Joins(Step, s, t, b)
    BY <2>1, ConcatIs
  <2> HIDE DEF b
  <2>4. b \in Seq(Step) /\ Len(b) = 2 /\ b[1] = s[1] /\ b[2] = t[1]
    BY <2>1, <2>3 DEF Joins
  <2>5. \A i \in 1..2 : b[i] = p[i]
    BY <2>1, <2>2, <2>4
  <2>6. b = p
    BY <2>2, <2>4, <2>5, SeqEqual
  <2> QED BY <2>6 DEF b
<1>4. both = done \union {q, r}
  OBVIOUS
<1> QED BY <1>2, <1>3, <1>4

LEMMA ExternalPlays ==
    ASSUME external
    PROVE  Plays(ExternalScript, Start, At({}, FALSE, Alone))
<1> DEFINE d1 == {"external"}
           d2 == d1 \union {"external_without_psk"}
           d3 == d2 \union {"external_with_wrong_psk"}
           d4 == d3 \union {"external_without_truth"}
           p1 == Do("derive", <<"external">>)
           p2 == Do("withhold", <<"psk">>)
           p3 == Do("derive", <<"external_without_psk">>)
           p4 == Do("restore", <<"psk">>)
           p5 == Do("overwrite", <<"psk">>)
           p6 == Do("derive", <<"external_with_wrong_psk">>)
           p7 == Do("write_back", <<"psk">>)
           p8 == Do("withhold", TruthFiles)
           p9 == Do("derive", <<"external_without_truth">>)
           p10 == Do("restore", Reverse(TruthFiles))
<1>1. ExternalScript = p1 \o p2 \o p3 \o p4 \o p5 \o p6 \o p7 \o p8 \o p9 \o p10
  BY DEF ExternalScript
<1>2. d4 = Alone /\ Alone \subseteq Recoveries /\ {d1, d2, d3, d4} \subseteq SUBSET Recoveries
  BY DEF Alone, Recoveries
<1>3. Plays(p1, Start, At({}, FALSE, d1))
  <2>1. Fit([op |-> "derive", on |-> "external"], At({}, FALSE, {}))
    BY DEF Fit, At, Missing, Uses, Alone, Recoveries, Child, Grandchild
  <2>2. Plays(p1, At({}, FALSE, {}), At({}, FALSE, {} \union {"external"}))
    BY <1>2, <2>1, PlaysRecovery
  <2> QED BY <2>2 DEF Start
<1>4. Plays(p2, At({}, FALSE, d1), At({"psk"}, FALSE, d1)) /\ Plays(p4, At({"psk"}, FALSE, d2), At({}, FALSE, d2))
  BY <1>2, PlaysRename
<1>5. Plays(p3, At({"psk"}, FALSE, d1), At({"psk"}, FALSE, d2))
  <2>1. Fit([op |-> "derive", on |-> "external_without_psk"], At({"psk"}, FALSE, d1))
    BY DEF Fit, At, Missing, Uses, Alone, Recoveries, Child, Grandchild
  <2>2. "external_without_psk" \in Recoveries /\ {"psk"} \in SUBSET Names
    BY DEF Recoveries, Alone, Names
  <2> QED BY <1>2, <2>1, <2>2, PlaysRecovery
<1>6. /\ Plays(p5, At({}, FALSE, d2), At({}, TRUE, d2))
      /\ Plays(p7, At({}, TRUE, d3), At({}, FALSE, d3))
  <2>1. At({}, FALSE, d2) \in Progress /\ At({}, TRUE, d3) \in Progress
    BY <1>2 DEF At, Progress
  <2> HIDE DEF d2, d3
  <2>2. Plays(p5, At({}, FALSE, d2), At(At({}, FALSE, d2).withheld, TRUE, At({}, FALSE, d2).done))
    BY <2>1, PlaysOverwrite
  <2>3. Plays(p7, At({}, TRUE, d3), At(At({}, TRUE, d3).withheld, FALSE, At({}, TRUE, d3).done))
    BY <2>1, PlaysOverwrite
  <2> QED BY <2>2, <2>3 DEF At
<1>7. Plays(p6, At({}, TRUE, d2), At({}, TRUE, d3))
  <2>1. Fit([op |-> "derive", on |-> "external_with_wrong_psk"], At({}, TRUE, d2))
    BY DEF Fit, At, Missing, Uses, Alone, Recoveries, Child, Grandchild
  <2>2. "external_with_wrong_psk" \in Recoveries
    BY DEF Recoveries, Alone
  <2> QED BY <1>2, <2>1, <2>2, PlaysRecovery
<1>8. /\ Plays(p8, At({}, FALSE, d3), At(Truths, FALSE, d3))
      /\ Plays(p10, At(Truths, FALSE, d4), At({}, FALSE, d4))
  BY <1>2, PlaysTruth
<1>9. Plays(p9, At(Truths, FALSE, d3), At(Truths, FALSE, d4))
  <2>1. Fit([op |-> "derive", on |-> "external_without_truth"], At(Truths, FALSE, d3))
    BY TruthFacts DEF Fit, At, Missing, Uses, Alone, Recoveries, Child, Grandchild
  <2>2. "external_without_truth" \in Recoveries
    BY DEF Recoveries, Alone
  <2> QED BY <1>2, <2>1, <2>2, TruthFacts, PlaysRecovery
<1> HIDE DEF d1, d2, d3, d4, p1, p2, p3, p4, p5, p6, p7, p8, p9, p10
<1>10. Plays(p1 \o p2 \o p3 \o p4 \o p5, Start, At({}, TRUE, d2))
  BY <1>3, <1>4, <1>5, <1>6, PlaysBoth
<1>11. Plays(p1 \o p2 \o p3 \o p4 \o p5 \o p6 \o p7 \o p8, Start, At(Truths, FALSE, d3))
  BY <1>6, <1>7, <1>8, <1>10, PlaysBoth
<1>12. Plays(p1 \o p2 \o p3 \o p4 \o p5 \o p6 \o p7 \o p8 \o p9 \o p10, Start, At({}, FALSE, d4))
  BY <1>8, <1>9, <1>11, PlaysBoth
<1> QED BY <1>1, <1>2, <1>12

LEMMA ChainPlays ==
    ASSUME ~external, external \in BOOLEAN, grandchild \in BOOLEAN
    PROVE  \E d : Plays(ChainScript, Start, At({}, FALSE, d)) /\ Asserted \subseteq d
<1> DEFINE G(r) == IF grandchild THEN {r} ELSE {}
           w == IF Fresh THEN {"child"} ELSE {}
           d1 == {"early", "child"}
           d2 == d1 \union G("grandchild")
           d3 == d2 \union {"no_parent"}
           d4 == d3 \union {"early_without_child_dh", "child_without_dh"}
           d5 == d4 \union {"child_with_wrong_psk"}
           d6 == d5 \union {"early_without_truth", "child_without_truth"}
           d7 == d6 \union G("grandchild_without_truth")
           d8 == d7 \union G("grandchild_with_blocked_child")
           p1 == Do("derive", <<"early", "child">>)
           p2 == IF grandchild THEN Do("derive", <<"grandchild">>) ELSE <<>>
           p3 == Do("withhold", <<"parent">>)
           p4 == Do("derive", <<"no_parent">>)
           p5 == Do("restore", <<"parent">>)
           p6 == IF Fresh THEN Do("withhold", <<"child">>) ELSE <<>>
           p7 == Do("derive", <<"early_without_child_dh", "child_without_dh">>)
           p8 == IF Fresh THEN Do("restore", <<"child">>) ELSE <<>>
           p9 == Do("derive", <<"child_with_wrong_psk">>)
           p10 == Do("withhold", TruthFiles)
           p11 == Do("derive", <<"early_without_truth", "child_without_truth">>)
           p12 == IF grandchild THEN Do("derive", <<"grandchild_without_truth">>) ELSE <<>>
           p13 == Do("restore", Reverse(TruthFiles))
           p14 == IF grandchild THEN Do("derive", <<"grandchild_with_blocked_child">>) ELSE <<>>
<1>1. ChainScript = p1 \o p2 \o p3 \o p4 \o p5 \o p6 \o p7 \o p8 \o p9 \o p10 \o p11 \o p12 \o p13 \o p14
  BY DEF ChainScript
<1>2. /\ {d1, d2, d3, d4, d5, d6, d7, d8} \subseteq SUBSET Recoveries
      /\ Early \union Child \union Grandchild \subseteq Recoveries
      /\ w \in SUBSET Names /\ {"parent"} \in SUBSET Names /\ Truths \in SUBSET Names
  <2>1. d8 \subseteq Recoveries
    BY DEF Early, Child, Grandchild, Recoveries
  <2>2. w \in SUBSET Names /\ {"parent"} \in SUBSET Names /\ Truths \in SUBSET Names
    BY TruthFacts DEF Names
  <2> QED BY <2>1, <2>2 DEF Recoveries
<1>3. Asserted \subseteq d8
  BY DEF Asserted, Early, Child, Grandchild
<1>4. Plays(p1, Start, At({}, FALSE, d1))
  <2>1. /\ Fit([op |-> "derive", on |-> "early"], At({}, FALSE, {}))
        /\ Fit([op |-> "derive", on |-> "child"], At({}, FALSE, {} \union {"early"}))
    BY DEF Fit, At, Missing, Uses, Alone, Recoveries, Early, Child, Grandchild
  <2>2. "early" \in Recoveries /\ "child" \in Recoveries
    BY DEF Recoveries, Early, Child
  <2>3. Plays(p1, At({}, FALSE, {}), At({}, FALSE, {} \union {"early", "child"}))
    BY <2>1, <2>2, PlaysPair
  <2> QED BY <2>3 DEF Start
<1>5. Plays(p2, At({}, FALSE, d1), At({}, FALSE, d2))
  <2>1. ASSUME grandchild PROVE Fit([op |-> "derive", on |-> "grandchild"], At({}, FALSE, d1))
    BY <2>1 DEF Fit, At, Missing, Uses, Alone, Recoveries, Early, Child, Grandchild
  <2>2. "grandchild" \in Recoveries /\ At({}, FALSE, d1) \in Progress /\ {} \in SUBSET Names
        /\ FALSE \in BOOLEAN
    BY <1>2 DEF Recoveries, Grandchild, At, Progress
  <2>3. grandchild => Plays(Do("derive", <<"grandchild">>), At({}, FALSE, d1), At({}, FALSE, d2))
    BY <1>2, <2>1, <2>2, PlaysRecovery
  <2>4. ~grandchild => d2 = d1
    OBVIOUS
  <2> HIDE DEF d1, d2
  <2> QED BY <2>2, <2>3, <2>4, PlaysNothing
<1>6. /\ Plays(p3, At({}, FALSE, d2), At({"parent"}, FALSE, d2))
      /\ Plays(p5, At({"parent"}, FALSE, d3), At({}, FALSE, d3))
  BY <1>2, PlaysRename
<1>7. Plays(p4, At({"parent"}, FALSE, d2), At({"parent"}, FALSE, d3))
  <2>1. Fit([op |-> "derive", on |-> "no_parent"], At({"parent"}, FALSE, d2))
    BY DEF Fit, At, Missing, Uses, Alone, Recoveries, Early, Child, Grandchild
  <2>2. "no_parent" \in Recoveries
    BY DEF Recoveries, Early
  <2> QED BY <1>2, <2>1, <2>2, PlaysRecovery
<1>8. /\ Plays(p6, At({}, FALSE, d3), At(w, FALSE, d3))
      /\ Plays(p8, At(w, FALSE, d4), At({}, FALSE, d4))
  <2>1. CASE Fresh
    BY <1>2, <2>1, PlaysRename
  <2>2. CASE ~Fresh
    <3>1. At({}, FALSE, d3) \in Progress /\ At({}, FALSE, d4) \in Progress
      BY <1>2 DEF At, Progress
    <3> HIDE DEF d3, d4
    <3> QED BY <2>2, <3>1, PlaysNothing
  <2> QED BY <2>1, <2>2
<1>9. Plays(p7, At(w, FALSE, d3), At(w, FALSE, d4))
  <2>1. /\ Fit([op |-> "derive", on |-> "early_without_child_dh"], At(w, FALSE, d3))
        /\ Fit([op |-> "derive", on |-> "child_without_dh"], At(w, FALSE, d3 \union {"early_without_child_dh"}))
    <3>1. w \intersect {"parent", "child", "psk", "sslkeylog"} = IF Fresh THEN {"child"} ELSE {}
      OBVIOUS
    <3>2. "early" \in d3 \union {"early_without_child_dh"}
      OBVIOUS
    <3> HIDE DEF w, d3
    <3> QED BY <3>1, <3>2 DEF Fit, At, Missing, Uses, Alone, Recoveries, Early, Child, Grandchild
  <2>2. "early_without_child_dh" \in Recoveries /\ "child_without_dh" \in Recoveries
    BY DEF Recoveries, Early, Child
  <2> HIDE DEF w
  <2> QED BY <1>2, <2>1, <2>2, PlaysPair
<1>10. Plays(p9, At({}, FALSE, d4), At({}, FALSE, d5))
  <2>1. Fit([op |-> "derive", on |-> "child_with_wrong_psk"], At({}, FALSE, d4))
    <3>1. "early" \in d4
      OBVIOUS
    <3> HIDE DEF d4
    <3> QED BY <3>1 DEF Fit, At, Missing, Uses, Alone, Recoveries, Early, Child, Grandchild
  <2>2. "child_with_wrong_psk" \in Recoveries
    BY DEF Recoveries, Child
  <2> QED BY <1>2, <2>1, <2>2, PlaysRecovery
<1>11. /\ Plays(p10, At({}, FALSE, d5), At(Truths, FALSE, d5))
       /\ Plays(p13, At(Truths, FALSE, d7), At({}, FALSE, d7))
  BY <1>2, PlaysTruth
<1>12. Plays(p11, At(Truths, FALSE, d5), At(Truths, FALSE, d6))
  <2>1. /\ Fit([op |-> "derive", on |-> "early_without_truth"], At(Truths, FALSE, d5))
        /\ Fit([op |-> "derive", on |-> "child_without_truth"], At(Truths, FALSE, d5 \union {"early_without_truth"}))
    <3>1. "early" \in d5 \union {"early_without_truth"}
      OBVIOUS
    <3> HIDE DEF d5
    <3> QED BY <3>1, TruthFacts DEF Fit, At, Missing, Uses, Alone, Recoveries, Early, Child, Grandchild
  <2>2. "early_without_truth" \in Recoveries /\ "child_without_truth" \in Recoveries
    BY DEF Recoveries, Early, Child
  <2> QED BY <1>2, <2>1, <2>2, PlaysPair
<1>13. Plays(p12, At(Truths, FALSE, d6), At(Truths, FALSE, d7))
  <2>1. ASSUME grandchild PROVE Fit([op |-> "derive", on |-> "grandchild_without_truth"], At(Truths, FALSE, d6))
    <3>1. "child_without_truth" \in d6
      OBVIOUS
    <3> HIDE DEF d6
    <3> QED BY <2>1, <3>1, TruthFacts DEF Fit, At, Missing, Uses, Alone, Recoveries, Early, Child, Grandchild
  <2>2. "grandchild_without_truth" \in Recoveries /\ At(Truths, FALSE, d6) \in Progress
        /\ FALSE \in BOOLEAN
    BY <1>2 DEF Recoveries, Grandchild, At, Progress
  <2>3. grandchild => Plays(Do("derive", <<"grandchild_without_truth">>), At(Truths, FALSE, d6), At(Truths, FALSE, d7))
    BY <1>2, <2>1, <2>2, PlaysRecovery
  <2>4. ~grandchild => d7 = d6
    OBVIOUS
  <2> HIDE DEF d6, d7
  <2> QED BY <2>2, <2>3, <2>4, PlaysNothing
<1>14. Plays(p14, At({}, FALSE, d7), At({}, FALSE, d8))
  <2>1. ASSUME grandchild PROVE Fit([op |-> "derive", on |-> "grandchild_with_blocked_child"], At({}, FALSE, d7))
    <3>1. {"child_without_dh", "child_with_wrong_psk"} \subseteq d7
      OBVIOUS
    <3> HIDE DEF d7
    <3> QED BY <2>1, <3>1 DEF Fit, At, Missing, Uses, Alone, Recoveries, Early, Child, Grandchild
  <2>2. "grandchild_with_blocked_child" \in Recoveries /\ At({}, FALSE, d7) \in Progress
        /\ FALSE \in BOOLEAN /\ {} \in SUBSET Names
    BY <1>2 DEF Recoveries, Grandchild, At, Progress
  <2>3. grandchild => Plays(Do("derive", <<"grandchild_with_blocked_child">>), At({}, FALSE, d7), At({}, FALSE, d8))
    BY <1>2, <2>1, <2>2, PlaysRecovery
  <2>4. ~grandchild => d8 = d7
    OBVIOUS
  <2> HIDE DEF d7, d8
  <2> QED BY <2>2, <2>3, <2>4, PlaysNothing
<1> HIDE DEF w, d1, d2, d3, d4, d5, d6, d7, d8, p1, p2, p3, p4, p5, p6, p7, p8, p9, p10, p11, p12, p13, p14
<1>15. Plays(p1 \o p2 \o p3 \o p4 \o p5, Start, At({}, FALSE, d3))
  BY <1>4, <1>5, <1>6, <1>7, PlaysBoth
<1>16. Plays(p1 \o p2 \o p3 \o p4 \o p5 \o p6 \o p7 \o p8 \o p9, Start, At({}, FALSE, d5))
  BY <1>8, <1>9, <1>10, <1>15, PlaysBoth
<1>17. Plays(p1 \o p2 \o p3 \o p4 \o p5 \o p6 \o p7 \o p8 \o p9 \o p10 \o p11 \o p12, Start, At(Truths, FALSE, d7))
  BY <1>11, <1>12, <1>13, <1>16, PlaysBoth
<1>18. Plays(p1 \o p2 \o p3 \o p4 \o p5 \o p6 \o p7 \o p8 \o p9 \o p10 \o p11 \o p12 \o p13 \o p14,
             Start, At({}, FALSE, d8))
  BY <1>11, <1>14, <1>17, PlaysBoth
<1> QED BY <1>1, <1>3, <1>18

\* Every script puts back what it took, on whatever archive it runs.
LEMMA ScriptRestores ==
    ASSUME external \in BOOLEAN, grandchild \in BOOLEAN
    PROVE  Script \in Seq(Step) /\ \E h : Restores(h)
<1>1. PICK d : Plays(Script, Start, At({}, FALSE, d)) /\ Asserted \subseteq d
  <2>1. CASE external
    BY <2>1, ExternalPlays DEF Script, Asserted
  <2>2. CASE ~external
    BY <2>2, ChainPlays DEF Script
  <2> QED BY <2>1, <2>2
<1>2. Script \in Seq(Step) /\ \E h : Follows(Script, Start, h) /\ h[Len(Script)] = At({}, FALSE, d)
  BY <1>1 DEF Plays
<1>3. PICK h : Follows(Script, Start, h) /\ h[Len(Script)] = At({}, FALSE, d)
  BY <1>2
<1>4. Restores(h)
  BY <1>1, <1>3 DEF Restores, At
<1> QED BY <1>2, <1>4
-----------------------------------------------------------------------------
(* What the endpoints of the connections share, without the recursion.     *)

PskOf(c) ==
    CASE wire[c].ticket = 0 -> Nothing
      [] wire[c].ticket = External -> ExternalPsk
      [] OTHER -> TicketPsk(Endpoint(wire)[c - 1].res, wire[c].ticket)

Shared(c) ==
    Schedule(c, IF wire[c].dh THEN Dh(c) ELSE Nothing, PskOf(c),
             ServerFlight(wire[c]) \o ClientFlight(wire[c]))

LEMMA EndpointsShare ==
    ASSUME wire \in Seq(Connections), Len(wire) \in 1..3, wire[1].ticket \in {0, External}
    PROVE  \A c \in 1..Len(wire) : Endpoint(wire)[c] = Shared(c)
<1> DEFINE S(c, psk) == Schedule(c, IF wire[c].dh THEN Dh(c) ELSE Nothing, psk,
                                 ServerFlight(wire[c]) \o ClientFlight(wire[c]))
           P(c, res) == CASE wire[c].ticket = 0 -> Nothing
                          [] wire[c].ticket = External -> ExternalPsk
                          [] OTHER -> TicketPsk(res, wire[c].ticket)
           s1 == S(1, P(1, Nothing))
           s2 == S(2, P(2, s1.res))
           s3 == S(3, P(3, s2.res))
           g == [c \in 1..Len(wire) |-> CASE c = 1 -> s1 [] c = 2 -> s2 [] OTHER -> s3]
           Real(f) == f = [c \in DOMAIN wire |-> S(c, P(c, f[c - 1].res))]
           e == CHOOSE f : Real(f)
<1>0. \A c \in 1..Len(wire) : c = 1 \/ c = 2 \/ c = 3
  <2>1. \A n \in 1..3 : \A c \in 1..n : c = 1 \/ c = 2 \/ c = 3
    OBVIOUS
  <2> QED BY <2>1
<1>1. Endpoint(wire) = e
  BY DEF Endpoint
<1>2. DOMAIN wire = 1..Len(wire)
  OBVIOUS
<1>3. \A r, q : P(1, r) = P(1, q)
  BY DEF External
<1>4. Real(g)
  <2>1. ASSUME NEW c \in 1..Len(wire) PROVE g[c] = S(c, P(c, g[c - 1].res))
    <3>1. CASE c = 1
      <4>1. g[c] = s1
        BY <3>1
      <4>2. P(1, g[0].res) = P(1, Nothing)
        BY <1>3
      <4> HIDE DEF S, P, g
      <4> QED BY <3>1, <4>1, <4>2 DEF s1
    <3>2. CASE c = 2
      <4>1. g[c] = s2 /\ 1 \in 1..Len(wire) /\ c - 1 = 1
        BY <3>2
      <4>2. g[1] = s1
        BY <4>1
      <4> HIDE DEF S, P, g, s1
      <4> QED BY <3>2, <4>1, <4>2
    <3>3. CASE c = 3
      <4>1. g[c] = s3 /\ 2 \in 1..Len(wire) /\ c - 1 = 2
        BY <3>3
      <4>2. g[2] = s2
        BY <4>1
      <4> HIDE DEF S, P, g, s1, s2
      <4> QED BY <3>3, <4>1, <4>2
    <3> HIDE DEF S, P, g
    <3> QED BY <1>0, <3>1, <3>2, <3>3
  <2>2. g = [c \in 1..Len(wire) |-> g[c]]
    OBVIOUS
  <2> HIDE DEF S, P, g
  <2>3. g = [c \in 1..Len(wire) |-> S(c, P(c, g[c - 1].res))]
    BY <2>1, <2>2
  <2> QED BY <1>2, <2>3
<1> HIDE DEF g, S, P
<1>5. Real(e)
  <2> HIDE DEF Real
  <2> QED BY <1>4
<1>6. ASSUME NEW c \in 1..Len(wire) PROVE e[c] = S(c, P(c, e[c - 1].res))
  <2> HIDE DEF e
  <2> QED BY <1>2, <1>5
<1> HIDE DEF e
<1> QED BY <1>1, <1>6 DEF Shared, PskOf, S, P
-----------------------------------------------------------------------------
(* What each recovery computes.                                            *)

\* The connections of a finished capture of a resumption chain.
Chain ==
    /\ wire \in Seq(Connections) /\ Len(wire) = IF grandchild THEN 3 ELSE 2
    /\ wire[1].ticket = 0 /\ wire[1].dh /\ ~wire[1].early
    /\ wire[2].ticket \in Nat \ {0} /\ (wire[2].dh <=> Fresh) /\ wire[2].early
    /\ grandchild => wire[3].ticket \in Nat \ {0} /\ wire[3].early

Flight(c) == ServerFlight(wire[c]) \o ClientFlight(wire[c])

Messages == {"EE", "Certificate", "CertificateVerify", "EndOfEarlyData", "Finished"}

LEMMA FlightTypes ==
    /\ <<"EE", "Certificate", "CertificateVerify", "Finished">> \in Seq(Messages)
    /\ <<"EE", "Finished">> \in Seq(Messages) /\ <<"Finished">> \in Seq(Messages)
    /\ <<"EndOfEarlyData", "Finished">> \in Seq(Messages)
    /\ Len(<<"EE", "Certificate", "CertificateVerify", "Finished">>) = 4
    /\ Len(<<"EE", "Finished">>) = 2
  BY DEF Messages

LEMMA FlightsAreNotEmpty == \A c : Flight(c) # <<>>
<1> SUFFICES ASSUME NEW c PROVE Flight(c) # <<>>
  OBVIOUS
<1>1. ServerFlight(wire[c]) \in Seq(Messages) /\ Len(ServerFlight(wire[c])) \in {2, 4}
  <2>1. CASE wire[c].ticket = 0
    <3>1. ServerFlight(wire[c]) = <<"EE", "Certificate", "CertificateVerify", "Finished">>
      BY <2>1 DEF ServerFlight
    <3> QED BY <3>1, FlightTypes
  <2>2. CASE wire[c].ticket # 0
    <3>1. ServerFlight(wire[c]) = <<"EE", "Finished">>
      BY <2>2 DEF ServerFlight
    <3> QED BY <3>1, FlightTypes
  <2> QED BY <2>1, <2>2
<1>2. ClientFlight(wire[c]) \in Seq(Messages)
  <2>1. CASE wire[c].early
    <3>1. ClientFlight(wire[c]) = <<"EndOfEarlyData", "Finished">>
      BY <2>1 DEF ClientFlight
    <3> QED BY <3>1, FlightTypes
  <2>2. CASE ~wire[c].early
    <3>1. ClientFlight(wire[c]) = <<"Finished">>
      BY <2>2 DEF ClientFlight
    <3> QED BY <3>1, FlightTypes
  <2> QED BY <2>1, <2>2
<1>3. Len(Flight(c)) = Len(ServerFlight(wire[c])) + Len(ClientFlight(wire[c]))
      /\ Len(ClientFlight(wire[c])) \in Nat
  BY <1>1, <1>2 DEF Flight
<1>4. \A n \in {2, 4}, m \in Nat : n + m # 0
  OBVIOUS
<1>5. Len(Flight(c)) # 0
  BY <1>1, <1>3, <1>4
<1> QED BY <1>5

LEMMA DifferentLengths == \A s, t : Len(s) # Len(t) => s # t
  OBVIOUS

\* Secrets of different origin differ.
LEMMA SecretsDiffer ==
    ASSUME NEW p, NEW q, NEW y, NEW z, NEW c, NEW d
    PROVE  /\ HandshakeTraffic(y, p, c) = HandshakeTraffic(z, q, d) => p = q
           /\ HandshakeTraffic(y, p, c) # EarlyTraffic(q, d)
           /\ EarlyTraffic(p, c) # Nothing /\ TicketPsk(y, c) # Nothing /\ ExternalPsk # Nothing
           /\ <<"not", p>> # TicketPsk(y, c) /\ <<"not", p>> # Nothing /\ <<"not", p>> # ExternalPsk
<1>1. HandshakeTraffic(y, p, c) = HandshakeTraffic(z, q, d) => p = q
  BY DEF HandshakeTraffic
<1>2. HandshakeTraffic(y, p, c) # EarlyTraffic(q, d)
  <2>1. Len(HandshakeTraffic(y, p, c)) = 4 /\ Len(EarlyTraffic(q, d)) = 3
    BY DEF HandshakeTraffic, EarlyTraffic
  <2> QED BY <2>1
<1>3. /\ Len(EarlyTraffic(p, c)) = 3 /\ Len(TicketPsk(y, c)) = 3 /\ Len(<<"not", p>>) = 2
      /\ Len(ExternalPsk) = 1 /\ Len(Nothing) = 0
  BY DEF EarlyTraffic, TicketPsk, ExternalPsk, Nothing
<1>4. /\ EarlyTraffic(p, c) # Nothing /\ TicketPsk(y, c) # Nothing /\ ExternalPsk # Nothing
      /\ <<"not", p>> # TicketPsk(y, c) /\ <<"not", p>> # Nothing /\ <<"not", p>> # ExternalPsk
  BY <1>3, DifferentLengths
<1> QED BY <1>1, <1>2, <1>4

LEMMA ChainEndpoints ==
    ASSUME Chain
    PROVE  /\ Endpoint(wire)[1] = Schedule(1, Dh(1), Nothing, Flight(1))
           /\ Endpoint(wire)[2] = Schedule(2, IF Fresh THEN Dh(2) ELSE Nothing, ChildPsk, Flight(2))
           /\ grandchild =>
                Endpoint(wire)[3].early = EarlyTraffic(GrandchildPsk, 3)
<1>1. Len(wire) \in 1..3 /\ 1 \in 1..Len(wire) /\ 2 \in 1..Len(wire)
      /\ (grandchild => 3 \in 1..Len(wire))
  BY DEF Chain
<1>2. \A c \in 1..Len(wire) : Endpoint(wire)[c] = Shared(c)
  BY <1>1, EndpointsShare DEF Chain
<1>3. Endpoint(wire)[1] = Schedule(1, Dh(1), Nothing, Flight(1))
  <2>1. PskOf(1) = Nothing /\ wire[1].dh
    BY DEF Chain, PskOf, External
  <2> QED BY <1>1, <1>2, <2>1 DEF Shared, Flight
<1>4. PskOf(2) = ChildPsk
  BY DEF Chain, PskOf, ChildPsk, External
<1>5. Endpoint(wire)[2] = Schedule(2, IF Fresh THEN Dh(2) ELSE Nothing, ChildPsk, Flight(2))
  <2>1. wire[2].dh <=> Fresh
    BY DEF Chain
  <2> QED BY <1>1, <1>2, <1>4, <2>1 DEF Shared, Flight
<1>6. grandchild => PskOf(3) = GrandchildPsk
  BY DEF Chain, PskOf, GrandchildPsk, External
<1>7. grandchild => Endpoint(wire)[3] = Shared(3)
  BY <1>1, <1>2
<1> QED BY <1>3, <1>5, <1>6, <1>7 DEF Shared, Schedule

LEMMA EarlyIs ==
    ASSUME Chain, NEW material, NEW truth
    PROVE  derive_0rtt(wire, material, truth) =
             IF MatchesKeyShare(material, 1) /\ wire[2].ticket \in wire[1].archived
             THEN EarlyResult(2, ChildPsk, truth) ELSE Failed
<1> DEFINE z == Dh(material.priv)
           hs == HandshakeTraffic(z, Nothing, 1)
           msgs == extract_decrypted_handshake(wire, 1, {hs})
           parent == Schedule(1, z, Nothing, msgs)
           tickets == TicketsOpened(wire, 1, {hs, parent.app})
           matched == {nonce \in tickets : nonce = wire[2].ticket}
           psk == TicketPsk(parent.res, CHOOSE nonce \in matched : TRUE)
           early == EarlyTraffic(psk, 2)
           real == Endpoint(wire)[2].early
           good == TruthAgrees(truth, early, real) /\ verify_tls_http(early, real)
           found == Result(good, psk, early, Nothing, {early}, truth)
<1>1. derive_0rtt(wire, material, truth) =
        IF ~MatchesKeyShare(material, 1) \/ msgs = <<>> \/ matched = {} THEN Failed ELSE found
  BY DEF derive_0rtt
<1>2. CASE ~MatchesKeyShare(material, 1)
  BY <1>1, <1>2
<1>3. CASE MatchesKeyShare(material, 1)
  <2>1. z = Dh(1)
    BY <1>3 DEF MatchesKeyShare
  <2>2. /\ Endpoint(wire)[1] = Schedule(1, Dh(1), Nothing, Flight(1))
        /\ Endpoint(wire)[1].hs = hs
    BY <2>1, ChainEndpoints DEF Schedule
  <2>3. msgs = Flight(1)
    BY <2>2 DEF extract_decrypted_handshake, Flight, Chain
  <2>4. parent = Endpoint(wire)[1]
    BY <2>1, <2>2, <2>3
  <2>5. tickets = wire[1].archived
    BY <2>4 DEF TicketsOpened
  <2>6. CASE wire[2].ticket \notin wire[1].archived
    <3>1. matched = {}
      BY <2>5, <2>6
    <3> QED BY <1>1, <2>6, <3>1
  <2>7. CASE wire[2].ticket \in wire[1].archived
    <3>1. matched = {wire[2].ticket}
      BY <2>5, <2>7
    <3>2. psk = ChildPsk
      BY <2>4, <3>1 DEF ChildPsk
    <3>3. real = early
      BY <3>2, ChainEndpoints DEF Schedule
    <3>4. msgs # <<>>
      BY <2>3, FlightsAreNotEmpty
    <3>5. derive_0rtt(wire, material, truth) = found
      BY <1>1, <1>3, <3>1, <3>4
    <3>6. good = TRUE
      BY <3>3 DEF TruthAgrees, verify_tls_http
    <3>7. found = EarlyResult(2, ChildPsk, truth)
      BY <3>2, <3>3, <3>6 DEF EarlyResult
    <3> QED BY <1>3, <2>7, <3>5, <3>7
  <2> QED BY <2>6, <2>7
<1> QED BY <1>2, <1>3

\* A resumed handshake with other than the connection's PSK fails.
LEMMA ResumedFails ==
    ASSUME NEW c, NEW z, NEW q, Endpoint(wire)[c].hs = HandshakeTraffic(z, q, c),
           NEW psk, psk # q, NEW p, NEW early \in {Nothing, EarlyTraffic(p, c)},
           NEW material, NEW required, NEW truth
    PROVE  derive_resumed_1rtt(wire, c, material, psk, early, required, truth) = Failed
<1> DEFINE y == IF required THEN Dh(material.priv) ELSE Nothing
           hs == HandshakeTraffic(y, psk, c)
           given == IF early = Nothing THEN {} ELSE {early}
           msgs == extract_decrypted_handshake(wire, c, given \union {hs})
<1>1. Endpoint(wire)[c].hs # hs /\ Endpoint(wire)[c].hs # EarlyTraffic(p, c)
  BY SecretsDiffer
<1>2. Endpoint(wire)[c].hs \notin given \union {hs}
  BY <1>1
<1> HIDE DEF given, hs
<1>3. msgs = <<>>
  BY <1>2 DEF extract_decrypted_handshake
<1> QED BY <1>3 DEF derive_resumed_1rtt, given, hs

\* With that PSK it needs exactly the fresh scalar of the connection, if any.
Resumable(c, z, psk, early, required) ==
    /\ Endpoint(wire)[c] = Schedule(c, z, psk, Flight(c)) /\ psk # Nothing
    /\ wire[c].early => early = Endpoint(wire)[c].early /\ early # Nothing
    /\ required \in BOOLEAN
    /\ IF required THEN wire[c].dh /\ z = Dh(c) ELSE ~wire[c].dh /\ z = Nothing

ResumedResult(c, early, material, required, truth) ==
    IF required => MatchesKeyShare(material, c)
    THEN HandshakeResult(c, IF early = Nothing THEN {} ELSE {early}, truth) ELSE Failed

LEMMA ResumedIs ==
    ASSUME NEW c, NEW z, NEW psk, NEW early, NEW material, NEW required, NEW truth,
           Resumable(c, z, psk, early, required)
    PROVE  derive_resumed_1rtt(wire, c, material, psk, early, required, truth) =
             ResumedResult(c, early, material, required, truth)
<1> USE DEF Resumable, ResumedResult
<1> DEFINE y == IF required THEN Dh(material.priv) ELSE Nothing
           hs == HandshakeTraffic(y, psk, c)
           given == IF early = Nothing THEN {} ELSE {early}
           msgs == extract_decrypted_handshake(wire, c, given \union {hs})
           child == Schedule(c, y, psk, msgs)
           real == Endpoint(wire)[c]
           good == /\ TruthAgrees(truth, <<hs, child.app>>, <<real.hs, real.app>>)
                   /\ verify_tls_http(child.app, real.app)
           found == Result(good, Nothing, Nothing, child.res, given \union {hs, child.app}, truth)
<1>1. derive_resumed_1rtt(wire, c, material, psk, early, required, truth) =
        IF \/ psk = Nothing
           \/ required /\ ~(wire[c].dh /\ MatchesKeyShare(material, c))
           \/ ~required /\ wire[c].dh
           \/ msgs = <<>>
        THEN Failed ELSE found
  BY DEF derive_resumed_1rtt
<1>2. CASE ~(required => MatchesKeyShare(material, c))
  BY <1>1, <1>2
<1>3. CASE required => MatchesKeyShare(material, c)
  <2>1. y = z
    BY <1>3 DEF MatchesKeyShare
  <2>2. hs = real.hs
    BY <2>1 DEF Schedule
  <2>3. real.hs \in given \union {hs} /\ (wire[c].early => real.early \in given \union {hs})
    BY <2>2
  <2>4. msgs = Flight(c)
    <3> HIDE DEF given, hs, real
    <3> QED BY <2>3 DEF extract_decrypted_handshake, Flight, real
  <2>5. child = real
    BY <2>1, <2>4
  <2>6. msgs # <<>>
    BY <2>4, FlightsAreNotEmpty
  <2>7. derive_resumed_1rtt(wire, c, material, psk, early, required, truth) = found
    <3> HIDE DEF found, msgs
    <3> QED BY <1>1, <1>3, <2>6
  <2>8. good = TRUE
    BY <2>2, <2>5 DEF TruthAgrees, verify_tls_http
  <2>9. found = HandshakeResult(c, given, truth)
    <3> HIDE DEF good, child, hs, given
    <3> QED BY <2>2, <2>5, <2>8 DEF HandshakeResult
  <2> QED BY <1>3, <2>7, <2>9
<1> QED BY <1>2, <1>3

LEMMA GrandchildIs ==
    ASSUME Chain, grandchild, NEW child, NEW truth,
           child.success => child.res = Endpoint(wire)[2].res /\ Endpoint(wire)[2].app \in child.keylog
    PROVE  derive_grandchild_early(wire, child, truth) =
             IF child.success /\ wire[3].ticket \in wire[2].archived
             THEN EarlyResult(3, GrandchildPsk, truth) ELSE Failed
<1> DEFINE tickets == TicketsOpened(wire, 2, child.keylog)
           selected == {nonce \in tickets : nonce = wire[3].ticket}
           psk == TicketPsk(child.res, CHOOSE nonce \in selected : TRUE)
           early == EarlyTraffic(psk, 3)
           real == Endpoint(wire)[3].early
           good == TruthAgrees(truth, early, real) /\ verify_tls_http(early, real)
           found == Result(good, psk, early, Nothing, {early}, truth)
<1>1. derive_grandchild_early(wire, child, truth) =
        IF ~child.success \/ selected = {} THEN Failed ELSE found
  BY DEF derive_grandchild_early
<1>2. CASE ~child.success
  BY <1>1, <1>2
<1>3. CASE child.success
  <2>1. tickets = wire[2].archived
    BY <1>3 DEF TicketsOpened
  <2>2. CASE wire[3].ticket \notin wire[2].archived
    <3>1. selected = {}
      BY <2>1, <2>2
    <3> QED BY <1>1, <2>2, <3>1
  <2>3. CASE wire[3].ticket \in wire[2].archived
    <3>1. selected = {wire[3].ticket}
      BY <2>1, <2>3
    <3>2. psk = GrandchildPsk
      BY <1>3, <3>1 DEF GrandchildPsk
    <3>3. real = early
      BY <3>2, ChainEndpoints
    <3>4. good = TRUE
      BY <3>3 DEF TruthAgrees, verify_tls_http
    <3>5. found = EarlyResult(3, GrandchildPsk, truth)
      BY <3>2, <3>3, <3>4 DEF EarlyResult
    <3>6. selected # {}
      BY <3>1
    <3>7. derive_grandchild_early(wire, child, truth) = found
      <4> HIDE DEF found, selected
      <4> QED BY <1>1, <1>3, <3>6
    <3> QED BY <1>3, <2>3, <3>5, <3>7
  <2> QED BY <2>2, <2>3
<1> QED BY <1>2, <1>3

LEMMA ExternalEndpoint ==
    ASSUME ExternalArchive
    PROVE  Endpoint(wire)[1] = Schedule(1, Nothing, ExternalPsk, Flight(1)) /\ ~wire[1].early /\ ~wire[1].dh
<1> DEFINE conn == [ticket |-> External, dh |-> FALSE, early |-> FALSE, archived |-> {}]
<1>1. wire = <<conn>> /\ conn \in Connections
  BY DEF ExternalArchive, Connections, External
<1>2. wire \in Seq(Connections) /\ Len(wire) = 1 /\ wire[1] = conn
  <2> HIDE DEF conn
  <2> QED BY <1>1
<1>3. wire[1].ticket = External /\ ~wire[1].dh /\ ~wire[1].early
  BY <1>2
<1> HIDE DEF conn
<1>4. Endpoint(wire)[1] = Shared(1)
  BY <1>2, <1>3, EndpointsShare
<1>5. PskOf(1) = ExternalPsk
  BY <1>3 DEF PskOf, External
<1> QED BY <1>3, <1>4, <1>5 DEF Shared, Flight

\* The archive that the test works on.
Archive == external \in BOOLEAN /\ grandchild \in BOOLEAN /\ IF external THEN ExternalArchive ELSE Chain

\* The test has come to a recovery at progress a.
Reached(r, a) ==
    /\ a.withheld = withheld /\ a.changed = changed
    /\ Fit([op |-> "derive", on |-> r], a)
    /\ \A q \in a.done : results[q] = Exact(q)

LEMMA TruthIsThere ==
    ASSUME NEW r, NEW a, Reached(r, a)
    PROVE  /\ Truth = (r \notin WithoutTruth)
           /\ File("parent", 1) = IF r = "no_parent" THEN NoFile ELSE oracle[1]
           /\ File("child", 2) =
                IF Fresh /\ r \in {"early_without_child_dh", "child_without_dh"} THEN NoFile ELSE oracle[2]
           /\ PskFile = CASE r = "external_without_psk" -> Nothing
                          [] r = "external_with_wrong_psk" -> <<"not", ExternalPsk>>
                          [] OTHER -> ExternalPsk
<1>1. withheld \intersect {"parent", "child", "psk", "sslkeylog"} = Missing(r)
      /\ (changed <=> r = "external_with_wrong_psk")
  BY DEF Reached, Fit
<1>2. /\ "sslkeylog" \in withheld <=> r \in WithoutTruth
      /\ "parent" \in withheld <=> r = "no_parent"
      /\ "child" \in withheld <=> Fresh /\ r \in {"early_without_child_dh", "child_without_dh"}
      /\ "psk" \in withheld <=> r = "external_without_psk"
  BY <1>1 DEF Missing, WithoutTruth
<1> QED BY <1>1, <1>2 DEF Truth, File, PskFile

LEMMA AloneIsExact ==
    ASSUME Archive, external, NEW r \in Alone, NEW a, Reached(r, a)
    PROVE  Recover(r) = Exact(r)
<1> DEFINE truth == r \notin WithoutTruth
<1>1. /\ Endpoint(wire)[1] = Schedule(1, Nothing, ExternalPsk, Flight(1)) /\ ~wire[1].early /\ ~wire[1].dh
      /\ Endpoint(wire)[1].hs = HandshakeTraffic(Nothing, ExternalPsk, 1)
  BY ExternalEndpoint DEF Archive, Schedule
<1>2. Recover(r) = derive_external_psk(wire, PskFile, truth)
  <2>1. Truth = truth
    BY TruthIsThere
  <2> HIDE DEF truth
  <2> QED BY <2>1 DEF Recover, Alone, Early, Child
<1>3. CASE r = "external_without_psk"
  <2>1. PskFile = Nothing
    BY <1>3, TruthIsThere
  <2> QED BY <1>2, <1>3, <2>1 DEF derive_external_psk, Exact, Early, Alone
<1>4. CASE r = "external_with_wrong_psk"
  <2>1. PskFile = <<"not", ExternalPsk>>
    BY <1>4, TruthIsThere
  <2>2. PskFile # ExternalPsk /\ PskFile # Nothing
    BY <2>1, SecretsDiffer
  <2>3. derive_resumed_1rtt(wire, 1, [priv |-> 0, pub |-> 0], PskFile, Nothing, FALSE, truth) = Failed
    <3>1. Nothing \in {Nothing, EarlyTraffic(Nothing, 1)}
      OBVIOUS
    <3> HIDE DEF truth
    <3> QED BY <1>1, <2>2, <3>1, ResumedFails
  <2> QED BY <1>2, <1>4, <2>2, <2>3 DEF derive_external_psk, Exact, Early
<1>5. CASE r \in {"external", "external_without_truth"}
  <2>1. PskFile = ExternalPsk /\ ExternalPsk # Nothing
    BY <1>5, TruthIsThere, SecretsDiffer
  <2>2. derive_resumed_1rtt(wire, 1, [priv |-> 0, pub |-> 0], ExternalPsk, Nothing, FALSE, truth)
          = HandshakeResult(1, {}, truth)
    <3> DEFINE no == FALSE
               m == [priv |-> 0, pub |-> 0]
               none == Nothing
    <3>1. no \in BOOLEAN /\ ~no /\ none = Nothing
      OBVIOUS
    <3> HIDE DEF truth, no, m, none
    <3>2. derive_resumed_1rtt(wire, 1, m, ExternalPsk, none, no, truth)
            = ResumedResult(1, none, m, no, truth)
      <4>1. Resumable(1, Nothing, ExternalPsk, none, no)
        BY <1>1, <2>1, <3>1 DEF Resumable
      <4> QED BY <4>1, ResumedIs
    <3>3. derive_resumed_1rtt(wire, 1, m, ExternalPsk, none, no, truth) = HandshakeResult(1, {}, truth)
      BY <3>1, <3>2 DEF ResumedResult
    <3> QED BY <3>3 DEF no, m, none
  <2> QED BY <1>2, <1>5, <2>1, <2>2 DEF derive_external_psk, Exact, Early
<1> QED BY <1>3, <1>4, <1>5 DEF Alone

LEMMA EarlyIsExact ==
    ASSUME Archive, ~external, NEW r \in Early, NEW a, Reached(r, a)
    PROVE  Recover(r) = Exact(r)
<1> DEFINE truth == r \notin WithoutTruth
<1>1. Recover(r) = derive_0rtt(wire, File("parent", 1), truth)
  <2>1. Truth = truth
    BY TruthIsThere
  <2> HIDE DEF truth
  <2> QED BY <2>1 DEF Recover, Alone, Early, Child
<1>2. Chain
  BY DEF Archive
<1>3. CASE r = "no_parent"
  <2>1. ~MatchesKeyShare(File("parent", 1), 1)
    BY <1>3, TruthIsThere DEF MatchesKeyShare, NoFile, NoPair
  <2>2. Recover(r) = Failed
    <3> HIDE DEF truth
    <3> QED BY <1>1, <1>2, <2>1, EarlyIs
  <2> QED BY <1>3, <2>2 DEF Exact
<1>4. CASE r # "no_parent"
  <2>1. Recover(r) = derive_0rtt(wire, oracle[1], truth)
    BY <1>1, <1>4, TruthIsThere
  <2>2. Recover(r) = IF EarlyOpens THEN EarlyResult(2, ChildPsk, truth) ELSE Failed
    <3> HIDE DEF truth
    <3> QED BY <1>2, <2>1, EarlyIs DEF EarlyOpens
  <2> HIDE DEF truth
  <2>3. Exact(r) = IF EarlyOpens THEN EarlyResult(2, ChildPsk, truth) ELSE Failed
    BY <1>4 DEF Exact, Early, truth
  <2> QED BY <2>2, <2>3
<1> QED BY <1>3, <1>4

LEMMA ChildIsExact ==
    ASSUME Archive, ~external, NEW r \in Child, NEW a, Reached(r, a)
    PROVE  Recover(r) = Exact(r)
<1> DEFINE truth == r \notin WithoutTruth
           psk == results["early"].psk
           early == results["early"].early
           given == IF r = "child_with_wrong_psk" THEN WrongPsk ELSE psk
           real == Endpoint(wire)[2]
           z == IF Fresh THEN Dh(2) ELSE Nothing
<1>1. Recover(r) = derive_resumed_1rtt(wire, 2, File("child", 2), given, early, Fresh, truth)
  BY TruthIsThere DEF Recover, Child, Early, Alone
<1>2. Chain /\ Fresh \in BOOLEAN /\ wire[2].early /\ (wire[2].dh <=> Fresh)
  BY DEF Archive, Chain, Fresh
<1>3. results["early"] = IF EarlyOpens THEN EarlyResult(2, ChildPsk, TRUE) ELSE Failed
  <2>1. results["early"] = Exact("early")
    <3>1. Uses(r) = {"early"}
      BY DEF Uses, Child
    <3>2. Uses(r) \subseteq a.done
      BY DEF Reached, Fit
    <3> QED BY <3>1, <3>2 DEF Reached
  <2>2. "early" \in Early \ {"no_parent"} /\ "early" \notin WithoutTruth
    BY DEF Early, WithoutTruth
  <2> QED BY <2>1, <2>2 DEF Exact
<1>4. real = Schedule(2, z, ChildPsk, Flight(2)) /\ real.early = EarlyTraffic(ChildPsk, 2)
      /\ real.hs = HandshakeTraffic(z, ChildPsk, 2) /\ real.early # Nothing /\ ChildPsk # Nothing
  BY <1>2, ChainEndpoints, SecretsDiffer DEF Schedule, ChildPsk
<1>5. /\ EarlyOpens => psk = ChildPsk /\ early = real.early
      /\ ~EarlyOpens => psk = Nothing /\ early = Nothing
  BY <1>3 DEF EarlyResult, Failed, Result
<1>6. CASE ~EarlyOpens \/ r = "child_with_wrong_psk"
  <2>1. given # ChildPsk
    BY <1>4, <1>5, <1>6, SecretsDiffer DEF WrongPsk, ChildPsk
  <2>2. early \in {Nothing, EarlyTraffic(ChildPsk, 2)}
    BY <1>4, <1>5
  <2>3. Recover(r) = Failed
    <3> HIDE DEF truth, given, early, real, z
    <3> QED BY <1>1, <1>4, <2>1, <2>2, ResumedFails DEF real
  <2> QED BY <1>6, <2>3 DEF Exact, Child, Early, ChildOpens
<1>7. CASE EarlyOpens /\ r # "child_with_wrong_psk"
  <2>1. Recover(r) = IF Fresh => MatchesKeyShare(File("child", 2), 2)
                     THEN HandshakeResult(2, {real.early}, truth) ELSE Failed
    <3>1. given = ChildPsk /\ early = real.early
      BY <1>5, <1>7
    <3> HIDE DEF truth, given, early, real
    <3>2. derive_resumed_1rtt(wire, 2, File("child", 2), ChildPsk, early, Fresh, truth) =
            ResumedResult(2, early, File("child", 2), Fresh, truth)
      <4>1. Resumable(2, z, ChildPsk, early, Fresh)
        BY <1>2, <1>4, <3>1 DEF Resumable, real
      <4> QED BY <4>1, ResumedIs
    <3> QED BY <1>1, <1>4, <3>1, <3>2 DEF ResumedResult
  <2>2. CASE r = "child_without_dh"
    <3>1. Fresh => ~MatchesKeyShare(File("child", 2), 2)
      BY <2>2, TruthIsThere DEF MatchesKeyShare, NoFile, NoPair
    <3> QED BY <1>7, <2>1, <2>2, <3>1 DEF Exact, Early
  <2>3. CASE r \in {"child", "child_without_truth"}
    <3>1. File("child", 2) = oracle[2]
      BY <2>3, TruthIsThere
    <3>2. ChildOpens = (Fresh => MatchesKeyShare(File("child", 2), 2))
      BY <1>7, <3>1 DEF ChildOpens
    <3> QED BY <2>1, <2>3, <3>2 DEF Exact, Early
  <2> QED BY <1>7, <2>2, <2>3 DEF Child
<1> QED BY <1>6, <1>7

LEMMA GrandchildIsExact ==
    ASSUME Archive, ~external, NEW r \in Grandchild, NEW a, Reached(r, a)
    PROVE  Recover(r) = Exact(r)
<1> DEFINE truth == r \notin WithoutTruth
           used == CASE r = "grandchild" -> "child"
                     [] r = "grandchild_without_truth" -> "child_without_truth"
                     [] OTHER -> IF Fresh THEN "child_without_dh" ELSE "child_with_wrong_psk"
           child == results[used]
<1>1. Recover(r) = derive_grandchild_early(wire, child, truth)
  <2>1. Truth = truth
    BY TruthIsThere
  <2> HIDE DEF truth
  <2> QED BY <2>1 DEF Recover, Grandchild, Alone, Early, Child
<1>2. Chain /\ grandchild
  BY DEF Archive, Reached, Fit
<1>3. child = Exact(used)
  <2>1. Uses(r) = {used}
    BY DEF Uses, Grandchild, Child
  <2>2. Uses(r) \subseteq a.done
    BY DEF Reached, Fit
  <2> HIDE DEF used
  <2> QED BY <2>1, <2>2 DEF Reached
<1>4. CASE r = "grandchild_with_blocked_child"
  <2>1. Exact(used) = Failed
    BY <1>4 DEF Exact, Early
  <2>2. ~child.success
    BY <1>3, <2>1 DEF Failed, Result
  <2>3. Recover(r) = Failed
    <3> HIDE DEF truth, child
    <3> QED BY <1>1, <1>2, <2>2, GrandchildIs
  <2> QED BY <1>4, <2>3 DEF Exact, Early
<1>5. CASE r \in {"grandchild", "grandchild_without_truth"}
  <2>1. used \in {"child", "child_without_truth"}
    BY <1>5
  <2>2. child = IF ChildOpens THEN HandshakeResult(2, {Endpoint(wire)[2].early}, used \notin WithoutTruth)
                ELSE Failed
    <3> HIDE DEF used
    <3> QED BY <1>3, <2>1 DEF Exact, Early
  <2>3. /\ child.success <=> ChildOpens
        /\ ChildOpens => child.res = Endpoint(wire)[2].res /\ Endpoint(wire)[2].app \in child.keylog
    <3> HIDE DEF child, used
    <3> QED BY <2>2 DEF HandshakeResult, Failed, Result
  <2>4. Recover(r) = IF child.success /\ wire[3].ticket \in wire[2].archived
                     THEN EarlyResult(3, GrandchildPsk, truth) ELSE Failed
    <3> HIDE DEF truth, child
    <3> QED BY <1>1, <1>2, <2>3, GrandchildIs
  <2>5. Recover(r) = IF GrandchildOpens THEN EarlyResult(3, GrandchildPsk, truth) ELSE Failed
    <3> HIDE DEF truth, child
    <3> QED BY <2>3, <2>4 DEF GrandchildOpens
  <2> QED BY <1>5, <2>5 DEF Exact, Early
<1> QED BY <1>4, <1>5 DEF Grandchild

\* Every recovery gives exactly what the archive allows.
LEMMA RecoverIsExact ==
    ASSUME Archive, NEW r, NEW a, Reached(r, a)
    PROVE  r \in Recoveries /\ Recover(r) = Exact(r)
<1>1. r \in Recoveries /\ (r \in Alone <=> external) /\ external \in BOOLEAN
  BY DEF Reached, Fit, Archive
<1> QED BY <1>1, AloneIsExact, EarlyIsExact, ChildIsExact, GrandchildIsExact DEF Recoveries
-----------------------------------------------------------------------------
(* The capture, up to its manifest.                                        *)

LEMMA ChoicesAreFixed == ASSUME CaptureNext PROVE UNCHANGED <<kex, grandchild, timely>>
<1>1. CASE Client1 \/ Snapshot1 \/ Snapshot2 \/ RestorePhase1 \/ WriteManifest \/ ReadLine
  BY <1>1 DEF Client1, Snapshot1, Snapshot2, RestorePhase1, WriteManifest, ReadLine
<1>2. CASE Client2 \/ Client3
  BY <1>2 DEF Client2, Client3
<1>3. CASE Persist
  BY <1>3 DEF Persist, TakePrivate, PersistPair
<1> QED BY <1>1, <1>2, <1>3 DEF CaptureNext, MainStep

LEMMA ConnectionIsLinked ==
    ASSUME WireInv, NEW c \in 1..3, Len(wire) = c - 1, NEW ticket \in Nat, Connection(c, ticket),
           UNCHANGED <<kex, timely>>,
           IF c = 1 THEN ticket = 0 ELSE ticket = saved[c - 1] /\ saved[c - 1] # 0
    PROVE  /\ wire' \in Seq(Connections) /\ saved' \in Seq(Nat) /\ Len(wire') = c /\ Len(saved') = c
           /\ \A d \in 1..c : Linked(d)'
<1> DEFINE Conn(archived) == [ticket |-> ticket, dh |-> c = 1 \/ Fresh, early |-> c > 1,
                               archived |-> archived]
<1>0. PICK issued \in 0..MaxTickets :
        /\ \E archived \in {1..n : n \in 0..issued} :
             (timely => archived = 1..issued) /\ wire' = Append(wire, Conn(archived))
        /\ \E out \in 0..issued : saved' = Append(saved, out)
  BY DEF Connection
<1>1. PICK archived \in {1..n : n \in 0..issued}, out \in 0..issued :
        /\ timely => archived = 1..issued
        /\ wire' = Append(wire, Conn(archived)) /\ saved' = Append(saved, out)
  BY <1>0
<1> DEFINE dh == c = 1 \/ Fresh
           early == c > 1
           conn == [ticket |-> ticket, dh |-> dh, early |-> early, archived |-> archived]
<1>2. issued \in Nat /\ out \in Nat /\ archived \in SUBSET Nat
  <2>1. issued \in Nat /\ out \in Nat
    BY CaptureAssumption
  <2>2. PICK n \in 0..issued : archived = 1..n
    BY <1>1
  <2> QED BY <2>1, <2>2
<1>3. conn \in Connections
  BY <1>2 DEF Connections
<1>4. /\ wire \in Seq(Connections) /\ saved \in Seq(Nat) /\ Len(saved) = c - 1
      /\ \A d \in 1..(c - 1) : Linked(d)
  BY DEF WireInv
<1>5. /\ wire' \in Seq(Connections) /\ saved' \in Seq(Nat) /\ Len(wire') = c /\ Len(saved') = c
      /\ \A d \in 1..(c - 1) : wire'[d] = wire[d] /\ saved'[d] = saved[d]
      /\ wire'[c] = conn /\ saved'[c] = out
  <2> HIDE DEF conn
  <2> QED BY <1>1, <1>2, <1>3, <1>4 DEF conn
<1>6. ASSUME NEW d \in 1..c PROVE Linked(d)'
  <2>1. CASE d < c
    <3>1. d \in 1..(c - 1) /\ d - 1 \in 0..(c - 1) /\ (d # 1 => d - 1 \in 1..(c - 1))
      BY <2>1
    <3>2. wire'[d] = wire[d] /\ saved'[d] = saved[d] /\ (d # 1 => saved'[d - 1] = saved[d - 1])
      BY <1>5, <3>1
    <3> QED BY <1>4, <3>1, <3>2 DEF Linked, Fresh
  <2>2. CASE d = c
    <3>1. timely' /\ saved'[c] # 0 => saved'[c] \in conn.archived
      BY <1>1, <1>2, <1>5
    <3>2. c # 1 => c - 1 \in 1..(c - 1)
      OBVIOUS
    <3>3. c # 1 => saved'[c - 1] = saved[c - 1]
      BY <1>5, <3>2
    <3>4. conn.dh = (c = 1 \/ Fresh') /\ conn.early = (c > 1) /\ conn.ticket = ticket
      BY DEF Fresh
    <3> HIDE DEF conn
    <3> QED BY <1>5, <2>2, <3>1, <3>3, <3>4 DEF Linked
  <2> QED BY <2>1, <2>2
<1> QED BY <1>5, <1>6

\* Steps that make no connection.
LEMMA NothingConnected ==
    ASSUME WireInv, UNCHANGED <<kex, grandchild, timely, wire, saved>>, Len(wire) \in Made',
           cpc' = "client2" => saved[1] # 0, cpc' = "client3" => saved[2] # 0 /\ grandchild
    PROVE  WireInv'
<1>1. \A c \in 1..Len(wire) : Linked(c)'
  BY DEF WireInv, Linked, Fresh
<1> QED BY <1>1 DEF WireInv

LEMMA ConnectionMade ==
    ASSUME WireInv, NEW c \in 1..3, Len(wire) = c - 1, NEW ticket \in Nat, Connection(c, ticket),
           UNCHANGED <<kex, timely>>, c \in Made', cpc' \notin {"client2", "client3"},
           IF c = 1 THEN ticket = 0 ELSE ticket = saved[c - 1] /\ saved[c - 1] # 0
    PROVE  WireInv'
<1>1. /\ wire' \in Seq(Connections) /\ saved' \in Seq(Nat) /\ Len(wire') = c /\ Len(saved') = c
      /\ \A d \in 1..c : Linked(d)'
  BY ConnectionIsLinked
<1> QED BY <1>1 DEF WireInv

LEMMA CaptureKeepsWire == ASSUME CapInv, WireInv, CaptureNext PROVE WireInv'
<1> USE DEF lateVars, hookVars
<1>1. UNCHANGED <<kex, grandchild, timely>> /\ Len(wire) \in Made /\ Len(saved) = Len(wire)
      /\ saved \in Seq(Nat)
  BY ChoicesAreFixed DEF WireInv
<1>2. CASE Client1
  <2>1. Len(wire) = 0 /\ 1 \in Made'
    BY <1>1, <1>2 DEF Client1, Made
  <2> QED BY <1>1, <1>2, <2>1, ConnectionMade DEF Client1
<1>3. CASE Snapshot1
  BY <1>1, <1>3, NothingConnected DEF Snapshot1, Made
<1>4. CASE Client2
  <2>1. Len(wire) = 1 /\ saved[1] \in Nat \ {0}
    BY <1>1, <1>4 DEF Client2, Made, WireInv
  <2>2. CASE Connection(2, saved[1]) /\ cpc' = "snapshot2"
    <3>1. 2 \in Made'
      BY <2>2 DEF Made
    <3> QED BY <1>1, <2>1, <2>2, <3>1, ConnectionMade
  <2>3. CASE cpc' = "raised" /\ UNCHANGED <<wire, saved>>
    BY <1>1, <2>1, <2>3, NothingConnected DEF Made
  <2> QED BY <1>4, <2>2, <2>3 DEF Client2
<1>5. CASE Snapshot2
  <2>1. Len(wire) = 2
    BY <1>1, <1>5 DEF Snapshot2, Made
  <2> QED BY <1>1, <1>5, <2>1, NothingConnected DEF Snapshot2, Made
<1>6. CASE Client3
  <2>1. Len(wire) = 2 /\ saved[2] \in Nat \ {0} /\ grandchild
    BY <1>1, <1>6 DEF Client3, Made, WireInv
  <2>2. CASE Connection(3, saved[2]) /\ cpc' = "restore"
    <3>1. 3 \in Made'
      BY <1>1, <2>1, <2>2 DEF Made
    <3> QED BY <1>1, <2>1, <2>2, <3>1, ConnectionMade
  <2>3. CASE cpc' = "raised" /\ UNCHANGED <<wire, saved>>
    BY <1>1, <2>1, <2>3, NothingConnected DEF Made
  <2> QED BY <1>6, <2>2, <2>3 DEF Client3
<1>7. CASE RestorePhase1 \/ WriteManifest
  BY <1>1, <1>7, NothingConnected DEF RestorePhase1, WriteManifest, Made
<1>8. CASE Persist
  <2>1. /\ cpc \in {"persist1", "public1", "persist2", "public2"}
        /\ cpc' \in {"public1", "persist2", "public2", "manifest", "raised"}
        /\ UNCHANGED <<wire, saved>>
    BY <1>8 DEF Persist, TakePrivate, PersistPair
  <2>2. Len(wire) \in IF grandchild THEN {3} ELSE {2}
    BY <1>1, <2>1 DEF Made
  <2>3. Len(wire) \in Made'
    BY <1>1, <2>1, <2>2 DEF Made
  <2> QED BY <1>1, <2>1, <2>3, NothingConnected
<1>9. CASE ReadLine
  <2>1. UNCHANGED <<cpc, wire, saved>>
    BY <1>9 DEF ReadLine
  <2>2. (cpc = "client2" => saved[1] # 0) /\ (cpc = "client3" => saved[2] # 0 /\ grandchild)
    BY DEF WireInv
  <2> QED BY <1>1, <2>1, <2>2, NothingConnected DEF Made
<1> QED BY <1>2, <1>3, <1>4, <1>5, <1>6, <1>7, <1>8, <1>9 DEF CaptureNext, MainStep

\* A capture of a resumption chain, from its start to its end.
CaptureInv == CapInv /\ (timely => StepInv) /\ WireInv

LEMMA CaptureKeeps == ASSUME CaptureInv, CaptureNext PROVE CaptureInv' /\ cpc # "captured"
<1>1. CapInv' /\ (timely => StepInv)'
  <2>1. CASE MainStep
    BY <2>1, MainKeepsTypes, MainKeepsPast, MainKeepsFiles, MainKeepsStep, ChoicesAreFixed DEF CapInv, CaptureInv
  <2>2. CASE ReadLine
    BY <2>2, ReadLineKeeps, ReadLineKeepsStep, ChoicesAreFixed DEF CaptureInv
  <2> QED BY <2>1, <2>2 DEF CaptureNext
<1>2. WireInv'
  BY CaptureKeepsWire DEF CaptureInv
<1>3. cpc # "captured"
  BY DEF CaptureNext, MainStep, Client1, Snapshot1, Client2, Snapshot2, Client3, RestorePhase1, Persist,
         TakePrivate, PersistPair, WriteManifest, ReadLine
<1> QED BY <1>1, <1>2, <1>3 DEF CaptureInv

LEMMA CaptureStarts == ASSUME CaptureInit PROVE CaptureInv
<1>1. CapInv /\ StepInv
  BY CaptureInitial DEF CaptureInit, StepInv
<1>2. WireInv
  BY DEF CaptureInit, WireInv, Made
<1> QED BY <1>1, <1>2 DEF CaptureInv
-----------------------------------------------------------------------------
(* The invariant of the test.                                              *)

Outputs == {"early", "child", "grandchild", "external"}

Types ==
    /\ external \in BOOLEAN /\ changed \in BOOLEAN /\ grandchild \in BOOLEAN
    /\ results = [r \in Recoveries |-> results[r]]
    /\ derived = [f \in Outputs |-> derived[f]]

\* The test is at its step, after the part h of its script.
Running(h) ==
    /\ Restores(h) /\ step \in 1..(Len(Script) + 1)
    /\ h[step - 1].withheld = withheld /\ h[step - 1].changed = changed
    /\ \A r \in h[step - 1].done : results[r] = Exact(r)

ArchiveInv == IF external THEN ExternalArchive ELSE CaptureInv

OutcomeInv ==
    /\ outcome # "none" => external \/ manifest
    /\ outcome = "none" => \A f \in Outputs : derived[f] = {}
    /\ outcome = "running" => \E h : Running(h)
    /\ outcome = "unwinding" => (changed => withheld = {})

TestInv == Types /\ ArchiveInv /\ OutcomeInv /\ DerivedAreGenuine /\ InputsRestored /\ CausalityHolds

LEMMA ArchiveIs ==
    ASSUME Types, ArchiveInv, external \/ manifest
    PROVE  Archive /\ (~external => cpc = "captured")
<1>1. CASE external
  BY <1>1 DEF Types, ArchiveInv, Archive
<1>2. CASE ~external
  <2>1. cpc = "captured" /\ WireInv
    BY <1>2 DEF ArchiveInv, CaptureInv, CapInv, FilesInv
  <2>2. Len(wire) = (IF grandchild THEN 3 ELSE 2)
    BY <2>1 DEF WireInv, Made
  <2>3. Linked(1) /\ Linked(2) /\ (grandchild => Linked(3))
    BY <2>1, <2>2 DEF WireInv
  <2>4. saved[1] \in Nat /\ saved[2] \in Nat
    BY <2>1, <2>2 DEF WireInv
  <2>5. Chain
    <3>1. wire \in Seq(Connections)
      BY <2>1 DEF WireInv
    <3>2. wire[1].ticket = 0 /\ wire[1].dh /\ ~wire[1].early
      BY <2>3 DEF Linked
    <3>3. wire[2].ticket \in Nat \ {0} /\ (wire[2].dh <=> Fresh) /\ wire[2].early
      BY <2>3, <2>4 DEF Linked
    <3>4. grandchild => wire[3].ticket \in Nat \ {0} /\ wire[3].early
      BY <2>3, <2>4 DEF Linked
    <3> QED BY <2>2, <3>1, <3>2, <3>3, <3>4 DEF Chain
  <2> QED BY <1>2, <2>1, <2>5 DEF Types, Archive
<1> QED BY <1>1, <1>2

\* What a capture that kept up leaves opens everything.
LEMMA TimelyOpens ==
    ASSUME Types, ArchiveInv, ~external, manifest, timely
    PROVE  /\ EarlyOpens /\ ChildOpens /\ (grandchild => GrandchildOpens)
           /\ ~Fresh => oracle[2] = NoFile
<1>1. cpc = "captured" /\ WireInv /\ StepInv /\ PastInv
  BY ArchiveIs DEF ArchiveInv, CaptureInv, CapInv
<1>2. Len(wire) = (IF grandchild THEN 3 ELSE 2)
  BY <1>1 DEF WireInv, Made
<1>3. Linked(1) /\ Linked(2) /\ (grandchild => Linked(3))
  BY <1>1, <1>2 DEF WireInv
<1>4. wire[2].ticket \in wire[1].archived
  BY <1>3 DEF Linked
<1>5. grandchild => wire[3].ticket \in wire[2].archived
  BY <1>3 DEF Linked
<1>6. oracle[1] = PairOf(1) /\ (Fresh => oracle[2] = PairOf(2))
  BY <1>1 DEF StepInv
<1>7. MatchesKeyShare(oracle[1], 1) /\ (Fresh => MatchesKeyShare(oracle[2], 2))
  BY <1>6 DEF MatchesKeyShare, PairOf
<1>8. ~Fresh => oracle[2] = NoFile
  BY <1>1 DEF PastInv
<1> QED BY <1>4, <1>5, <1>7, <1>8 DEF EarlyOpens, ChildOpens, GrandchildOpens

\* While the test runs, nothing changes what its recoveries must return.
LEMMA TestIsStable ==
    ASSUME UNCHANGED <<captureVars, external>>, NEW h
    PROVE  /\ \A r : Exact(r)' = Exact(r)
           /\ Script' = Script /\ (Restores(h)' <=> Restores(h))
           /\ ArchiveInv' <=> ArchiveInv
           /\ UNCHANGED <<kex, grandchild, timely, wire, oracle, manifest>>
<1>1. UNCHANGED <<kex, grandchild, timely, cpc, wire, saved, pipe, store, phase1, phase2, taken, oracle,
                  manifest, external>>
  BY DEF captureVars
<1>2. Fresh' = Fresh /\ Script' = Script
  BY <1>1 DEF Script, ExternalScript, ChainScript, TruthFiles, Fresh
<1>3. /\ EarlyOpens' = EarlyOpens /\ ChildOpens' = ChildOpens /\ GrandchildOpens' = GrandchildOpens
      /\ ChildPsk' = ChildPsk /\ GrandchildPsk' = GrandchildPsk
  BY <1>1 DEF EarlyOpens, ChildOpens, GrandchildOpens, ChildPsk, GrandchildPsk, Fresh
<1>4. /\ \A c, psk, truth : EarlyResult(c, psk, truth)' = EarlyResult(c, psk, truth)
      /\ \A c, early, truth : HandshakeResult(c, early, truth)' = HandshakeResult(c, early, truth)
  BY <1>1 DEF EarlyResult, HandshakeResult
<1>5. \A r : Exact(r)' = Exact(r)
  BY <1>1, <1>2, <1>3, <1>4 DEF Exact
<1>6. \A c, a : Fit(c, a)' <=> Fit(c, a)
  BY <1>1, <1>2 DEF Fit, Missing, Uses
<1>7. \A s, a : Follows(s, a, h)' <=> Follows(s, a, h)
  BY <1>6 DEF Follows
<1>8. Asserted' = Asserted
  BY <1>1 DEF Asserted
<1>9. Restores(h)' <=> Restores(h)
  BY <1>2, <1>7, <1>8 DEF Restores
<1>10. ExternalArchive' <=> ExternalArchive
  BY <1>1 DEF ExternalArchive
<1>11. CaptureInv' <=> CaptureInv
  <2>1. CapInv' <=> CapInv
    BY <1>1, <1>2 DEF CapInv, Typed, PastInv, FilesInv, UpTo2, Complete
  <2>2. StepInv' <=> StepInv
    BY <1>1, <1>2 DEF StepInv, Arriving
  <2>3. WireInv' <=> WireInv
    BY <1>1, <1>2 DEF WireInv, Made, Linked
  <2> QED BY <1>1, <2>1, <2>2, <2>3 DEF CaptureInv
<1> QED BY <1>1, <1>2, <1>5, <1>9, <1>10, <1>11 DEF ArchiveInv

LEMMA TestStarts == ASSUME Init PROVE TestInv
<1>1. ArchiveInv /\ external \in BOOLEAN /\ grandchild \in BOOLEAN
  BY CaptureStarts DEF Init, ArchiveInv, ExternalArchive, CaptureInit
<1>2. /\ results = [r \in Recoveries |-> results[r]] /\ derived = [f \in Outputs |-> derived[f]]
      /\ \A f \in Outputs : derived[f] = {}
  <2>1. results = [r \in Recoveries |-> Failed]
    BY DEF Init
  <2>2. derived = [f \in Outputs |-> {}]
    BY DEF Init, Outputs
  <2> QED BY <2>1, <2>2
<1>3. outcome = "none" /\ changed = FALSE
  BY DEF Init
<1> QED BY <1>1, <1>2, <1>3 DEF TestInv, Types, OutcomeInv, DerivedAreGenuine, InputsRestored, CausalityHolds, Outputs

\* Where a run has got to.
LEMMA StepOf ==
    ASSUME Types, NEW h, Running(h), step \in DOMAIN Script
    PROVE  LET a == h[step - 1]
               b == h[step]
           IN  /\ step \in 1..Len(Script) /\ Script[step] \in Step
               /\ Fit(Script[step], a) /\ b = Effect(Script[step], a)
               /\ a.withheld = withheld /\ a.changed = changed
               /\ \A r \in a.done : results[r] = Exact(r)
<1>1. Script \in Seq(Step)
  BY ScriptRestores DEF Types
<1>2. step \in 1..Len(Script) /\ Script[step] \in Step
  BY <1>1
<1> QED BY <1>2 DEF Running, Restores, Follows

\* A step of a run that changes no result.
LEMMA RunGoesOn ==
    ASSUME Types, NEW h, Running(h), step \in DOMAIN Script, step' = step + 1,
           UNCHANGED <<captureVars, external, results>>, Script[step].op # "derive",
           withheld' = h[step].withheld, changed' = h[step].changed
    PROVE  Running(h)'
<1>1. step \in 1..Len(Script) /\ h[step] = Effect(Script[step], h[step - 1])
  BY StepOf
<1>2. h[step].done = h[step - 1].done
  BY <1>1 DEF Effect, At
<1>3. \A r : Exact(r)' = Exact(r)
  BY TestIsStable
<1>4. Script' = Script /\ Restores(h)'
  BY TestIsStable DEF Running
<1>5. step' \in 1..(Len(Script') + 1) /\ step' - 1 = step
  BY <1>1, <1>4
<1>6. \A r \in h[step].done : results'[r] = Exact(r)'
  BY <1>2, <1>3 DEF Running
<1> QED BY <1>4, <1>5, <1>6 DEF Running

LEMMA LoadKeeps == ASSUME TestInv, Load PROVE OutcomeInv'
<1>1. UNCHANGED <<captureVars, external, changed, withheld, derived>> /\ (external \/ manifest)
      /\ outcome' \in {"running", "refused"}
  BY DEF Load
<1>2. ASSUME outcome' = "running" PROVE \E h : Running(h)'
  <2>1. step' = 1 /\ withheld' = {} /\ changed' = FALSE
    BY <1>1, <1>2 DEF Load, TestInv, Types
  <2>2. Script \in Seq(Step) /\ \E h : Restores(h)
    BY ScriptRestores DEF TestInv, Types
  <2>3. PICK h : Restores(h)
    BY <2>2
  <2>4. Script' = Script /\ Restores(h)' /\ h[0] = Start
    BY <1>1, <2>3, TestIsStable DEF Restores, Follows
  <2>5. Len(Script) \in Nat
    BY <2>2
  <2>6. step' \in 1..(Len(Script') + 1) /\ step' - 1 = 0
    BY <2>1, <2>4, <2>5
  <2>7. h[0].withheld = {} /\ h[0].changed = FALSE /\ h[0].done = {}
    BY <2>4 DEF Start, At
  <2>8. Running(h)'
    BY <2>1, <2>4, <2>6, <2>7 DEF Running
  <2> QED BY <2>8
<1>3. UNCHANGED manifest
  BY <1>1 DEF captureVars
<1> QED BY <1>1, <1>2, <1>3 DEF OutcomeInv

LEMMA RenameKeeps == ASSUME TestInv, Withhold \/ Restore \/ Overwrite PROVE OutcomeInv'
<1>1. /\ UNCHANGED <<captureVars, external, results, derived, outcome>>
      /\ outcome = "running" /\ step \in DOMAIN Script /\ step' = step + 1
      /\ Script[step].op \in {"withhold", "restore", "overwrite", "write_back"}
  BY DEF Withhold, Restore, Overwrite, Doing
<1>2. Types /\ (external \/ manifest)
  BY <1>1 DEF TestInv, OutcomeInv
<1>3. PICK h : Running(h)
  BY <1>1 DEF TestInv, OutcomeInv
<1>4. /\ h[step] = Effect(Script[step], h[step - 1])
      /\ h[step - 1].withheld = withheld /\ h[step - 1].changed = changed
  BY <1>1, <1>2, <1>3, StepOf DEF TestInv
<1>5. withheld' = h[step].withheld /\ changed' = h[step].changed
  <2>1. CASE Withhold
    BY <1>4, <2>1 DEF Withhold, Doing, Effect, At
  <2>2. CASE Restore
    BY <1>4, <2>2 DEF Restore, Doing, Effect, At
  <2>3. CASE Overwrite
    <3>0. Doing("overwrite") \in BOOLEAN /\ withheld' = withheld
      BY <2>3 DEF Overwrite, Doing
    <3>1. CASE Doing("overwrite")
      <4>1. changed' = TRUE
        BY <2>3, <3>0, <3>1 DEF Overwrite
      <4>2. Script[step].op = "overwrite"
        BY <3>1 DEF Doing
      <4> QED BY <1>4, <3>0, <4>1, <4>2 DEF Effect, At
    <3>2. CASE Doing("write_back")
      <4>1. Script[step].op = "write_back"
        BY <3>2 DEF Doing
      <4>2. changed' = FALSE
        <5>1. ~Doing("overwrite")
          BY <4>1 DEF Doing
        <5> QED BY <2>3, <3>0, <5>1 DEF Overwrite
      <4>3. h[step].changed = FALSE /\ h[step].withheld = withheld
        BY <1>4, <4>1 DEF Effect, At
      <4> QED BY <3>0, <4>2, <4>3
    <3> QED BY <2>3, <3>1, <3>2 DEF Overwrite
  <2> QED BY <2>1, <2>2, <2>3
<1>6. Running(h)'
  BY <1>1, <1>3, <1>5, RunGoesOn DEF TestInv
<1>7. UNCHANGED manifest
  BY <1>1 DEF captureVars
<1> QED BY <1>1, <1>2, <1>6, <1>7 DEF OutcomeInv

\* A recovery gives what the archive allows, whatever was done to its inputs.
LEMMA DeriveIsExact ==
    ASSUME TestInv, Derive
    PROVE  LET r == Script[step].on
           IN  /\ r \in Recoveries
               /\ results' = [results EXCEPT ![r] = Exact(r)]
               /\ derived' = IF Exact(r).keylog = {} THEN derived
                             ELSE [derived EXCEPT ![OutputOf(r)] = Exact(r).keylog]
               /\ \/ /\ r = "early" /\ ~Exact(r).success /\ outcome' = "no baseline"
                     /\ withheld = {} /\ ~changed
                  \/ outcome' = "running" /\ \E h : Running(h)'
<1> DEFINE r == Script[step].on
<1>1. /\ UNCHANGED <<captureVars, external, withheld, changed>> /\ outcome = "running"
      /\ step \in DOMAIN Script /\ Script[step].op = "derive"
  BY DEF Derive, Doing
<1>2. Types /\ Archive
  BY <1>1, ArchiveIs DEF TestInv, OutcomeInv
<1>3. PICK h : Running(h)
  BY <1>1 DEF TestInv, OutcomeInv
<1> DEFINE a == h[step - 1]
<1>4. /\ step \in 1..Len(Script) /\ Script[step] \in Step
      /\ Fit(Script[step], a) /\ h[step] = Effect(Script[step], a)
      /\ a.withheld = withheld /\ a.changed = changed
      /\ \A q \in a.done : results[q] = Exact(q)
  BY <1>1, <1>2, <1>3, StepOf
<1>5. Script[step] = [op |-> "derive", on |-> r]
  BY <1>1, <1>4 DEF Step
<1>6. Reached(r, a)
  <2> HIDE DEF r, a
  <2> QED BY <1>4, <1>5 DEF Reached
<1>7. r \in Recoveries /\ Recover(r) = Exact(r)
  <2> HIDE DEF r, a
  <2> QED BY <1>2, <1>6, RecoverIsExact
<1>8. /\ results' = [results EXCEPT ![r] = Exact(r)]
      /\ derived' = IF Exact(r).keylog = {} THEN derived
                    ELSE [derived EXCEPT ![OutputOf(r)] = Exact(r).keylog]
      /\ IF r = "early" /\ ~Exact(r).success THEN outcome' = "no baseline" /\ UNCHANGED step
         ELSE step' = step + 1 /\ UNCHANGED outcome
  BY <1>7 DEF Derive
<1>9. CASE r = "early" /\ ~Exact(r).success
  <2>1. withheld = {} /\ ~changed
    <3> HIDE DEF r, a
    <3> QED BY <1>6, <1>9 DEF Reached, Fit
  <2> QED BY <1>7, <1>8, <1>9, <2>1
<1>10. CASE ~(r = "early" /\ ~Exact(r).success)
  <2>1. step' = step + 1 /\ outcome' = "running"
    BY <1>1, <1>8, <1>10
  <2>2. /\ h[step].withheld = withheld' /\ h[step].changed = changed'
        /\ h[step].done = a.done \union {r}
    BY <1>1, <1>4 DEF Effect, At
  <2>3. \A q : Exact(q)' = Exact(q)
    BY <1>1, TestIsStable
  <2>4. Script' = Script /\ Restores(h)'
    BY <1>1, <1>3, TestIsStable DEF Running
  <2>5. step' \in 1..(Len(Script') + 1) /\ step' - 1 = step
    BY <1>4, <2>1, <2>4
  <2>6. results = [q \in Recoveries |-> results[q]]
    BY <1>2 DEF Types
  <2>7. a.done \subseteq Recoveries
    <3>1. step - 1 \in 0..Len(Script)
      BY <1>4
    <3>2. a \in Progress
      BY <1>3, <3>1 DEF Running, Restores, Follows
    <3> HIDE DEF a
    <3> QED BY <3>2 DEF Progress
  <2>8. \A q \in h[step].done : results'[q] = Exact(q)'
    <3> HIDE DEF r, a
    <3> QED BY <1>4, <1>7, <1>8, <2>2, <2>3, <2>6, <2>7
  <2>9. Running(h)'
    BY <2>2, <2>4, <2>5, <2>8 DEF Running
  <2> QED BY <1>7, <1>8, <2>1, <2>9
<1> QED BY <1>9, <1>10

\* What the recoveries write is what the endpoints shared.
LEMMA DeriveIsGenuine == ASSUME TestInv, Derive PROVE DerivedAreGenuine'
<1> DEFINE r == Script[step].on
           e1 == Endpoint(wire)[1]
           e2 == Endpoint(wire)[2]
           e3 == Endpoint(wire)[3]
           k == Exact(r).keylog
<1>1. /\ r \in Recoveries
      /\ derived' = IF k = {} THEN derived ELSE [derived EXCEPT ![OutputOf(r)] = k]
  BY DeriveIsExact
<1>2. UNCHANGED wire
  BY DEF Derive, captureVars
<1>3. CASE k = {}
  BY <1>1, <1>2, <1>3 DEF TestInv, DerivedAreGenuine
<1>4. CASE k # {}
  <2>1. derived = [f \in Outputs |-> derived[f]] /\ derived' = [derived EXCEPT ![OutputOf(r)] = k]
    BY <1>1, <1>4 DEF TestInv, Types
  <2>2. /\ OutputOf(r) \in Outputs
        /\ OutputOf(r) = "early" => k = {e2.early}
        /\ OutputOf(r) = "child" => k = {e2.early, e2.hs, e2.app}
        /\ OutputOf(r) = "grandchild" => k = {e3.early}
        /\ OutputOf(r) = "external" => k = {e1.hs, e1.app}
    <3>1. CASE r \in Early
      <4>1. k = {e2.early}
        BY <1>4, <3>1 DEF Exact, Early, EarlyResult, Failed, Result
      <4>2. OutputOf(r) = "early"
        BY <3>1 DEF OutputOf, Early, Child, Grandchild, Alone
      <4> QED BY <4>1, <4>2 DEF Outputs
    <3>2. CASE r \in Child
      <4>1. k = {e2.early} \union {e2.hs, e2.app}
        BY <1>4, <3>2 DEF Exact, Early, Child, HandshakeResult, Failed, Result
      <4>2. OutputOf(r) = "child"
        BY <3>2 DEF OutputOf, Early, Child, Grandchild, Alone
      <4> QED BY <4>1, <4>2 DEF Outputs
    <3>3. CASE r \in Grandchild
      <4>1. k = {e3.early}
        BY <1>4, <3>3 DEF Exact, Early, Grandchild, EarlyResult, Failed, Result
      <4>2. OutputOf(r) = "grandchild"
        BY <3>3 DEF OutputOf, Early, Child, Grandchild, Alone
      <4> QED BY <4>1, <4>2 DEF Outputs
    <3>4. CASE r \in Alone
      <4>1. k = {} \union {e1.hs, e1.app}
        BY <1>4, <3>4 DEF Exact, Early, Alone, HandshakeResult, Failed, Result
      <4>2. OutputOf(r) = "external"
        BY <3>4 DEF OutputOf, Early, Child, Grandchild, Alone
      <4> QED BY <4>1, <4>2 DEF Outputs
    <3> QED BY <1>1, <3>1, <3>2, <3>3, <3>4 DEF Recoveries
  <2> DEFINE o == OutputOf(r)
  <2>3. \A f \in Outputs : derived'[f] = IF f = o THEN k ELSE derived[f]
    <3> HIDE DEF o, k
    <3> QED BY <2>1 DEF o
  <2>4. {"early", "child", "grandchild", "external"} \subseteq Outputs
    BY DEF Outputs
  <2> HIDE DEF o, k
  <2> QED BY <1>2, <2>2, <2>3, <2>4 DEF o, TestInv, DerivedAreGenuine
<1> QED BY <1>3, <1>4

LEMMA DeriveKeeps == ASSUME TestInv, Derive PROVE TestInv'
<1> DEFINE r == Script[step].on
<1>1. /\ UNCHANGED <<captureVars, external, withheld, changed>> /\ outcome = "running"
      /\ (external \/ manifest) /\ Types /\ ArchiveInv /\ UNCHANGED <<manifest, timely, grandchild>>
  BY DEF Derive, Doing, TestInv, OutcomeInv, captureVars
<1>2. /\ r \in Recoveries
      /\ results' = [results EXCEPT ![r] = Exact(r)]
      /\ derived' = IF Exact(r).keylog = {} THEN derived
                    ELSE [derived EXCEPT ![OutputOf(r)] = Exact(r).keylog]
      /\ \/ /\ r = "early" /\ ~Exact(r).success /\ outcome' = "no baseline"
            /\ withheld = {} /\ ~changed
         \/ outcome' = "running" /\ \E h : Running(h)'
  BY DeriveIsExact
<1>3. Types'
  <2>1. results' = [q \in Recoveries |-> results'[q]]
    <3> HIDE DEF r
    <3> QED BY <1>1, <1>2 DEF Types
  <2>2. derived' = [f \in Outputs |-> derived'[f]]
    <3> HIDE DEF r
    <3> QED BY <1>1, <1>2 DEF Types
  <2> QED BY <1>1, <2>1, <2>2 DEF Types
<1>4. ArchiveInv'
  BY <1>1, TestIsStable
<1>5. OutcomeInv'
  BY <1>1, <1>2 DEF OutcomeInv
<1>6. InputsRestored'
  BY <1>1, <1>2 DEF InputsRestored
<1>7. CausalityHolds'
  <2>1. CASE outcome' = "no baseline"
    <3>1. r = "early" /\ ~Exact(r).success
      BY <1>2, <2>1
    <3>2. ~EarlyOpens
      BY <3>1 DEF Exact, Early, EarlyResult, Result
    <3>3. ~timely \/ external
      BY <1>1, <3>2, TimelyOpens
    <3>4. ~external
      <4>1. PICK h : Running(h)
        BY <1>1 DEF TestInv, OutcomeInv
      <4>2. step \in DOMAIN Script /\ Script[step].op = "derive"
        BY DEF Derive, Doing
      <4>3. Fit(Script[step], h[step - 1])
        BY <1>1, <4>1, <4>2, StepOf
      <4> HIDE DEF r
      <4> QED BY <3>1, <4>2, <4>3 DEF r, Fit, Alone
    <3> QED BY <1>1, <3>3, <3>4 DEF CausalityHolds
  <2>2. CASE outcome' = "running"
    BY <2>2 DEF CausalityHolds
  <2> QED BY <1>2, <2>1, <2>2
<1>8. DerivedAreGenuine'
  BY DeriveIsGenuine
<1> QED BY <1>3, <1>4, <1>5, <1>6, <1>7, <1>8 DEF TestInv

\* The verdict on an archive whose capture kept up.
LEMMA VerdictIsGood ==
    ASSUME Types, ArchiveInv, external \/ manifest, timely,
           \A r \in Asserted : results[r] = Exact(r)
    PROVE  IF external THEN ExternalAssertions ELSE ChainAssertions
<1>1. CASE external
  <2>1. \A r \in Alone : results[r] = Exact(r)
    BY <1>1 DEF Asserted
  <2>2. /\ Exact("external").success /\ Exact("external_without_truth").success
        /\ ~Exact("external_without_psk").success /\ ~Exact("external_with_wrong_psk").success
    BY DEF Exact, Early, HandshakeResult, Failed, Result
  <2>3. ~wire[1].dh
    BY <1>1, ExternalEndpoint DEF ArchiveInv
  <2> QED BY <1>1, <2>1, <2>2, <2>3 DEF ExternalAssertions, Alone
<1>2. CASE ~external
  <2>1. /\ \A r \in Early \union Child : results[r] = Exact(r)
        /\ grandchild => \A r \in Grandchild : results[r] = Exact(r)
    BY <1>2 DEF Asserted
  <2>2. /\ EarlyOpens /\ ChildOpens /\ (grandchild => GrandchildOpens)
        /\ ~Fresh => oracle[2] = NoFile
    BY <1>2, TimelyOpens
  <2>3. /\ Exact("early").success /\ Exact("child").success /\ ~Exact("no_parent").success
        /\ Exact("early_without_child_dh").success
        /\ Exact("early_without_child_dh").early = Exact("early").early
        /\ Exact("early_without_truth").success /\ Exact("child_without_truth").success
    BY <2>2 DEF Exact, Early, EarlyResult, HandshakeResult, Failed, Result
  <2>4. /\ IF Fresh THEN ~Exact("child_without_dh").success ELSE Exact("child_without_dh").success
        /\ ~Exact("child_with_wrong_psk").success
    BY <2>2 DEF Exact, Early, HandshakeResult, Failed, Result
  <2>5. grandchild =>
          /\ Exact("grandchild").success /\ ~Exact("grandchild_with_blocked_child").success
          /\ Exact("grandchild_without_truth").success
    BY <2>2 DEF Exact, Early, EarlyResult, Failed, Result
  <2>6. /\ {"early", "no_parent", "early_without_child_dh", "early_without_truth", "child",
            "child_without_dh", "child_with_wrong_psk", "child_without_truth"} \subseteq Early \union Child
        /\ {"grandchild", "grandchild_with_blocked_child", "grandchild_without_truth"} \subseteq Grandchild
    BY DEF Early, Child, Grandchild
  <2> QED BY <1>2, <2>1, <2>2, <2>3, <2>4, <2>5, <2>6 DEF ChainAssertions
<1> QED BY <1>1, <1>2

LEMMA ConcludeKeeps == ASSUME TestInv, Conclude PROVE OutcomeInv' /\ InputsRestored' /\ CausalityHolds'
<1>1. /\ UNCHANGED <<captureVars, external, changed, withheld, results, derived>>
      /\ outcome = "running" /\ step \notin DOMAIN Script /\ outcome' \in {"passed", "failed"}
      /\ (IF external THEN ExternalAssertions ELSE ChainAssertions) => outcome' = "passed"
      /\ (external \/ manifest) /\ Types /\ ArchiveInv /\ UNCHANGED <<manifest, timely>>
  BY DEF Conclude, TestInv, OutcomeInv, captureVars
<1>2. PICK h : Running(h)
  BY <1>1 DEF TestInv, OutcomeInv
<1>3. step - 1 = Len(Script)
  <2>1. Script \in Seq(Step)
    BY <1>1, ScriptRestores DEF Types
  <2>2. step \in 1..(Len(Script) + 1) /\ step \notin 1..Len(Script) /\ Len(Script) \in Nat
    BY <1>1, <1>2, <2>1 DEF Running
  <2> QED BY <2>2
<1>4. withheld = {} /\ ~changed /\ \A r \in Asserted : results[r] = Exact(r)
  BY <1>2, <1>3 DEF Running, Restores
<1>5. timely => outcome' = "passed"
  BY <1>1, <1>4, VerdictIsGood
<1> QED BY <1>1, <1>4, <1>5 DEF OutcomeInv, InputsRestored, CausalityHolds

LEMMA ToolFailsKeeps == ASSUME TestInv, ToolFails PROVE OutcomeInv' /\ InputsRestored' /\ CausalityHolds'
<1>1. /\ UNCHANGED <<captureVars, external, changed, withheld, results, derived>>
      /\ outcome = "running" /\ step \in DOMAIN Script /\ Script[step].op = "derive"
      /\ outcome' = IF withheld = {} /\ ~changed THEN "exception" ELSE "unwinding"
      /\ (external \/ manifest) /\ Types /\ UNCHANGED manifest
  BY DEF ToolFails, Doing, TestInv, OutcomeInv, captureVars
<1>2. PICK h : Running(h)
  BY <1>1 DEF TestInv, OutcomeInv
<1>3. changed => withheld = {}
  <2>1. /\ Fit(Script[step], h[step - 1])
        /\ h[step - 1].withheld = withheld /\ h[step - 1].changed = changed
    BY <1>1, <1>2, StepOf
  <2> QED BY <1>1, <2>1 DEF Fit
<1> QED BY <1>1, <1>3 DEF OutcomeInv, InputsRestored, CausalityHolds

LEMMA UnwindKeeps == ASSUME TestInv, Unwind PROVE OutcomeInv' /\ InputsRestored' /\ CausalityHolds'
<1>1. /\ UNCHANGED <<captureVars, external, results, derived>> /\ outcome = "unwinding"
      /\ (external \/ manifest) /\ Types /\ UNCHANGED manifest /\ (changed => withheld = {})
  BY DEF Unwind, TestInv, OutcomeInv, captureVars
<1>2. CASE changed
  BY <1>1, <1>2 DEF Unwind, OutcomeInv, InputsRestored, CausalityHolds
<1>3. CASE ~changed
  <2>1. PICK f : withheld' = withheld \ {f} /\ UNCHANGED changed
                 /\ outcome' = IF withheld = {f} THEN "exception" ELSE outcome
    BY <1>3 DEF Unwind
  <2>2. withheld = {f} => withheld' = {}
    BY <2>1
  <2> QED BY <1>1, <1>3, <2>1, <2>2 DEF OutcomeInv, InputsRestored, CausalityHolds
<1> QED BY <1>2, <1>3

LEMMA TestKeeps == ASSUME TestInv, TestStep \/ ToolFails \/ RenameFails \/ Kill PROVE TestInv'
<1>1. CASE Derive
  BY <1>1, DeriveKeeps
<1>2. CASE Load \/ Withhold \/ Restore \/ Overwrite \/ Unwind \/ Conclude \/ ToolFails \/ RenameFails \/ Kill
  <2>1. UNCHANGED <<captureVars, external, derived>> /\ UNCHANGED <<wire, grandchild, timely, manifest>>
    BY <1>2 DEF Load, Withhold, Restore, Overwrite, Unwind, Conclude, ToolFails, RenameFails, Kill, captureVars
  <2>2. Types'
    <3>1. changed' \in BOOLEAN
      BY <1>2 DEF Load, Withhold, Restore, Overwrite, Doing, Unwind, Conclude, ToolFails, RenameFails, Kill, TestInv, Types
    <3>2. results' = [r \in Recoveries |-> results'[r]]
      <4>1. CASE Load
        <5>1. results' = [r \in Recoveries |-> Failed]
          BY <4>1 DEF Load
        <5> QED BY <5>1
      <4>2. CASE ~Load
        <5>1. results' = results
          BY <1>2, <4>2 DEF Withhold, Restore, Overwrite, Unwind, Conclude, ToolFails, RenameFails, Kill
        <5> QED BY <5>1 DEF TestInv, Types
      <4> QED BY <4>1, <4>2
    <3> QED BY <2>1, <3>1, <3>2 DEF TestInv, Types
  <2>3. ArchiveInv'
    BY <2>1, TestIsStable DEF TestInv
  <2>4. DerivedAreGenuine'
    BY <2>1 DEF TestInv, DerivedAreGenuine
  <2>5. OutcomeInv' /\ InputsRestored' /\ CausalityHolds'
    <3>1. CASE Load
      <4>1. outcome' \in {"running", "refused"}
        BY <3>1 DEF Load
      <4> QED BY <3>1, <4>1, LoadKeeps DEF InputsRestored, CausalityHolds
    <3>2. CASE Withhold \/ Restore \/ Overwrite
      <4>1. outcome' = "running"
        BY <3>2 DEF Withhold, Restore, Overwrite, Doing
      <4> QED BY <3>2, <4>1, RenameKeeps DEF InputsRestored, CausalityHolds
    <3>3. CASE Kill
      <4>1. outcome' = "killed" /\ outcome # "none"
        BY <3>3 DEF Kill
      <4> QED BY <2>1, <4>1 DEF TestInv, OutcomeInv, InputsRestored, CausalityHolds
    <3>4. CASE RenameFails
      <4>1. outcome' = "os error" /\ outcome # "none"
        BY <3>4 DEF RenameFails, Doing
      <4> QED BY <2>1, <4>1 DEF TestInv, OutcomeInv, InputsRestored, CausalityHolds
    <3> QED BY <1>2, <3>1, <3>2, <3>3, <3>4, UnwindKeeps, ConcludeKeeps, ToolFailsKeeps
  <2> QED BY <2>2, <2>3, <2>4, <2>5 DEF TestInv
<1> QED BY <1>1, <1>2 DEF TestStep

\* The capture of a chain has ended before its archive is tested.
LEMMA CaptureIsBefore == ASSUME TestInv, Capture PROVE TestInv'
<1>1. CaptureNext /\ UNCHANGED testVars
  BY DEF Capture
<1>2. ~external /\ CaptureInv
  <2>1. external => cpc = "captured"
    BY DEF TestInv, ArchiveInv, ExternalArchive
  <2>2. cpc # "captured"
    BY <1>1 DEF CaptureNext, MainStep, Client1, Snapshot1, Client2, Snapshot2, Client3, RestorePhase1,
                Persist, TakePrivate, PersistPair, WriteManifest, ReadLine
  <2> QED BY <2>1, <2>2 DEF TestInv, ArchiveInv
<1>3. CaptureInv' /\ cpc # "captured" /\ UNCHANGED <<kex, grandchild, timely>>
  BY <1>1, <1>2, CaptureKeeps, ChoicesAreFixed
<1>4. ~manifest
  BY <1>2, <1>3 DEF CaptureInv, CapInv, FilesInv
<1>5. outcome = "none" /\ \A f \in Outputs : derived[f] = {}
  BY <1>2, <1>4 DEF TestInv, OutcomeInv
<1>6. UNCHANGED <<external, changed, runs, step, withheld, results, derived, outcome>>
  BY <1>1 DEF testVars
<1>7. Types' /\ ArchiveInv'
  BY <1>2, <1>3, <1>6 DEF TestInv, Types, ArchiveInv
<1>8. OutcomeInv' /\ InputsRestored' /\ CausalityHolds'
  BY <1>5, <1>6 DEF OutcomeInv, InputsRestored, CausalityHolds
<1>9. DerivedAreGenuine'
  <2>1. derived' = derived /\ {"early", "child", "grandchild", "external"} \subseteq Outputs
    BY <1>6 DEF Outputs
  <2> QED BY <1>5, <2>1 DEF DerivedAreGenuine
<1> QED BY <1>7, <1>8, <1>9 DEF TestInv

LEMMA TestInvariant == Spec => []TestInv
<1>1. Init => TestInv
  BY TestStarts
<1>2. TestInv /\ [Next]_vars => TestInv'
  <2> SUFFICES ASSUME TestInv, [Next]_vars PROVE TestInv'
    OBVIOUS
  <2>1. CASE Capture
    BY <2>1, CaptureIsBefore
  <2>2. CASE TestStep \/ ToolFails \/ RenameFails \/ Kill
    BY <2>2, TestKeeps
  <2>3. CASE UNCHANGED vars
    <3>1. UNCHANGED <<captureVars, external, changed, runs, step, withheld, results, derived, outcome>>
          /\ UNCHANGED <<wire, grandchild, timely, manifest>>
      BY <2>3 DEF vars, testVars, captureVars
    <3>2. ArchiveInv' /\ Types' /\ InputsRestored' /\ CausalityHolds' /\ DerivedAreGenuine'
      BY <3>1, TestIsStable DEF TestInv, Types, InputsRestored, CausalityHolds, DerivedAreGenuine
    <3>3. outcome = "running" => \E h : Running(h)'
      <4>1. ASSUME NEW h, Running(h) PROVE Running(h)'
        BY <3>1, <4>1, TestIsStable DEF Running
      <4> QED BY <4>1 DEF TestInv, OutcomeInv
    <3>4. OutcomeInv'
      BY <3>1, <3>3 DEF TestInv, OutcomeInv
    <3> QED BY <3>2, <3>4 DEF TestInv
  <2> QED BY <2>1, <2>2, <2>3 DEF Next
<1> QED BY <1>1, <1>2, PTL DEF Spec
-----------------------------------------------------------------------------
\* Wherever the causality test's recoveries raise and however often it was
\* killed and started again, a run that ends by itself has put every file back
\* under its name and with its content (_withheld and the finally clauses).
THEOREM NothingStaysWithheld == Spec => []InputsRestored
<1>1. TestInv => InputsRestored
  BY DEF TestInv
<1> QED BY <1>1, TestInvariant, PTL

\* Whatever ground truth, scalar or PSK is missing or wrong, the keys that the
\* recoveries write before they have verified plaintext are those that the
\* endpoints shared, for any number of tickets and however late the reader of
\* the server's output was.
THEOREM KeysAreGenuine == Spec => []DerivedAreGenuine
<1>1. TestInv => DerivedAreGenuine
  BY DEF TestInv
<1> QED BY <1>1, TestInvariant, PTL

\* On the archive of a capture that kept up with its pauses every verdict of
\* the test is the expected one, for both kinds of resumption, with and
\* without a grandchild, and for an external PSK.
THEOREM CausalityIsShown == Spec => []CausalityHolds
<1>1. TestInv => CausalityHolds
  BY DEF TestInv
<1> QED BY <1>1, TestInvariant, PTL
=============================================================================
