------------------------- MODULE SshRecoveryProofs -------------------------
(***************************************************************************)
(* Proofs about SshRecovery: its type invariant, the causal order of the   *)
(* oracle's releases and the refinement of OracleLadder, the release       *)
(* trace, what a success has read, the plaintext that is recovered, the    *)
(* use of the ground truth, and the recovery of a whole session.           *)
(***************************************************************************)
EXTENDS SshRecovery, SequenceLemmas, FiniteSetTheorems, TLAPS

PacketType == [type: MsgType, kex: Int, body: {Marker, Noise}, key: Int, seq: Nat]

\* What the sequence operators of the model return.
LEMMA SeqFacts ==
    ASSUME NEW S, NEW q \in Seq(S)
    PROVE  /\ Len(q) \in Nat
           /\ \A x \in S : Append(q, x) \in Seq(S) /\ Append(q, x) # <<>>
           /\ \A i \in DOMAIN q : q[i] \in S
           /\ q # <<>> => Tail(q) \in Seq(S) /\ Head(q) \in S /\ Len(q) \in DOMAIN q
OBVIOUS

\* Every step of an endpoint keeps the session variables well typed and only
\* appends to the streams.
LEMMA SessionStepType ==
    ASSUME SessionTypeOK, SessionStep
    PROVE  /\ SessionTypeOK'
           /\ \A d \in Dir : Len(sent[d]) <= Len(sent'[d])
<1> USE SessionAssumption
<1>1. ASSUME NEW d \in Dir, NEW type \in MsgType, NEW n \in Int, NEW body \in {Marker, Noise},
             Put(d, type, n, body)
      PROVE  /\ sent' \in [Dir -> Seq(PacketType)]
             /\ seqNo' \in [Dir -> Nat]
             /\ \A e \in Dir : Len(sent[e]) <= Len(sent'[e])
  <2>1. Packet(d, type, n, body) \in PacketType
    BY <1>1 DEF Packet, PacketType, SessionTypeOK
  <2>2. sent \in [Dir -> Seq(PacketType)]
    BY DEF SessionTypeOK, PacketType
  <2>3. sent' = [sent EXCEPT ![d] = Append(sent[d], Packet(d, type, n, body))]
    BY <1>1 DEF Put
  <2>4. Append(sent[d], Packet(d, type, n, body)) \in Seq(PacketType)
    BY <2>1, <2>2
  <2>5. sent' \in [Dir -> Seq(PacketType)]
    BY <2>2, <2>3, <2>4
  <2>6. \A e \in Dir : Len(sent[e]) <= Len(sent'[e])
    BY <2>1, <2>2, <2>3
  <2>7. seqNo' \in [Dir -> Nat]
    BY <1>1 DEF Put, SessionTypeOK
  <2> QED BY <2>5, <2>6, <2>7
<1>2. ASSUME NEW d \in Dir, SendKexInit(d)
      PROVE  SessionTypeOK' /\ \A e \in Dir : Len(sent[e]) <= Len(sent'[e])
  <2>1. keyNo[d] + 1 \in Int /\ "KEXINIT" \in MsgType
    BY DEF SessionTypeOK, MsgType
  <2>2. Put(d, "KEXINIT", keyNo[d] + 1, Noise)
    BY <1>2 DEF SendKexInit
  <2>3. /\ sent' \in [Dir -> Seq(PacketType)] /\ seqNo' \in [Dir -> Nat]
        /\ \A e \in Dir : Len(sent[e]) <= Len(sent'[e])
    BY <1>1, <2>1, <2>2
  <2>4. kexinits' \in [Dir -> Nat] /\ UNCHANGED <<strict, keyNo, secrets>>
    BY <1>2 DEF SendKexInit, SessionTypeOK
  <2> QED BY <2>3, <2>4 DEF SessionTypeOK, PacketType
<1>3. ASSUME SendEcdhInit
      PROVE  SessionTypeOK' /\ \A e \in Dir : Len(sent[e]) <= Len(sent'[e])
  <2>1. keyNo["c2s"] + 1 \in Int /\ "ECDH_INIT" \in MsgType /\ "c2s" \in Dir
    BY DEF SessionTypeOK, MsgType, Dir
  <2> QED BY <1>1, <1>3, <2>1 DEF SendEcdhInit, SessionTypeOK, PacketType
<1>4. ASSUME SendEcdhReply
      PROVE  SessionTypeOK' /\ \A e \in Dir : Len(sent[e]) <= Len(sent'[e])
  <2>1. keyNo["s2c"] + 1 \in Int /\ "ECDH_REPLY" \in MsgType /\ "s2c" \in Dir
    BY DEF SessionTypeOK, MsgType, Dir
  <2>2. secrets' \in Seq(Secrets)
    BY <1>4 DEF SendEcdhReply, SessionTypeOK
  <2> QED BY <1>1, <1>4, <2>1, <2>2 DEF SendEcdhReply, SessionTypeOK, PacketType
<1>5. ASSUME NEW d \in Dir, SendNewKeys(d)
      PROVE  SessionTypeOK' /\ \A e \in Dir : Len(sent[e]) <= Len(sent'[e])
  <2>1. keyNo[d] + 1 \in Int /\ "NEWKEYS" \in MsgType
    BY DEF SessionTypeOK, MsgType
  <2> QED BY <1>1, <1>5, <2>1 DEF SendNewKeys, SessionTypeOK, PacketType
<1>6. ASSUME SendData
      PROVE  SessionTypeOK' /\ \A e \in Dir : Len(sent[e]) <= Len(sent'[e])
  <2>1. "CHANNEL_DATA" \in MsgType /\ "s2c" \in Dir /\ -1 \in Int
    BY DEF MsgType, Dir
  <2> QED BY <1>1, <1>6, <2>1 DEF SendData, SessionTypeOK, PacketType
<1>7. ASSUME NEW d \in Dir, SendOther(d)
      PROVE  SessionTypeOK' /\ \A e \in Dir : Len(sent[e]) <= Len(sent'[e])
  <2>1. "OTHER" \in MsgType /\ -1 \in Int
    BY DEF MsgType
  <2> QED BY <1>1, <1>7, <2>1 DEF SendOther, SessionTypeOK, PacketType
<1> QED BY <1>2, <1>3, <1>4, <1>5, <1>6, <1>7 DEF SessionStep

-----------------------------------------------------------------------------
\* FirstOf (the local packet() of extract_kex_exchange) returns 0 or the
\* position of a packet of that type.
LEMMA FirstOfFound ==
    ASSUME NEW d, NEW type, NEW from \in Nat, NEW to \in Nat, FirstOf(d, type, from, to) # 0
    PROVE  /\ FirstOf(d, type, from, to) \in from..to
           /\ sent[d][FirstOf(d, type, from, to)].type = type
<1> DEFINE first == {i \in from..to : /\ sent[d][i].type = type
                                      /\ \A j \in from..(i - 1) : sent[d][j].type # type}
<1>1. FirstOf(d, type, from, to) = IF first = {} THEN 0 ELSE CHOOSE i \in first : TRUE
  BY DEF FirstOf
<1>2. first # {}
  BY <1>1
<1>3. (CHOOSE i \in first : TRUE) \in first
  BY <1>2
<1> QED BY <1>1, <1>2, <1>3

\* The public values of an exchange are those of packets in the range read.
LEMMA KexType ==
    ASSUME SessionTypeOK, NEW from \in [Dir -> Nat], NEW to \in [Dir -> Nat],
           \A d \in Dir : 1 <= from[d] /\ to[d] <= Len(sent[d]),
           AllFound(KexMessages(from, to))
    PROVE  /\ extract_kex_exchange(KexMessages(from, to)) \in [I_C: Int, I_S: Int, Q_C: Int, Q_S: Int]
           /\ \E i \in from["c2s"]..to["c2s"] :
                 /\ sent["c2s"][i].type = "ECDH_INIT"
                 /\ extract_kex_exchange(KexMessages(from, to)).Q_C = sent["c2s"][i].kex
<1> DEFINE at == KexMessages(from, to)
<1>1. \A d \in Dir : from[d] \in Nat /\ to[d] \in Nat
  OBVIOUS
<1>2. "c2s" \in Dir /\ "s2c" \in Dir
  BY DEF Dir
<1>3. \A d \in Dir : sent[d] \in Seq(PacketType)
  BY DEF SessionTypeOK, PacketType
<1>4. ASSUME NEW d \in Dir, NEW i \in from[d]..to[d]
      PROVE  sent[d][i].kex \in Int
  <2>1. i \in 1..Len(sent[d])
    BY <1>1, <1>3
  <2>2. sent[d][i] \in PacketType
    BY <1>3, <2>1
  <2> QED BY <2>2 DEF PacketType
<1>5. /\ at.I_C \in from["c2s"]..to["c2s"] /\ at.Q_C \in from["c2s"]..to["c2s"]
      /\ at.I_S \in from["s2c"]..to["s2c"] /\ at.Q_S \in from["s2c"]..to["s2c"]
      /\ sent["c2s"][at.Q_C].type = "ECDH_INIT"
  <2>1. /\ at.I_C = FirstOf("c2s", "KEXINIT", from["c2s"], to["c2s"])
        /\ at.I_S = FirstOf("s2c", "KEXINIT", from["s2c"], to["s2c"])
        /\ at.Q_C = FirstOf("c2s", "ECDH_INIT", from["c2s"], to["c2s"])
        /\ at.Q_S = FirstOf("s2c", "ECDH_REPLY", from["s2c"], to["s2c"])
    BY DEF KexMessages
  <2>2. at.I_C # 0 /\ at.I_S # 0 /\ at.Q_C # 0 /\ at.Q_S # 0
    BY DEF AllFound
  <2> QED BY <1>1, <1>2, <2>1, <2>2, FirstOfFound
<1> QED BY <1>2, <1>4, <1>5 DEF extract_kex_exchange

\* An epoch ends between the packets consumed and the end of the archive;
\* when it ends at NEWKEYS, every packet through it has been authenticated.
LEMMA EpochEndRange ==
    ASSUME TypeOK, NEW d \in Dir
    PROVE  /\ EpochEnd(d) \in Nat /\ pos[d] <= EpochEnd(d) /\ EpochEnd(d) <= cut[d]
           /\ ReachesNewKeys(d) => \A j \in (pos[d] + 1)..EpochEnd(d) : Opens(d, j)
<1>1. pos[d] \in Nat /\ cut[d] \in Nat /\ pos[d] <= cut[d]
  BY DEF TypeOK
<1>2. CASE ReachesNewKeys(d)
  <2>1. EpochEnd(d) \in Boundary(d)
    BY <1>2 DEF EpochEnd, ReachesNewKeys
  <2>2. EpochEnd(d) \in (pos[d] + 1)..cut[d]
    BY <2>1 DEF Boundary, Opened
  <2>3. \A j \in (pos[d] + 1)..EpochEnd(d) : Opens(d, j)
    BY <2>1 DEF Boundary, Opened
  <2> QED BY <1>1, <2>2, <2>3
<1>3. CASE ~ReachesNewKeys(d)
  BY <1>1, <1>3 DEF EpochEnd
<1> QED BY <1>2, <1>3

-----------------------------------------------------------------------------
\* Until the recovery starts its oracle, nothing has been asked or consumed.
Quiet ==
    /\ pc = "capture" => \A d \in Dir : cut[d] = 0
    /\ pc \in {"capture", "load", "start"} =>
          /\ proc = "none" /\ used = {} /\ epoch = 0 /\ counts = <<>> /\ trace = <<>>
          /\ toOracle = <<>> /\ toClient = <<>>
    /\ pc = "wait" => trace # <<>>

TypeInv == TypeOK /\ Quiet

\* The initial state is well typed.
LEMMA TypeInit == Init => TypeInv
<1> SUFFICES ASSUME Init PROVE TypeInv
  OBVIOUS
<1>1. SessionTypeOK
  BY SessionAssumption DEF Init, SessionInit, SessionTypeOK
<1>2. input \in InputKinds
  BY DEF Init, NoInput, InputKinds
<1>3. kex \in [I_C: Int, I_S: Int, Q_C: Int, Q_S: Int]
  BY DEF Init, NoKex, Transcript
<1>4. \A d \in Dir : sent[d] = <<>> /\ cut[d] = 0 /\ pos[d] = 0
  BY DEF Init, SessionInit
<1>5. \A d \in Dir : cut[d] <= Len(sent[d]) /\ pos[d] <= cut[d]
  BY <1>4
<1>6. /\ counts = <<>> /\ trace = <<>> /\ recoveries = <<>> /\ used = {}
      /\ toOracle = <<>> /\ toClient = <<>>
  BY DEF Init
<1>7. /\ counts \in Seq([Dir -> Nat]) /\ trace \in Seq(Event) /\ recoveries \in Seq(Record)
      /\ used \subseteq DOMAIN recoveries /\ toOracle \in Seq(Int) /\ toClient \in Seq(Reply)
  BY <1>6
<1>8. /\ pc = "capture" /\ epoch \in Nat /\ scalar \in Int /\ truthRead \in BOOLEAN /\ proc = "none"
      /\ pos \in [Dir -> Nat] /\ seq \in [Dir -> Nat] /\ auth \in [Dir -> Nat]
      /\ cut \in [Dir -> Nat] /\ torn \in [Dir -> BOOLEAN]
  <2>1. pc = "capture" /\ epoch \in Nat /\ scalar \in Int /\ proc = "none"
    BY DEF Init
  <2>2. /\ pos \in [Dir -> Nat] /\ seq \in [Dir -> Nat] /\ auth \in [Dir -> Nat]
        /\ cut \in [Dir -> Nat]
    BY DEF Init
  <2>3. truthRead \in BOOLEAN /\ torn \in [Dir -> BOOLEAN]
    BY Zenon DEF Init
  <2> QED BY <2>1, <2>2, <2>3
<1>9. TypeOK
  BY <1>1, <1>2, <1>3, <1>5, <1>7, <1>8 DEF TypeOK
<1> QED BY <1>4, <1>6, <1>8, <1>9 DEF Init, TypeInv, Quiet

\* The shares of the client are counted.
LEMMA SharesCounted == ASSUME TypeOK PROVE ClientShares \in Nat
<1> DEFINE inits == {i \in DOMAIN sent["c2s"] : sent["c2s"][i].type = "ECDH_INIT"}
<1>1. sent["c2s"] \in Seq(PacketType)
  BY DEF TypeOK, SessionTypeOK, PacketType, Dir
<1>2. IsFiniteSet(1..Len(sent["c2s"]))
  BY <1>1, FS_Interval
<1>3. IsFiniteSet(inits)
  BY <1>1, <1>2, FS_Subset
<1> QED BY <1>3, FS_CardinalityType DEF ClientShares

\* The records given to the oracle are well typed, whatever file is found.
LEMMA RecordedScalarsType ==
    ASSUME TypeOK, NEW kind PROVE RecordedScalars(kind) \in Seq(Record)
<1>1. ClientShares \in Nat
  BY SharesCounted
<1> DEFINE n == IF kind = "short" /\ ClientShares > 0 THEN ClientShares - 1 ELSE ClientShares
<1>2. n \in Nat
  BY <1>1
<1> HIDE DEF n
<1>3. \A i \in 1..n : [pub  |-> i - 1, priv |-> IF kind = "wrong" /\ i = n THEN i ELSE i - 1]
                      \in Record
  BY <1>2 DEF Record
<1>4. [i \in 1..n |-> [pub  |-> i - 1, priv |-> IF kind = "wrong" /\ i = n THEN i ELSE i - 1]]
        \in Seq(Record)
  BY <1>2, <1>3
<1> QED BY <1>4 DEF RecordedScalars, n

\* Type correctness of one step, one case per action of the two processes.
LEMMA TypeStep == TypeInv /\ [Next]_vars => TypeInv'
<1> SUFFICES ASSUME TypeInv, [Next]_vars PROVE TypeInv'
  OBVIOUS
<1>0. TypeOK /\ Quiet
  BY DEF TypeInv
<1> USE DEF TypeInv
<1> DEFINE Same == UNCHANGED <<sessionVars, archiveVars>>
<1>a. \A d \in Dir : /\ sent[d] \in Seq(PacketType) /\ Len(sent[d]) \in Nat
                     /\ cut[d] \in Nat /\ pos[d] \in Nat /\ auth[d] \in Nat /\ seq[d] \in Nat
                     /\ cut[d] <= Len(sent[d]) /\ pos[d] <= cut[d]
  <2>1. \A d \in Dir : sent[d] \in Seq(PacketType)
    BY <1>0 DEF TypeOK, SessionTypeOK, PacketType
  <2>2. \A d \in Dir : Len(sent[d]) \in Nat
    BY <2>1, SeqFacts
  <2> QED BY <1>0, <2>1, <2>2 DEF TypeOK
<1>b. /\ trace \in Seq(Event) /\ toClient \in Seq(Reply) /\ toOracle \in Seq(Int)
      /\ recoveries \in Seq(Record) /\ used \subseteq DOMAIN recoveries
      /\ counts \in Seq([Dir -> Nat])
  BY DEF TypeOK
<1>1. CASE Session
  <2>1. SessionTypeOK' /\ \A d \in Dir : Len(sent[d]) <= Len(sent'[d])
    BY <1>1, SessionStepType DEF Session, TypeOK
  <2>2. UNCHANGED <<cut, pos>>
    BY <1>1 DEF Session, archiveVars, decoderVars
  <2>3. \A d \in Dir : sent'[d] \in Seq(PacketType) /\ Len(sent'[d]) \in Nat
    <3>1. \A d \in Dir : sent'[d] \in Seq(PacketType)
      BY <2>1 DEF SessionTypeOK, PacketType
    <3> QED BY <3>1, SeqFacts
  <2>4. \A d \in Dir : cut'[d] <= Len(sent'[d]) /\ pos'[d] <= cut'[d]
    BY <1>a, <2>1, <2>2, <2>3
  <2> QED BY <1>1, <2>1, <2>4 DEF Session, TypeOK, Quiet, archiveVars, decoderVars, oracleVars, pipeVars
<1>2. CASE StopCapture
  <2>1. SessionTypeOK' /\ UNCHANGED sent
    BY <1>2 DEF StopCapture, SessionTypeOK, sessionVars, TypeOK
  <2>2. \A d \in Dir : pos[d] = 0 /\ sent[d] \in Seq(PacketType)
    BY <1>2, <1>a DEF StopCapture, Quiet
  <2>3. PICK lost \in {"nothing"} \union Dir, half \in BOOLEAN :
          /\ lost # "nothing" => sent[lost] # <<>>
          /\ cut' = [d \in Dir |-> IF d = lost THEN Len(sent[d]) - 1 ELSE Len(sent[d])]
          /\ torn' = [d \in Dir |-> d = lost /\ half]
    BY <1>2 DEF StopCapture
  <2>4. \A d \in Dir : cut'[d] \in Nat /\ cut'[d] <= Len(sent[d])
    BY <2>2, <2>3 DEF Dir
  <2>5. cut' \in [Dir -> Nat] /\ torn' \in [Dir -> BOOLEAN]
    BY <2>3, <2>4
  <2>6. recoveries' \in Seq(Record) /\ input' \in InputKinds
    BY <1>2, RecordedScalarsType, RecoveryAssumption DEF StopCapture
  <2>7. \A d \in Dir : cut'[d] <= Len(sent'[d]) /\ pos'[d] <= cut'[d]
    BY <1>2, <2>1, <2>2, <2>4 DEF StopCapture, decoderVars
  <2>8. used' = {} /\ Quiet'
    BY <1>2 DEF StopCapture, Quiet, decoderVars, pipeVars
  <2> QED BY <1>2, <2>1, <2>5, <2>6, <2>7, <2>8 DEF StopCapture, TypeOK, decoderVars, pipeVars
<1>3. ASSUME Same
      PROVE  SessionTypeOK' /\ input' \in InputKinds /\ UNCHANGED <<sent, cut, torn>>
  BY <1>3 DEF TypeOK, SessionTypeOK, sessionVars, archiveVars
<1>4. CASE LoadWire
  <2>1. Same
    BY <1>4 DEF LoadWire
  <2>2. CASE UNCHANGED decoderVars /\ Fail("no_kex")
    BY <1>3, <1>4, <2>1, <2>2 DEF LoadWire, Fail, TypeOK, Quiet, decoderVars, oracleVars, pipeVars
  <2>3. CASE ~(UNCHANGED decoderVars /\ Fail("no_kex"))
    <3> DEFINE end == [d \in Dir |-> CHOOSE i \in PlainEnd(d) : TRUE]
               one == [d \in Dir |-> 1]
               at  == KexMessages(one, end)
    <3>1. /\ \A d \in Dir : PlainEnd(d) # {}
          /\ AllFound(at)
          /\ kex' = extract_kex_exchange(at) /\ pos' = end /\ seq' = end /\ pc' = "start"
          /\ UNCHANGED <<result, epoch, key, sid, auth, counts, chunks, scalar>>
      BY <1>4, <2>3 DEF LoadWire
    <3>2. \A d \in Dir : end[d] \in PlainEnd(d)
      BY <3>1
    <3>4. \A d \in Dir : end[d] \in Nat /\ end[d] <= cut[d] /\ end[d] <= Len(sent[d])
      <4>1. \A d \in Dir : end[d] \in 1..cut[d]
        BY <3>2 DEF PlainEnd
      <4> HIDE DEF end
      <4> QED BY <1>a, <4>1
    <3>5. end \in [Dir -> Nat] /\ one \in [Dir -> Nat] /\ \A d \in Dir : 1 <= one[d]
      BY <3>4
    <3> HIDE DEF end, one
    <3>6. kex' \in [I_C: Int, I_S: Int, Q_C: Int, Q_S: Int]
      BY <3>1, <3>4, <3>5, KexType DEF TypeOK
    <3>7. pos' \in [Dir -> Nat] /\ seq' \in [Dir -> Nat] /\ \A d \in Dir : pos'[d] <= cut'[d]
      BY <1>3, <2>1, <3>1, <3>4, <3>5
    <3> QED BY <1>3, <1>4, <2>1, <3>1, <3>6, <3>7
            DEF LoadWire, TypeOK, Quiet, oracleVars, pipeVars
  <2> QED BY <2>2, <2>3
<1>5. CASE StartOracle
  <2> QED BY <1>3, <1>5 DEF StartOracle, Fail, TypeOK, Quiet, decoderVars, pipeVars
<1>6. CASE AwaitGreeting
  <2>1. toClient' \in Seq(Reply)
    <3>1. toClient' = toClient \/ (toClient # <<>> /\ toClient' = Tail(toClient))
      BY <1>6 DEF AwaitGreeting
    <3> QED BY <1>b, <3>1, SeqFacts
  <2> QED BY <1>3, <1>6, <2>1 DEF AwaitGreeting, Fail, TypeOK, Quiet, decoderVars, oracleVars
<1>7. CASE CheckInputs
  <2> QED BY <1>3, <1>7 DEF CheckInputs, Fail, TypeOK, Quiet, decoderVars, oracleVars, pipeVars
<1>8. CASE Ask
  <2>1. [epoch |-> epoch, pub |-> kex.Q_C, after |-> auth["c2s"] + auth["s2c"], status |-> "requested"]
          \in Event
    <3>1. epoch \in Nat /\ kex.Q_C \in Int /\ auth["c2s"] \in Nat /\ auth["s2c"] \in Nat
      BY <1>0 DEF TypeOK, Dir
    <3> QED BY <3>1 DEF Event
  <2>2. trace' \in Seq(Event) /\ trace' # <<>>
    BY <1>8, <1>b, <2>1, SeqFacts DEF Ask, RecordRequest
  <2>3. toOracle' \in Seq(Int)
    <3>1. kex.Q_C \in Int
      BY DEF TypeOK
    <3>2. toOracle' = toOracle \/ toOracle' = Append(toOracle, kex.Q_C)
      BY <1>8 DEF Ask
    <3> QED BY <1>b, <3>1, <3>2, SeqFacts
  <2> QED BY <1>3, <1>8, <2>2, <2>3 DEF Ask, Fail, TypeOK, Quiet, decoderVars, oracleVars
<1>9. ASSUME NEW s \in {"timeout", "rejected", "inconsistent", "released"}, trace # <<>>
      PROVE  Status(s) \in Seq(Event)
  <2>1. Len(trace) \in DOMAIN trace /\ trace[Len(trace)] \in Event
    BY <1>b, <1>9
  <2>2. [trace[Len(trace)] EXCEPT !.status = s] \in Event
    BY <1>9, <2>1 DEF Event
  <2>3. Status(s) = [trace EXCEPT ![Len(trace)] = [trace[Len(trace)] EXCEPT !.status = s]]
    BY DEF Status
  <2> QED BY <1>b, <2>1, <2>2, <2>3
<1>10. CASE TakeReply
  <2>1. toClient' \in Seq(Reply) /\ Head(toClient) \in Reply
    BY <1>10, <1>b, SeqFacts DEF TakeReply
  <2>2. trace' \in Seq(Event)
    BY <1>9, <1>10 DEF TakeReply, Quiet
  <2>3. scalar' \in Int
    BY <1>10, <2>1 DEF TakeReply, TypeOK, Reply
  <2>4. /\ UNCHANGED <<sessionVars, archiveVars, kex, epoch, pos, seq, auth, counts, truthRead,
                         oracleVars, toOracle>>
        /\ pc' \in {"derive", "close", "done"}
    BY <1>10 DEF TakeReply, Fail
  <2> QED BY <1>0, <1>3, <2>1, <2>2, <2>3, <2>4 DEF TypeOK, Quiet, oracleVars
<1>11. CASE ReplyTimeout
  <2>1. trace' \in Seq(Event)
    BY <1>9, <1>b, <1>11 DEF ReplyTimeout, Quiet
  <2> QED BY <1>3, <1>11, <2>1 DEF ReplyTimeout, Fail, TypeOK, Quiet, decoderVars, oracleVars, pipeVars
<1>12. CASE Derive
  <2>1. seq' \in [Dir -> Nat]
    BY <1>0, <1>12 DEF Derive, FirstSequence, TypeOK
  <2>2. /\ UNCHANGED <<sessionVars, archiveVars, kex, epoch, pos, auth, counts, scalar,
                         trace, truthRead, oracleVars, pipeVars>>
        /\ pc' \in {"decrypt", "close", "done"}
    BY <1>12 DEF Derive, Fail
  <2> QED BY <1>0, <1>3, <2>1, <2>2 DEF TypeOK, Quiet, oracleVars, pipeVars
<1>13. CASE DecryptEpoch
  <2> DEFINE end == [d \in Dir |-> EpochEnd(d)]
             from == [d \in Dir |-> pos[d] + 1]
             count == [d \in Dir |-> end[d] - pos[d]]
             at == KexMessages(from, end)
  <2>1. Same /\ UNCHANGED <<key, sid, scalar, trace, truthRead, oracleVars, pipeVars>> /\ pc = "decrypt"
    BY <1>13 DEF DecryptEpoch
  <2>2. CASE UNCHANGED <<kex, epoch, pos, seq, auth, counts, chunks>> /\ Fail("ValueError")
    BY <1>3, <2>1, <2>2 DEF Fail, TypeOK, Quiet, oracleVars, pipeVars
  <2>3. CASE ~(UNCHANGED <<kex, epoch, pos, seq, auth, counts, chunks>> /\ Fail("ValueError"))
    <3>1. /\ auth' = [d \in Dir |-> auth[d] + count[d]]
          /\ counts' = Append(counts, count)
          /\ pos' = end
          /\ seq' = [d \in Dir |-> (seq[d] + count[d]) % SeqLimit]
      BY <1>13, <2>3 DEF DecryptEpoch
    <3>2. \/ UNCHANGED <<kex, epoch>> /\ pc' \in {"finish", "close", "done"}
          \/ AllFound(at) /\ kex' = extract_kex_exchange(at) /\ epoch' = epoch + 1 /\ pc' = "ask"
      BY <1>13, <2>3 DEF DecryptEpoch, Fail
    <3>4. \A d \in Dir : end[d] \in Nat /\ pos[d] <= end[d] /\ end[d] <= cut[d]
      BY EpochEndRange
    <3>5. end \in [Dir -> Nat] /\ from \in [Dir -> Nat] /\ \A d \in Dir : 1 <= from[d]
      BY <1>a, <3>4
    <3> HIDE DEF end, from
    <3>6. \A d \in Dir : count[d] \in Nat
      BY <1>a, <3>4
    <3>7. count \in [Dir -> Nat]
      BY <3>6
    <3> HIDE DEF count
    <3>8. kex' \in [I_C: Int, I_S: Int, Q_C: Int, Q_S: Int] /\ epoch' \in Nat
      <4>1. ASSUME AllFound(at)
            PROVE  extract_kex_exchange(at) \in [I_C: Int, I_S: Int, Q_C: Int, Q_S: Int]
        <5>1. \A d \in Dir : end[d] <= Len(sent[d])
          BY <1>a, <3>4
        <5>2. SessionTypeOK
          BY <1>0 DEF TypeOK
        <5> QED BY <3>5, <4>1, <5>1, <5>2, KexType
      <4> QED BY <3>2, <4>1 DEF TypeOK
    <3>9. pos' \in [Dir -> Nat] /\ \A d \in Dir : pos'[d] <= cut'[d]
      BY <1>3, <2>1, <3>1, <3>4, <3>5
    <3>10. auth' \in [Dir -> Nat]
      BY <1>a, <3>1, <3>7
    <3>11. seq' \in [Dir -> Nat]
      <4>1. \A d \in Dir : (seq[d] + count[d]) % SeqLimit \in Nat
        BY <1>a, <3>7, SessionAssumption
      <4> QED BY <3>1, <4>1
    <3>12. counts' \in Seq([Dir -> Nat])
      BY <1>b, <3>1, <3>7
    <3>13. Quiet'
      BY <1>13, <3>2, <2>1 DEF Quiet
    <3> QED BY <1>3, <2>1, <3>2, <3>8, <3>9, <3>10, <3>11, <3>12, <3>13
            DEF TypeOK, oracleVars, pipeVars
  <2> QED BY <2>2, <2>3
<1>14. CASE CheckMarker
  BY <1>3, <1>14 DEF CheckMarker, Fail, TypeOK, Quiet, decoderVars, oracleVars, pipeVars
<1>15. CASE CompareTruth
  BY <1>3, <1>15 DEF CompareTruth, Fail, TypeOK, Quiet, decoderVars, oracleVars, pipeVars
<1>16. CASE CloseOracle
  <2>1. toOracle' \in Seq(Int)
    BY <1>16, <1>b DEF CloseOracle, Quit
  <2> QED BY <1>3, <1>16, <2>1 DEF CloseOracle, TypeOK, Quiet, decoderVars, oracleVars
<1>17. CASE JoinOracle
  BY <1>3, <1>17 DEF JoinOracle, TypeOK, Quiet, decoderVars, pipeVars
<1>18. CASE OracleBoot
  <2>1. toClient' \in Seq(Reply)
    <3>1. [ok |-> FALSE, priv |-> -1] \in Reply /\ [ok |-> TRUE, priv |-> -1] \in Reply
      BY DEF Reply
    <3> QED BY <1>18, <1>b, <3>1, SeqFacts DEF OracleBoot
  <2> QED BY <1>3, <1>18, <2>1 DEF OracleBoot, TypeOK, Quiet, decoderVars
<1>19. CASE OracleServe
  <2>1. toOracle' \in Seq(Int)
    BY <1>19, <1>b, SeqFacts DEF OracleServe
  <2>2. used' \subseteq DOMAIN recoveries
    BY <1>19, <1>b DEF OracleServe, FirstMatch, Matching, MarkUsed
  <2>3. \A i \in DOMAIN recoveries : recoveries[i].priv \in Int
    <3>1. \A i \in DOMAIN recoveries : recoveries[i] \in Record
      BY <1>b, SeqFacts
    <3> QED BY <3>1 DEF Record
  <2>4. toClient' \in Seq(Reply)
    <3>1. \/ toClient' = toClient
          \/ toClient' = Append(toClient, [ok |-> FALSE, priv |-> -1])
          \/ \E i \in DOMAIN recoveries :
                toClient' = Append(toClient, [ok |-> TRUE, priv |-> recoveries[i].priv])
      BY <1>19 DEF OracleServe, FirstMatch, Matching
    <3>2. /\ [ok |-> FALSE, priv |-> -1] \in Reply
          /\ \A i \in DOMAIN recoveries : [ok |-> TRUE, priv |-> recoveries[i].priv] \in Reply
      BY <2>3 DEF Reply
    <3> QED BY <1>b, <3>1, <3>2, SeqFacts
  <2>5. pc \notin {"capture", "load", "start"}
    BY <1>19 DEF OracleServe, Quiet
  <2> QED BY <1>3, <1>19, <2>1, <2>2, <2>4, <2>5 DEF OracleServe, TypeOK, Quiet, decoderVars
<1>20. CASE OracleDies
  BY <1>3, <1>20 DEF OracleDies, TypeOK, Quiet, decoderVars, pipeVars
<1>21. CASE UNCHANGED vars
  BY <1>3, <1>21 DEF vars, TypeOK, Quiet, decoderVars, oracleVars, pipeVars
<1> QED BY <1>1, <1>2, <1>4, <1>5, <1>6, <1>7, <1>8, <1>10, <1>11, <1>12, <1>13, <1>14, <1>15,
           <1>16, <1>17, <1>18, <1>19, <1>20, <1>21 DEF Next, Recover, OracleProcess

\* The type invariant holds in every behaviour: nothing the archive, the
\* oracle or the timing does makes derive_ssh read past the archived packets.
THEOREM TypeCorrect == Spec => []TypeOK
<1>1. Init => TypeInv
  BY TypeInit
<1>2. TypeInv /\ [Next]_vars => TypeInv'
  BY TypeStep
<1>3. TypeInv => TypeOK
  BY DEF TypeInv
<1> QED BY <1>1, <1>2, <1>3, PTL DEF Spec
-----------------------------------------------------------------------------
\* What the decoder relies on in a stream: packets are plaintext until the
\* first NEWKEYS, and a client share belongs to the exchange after the one
\* whose keys protect it.
StreamInv ==
    \A d \in Dir :
        /\ keyNo[d] >= -1
        /\ keyNo[d] >= 0 => \E j \in DOMAIN sent[d] : sent[d][j].type = "NEWKEYS"
        /\ \A i \in DOMAIN sent[d] :
              /\ sent[d][i].key >= -1
              /\ sent[d][i].key >= 0 => \E j \in 1..(i - 1) : sent[d][j].type = "NEWKEYS"
              /\ sent[d][i].type = "ECDH_INIT" => sent[d][i].kex = sent[d][i].key + 1

\* Appending a packet keeps StreamInv when the packet is plaintext or follows
\* a NEWKEYS.
LEMMA StreamAppend ==
    ASSUME SessionTypeOK, StreamInv, NEW d \in Dir, NEW type \in MsgType, NEW n \in Int,
           NEW body \in {Marker, Noise}, Put(d, type, n, body),
           type = "ECDH_INIT" => n = keyNo[d] + 1,
           \/ UNCHANGED keyNo
           \/ type = "NEWKEYS" /\ keyNo' = [keyNo EXCEPT ![d] = @ + 1]
    PROVE  StreamInv'
<1> DEFINE p == Packet(d, type, n, body)
<1>1. \A e \in Dir : sent[e] \in Seq(PacketType)
  BY DEF SessionTypeOK, PacketType
<1>2. /\ sent' = [sent EXCEPT ![d] = Append(sent[d], p)]
      /\ sent \in [Dir -> Seq(PacketType)] /\ keyNo \in [Dir -> Int]
  BY DEF Put, SessionTypeOK, PacketType
<1>3. /\ p \in PacketType
      /\ p.type = type /\ p.kex = n /\ p.key = keyNo[d]
  BY DEF Packet, PacketType, SessionTypeOK
<1> HIDE DEF p
<1>4. ASSUME NEW e \in Dir PROVE StreamInv!(e)'
  <2>1. CASE e # d
    <3>1. sent'[e] = sent[e] /\ keyNo'[e] = keyNo[e]
      BY <1>2, <2>1
    <3> QED BY <3>1 DEF StreamInv
  <2>2. CASE e = d
    <3>1. sent'[e] = Append(sent[e], p)
      BY <1>2, <2>2
    <3>2. Len(sent[e]) \in Nat /\ DOMAIN sent[e] = 1..Len(sent[e])
      BY <1>1
    <3>3. /\ DOMAIN sent'[e] = 1..(Len(sent[e]) + 1)
          /\ \A i \in 1..Len(sent[e]) : sent'[e][i] = sent[e][i]
          /\ sent'[e][Len(sent[e]) + 1] = p
      BY <1>1, <1>3, <3>1, <3>2
    <3>4. keyNo[e] >= -1 /\ keyNo[e] \in Int /\ keyNo'[e] >= -1
      BY <1>2, <2>2 DEF StreamInv
    <3>5. keyNo'[e] >= 0 => \E j \in DOMAIN sent'[e] : sent'[e][j].type = "NEWKEYS"
      <4>1. CASE UNCHANGED keyNo
        <5>1. keyNo[e] >= 0 => \E j \in DOMAIN sent[e] : sent[e][j].type = "NEWKEYS"
          BY DEF StreamInv
        <5>2. \A j \in DOMAIN sent[e] : j \in DOMAIN sent'[e] /\ sent'[e][j] = sent[e][j]
          BY <3>2, <3>3
        <5> QED BY <4>1, <5>1, <5>2
      <4>2. CASE type = "NEWKEYS"
        BY <1>3, <3>2, <3>3, <4>2
      <4> QED BY <4>1, <4>2
    <3>6. ASSUME NEW i \in DOMAIN sent'[e]
          PROVE  /\ sent'[e][i].key >= -1
                 /\ sent'[e][i].key >= 0 => \E j \in 1..(i - 1) : sent'[e][j].type = "NEWKEYS"
                 /\ sent'[e][i].type = "ECDH_INIT" => sent'[e][i].kex = sent'[e][i].key + 1
      <4>1. CASE i \in 1..Len(sent[e])
        <5>1. sent'[e][i] = sent[e][i] /\ \A j \in 1..(i - 1) : sent'[e][j] = sent[e][j]
          BY <3>2, <3>3, <4>1
        <5>2. i \in DOMAIN sent[e]
          BY <3>2, <4>1
        <5> QED BY <5>1, <5>2 DEF StreamInv
      <4>2. CASE i = Len(sent[e]) + 1
        <5>1. sent'[e][i] = p /\ 1..(i - 1) = DOMAIN sent[e]
          BY <3>2, <3>3, <4>2
        <5>2. \A j \in DOMAIN sent[e] : sent'[e][j] = sent[e][j]
          BY <3>2, <3>3
        <5>3. keyNo[e] >= 0 => \E j \in DOMAIN sent[e] : sent[e][j].type = "NEWKEYS"
          BY DEF StreamInv
        <5>4. p.key >= 0 => \E j \in 1..(i - 1) : sent'[e][j].type = "NEWKEYS"
          BY <1>3, <2>2, <5>1, <5>2, <5>3
        <5>5. p.type = "ECDH_INIT" => p.kex = p.key + 1
          BY <1>3
        <5> QED BY <1>3, <2>2, <3>4, <5>1, <5>4, <5>5
      <4> QED BY <3>2, <3>3, <4>1, <4>2
    <3> QED BY <3>4, <3>5, <3>6
  <2> QED BY <2>1, <2>2
<1> QED BY <1>4 DEF StreamInv

\* The endpoints produce only streams of that shape.
LEMMA StreamStep == TypeInv /\ StreamInv /\ [Next]_vars => StreamInv'
<1> SUFFICES ASSUME TypeInv, StreamInv, [Next]_vars PROVE StreamInv'
  OBVIOUS
<1>1. SessionTypeOK
  BY DEF TypeInv, TypeOK
<1>2. CASE UNCHANGED sessionVars
  BY <1>2 DEF StreamInv, sessionVars
<1>3. CASE SessionStep
  <2>1. ASSUME NEW d \in Dir, SendKexInit(d) PROVE StreamInv'
    <3>1. /\ keyNo[d] + 1 \in Int /\ "KEXINIT" \in MsgType
          /\ Put(d, "KEXINIT", keyNo[d] + 1, Noise) /\ UNCHANGED keyNo
      BY <1>1, <2>1 DEF SessionTypeOK, MsgType, SendKexInit
    <3> QED BY <1>1, <3>1, StreamAppend
  <2>2. ASSUME NEW d \in Dir, SendNewKeys(d) PROVE StreamInv'
    <3>1. /\ keyNo[d] + 1 \in Int /\ "NEWKEYS" \in MsgType
          /\ Put(d, "NEWKEYS", keyNo[d] + 1, Noise)
          /\ keyNo' = [keyNo EXCEPT ![d] = keyNo[d] + 1]
      BY <1>1, <2>2 DEF SessionTypeOK, MsgType, SendNewKeys
    <3> QED BY <1>1, <3>1, StreamAppend
  <2>3. ASSUME NEW d \in Dir, SendOther(d) PROVE StreamInv'
    <3>1. /\ -1 \in Int /\ "OTHER" \in MsgType
          /\ Put(d, "OTHER", -1, Noise) /\ UNCHANGED keyNo
      BY <2>3 DEF MsgType, SendOther
    <3> QED BY <1>1, <3>1, StreamAppend
  <2>4. ASSUME SendEcdhInit PROVE StreamInv'
    <3>1. /\ keyNo["c2s"] + 1 \in Int /\ "ECDH_INIT" \in MsgType /\ "c2s" \in Dir
          /\ Put("c2s", "ECDH_INIT", keyNo["c2s"] + 1, Noise) /\ UNCHANGED keyNo
      BY <1>1, <2>4 DEF SessionTypeOK, MsgType, SendEcdhInit, Dir
    <3> QED BY <1>1, <3>1, StreamAppend
  <2>5. ASSUME SendEcdhReply PROVE StreamInv'
    <3>1. /\ keyNo["s2c"] + 1 \in Int /\ "ECDH_REPLY" \in MsgType /\ "s2c" \in Dir
          /\ Put("s2c", "ECDH_REPLY", keyNo["s2c"] + 1, Noise) /\ UNCHANGED keyNo
      BY <1>1, <2>5 DEF SessionTypeOK, MsgType, SendEcdhReply, Dir
    <3> QED BY <1>1, <3>1, StreamAppend
  <2>6. ASSUME SendData PROVE StreamInv'
    <3>1. /\ -1 \in Int /\ "CHANNEL_DATA" \in MsgType /\ "s2c" \in Dir
          /\ \E body \in {Marker, Noise} : Put("s2c", "CHANNEL_DATA", -1, body)
          /\ UNCHANGED keyNo
      BY <2>6 DEF MsgType, SendData, Dir
    <3> QED BY <1>1, <3>1, StreamAppend
  <2> QED BY <1>3, <2>1, <2>2, <2>3, <2>4, <2>5, <2>6 DEF SessionStep
<1>4. SessionStep \/ UNCHANGED sessionVars
  BY DEF Next, Session, StopCapture, Recover, LoadWire, StartOracle, AwaitGreeting, CheckInputs,
         Ask, TakeReply, ReplyTimeout, Derive, DecryptEpoch, CheckMarker, CompareTruth,
         CloseOracle, JoinOracle, OracleProcess, OracleBoot, OracleServe, OracleDies, vars
<1> QED BY <1>2, <1>3, <1>4
-----------------------------------------------------------------------------
\* The pipe while the recovery is under way: at most one request or one reply
\* is in flight, and both queues are empty whenever the decoder is working.
PipeInv ==
    /\ pc \in {"check", "ask", "wait", "derive", "decrypt"} => proc \in {"serve", "exited"}
    /\ pc \in {"boot", "check", "ask", "derive", "decrypt"} => toOracle = <<>>
    /\ pc \in {"check", "ask", "derive", "decrypt"} => toClient = <<>>
    /\ pc = "boot" => proc # "none" /\ Len(toClient) <= 1 /\ (proc = "boot" => toClient = <<>>)
    /\ pc = "wait" => \/ toOracle = <<epoch>> /\ toClient = <<>>
                      \/ /\ toOracle = <<>> /\ Len(toClient) <= 1
                         /\ toClient # <<>> /\ Head(toClient).ok => epoch \in ReleasedShares

\* The decoder works on exchange epoch, its keys are bound to the transcript
\* of that exchange, and every request is for the epoch about to be opened.
EpochInv ==
    /\ pc \in {"start", "boot", "check", "ask", "wait", "derive", "decrypt"} =>
          kex.Q_C = epoch /\ Len(counts) = epoch
    /\ pc = "decrypt" => \E x : key.H = <<kex, x>>
    /\ pc \in {"derive", "decrypt"} => epoch \in ReleasedShares
    /\ \A i \in DOMAIN toOracle : toOracle[i] = Quit \/ toOracle[i] = Len(counts)

LadderInv == TypeInv /\ StreamInv /\ PipeInv /\ EpochInv /\ CausalRelease

\* A step of the recovery as the ladder sees it.
LadderStep == Ladder!Next \/ UNCHANGED <<Len(counts), ReleasedShares>>

\* The initial state.
LEMMA LadderInit == Init => LadderInv /\ Ladder!Init
<1> SUFFICES ASSUME Init PROVE LadderInv /\ Ladder!Init
  OBVIOUS
<1>1. TypeInv
  BY TypeInit
<1>2. StreamInv
  BY DEF Init, SessionInit, StreamInv
<1>3. pc = "capture" /\ toOracle = <<>> /\ used = {} /\ counts = <<>>
  BY DEF Init
<1>4. PipeInv
  BY <1>3 DEF PipeInv
<1>5. EpochInv
  BY <1>3 DEF EpochInv
<1>6. Len(counts) = 0 /\ ReleasedShares = {}
  BY <1>3 DEF ReleasedShares
<1> QED BY <1>1, <1>2, <1>4, <1>5, <1>6 DEF LadderInv, CausalRelease, Ladder!Init

\* The share asked for first is the one of the initial exchange.
LEMMA FirstShare ==
    ASSUME LadderInv, LoadWire, pc' = "start"
    PROVE  kex'.Q_C = 0
<1> DEFINE end == [d \in Dir |-> CHOOSE i \in PlainEnd(d) : TRUE]
           one == [d \in Dir |-> 1]
           at  == KexMessages(one, end)
<1>1. /\ \A d \in Dir : PlainEnd(d) # {}
      /\ AllFound(at)
      /\ kex' = extract_kex_exchange(at)
  BY DEF LoadWire, Fail
<1>2. "c2s" \in Dir /\ SessionTypeOK
  BY DEF Dir, LadderInv, TypeInv, TypeOK
<1>3. \A d \in Dir : end[d] \in PlainEnd(d)
  BY <1>1
<1>4. \A d \in Dir : cut[d] \in Nat /\ cut[d] <= Len(sent[d]) /\ sent[d] \in Seq(PacketType)
  BY DEF LadderInv, TypeInv, TypeOK, SessionTypeOK, PacketType
<1>5. \A d \in Dir : end[d] \in 1..cut[d] /\ \A j \in 1..(end[d] - 1) : sent[d][j].type # "NEWKEYS"
  BY <1>3 DEF PlainEnd
<1> HIDE DEF end
<1>6. \A d \in Dir : end[d] \in Nat /\ end[d] <= Len(sent[d])
  BY <1>4, <1>5, SeqFacts
<1>7. end = [d \in Dir |-> end[d]]
  BY DEF end
<1>8. end \in [Dir -> Nat] /\ one \in [Dir -> Nat] /\ \A d \in Dir : 1 <= one[d]
  BY <1>6, <1>7
<1>9. PICK i \in one["c2s"]..end["c2s"] :
         sent["c2s"][i].type = "ECDH_INIT" /\ kex'.Q_C = sent["c2s"][i].kex
  <2> HIDE DEF one
  <2> QED BY <1>1, <1>2, <1>6, <1>8, KexType
<1>10. one["c2s"] = 1
  BY <1>2
<1>11. i \in 1..Len(sent["c2s"]) /\ i \in 1..end["c2s"]
  BY <1>2, <1>4, <1>6, <1>9, <1>10, SeqFacts
<1>12. ~ \E j \in 1..(i - 1) : sent["c2s"][j].type = "NEWKEYS"
  BY <1>2, <1>5, <1>6, <1>11
<1>13. /\ i \in DOMAIN sent["c2s"]
       /\ sent["c2s"][i] \in PacketType
  BY <1>2, <1>4, <1>11, SeqFacts
<1>14. /\ sent["c2s"][i].key >= -1
       /\ sent["c2s"][i].key >= 0 => \E j \in 1..(i - 1) : sent["c2s"][j].type = "NEWKEYS"
       /\ sent["c2s"][i].kex = sent["c2s"][i].key + 1
  BY <1>2, <1>9, <1>13 DEF LadderInv, StreamInv
<1>15. sent["c2s"][i].key \in Int
  BY <1>13 DEF PacketType
<1> QED BY <1>9, <1>12, <1>14, <1>15

\* Every packet of the epoch opens under keys bound to exchange epoch, so the
\* client share found in it is the one of exchange epoch + 1.
LEMMA NextShare ==
    ASSUME LadderInv, DecryptEpoch, pc' = "ask"
    PROVE  kex'.Q_C = epoch + 1 /\ epoch' = epoch + 1
<1> DEFINE end == [d \in Dir |-> EpochEnd(d)]
           from == [d \in Dir |-> pos[d] + 1]
           at == KexMessages(from, end)
<1>1. /\ pc = "decrypt" /\ \A d \in Dir : ReachesNewKeys(d)
      /\ AllFound(at) /\ kex' = extract_kex_exchange(at) /\ epoch' = epoch + 1
  BY DEF DecryptEpoch, Fail
<1>2. "c2s" \in Dir /\ SessionTypeOK /\ TypeOK
  BY DEF Dir, LadderInv, TypeInv, TypeOK
<1>3. \A d \in Dir : /\ pos[d] \in Nat /\ cut[d] \in Nat /\ cut[d] <= Len(sent[d])
                     /\ sent[d] \in Seq(PacketType)
  BY DEF LadderInv, TypeInv, TypeOK, SessionTypeOK, PacketType
<1>4. \A d \in Dir : end[d] \in Nat /\ end[d] <= cut[d]
  BY <1>2, EpochEndRange
<1>5. \A j \in (pos["c2s"] + 1)..end["c2s"] : Opens("c2s", j)
  BY <1>1, <1>2, EpochEndRange
<1>6. end \in [Dir -> Nat]
  BY <1>4
<1>7. from \in [Dir -> Nat] /\ (\A d \in Dir : 1 <= from[d]) /\ from["c2s"] = pos["c2s"] + 1
  BY <1>2, <1>3
<1> HIDE DEF end, from
<1>8. \A d \in Dir : end[d] <= Len(sent[d])
  BY <1>3, <1>4, SeqFacts
<1>9. PICK i \in from["c2s"]..end["c2s"] :
         sent["c2s"][i].type = "ECDH_INIT" /\ kex'.Q_C = sent["c2s"][i].kex
  BY <1>1, <1>2, <1>6, <1>7, <1>8, KexType
<1>10. Opens("c2s", i)
  BY <1>5, <1>7, <1>9
<1>11. i \in DOMAIN sent["c2s"]
  BY <1>2, <1>3, <1>6, <1>7, <1>8, <1>9, SeqFacts
<1> DEFINE k == sent["c2s"][i].key
<1>12. k = epoch
  <2>1. EndpointKey(k) = key
    BY <1>10 DEF Opens
  <2>2. PICK x : key.H = <<kex, x>>
    BY <1>1 DEF LadderInv, EpochInv
  <2>3. EndpointKey(k).H = <<Transcript(k), endpoint_mpint(secrets[k + 1])>>
    BY DEF EndpointKey, EndpointH
  <2>4. Transcript(k) = kex
    BY <2>1, <2>2, <2>3
  <2>5. Transcript(k).Q_C = k
    BY DEF Transcript
  <2>6. kex.Q_C = epoch
    BY <1>1 DEF LadderInv, EpochInv
  <2> QED BY <2>4, <2>5, <2>6
<1>13. sent["c2s"][i].kex = k + 1
  BY <1>2, <1>9, <1>11 DEF LadderInv, StreamInv
<1> QED BY <1>1, <1>9, <1>12, <1>13

\* One step keeps the invariant and is a step of the ladder or none: only
\* OracleServe releases and only DecryptEpoch opens an epoch.
LEMMA LadderInvStep == LadderInv /\ [Next]_vars => LadderInv' /\ LadderStep
<1> SUFFICES ASSUME LadderInv, [Next]_vars PROVE LadderInv' /\ LadderStep
  OBVIOUS
<1>1. TypeInv' /\ StreamInv'
  BY TypeStep, StreamStep DEF LadderInv
<1>2. TypeOK /\ Quiet /\ PipeInv /\ EpochInv /\ CausalRelease
  BY DEF LadderInv, TypeInv
<1>3. /\ toClient \in Seq(Reply) /\ toOracle \in Seq(Int) /\ counts \in Seq([Dir -> Nat])
      /\ epoch \in Nat /\ Len(counts) \in Nat
  BY <1>2, SeqFacts DEF TypeOK
<1> DEFINE Keep == UNCHANGED <<counts, recoveries, used>>
<1>4. ASSUME Keep PROVE CausalRelease' /\ LadderStep /\ UNCHANGED ReleasedShares
  BY <1>2, <1>4 DEF CausalRelease, ReleasedShares, LadderStep
<1>5. ASSUME Keep, PipeInv', EpochInv' PROVE LadderInv' /\ LadderStep
  BY <1>1, <1>4, <1>5 DEF LadderInv
<1>6. CASE Session
  <2>1. Keep /\ UNCHANGED <<pc, proc, toOracle, toClient, epoch, kex, key>> /\ pc = "capture"
    BY <1>6 DEF Session, decoderVars, oracleVars, pipeVars
  <2> QED BY <1>2, <1>4, <1>5, <2>1 DEF PipeInv, EpochInv
<1>7. CASE StopCapture
  <2>1. /\ UNCHANGED <<counts, used, toOracle>> /\ pc' = "load"
        /\ used = {} /\ toOracle = <<>> /\ counts = <<>>
    BY <1>2, <1>7 DEF StopCapture, Quiet, decoderVars, pipeVars
  <2>2. ReleasedShares = {} /\ ReleasedShares' = {}
    BY <2>1 DEF ReleasedShares
  <2>3. PipeInv' /\ EpochInv'
    BY <1>2, <2>1 DEF PipeInv, EpochInv
  <2> QED BY <1>1, <2>1, <2>2, <2>3 DEF LadderInv, CausalRelease, LadderStep
<1>8. CASE LoadWire
  <2>1. /\ Keep /\ UNCHANGED <<proc, toOracle, toClient>> /\ pc' \in {"start", "done", "close"}
        /\ pc = "load" /\ UNCHANGED epoch
    BY <1>8 DEF LoadWire, Fail, decoderVars, oracleVars, pipeVars
  <2>2. epoch = 0 /\ Len(counts) = 0 /\ toOracle = <<>>
    BY <1>2, <2>1 DEF Quiet
  <2>3. pc' = "start" => kex'.Q_C = 0
    BY <1>8, FirstShare
  <2>4. PipeInv' /\ EpochInv'
    BY <2>1, <2>2, <2>3 DEF PipeInv, EpochInv
  <2> QED BY <1>5, <2>1, <2>4
<1>9. CASE StartOracle
  <2>1. /\ Keep /\ UNCHANGED <<toOracle, toClient, epoch, kex>> /\ pc = "start"
        /\ pc' \in {"boot", "done", "close"} /\ (pc' = "boot" => proc' = "boot")
        /\ toOracle = <<>> /\ toClient = <<>>
    BY <1>2, <1>9 DEF StartOracle, Fail, Quiet, decoderVars, pipeVars
  <2>2. PipeInv' /\ EpochInv'
    BY <1>2, <2>1 DEF PipeInv, EpochInv
  <2> QED BY <1>5, <2>1, <2>2
<1>10. CASE AwaitGreeting
  <2>1. /\ Keep /\ UNCHANGED <<proc, toOracle, epoch, kex>> /\ pc = "boot"
        /\ pc' \in {"check", "done", "close"}
        /\ pc' = "check" => toClient # <<>> /\ toClient' = Tail(toClient)
    BY <1>10 DEF AwaitGreeting, Fail, decoderVars, oracleVars
  <2>2. toClient # <<>> => Tail(toClient) = <<>>
    BY <1>2, <1>3, <2>1 DEF PipeInv
  <2>3. pc' = "check" => proc \in {"serve", "exited"}
    BY <1>2, <2>1 DEF PipeInv, TypeOK
  <2>4. PipeInv' /\ EpochInv'
    BY <1>2, <2>1, <2>2, <2>3 DEF PipeInv, EpochInv
  <2> QED BY <1>5, <2>1, <2>4
<1>11. CASE CheckInputs
  <2>1. /\ Keep /\ UNCHANGED <<proc, toOracle, toClient, epoch, kex>> /\ pc = "check"
        /\ pc' \in {"ask", "done", "close"}
    BY <1>11 DEF CheckInputs, Fail, decoderVars, oracleVars, pipeVars
  <2>2. PipeInv' /\ EpochInv'
    BY <1>2, <2>1 DEF PipeInv, EpochInv
  <2> QED BY <1>5, <2>1, <2>2
<1>12. CASE Ask
  <2>1. /\ Keep /\ UNCHANGED <<proc, toClient, epoch, kex>> /\ pc = "ask"
        /\ toOracle = <<>> /\ toClient = <<>> /\ kex.Q_C = epoch /\ Len(counts) = epoch
        /\ \/ pc' = "wait" /\ toOracle' = Append(toOracle, kex.Q_C)
           \/ pc' \in {"close", "done"} /\ toOracle' = toOracle
    BY <1>2, <1>12 DEF Ask, Fail, decoderVars, oracleVars, PipeInv, EpochInv
  <2>2. toOracle' = <<epoch>> \/ toOracle' = <<>>
    BY <2>1
  <2>3. pc' = "wait" => toOracle' = <<epoch>>
    BY <2>1
  <2>4. PipeInv'
    BY <1>2, <2>1, <2>2, <2>3 DEF PipeInv
  <2>5. EpochInv'
    BY <1>2, <2>1, <2>2 DEF EpochInv
  <2> QED BY <1>5, <2>1, <2>4, <2>5
<1>13. CASE TakeReply
  <2>1. /\ Keep /\ UNCHANGED <<proc, toOracle, epoch, kex>> /\ pc = "wait" /\ toClient # <<>>
        /\ toClient' = Tail(toClient)
        /\ \/ pc' = "derive" /\ Head(toClient).ok
           \/ pc' \in {"close", "done"}
    BY <1>13 DEF TakeReply, Fail, oracleVars
  <2>2. toOracle = <<>> /\ Len(toClient) <= 1 /\ (Head(toClient).ok => epoch \in ReleasedShares)
    BY <1>2, <2>1 DEF PipeInv
  <2>3. Tail(toClient) = <<>>
    BY <1>3, <2>1, <2>2
  <2>4. PipeInv'
    BY <1>2, <2>1, <2>2, <2>3 DEF PipeInv
  <2>5. EpochInv'
    BY <1>2, <1>4, <2>1, <2>2 DEF EpochInv
  <2> QED BY <1>5, <2>1, <2>4, <2>5
<1>14. CASE ReplyTimeout
  <2>1. /\ Keep /\ UNCHANGED <<proc, toOracle, toClient, epoch, kex>> /\ pc' \in {"close", "done"}
    BY <1>14 DEF ReplyTimeout, Fail, decoderVars, oracleVars, pipeVars
  <2>2. PipeInv' /\ EpochInv'
    BY <1>2, <2>1 DEF PipeInv, EpochInv
  <2> QED BY <1>5, <2>1, <2>2
<1>15. CASE Derive
  <2>1. /\ Keep /\ UNCHANGED <<proc, toOracle, toClient, epoch, kex>> /\ pc = "derive"
        /\ \/ /\ pc' = "decrypt" /\ \E x : key'.H = <<kex, x>>
           \/ pc' \in {"close", "done"}
    BY <1>15 DEF Derive, verify_ed25519_kex_signature, derive_ssh_keys, Fail, compute_exchange_hash,
                 oracleVars, pipeVars
  <2>2. PipeInv'
    BY <1>2, <2>1 DEF PipeInv
  <2>3. EpochInv'
    BY <1>2, <1>4, <2>1 DEF EpochInv
  <2> QED BY <1>5, <2>1, <2>2, <2>3
<1>16. CASE DecryptEpoch
  <2>1. /\ UNCHANGED <<recoveries, used, proc, toOracle, toClient>> /\ pc = "decrypt"
        /\ toOracle = <<>> /\ toClient = <<>> /\ Len(counts) = epoch /\ epoch \in ReleasedShares
        /\ pc' \in {"close", "done", "finish", "ask"}
    BY <1>2, <1>16 DEF DecryptEpoch, Fail, oracleVars, pipeVars, PipeInv, EpochInv
  <2>2. PipeInv'
    BY <1>2, <2>1 DEF PipeInv
  <2>3. CASE UNCHANGED counts
    <3>1. pc' # "ask"
      <4>1. counts' = Append(counts, [d \in Dir |-> EpochEnd(d) - pos[d]]) => counts' # counts
        BY <1>3
      <4> QED BY <1>16, <2>3, <4>1 DEF DecryptEpoch, Fail
    <3>2. EpochInv'
      BY <2>1, <3>1 DEF EpochInv
    <3> QED BY <1>5, <2>1, <2>2, <2>3, <3>2
  <2>4. CASE ~UNCHANGED counts
    <3> DEFINE count == [d \in Dir |-> [e \in Dir |-> EpochEnd(e)][d] - pos[d]]
    <3>1. counts' = Append(counts, count)
      BY <1>16, <2>4 DEF DecryptEpoch
    <3> HIDE DEF count
    <3>2. Len(counts') = Len(counts) + 1
      BY <1>3, <3>1
    <3>3. ReleasedShares' = ReleasedShares
      BY <2>1 DEF ReleasedShares
    <3>4. pc' = "ask" => kex'.Q_C = epoch + 1 /\ epoch' = epoch + 1
      BY <1>16, NextShare
    <3>5. EpochInv'
      BY <2>1, <3>2, <3>4 DEF EpochInv
    <3>6. CausalRelease'
      <4>1. ReleasedShares \subseteq Nat
        <5>1. recoveries \in Seq(Record) /\ used \subseteq DOMAIN recoveries
          BY <1>2 DEF TypeOK
        <5>2. \A i \in DOMAIN recoveries : recoveries[i].pub \in Nat
          <6>1. \A i \in DOMAIN recoveries : recoveries[i] \in Record
            BY <5>1, SeqFacts
          <6> QED BY <6>1 DEF Record
        <5> QED BY <5>1, <5>2 DEF ReleasedShares
      <4> QED BY <1>2, <1>3, <3>2, <3>3, <4>1 DEF CausalRelease
    <3>7. Ladder!Next
      BY <2>1, <3>2, <3>3 DEF Ladder!Next, Ladder!Open
    <3> QED BY <1>1, <2>2, <3>5, <3>6, <3>7 DEF LadderInv, LadderStep
  <2> QED BY <2>3, <2>4
<1>17. CASE CheckMarker \/ CompareTruth
  <2>1. Keep /\ UNCHANGED <<proc, toOracle, toClient, epoch, kex>> /\ pc' \in {"close", "done", "truth"}
    BY <1>17 DEF CheckMarker, CompareTruth, Fail, decoderVars, oracleVars, pipeVars
  <2>2. PipeInv' /\ EpochInv'
    BY <1>2, <2>1 DEF PipeInv, EpochInv
  <2> QED BY <1>5, <2>1, <2>2
<1>18. CASE CloseOracle
  <2>1. /\ Keep /\ pc' = "join"
        /\ toOracle' = toOracle \/ toOracle' = Append(toOracle, Quit)
    BY <1>18 DEF CloseOracle, decoderVars, oracleVars
  <2>2. \A i \in DOMAIN toOracle' : toOracle'[i] = Quit \/ toOracle'[i] = Len(counts)
    <3>1. \A i \in DOMAIN toOracle : toOracle[i] = Quit \/ toOracle[i] = Len(counts)
      BY <1>2 DEF EpochInv
    <3>2. ASSUME toOracle' = Append(toOracle, Quit), NEW i \in DOMAIN toOracle'
          PROVE  toOracle'[i] = Quit \/ (i \in DOMAIN toOracle /\ toOracle'[i] = toOracle[i])
      BY <1>3, <3>2 DEF Quit
    <3> QED BY <2>1, <3>1, <3>2
  <2>3. PipeInv' /\ EpochInv'
    BY <2>1, <2>2 DEF PipeInv, EpochInv
  <2> QED BY <1>5, <2>1, <2>3
<1>19. CASE JoinOracle
  <2>1. Keep /\ UNCHANGED toOracle /\ pc' = "done"
    BY <1>19 DEF JoinOracle, decoderVars, pipeVars
  <2>2. PipeInv' /\ EpochInv'
    BY <1>2, <2>1 DEF PipeInv, EpochInv
  <2> QED BY <1>5, <2>1, <2>2
<1>20. CASE OracleBoot
  <2>1. /\ Keep /\ UNCHANGED <<pc, toOracle, epoch, kex, key>>
        /\ proc = "boot" /\ proc' \in {"serve", "exited"}
        /\ \E r \in Reply : toClient' = Append(toClient, r)
    <3>1. [ok |-> FALSE, priv |-> -1] \in Reply /\ [ok |-> TRUE, priv |-> -1] \in Reply
      BY DEF Reply
    <3> QED BY <1>20, <3>1 DEF OracleBoot, decoderVars
  <2>2. toClient = <<>> => Len(toClient') = 1
    BY <1>3, <2>1
  <2>3. pc \notin {"check", "ask", "wait", "derive", "decrypt"}
    BY <1>2, <2>1 DEF PipeInv
  <2>4. PipeInv'
    BY <1>2, <2>1, <2>2, <2>3 DEF PipeInv
  <2>5. EpochInv'
    BY <1>2, <2>1, <2>3 DEF EpochInv
  <2> QED BY <1>5, <2>1, <2>4, <2>5
<1>21. CASE OracleServe
  <2> DEFINE pub == Head(toOracle)
  <2>1. /\ UNCHANGED <<pc, epoch, kex, key, counts, recoveries>> /\ proc = "serve"
        /\ toOracle # <<>> /\ toOracle' = Tail(toOracle) /\ proc' \in {"serve", "exited"}
    BY <1>21 DEF OracleServe, decoderVars
  <2>2. /\ pub = Quit \/ pub = Len(counts)
        /\ \A i \in DOMAIN toOracle' : toOracle'[i] = Quit \/ toOracle'[i] = Len(counts)
    BY <1>2, <1>3, <2>1 DEF EpochInv
  <2>3. \/ UNCHANGED used /\ (toClient' = toClient \/ toClient' = Append(toClient, [ok |-> FALSE, priv |-> -1]))
        \/ /\ pub # Quit
           /\ \E i \in DOMAIN recoveries :
                 /\ recoveries[i].pub = pub /\ used' = used \union {i}
                 /\ toClient' = Append(toClient, [ok |-> TRUE, priv |-> recoveries[i].priv])
    BY <1>21 DEF OracleServe, FirstMatch, Matching, MarkUsed
  <2>4. \/ ReleasedShares' = ReleasedShares
        \/ pub # Quit /\ ReleasedShares' = ReleasedShares \union {pub}
    BY <2>1, <2>3 DEF ReleasedShares
  <2>5. ReleasedShares' = ReleasedShares \/ ReleasedShares' = ReleasedShares \union {Len(counts)}
    BY <2>2, <2>4
  <2>6. CausalRelease' /\ LadderStep
    BY <1>2, <1>3, <2>1, <2>5 DEF CausalRelease, LadderStep, Ladder!Next, Ladder!Release
  <2>7. pc \notin {"capture", "load", "start", "boot", "check", "ask", "derive", "decrypt"}
    BY <1>2, <2>1 DEF PipeInv, Quiet
  <2>8. EpochInv'
    BY <1>2, <2>1, <2>2, <2>7 DEF EpochInv
  <2>9. PipeInv'
    <3>1. CASE pc # "wait"
      BY <2>1, <2>7, <3>1 DEF PipeInv
    <3>2. CASE pc = "wait"
      <4>1. toOracle = <<epoch>> /\ toClient = <<>>
        BY <1>2, <2>1, <3>2 DEF PipeInv
      <4>2. toOracle' = <<>> /\ pub = epoch /\ pub # Quit
        BY <1>3, <2>1, <4>1 DEF Quit
      <4>3. \/ toClient' = <<>>
            \/ toClient' = <<[ok |-> FALSE, priv |-> -1]>>
            \/ /\ \E m : toClient' = <<[ok |-> TRUE, priv |-> m]>>
               /\ epoch \in ReleasedShares'
        BY <1>3, <2>1, <2>3, <4>1, <4>2 DEF ReleasedShares
      <4>4. Len(toClient') <= 1 /\ (toClient' # <<>> /\ Head(toClient').ok => epoch \in ReleasedShares')
        <5>1. CASE toClient' = <<>>
          BY <5>1
        <5>2. CASE toClient' = <<[ok |-> FALSE, priv |-> -1]>>
          <6>1. Len(toClient') = 1 /\ Head(toClient') = [ok |-> FALSE, priv |-> -1]
            BY <5>2
          <6> QED BY <6>1
        <5>3. CASE epoch \in ReleasedShares' /\ \E m : toClient' = <<[ok |-> TRUE, priv |-> m]>>
          BY <5>3
        <5> QED BY <4>3, <5>1, <5>2, <5>3
      <4> QED BY <2>1, <3>2, <4>2, <4>4 DEF PipeInv
    <3> QED BY <3>1, <3>2
  <2> QED BY <1>1, <2>6, <2>8, <2>9 DEF LadderInv
<1>22. CASE OracleDies
  <2>1. /\ Keep /\ UNCHANGED <<pc, toOracle, toClient, epoch, kex, key>>
        /\ proc' = "exited"
    BY <1>22 DEF OracleDies, decoderVars, pipeVars
  <2>2. PipeInv' /\ EpochInv'
    BY <1>2, <1>4, <2>1 DEF PipeInv, EpochInv
  <2> QED BY <1>5, <2>1, <2>2
<1>23. CASE UNCHANGED vars
  <2>1. Keep /\ UNCHANGED <<pc, proc, toOracle, toClient, epoch, kex, key>>
    BY <1>23 DEF vars, decoderVars, oracleVars, pipeVars
  <2>2. PipeInv' /\ EpochInv'
    BY <1>2, <1>4, <2>1 DEF PipeInv, EpochInv
  <2> QED BY <1>5, <2>1, <2>2
<1> QED BY <1>6, <1>7, <1>8, <1>9, <1>10, <1>11, <1>12, <1>13, <1>14, <1>15, <1>16, <1>17, <1>18,
           <1>19, <1>20, <1>21, <1>22, <1>23 DEF Next, Recover, OracleProcess

\* README: "The decoder obtains a later share only after authenticating and
\* decrypting the preceding transport epoch", for any number of exchanges, any
\* interleaving of the two processes and any oracle fault.
THEOREM ReleaseIsCausal == Spec => []CausalRelease
<1>1. Init => LadderInv
  BY LadderInit
<1>2. LadderInv /\ [Next]_vars => LadderInv'
  BY LadderInvStep
<1>3. LadderInv => CausalRelease
  BY DEF LadderInv
<1> QED BY <1>1, <1>2, <1>3, PTL DEF Spec

\* derive_ssh with its oracle process implements OracleLadder.
THEOREM ImplementsLadder == Spec => LadderSpec
<1>1. Init => LadderInv /\ Ladder!Init
  BY LadderInit
<1>2. LadderInv /\ [Next]_vars => LadderInv' /\ [Ladder!Next]_(Ladder!vars)
  BY LadderInvStep DEF LadderStep, Ladder!vars
<1> QED BY <1>1, <1>2, PTL DEF Spec, LadderSpec, Ladder!Spec
-----------------------------------------------------------------------------
(* The release trace: it names every scalar that left the oracle process,  *)
(* however late its reply was, and no other as released.                   *)

\* The shares that a recorded event asked for.
Asked == {trace[t].pub : t \in DOMAIN trace}

\* Every request in the pipe is in the trace, as is what the oracle has made
\* of the earlier ones; the last event is the one that is waited for.
TraceInv ==
    /\ ReleasedShares \subseteq Asked
    /\ \A i \in DOMAIN toOracle : toOracle[i] = Quit \/ toOracle[i] \in Asked
    /\ \A t \in DOMAIN trace : trace[t].status = "released" => trace[t].pub \in ReleasedShares
    /\ pc = "wait" => trace # <<>> /\ trace[Len(trace)].pub = epoch

\* An answer changes the status of the last event and nothing else.
LEMMA StatusKeepsShares ==
    ASSUME trace \in Seq(Event), trace # <<>>, NEW s, trace' = Status(s)
    PROVE  /\ Asked' = Asked /\ DOMAIN trace' = DOMAIN trace /\ Len(trace) \in DOMAIN trace
           /\ \A t \in DOMAIN trace : trace'[t].pub = trace[t].pub
           /\ \A t \in DOMAIN trace : t # Len(trace) => trace'[t].status = trace[t].status
           /\ trace'[Len(trace)].status = s
<1>1. \A t \in DOMAIN trace : trace[t] \in Event
  BY SeqFacts
<1>2. DOMAIN trace' = DOMAIN trace /\ Len(trace) \in DOMAIN trace
  BY DEF Status
<1>3. trace'[Len(trace)] = [trace[Len(trace)] EXCEPT !.status = s]
  BY <1>2 DEF Status
<1>4. \A t \in DOMAIN trace : t # Len(trace) => trace'[t] = trace[t]
  BY DEF Status
<1>5. trace'[Len(trace)].pub = trace[Len(trace)].pub /\ trace'[Len(trace)].status = s
  BY <1>1, <1>2, <1>3 DEF Event
<1>6. \A t \in DOMAIN trace : trace'[t].pub = trace[t].pub
  BY <1>4, <1>5
<1>7. Asked' = Asked
  BY <1>2, <1>6 DEF Asked
<1> QED BY <1>2, <1>4, <1>5, <1>6, <1>7

\* The invariant is inductive, given the one of the ladder.
LEMMA TraceInvStep == LadderInv /\ TraceInv /\ [Next]_vars => TraceInv'
<1> SUFFICES ASSUME LadderInv, TraceInv, [Next]_vars PROVE TraceInv'
  OBVIOUS
<1>1. TypeOK /\ Quiet /\ PipeInv /\ EpochInv
  BY DEF LadderInv, TypeInv
<1>2. trace \in Seq(Event) /\ toOracle \in Seq(Int) /\ epoch \in Nat
  BY <1>1 DEF TypeOK
<1> DEFINE SameTrace == UNCHANGED <<trace, recoveries, used>>
<1>3. ASSUME SameTrace PROVE UNCHANGED <<Asked, ReleasedShares>>
  BY <1>3 DEF Asked, ReleasedShares
<1>4. ASSUME SameTrace, UNCHANGED toOracle, pc' # "wait" PROVE TraceInv'
  BY <1>3, <1>4 DEF TraceInv
<1>5. CASE Session
  <2>1. SameTrace /\ UNCHANGED <<toOracle, pc>> /\ pc = "capture"
    BY <1>5 DEF Session, oracleVars, pipeVars
  <2> QED BY <1>4, <2>1
<1>6. CASE StopCapture
  <2>1. UNCHANGED <<trace, used, toOracle>> /\ pc' = "load" /\ used = {}
    BY <1>1, <1>6 DEF StopCapture, Quiet, pipeVars
  <2>2. ReleasedShares = {} /\ ReleasedShares' = {} /\ Asked' = Asked
    BY <2>1 DEF ReleasedShares, Asked
  <2> QED BY <2>1, <2>2 DEF TraceInv
<1>7. CASE LoadWire \/ StartOracle \/ AwaitGreeting \/ CheckInputs \/ Derive \/ DecryptEpoch
           \/ CheckMarker \/ CompareTruth \/ JoinOracle
  <2>1. SameTrace /\ UNCHANGED toOracle /\ pc' # "wait"
    BY <1>7 DEF LoadWire, StartOracle, AwaitGreeting, CheckInputs, Derive, DecryptEpoch,
                CheckMarker, CompareTruth, JoinOracle, Fail, oracleVars, pipeVars
  <2> QED BY <1>4, <2>1
<1>8. CASE Ask
  <2> DEFINE event == [epoch |-> epoch, pub |-> kex.Q_C, after |-> auth["c2s"] + auth["s2c"],
                       status |-> "requested"]
  <2>1. /\ trace' = Append(trace, event) /\ UNCHANGED <<recoveries, used, epoch>>
        /\ toOracle = <<>> /\ kex.Q_C = epoch
        /\ toOracle' = toOracle \/ toOracle' = Append(toOracle, kex.Q_C)
    BY <1>1, <1>8 DEF Ask, Fail, RecordRequest, oracleVars, decoderVars, PipeInv, EpochInv
  <2>2. /\ DOMAIN trace' = DOMAIN trace \union {Len(trace) + 1} /\ Len(trace') = Len(trace) + 1
        /\ \A t \in DOMAIN trace : trace'[t] = trace[t]
        /\ trace'[Len(trace) + 1] = event
    BY <1>2, <2>1
  <2>3. Asked' = Asked \union {epoch} /\ ReleasedShares' = ReleasedShares
    BY <2>1, <2>2 DEF Asked, ReleasedShares
  <2>4. \A i \in DOMAIN toOracle' : toOracle'[i] = epoch
    BY <1>2, <2>1
  <2>5. trace' # <<>> /\ trace'[Len(trace')].pub = epoch'
    BY <1>2, <2>1, <2>2
  <2>6. \A t \in DOMAIN trace' : trace'[t].status = "released" => trace'[t].pub \in ReleasedShares'
    BY <2>2, <2>3 DEF TraceInv
  <2> QED BY <2>3, <2>4, <2>5, <2>6 DEF TraceInv
<1>9. CASE TakeReply \/ ReplyTimeout
  <2>1. /\ UNCHANGED <<recoveries, used, toOracle, epoch>> /\ pc = "wait" /\ pc' # "wait"
        /\ \/ trace' = trace
           \/ trace' = Status("rejected") \/ trace' = Status("inconsistent")
           \/ trace' = Status("timeout")
           \/ trace' = Status("released") /\ toClient # <<>> /\ Head(toClient).ok
    BY <1>9 DEF TakeReply, ReplyTimeout, Fail, decoderVars, oracleVars, pipeVars
  <2>2. ReleasedShares' = ReleasedShares
    BY <2>1 DEF ReleasedShares
  <2>3. trace # <<>> /\ trace[Len(trace)].pub = epoch
    BY <2>1 DEF TraceInv
  <2>4. CASE trace' = trace
    BY <1>4, <2>1, <2>4
  <2>5. ASSUME NEW s, trace' = Status(s), s = "released" => epoch \in ReleasedShares
        PROVE  TraceInv'
    <3>1. /\ Asked' = Asked /\ DOMAIN trace' = DOMAIN trace /\ Len(trace) \in DOMAIN trace
          /\ \A t \in DOMAIN trace : trace'[t].pub = trace[t].pub
          /\ \A t \in DOMAIN trace : t # Len(trace) => trace'[t].status = trace[t].status
          /\ trace'[Len(trace)].status = s
      BY <1>2, <2>3, <2>5, StatusKeepsShares
    <3>2. \A t \in DOMAIN trace' : trace'[t].status = "released" => trace'[t].pub \in ReleasedShares'
      BY <2>2, <2>3, <2>5, <3>1 DEF TraceInv
    <3> QED BY <2>1, <2>2, <3>1, <3>2 DEF TraceInv
  <2>6. toClient # <<>> /\ Head(toClient).ok => epoch \in ReleasedShares
    BY <1>1, <2>1 DEF PipeInv
  <2>7. CASE trace' = Status("released") /\ toClient # <<>> /\ Head(toClient).ok
    BY <2>5, <2>6, <2>7
  <2>8. CASE trace' = Status("rejected") \/ trace' = Status("inconsistent") \/ trace' = Status("timeout")
    BY <2>5, <2>8
  <2> QED BY <2>1, <2>4, <2>7, <2>8
<1>10. CASE CloseOracle
  <2>1. /\ SameTrace /\ pc' = "join"
        /\ toOracle' = toOracle \/ toOracle' = Append(toOracle, Quit)
    BY <1>10 DEF CloseOracle, oracleVars
  <2>2. CASE toOracle' = toOracle
    BY <1>3, <2>1, <2>2 DEF TraceInv
  <2>3. CASE toOracle' = Append(toOracle, Quit)
    <3>1. ASSUME NEW i \in DOMAIN toOracle'
          PROVE  toOracle'[i] = Quit \/ (i \in DOMAIN toOracle /\ toOracle'[i] = toOracle[i])
      BY <1>2, <2>3, <3>1
    <3> QED BY <1>3, <2>1, <3>1 DEF TraceInv
  <2> QED BY <2>1, <2>2, <2>3
<1>11. CASE OracleBoot \/ OracleDies
  <2>1. SameTrace /\ UNCHANGED <<toOracle, pc, epoch>>
    BY <1>11 DEF OracleBoot, OracleDies, decoderVars, pipeVars
  <2> QED BY <1>3, <2>1 DEF TraceInv
<1>12. CASE OracleServe
  <2>1. /\ UNCHANGED <<pc, epoch, trace, recoveries>>
        /\ toOracle # <<>> /\ toOracle' = Tail(toOracle)
    BY <1>12 DEF OracleServe, decoderVars
  <2>2. \/ UNCHANGED used
        \/ /\ Head(toOracle) # Quit
           /\ \E i \in DOMAIN recoveries :
                 recoveries[i].pub = Head(toOracle) /\ used' = used \union {i}
    BY <1>12 DEF OracleServe, FirstMatch, Matching, MarkUsed
  <2>3. Head(toOracle) = Quit \/ Head(toOracle) \in Asked
    BY <1>2, <2>1 DEF TraceInv
  <2>4. \A i \in DOMAIN toOracle' : toOracle'[i] = Quit \/ toOracle'[i] \in Asked
    BY <1>2, <2>1 DEF TraceInv
  <2>5. ReleasedShares \subseteq ReleasedShares' /\ ReleasedShares' \subseteq Asked
    BY <2>1, <2>2, <2>3 DEF ReleasedShares, TraceInv
  <2>6. Asked' = Asked
    BY <2>1 DEF Asked
  <2> QED BY <2>1, <2>4, <2>5, <2>6 DEF TraceInv
<1>13. CASE UNCHANGED vars
  <2>1. SameTrace /\ UNCHANGED <<toOracle, pc, epoch>>
    BY <1>13 DEF vars, decoderVars, oracleVars, pipeVars
  <2> QED BY <1>3, <2>1 DEF TraceInv
<1> QED BY <1>5, <1>6, <1>7, <1>8, <1>9, <1>10, <1>11, <1>12, <1>13 DEF Next, Recover, OracleProcess

\* release_trace never under-reports, for any number of epochs and any delay or
\* death of the oracle: a scalar that left the process is in the trace, and
\* what the trace calls released did leave it.
THEOREM TraceIsComplete == Spec => []TraceCoversReleases
<1>1. Init => LadderInv
  BY LadderInit
<1>2. LadderInv /\ [Next]_vars => LadderInv'
  BY LadderInvStep
<1>3. Init => TraceInv
  BY DEF Init, TraceInv, ReleasedShares
<1>4. TraceInv => TraceCoversReleases
  BY DEF TraceInv, TraceCoversReleases, Asked
<1> QED BY <1>1, <1>2, <1>3, <1>4, TraceInvStep, PTL DEF Spec
-----------------------------------------------------------------------------
\* The run goes on, or has ended in success.
Live == \/ pc \in {"start", "boot", "check", "ask", "wait", "derive", "decrypt", "finish", "truth"}
        \/ result = "success"
Ended == pc \in {"finish", "truth"} \/ result = "success"

Packets(t) == counts[t]["c2s"] + counts[t]["s2c"]

\* Event t was recorded for epoch t - 1, after the packets of the epochs before
\* it; the packets authenticated by now are those and the ones of its own epoch,
\* if that one has been read.
EventInv ==
    /\ \A t \in DOMAIN trace :
          /\ trace[t].epoch = t - 1
          /\ t < Len(trace) \/ pc # "wait" => trace[t].status = "released"
          /\ t > 1 => trace[t].after = trace[t - 1].after + Packets(t - 1)
    /\ trace # <<>> =>
          auth["c2s"] + auth["s2c"] =
              trace[Len(trace)].after + IF Len(counts) = Len(trace) THEN Packets(Len(trace)) ELSE 0

\* A NEWKEYS under the keys of exchange k starts those of exchange k + 1.
SwitchInv == \A d \in Dir : \A i \in DOMAIN sent[d] :
                sent[d][i].type = "NEWKEYS" => keyNo[d] > sent[d][i].key

RunInv ==
    /\ result = "success" => pc \in {"close", "join", "done"}
    /\ pc \in {"start", "boot", "check", "ask"} => Len(trace) = epoch
    /\ pc \in {"wait", "derive", "decrypt"} => Len(trace) = epoch + 1
    /\ Ended => /\ Len(trace) = epoch + 1 /\ Len(counts) = epoch + 1
                /\ \A d \in Dir : pos[d] = cut[d] /\ ~torn[d]
    /\ Live => EventInv /\ \A d \in Dir : keyNo[d] >= epoch

CompleteInv == SwitchInv /\ RunInv

\* A packet put on the wire keeps SwitchInv.
LEMMA SwitchPut ==
    ASSUME SessionTypeOK, SwitchInv, NEW d \in Dir, NEW type \in MsgType, NEW n \in Int,
           NEW body \in {Marker, Noise}, Put(d, type, n, body),
           IF type = "NEWKEYS" THEN keyNo' = [keyNo EXCEPT ![d] = @ + 1] ELSE UNCHANGED keyNo
    PROVE  SwitchInv'
<1> DEFINE p == Packet(d, type, n, body)
<1>1. /\ sent \in [Dir -> Seq(PacketType)] /\ keyNo \in [Dir -> Int]
      /\ sent' = [sent EXCEPT ![d] = Append(sent[d], p)]
  BY DEF Put, SessionTypeOK, PacketType
<1>2. p \in PacketType /\ p.type = type /\ p.key = keyNo[d]
  BY DEF Packet, PacketType, SessionTypeOK
<1> HIDE DEF p
<1>3. ASSUME NEW e \in Dir, NEW i \in DOMAIN sent'[e], sent'[e][i].type = "NEWKEYS"
      PROVE  keyNo'[e] > sent'[e][i].key
  <2>1. keyNo'[e] \in Int /\ keyNo[e] \in Int /\ keyNo'[e] >= keyNo[e]
    BY <1>1
  <2>2. ASSUME NEW j \in DOMAIN sent[e], sent[e][j].type = "NEWKEYS"
        PROVE  keyNo'[e] > sent[e][j].key
    <3>1. keyNo[e] > sent[e][j].key
      BY <2>2 DEF SwitchInv
    <3>2. sent[e][j] \in PacketType
      BY <1>1
    <3>3. sent[e][j].key \in Int
      BY <3>2 DEF PacketType
    <3> QED BY <2>1, <3>1, <3>3
  <2>3. CASE e # d
    <3>1. sent'[e] = sent[e]
      BY <1>1, <2>3
    <3> QED BY <1>3, <2>2, <3>1
  <2>4. CASE e = d
    <3>1. sent'[e] = Append(sent[e], p) /\ sent[e] \in Seq(PacketType)
      BY <1>1, <2>4
    <3>2. \/ i \in DOMAIN sent[e] /\ sent'[e][i] = sent[e][i]
          \/ sent'[e][i] = p
      BY <1>2, <3>1
    <3>3. CASE sent'[e][i] = p
      BY <1>1, <1>2, <1>3, <2>1, <2>4, <3>3
    <3> QED BY <1>3, <2>2, <3>2, <3>3
  <2> QED BY <2>3, <2>4
<1> QED BY <1>3 DEF SwitchInv

\* Every step keeps SwitchInv.
LEMMA SwitchStep == TypeInv /\ SwitchInv /\ [Next]_vars => SwitchInv'
<1> SUFFICES ASSUME TypeInv, SwitchInv, [Next]_vars PROVE SwitchInv'
  OBVIOUS
<1>1. SessionTypeOK
  BY DEF TypeInv, TypeOK
<1>2. CASE UNCHANGED sessionVars
  BY <1>2 DEF SwitchInv, sessionVars
<1>3. CASE SessionStep
  <2>1. ASSUME NEW d \in Dir, NEW type \in MsgType \ {"NEWKEYS"}, NEW n \in Int, NEW body \in {Marker, Noise},
               Put(d, type, n, body), UNCHANGED keyNo
        PROVE  SwitchInv'
    BY <1>1, <2>1, SwitchPut
  <2>2. ASSUME NEW d \in Dir PROVE keyNo[d] + 1 \in Int
    BY <1>1 DEF SessionTypeOK
  <2>3. /\ {"KEXINIT", "OTHER", "ECDH_INIT", "ECDH_REPLY", "CHANNEL_DATA"} \subseteq MsgType \ {"NEWKEYS"}
        /\ "NEWKEYS" \in MsgType /\ -1 \in Int /\ "c2s" \in Dir /\ "s2c" \in Dir /\ Noise \in {Marker, Noise}
    BY DEF MsgType, Dir
  <2>4. ASSUME NEW d \in Dir, SendKexInit(d) PROVE SwitchInv'
    BY <2>1, <2>2, <2>3, <2>4 DEF SendKexInit
  <2>5. ASSUME NEW d \in Dir, SendOther(d) PROVE SwitchInv'
    BY <2>1, <2>3, <2>5 DEF SendOther
  <2>6. CASE SendEcdhInit
    BY <2>1, <2>2, <2>3, <2>6 DEF SendEcdhInit
  <2>7. CASE SendEcdhReply
    BY <2>1, <2>2, <2>3, <2>7 DEF SendEcdhReply
  <2>8. CASE SendData
    BY <2>1, <2>3, <2>8 DEF SendData
  <2>9. ASSUME NEW d \in Dir, SendNewKeys(d) PROVE SwitchInv'
    <3>1. /\ Put(d, "NEWKEYS", keyNo[d] + 1, Noise)
          /\ keyNo' = [keyNo EXCEPT ![d] = keyNo[d] + 1]
      BY <2>9 DEF SendNewKeys
    <3> QED BY <1>1, <2>2, <2>3, <3>1, SwitchPut
  <2> QED BY <1>3, <2>4, <2>5, <2>6, <2>7, <2>8, <2>9 DEF SessionStep
<1>4. SessionStep \/ UNCHANGED sessionVars
  BY DEF Next, Session, StopCapture, Recover, LoadWire, StartOracle, AwaitGreeting, CheckInputs,
         Ask, TakeReply, ReplyTimeout, Derive, DecryptEpoch, CheckMarker, CompareTruth,
         CloseOracle, JoinOracle, OracleProcess, OracleBoot, OracleServe, OracleDies, vars
<1> QED BY <1>2, <1>3, <1>4

\* The keys of the epoch being read are those of exchange epoch: a packet that
\* opens was sealed with them.
LEMMA SealedNow ==
    ASSUME LadderInv, pc = "decrypt", NEW d, NEW i, Opens(d, i)
    PROVE  sent[d][i].key = epoch
<1> DEFINE k == sent[d][i].key
<1>1. EndpointKey(k) = key
  BY DEF Opens
<1>2. PICK x : key.H = <<kex, x>>
  BY DEF LadderInv, EpochInv
<1>3. EndpointKey(k).H = <<Transcript(k), endpoint_mpint(secrets[k + 1])>>
  BY DEF EndpointKey, EndpointH
<1>4. Transcript(k) = kex
  BY <1>1, <1>2, <1>3
<1>5. Transcript(k).Q_C = k
  BY DEF Transcript
<1>6. kex.Q_C = epoch
  BY DEF LadderInv, EpochInv
<1> QED BY <1>4, <1>5, <1>6

\* An answer changes nothing but the status of the last event.
LEMMA StatusKeepsEvents ==
    ASSUME trace \in Seq(Event), trace # <<>>, NEW s, trace' = Status(s)
    PROVE  /\ Len(trace') = Len(trace) /\ DOMAIN trace' = DOMAIN trace
           /\ \A t \in DOMAIN trace : trace'[t].epoch = trace[t].epoch /\ trace'[t].after = trace[t].after
           /\ \A t \in DOMAIN trace : t # Len(trace) => trace'[t].status = trace[t].status
           /\ trace'[Len(trace)].status = s
<1>1. \A t \in DOMAIN trace : trace[t] \in Event
  BY SeqFacts
<1>2. DOMAIN trace' = DOMAIN trace /\ Len(trace) \in DOMAIN trace /\ Len(trace') = Len(trace)
  BY DEF Status
<1>3. trace'[Len(trace)] = [trace[Len(trace)] EXCEPT !.status = s]
  BY <1>2 DEF Status
<1>4. \A t \in DOMAIN trace : t # Len(trace) => trace'[t] = trace[t]
  BY DEF Status
<1>5. /\ trace'[Len(trace)].epoch = trace[Len(trace)].epoch
      /\ trace'[Len(trace)].after = trace[Len(trace)].after
      /\ trace'[Len(trace)].status = s
  BY <1>1, <1>2, <1>3 DEF Event
<1> QED BY <1>2, <1>4, <1>5

\* The request for an epoch records how many packets have been authenticated.
LEMMA AskEvents ==
    ASSUME LadderInv, RunInv, Ask, pc' = "wait"
    PROVE  RunInv'
<1> DEFINE event == [epoch |-> epoch, pub |-> kex.Q_C, after |-> auth["c2s"] + auth["s2c"],
                     status |-> "requested"]
           n == Len(trace)
<1>1. /\ trace' = Append(trace, event) /\ pc = "ask"
      /\ UNCHANGED <<counts, auth, epoch, keyNo, result>>
  BY DEF Ask, RecordRequest, decoderVars, sessionVars, Fail
<1>2. /\ trace \in Seq(Event) /\ epoch \in Nat /\ n = epoch /\ Len(counts) = epoch
      /\ EventInv /\ (\A d \in Dir : keyNo[d] >= epoch) /\ result # "success"
  BY <1>1 DEF LadderInv, TypeInv, TypeOK, EpochInv, RunInv, Live
<1>3. /\ Len(trace') = n + 1 /\ DOMAIN trace' = 1..(n + 1) /\ DOMAIN trace = 1..n /\ n \in Nat
      /\ trace'[n + 1] = event /\ \A t \in 1..n : trace'[t] = trace[t]
  BY <1>1, <1>2
<1>4. EventInv'
  <2>1. ASSUME NEW t \in DOMAIN trace'
        PROVE  /\ trace'[t].epoch = t - 1
               /\ t < Len(trace') \/ pc' # "wait" => trace'[t].status = "released"
               /\ t > 1 => trace'[t].after = trace'[t - 1].after + Packets(t - 1)'
    <3>1. Packets(t - 1)' = Packets(t - 1)
      BY <1>1 DEF Packets
    <3>2. CASE t \in 1..n
      <4>1. t > 1 => t - 1 \in 1..n
        BY <1>3, <3>2
      <4> QED BY <1>1, <1>2, <1>3, <3>1, <3>2, <4>1 DEF EventInv
    <3>3. CASE t = n + 1
      <4>1. t > 1 => n \in 1..n /\ trace # <<>>
        BY <1>2, <1>3, <3>3
      <4>2. t > 1 => auth["c2s"] + auth["s2c"] = trace[n].after + Packets(n)
        BY <1>2, <1>3, <4>1 DEF EventInv
      <4>3. t - 1 = n
        BY <1>3, <3>3
      <4> QED BY <1>2, <1>3, <3>1, <3>3, <4>1, <4>2, <4>3
    <3> QED BY <1>3, <2>1, <3>2, <3>3
  <2>2. auth'["c2s"] + auth'["s2c"] =
          trace'[Len(trace')].after + IF Len(counts') = Len(trace') THEN Packets(Len(trace))' ELSE 0
    <3>1. Len(counts') # Len(trace') /\ trace'[Len(trace')].after = auth["c2s"] + auth["s2c"]
      BY <1>1, <1>2, <1>3
    <3>2. auth["c2s"] + auth["s2c"] \in Int
      <4>1. auth \in [Dir -> Nat] /\ "c2s" \in Dir /\ "s2c" \in Dir
        BY DEF LadderInv, TypeInv, TypeOK, Dir
      <4> QED BY <4>1
    <3> QED BY <1>1, <3>1, <3>2
  <2> QED BY <2>1, <2>2 DEF EventInv
<1> QED BY <1>1, <1>2, <1>3, <1>4 DEF RunInv, Live, Ended

\* Reading an epoch adds its packets to those authenticated.
LEMMA DecryptEvents ==
    ASSUME LadderInv, SwitchInv, RunInv, DecryptEpoch, pc' \in {"finish", "ask"}
    PROVE  RunInv'
<1> DEFINE end == [d \in Dir |-> EpochEnd(d)]
           count == [d \in Dir |-> end[d] - pos[d]]
           n == Len(trace)
<1>1. /\ pc = "decrypt" /\ UNCHANGED <<trace, keyNo, cut, torn, result>>
      /\ \A d \in Dir : ~Undecryptable(d)
      /\ auth' = [d \in Dir |-> auth[d] + count[d]]
      /\ counts' = Append(counts, count) /\ pos' = end
      /\ \/ /\ pc' = "finish" /\ epoch' = epoch
            /\ \A d \in Dir : ~ReachesNewKeys(d)
         \/ /\ pc' = "ask" /\ epoch' = epoch + 1
            /\ \A d \in Dir : ReachesNewKeys(d)
  BY DEF DecryptEpoch, sessionVars, archiveVars, Fail
<1>2. /\ TypeOK /\ trace \in Seq(Event) /\ epoch \in Nat /\ n = epoch + 1 /\ Len(counts) = epoch
      /\ counts \in Seq([Dir -> Nat]) /\ auth \in [Dir -> Nat] /\ keyNo \in [Dir -> Int]
      /\ EventInv /\ (\A d \in Dir : keyNo[d] >= epoch) /\ result # "success"
      /\ \A d \in Dir : pos[d] \in Nat /\ cut[d] \in Nat
  BY <1>1 DEF LadderInv, TypeInv, TypeOK, SessionTypeOK, EpochInv, RunInv, Live
<1>3. count \in [Dir -> Nat]
  <2>1. \A d \in Dir : EpochEnd(d) \in Nat /\ pos[d] <= EpochEnd(d)
    BY <1>2, EpochEndRange
  <2> QED BY <1>2, <2>1
<1> HIDE DEF count
<1>4. /\ Len(counts') = epoch + 1 /\ counts'[epoch + 1] = count
      /\ \A t \in 1..epoch : counts'[t] = counts[t]
  BY <1>1, <1>2, <1>3
<1>5. DOMAIN trace = 1..(epoch + 1) /\ Len(trace) = epoch + 1 /\ trace # <<>>
  BY <1>2
<1>6. EventInv'
  <2>1. ASSUME NEW t \in DOMAIN trace'
        PROVE  /\ trace'[t].epoch = t - 1
               /\ t < Len(trace') \/ pc' # "wait" => trace'[t].status = "released"
               /\ t > 1 => trace'[t].after = trace'[t - 1].after + Packets(t - 1)'
    <3>1. t > 1 => Packets(t - 1)' = Packets(t - 1)
      <4>1. t > 1 => t - 1 \in 1..epoch
        BY <1>1, <1>2, <1>5
      <4> QED BY <1>4, <4>1 DEF Packets
    <3> QED BY <1>1, <1>2, <3>1 DEF EventInv
  <2>2. auth'["c2s"] + auth'["s2c"] =
          trace'[Len(trace')].after + IF Len(counts') = Len(trace') THEN Packets(Len(trace))' ELSE 0
    <3>1. auth["c2s"] + auth["s2c"] = trace[n].after
      <4>1. auth["c2s"] + auth["s2c"] = trace[n].after + 0
        BY <1>2, <1>5 DEF EventInv
      <4>2. trace[n] \in Event
        BY <1>2, <1>5
      <4>3. trace[n].after \in Nat
        BY <4>2 DEF Event
      <4> QED BY <4>1, <4>3
    <3>2. Packets(Len(trace))' = count["c2s"] + count["s2c"]
      BY <1>1, <1>2, <1>4 DEF Packets
    <3>3. auth'["c2s"] = auth["c2s"] + count["c2s"] /\ auth'["s2c"] = auth["s2c"] + count["s2c"]
      BY <1>1 DEF Dir
    <3>4. /\ auth["c2s"] \in Nat /\ auth["s2c"] \in Nat /\ count["c2s"] \in Nat /\ count["s2c"] \in Nat
      BY <1>2, <1>3 DEF Dir
    <3>5. Len(counts') = Len(trace') /\ Len(trace') = n /\ trace'[n] = trace[n]
      BY <1>1, <1>2, <1>4
    <3> QED BY <3>1, <3>2, <3>3, <3>4, <3>5
  <2> QED BY <2>1, <2>2 DEF EventInv
<1>7. CASE pc' = "finish"
  <2>1. epoch' = epoch /\ \A d \in Dir : ~ReachesNewKeys(d)
    BY <1>1, <1>7
  <2>2. \A d \in Dir : pos'[d] = cut'[d] /\ ~torn'[d]
    BY <1>1, <2>1 DEF EpochEnd, Undecryptable
  <2> QED BY <1>1, <1>2, <1>4, <1>6, <1>7, <2>1, <2>2 DEF RunInv, Live, Ended
<1>8. CASE pc' = "ask"
  <2>1. epoch' = epoch + 1 /\ \A d \in Dir : ReachesNewKeys(d)
    BY <1>1, <1>8
  <2>2. ASSUME NEW d \in Dir PROVE keyNo[d] >= epoch + 1
    <3>1. PICK i \in Boundary(d) : TRUE
      BY <2>1 DEF ReachesNewKeys
    <3>2. /\ i \in (pos[d] + 1)..cut[d] /\ Opens(d, i) /\ sent[d][i].type = "NEWKEYS"
      BY <1>2, <3>1 DEF Boundary, Opened
    <3>3. sent[d][i].key = epoch
      BY <1>1, <3>2, SealedNow
    <3>4. i \in DOMAIN sent[d]
      <4>1. sent[d] \in Seq(PacketType) /\ cut[d] <= Len(sent[d]) /\ pos[d] \in Nat /\ cut[d] \in Nat
        BY <1>2 DEF TypeOK, SessionTypeOK, PacketType
      <4> QED BY <3>2, <4>1
    <3>5. keyNo[d] > epoch
      BY <3>2, <3>3, <3>4 DEF SwitchInv
    <3> QED BY <1>2, <3>5
  <2> QED BY <1>1, <1>2, <1>6, <1>8, <2>1, <2>2 DEF RunInv, Live, Ended
<1> QED BY <1>7, <1>8

\* The wire has been read: both directions have sent their first NEWKEYS.
LEMMA LoadEvents ==
    ASSUME LadderInv, SwitchInv, RunInv, LoadWire, pc' = "start"
    PROVE  RunInv'
<1>1. /\ pc = "load" /\ UNCHANGED <<trace, counts, epoch, keyNo, result>>
      /\ \A d \in Dir : PlainEnd(d) # {}
  BY DEF LoadWire, Fail, sessionVars
<1>2. /\ trace = <<>> /\ epoch = 0 /\ result # "success" /\ TypeOK /\ StreamInv
  BY <1>1 DEF LadderInv, TypeInv, Quiet, RunInv
<1>3. ASSUME NEW d \in Dir PROVE keyNo[d] >= 0
  <2>1. PICK i \in PlainEnd(d) : TRUE
    BY <1>1
  <2>2. i \in 1..cut[d] /\ sent[d][i].type = "NEWKEYS"
    BY <2>1 DEF PlainEnd
  <2>3. sent[d] \in Seq(PacketType) /\ cut[d] <= Len(sent[d]) /\ cut[d] \in Nat /\ keyNo[d] \in Int
    BY <1>2 DEF TypeOK, SessionTypeOK, PacketType
  <2>4. i \in DOMAIN sent[d] /\ sent[d][i] \in PacketType
    BY <2>2, <2>3
  <2>5. keyNo[d] > sent[d][i].key
    BY <2>2, <2>4 DEF SwitchInv
  <2>6. sent[d][i].key >= -1 /\ sent[d][i].key \in Int
    BY <1>2, <2>4 DEF StreamInv, PacketType
  <2> QED BY <2>3, <2>5, <2>6
<1>4. DOMAIN trace' = {} /\ Len(trace') = 0 /\ trace' = <<>>
  BY <1>1, <1>2
<1>5. EventInv'
  BY <1>4 DEF EventInv
<1> QED BY <1>1, <1>2, <1>3, <1>4, <1>5 DEF RunInv, Live, Ended

\* The last event is released when its scalar is taken.
LEMMA ReplyEvents ==
    ASSUME LadderInv, RunInv, TakeReply, pc' = "derive"
    PROVE  RunInv'
<1>1. /\ pc = "wait" /\ UNCHANGED <<counts, auth, epoch, keyNo, result>> /\ trace' = Status("released")
  BY DEF TakeReply, Fail, sessionVars
<1>2. /\ trace \in Seq(Event) /\ epoch \in Nat /\ Len(trace) = epoch + 1 /\ EventInv
      /\ (\A d \in Dir : keyNo[d] >= epoch) /\ result # "success"
  BY <1>1 DEF LadderInv, TypeInv, TypeOK, RunInv, Live
<1>3. trace # <<>> /\ DOMAIN trace = 1..Len(trace) /\ Len(trace) \in DOMAIN trace
  BY <1>2
<1>4. /\ Len(trace') = Len(trace) /\ DOMAIN trace' = DOMAIN trace
      /\ \A t \in DOMAIN trace : trace'[t].epoch = trace[t].epoch /\ trace'[t].after = trace[t].after
      /\ \A t \in DOMAIN trace : t # Len(trace) => trace'[t].status = trace[t].status
      /\ trace'[Len(trace)].status = "released"
  BY <1>1, <1>2, <1>3, StatusKeepsEvents
<1>5. \A t : Packets(t)' = Packets(t)
  BY <1>1 DEF Packets
<1>6. ASSUME NEW t \in DOMAIN trace'
      PROVE  /\ trace'[t].epoch = t - 1 /\ trace'[t].status = "released"
             /\ t > 1 => trace'[t].after = trace'[t - 1].after + Packets(t - 1)'
  <2>1. t \in DOMAIN trace /\ t \in 1..Len(trace) /\ Len(trace) \in Nat
    BY <1>2, <1>3, <1>4
  <2>2. t = Len(trace) \/ t < Len(trace)
    BY <2>1
  <2>3. trace'[t].status = "released"
    BY <1>2, <1>4, <2>1, <2>2 DEF EventInv
  <2>4. t > 1 => t - 1 \in DOMAIN trace
    BY <1>3, <2>1
  <2> QED BY <1>2, <1>4, <1>5, <2>1, <2>3, <2>4 DEF EventInv
<1>7. auth'["c2s"] + auth'["s2c"] =
          trace'[Len(trace')].after + IF Len(counts') = Len(trace') THEN Packets(Len(trace))' ELSE 0
  BY <1>1, <1>2, <1>3, <1>4, <1>5 DEF EventInv
<1>8. EventInv'
  BY <1>6, <1>7 DEF EventInv
<1> QED BY <1>1, <1>2, <1>4, <1>8 DEF RunInv, Live, Ended

\* Every step keeps RunInv, one case per action.
LEMMA RunStep == LadderInv /\ SwitchInv /\ RunInv /\ [Next]_vars => RunInv'
<1> SUFFICES ASSUME LadderInv, SwitchInv, RunInv, [Next]_vars PROVE RunInv'
  OBVIOUS
<1> DEFINE Stays == UNCHANGED <<trace, counts, auth, epoch, pos, cut, torn, keyNo>>
<1>1. ASSUME pc' \notin {"start", "boot", "check", "ask", "wait", "derive", "decrypt", "finish", "truth"},
             result' # "success"
      PROVE  RunInv'
  BY <1>1 DEF RunInv, Live, Ended
<1>2. ASSUME Stays, UNCHANGED <<pc, result>> PROVE RunInv'
  BY <1>2 DEF RunInv, Live, Ended, EventInv, Packets
<1>3. ASSUME Stays, UNCHANGED result, pc # "wait", pc' # "wait",
             \/ pc \in {"start", "boot", "check"} /\ pc' \in {"boot", "check", "ask"}
             \/ pc = "derive" /\ pc' = "decrypt"
             \/ pc = "finish" /\ pc' = "truth"
             \/ pc \in {"close", "join"} /\ pc' \in {"join", "done"}
      PROVE  RunInv'
  <2>1. UNCHANGED EventInv
    BY <1>3 DEF EventInv, Packets
  <2> QED BY <1>3, <2>1 DEF RunInv, Live, Ended
<1>4. pc \in {"capture", "load", "start", "boot", "check", "ask", "wait", "derive", "decrypt",
              "finish", "truth"} => result # "success"
  BY DEF RunInv
<1>5. CASE Session
  BY <1>1, <1>4, <1>5 DEF Session
<1>6. CASE StopCapture
  BY <1>1, <1>4, <1>6 DEF StopCapture
<1>7. CASE LoadWire
  <2>1. pc' = "start" \/ (pc' \in {"done", "close"} /\ result' # "success")
    BY <1>7 DEF LoadWire, Fail
  <2> QED BY <1>1, <1>7, <2>1, LoadEvents
<1>8. CASE StartOracle \/ AwaitGreeting \/ CheckInputs
  <2>1. \/ pc' \in {"done", "close"} /\ result' # "success"
        \/ /\ Stays /\ UNCHANGED result
           /\ pc \in {"start", "boot", "check"} /\ pc' \in {"boot", "check", "ask"}
    BY <1>8 DEF StartOracle, AwaitGreeting, CheckInputs, Fail, sessionVars, archiveVars, decoderVars
  <2> QED BY <1>1, <1>3, <2>1
<1>9. CASE Ask
  <2>1. pc' = "wait" \/ (pc' \in {"done", "close"} /\ result' # "success")
    BY <1>9 DEF Ask, Fail
  <2> QED BY <1>1, <1>9, <2>1, AskEvents
<1>10. CASE TakeReply
  <2>1. pc' = "derive" \/ (pc' \in {"done", "close"} /\ result' # "success")
    BY <1>10 DEF TakeReply, Fail
  <2> QED BY <1>1, <1>10, <2>1, ReplyEvents
<1>11. CASE ReplyTimeout
  BY <1>1, <1>11 DEF ReplyTimeout, Fail
<1>12. CASE Derive
  <2>1. \/ pc' \in {"done", "close"} /\ result' # "success"
        \/ Stays /\ UNCHANGED result /\ pc = "derive" /\ pc' = "decrypt"
    BY <1>12 DEF Derive, Fail, sessionVars, archiveVars
  <2> QED BY <1>1, <1>3, <2>1
<1>13. CASE DecryptEpoch
  <2>1. pc' \in {"finish", "ask"} \/ (pc' \in {"done", "close"} /\ result' # "success")
    BY <1>13 DEF DecryptEpoch, Fail
  <2> QED BY <1>1, <1>13, <2>1, DecryptEvents
<1>14. CASE CheckMarker
  <2>1. \/ pc' \in {"done", "close"} /\ result' # "success"
        \/ Stays /\ UNCHANGED result /\ pc = "finish" /\ pc' = "truth"
    BY <1>14 DEF CheckMarker, Fail, sessionVars, archiveVars, decoderVars
  <2> QED BY <1>1, <1>3, <2>1
<1>15. CASE CompareTruth
  <2>1. \/ pc' \in {"done", "close"} /\ result' # "success"
        \/ Stays /\ result' = "success" /\ pc = "truth" /\ pc' = "close"
    BY <1>15 DEF CompareTruth, Fail, sessionVars, archiveVars, decoderVars
  <2>2. CASE Stays /\ result' = "success" /\ pc = "truth" /\ pc' = "close"
    <3>1. UNCHANGED EventInv
      BY <2>2 DEF EventInv, Packets
    <3> QED BY <2>2, <3>1 DEF RunInv, Live, Ended
  <2> QED BY <1>1, <2>1, <2>2
<1>16. CASE CloseOracle \/ JoinOracle
  <2>1. Stays /\ UNCHANGED result /\ pc \in {"close", "join"} /\ pc' \in {"join", "done"}
    BY <1>16 DEF CloseOracle, JoinOracle, sessionVars, archiveVars, decoderVars
  <2> QED BY <1>3, <2>1
<1>17. CASE OracleProcess \/ UNCHANGED vars
  <2>1. Stays /\ UNCHANGED <<pc, result>>
    BY <1>17 DEF OracleProcess, OracleBoot, OracleServe, OracleDies, vars, sessionVars, archiveVars, decoderVars
  <2> QED BY <1>2, <2>1
<1> QED BY <1>5, <1>6, <1>7, <1>8, <1>9, <1>10, <1>11, <1>12, <1>13, <1>14, <1>15, <1>16, <1>17
        DEF Next, Recover

\* derive_ssh reports success only for an archive that it has read to the end,
\* in epochs that match the release trace packet for packet, whatever the
\* oracle process did and however many exchanges there were.
THEOREM SuccessReadsAll == Spec => []SuccessIsComplete
<1>1. Init => LadderInv /\ CompleteInv
  <2> SUFFICES ASSUME Init PROVE LadderInv /\ CompleteInv
    OBVIOUS
  <2>1. LadderInv
    BY LadderInit
  <2>2. pc = "capture" /\ result = "none" /\ \A d \in Dir : sent[d] = <<>>
    BY DEF Init, SessionInit
  <2>3. RunInv
    BY <2>2 DEF RunInv, Live, Ended
  <2>4. SwitchInv
    BY <2>2 DEF SwitchInv
  <2> QED BY <2>1, <2>3, <2>4 DEF CompleteInv
<1>2. LadderInv /\ CompleteInv /\ [Next]_vars => (LadderInv /\ CompleteInv)'
  <2>1. LadderInv => TypeInv
    BY DEF LadderInv
  <2> QED BY <2>1, LadderInvStep, SwitchStep, RunStep DEF CompleteInv
<1>3. LadderInv /\ CompleteInv => SuccessIsComplete
  <2> SUFFICES ASSUME LadderInv, RunInv, result = "success"
               PROVE  /\ \A d \in Dir : pos[d] = cut[d] /\ ~torn[d]
                      /\ keyNo["c2s"] >= epoch /\ keyNo["s2c"] >= epoch
                      /\ Len(counts) = Len(trace) /\ Len(trace) = epoch + 1
                      /\ \A t \in DOMAIN trace :
                            /\ trace[t].status = "released" /\ trace[t].epoch = t - 1
                            /\ t > 1 => trace[t].after = trace[t - 1].after
                                                         + counts[t - 1]["c2s"] + counts[t - 1]["s2c"]
    BY DEF CompleteInv, SuccessIsComplete
  <2>1. /\ Ended /\ Live /\ pc # "wait" /\ TypeOK
    BY DEF RunInv, Ended, Live, LadderInv, TypeInv
  <2>2. /\ \A d \in Dir : pos[d] = cut[d] /\ ~torn[d] /\ keyNo[d] >= epoch
        /\ Len(counts) = epoch + 1 /\ Len(trace) = epoch + 1 /\ EventInv
    BY <2>1 DEF RunInv
  <2>3. ASSUME NEW t \in DOMAIN trace
        PROVE  /\ trace[t].status = "released" /\ trace[t].epoch = t - 1
               /\ t > 1 => trace[t].after = trace[t - 1].after
                                            + counts[t - 1]["c2s"] + counts[t - 1]["s2c"]
    <3>1. /\ trace[t].status = "released" /\ trace[t].epoch = t - 1
          /\ t > 1 => trace[t].after = trace[t - 1].after + Packets(t - 1)
      BY <2>1, <2>2 DEF EventInv
    <3>2. ASSUME t > 1
          PROVE  trace[t - 1].after + Packets(t - 1)
                   = trace[t - 1].after + counts[t - 1]["c2s"] + counts[t - 1]["s2c"]
      <4>1. t - 1 \in DOMAIN trace /\ t - 1 \in DOMAIN counts
        <5>1. trace \in Seq(Event) /\ counts \in Seq([Dir -> Nat]) /\ epoch \in Nat
          BY <2>1 DEF TypeOK
        <5> QED BY <2>2, <3>2, <5>1
      <4>2. trace[t - 1] \in Event /\ counts[t - 1] \in [Dir -> Nat]
        BY <2>1, <4>1, SeqFacts DEF TypeOK
      <4>3. trace[t - 1].after \in Nat /\ counts[t - 1]["c2s"] \in Nat /\ counts[t - 1]["s2c"] \in Nat
        BY <4>2 DEF Event, Dir
      <4> QED BY <4>3 DEF Packets
    <3> QED BY <3>1, <3>2
  <2> QED BY <2>2, <2>3 DEF Dir
<1> QED BY <1>1, <1>2, <1>3, PTL DEF Spec
-----------------------------------------------------------------------------
(* The channel data.                                                       *)

\* h[k] is the channel data of the first k packets.
DataChain(s, h) ==
    /\ h \in [0..Len(s) -> Seq({Marker, Noise})] /\ h[0] = <<>>
    /\ \A k \in 1..Len(s) :
          h[k] = IF s[k].type = "CHANNEL_DATA" THEN Append(h[k - 1], s[k].body) ELSE h[k - 1]

\* The fold of channel_data is the end of a chain of partial results.
LEMMA DataIs ==
    ASSUME NEW s \in Seq(PacketType)
    PROVE  \E h : DataChain(s, h) /\ h[Len(s)] = ChannelData(s)
<1> DEFINE T == Seq({Marker, Noise})
           n == Len(s)
           r == ChannelData(s)
           Step(data, p) == IF p.type = "CHANNEL_DATA" THEN Append(data, p.body) ELSE data
           G == [c \in (1..n) \X T |-> Step(c[2], s[c[1]])]
           Eq(iter) == iter = [q \in SUBSET DOMAIN s |->
                         IF q = {} THEN <<>> ELSE Step(iter[q \ {Max(q)}], s[Max(q)])]
           iter == CHOOSE iter : Eq(iter)
<1>1. n \in Nat /\ DOMAIN s = 1..n /\ <<>> \in T /\ \A k \in 1..n : s[k] \in PacketType
  OBVIOUS
<1>2. \A k \in 1..n, t \in T : Step(t, s[k]) \in T
  <2>1. \A k \in 1..n : s[k].body \in {Marker, Noise}
    BY <1>1 DEF PacketType
  <2> QED BY <2>1
<1>3. G \in [(1..n) \X T -> T] /\ \A k \in 1..n, t \in T : G[<<k, t>>] = Step(t, s[k])
  <2> HIDE DEF Step, T, n
  <2> QED BY <1>2
<1>4. r = iter[1..n]
  BY <1>1 DEF ChannelData, FoldLeft, MapThenFoldSet
<1> HIDE DEF G, T, n, r, Step
<1>5. PICK F \in [SUBSET (1..n) -> T] : FoldOf(n, <<>>, G, F)
  BY <1>1, <1>3, FoldExists
<1>6. Eq(F)
  <2>1. ASSUME NEW q \in SUBSET (1..n), q # {}
        PROVE  G[<<Max(q), F[q \ {Max(q)}]>>] = Step(F[q \ {Max(q)}], s[Max(q)])
    BY <2>1, MaxIsIn, <1>1, <1>3
  <2> QED BY <2>1, <1>1, <1>5 DEF FoldOf
<1>7. Eq(iter)
  BY <1>6, Zenon
<1> HIDE DEF iter
<1>8. iter[{}] = <<>>
  BY <1>7
<1>9. ASSUME NEW q \in SUBSET (1..n), q # {}, iter[q \ {Max(q)}] \in T
      PROVE  iter[q] = G[<<Max(q), iter[q \ {Max(q)}]>>]
  BY <1>1, <1>3, <1>7, <1>9, MaxIsIn
<1>10. FoldSteps(n, <<>>, T, G, iter)
  BY <1>1, <1>3, <1>8, <1>9 DEF FoldSteps
<1> HIDE DEF Eq
<1>11. PICK h \in [0..n -> T] : ChainOf(n, <<>>, G, h) /\ h[n] = iter[1..n]
  BY <1>10, FoldRun
<1>12. h[0] = <<>> /\ \A k \in 1..n : h[k] = Step(h[k - 1], s[k])
  <2>1. \A k \in 1..n : k - 1 \in 0..n
    BY <1>1
  <2> QED BY <1>3, <1>11, <2>1 DEF ChainOf
<1> QED BY <1>4, <1>11, <1>12 DEF DataChain, T, n, r, Step

\* Appending after concatenating.
LEMMA ReadOn ==
    ASSUME NEW a \in Seq({Marker, Noise}), NEW b \in Seq({Marker, Noise}), NEW x \in {Marker, Noise}
    PROVE  Append(a \o b, x) = a \o Append(b, x)
<1> DEFINE T == {Marker, Noise}
<1>1. a \in Seq(T) /\ b \in Seq(T) /\ x \in T
  OBVIOUS
<1> HIDE DEF T
<1>2. a \o b \in Seq(T) /\ <<x>> \in Seq(T)
  BY <1>1, ConcatProperties
<1>3. Append(a \o b, x) = (a \o b) \o <<x>> /\ Append(b, x) = b \o <<x>>
  BY <1>1, <1>2, AppendIsConcat
<1> QED BY <1>1, <1>2, <1>3, Associates

\* What is read after k packets, from a packet to a later one, follows what
\* was read before.
LEMMA DataOfPart ==
    ASSUME NEW s \in Seq(PacketType), NEW h, DataChain(s, h),
           NEW k \in 0..Len(s), NEW to \in k..Len(s)
    PROVE  h[to] = h[k] \o ChannelData(SubSeq(s, k + 1, to))
<1> DEFINE T == Seq({Marker, Noise})
           p == SubSeq(s, k + 1, to)
           m == to - k
<1>1. m \in Nat /\ k \in Nat /\ to = k + m /\ k + m <= Len(s)
  OBVIOUS
<1>2. p \in Seq(PacketType) /\ Len(p) = m /\ \A i \in 1..m : p[i] = s[k + i]
  <2>1. k + 1 \in Int /\ to \in Int /\ \A i \in (k + 1)..to : s[i] \in PacketType
    OBVIOUS
  <2>2. /\ p \in Seq(PacketType) /\ Len(p) = IF k + 1 <= to THEN to - (k + 1) + 1 ELSE 0
        /\ \A i \in 1..(to - (k + 1) + 1) : p[i] = s[(k + 1) + i - 1]
    BY <2>1, SubSeqProperties
  <2>3. to - (k + 1) + 1 = m /\ \A i \in 1..m : (k + 1) + i - 1 = k + i
    BY <1>1
  <2> QED BY <1>1, <2>2, <2>3
<1> HIDE DEF p, m
<1>3. PICK g : DataChain(p, g) /\ g[m] = ChannelData(p)
  BY <1>2, DataIs
<1>4. /\ \A i \in 0..m : g[i] \in T
      /\ \A i \in 0..Len(s) : h[i] \in T
      /\ g[0] = <<>>
      /\ \A i \in 1..m : g[i] = IF s[k + i].type = "CHANNEL_DATA" THEN Append(g[i - 1], s[k + i].body)
                                ELSE g[i - 1]
      /\ \A i \in 1..Len(s) : h[i] = IF s[i].type = "CHANNEL_DATA" THEN Append(h[i - 1], s[i].body)
                                     ELSE h[i - 1]
  BY <1>2, <1>3 DEF DataChain
<1> DEFINE Good == {i \in 0..m : h[k + i] = h[k] \o g[i]}
<1>5. 0 \in Good
  <2>1. h[k] \in T
    BY <1>4
  <2>2. h[k] \o <<>> = h[k]
    BY <2>1, ConcatEmptySeq
  <2>3. k + 0 = k /\ 0 \in 0..m
    BY <1>1
  <2> QED BY <1>4, <2>2, <2>3
<1>6. ASSUME NEW i \in 1..m, i - 1 \in Good PROVE i \in Good
  <2>1. /\ i \in 0..m /\ i - 1 \in 0..m /\ k + i \in 1..Len(s) /\ (k + i) - 1 = k + (i - 1)
        /\ k \in 0..Len(s)
    BY <1>1
  <2>2. h[k + (i - 1)] = h[k] \o g[i - 1]
    BY <1>6
  <2> DEFINE x == s[k + i].body
             a == h[k]
             b == g[i - 1]
  <2>3. a \in T /\ b \in T
    BY <1>4, <2>1
  <2>4. x \in {Marker, Noise}
    <3>1. s[k + i] \in PacketType
      BY <2>1
    <3> QED BY <3>1 DEF PacketType
  <2>5. h[k + i] = IF s[k + i].type = "CHANNEL_DATA" THEN Append(a \o b, x) ELSE a \o b
    BY <1>4, <2>1, <2>2
  <2>6. g[i] = IF s[k + i].type = "CHANNEL_DATA" THEN Append(b, x) ELSE b
    BY <1>4
  <2> HIDE DEF x, a, b
  <2>7. Append(a \o b, x) = a \o Append(b, x)
    BY <2>3, <2>4, ReadOn
  <2>8. h[k + i] = a \o g[i]
    BY <2>5, <2>6, <2>7
  <2> QED BY <2>1, <2>8 DEF a
<1> HIDE DEF Good
<1>7. m \in Good
  BY <1>1, <1>5, <1>6, ChainInduction
<1> QED BY <1>1, <1>3, <1>7 DEF Good, p

\* What has been read stays at the beginning of what is read later.
LEMMA DataGrows ==
    ASSUME NEW s \in Seq(PacketType), NEW h, DataChain(s, h),
           NEW k \in 0..Len(s), NEW to \in k..Len(s)
    PROVE  Len(h[k]) <= Len(h[to]) /\ \A i \in 1..Len(h[k]) : h[k][i] = h[to][i]
<1> DEFINE T == {Marker, Noise}
           p == SubSeq(s, k + 1, to)
           a == h[k]
           b == ChannelData(p)
<1>1. h[to] = a \o b
  BY DataOfPart
<1>2. p \in Seq(PacketType)
  <2>1. k + 1 \in Int /\ to \in Int /\ \A i \in (k + 1)..to : s[i] \in PacketType
    OBVIOUS
  <2> QED BY <2>1, SubSeqProperties
<1>3. b \in Seq(T)
  <2> HIDE DEF p
  <2>1. PICK g : DataChain(p, g) /\ g[Len(p)] = b
    BY <1>2, DataIs
  <2>2. Len(p) \in 0..Len(p)
    BY <1>2
  <2> QED BY <2>1, <2>2 DEF DataChain
<1>4. a \in Seq(T)
  BY DEF DataChain
<1> HIDE DEF a, b, T
<1>5. Joins(T, a, b, a \o b)
  BY <1>3, <1>4, ConcatIs
<1> QED BY <1>1, <1>3, <1>4, <1>5 DEF Joins, a

\* Packets without channel data leave what has been read as it is.
LEMMA NoData ==
    ASSUME NEW s \in Seq(PacketType), NEW h, DataChain(s, h), NEW n \in 0..Len(s),
           \A i \in 1..n : s[i].type # "CHANNEL_DATA"
    PROVE  h[n] = <<>>
<1> DEFINE Good == {k \in 0..n : h[k] = <<>>}
<1>1. 0 \in Good
  BY DEF DataChain
<1>2. ASSUME NEW k \in 1..n, k - 1 \in Good PROVE k \in Good
  BY <1>2 DEF DataChain
<1> HIDE DEF Good
<1>3. n \in Good
  BY <1>1, <1>2, ChainInduction
<1> QED BY <1>3 DEF Good

\* The channel data of a prefix of a stream.
LEMMA DataOfPrefix ==
    ASSUME NEW s \in Seq(PacketType), NEW h, DataChain(s, h), NEW to \in 0..Len(s)
    PROVE  ChannelData(SubSeq(s, 1, to)) = h[to]
<1> DEFINE p == SubSeq(s, 1, to)
           r == ChannelData(p)
<1>1. 0 \in 0..Len(s) /\ to \in 0..Len(s) /\ 0 + 1 = 1
  OBVIOUS
<1>2. h[to] = h[0] \o ChannelData(SubSeq(s, 0 + 1, to))
  BY <1>1, DataOfPart
<1>3. p \in Seq(PacketType)
  <2>1. 1 \in Int /\ to \in Int /\ \A i \in 1..to : s[i] \in PacketType
    OBVIOUS
  <2> QED BY <2>1, SubSeqProperties
<1>4. r \in Seq({Marker, Noise})
  <2> HIDE DEF p
  <2>1. PICK g : DataChain(p, g) /\ g[Len(p)] = r
    BY <1>3, DataIs
  <2>2. Len(p) \in 0..Len(p)
    BY <1>3
  <2> QED BY <2>1, <2>2 DEF DataChain
<1>5. h[to] = <<>> \o r
  BY <1>1, <1>2 DEF DataChain
<1> HIDE DEF r
<1>6. <<>> \o r = r
  BY <1>4, ConcatEmptySeq
<1> QED BY <1>5, <1>6 DEF r, p
-----------------------------------------------------------------------------
(* What is recovered is what the server sent.                              *)

\* Channel data travels under keys.
PlainInv == \A i \in DOMAIN sent["s2c"] :
               sent["s2c"][i].type = "CHANNEL_DATA" => sent["s2c"][i].key >= 0

\* The plaintext is the channel data of the packets consumed.
PrefixInv ==
    /\ pc \in {"capture", "load"} => pos["s2c"] = 0 /\ chunks = <<>>
    /\ chunks = ChannelData(SubSeq(sent["s2c"], 1, pos["s2c"]))

\* A packet put on the wire keeps PlainInv.
LEMMA PlainPut ==
    ASSUME SessionTypeOK, PlainInv, NEW d \in Dir, NEW type \in MsgType, NEW n \in Int,
           NEW body \in {Marker, Noise}, Put(d, type, n, body),
           type = "CHANNEL_DATA" => keyNo[d] >= 0
    PROVE  PlainInv'
<1> DEFINE p == Packet(d, type, n, body)
<1>1. /\ sent \in [Dir -> Seq(PacketType)] /\ "s2c" \in Dir
      /\ sent' = [sent EXCEPT ![d] = Append(sent[d], p)]
  BY DEF Put, SessionTypeOK, PacketType, Dir
<1>2. p \in PacketType /\ p.type = type /\ p.key = keyNo[d]
  BY DEF Packet, PacketType, SessionTypeOK
<1> HIDE DEF p
<1>3. ASSUME NEW i \in DOMAIN sent'["s2c"], sent'["s2c"][i].type = "CHANNEL_DATA"
      PROVE  sent'["s2c"][i].key >= 0
  <2>1. CASE d # "s2c"
    <3>1. sent'["s2c"] = sent["s2c"]
      BY <1>1, <2>1
    <3> QED BY <1>3, <3>1 DEF PlainInv
  <2>2. CASE d = "s2c"
    <3>1. sent'["s2c"] = Append(sent["s2c"], p) /\ sent["s2c"] \in Seq(PacketType)
      BY <1>1, <2>2
    <3>2. \/ i \in DOMAIN sent["s2c"] /\ sent'["s2c"][i] = sent["s2c"][i]
          \/ sent'["s2c"][i] = p
      BY <1>2, <3>1
    <3>3. CASE sent'["s2c"][i] = p
      BY <1>2, <1>3, <3>3
    <3> QED BY <1>3, <3>2, <3>3 DEF PlainInv
  <2> QED BY <2>1, <2>2
<1> QED BY <1>3 DEF PlainInv

\* Every step keeps PlainInv.
LEMMA PlainStep == TypeInv /\ PlainInv /\ [Next]_vars => PlainInv'
<1> SUFFICES ASSUME TypeInv, PlainInv, [Next]_vars PROVE PlainInv'
  OBVIOUS
<1>1. SessionTypeOK
  BY DEF TypeInv, TypeOK
<1>2. CASE UNCHANGED sessionVars
  BY <1>2 DEF PlainInv, sessionVars
<1>3. CASE SessionStep
  <2>1. ASSUME NEW d \in Dir, NEW type \in MsgType \ {"CHANNEL_DATA"}, NEW n \in Int,
               NEW body \in {Marker, Noise}, Put(d, type, n, body)
        PROVE  PlainInv'
    BY <1>1, <2>1, PlainPut
  <2>2. ASSUME NEW d \in Dir PROVE keyNo[d] + 1 \in Int
    BY <1>1 DEF SessionTypeOK
  <2>3. /\ {"KEXINIT", "OTHER", "ECDH_INIT", "ECDH_REPLY", "NEWKEYS"} \subseteq MsgType \ {"CHANNEL_DATA"}
        /\ "CHANNEL_DATA" \in MsgType /\ -1 \in Int /\ "c2s" \in Dir /\ "s2c" \in Dir
        /\ Noise \in {Marker, Noise}
    BY DEF MsgType, Dir
  <2>4. ASSUME NEW d \in Dir, SendKexInit(d) PROVE PlainInv'
    BY <2>1, <2>2, <2>3, <2>4 DEF SendKexInit
  <2>5. ASSUME NEW d \in Dir, SendOther(d) PROVE PlainInv'
    BY <2>1, <2>3, <2>5 DEF SendOther
  <2>6. CASE SendEcdhInit
    BY <2>1, <2>2, <2>3, <2>6 DEF SendEcdhInit
  <2>7. CASE SendEcdhReply
    BY <2>1, <2>2, <2>3, <2>7 DEF SendEcdhReply
  <2>8. CASE SendData
    <3>1. keyNo["s2c"] >= 0 /\ \E body \in {Marker, Noise} : Put("s2c", "CHANNEL_DATA", -1, body)
      BY <2>8 DEF SendData
    <3> QED BY <1>1, <2>3, <3>1, PlainPut
  <2>9. ASSUME NEW d \in Dir, SendNewKeys(d) PROVE PlainInv'
    BY <2>1, <2>2, <2>3, <2>9 DEF SendNewKeys
  <2> QED BY <1>3, <2>4, <2>5, <2>6, <2>7, <2>8, <2>9 DEF SessionStep
<1>4. SessionStep \/ UNCHANGED sessionVars
  BY DEF Next, Session, StopCapture, Recover, LoadWire, StartOracle, AwaitGreeting, CheckInputs,
         Ask, TakeReply, ReplyTimeout, Derive, DecryptEpoch, CheckMarker, CompareTruth,
         CloseOracle, JoinOracle, OracleProcess, OracleBoot, OracleServe, OracleDies, vars
<1> QED BY <1>2, <1>3, <1>4

\* The packets through the first NEWKEYS hold no channel data.
LEMMA PlainHasNoData ==
    ASSUME TypeOK, StreamInv, PlainInv, NEW end \in PlainEnd("s2c")
    PROVE  /\ end \in 0..Len(sent["s2c"])
           /\ \A i \in 1..end : sent["s2c"][i].type # "CHANNEL_DATA"
<1>1. /\ sent["s2c"] \in Seq(PacketType) /\ cut["s2c"] \in Nat /\ cut["s2c"] <= Len(sent["s2c"])
      /\ "s2c" \in Dir
  BY DEF TypeOK, SessionTypeOK, PacketType, Dir
<1>2. end \in 1..cut["s2c"] /\ \A j \in 1..(end - 1) : sent["s2c"][j].type # "NEWKEYS"
  BY DEF PlainEnd
<1>3. ASSUME NEW i \in 1..end, sent["s2c"][i].type = "CHANNEL_DATA" PROVE FALSE
  <2>1. i \in DOMAIN sent["s2c"] /\ \A j \in 1..(i - 1) : j \in 1..(end - 1)
    BY <1>1, <1>2
  <2>2. sent["s2c"][i].key >= 0
    BY <1>3, <2>1 DEF PlainInv
  <2>3. \E j \in 1..(i - 1) : sent["s2c"][j].type = "NEWKEYS"
    BY <1>1, <2>1, <2>2 DEF StreamInv
  <2> QED BY <1>2, <2>1, <2>3
<1> QED BY <1>1, <1>2, <1>3

\* Every step keeps PrefixInv: DecryptEpoch appends the data of one epoch.
LEMMA PrefixStep == LadderInv /\ PlainInv /\ PrefixInv /\ [Next]_vars => PrefixInv'
<1> SUFFICES ASSUME LadderInv, PlainInv, PrefixInv, [Next]_vars PROVE PrefixInv'
  OBVIOUS
<1> DEFINE s == sent["s2c"]
<1>1. /\ TypeOK /\ StreamInv /\ s \in Seq(PacketType) /\ pos["s2c"] \in Nat
      /\ pos["s2c"] <= cut["s2c"] /\ cut["s2c"] <= Len(s) /\ cut["s2c"] \in Nat /\ "s2c" \in Dir
  BY DEF LadderInv, TypeInv, TypeOK, SessionTypeOK, PacketType, Dir
<1>2. PICK h : DataChain(s, h)
  BY <1>1, DataIs
<1>3. \A to \in 0..Len(s) : ChannelData(SubSeq(s, 1, to)) = h[to]
  <2> HIDE DEF s
  <2> QED BY <1>1, <1>2, DataOfPrefix
<1>4. ASSUME UNCHANGED <<sent, pos, chunks>>, pc' \in {"capture", "load"} => pc \in {"capture", "load"}
      PROVE  PrefixInv'
  BY <1>4 DEF PrefixInv
<1>5. CASE Session
  <2>1. pc = "capture" /\ pc' = pc /\ pos' = pos /\ chunks' = chunks /\ SessionStep
    BY <1>5 DEF Session, decoderVars
  <2>2. pos["s2c"] = 0 /\ chunks = <<>>
    BY <2>1 DEF PrefixInv
  <2>3. sent' \in [Dir -> Seq(PacketType)]
    <3>1. SessionTypeOK'
      BY <1>1, <2>1, SessionStepType DEF TypeOK
    <3> QED BY <3>1 DEF SessionTypeOK, PacketType
  <2> DEFINE t == sent'["s2c"]
  <2>4. t \in Seq(PacketType)
    BY <1>1, <2>3
  <2> HIDE DEF t
  <2>5. PICK g : DataChain(t, g)
    BY <2>4, DataIs
  <2>6. ChannelData(SubSeq(t, 1, 0)) = g[0]
    <3>1. 0 \in 0..Len(t)
      BY <2>4
    <3> QED BY <2>4, <2>5, <3>1, DataOfPrefix
  <2>7. ChannelData(SubSeq(t, 1, 0)) = <<>>
    BY <2>5, <2>6 DEF DataChain
  <2> QED BY <2>1, <2>2, <2>7 DEF PrefixInv, t
<1>6. CASE StopCapture
  BY <1>4, <1>6 DEF StopCapture, sessionVars, decoderVars
<1>7. CASE LoadWire
  <2>1. pc = "load" /\ sent' = sent
    BY <1>7 DEF LoadWire, sessionVars
  <2>2. CASE UNCHANGED decoderVars
    BY <1>4, <2>1, <2>2 DEF decoderVars
  <2>3. CASE ~UNCHANGED decoderVars
    <3>1. /\ PlainEnd("s2c") # {} /\ pos' = [d \in Dir |-> CHOOSE i \in PlainEnd(d) : TRUE]
          /\ pc' = "start" /\ chunks' = chunks
      BY <1>1, <1>7, <2>3 DEF LoadWire
    <3>2. pos'["s2c"] \in PlainEnd("s2c")
      BY <1>1, <3>1
    <3>3. /\ pos'["s2c"] \in 0..Len(s)
          /\ \A i \in 1..pos'["s2c"] : s[i].type # "CHANNEL_DATA"
      BY <1>1, <3>2, PlainHasNoData
    <3> HIDE DEF s
    <3>4. h[pos'["s2c"]] = <<>>
      BY <1>1, <1>2, <3>3, NoData
    <3>5. chunks = <<>>
      BY <2>1 DEF PrefixInv
    <3>6. ChannelData(SubSeq(s, 1, pos'["s2c"])) = <<>>
      BY <1>3, <3>3, <3>4
    <3> QED BY <2>1, <3>1, <3>5, <3>6 DEF PrefixInv, s
  <2> QED BY <2>2, <2>3
<1>8. CASE DecryptEpoch
  <2>1. /\ sent' = sent /\ pc = "decrypt" /\ pc' \notin {"capture", "load"}
    BY <1>8 DEF DecryptEpoch, Fail, sessionVars
  <2>2. CASE UNCHANGED <<pos, chunks>>
    BY <1>4, <2>1, <2>2
  <2>3. CASE ~UNCHANGED <<pos, chunks>>
    <3> DEFINE from == pos["s2c"]
               end == EpochEnd("s2c")
    <3>1. /\ chunks' = chunks \o ChannelData(SubSeq(s, from + 1, end))
          /\ pos'["s2c"] = end
      BY <1>1, <1>8, <2>3 DEF DecryptEpoch, channel_data
    <3>2. from \in 0..Len(s) /\ end \in from..Len(s) /\ end \in 0..Len(s)
      BY <1>1, EpochEndRange
    <3>3. chunks = h[from]
      BY <1>3, <3>2 DEF PrefixInv
    <3> HIDE DEF s, from, end
    <3>4. h[end] = h[from] \o ChannelData(SubSeq(s, from + 1, end))
      BY <1>1, <1>2, <3>2, DataOfPart
    <3>5. chunks' = ChannelData(SubSeq(s, 1, end))
      BY <1>3, <3>1, <3>2, <3>3, <3>4
    <3> QED BY <2>1, <3>1, <3>5 DEF PrefixInv, s
  <2> QED BY <2>2, <2>3
<1>9. CASE \/ StartOracle \/ AwaitGreeting \/ CheckInputs \/ Ask \/ TakeReply \/ ReplyTimeout
           \/ Derive \/ CheckMarker \/ CompareTruth \/ CloseOracle \/ JoinOracle
  BY <1>4, <1>9
     DEF StartOracle, AwaitGreeting, CheckInputs, Ask, TakeReply, ReplyTimeout, Derive, CheckMarker,
         CompareTruth, CloseOracle, JoinOracle, Fail, sessionVars, decoderVars
<1>10. CASE OracleProcess \/ UNCHANGED vars
  BY <1>4, <1>10 DEF OracleProcess, OracleBoot, OracleServe, OracleDies, vars, sessionVars, decoderVars
<1> QED BY <1>5, <1>6, <1>7, <1>8, <1>9, <1>10 DEF Next, Recover

\* Nothing is recovered at first.
LEMMA PlainStarts == Init => PrefixInv
<1> SUFFICES ASSUME Init PROVE PrefixInv
  OBVIOUS
<1>1. sent["s2c"] = <<>> /\ pos["s2c"] = 0 /\ chunks = <<>>
  BY DEF Init, SessionInit, Dir
<1> DEFINE s == sent["s2c"]
<1>2. s \in Seq(PacketType) /\ Len(s) = 0 /\ 0 \in 0..Len(s)
  BY <1>1
<1> HIDE DEF s
<1>3. PICK h : DataChain(s, h)
  BY <1>2, DataIs
<1>4. ChannelData(SubSeq(s, 1, 0)) = h[0]
  BY <1>2, <1>3, DataOfPrefix
<1>5. ChannelData(SubSeq(s, 1, 0)) = <<>>
  BY <1>3, <1>4 DEF DataChain
<1> QED BY <1>1, <1>5 DEF PrefixInv, s

\* The plaintext that derive_ssh has recovered is at every moment a prefix of
\* the channel data that the server sent, whatever was lost from the capture
\* and however many exchanges, wraps and restarts of the sequence numbers
\* there were.
THEOREM PlaintextIsGenuine == Spec => []RecoveredIsPrefix
<1>1. Init => LadderInv /\ PlainInv /\ PrefixInv
  <2> SUFFICES ASSUME Init PROVE LadderInv /\ PlainInv /\ PrefixInv
    OBVIOUS
  <2>1. LadderInv
    BY LadderInit
  <2>2. PlainInv
    BY DEF Init, SessionInit, PlainInv, Dir
  <2>3. PrefixInv
    BY PlainStarts
  <2> QED BY <2>1, <2>2, <2>3
<1>2. LadderInv /\ PlainInv /\ PrefixInv /\ [Next]_vars => (LadderInv /\ PlainInv /\ PrefixInv)'
  <2>1. LadderInv => TypeInv
    BY DEF LadderInv
  <2> QED BY <2>1, LadderInvStep, PlainStep, PrefixStep
<1>3. LadderInv /\ PrefixInv => RecoveredIsPrefix
  <2> SUFFICES ASSUME LadderInv, PrefixInv PROVE RecoveredIsPrefix
    OBVIOUS
  <2> DEFINE s == sent["s2c"]
             n == Len(s)
             k == pos["s2c"]
             data == ServerData
  <2>1. s \in Seq(PacketType) /\ k \in 0..n /\ n \in k..n
    <3>1. /\ s \in Seq(PacketType) /\ k \in Nat /\ cut["s2c"] \in Nat
          /\ k <= cut["s2c"] /\ cut["s2c"] <= Len(s)
      BY DEF LadderInv, TypeInv, TypeOK, SessionTypeOK, PacketType, Dir
    <3> QED BY <3>1
  <2>2. chunks = ChannelData(SubSeq(s, 1, k)) /\ data = ChannelData(s)
    BY DEF PrefixInv, ServerData
  <2> HIDE DEF s, k, data
  <2>3. PICK h : DataChain(s, h) /\ h[n] = ChannelData(s)
    BY <2>1, DataIs
  <2>4. chunks = h[k] /\ data = h[n]
    BY <2>1, <2>2, <2>3, DataOfPrefix
  <2>5. Len(h[k]) <= Len(h[n]) /\ \A i \in 1..Len(h[k]) : h[k][i] = h[n][i]
    BY <2>1, <2>3, DataGrows
  <2>6. DOMAIN chunks = 1..Len(chunks)
    <3>1. chunks \in Seq({Marker, Noise})
      BY <2>1, <2>3, <2>4 DEF DataChain
    <3> QED BY <3>1
  <2> QED BY <2>4, <2>5, <2>6 DEF RecoveredIsPrefix, data
<1> QED BY <1>1, <1>2, <1>3, PTL DEF Spec
-----------------------------------------------------------------------------
\* The ground truth is opened when the recovery is over.
TruthInv == truthRead => pc \in {"close", "join", "done"}

\* derive_ssh: "This file is intentionally opened only after
\* archive-only recovery and authentication have succeeded".  From the step
\* that opens it on, neither the decoder's state nor the release trace changes,
\* whatever the oracle still does.
THEOREM TruthIsReadLast == Spec => NothingLearnedFromTruth
<1>1. Init => TruthInv
  BY DEF Init, TruthInv
<1>2. TruthInv /\ [Next]_vars => TruthInv' /\ [truthRead' => UNCHANGED <<decoderVars, trace>>]_vars
  <2> SUFFICES ASSUME TruthInv, [Next]_vars
               PROVE  TruthInv' /\ (truthRead' => UNCHANGED <<decoderVars, trace>>)
    OBVIOUS
  <2>1. CASE \/ Session \/ StopCapture \/ LoadWire \/ StartOracle \/ AwaitGreeting \/ CheckInputs \/ Ask
             \/ TakeReply \/ ReplyTimeout \/ Derive \/ DecryptEpoch \/ CheckMarker
    <3>1. UNCHANGED truthRead /\ pc \notin {"close", "join", "done"}
      BY <2>1 DEF Session, StopCapture, LoadWire, StartOracle, AwaitGreeting, CheckInputs, Ask, TakeReply,
                  ReplyTimeout, Derive, DecryptEpoch, CheckMarker
    <3>2. ~truthRead'
      BY <3>1, Zenon DEF TruthInv
    <3> QED BY <3>2, Zenon DEF TruthInv
  <2>2. CASE CompareTruth
    BY <2>2 DEF CompareTruth, Fail, TruthInv
  <2>3. CASE CloseOracle \/ JoinOracle
    BY <2>3 DEF CloseOracle, JoinOracle, TruthInv
  <2>4. CASE OracleProcess \/ UNCHANGED vars
    BY <2>4 DEF OracleProcess, OracleBoot, OracleServe, OracleDies, vars, decoderVars, TruthInv
  <2> QED BY <2>1, <2>2, <2>3, <2>4 DEF Next, Recover
<1> QED BY <1>1, <1>2, PTL DEF Spec, NothingLearnedFromTruth
-----------------------------------------------------------------------------
(* A whole session is recovered.                                           *)

\* What the packet behind packet i of a direction is sealed with.
KeyAfter(d, i) ==
    IF i = 0 THEN -1
    ELSE IF sent[d][i].type = "NEWKEYS" THEN sent[d][i].key + 1 ELSE sent[d][i].key
SeqAfter(d, i) ==
    IF i = 0 \/ (sent[d][i].type = "NEWKEYS" /\ strict) THEN 0 ELSE (sent[d][i].seq + 1) % SeqLimit

SealInv ==
    \A d \in Dir :
        /\ \A i \in DOMAIN sent[d] : /\ sent[d][i].key = KeyAfter(d, i - 1)
                                     /\ sent[d][i].seq = SeqAfter(d, i - 1)
        /\ keyNo[d] = KeyAfter(d, Len(sent[d])) /\ seqNo[d] = SeqAfter(d, Len(sent[d]))

\* Keys are used in their order, each up to a NEWKEYS.
OrderInv ==
    \A d \in Dir : \A i \in DOMAIN sent[d] :
        /\ sent[d][i].key <= keyNo[d]
        /\ sent[d][i].type = "NEWKEYS" => sent[d][i].key < keyNo[d]
        /\ \A j \in i..Len(sent[d]) : sent[d][i].key <= sent[d][j].key

KexTypes == {"KEXINIT", "ECDH_INIT", "ECDH_REPLY", "NEWKEYS"}
Share(d) == IF d = "c2s" THEN "ECDH_INIT" ELSE "ECDH_REPLY"

\* The messages of an exchange are all there before its NEWKEYS.
ExchangeInv ==
    \A d \in Dir : \A i \in DOMAIN sent[d] :
        /\ sent[d][i].type \in KexTypes => sent[d][i].kex = sent[d][i].key + 1
        /\ sent[d][i].type = "NEWKEYS" => Has(d, "KEXINIT", sent[d][i].kex) /\ Has(d, Share(d), sent[d][i].kex)

One(b) == IF b THEN 1 ELSE 0

ProgressInv ==
    /\ \A d \in Dir : kexinits[d] <= keyNo[d] + 2 /\ (Exchanging(d) => Has(d, "KEXINIT", keyNo[d] + 1))
    /\ \A i \in DOMAIN sent["s2c"] :
          sent["s2c"][i].type = "ECDH_REPLY" => Has("c2s", "ECDH_INIT", sent["s2c"][i].kex)
    /\ Len(secrets) >= keyNo["s2c"] + 1 + One(Has("s2c", "ECDH_REPLY", keyNo["s2c"] + 1))
    /\ ClientShares >= keyNo["c2s"] + 1 + One(Has("c2s", "ECDH_INIT", keyNo["c2s"] + 1))

\* Before the first keys a direction has no more packets than sequence numbers.
OpeningInv ==
    /\ Sent("c2s", "OTHER") + Sent("s2c", "OTHER") <= MaxOther
    /\ \A d \in Dir :
          /\ keyNo[d] = -1 => Len(sent[d]) <= kexinits[d] + One(Has(d, Share(d), 0)) + Sent(d, "OTHER")
          /\ \A i \in DOMAIN sent[d] : sent[d][i].key = -1 => i <= 3 + MaxOther

SessionInv == SealInv /\ OrderInv /\ ExchangeInv /\ ProgressInv /\ OpeningInv

Tolerated == {"success", "timeout", "start_timeout", "EOFError", "BrokenPipeError"}
Reading == {"start", "boot", "check", "ask", "wait", "derive", "decrypt"}

\* The decoder is at the NEWKEYS that starts epoch's keys, in both directions.
PlaceInv ==
    /\ kex = Transcript(epoch) /\ epoch <= keyNo["c2s"]
    /\ \A d \in Dir : /\ pos[d] \in DOMAIN sent[d] /\ sent[d][pos[d]].type = "NEWKEYS"
                      /\ sent[d][pos[d]].key = epoch - 1
                      /\ ~strict \/ pc = "decrypt" => seq[d] = SeqAfter(d, pos[d])
    /\ epoch > 0 => sid = EndpointH(0)
    /\ pc = "derive" => scalar = epoch
    /\ pc = "decrypt" => key = EndpointKey(epoch) /\ sid = EndpointH(0)

\* The request under way asks for a scalar that has not been given out, and the
\* answer is that scalar.
OracleInv ==
    /\ pc \in {"start", "boot", "check", "ask"} \/ toOracle # <<>> => \A n \in ReleasedShares : n < epoch
    /\ \A i \in DOMAIN toClient : toClient[i].ok /\ (pc = "wait" => toClient[i].priv = epoch)

TornInv == pc # "capture" => \A d \in Dir : torn[d] => cut[d] # Len(sent[d])

\* The recovery of a whole session stays on course.
WholeInv ==
    pc # "capture" /\ WholeSession =>
        /\ pc \in {"close", "join", "done"} => result \in Tolerated
        /\ recoveries = [i \in 1..ClientShares |-> [pub |-> i - 1, priv |-> i - 1]]
        /\ pc \in Reading => PlaceInv /\ OracleInv
\* The state of one direction after a packet was put on it.
Grows(d, type, n) ==
    LET m == Len(sent[d]) + 1
    IN  /\ \A e \in Dir : /\ sent[e] \in Seq(PacketType) /\ sent'[e] \in Seq(PacketType)
                          /\ Len(sent[e]) \in Nat /\ DOMAIN sent[e] = 1..Len(sent[e])
                          /\ e # d => sent'[e] = sent[e] /\ seqNo'[e] = seqNo[e]
        /\ Len(sent'[d]) = m /\ DOMAIN sent'[d] = 1..m
        /\ \A i \in DOMAIN sent[d] : sent'[d][i] = sent[d][i]
        /\ sent'[d][m].type = type /\ sent'[d][m].kex = n
        /\ sent'[d][m].key = keyNo[d] /\ sent'[d][m].seq = seqNo[d]
        /\ seqNo'[d] = IF type = "NEWKEYS" /\ strict THEN 0 ELSE (seqNo[d] + 1) % SeqLimit

\* A packet put on the wire.
LEMMA PutGrows ==
    ASSUME SessionTypeOK, NEW d \in Dir, NEW type \in MsgType, NEW n \in Int,
           NEW body \in {Marker, Noise}, Put(d, type, n, body)
    PROVE  Grows(d, type, n)
<1> DEFINE p == Packet(d, type, n, body)
<1>1. /\ sent' = [sent EXCEPT ![d] = Append(sent[d], p)]
      /\ sent \in [Dir -> Seq(PacketType)] /\ seqNo \in [Dir -> Nat]
      /\ seqNo' = [seqNo EXCEPT ![d] =
                      IF type = "NEWKEYS" /\ strict THEN 0 ELSE (seqNo[d] + 1) % SeqLimit]
  BY DEF Put, SessionTypeOK, PacketType
<1>2. p \in PacketType /\ p.type = type /\ p.kex = n /\ p.key = keyNo[d] /\ p.seq = seqNo[d]
  BY DEF Packet, PacketType, SessionTypeOK
<1> HIDE DEF p
<1>3. ASSUME NEW e \in Dir
      PROVE  /\ sent[e] \in Seq(PacketType) /\ sent'[e] \in Seq(PacketType)
             /\ Len(sent[e]) \in Nat /\ DOMAIN sent[e] = 1..Len(sent[e])
             /\ e # d => sent'[e] = sent[e] /\ seqNo'[e] = seqNo[e]
  <2>1. CASE e = d
    BY <1>1, <1>2, <2>1
  <2>2. CASE e # d
    BY <1>1, <2>2
  <2> QED BY <2>1, <2>2
<1>4. /\ sent'[d] = Append(sent[d], p) /\ sent[d] \in Seq(PacketType)
      /\ seqNo'[d] = IF type = "NEWKEYS" /\ strict THEN 0 ELSE (seqNo[d] + 1) % SeqLimit
  BY <1>1
<1>5. /\ Len(sent'[d]) = Len(sent[d]) + 1 /\ DOMAIN sent'[d] = 1..(Len(sent[d]) + 1)
      /\ \A i \in DOMAIN sent[d] : sent'[d][i] = sent[d][i]
      /\ sent'[d][Len(sent[d]) + 1] = p
  BY <1>2, <1>4
<1> QED BY <1>2, <1>3, <1>4, <1>5 DEF Grows

\* The packet is the only new one that Has can find.
LEMMA HasGrows ==
    ASSUME NEW d \in Dir, NEW type, NEW n, Grows(d, type, n), NEW e \in Dir, NEW t, NEW k
    PROVE  Has(e, t, k)' <=> Has(e, t, k) \/ (e = d /\ t = type /\ k = n)
<1>1. CASE e # d
  BY <1>1 DEF Grows, Has
<1>2. CASE e = d
  <2>1. /\ DOMAIN sent[d] = 1..Len(sent[d]) /\ DOMAIN sent'[d] = 1..(Len(sent[d]) + 1)
        /\ Len(sent[d]) \in Nat
        /\ \A i \in DOMAIN sent[d] : sent'[d][i] = sent[d][i]
        /\ sent'[d][Len(sent[d]) + 1].type = type /\ sent'[d][Len(sent[d]) + 1].kex = n
    BY DEF Grows
  <2>2. DOMAIN sent'[d] = DOMAIN sent[d] \union {Len(sent[d]) + 1}
    BY <2>1
  <2> QED BY <1>2, <2>1, <2>2 DEF Has
<1> QED BY <1>1, <1>2

\* The packet is the only new one that Sent counts.
LEMMA SentGrows ==
    ASSUME NEW d \in Dir, NEW type, NEW n, Grows(d, type, n), NEW e \in Dir, NEW t
    PROVE  Sent(e, t) \in Nat /\ Sent(e, t)' = Sent(e, t) + One(e = d /\ t = type)
<1> DEFINE S == {i \in DOMAIN sent[e] : sent[e][i].type = t}
           T == {i \in DOMAIN sent'[e] : sent'[e][i].type = t}
           m == Len(sent[d]) + 1
<1>1. Sent(e, t) = Cardinality(S) /\ Sent(e, t)' = Cardinality(T)
  BY DEF Sent
<1>2. IsFiniteSet(S) /\ Cardinality(S) \in Nat
  <2>1. S \subseteq 1..Len(sent[e]) /\ Len(sent[e]) \in Nat
    BY DEF Grows
  <2>2. IsFiniteSet(1..Len(sent[e]))
    BY <2>1, FS_Interval
  <2>3. IsFiniteSet(S)
    BY <2>1, <2>2, FS_Subset
  <2> QED BY <2>3, FS_CardinalityType
<1>3. CASE e # d
  <2>1. sent'[e] = sent[e]
    BY <1>3 DEF Grows
  <2>2. T = S /\ One(e = d /\ t = type) = 0
    BY <1>3, <2>1 DEF One
  <2> HIDE DEF S, T
  <2> QED BY <1>1, <1>2, <2>2
<1>4. CASE e = d
  <2>1. /\ DOMAIN sent'[d] = DOMAIN sent[d] \union {m} /\ m \notin DOMAIN sent[d]
        /\ \A i \in DOMAIN sent[d] : sent'[d][i] = sent[d][i]
        /\ sent'[d][m].type = type
    BY DEF Grows
  <2>2. CASE t = type
    <3>1. T = S \union {m} /\ m \notin S
      BY <1>4, <2>1, <2>2
    <3>2. Cardinality(S \union {m}) = Cardinality(S) + 1
      BY <1>2, <3>1, FS_AddElement
    <3>3. One(e = d /\ t = type) = 1
      BY <1>4, <2>2 DEF One
    <3> HIDE DEF S, T
    <3> QED BY <1>1, <1>2, <3>1, <3>2, <3>3
  <2>3. CASE t # type
    <3>1. T = S
      BY <1>4, <2>1, <2>3
    <3>2. One(e = d /\ t = type) = 0
      BY <2>3 DEF One
    <3> HIDE DEF S, T
    <3> QED BY <1>1, <1>2, <3>1, <3>2
  <2> QED BY <2>2, <2>3
<1> QED BY <1>3, <1>4

\* What one step of the endpoints does.
Moves(d, type, n) ==
    /\ Grows(d, type, n) /\ UNCHANGED strict
    /\ keyNo' = IF type = "NEWKEYS" THEN [keyNo EXCEPT ![d] = @ + 1] ELSE keyNo
    /\ kexinits' = IF type = "KEXINIT" THEN [kexinits EXCEPT ![d] = @ + 1] ELSE kexinits
    /\ IF type = "ECDH_REPLY" THEN Len(secrets') = Len(secrets) + 1 ELSE UNCHANGED secrets
    /\ type \in KexTypes => n = keyNo[d] + 1 /\ (Exchanging(d) <=> type # "KEXINIT")
    /\ type = "ECDH_INIT"  => d = "c2s" /\ ~Has(d, type, n)
    /\ type = "ECDH_REPLY" => d = "s2c" /\ ~Has(d, type, n) /\ Has("c2s", "ECDH_INIT", n)
    /\ type = "NEWKEYS"    => Has("s2c", "ECDH_REPLY", n)
    /\ type = "CHANNEL_DATA" => keyNo[d] >= 0
    /\ type = "OTHER" => Sent("c2s", "OTHER") + Sent("s2c", "OTHER") < MaxOther

\* A step of an endpoint puts one packet on the wire.
LEMMA SessionMoves ==
    ASSUME SessionTypeOK, SessionStep
    PROVE  \E d \in Dir, type \in MsgType, n \in Int : Moves(d, type, n)
<1>1. /\ {"KEXINIT", "OTHER", "ECDH_INIT", "ECDH_REPLY", "CHANNEL_DATA", "NEWKEYS"} = MsgType
      /\ -1 \in Int /\ "c2s" \in Dir /\ "s2c" \in Dir /\ Noise \in {Marker, Noise}
  BY DEF MsgType, Dir
<1>2. \A d \in Dir : keyNo[d] + 1 \in Int
  BY DEF SessionTypeOK
<1>3. ASSUME NEW d \in Dir, NEW type \in MsgType, NEW n \in Int, NEW body \in {Marker, Noise},
             Put(d, type, n, body)
      PROVE  Grows(d, type, n)
  BY <1>3, PutGrows
<1>4. ASSUME NEW d \in Dir, SendKexInit(d) PROVE Moves(d, "KEXINIT", keyNo[d] + 1)
  BY <1>1, <1>2, <1>3, <1>4 DEF SendKexInit, Moves, KexTypes
<1>5. ASSUME NEW d \in Dir, SendNewKeys(d) PROVE Moves(d, "NEWKEYS", keyNo[d] + 1)
  BY <1>1, <1>2, <1>3, <1>5 DEF SendNewKeys, Moves, KexTypes
<1>6. ASSUME NEW d \in Dir, SendOther(d) PROVE Moves(d, "OTHER", -1)
  BY <1>1, <1>3, <1>6 DEF SendOther, Moves, KexTypes
<1>7. CASE SendEcdhInit
  <2>1. Moves("c2s", "ECDH_INIT", keyNo["c2s"] + 1)
    BY <1>1, <1>2, <1>3, <1>7 DEF SendEcdhInit, Moves, KexTypes
  <2> QED BY <1>1, <1>2, <2>1
<1>8. CASE SendEcdhReply
  <2>1. Len(secrets') = Len(secrets) + 1
    BY <1>8 DEF SendEcdhReply, SessionTypeOK
  <2>2. Moves("s2c", "ECDH_REPLY", keyNo["s2c"] + 1)
    BY <1>1, <1>2, <1>3, <1>8, <2>1 DEF SendEcdhReply, Moves, KexTypes
  <2> QED BY <1>1, <1>2, <2>2
<1>9. CASE SendData
  <2>1. Moves("s2c", "CHANNEL_DATA", -1)
    BY <1>1, <1>3, <1>9 DEF SendData, Moves, KexTypes
  <2> QED BY <1>1, <2>1
<1> QED BY <1>1, <1>2, <1>4, <1>5, <1>6, <1>7, <1>8, <1>9 DEF SessionStep
-----------------------------------------------------------------------------
(* The endpoints keep the order of keys, messages and sequence numbers.    *)

\* The types of a packet's fields.
LEMMA PacketTypes ==
    ASSUME SessionTypeOK, NEW d \in Dir, NEW i \in DOMAIN sent[d]
    PROVE  sent[d][i].kex \in Int /\ sent[d][i].key \in Int /\ sent[d][i].seq \in Nat /\ i \in 1..Len(sent[d])
<1>1. sent[d] \in Seq(PacketType)
  BY DEF SessionTypeOK, PacketType
<1>2. sent[d][i] \in PacketType /\ i \in 1..Len(sent[d])
  BY <1>1
<1> QED BY <1>2 DEF PacketType

\* The packet is sealed with the key and number that follow from the one before.
LEMMA SealKept ==
    ASSUME SessionTypeOK, SealInv, NEW d \in Dir, NEW type, NEW n, Moves(d, type, n)
    PROVE  SealInv'
<1> DEFINE m == Len(sent[d]) + 1
<1>1. /\ Grows(d, type, n) /\ UNCHANGED strict /\ keyNo \in [Dir -> Int]
      /\ keyNo' = IF type = "NEWKEYS" THEN [keyNo EXCEPT ![d] = @ + 1] ELSE keyNo
  BY DEF Moves, SessionTypeOK
<1>2. ASSUME NEW e \in Dir, e # d PROVE SealInv!(e)'
  <2>1. sent'[e] = sent[e] /\ seqNo'[e] = seqNo[e] /\ keyNo'[e] = keyNo[e]
    BY <1>1, <1>2 DEF Grows
  <2> QED BY <1>1, <2>1 DEF SealInv, KeyAfter, SeqAfter
<1>3. SealInv!(d)'
  <2>1. /\ Len(sent[d]) \in Nat /\ DOMAIN sent[d] = 1..Len(sent[d])
        /\ Len(sent'[d]) = m /\ DOMAIN sent'[d] = 1..m
        /\ \A i \in DOMAIN sent[d] : sent'[d][i] = sent[d][i]
        /\ sent'[d][m].type = type /\ sent'[d][m].key = keyNo[d] /\ sent'[d][m].seq = seqNo[d]
        /\ seqNo'[d] = IF type = "NEWKEYS" /\ strict THEN 0 ELSE (seqNo[d] + 1) % SeqLimit
    BY <1>1 DEF Grows
  <2>2. ASSUME NEW i \in 0..Len(sent[d])
        PROVE  KeyAfter(d, i)' = KeyAfter(d, i) /\ SeqAfter(d, i)' = SeqAfter(d, i)
    <3>1. i = 0 \/ sent'[d][i] = sent[d][i]
      BY <2>1
    <3>2. strict' = strict
      BY <1>1
    <3> QED BY <3>1, <3>2, ZenonT(30) DEF KeyAfter, SeqAfter
  <2>3. ASSUME NEW i \in DOMAIN sent'[d]
        PROVE  sent'[d][i].key = KeyAfter(d, i - 1)' /\ sent'[d][i].seq = SeqAfter(d, i - 1)'
    <3>1. CASE i \in DOMAIN sent[d]
      <4>1. i - 1 \in 0..Len(sent[d])
        BY <2>1, <3>1
      <4> QED BY <2>1, <2>2, <3>1, <4>1 DEF SealInv
    <3>2. CASE i = m
      <4>1. i - 1 = Len(sent[d])
        BY <2>1, <3>2
      <4> QED BY <2>1, <2>2, <3>2, <4>1 DEF SealInv
    <3> QED BY <2>1, <3>1, <3>2
  <2>4. keyNo'[d] = KeyAfter(d, Len(sent[d]))' /\ seqNo'[d] = SeqAfter(d, Len(sent[d]))'
    <3>1. m # 0
      BY <2>1
    <3>2. keyNo'[d] = IF type = "NEWKEYS" THEN keyNo[d] + 1 ELSE keyNo[d]
      BY <1>1
    <3> QED BY <1>1, <2>1, <3>1, <3>2 DEF KeyAfter, SeqAfter
  <2> QED BY <2>1, <2>3, <2>4
<1> QED BY <1>2, <1>3 DEF SealInv

\* The packet's key is no older than those before it.
LEMMA OrderKept ==
    ASSUME SessionTypeOK, OrderInv, NEW d \in Dir, NEW type, NEW n, Moves(d, type, n)
    PROVE  OrderInv'
<1>1. /\ Grows(d, type, n) /\ keyNo \in [Dir -> Int]
      /\ keyNo' = IF type = "NEWKEYS" THEN [keyNo EXCEPT ![d] = @ + 1] ELSE keyNo
  BY DEF Moves, SessionTypeOK
<1>2. ASSUME NEW e \in Dir, e # d PROVE OrderInv!(e)'
  <2>1. sent'[e] = sent[e] /\ keyNo'[e] = keyNo[e]
    BY <1>1, <1>2 DEF Grows
  <2> QED BY <2>1 DEF OrderInv
<1>3. ASSUME NEW i \in DOMAIN sent'[d]
      PROVE  /\ sent'[d][i].key <= keyNo'[d]
             /\ sent'[d][i].type = "NEWKEYS" => sent'[d][i].key < keyNo'[d]
             /\ \A j \in i..Len(sent'[d]) : sent'[d][i].key <= sent'[d][j].key
  <2> DEFINE l == Len(sent[d])
  <2>1. /\ l \in Nat /\ DOMAIN sent[d] = 1..l
        /\ Len(sent'[d]) = l + 1 /\ DOMAIN sent'[d] = 1..(l + 1)
        /\ \A j \in DOMAIN sent[d] : sent'[d][j] = sent[d][j]
        /\ sent'[d][l + 1].type = type /\ sent'[d][l + 1].key = keyNo[d]
    BY <1>1 DEF Grows
  <2>2. /\ keyNo[d] \in Int /\ keyNo'[d] = IF type = "NEWKEYS" THEN keyNo[d] + 1 ELSE keyNo[d]
    BY <1>1
  <2>3. \A j \in 1..l : sent[d][j].key \in Int /\ sent[d][j].key <= keyNo[d]
    BY <2>1, PacketTypes DEF OrderInv
  <2> HIDE DEF l
  <2>4. CASE i = l + 1
    <3>1. \A j \in i..(l + 1) : j = l + 1
      BY <2>1, <2>4
    <3> QED BY <2>1, <2>2, <2>4, <3>1
  <2>5. CASE i \in 1..l
    <3>1. sent'[d][i].key <= keyNo'[d] /\ (sent'[d][i].type = "NEWKEYS" => sent'[d][i].key < keyNo'[d])
      BY <2>1, <2>2, <2>3, <2>5 DEF OrderInv
    <3>2. ASSUME NEW j \in i..(l + 1) PROVE sent'[d][i].key <= sent'[d][j].key
      <4>1. CASE j = l + 1
        BY <2>1, <2>3, <2>5, <4>1
      <4>2. CASE j \in i..l
        <5>1. j \in 1..l /\ i \in DOMAIN sent[d]
          BY <2>1, <2>5, <4>2
        <5>2. sent[d][i].key <= sent[d][j].key
          BY <4>2, <5>1 DEF OrderInv, l
        <5> QED BY <2>1, <2>5, <5>1, <5>2
      <4> QED BY <2>1, <2>5, <4>1, <4>2
    <3> QED BY <2>1, <3>1, <3>2
  <2> QED BY <2>1, <2>4, <2>5
<1> QED BY <1>2, <1>3 DEF OrderInv

\* A packet that is on the wire has been put there before its direction's keys
\* went on.
LEMMA NotAhead ==
    ASSUME SessionTypeOK, OrderInv, ExchangeInv, NEW d \in Dir, NEW t \in KexTypes, NEW k \in Int,
           Has(d, t, k)
    PROVE  k <= keyNo[d] + 1
<1>1. PICK i \in DOMAIN sent[d] : sent[d][i].type = t /\ sent[d][i].kex = k
  BY DEF Has
<1>2. sent[d][i].key <= keyNo[d] /\ sent[d][i].kex = sent[d][i].key + 1
  BY <1>1 DEF OrderInv, ExchangeInv
<1>3. sent[d][i].key \in Int /\ keyNo[d] \in Int
  BY PacketTypes DEF SessionTypeOK
<1> QED BY <1>1, <1>2, <1>3

\* A NEWKEYS follows the messages of its exchange.
LEMMA ExchangeKept ==
    ASSUME SessionTypeOK, ExchangeInv, ProgressInv, NEW d \in Dir, NEW type, NEW n, Moves(d, type, n)
    PROVE  ExchangeInv'
<1>1. /\ Grows(d, type, n) /\ (type \in KexTypes => n = keyNo[d] + 1)
  BY DEF Moves
<1>2. \A e \in Dir : \A t, k : Has(e, t, k) => Has(e, t, k)'
  BY <1>1, HasGrows
<1>3. ASSUME NEW e \in Dir, NEW i \in DOMAIN sent[e], NEW k, k = sent[e][i].kex
      PROVE  /\ sent[e][i].type \in KexTypes => k = sent[e][i].key + 1
             /\ sent[e][i].type = "NEWKEYS" => Has(e, "KEXINIT", k)' /\ Has(e, Share(e), k)'
  <2>1. sent[e][i].type = "NEWKEYS" => Has(e, "KEXINIT", k) /\ Has(e, Share(e), k)
    BY <1>3 DEF ExchangeInv
  <2>2. sent[e][i].type \in KexTypes => k = sent[e][i].key + 1
    BY <1>3 DEF ExchangeInv
  <2> QED BY <1>2, <2>1, <2>2
<1>4. type = "NEWKEYS" => Has(d, "KEXINIT", n) /\ Has(d, Share(d), n)
  <2> SUFFICES ASSUME type = "NEWKEYS" PROVE Has(d, "KEXINIT", n) /\ Has(d, Share(d), n)
    OBVIOUS
  <2>1. n = keyNo[d] + 1 /\ Exchanging(d) /\ Has("s2c", "ECDH_REPLY", n)
    BY DEF Moves, KexTypes
  <2>2. Has(d, "KEXINIT", n)
    BY <2>1 DEF ProgressInv
  <2>3. Has("c2s", "ECDH_INIT", n)
    <3>1. PICK i \in DOMAIN sent["s2c"] : sent["s2c"][i].type = "ECDH_REPLY" /\ sent["s2c"][i].kex = n
      BY <2>1 DEF Has
    <3> QED BY <3>1 DEF ProgressInv
  <2> QED BY <2>1, <2>2, <2>3 DEF Share, Dir
<1>5. ASSUME NEW e \in Dir, NEW i \in DOMAIN sent'[e], NEW k, k = sent'[e][i].kex
      PROVE  /\ sent'[e][i].type \in KexTypes => k = sent'[e][i].key + 1
             /\ sent'[e][i].type = "NEWKEYS" => Has(e, "KEXINIT", k)' /\ Has(e, Share(e), k)'
  <2>1. CASE e # d
    <3>1. sent'[e] = sent[e]
      BY <1>1, <2>1 DEF Grows
    <3> QED BY <1>3, <1>5, <3>1
  <2>2. CASE e = d /\ i \in DOMAIN sent[d]
    <3>1. sent'[e][i] = sent[e][i]
      BY <1>1, <2>2 DEF Grows
    <3> QED BY <1>3, <1>5, <2>2, <3>1
  <2>3. CASE e = d /\ i = Len(sent[d]) + 1
    <3>1. sent'[e][i].type = type /\ sent'[e][i].kex = n /\ sent'[e][i].key = keyNo[d]
      BY <1>1, <2>3 DEF Grows
    <3> QED BY <1>1, <1>2, <1>4, <1>5, <2>3, <3>1
  <2>4. e = d => i \in DOMAIN sent[d] \/ i = Len(sent[d]) + 1
    BY <1>1 DEF Grows
  <2> QED BY <2>1, <2>2, <2>3, <2>4
<1> QED BY <1>5 DEF ExchangeInv, Has

\* Secrets and client shares keep up with the keys.
LEMMA ProgressKept ==
    ASSUME SessionTypeOK, SessionInv, NEW d \in Dir, NEW type, NEW n, Moves(d, type, n)
    PROVE  ProgressInv'
<1>1. /\ Grows(d, type, n) /\ keyNo \in [Dir -> Int] /\ kexinits \in [Dir -> Nat] /\ Len(secrets) \in Nat
      /\ keyNo' = IF type = "NEWKEYS" THEN [keyNo EXCEPT ![d] = @ + 1] ELSE keyNo
      /\ kexinits' = IF type = "KEXINIT" THEN [kexinits EXCEPT ![d] = @ + 1] ELSE kexinits
      /\ type \in KexTypes => n = keyNo[d] + 1 /\ (Exchanging(d) <=> type # "KEXINIT")
  BY DEF Moves, SessionTypeOK
<1>2. \A e \in Dir : \A t, k : Has(e, t, k)' <=> Has(e, t, k) \/ (e = d /\ t = type /\ k = n)
  BY <1>1, HasGrows
<1>3. /\ \A e \in Dir : kexinits[e] <= keyNo[e] + 2 /\ (Exchanging(e) => Has(e, "KEXINIT", keyNo[e] + 1))
      /\ \A i \in DOMAIN sent["s2c"] : sent["s2c"][i].type = "ECDH_REPLY" =>
             Has("c2s", "ECDH_INIT", sent["s2c"][i].kex)
      /\ Len(secrets) >= keyNo["s2c"] + 1 + One(Has("s2c", "ECDH_REPLY", keyNo["s2c"] + 1))
      /\ ClientShares >= keyNo["c2s"] + 1 + One(Has("c2s", "ECDH_INIT", keyNo["c2s"] + 1))
  BY DEF SessionInv, ProgressInv
<1>4. "c2s" \in Dir /\ "s2c" \in Dir /\ Dir = {"c2s", "s2c"} /\ One(TRUE) = 1 /\ One(FALSE) = 0
  BY DEF Dir, One
<1>5. ASSUME NEW e \in Dir, NEW t \in KexTypes PROVE ~Has(e, t, keyNo[e] + 2)
  <2>1. keyNo[e] + 2 \in Int /\ ~(keyNo[e] + 2 <= keyNo[e] + 1)
    BY <1>1
  <2> QED BY <2>1, NotAhead DEF SessionInv
<1>6. ASSUME NEW e \in Dir, NEW k, k = keyNo'[e]
      PROVE  kexinits'[e] <= k + 2 /\ (Exchanging(e)' => Has(e, "KEXINIT", k + 1)')
  <2>1. keyNo[e] \in Int /\ kexinits[e] \in Nat
    BY <1>1
  <2>2. CASE e # d
    <3>1. keyNo'[e] = keyNo[e] /\ kexinits'[e] = kexinits[e]
      BY <1>1, <2>2
    <3> QED BY <1>2, <1>3, <1>6, <2>1, <3>1 DEF Exchanging
  <2>3. CASE e = d /\ type = "KEXINIT"
    <3>1. keyNo'[e] = keyNo[e] /\ kexinits'[e] = kexinits[e] + 1 /\ n = keyNo[e] + 1 /\ ~Exchanging(e)
      BY <1>1, <2>3 DEF KexTypes
    <3>2. kexinits[e] <= keyNo[e] + 1
      BY <2>1, <3>1 DEF Exchanging
    <3>3. Has(e, "KEXINIT", k + 1)'
      BY <1>2, <1>6, <2>3, <3>1
    <3> QED BY <1>6, <2>1, <3>1, <3>2, <3>3
  <2>4. CASE e = d /\ type = "NEWKEYS"
    <3>1. keyNo'[e] = keyNo[e] + 1 /\ kexinits'[e] = kexinits[e]
      BY <1>1, <2>4
    <3>2. kexinits[e] <= keyNo[e] + 2
      BY <1>3
    <3> QED BY <1>6, <2>1, <3>1, <3>2 DEF Exchanging
  <2>5. CASE e = d /\ type \notin {"KEXINIT", "NEWKEYS"}
    <3>1. keyNo'[e] = keyNo[e] /\ kexinits'[e] = kexinits[e]
      BY <1>1, <2>5
    <3> QED BY <1>2, <1>3, <1>6, <2>1, <3>1 DEF Exchanging
  <2> QED BY <2>2, <2>3, <2>4, <2>5
<1>7. ASSUME NEW i \in DOMAIN sent'["s2c"], sent'["s2c"][i].type = "ECDH_REPLY", NEW k, k = sent'["s2c"][i].kex
      PROVE  Has("c2s", "ECDH_INIT", k)'
  <2>1. Has("c2s", "ECDH_INIT", k)
    <3>1. CASE i \in DOMAIN sent["s2c"]
      <4>1. sent'["s2c"][i] = sent["s2c"][i]
        BY <1>1, <1>4, <3>1 DEF Grows
      <4> QED BY <1>3, <1>7, <3>1, <4>1
    <3>2. CASE i \notin DOMAIN sent["s2c"]
      <4>1. d = "s2c" /\ i = Len(sent["s2c"]) + 1
        <5>1. d = "s2c"
          BY <1>1, <1>4, <3>2 DEF Grows
        <5>2. /\ DOMAIN sent["s2c"] = 1..Len(sent["s2c"]) /\ Len(sent["s2c"]) \in Nat
              /\ DOMAIN sent'["s2c"] = 1..(Len(sent["s2c"]) + 1)
          BY <1>1, <5>1 DEF Grows
        <5> QED BY <3>2, <5>1, <5>2
      <4>2. type = "ECDH_REPLY" /\ n = k
        BY <1>1, <1>7, <4>1 DEF Grows
      <4> QED BY <4>2 DEF Moves
    <3> QED BY <3>1, <3>2
  <2> QED BY <1>2, <1>4, <2>1
<1>8. ASSUME NEW k, k = keyNo'["s2c"]
      PROVE  Len(secrets') >= k + 1 + One(Has("s2c", "ECDH_REPLY", k + 1)')
  <2> DEFINE h == keyNo["s2c"]
  <2>1. h \in Int /\ Len(secrets') = Len(secrets) + One(type = "ECDH_REPLY")
    BY <1>1, <1>4 DEF Moves, One
  <2>2. CASE type = "ECDH_REPLY"
    <3>1. d = "s2c" /\ n = h + 1 /\ k = h /\ ~Has("s2c", "ECDH_REPLY", h + 1)
      BY <1>1, <1>8, <2>2 DEF Moves, KexTypes
    <3>2. Len(secrets) >= h + 1 + 0
      BY <1>3, <3>1 DEF One
    <3>3. Has("s2c", "ECDH_REPLY", k + 1)' <=> TRUE
      BY <1>2, <1>4, <2>2, <3>1
    <3> HIDE DEF h
    <3> QED BY <1>1, <1>4, <2>1, <2>2, <3>1, <3>2, <3>3 DEF One
  <2>3. CASE type = "NEWKEYS" /\ d = "s2c"
    <3>1. n = h + 1 /\ k = h + 1 /\ Has("s2c", "ECDH_REPLY", h + 1)
      BY <1>1, <1>4, <1>8, <2>3 DEF Moves, KexTypes
    <3>2. Len(secrets) >= h + 1 + 1
      BY <1>3, <1>4, <3>1
    <3>3. Has("s2c", "ECDH_REPLY", k + 1)' <=> FALSE
      <4>1. ~Has("s2c", "ECDH_REPLY", h + 2) /\ h + 2 = k + 1
        BY <1>4, <1>5, <2>1, <3>1 DEF KexTypes
      <4> QED BY <1>2, <1>4, <2>3, <4>1
    <3> HIDE DEF h
    <3> QED BY <1>1, <1>4, <2>1, <2>3, <3>1, <3>2, <3>3 DEF One
  <2>4. CASE ~(type = "ECDH_REPLY" \/ (type = "NEWKEYS" /\ d = "s2c"))
    <3>1. k = h /\ Len(secrets') = Len(secrets)
      BY <1>1, <1>4, <1>8, <2>4 DEF Moves
    <3>2. Has("s2c", "ECDH_REPLY", k + 1)' <=> Has("s2c", "ECDH_REPLY", h + 1)
      BY <1>2, <1>4, <2>4, <3>1
    <3> QED BY <1>3, <3>1, <3>2 DEF One
  <2> QED BY <2>2, <2>3, <2>4
<1>9. ASSUME NEW k, k = keyNo'["c2s"]
      PROVE  ClientShares' >= k + 1 + One(Has("c2s", "ECDH_INIT", k + 1)')
  <2> DEFINE h == keyNo["c2s"]
  <2>1. /\ h \in Int /\ ClientShares \in Nat
        /\ ClientShares' = ClientShares + One("c2s" = d /\ "ECDH_INIT" = type)
    <3>1. ClientShares = Sent("c2s", "ECDH_INIT")
      BY DEF ClientShares, Sent
    <3>2. ClientShares' = Sent("c2s", "ECDH_INIT")'
      BY DEF ClientShares, Sent
    <3> QED BY <1>1, <1>4, <3>1, <3>2, SentGrows
  <2>2. CASE type = "ECDH_INIT"
    <3>1. d = "c2s" /\ n = h + 1 /\ k = h /\ ~Has("c2s", "ECDH_INIT", h + 1)
      BY <1>1, <1>9, <2>2 DEF Moves, KexTypes
    <3>2. ClientShares >= h + 1 + 0
      BY <1>3, <3>1 DEF One
    <3>3. Has("c2s", "ECDH_INIT", k + 1)' <=> TRUE
      BY <1>2, <1>4, <2>2, <3>1
    <3>4. ClientShares' = ClientShares + 1
      BY <2>1, <2>2, <3>1 DEF One
    <3> HIDE DEF h
    <3> QED BY <1>4, <2>1, <3>1, <3>2, <3>3, <3>4 DEF One
  <2>3. CASE type = "NEWKEYS" /\ d = "c2s"
    <3>1. n = h + 1 /\ k = h + 1 /\ Has("c2s", "ECDH_INIT", h + 1)
      <4>1. n = h + 1 /\ k = h + 1 /\ Has("s2c", "ECDH_REPLY", n)
        BY <1>1, <1>4, <1>9, <2>3 DEF Moves, KexTypes
      <4>2. PICK i \in DOMAIN sent["s2c"] : sent["s2c"][i].type = "ECDH_REPLY" /\ sent["s2c"][i].kex = n
        BY <4>1 DEF Has
      <4> QED BY <1>3, <4>1, <4>2
    <3>2. ClientShares >= h + 1 + 1
      BY <1>3, <1>4, <3>1
    <3>3. Has("c2s", "ECDH_INIT", k + 1)' <=> FALSE
      <4>1. ~Has("c2s", "ECDH_INIT", h + 2) /\ h + 2 = k + 1
        BY <1>4, <1>5, <2>1, <3>1 DEF KexTypes
      <4> QED BY <1>2, <1>4, <2>3, <4>1
    <3>4. ClientShares' = ClientShares
      BY <2>1, <2>3 DEF One
    <3> HIDE DEF h
    <3> QED BY <1>4, <2>1, <3>1, <3>2, <3>3, <3>4 DEF One
  <2>4. CASE ~(type = "ECDH_INIT" \/ (type = "NEWKEYS" /\ d = "c2s"))
    <3>1. k = h /\ ClientShares' = ClientShares
      BY <1>1, <1>4, <1>9, <2>1, <2>4 DEF One
    <3>2. Has("c2s", "ECDH_INIT", k + 1)' <=> Has("c2s", "ECDH_INIT", h + 1)
      BY <1>2, <1>4, <2>4, <3>1
    <3> QED BY <1>3, <3>1, <3>2 DEF One
  <2> QED BY <2>2, <2>3, <2>4
<1>10. \A e \in Dir : kexinits'[e] <= keyNo'[e] + 2 /\ (Exchanging(e) => Has(e, "KEXINIT", keyNo[e] + 1))'
  BY <1>6 DEF Has
<1>11. \A i \in DOMAIN sent'["s2c"] : sent'["s2c"][i].type = "ECDH_REPLY" =>
           Has("c2s", "ECDH_INIT", sent["s2c"][i].kex)'
  BY <1>7 DEF Has
<1>12. (Len(secrets) >= keyNo["s2c"] + 1 + One(Has("s2c", "ECDH_REPLY", keyNo["s2c"] + 1)))'
  BY <1>8 DEF Has, One
<1>13. (ClientShares >= keyNo["c2s"] + 1 + One(Has("c2s", "ECDH_INIT", keyNo["c2s"] + 1)))'
  BY <1>9 DEF Has, One
<1> QED BY <1>10, <1>11, <1>12, <1>13 DEF ProgressInv

\* The plaintext stays short.
LEMMA OpeningKept ==
    ASSUME SessionTypeOK, SessionInv, \A e \in Dir : keyNo[e] >= -1,
           NEW d \in Dir, NEW type \in MsgType, NEW n, Moves(d, type, n)
    PROVE  OpeningInv'
<1>1. /\ Grows(d, type, n) /\ keyNo \in [Dir -> Int] /\ kexinits \in [Dir -> Nat]
      /\ keyNo' = IF type = "NEWKEYS" THEN [keyNo EXCEPT ![d] = @ + 1] ELSE keyNo
      /\ kexinits' = IF type = "KEXINIT" THEN [kexinits EXCEPT ![d] = @ + 1] ELSE kexinits
  BY DEF Moves, SessionTypeOK
<1>2. \A e \in Dir : \A t, k : Has(e, t, k)' <=> Has(e, t, k) \/ (e = d /\ t = type /\ k = n)
  BY <1>1, HasGrows
<1>3. \A e \in Dir : \A t : Sent(e, t) \in Nat /\ Sent(e, t)' = Sent(e, t) + One(e = d /\ t = type)
  BY <1>1, SentGrows
<1>4. "c2s" \in Dir /\ "s2c" \in Dir /\ Dir = {"c2s", "s2c"} /\ One(TRUE) = 1 /\ One(FALSE) = 0
      /\ MaxOther \in Nat
  BY SessionAssumption DEF Dir, One
<1>5. /\ Sent("c2s", "OTHER") + Sent("s2c", "OTHER") <= MaxOther
      /\ \A e \in Dir :
          /\ keyNo[e] = -1 => Len(sent[e]) <= kexinits[e] + One(Has(e, Share(e), 0)) + Sent(e, "OTHER")
          /\ \A i \in DOMAIN sent[e] : sent[e][i].key = -1 => i <= 3 + MaxOther
          /\ kexinits[e] <= keyNo[e] + 2
  BY DEF SessionInv, OpeningInv, ProgressInv
<1>6. Sent("c2s", "OTHER")' + Sent("s2c", "OTHER")' <= MaxOther
  <2>1. CASE type = "OTHER"
    <3>1. Sent("c2s", "OTHER") + Sent("s2c", "OTHER") < MaxOther
      BY <2>1 DEF Moves
    <3>2. One("c2s" = d /\ "OTHER" = type) + One("s2c" = d /\ "OTHER" = type) <= 1
      BY <1>4 DEF One
    <3> QED BY <1>3, <1>4, <3>1, <3>2 DEF One
  <2>2. CASE type # "OTHER"
    BY <1>3, <1>4, <1>5, <2>2 DEF One
  <2> QED BY <2>1, <2>2
<1>7. ASSUME NEW e \in Dir, keyNo'[e] = -1
      PROVE  Len(sent'[e]) <= kexinits'[e] + One(Has(e, Share(e), 0)') + Sent(e, "OTHER")'
  <2>1. CASE e # d
    <3>1. keyNo'[e] = keyNo[e] /\ kexinits'[e] = kexinits[e] /\ sent'[e] = sent[e]
      BY <1>1, <2>1 DEF Grows
    <3>2. Has(e, Share(e), 0)' <=> Has(e, Share(e), 0)
      BY <1>2, <2>1
    <3>3. Sent(e, "OTHER")' = Sent(e, "OTHER")
      BY <1>3, <2>1 DEF One
    <3> QED BY <1>5, <1>7, <3>1, <3>2, <3>3 DEF One
  <2>2. CASE e = d
    <3>1. keyNo[d] = -1 /\ type # "NEWKEYS"
      <4>1. keyNo[d] >= -1 /\ keyNo[d] \in Int
        BY <1>1
      <4>2. keyNo'[d] = IF type = "NEWKEYS" THEN keyNo[d] + 1 ELSE keyNo[d]
        BY <1>1
      <4> QED BY <1>7, <2>2, <4>1, <4>2
    <3>2. /\ Len(sent'[d]) = Len(sent[d]) + 1 /\ Len(sent[d]) \in Nat
          /\ Len(sent[d]) <= kexinits[d] + One(Has(d, Share(d), 0)) + Sent(d, "OTHER")
          /\ kexinits[d] \in Nat /\ Sent(d, "OTHER") \in Nat
          /\ Sent(d, "OTHER")' = Sent(d, "OTHER") + One(type = "OTHER")
      BY <1>1, <1>3, <1>5, <3>1 DEF Grows, One
    <3>3. kexinits'[d] = kexinits[d] + One(type = "KEXINIT")
      BY <1>1, <3>2 DEF One
    <3>4. One(Has(d, Share(d), 0)') >= One(Has(d, Share(d), 0)) + One(type = Share(d))
      <4>1. CASE type = Share(d)
        <5>1. type \in {"ECDH_INIT", "ECDH_REPLY"}
          BY <4>1 DEF Share
        <5>2. n = keyNo[d] + 1 /\ ~Has(d, type, n)
          BY <5>1 DEF Moves, KexTypes
        <5>3. n = 0
          BY <3>1, <5>2
        <5> QED BY <1>2, <4>1, <5>2, <5>3 DEF One
      <4>2. CASE type # Share(d)
        BY <1>2, <4>2 DEF One
      <4> QED BY <4>1, <4>2
    <3>5. type \in {"KEXINIT", "OTHER", Share(d)}
      <4>1. type # "CHANNEL_DATA"
        BY <3>1 DEF Moves
      <4>2. type = "ECDH_INIT" => d = "c2s"
        BY DEF Moves
      <4>3. type = "ECDH_REPLY" => d = "s2c"
        BY DEF Moves
      <4> QED BY <3>1, <4>1, <4>2, <4>3 DEF MsgType, Share
    <3>6. One(type = "OTHER") + One(type = "KEXINIT") + One(type = Share(d)) = 1
      BY <3>5 DEF One, Share
    <3>7. /\ One(Has(d, Share(d), 0)') \in Nat /\ One(Has(d, Share(d), 0)) \in Nat
          /\ One(type = "OTHER") \in Nat /\ One(type = "KEXINIT") \in Nat /\ One(type = Share(d)) \in Nat
      BY DEF One
    <3>8. Len(sent[d]) + 1 <= (kexinits[d] + One(type = "KEXINIT")) + One(Has(d, Share(d), 0)')
                              + (Sent(d, "OTHER") + One(type = "OTHER"))
      <4> DEFINE g == One(Has(d, Share(d), 0)')
                 h == One(Has(d, Share(d), 0))
                 x == One(type = "OTHER")
                 y == One(type = "KEXINIT")
                 z == One(type = Share(d))
                 k == kexinits[d]
                 s == Sent(d, "OTHER")
                 l == Len(sent[d])
      <4>1. /\ g \in Nat /\ h \in Nat /\ x \in Nat /\ y \in Nat /\ z \in Nat
            /\ k \in Nat /\ s \in Nat /\ l \in Nat
        BY <3>2, <3>7, Zenon
      <4>2. l <= k + h + s /\ g >= h + z /\ x + y + z = 1
        BY <3>2, <3>4, <3>6, Zenon
      <4> HIDE DEF g, h, x, y, z, k, s, l
      <4>3. l + 1 <= (k + y) + g + (s + x)
        BY <4>1, <4>2
      <4> QED BY <4>3, Zenon DEF g, x, y, k, s, l
    <3> QED BY <2>2, <3>2, <3>3, <3>8
  <2> QED BY <2>1, <2>2
<1>8. ASSUME NEW e \in Dir, NEW i \in DOMAIN sent'[e], sent'[e][i].key = -1
      PROVE  i <= 3 + MaxOther
  <2>1. CASE i \in DOMAIN sent[e]
    <3>1. sent'[e][i] = sent[e][i]
      BY <1>1, <2>1 DEF Grows
    <3> QED BY <1>5, <1>8, <2>1, <3>1
  <2>2. CASE i \notin DOMAIN sent[e]
    <3>1. e = d /\ i = Len(sent[d]) + 1 /\ keyNo[d] = -1 /\ Len(sent[d]) \in Nat
      BY <1>1, <1>8, <2>2 DEF Grows
    <3>2. Len(sent[d]) <= kexinits[d] + One(Has(d, Share(d), 0)) + Sent(d, "OTHER")
      BY <1>5, <3>1
    <3>3. kexinits[d] \in Nat /\ kexinits[d] <= 1 /\ One(Has(d, Share(d), 0)) \in 0..1
      BY <1>1, <1>5, <3>1 DEF One
    <3>4. Sent(d, "OTHER") \in Nat /\ Sent(d, "OTHER") <= MaxOther
      BY <1>3, <1>4, <1>5
    <3> QED BY <1>4, <3>1, <3>2, <3>3, <3>4
  <2> QED BY <2>1, <2>2
<1> QED BY <1>6, <1>7, <1>8 DEF OpeningInv

\* Every step of an endpoint keeps SessionInv.
LEMMA SessionKept ==
    ASSUME SessionTypeOK, SessionInv, \A e \in Dir : keyNo[e] >= -1, SessionStep
    PROVE  SessionInv'
<1>1. PICK d \in Dir, type \in MsgType, n \in Int : Moves(d, type, n)
  BY SessionMoves
<1> QED BY <1>1, SealKept, OrderKept, ExchangeKept, ProgressKept, OpeningKept DEF SessionInv
-----------------------------------------------------------------------------
\* Counting on from a number that has wrapped.
LEMMA WrapsOn ==
    ASSUME NEW m \in Nat \ {0}, NEW a \in Nat
    PROVE  ((a % m) + 1) % m = (a + 1) % m
<1> DEFINE q == a \div m
           s == a % m
<1>1. a = m * q + s /\ q \in Nat /\ s \in Nat /\ s < m
  OBVIOUS
<1>2. \A p, t \in Nat : t < m => (m * p + t) % m = t
  OBVIOUS
<1> HIDE DEF q, s
<1>3. CASE s + 1 < m
  <2>1. a + 1 = m * q + (s + 1)
    BY <1>1
  <2>2. (s + 1) % m = s + 1
    BY <1>1, <1>3
  <2>3. (m * q + (s + 1)) % m = s + 1
    BY <1>1, <1>2, <1>3
  <2> QED BY <2>1, <2>2, <2>3 DEF s
<1>4. CASE s + 1 = m
  <2>1. a + 1 = m * (q + 1) + 0 /\ q + 1 \in Nat
    <3>1. m * (q + 1) = m * q + m /\ m * q \in Nat
      BY <1>1
    <3> QED BY <1>1, <1>4, <3>1
  <2>2. (m * (q + 1) + 0) % m = 0
    BY <1>2, <2>1
  <2>3. m % m = 0
    <3>1. m = m * 1 + 0
      OBVIOUS
    <3> QED BY <1>2, <3>1
  <2> QED BY <1>4, <2>1, <2>2, <2>3 DEF s
<1> QED BY <1>1, <1>3, <1>4

\* Position p is where the packets under key k begin, and q where they end.
Starts(d, p, k) == p \in 0..Len(sent[d]) /\ KeyAfter(d, p) = k /\ \A j \in 1..p : sent[d][j].key < k
Ends(d, p, q) == /\ q \in (p + 1)..Len(sent[d]) /\ sent[d][q].type = "NEWKEYS"
                 /\ \A j \in (p + 1)..(q - 1) : sent[d][j].type # "NEWKEYS"

\* Between two NEWKEYS the key stays, and sequence numbers count on.
LEMMA Segment ==
    ASSUME SessionTypeOK, SealInv, NEW d \in Dir, NEW p \in 0..Len(sent[d]), NEW q \in p..Len(sent[d]),
           \A j \in (p + 1)..(q - 1) : sent[d][j].type # "NEWKEYS"
    PROVE  /\ SeqAfter(d, p) \in Nat /\ SeqAfter(d, p) < SeqLimit
           /\ \A i \in (p + 1)..q : /\ sent[d][i].key = KeyAfter(d, p)
                                    /\ sent[d][i].seq = (SeqAfter(d, p) + (i - p - 1)) % SeqLimit
<1> DEFINE s == SeqAfter(d, p)
           c == KeyAfter(d, p)
           Good == {k \in Nat : k > 0 => /\ sent[d][p + k].key = c
                                         /\ sent[d][p + k].seq = (s + (k - 1)) % SeqLimit}
           l == Len(sent[d])
<1>1. /\ l \in Nat /\ DOMAIN sent[d] = 1..l /\ SeqLimit \in Nat \ {0} /\ SeqLimit > 0
      /\ p \in Nat /\ q \in Nat /\ p <= q /\ q <= l
  <2>1. sent[d] \in Seq(PacketType)
    BY DEF SessionTypeOK, PacketType
  <2> QED BY <2>1, SessionAssumption
<1>2. \A i \in 1..l : sent[d][i].seq \in Nat /\ sent[d][i].key \in Int
  BY <1>1, PacketTypes
<1>3. \A a \in Nat : a % SeqLimit \in Nat /\ a % SeqLimit < SeqLimit /\ (a < SeqLimit => a % SeqLimit = a)
  BY <1>1
<1>4. s \in Nat /\ s < SeqLimit
  <2>1. CASE p = 0
    BY <1>1, <2>1 DEF SeqAfter
  <2>2. CASE p # 0
    <3>1. sent[d][p].seq + 1 \in Nat
      BY <1>1, <1>2, <2>2
    <3> QED BY <1>1, <1>3, <2>2, <3>1 DEF SeqAfter
  <2> QED BY <2>1, <2>2
<1>5. \A i \in 1..l : sent[d][i].key = KeyAfter(d, i - 1) /\ sent[d][i].seq = SeqAfter(d, i - 1)
  BY <1>1 DEF SealInv
<1> HIDE DEF s, c, l
<1>6. ASSUME NEW k \in 1..(q - p), k - 1 \in Good PROVE k \in Good
  <2>1. k \in Nat /\ k > 0 /\ p + k \in 1..l /\ p + k - 1 = p + (k - 1)
    BY <1>1
  <2>2. CASE k = 1
    <3>1. p + k - 1 = p /\ k - 1 = 0 /\ s + (k - 1) = s
      BY <1>1, <1>4, <2>2
    <3>2. sent[d][p + k].key = c /\ sent[d][p + k].seq = s
      BY <1>5, <2>1, <3>1 DEF c, s
    <3> QED BY <1>3, <1>4, <2>1, <3>1, <3>2
  <2>3. CASE k > 1
    <3> DEFINE i == p + (k - 1)
    <3>1. i \in 1..l /\ i \in (p + 1)..(q - 1) /\ i # 0 /\ p + k - 1 = i /\ k - 1 > 0 /\ k - 1 - 1 \in Nat
      BY <1>1, <2>1, <2>3
    <3>2. sent[d][i].type # "NEWKEYS" /\ sent[d][i].key = c /\ sent[d][i].seq = (s + (k - 1 - 1)) % SeqLimit
      BY <1>6, <3>1
    <3>3. sent[d][p + k].key = c /\ sent[d][p + k].seq = (sent[d][i].seq + 1) % SeqLimit
      BY <1>5, <2>1, <3>1, <3>2 DEF KeyAfter, SeqAfter
    <3>4. s + (k - 1 - 1) \in Nat /\ (s + (k - 1 - 1)) + 1 = s + (k - 1)
      BY <1>4, <3>1
    <3>5. sent[d][p + k].seq = (s + (k - 1)) % SeqLimit
      BY <1>1, <3>2, <3>3, <3>4, WrapsOn
    <3> QED BY <2>1, <3>3, <3>5
  <2> QED BY <2>1, <2>2, <2>3
<1>7. 0 \in Good
  OBVIOUS
<1>8. q - p \in Nat
  BY <1>1
<1> HIDE DEF Good
<1>9. 0..(q - p) \subseteq Good
  BY <1>6, <1>7, <1>8, ChainInduction
<1>10. ASSUME NEW i \in (p + 1)..q
       PROVE  sent[d][i].key = c /\ sent[d][i].seq = (s + (i - p - 1)) % SeqLimit
  <2>1. i - p \in 0..(q - p) /\ i - p > 0 /\ p + (i - p) = i
    BY <1>1
  <2>2. i - p \in Good
    BY <1>9, <2>1
  <2> QED BY <2>1, <2>2 DEF Good
<1> QED BY <1>4, <1>10 DEF s, c

\* What follows the end of an epoch counts on, or from zero under strict KEX.
LEMMA SeqBehind ==
    ASSUME SessionTypeOK, SealInv, NEW d \in Dir, NEW p \in 0..Len(sent[d]), NEW q \in (p + 1)..Len(sent[d]),
           Ends(d, p, q)
    PROVE  SeqAfter(d, q) = IF strict THEN 0 ELSE (SeqAfter(d, p) + (q - p)) % SeqLimit
<1>1. p \in Nat /\ q \in Nat /\ q # 0 /\ q \in p..Len(sent[d]) /\ q \in (p + 1)..q /\ SeqLimit \in Nat \ {0}
  <2>1. sent[d] \in Seq(PacketType)
    BY DEF SessionTypeOK, PacketType
  <2>2. Len(sent[d]) \in Nat
    BY <2>1
  <2> QED BY <2>2, SessionAssumption
<1>2. /\ SeqAfter(d, p) \in Nat
      /\ sent[d][q].seq = (SeqAfter(d, p) + (q - p - 1)) % SeqLimit
  BY <1>1, Segment DEF Ends
<1>3. ASSUME NEW s \in Nat
      PROVE  (((s + (q - p - 1)) % SeqLimit) + 1) % SeqLimit = (s + (q - p)) % SeqLimit
  <2> DEFINE a == s + (q - p - 1)
  <2>1. a \in Nat /\ a + 1 = s + (q - p)
    BY <1>1
  <2> HIDE DEF a
  <2>2. ((a % SeqLimit) + 1) % SeqLimit = (a + 1) % SeqLimit
    BY <1>1, <2>1, WrapsOn
  <2> QED BY <2>1, <2>2 DEF a
<1>4. (sent[d][q].seq + 1) % SeqLimit = (SeqAfter(d, p) + (q - p)) % SeqLimit
  BY <1>2, <1>3
<1> QED BY <1>1, <1>4 DEF SeqAfter, Ends

\* A direction whose keys are past k has a NEWKEYS that ends them.
LEMMA EndAhead ==
    ASSUME SessionTypeOK, SealInv, OrderInv, NEW d \in Dir, NEW p, NEW k \in Int, Starts(d, p, k)
    PROVE  IF k < keyNo[d] THEN \E q : Ends(d, p, q)
           ELSE \A j \in (p + 1)..Len(sent[d]) : sent[d][j].type # "NEWKEYS"
<1> DEFINE l == Len(sent[d])
           S == {q \in (p + 1)..l : sent[d][q].type = "NEWKEYS"}
<1>1. l \in Nat /\ DOMAIN sent[d] = 1..l /\ keyNo[d] \in Int /\ p \in 0..l /\ p \in Nat
  <2>1. sent[d] \in Seq(PacketType)
    BY DEF SessionTypeOK, PacketType
  <2>2. l \in Nat /\ DOMAIN sent[d] = 1..l
    BY <2>1
  <2> QED BY <2>2 DEF Starts, SessionTypeOK
<1>2. KeyAfter(d, p) = k
  BY DEF Starts
<1>3. CASE S = {}
  <2>1. keyNo[d] = k
    <3>1. CASE p = l
      BY <1>1, <1>2, <3>1 DEF SealInv
    <3>2. CASE p < l
      <4>1. l \in (p + 1)..l /\ l \in p..l /\ l # 0
        BY <1>1, <3>2
      <4>2. sent[d][l].key = k /\ sent[d][l].type # "NEWKEYS"
        <5>1. \A j \in (p + 1)..(l - 1) : sent[d][j].type # "NEWKEYS"
          BY <1>1, <1>3
        <5> QED BY <1>1, <1>2, <1>3, <4>1, <5>1, Segment
      <4> QED BY <4>1, <4>2 DEF SealInv, KeyAfter
    <3> QED BY <1>1, <3>1, <3>2
  <2> QED BY <1>1, <1>3, <2>1
<1>4. CASE S # {}
  <2>1. S \in SUBSET Nat
    BY <1>1
  <2>2. PICK q \in S : \A m \in S : q <= m
    BY <1>4, <2>1, LeastNumber
  <2>3. \A j \in (p + 1)..(q - 1) : sent[d][j].type # "NEWKEYS"
    <3>1. \A j \in (p + 1)..(q - 1) : j \in (p + 1)..l /\ ~(q <= j)
      BY <1>1, <2>2
    <3> QED BY <2>2, <3>1
  <2>4. Ends(d, p, q)
    BY <2>2, <2>3 DEF Ends
  <2>5. k < keyNo[d]
    <3>1. q \in DOMAIN sent[d] /\ q \in (p + 1)..q /\ q \in p..l
      BY <1>1, <2>2
    <3>2. sent[d][q].key = k
      BY <1>1, <1>2, <2>3, <3>1, Segment
    <3> QED BY <2>2, <3>1, <3>2 DEF OrderInv
  <2> QED BY <2>4, <2>5
<1> QED BY <1>3, <1>4

\* An epoch has the key it begins with, holds all messages of the next exchange
\* and is followed by the keys of that.
LEMMA EpochSpan ==
    ASSUME SessionTypeOK, SessionInv, NEW d \in Dir, NEW p, NEW q, NEW k \in Int,
           Starts(d, p, k), Ends(d, p, q)
    PROVE  /\ Starts(d, q, k + 1)
           /\ \A i \in (p + 1)..q : sent[d][i].key = k
           /\ \E j \in (p + 1)..q : sent[d][j].type = "KEXINIT"
           /\ \E j \in (p + 1)..q : sent[d][j].type = Share(d)
<1> DEFINE l == Len(sent[d])
<1>1. /\ l \in Nat /\ DOMAIN sent[d] = 1..l /\ p \in 0..l /\ p \in Nat /\ q \in (p + 1)..l
      /\ SealInv /\ OrderInv /\ ExchangeInv
  <2>1. sent[d] \in Seq(PacketType)
    BY DEF SessionTypeOK, PacketType
  <2> QED BY <2>1 DEF Starts, Ends, SessionInv
<1>2. \A i \in 1..l : sent[d][i].key \in Int
  BY <1>1, PacketTypes
<1>3. \A i \in (p + 1)..q : sent[d][i].key = k
  <2>1. q \in p..l /\ KeyAfter(d, p) = k
    BY <1>1 DEF Starts
  <2> QED BY <1>1, <2>1, Segment DEF Ends
<1>4. q \in 1..l /\ q \in (p + 1)..q /\ q # 0 /\ sent[d][q].key = k /\ sent[d][q].type = "NEWKEYS"
  BY <1>1, <1>3 DEF Ends
<1>5. Starts(d, q, k + 1)
  <2>1. KeyAfter(d, q) = k + 1 /\ q \in 0..l
    BY <1>1, <1>4 DEF KeyAfter
  <2>2. ASSUME NEW j \in 1..q PROVE sent[d][j].key < k + 1
    <3>1. j \in 1..l /\ q \in j..l
      BY <1>1, <1>4
    <3>2. sent[d][j].key <= sent[d][q].key
      BY <1>1, <3>1 DEF OrderInv
    <3> QED BY <1>2, <1>4, <3>1, <3>2
  <2> QED BY <2>1, <2>2 DEF Starts
<1>6. ASSUME NEW t \in {"KEXINIT", Share(d)} PROVE \E j \in (p + 1)..q : sent[d][j].type = t
  <2>1. t \in KexTypes /\ "NEWKEYS" \in KexTypes
    BY DEF KexTypes, Share
  <2>2. sent[d][q].kex = k + 1 /\ Has(d, t, k + 1)
    BY <1>1, <1>4, <2>1 DEF ExchangeInv
  <2>3. PICK j \in DOMAIN sent[d] : sent[d][j].type = t /\ sent[d][j].kex = k + 1
    BY <2>2 DEF Has
  <2>4. sent[d][j].key = k /\ j \in 1..l
    <3>1. sent[d][j].kex = sent[d][j].key + 1 /\ j \in 1..l
      BY <1>1, <2>1, <2>3 DEF ExchangeInv
    <3> QED BY <1>2, <2>3, <3>1
  <2>5. j > p
    <3>1. ~(j \in 1..p)
      BY <2>4 DEF Starts
    <3> QED BY <1>1, <2>4, <3>1
  <2>6. j <= q
    <3> SUFFICES ASSUME j > q PROVE FALSE
      BY <1>1, <2>4
    <3>1. q + 1 \in 1..l /\ j \in (q + 1)..l /\ (q + 1) - 1 = q
      BY <1>1, <2>4
    <3>2. sent[d][q + 1].key = k + 1
      <4>1. sent[d][q + 1].key = KeyAfter(d, q)
        BY <1>1, <3>1 DEF SealInv
      <4> QED BY <1>4, <4>1 DEF KeyAfter
    <3>3. sent[d][q + 1].key <= sent[d][j].key
      BY <1>1, <3>1 DEF OrderInv
    <3> QED BY <2>4, <3>2, <3>3
  <2> QED BY <1>1, <2>3, <2>4, <2>5, <2>6
<1> QED BY <1>3, <1>5, <1>6

\* FirstOf finds the first packet of a type that is in the range.
LEMMA FirstOfThere ==
    ASSUME NEW d, NEW type, NEW from \in Nat \ {0}, NEW to \in Nat,
           \E j \in from..to : sent[d][j].type = type
    PROVE  /\ FirstOf(d, type, from, to) # 0 /\ FirstOf(d, type, from, to) \in from..to
           /\ sent[d][FirstOf(d, type, from, to)].type = type
<1> DEFINE S == {i \in from..to : sent[d][i].type = type}
           first == {i \in from..to : /\ sent[d][i].type = type
                                      /\ \A j \in from..(i - 1) : sent[d][j].type # type}
<1>1. PICK i \in S : \A j \in S : i <= j
  <2>1. S \in SUBSET Nat /\ S # {}
    OBVIOUS
  <2> QED BY <2>1, LeastNumber
<1>2. i \in first
  <2>1. \A j \in from..(i - 1) : j \in from..to /\ ~(i <= j)
    BY <1>1
  <2> QED BY <1>1, <2>1
<1>3. FirstOf(d, type, from, to) = CHOOSE j \in first : TRUE
  BY <1>2 DEF FirstOf
<1>4. (CHOOSE j \in first : TRUE) \in first
  BY <1>2
<1> QED BY <1>3, <1>4

\* extract_kex_exchange finds the exchange whose messages are in the range.
LEMMA KexFound ==
    ASSUME SessionTypeOK, ExchangeInv, NEW from \in [Dir -> Nat \ {0}], NEW to \in [Dir -> Nat], NEW k \in Int,
           \A d \in Dir : /\ to[d] <= Len(sent[d]) /\ \A i \in from[d]..to[d] : sent[d][i].key = k
                          /\ \E j \in from[d]..to[d] : sent[d][j].type = "KEXINIT"
                          /\ \E j \in from[d]..to[d] : sent[d][j].type = Share(d)
    PROVE  /\ AllFound(KexMessages(from, to))
           /\ extract_kex_exchange(KexMessages(from, to)) = Transcript(k + 1)
<1> DEFINE at == KexMessages(from, to)
<1>1. ASSUME NEW d \in Dir, NEW t \in {"KEXINIT", Share(d)}
      PROVE  /\ FirstOf(d, t, from[d], to[d]) # 0
             /\ sent[d][FirstOf(d, t, from[d], to[d])].kex = k + 1
  <2> DEFINE f == from[d]
             g == to[d]
             i == FirstOf(d, t, f, g)
  <2>1. f \in Nat \ {0} /\ g \in Nat /\ \E j \in f..g : sent[d][j].type = t
    OBVIOUS
  <2> HIDE DEF f, g
  <2>2. i # 0 /\ i \in f..g /\ sent[d][i].type = t
    BY <2>1, FirstOfThere
  <2> HIDE DEF i
  <2>3. i \in DOMAIN sent[d] /\ sent[d][i].key = k
    <3>1. sent[d] \in Seq(PacketType)
      BY DEF SessionTypeOK, PacketType
    <3>2. DOMAIN sent[d] = 1..Len(sent[d]) /\ Len(sent[d]) \in Nat
      BY <3>1
    <3> QED BY <2>1, <2>2, <3>2 DEF f, g
  <2>4. sent[d][i].kex = k + 1
    BY <2>2, <2>3 DEF ExchangeInv, KexTypes, Share
  <2> QED BY <2>2, <2>4 DEF i, f, g
<1>2. "c2s" \in Dir /\ "s2c" \in Dir /\ Share("c2s") = "ECDH_INIT" /\ Share("s2c") = "ECDH_REPLY"
  BY DEF Dir, Share
<1>3. /\ at.I_C = FirstOf("c2s", "KEXINIT", from["c2s"], to["c2s"])
      /\ at.I_S = FirstOf("s2c", "KEXINIT", from["s2c"], to["s2c"])
      /\ at.Q_C = FirstOf("c2s", "ECDH_INIT", from["c2s"], to["c2s"])
      /\ at.Q_S = FirstOf("s2c", "ECDH_REPLY", from["s2c"], to["s2c"])
  BY DEF KexMessages
<1> HIDE DEF at
<1>4. /\ at.I_C # 0 /\ at.I_S # 0 /\ at.Q_C # 0 /\ at.Q_S # 0
      /\ sent["c2s"][at.I_C].kex = k + 1 /\ sent["s2c"][at.I_S].kex = k + 1
      /\ sent["c2s"][at.Q_C].kex = k + 1 /\ sent["s2c"][at.Q_S].kex = k + 1
  BY <1>1, <1>2, <1>3
<1> QED BY <1>4 DEF at, AllFound, extract_kex_exchange, Transcript
-----------------------------------------------------------------------------
\* Positions and counts of a stream are natural numbers.
LEMMA StreamNats ==
    ASSUME SessionTypeOK, NEW d \in Dir
    PROVE  Len(sent[d]) \in Nat /\ DOMAIN sent[d] = 1..Len(sent[d]) /\ keyNo[d] \in Int
<1>1. sent[d] \in Seq(PacketType)
  BY DEF SessionTypeOK, PacketType
<1> QED BY <1>1 DEF SessionTypeOK

\* The plaintext of a whole session is read through its NEWKEYS: the initial
\* exchange is found, and the decoder's numbers are those of the endpoints.
LEMMA LoadWhole ==
    ASSUME LadderInv, SessionInv, WholeSession, LoadWire
    PROVE  pc' = "start" /\ PlaceInv'
<1> DEFINE end == [d \in Dir |-> CHOOSE i \in PlainEnd(d) : TRUE]
           one == [d \in Dir |-> 1]
           at  == KexMessages(one, end)
<1>1. /\ SessionTypeOK /\ SealInv /\ OrderInv /\ ExchangeInv /\ OpeningInv /\ pc = "load" /\ epoch = 0
  BY DEF LadderInv, TypeInv, TypeOK, SessionInv, LoadWire, Quiet
<1>2. ASSUME NEW d \in Dir
      PROVE  /\ Len(sent[d]) \in Nat /\ DOMAIN sent[d] = 1..Len(sent[d])
             /\ cut[d] = Len(sent[d]) /\ keyNo[d] \in Int /\ keyNo[d] >= 0
  BY <1>1, StreamNats DEF WholeSession, Dir
<1>3. ASSUME NEW d \in Dir PROVE Starts(d, 0, -1)
  BY <1>2 DEF Starts, KeyAfter
<1>4. ASSUME NEW d \in Dir, NEW q PROVE Ends(d, 0, q) <=> q \in PlainEnd(d)
  BY <1>2 DEF Ends, PlainEnd
<1>5. ASSUME NEW d \in Dir PROVE PlainEnd(d) # {}
  <2>1. -1 \in Int /\ -1 < keyNo[d]
    BY <1>2
  <2>2. \E q : Ends(d, 0, q)
    BY <1>1, <1>3, <2>1, EndAhead
  <2> QED BY <1>4, <2>2
<1>6. \A d \in Dir : end[d] \in PlainEnd(d)
  BY <1>5
<1>7. WireFound
  BY DEF WholeSession
<1>8. /\ AllFound(at) => /\ kex' = extract_kex_exchange(at)
                         /\ pos' = end /\ seq' = end /\ pc' = "start"
                         /\ UNCHANGED <<epoch, sid>>
      /\ UNCHANGED sessionVars
  BY <1>5, <1>7 DEF LoadWire
<1>9. one \in [Dir -> Nat \ {0}] /\ \A d \in Dir : one[d] = 1
  OBVIOUS
<1>10. end = [d \in Dir |-> end[d]]
  OBVIOUS
<1> HIDE DEF end, one
<1>11. ASSUME NEW d \in Dir
       PROVE  /\ Ends(d, 0, end[d]) /\ end[d] \in 1..Len(sent[d]) /\ end[d] \in Nat
              /\ sent[d][end[d]].type = "NEWKEYS"
              /\ \A i \in 1..end[d] : sent[d][i].key = -1
              /\ \E j \in 1..end[d] : sent[d][j].type = "KEXINIT"
              /\ \E j \in 1..end[d] : sent[d][j].type = Share(d)
  <2>1. Ends(d, 0, end[d])
    BY <1>4, <1>6
  <2>2. end[d] \in (0 + 1)..Len(sent[d]) /\ sent[d][end[d]].type = "NEWKEYS"
    BY <2>1 DEF Ends
  <2>3. /\ \A i \in (0 + 1)..end[d] : sent[d][i].key = -1
        /\ \E j \in (0 + 1)..end[d] : sent[d][j].type = "KEXINIT"
        /\ \E j \in (0 + 1)..end[d] : sent[d][j].type = Share(d)
    BY <1>1, <1>3, <2>1, EpochSpan
  <2> QED BY <1>2, <2>1, <2>2, <2>3
<1>12. AllFound(at) /\ extract_kex_exchange(at) = Transcript(0)
  <2>1. end \in [Dir -> Nat]
    BY <1>10, <1>11
  <2>2. \A d \in Dir : /\ end[d] <= Len(sent[d]) /\ \A i \in one[d]..end[d] : sent[d][i].key = -1
                       /\ \E j \in one[d]..end[d] : sent[d][j].type = "KEXINIT"
                       /\ \E j \in one[d]..end[d] : sent[d][j].type = Share(d)
    BY <1>2, <1>9, <1>11
  <2>3. -1 \in Int /\ (-1) + 1 = 0
    OBVIOUS
  <2> QED BY <1>1, <1>9, <2>1, <2>2, <2>3, KexFound
<1>13. ASSUME NEW d \in Dir, ~strict PROVE end[d] = SeqAfter(d, end[d])
  <2>1. end[d] <= 3 + MaxOther /\ SeqLimit > 3 + MaxOther /\ MaxOther \in Nat /\ SeqLimit \in Nat
    <3>1. end[d] \in DOMAIN sent[d] /\ sent[d][end[d]].key = -1
      BY <1>2, <1>11
    <3> QED BY <1>1, <3>1, SessionAssumption DEF OpeningInv
  <2>2. end[d] \in Nat /\ end[d] < SeqLimit
    BY <1>11, <2>1
  <2>3. end[d] % SeqLimit = end[d]
    BY <2>1, <2>2
  <2>4. SeqAfter(d, end[d]) = (SeqAfter(d, 0) + (end[d] - 0)) % SeqLimit
    <3>1. 0 \in 0..Len(sent[d]) /\ end[d] \in (0 + 1)..Len(sent[d])
      BY <1>2, <1>11
    <3> QED BY <1>1, <1>11, <1>13, <3>1, SeqBehind
  <2>5. SeqAfter(d, 0) = 0
    BY DEF SeqAfter
  <2> QED BY <2>2, <2>3, <2>4, <2>5
<1>14. /\ pc' = "start" /\ kex' = Transcript(0) /\ epoch' = 0 /\ pos' = end /\ seq' = end
       /\ sent' = sent /\ strict' = strict /\ keyNo' = keyNo
  BY <1>1, <1>8, <1>12 DEF sessionVars
<1>15. ASSUME NEW d \in Dir
       PROVE  /\ pos'[d] \in DOMAIN sent'[d] /\ sent'[d][pos'[d]].type = "NEWKEYS"
              /\ sent'[d][pos'[d]].key = 0 - 1
              /\ ~strict' => seq'[d] = SeqAfter(d, end[d])
  BY <1>2, <1>11, <1>13, <1>14
<1> QED BY <1>2, <1>14, <1>15 DEF PlaceInv, SeqAfter, Dir

\* The capture of a whole session cuts nothing, and its recovery file holds
\* the record of every exchange.
LEMMA StopWhole ==
    ASSUME TypeOK, StopCapture
    PROVE  /\ TornInv'
           /\ WholeSession' => recoveries' = [i \in 1..ClientShares |-> [pub |-> i - 1, priv |-> i - 1]]
<1>1. PICK lost \in {"nothing"} \union Dir, half \in BOOLEAN :
         /\ cut' = [d \in Dir |-> IF d = lost THEN Len(sent[d]) - 1 ELSE Len(sent[d])]
         /\ torn' = [d \in Dir |-> d = lost /\ half]
  BY DEF StopCapture
<1>2. sent' = sent
  BY DEF StopCapture, sessionVars
<1>3. ASSUME NEW d \in Dir, torn'[d] PROVE cut'[d] # Len(sent'[d])
  <2>1. d = lost
    BY <1>1, <1>3
  <2>2. cut'[d] = Len(sent[d]) - 1 /\ Len(sent[d]) \in Nat
    BY <1>1, <2>1, StreamNats DEF TypeOK
  <2> QED BY <1>2, <2>2
<1>4. recoveries' = RecordedScalars(input'.oracle)
  BY DEF StopCapture
<1>5. WholeSession' => input'.oracle = "complete"
  BY DEF WholeSession
<1>6. RecordedScalars("complete") = [i \in 1..ClientShares |-> [pub |-> i - 1, priv |-> i - 1]]
  BY DEF RecordedScalars
<1> QED BY <1>3, <1>4, <1>5, <1>6 DEF TornInv

\* Once the capture has ended the endpoints and the archive stand still.
LEMMA ArchiveStays ==
    ASSUME [Next]_vars, pc # "capture"
    PROVE  /\ UNCHANGED <<sessionVars, archiveVars, recoveries>> /\ pc' # "capture"
           /\ WholeSession' <=> WholeSession
<1>1. UNCHANGED <<sessionVars, archiveVars, recoveries>> /\ pc' # "capture"
  BY DEF Next, Session, StopCapture, Recover, LoadWire, StartOracle, AwaitGreeting, CheckInputs,
         Ask, TakeReply, ReplyTimeout, Derive, DecryptEpoch, CheckMarker, CompareTruth, Fail,
         CloseOracle, JoinOracle, OracleProcess, OracleBoot, OracleServe, OracleDies, vars, oracleVars
<1> QED BY <1>1 DEF WholeSession, ServerData, WireFound, sessionVars, archiveVars

\* The decoder keeps its place while the oracle is asked.
LEMMA PlaceStays ==
    ASSUME PlaceInv, UNCHANGED <<sessionVars, kex, epoch, pos, seq, sid, key>>,
           pc' = "derive" => scalar' = epoch, pc' = "decrypt" => pc = "decrypt"
    PROVE  PlaceInv'
<1>1. /\ UNCHANGED <<sent, strict, keyNo, secrets, kex, epoch, pos, seq, sid, key>>
  BY DEF sessionVars
<1>2. UNCHANGED <<EndpointH(0), EndpointKey(epoch)>>
  BY <1>1 DEF EndpointH, EndpointKey
<1> QED BY <1>1, <1>2 DEF PlaceInv, SeqAfter

\* Both encodings of a shared secret agree unless it starts with a zero octet.
LEMMA MpintsAgree ==
    ASSUME NEW z \in Seq(0..255), z # <<>> => z[1] # 0
    PROVE  LStripZero(z) = z /\ ssh_mpint(z) = endpoint_mpint(z) /\ encode_ssh_mpint(z) = endpoint_mpint(z)
<1> DEFINE nonzero == {i \in 1..Len(z) : z[i] # 0}
           c == CHOOSE i \in nonzero : \A j \in nonzero : i <= j
<1>1. Len(z) \in Nat
  OBVIOUS
<1>2. LStripZero(z) = IF nonzero = {} THEN <<>> ELSE SubSeq(z, c, Len(z))
  BY DEF LStripZero
<1>3. CASE z = <<>>
  <2>1. nonzero = {}
    BY <1>3
  <2>2. LStripZero(z) = z
    BY <1>2, <1>3, <2>1
  <2> QED BY <2>2 DEF ssh_mpint, endpoint_mpint, encode_ssh_mpint
<1>4. CASE z # <<>>
  <2>1. 1 \in nonzero /\ \A j \in nonzero : 1 <= j /\ j \in Nat
    BY <1>1, <1>4
  <2>2. c \in nonzero /\ \A j \in nonzero : c <= j
    BY <2>1
  <2>3. c = 1
    <3> HIDE DEF nonzero, c
    <3> QED BY <2>1, <2>2
  <2>4. SubSeq(z, 1, Len(z)) = z
    OBVIOUS
  <2>5. LStripZero(z) = z
    <3>1. nonzero # {}
      BY <2>1
    <3> HIDE DEF nonzero, c
    <3> QED BY <1>2, <2>3, <2>4, <3>1
  <2> QED BY <2>5 DEF ssh_mpint, endpoint_mpint, encode_ssh_mpint
<1> QED BY <1>3, <1>4

\* With the scalar of the exchange, the hash that the server signed and the
\* keys of both endpoints are derived.
LEMMA DeriveWhole ==
    ASSUME LadderInv, SessionInv, WholeSession, PlaceInv, Derive,
           \A z \in Secrets : z # <<>> => z[1] # 0
    PROVE  pc' = "decrypt" /\ PlaceInv'
<1> DEFINE z == secrets[epoch + 1]
<1>1. /\ SessionTypeOK /\ ProgressInv /\ epoch \in Nat /\ pc = "derive"
      /\ kex = Transcript(epoch) /\ epoch <= keyNo["c2s"] /\ scalar = epoch
      /\ epoch > 0 => sid = EndpointH(0)
  BY DEF LadderInv, TypeInv, TypeOK, SessionInv, Derive, PlaceInv
<1>2. z \in Seq(0..255) /\ (z # <<>> => z[1] # 0)
  <2>1. Len(secrets) >= keyNo["s2c"] + 1 /\ keyNo["s2c"] = keyNo["c2s"] /\ keyNo["c2s"] \in Int
        /\ Len(secrets) \in Nat /\ secrets \in Seq(Secrets)
    <3>1. Len(secrets) \in Nat /\ secrets \in Seq(Secrets) /\ keyNo["c2s"] \in Int /\ keyNo["s2c"] \in Int
      BY <1>1 DEF SessionTypeOK, Dir
    <3>2. One(Has("s2c", "ECDH_REPLY", keyNo["s2c"] + 1)) \in Nat
      BY DEF One
    <3> QED BY <1>1, <3>1, <3>2 DEF ProgressInv, WholeSession
  <2>2. epoch + 1 \in 1..Len(secrets)
    BY <1>1, <2>1
  <2>3. z \in Secrets
    BY <2>1, <2>2
  <2> QED BY <2>3, SessionAssumption
<1>3. /\ shared_secret = z /\ kex.Q_S = epoch
  BY <1>1 DEF shared_secret, Transcript
<1> HIDE DEF z
<1>4. ssh_mpint(z) = endpoint_mpint(z) /\ encode_ssh_mpint(z) = endpoint_mpint(z)
  BY <1>2, MpintsAgree
<1>5. compute_exchange_hash = EndpointH(epoch)
  BY <1>1, <1>3, <1>4 DEF compute_exchange_hash, EndpointH, z
<1>6. (IF epoch = 0 THEN compute_exchange_hash ELSE sid) = EndpointH(0)
  BY <1>1, <1>5
<1>7. derive_ssh_keys(compute_exchange_hash, EndpointH(0)) = EndpointKey(epoch)
  BY <1>3, <1>4, <1>5 DEF derive_ssh_keys, EndpointKey, z
<1>8. /\ pc' = "decrypt" /\ key' = EndpointKey(epoch) /\ sid' = EndpointH(0) /\ seq' = FirstSequence
      /\ UNCHANGED <<sessionVars, kex, epoch, pos>>
  BY <1>3, <1>5, <1>6, <1>7 DEF Derive, verify_ed25519_kex_signature
<1>9. /\ UNCHANGED <<sent, strict, keyNo, secrets, kex, epoch, pos>>
      /\ \A n : UNCHANGED EndpointH(n) /\ UNCHANGED EndpointKey(n)
  BY <1>8 DEF sessionVars, EndpointH, EndpointKey
<1>10. ASSUME NEW d \in Dir PROVE seq'[d] = SeqAfter(d, pos[d])
  <2>1. /\ pos[d] \in DOMAIN sent[d] /\ sent[d][pos[d]].type = "NEWKEYS"
        /\ ~strict => seq[d] = SeqAfter(d, pos[d])
    BY DEF PlaceInv
  <2>2. CASE strict
    BY <1>8, <2>1, <2>2 DEF FirstSequence, SeqAfter
  <2>3. CASE ~strict
    BY <1>8, <2>1, <2>3 DEF FirstSequence
  <2> QED BY <2>2, <2>3
<1>11. \A d \in Dir : /\ pos[d] \in DOMAIN sent[d] /\ sent[d][pos[d]].type = "NEWKEYS"
                      /\ sent[d][pos[d]].key = epoch - 1
  BY DEF PlaceInv
<1>12. key' = EndpointKey(epoch)' /\ sid' = EndpointH(0)'
  <2>1. EndpointKey(epoch)' = EndpointKey(epoch) /\ EndpointH(0)' = EndpointH(0)
    BY <1>9 DEF EndpointKey, EndpointH
  <2> QED BY <1>8, <2>1
<1> QED BY <1>1, <1>8, <1>9, <1>10, <1>11, <1>12 DEF PlaceInv, SeqAfter

\* The decoder is where the packets under its keys begin.
LEMMA AtStart ==
    ASSUME LadderInv, SessionInv, PlaceInv, NEW d \in Dir
    PROVE  Starts(d, pos[d], epoch)
<1>1. /\ SessionTypeOK /\ OrderInv /\ epoch \in Nat
      /\ pos[d] \in DOMAIN sent[d] /\ sent[d][pos[d]].type = "NEWKEYS" /\ sent[d][pos[d]].key = epoch - 1
  BY DEF LadderInv, TypeInv, TypeOK, SessionInv, PlaceInv
<1>2. Len(sent[d]) \in Nat /\ pos[d] \in 1..Len(sent[d])
  BY <1>1, StreamNats
<1>3. ASSUME NEW j \in 1..pos[d] PROVE sent[d][j].key < epoch
  <2>1. j \in DOMAIN sent[d] /\ pos[d] \in j..Len(sent[d])
    BY <1>1, <1>2, StreamNats
  <2>2. sent[d][j].key <= sent[d][pos[d]].key /\ sent[d][j].key \in Int
    BY <1>1, <2>1, PacketTypes DEF OrderInv
  <2> QED BY <1>1, <2>2
<1>4. KeyAfter(d, pos[d]) = epoch
  BY <1>1, <1>2 DEF KeyAfter
<1> QED BY <1>2, <1>3, <1>4 DEF Starts

\* Packets up to the next NEWKEYS open under the keys of the epoch.
LEMMA EpochOpens ==
    ASSUME LadderInv, SessionInv, PlaceInv, pc = "decrypt", NEW d \in Dir, NEW q \in pos[d]..Len(sent[d]),
           \A j \in (pos[d] + 1)..(q - 1) : sent[d][j].type # "NEWKEYS"
    PROVE  \A i \in (pos[d] + 1)..q : Opens(d, i)
<1>1. /\ SessionTypeOK /\ SealInv /\ key = EndpointKey(epoch) /\ seq[d] = SeqAfter(d, pos[d])
  BY DEF LadderInv, TypeInv, TypeOK, SessionInv, PlaceInv
<1>2. pos[d] \in 0..Len(sent[d]) /\ KeyAfter(d, pos[d]) = epoch
  BY AtStart DEF Starts
<1>3. \A i \in (pos[d] + 1)..q :
         sent[d][i].key = epoch /\ sent[d][i].seq = (seq[d] + (i - pos[d] - 1)) % SeqLimit
  <2> DEFINE p == pos[d]
  <2>1. p \in 0..Len(sent[d]) /\ q \in p..Len(sent[d])
    BY <1>2
  <2>2. \A j \in (p + 1)..(q - 1) : sent[d][j].type # "NEWKEYS"
    OBVIOUS
  <2>3. KeyAfter(d, p) = epoch /\ seq[d] = SeqAfter(d, p)
    BY <1>1, <1>2
  <2>4. SessionTypeOK /\ SealInv
    BY <1>1
  <2> HIDE DEF p
  <2>5. \A i \in (p + 1)..q : /\ sent[d][i].key = KeyAfter(d, p)
                              /\ sent[d][i].seq = (SeqAfter(d, p) + (i - p - 1)) % SeqLimit
    BY <2>1, <2>2, <2>4, Segment, SMTT(30)
  <2>6. \A i \in (p + 1)..q : /\ sent[d][i].key = epoch
                              /\ sent[d][i].seq = (seq[d] + (i - p - 1)) % SeqLimit
    BY <2>3, <2>5
  <2> QED BY <2>6 DEF p
<1> QED BY <1>1, <1>3 DEF Opens

\* The decoder ends the epoch where the endpoint did.
LEMMA EpochEnds ==
    ASSUME LadderInv, SessionInv, PlaceInv, pc = "decrypt", NEW d \in Dir, cut[d] = Len(sent[d]),
           NEW q, Ends(d, pos[d], q)
    PROVE  ReachesNewKeys(d) /\ Ends(d, pos[d], EpochEnd(d))
<1>1. /\ q \in (pos[d] + 1)..Len(sent[d]) /\ sent[d][q].type = "NEWKEYS"
      /\ \A j \in (pos[d] + 1)..(q - 1) : sent[d][j].type # "NEWKEYS"
  BY DEF Ends
<1>2. pos[d] \in Nat /\ Len(sent[d]) \in Nat /\ q \in pos[d]..Len(sent[d])
  <2>1. pos[d] \in Nat /\ SessionTypeOK
    BY DEF LadderInv, TypeInv, TypeOK
  <2> QED BY <1>1, <2>1, StreamNats
<1>3. \A i \in (pos[d] + 1)..q : Opens(d, i)
  BY <1>1, <1>2, EpochOpens
<1>4. q \in Boundary(d)
  BY <1>1, <1>2, <1>3 DEF Boundary, Opened
<1>5. EpochEnd(d) \in Boundary(d) /\ ReachesNewKeys(d)
  BY <1>4 DEF EpochEnd, ReachesNewKeys
<1> QED BY <1>5 DEF Boundary, Opened, Ends

\* Behind the last NEWKEYS everything opens.
LEMMA LastOpens ==
    ASSUME LadderInv, SessionInv, PlaceInv, pc = "decrypt", NEW d \in Dir, cut[d] = Len(sent[d]), ~torn[d],
           \A j \in (pos[d] + 1)..Len(sent[d]) : sent[d][j].type # "NEWKEYS"
    PROVE  ~ReachesNewKeys(d) /\ ~Undecryptable(d)
<1> DEFINE l == Len(sent[d])
<1>1. pos[d] \in Nat /\ l \in Nat /\ pos[d] <= l
  <2>1. pos[d] \in Nat /\ SessionTypeOK /\ pos[d] <= cut[d]
    BY DEF LadderInv, TypeInv, TypeOK
  <2> QED BY <2>1, StreamNats
<1>2. \A i \in (pos[d] + 1)..l : Opens(d, i)
  <2>1. l \in pos[d]..l /\ \A j \in (pos[d] + 1)..(l - 1) : j \in (pos[d] + 1)..l
    BY <1>1
  <2> QED BY <2>1, EpochOpens
<1>3. Opened(d) = (pos[d] + 1)..cut[d]
  <2>1. \A i \in (pos[d] + 1)..l : \A j \in (pos[d] + 1)..i : j \in (pos[d] + 1)..l
    BY <1>1
  <2> QED BY <1>2, <2>1 DEF Opened
<1>4. ~ReachesNewKeys(d)
  BY <1>3 DEF ReachesNewKeys, Boundary
<1> QED BY <1>3, <1>4 DEF Undecryptable

\* An epoch of a whole session opens to its end in both directions, and holds
\* the next exchange unless it is the last.
LEMMA DecryptWhole ==
    ASSUME LadderInv, SessionInv, TornInv, WholeSession, PlaceInv, DecryptEpoch
    PROVE  (pc' = "ask" /\ PlaceInv' /\ epoch' = epoch + 1) \/ pc' = "finish"
<1> DEFINE end == [d \in Dir |-> EpochEnd(d)]
           from == [d \in Dir |-> pos[d] + 1]
           count == [d \in Dir |-> end[d] - pos[d]]
           at == KexMessages(from, end)
<1>1. /\ SessionTypeOK /\ SealInv /\ OrderInv /\ ExchangeInv /\ pc = "decrypt" /\ epoch \in Nat
      /\ keyNo["c2s"] = keyNo["s2c"] /\ epoch <= keyNo["c2s"] /\ sid = EndpointH(0)
  BY DEF LadderInv, TypeInv, TypeOK, SessionInv, PlaceInv, WholeSession, DecryptEpoch
<1>2. ASSUME NEW d \in Dir
      PROVE  /\ cut[d] = Len(sent[d]) /\ ~torn[d] /\ Starts(d, pos[d], epoch)
             /\ Len(sent[d]) \in Nat /\ DOMAIN sent[d] = 1..Len(sent[d]) /\ pos[d] \in Nat
             /\ keyNo[d] \in Int /\ keyNo[d] = keyNo["c2s"]
  <2>1. cut[d] = Len(sent[d]) /\ keyNo[d] = keyNo["c2s"]
    BY <1>1 DEF WholeSession, Dir
  <2>2. ~torn[d]
    BY <1>1, <2>1 DEF TornInv
  <2>3. pos[d] \in Nat
    BY DEF LadderInv, TypeInv, TypeOK
  <2> QED BY <1>1, <2>1, <2>2, <2>3, AtStart, StreamNats
<1>3. CASE epoch = keyNo["c2s"]
  <2>1. ASSUME NEW d \in Dir PROVE ~ReachesNewKeys(d) /\ ~Undecryptable(d)
    <3>1. ~(epoch < keyNo[d])
      BY <1>2, <1>3
    <3>2. \A j \in (pos[d] + 1)..Len(sent[d]) : sent[d][j].type # "NEWKEYS"
      BY <1>1, <1>2, <3>1, EndAhead
    <3> QED BY <1>1, <1>2, <3>2, LastOpens
  <2>2. "c2s" \in Dir /\ "s2c" \in Dir
    BY DEF Dir
  <2> QED BY <2>1, <2>2 DEF DecryptEpoch, ReachesNewKeys
<1>4. CASE epoch < keyNo["c2s"]
  <2>1. ASSUME NEW d \in Dir PROVE ReachesNewKeys(d) /\ Ends(d, pos[d], end[d])
    <3>1. PICK q : Ends(d, pos[d], q)
      BY <1>1, <1>2, <1>4, EndAhead
    <3> QED BY <1>1, <1>2, <3>1, EpochEnds
  <2>2. \A d \in Dir : ~Undecryptable(d)
    BY <2>1 DEF Undecryptable
  <2>3. from = [d \in Dir |-> from[d]] /\ end = [d \in Dir |-> end[d]] /\ \A d \in Dir : from[d] = pos[d] + 1
    OBVIOUS
  <2>4. "c2s" \in Dir /\ "s2c" \in Dir
    BY DEF Dir
  <2>5. /\ pos' = end /\ seq' = [d \in Dir |-> (seq[d] + count[d]) % SeqLimit]
        /\ AllFound(at) => kex' = extract_kex_exchange(at) /\ epoch' = epoch + 1 /\ pc' = "ask"
        /\ UNCHANGED <<sessionVars, sid>>
    BY <2>1, <2>2, <2>4 DEF DecryptEpoch, ReachesNewKeys
  <2>6. \A d \in Dir : count[d] = end[d] - pos[d]
    OBVIOUS
  <2> HIDE DEF end, from, count
  <2>7. ASSUME NEW d \in Dir
        PROVE  /\ end[d] \in (pos[d] + 1)..Len(sent[d]) /\ end[d] \in Nat /\ end[d] \in DOMAIN sent[d]
               /\ sent[d][end[d]].type = "NEWKEYS"
               /\ from[d] = pos[d] + 1 /\ from[d] \in Nat \ {0}
               /\ \A i \in from[d]..end[d] : sent[d][i].key = epoch
               /\ \E j \in from[d]..end[d] : sent[d][j].type = "KEXINIT"
               /\ \E j \in from[d]..end[d] : sent[d][j].type = Share(d)
    <3>1. Ends(d, pos[d], end[d])
      BY <2>1
    <3>2. end[d] \in (pos[d] + 1)..Len(sent[d]) /\ sent[d][end[d]].type = "NEWKEYS"
      BY <3>1 DEF Ends
    <3>3. epoch \in Int
      BY <1>1
    <3>4. /\ \A i \in (pos[d] + 1)..end[d] : sent[d][i].key = epoch
          /\ \E j \in (pos[d] + 1)..end[d] : sent[d][j].type = "KEXINIT"
          /\ \E j \in (pos[d] + 1)..end[d] : sent[d][j].type = Share(d)
      BY <1>1, <1>2, <3>1, <3>3, EpochSpan
    <3> QED BY <1>2, <2>3, <3>2, <3>4
  <2>8. AllFound(at) /\ extract_kex_exchange(at) = Transcript(epoch + 1)
    <3>1. end \in [Dir -> Nat] /\ from \in [Dir -> Nat \ {0}] /\ epoch \in Int
      BY <1>1, <2>3, <2>7
    <3>2. \A d \in Dir : /\ end[d] <= Len(sent[d]) /\ \A i \in from[d]..end[d] : sent[d][i].key = epoch
                         /\ \E j \in from[d]..end[d] : sent[d][j].type = "KEXINIT"
                         /\ \E j \in from[d]..end[d] : sent[d][j].type = Share(d)
      BY <1>2, <2>7
    <3> QED BY <1>1, <3>1, <3>2, KexFound
  <2>9. ASSUME NEW d \in Dir, ~strict PROVE seq'[d] = SeqAfter(d, end[d])
    <3>1. seq[d] = SeqAfter(d, pos[d]) /\ seq'[d] = (seq[d] + (end[d] - pos[d])) % SeqLimit
      BY <1>1, <2>5, <2>6 DEF PlaceInv
    <3>2. pos[d] \in 0..Len(sent[d])
      BY <1>2 DEF Starts
    <3>3. SeqAfter(d, end[d]) = (SeqAfter(d, pos[d]) + (end[d] - pos[d])) % SeqLimit
      BY <1>1, <2>1, <2>7, <2>9, <3>2, SeqBehind
    <3> QED BY <3>1, <3>3
  <2>10. /\ UNCHANGED <<sent, strict, keyNo, secrets, sid>> /\ pos' = end /\ pc' = "ask"
         /\ kex' = Transcript(epoch + 1) /\ epoch' = epoch + 1
    BY <2>5, <2>8 DEF sessionVars
  <2>11. sid' = EndpointH(0)'
    BY <1>1, <2>10 DEF EndpointH
  <2>12. \A d \in Dir : end[d] \in (pos[d] + 1)..end[d] /\ sent[d][end[d]].key = epoch
    <3>1. \A d \in Dir : end[d] \in from[d]..end[d]
      BY <1>2, <2>7
    <3> QED BY <2>7, <3>1
  <2>13. epoch + 1 <= keyNo["c2s"] /\ epoch + 1 - 1 = epoch
    BY <1>1, <1>2, <1>4, <2>4
  <2>14. ASSUME NEW d \in Dir
         PROVE  /\ pos'[d] \in DOMAIN sent'[d] /\ sent'[d][pos'[d]].type = "NEWKEYS"
                /\ sent'[d][pos'[d]].key = epoch' - 1
                /\ ~strict' => seq'[d] = SeqAfter(d, end[d])
    <3>1. /\ pos'[d] = end[d] /\ sent'[d] = sent[d] /\ strict' = strict /\ epoch' - 1 = epoch
      BY <1>1, <2>10
    <3> QED BY <2>7, <2>9, <2>12, <3>1
  <2>15. /\ kex' = Transcript(epoch)' /\ epoch' <= keyNo'["c2s"]
    BY <2>10, <2>13 DEF Transcript
  <2>16. PlaceInv'
    BY <2>10, <2>11, <2>14, <2>15 DEF PlaceInv, SeqAfter
  <2> QED BY <2>10, <2>16
<1>5. keyNo["c2s"] \in Int
  BY <1>2 DEF Dir
<1> QED BY <1>1, <1>3, <1>4, <1>5

\* The oracle's record of exchange epoch is there and unused, and its answer
\* is the scalar of that exchange.
LEMMA ServeWhole ==
    ASSUME LadderInv, SessionInv, WholeSession, PlaceInv, OracleInv, pc \in Reading, OracleServe,
           recoveries = [i \in 1..ClientShares |-> [pub |-> i - 1, priv |-> i - 1]]
    PROVE  OracleInv'
<1>1. /\ TypeOK /\ Quiet /\ PipeInv /\ SessionTypeOK /\ ProgressInv /\ epoch \in Nat
      /\ kex = Transcript(epoch) /\ epoch <= keyNo["c2s"]
  BY DEF LadderInv, TypeInv, TypeOK, SessionInv, PlaceInv
<1>2. /\ toOracle # <<>> /\ toOracle' = Tail(toOracle) /\ proc = "serve"
      /\ UNCHANGED <<pc, epoch, recoveries>>
  BY DEF OracleServe, decoderVars
<1>3. pc = "wait" /\ toOracle = <<epoch>> /\ toClient = <<>>
  BY <1>1, <1>2 DEF Reading, Quiet, PipeInv
<1>4. toOracle' = <<>> /\ Head(toOracle) = epoch /\ epoch # Quit
  BY <1>1, <1>2, <1>3 DEF Quit
<1>5. ClientShares \in Nat /\ epoch + 1 \in 1..ClientShares
  <2>1. keyNo["c2s"] \in Int /\ "c2s" \in Dir
    BY <1>1 DEF SessionTypeOK, Dir
  <2>2. One(Has("c2s", "ECDH_INIT", keyNo["c2s"] + 1)) \in Nat
    BY DEF One
  <2>3. ClientShares \in Nat
    BY <1>1, SharesCounted
  <2> QED BY <1>1, <2>1, <2>2, <2>3 DEF ProgressInv
<1> DEFINE n == ClientShares
<1> HIDE DEF n
<1>6. /\ DOMAIN recoveries = 1..n /\ n \in Nat /\ epoch + 1 \in 1..n
      /\ \A i \in 1..n : recoveries[i].pub = i - 1 /\ recoveries[i].priv = i - 1
  BY <1>5 DEF n
<1>7. epoch + 1 \notin used
  <2>1. \A m \in ReleasedShares : m < epoch
    BY <1>2 DEF OracleInv
  <2>2. recoveries[epoch + 1].pub = epoch
    BY <1>1, <1>6
  <2>3. epoch + 1 \in used => epoch \in ReleasedShares
    BY <2>2 DEF ReleasedShares
  <2> QED BY <1>1, <2>1, <2>3
<1>8. Matching(epoch) = {epoch + 1}
  <2> DEFINE M == {i \in DOMAIN recoveries : i \notin used /\ recoveries[i].pub = epoch}
  <2>1. epoch + 1 \in M
    <3>1. recoveries[epoch + 1].pub = epoch
      BY <1>1, <1>6
    <3>2. epoch + 1 \in DOMAIN recoveries
      BY <1>6
    <3> QED BY <1>7, <3>1, <3>2
  <2>2. ASSUME NEW i \in M PROVE i = epoch + 1
    <3>1. i \in 1..n /\ i - 1 = epoch
      BY <1>6
    <3> QED BY <1>1, <3>1
  <2>3. M = {epoch + 1}
    BY <2>1, <2>2
  <2> QED BY <2>3 DEF Matching
<1>9. FirstMatch(epoch) = {epoch + 1}
  BY <1>1, <1>8 DEF FirstMatch
<1>10. recoveries[epoch + 1].priv = epoch
  BY <1>1, <1>6
<1>11. toClient' = Append(toClient, [ok |-> TRUE, priv |-> epoch])
  BY <1>4, <1>9, <1>10 DEF OracleServe
<1>12. toClient' = <<[ok |-> TRUE, priv |-> epoch]>>
  BY <1>3, <1>11
<1>13. \A i \in DOMAIN toClient' : toClient'[i].ok /\ toClient'[i].priv = epoch
  BY <1>12
<1> QED BY <1>2, <1>3, <1>4, <1>13 DEF OracleInv

\* The plaintext of a whole archive read to its end is all that the server sent.
LEMMA MarkerWhole ==
    ASSUME LadderInv, RunInv, PrefixInv, WholeSession, CheckMarker
    PROVE  pc' = "truth"
<1> DEFINE s == sent["s2c"]
<1>1. pos["s2c"] = Len(s) /\ s \in Seq(PacketType)
  <2>1. Ended /\ "s2c" \in Dir
    BY DEF CheckMarker, Ended, Dir
  <2> QED BY <2>1 DEF RunInv, WholeSession, LadderInv, TypeInv, TypeOK, SessionTypeOK, PacketType
<1>2. SubSeq(s, 1, Len(s)) = s
  BY <1>1
<1>3. chunks = ServerData
  BY <1>1, <1>2 DEF PrefixInv, ServerData
<1> QED BY <1>3 DEF WholeSession, CheckMarker

\* Before anything is sent.
LEMMA SessionStarts ==
    ASSUME \A d \in Dir : sent[d] = <<>> /\ keyNo[d] = -1 /\ seqNo[d] = 0 /\ kexinits[d] = 0, secrets = <<>>
    PROVE  SessionInv
<1>1. \A d \in Dir : DOMAIN sent[d] = {} /\ Len(sent[d]) = 0
  OBVIOUS
<1>2. \A d \in Dir : \A t, n : ~Has(d, t, n)
  BY <1>1 DEF Has
<1>3. "c2s" \in Dir /\ "s2c" \in Dir /\ MaxOther \in Nat
  BY SessionAssumption DEF Dir
<1>4. \A d \in Dir : \A t : Sent(d, t) = 0
  <2>1. \A d \in Dir : \A t : {i \in DOMAIN sent[d] : sent[d][i].type = t} = {}
    BY <1>1
  <2> QED BY <2>1, FS_EmptySet DEF Sent
<1>5. SealInv
  BY <1>1 DEF SealInv, KeyAfter, SeqAfter
<1>6. OrderInv /\ ExchangeInv
  BY <1>1 DEF OrderInv, ExchangeInv
<1>7. ProgressInv
  <2>1. ClientShares = 0
    BY <1>3, <1>4 DEF ClientShares, Sent
  <2>2. Len(secrets) = 0
    OBVIOUS
  <2> QED BY <1>1, <1>2, <1>3, <2>1, <2>2 DEF ProgressInv, Exchanging, One
<1>8. OpeningInv
  BY <1>1, <1>2, <1>3, <1>4 DEF OpeningInv, One
<1> QED BY <1>5, <1>6, <1>7, <1>8 DEF SessionInv

\* A step that is not an endpoint's changes nothing of it.
LEMMA SessionStays == SessionInv /\ UNCHANGED sessionVars => SessionInv'
<1> SUFFICES ASSUME SessionInv, UNCHANGED sessionVars PROVE SessionInv'
  OBVIOUS
<1>1. UNCHANGED <<sent, strict, keyNo, seqNo, kexinits, secrets>>
  BY DEF sessionVars
<1>2. SealInv' /\ OrderInv'
  BY <1>1 DEF SessionInv, SealInv, OrderInv, KeyAfter, SeqAfter
<1>3. ExchangeInv'
  BY <1>1 DEF SessionInv, ExchangeInv, Has
<1>4. ProgressInv'
  BY <1>1 DEF SessionInv, ProgressInv, Has, Exchanging, ClientShares
<1>5. OpeningInv'
  BY <1>1 DEF SessionInv, OpeningInv, Has, Sent
<1> QED BY <1>2, <1>3, <1>4, <1>5 DEF SessionInv

\* One step of a whole session's recovery.
LEMMA WholeStep ==
    ASSUME \A z \in Secrets : z # <<>> => z[1] # 0,
           LadderInv, RunInv, SessionInv, PrefixInv, TornInv, WholeInv, [Next]_vars
    PROVE  TornInv' /\ WholeInv'
<1>1. TypeOK /\ Quiet /\ PipeInv /\ EpochInv /\ CausalRelease /\ toClient \in Seq(Reply)
  BY DEF LadderInv, TypeInv, TypeOK
<1>2. CASE pc = "capture"
  <2>1. CASE StopCapture
    <3>1. pc' = "load"
      BY <2>1 DEF StopCapture
    <3> QED BY <1>1, <2>1, <3>1, StopWhole DEF WholeInv, Reading, ClientShares, StopCapture, sessionVars
  <2>2. CASE ~StopCapture
    <3>1. pc' = "capture"
      BY <1>1, <1>2, <2>2
         DEF Next, Session, Recover, LoadWire, StartOracle, AwaitGreeting, CheckInputs, Ask, TakeReply,
             ReplyTimeout, Derive, DecryptEpoch, CheckMarker, CompareTruth, CloseOracle, JoinOracle,
             OracleProcess, OracleBoot, OracleServe, OracleDies, vars
    <3> QED BY <3>1 DEF TornInv, WholeInv
  <2> QED BY <2>1, <2>2
<1>3. CASE pc # "capture"
  <2>1. /\ UNCHANGED <<sent, strict, keyNo, secrets, cut, torn, input, recoveries, sessionVars>>
        /\ pc' # "capture" /\ (WholeSession' <=> WholeSession)
    BY <1>3, ArchiveStays DEF sessionVars, archiveVars
  <2>2. TornInv'
    BY <1>3, <2>1 DEF TornInv
  <2>3. CASE ~WholeSession
    BY <2>1, <2>2, <2>3 DEF WholeInv
  <2>4. CASE WholeSession
    <3>1. /\ pc \in {"close", "join", "done"} => result \in Tolerated
          /\ recoveries = [i \in 1..ClientShares |-> [pub |-> i - 1, priv |-> i - 1]]
          /\ pc \in Reading => PlaceInv /\ OracleInv
          /\ input.suite = "expected" /\ input.oracle = "complete" /\ input.truth # "malformed"
      BY <1>3, <2>4 DEF WholeInv, WholeSession
    <3>2. recoveries' = [i \in 1..ClientShares' |-> [pub |-> i - 1, priv |-> i - 1]]
      BY <2>1, <3>1 DEF ClientShares
    <3> DEFINE Good == /\ pc' \in {"close", "join", "done"} => result' \in Tolerated
                       /\ pc' \in Reading => PlaceInv' /\ OracleInv'
    <3>3. Good => WholeInv'
      BY <3>2 DEF WholeInv
    <3>4. ASSUME pc \in Reading, UNCHANGED <<kex, epoch, pos, seq, sid, key>>,
                 pc' = "derive" => scalar' = epoch, pc' = "decrypt" => pc = "decrypt"
          PROVE  PlaceInv'
      BY <2>1, <3>1, <3>4, PlaceStays
    <3>5. ReleasedShares' = ReleasedShares \/ ~UNCHANGED used
      BY <2>1 DEF ReleasedShares
    <3>6. CASE LoadWire
      <4>1. pc' = "start" /\ PlaceInv'
        BY <2>4, <3>6, LoadWhole
      <4>2. toClient' = <<>> /\ used' = {}
        BY <1>1, <3>6 DEF LoadWire, Quiet, pipeVars, oracleVars
      <4>3. ReleasedShares' = {}
        BY <4>2 DEF ReleasedShares
      <4>4. OracleInv'
        BY <4>2, <4>3 DEF OracleInv
      <4> QED BY <2>2, <3>3, <4>1, <4>4
    <3>7. CASE StartOracle \/ CheckInputs
      <4>1. /\ pc \in {"start", "check"} /\ pc' \in {"boot", "ask"}
            /\ UNCHANGED <<kex, epoch, pos, seq, sid, key, used, toOracle, toClient>>
        BY <3>1, <3>7 DEF StartOracle, CheckInputs, decoderVars, oracleVars, pipeVars
      <4>2. PlaceInv'
        BY <3>4, <4>1 DEF Reading
      <4>3. OracleInv'
        BY <3>1, <3>5, <4>1 DEF OracleInv, Reading
      <4> QED BY <2>2, <3>3, <4>1, <4>2, <4>3
    <3>8. CASE AwaitGreeting
      <4>1. /\ pc = "boot" /\ UNCHANGED <<kex, epoch, pos, seq, sid, key, used, toOracle>>
            /\ \/ toClient # <<>> /\ toClient' = Tail(toClient) /\ (Head(toClient).ok => pc' = "check")
               \/ pc' \in {"close", "done"} /\ result' \in {"EOFError", "start_timeout"}
        BY <3>8 DEF AwaitGreeting, Fail, decoderVars, oracleVars
      <4>2. CASE pc' = "check" /\ toClient # <<>> /\ toClient' = Tail(toClient)
        <5>1. PlaceInv'
          BY <3>4, <4>1, <4>2 DEF Reading
        <5>2. toClient' = <<>>
          BY <1>1, <4>1, <4>2 DEF PipeInv
        <5>3. OracleInv'
          BY <3>1, <3>5, <4>1, <4>2, <5>2 DEF OracleInv, Reading
        <5> QED BY <2>2, <3>3, <4>2, <5>1, <5>3
      <4>3. CASE pc' \in {"close", "done"} /\ result' \in {"EOFError", "start_timeout"}
        BY <2>2, <3>3, <4>3 DEF Reading, Tolerated
      <4>4. toClient # <<>> => Head(toClient).ok
        BY <1>1, <3>1, <4>1 DEF OracleInv, Reading
      <4> QED BY <4>1, <4>2, <4>3, <4>4
    <3>9. CASE Ask
      <4>1. /\ pc = "ask" /\ UNCHANGED <<kex, epoch, pos, seq, sid, key, used, toClient>> /\ toClient = <<>>
            /\ pc' = "wait" \/ (pc' \in {"close", "done"} /\ result' = "BrokenPipeError")
        BY <1>1, <3>9 DEF Ask, Fail, decoderVars, oracleVars, PipeInv
      <4>2. CASE pc' = "wait"
        <5>1. PlaceInv'
          BY <3>4, <4>1, <4>2 DEF Reading
        <5>2. OracleInv'
          BY <3>1, <3>5, <4>1, <4>2 DEF OracleInv, Reading
        <5> QED BY <2>2, <3>3, <4>2, <5>1, <5>2
      <4>3. CASE pc' \in {"close", "done"} /\ result' = "BrokenPipeError"
        BY <2>2, <3>3, <4>3 DEF Reading, Tolerated
      <4> QED BY <4>1, <4>2, <4>3
    <3>10. CASE TakeReply
      <4>1. /\ pc = "wait" /\ toClient # <<>> /\ toClient' = Tail(toClient)
            /\ UNCHANGED <<kex, epoch, pos, seq, sid, key, used, toOracle>>
        BY <3>10 DEF TakeReply, oracleVars
      <4>2. Head(toClient).ok /\ Head(toClient).priv = epoch /\ kex.Q_C = epoch
        <5>1. Head(toClient) = toClient[1] /\ 1 \in DOMAIN toClient
          BY <1>1, <4>1
        <5> QED BY <1>1, <3>1, <4>1, <5>1 DEF OracleInv, EpochInv, Reading
      <4>3. pc' = "derive" /\ scalar' = epoch
        BY <3>10, <4>2 DEF TakeReply
      <4>4. toOracle = <<>> /\ toClient' = <<>>
        BY <1>1, <4>1 DEF PipeInv
      <4>5. PlaceInv'
        BY <3>4, <4>1, <4>3 DEF Reading
      <4>6. OracleInv'
        BY <4>1, <4>3, <4>4 DEF OracleInv
      <4> QED BY <2>2, <3>3, <4>3, <4>5, <4>6
    <3>11. CASE ReplyTimeout
      BY <2>2, <3>3, <3>11 DEF ReplyTimeout, Fail, Reading, Tolerated
    <3>12. CASE Derive
      <4>1. pc = "derive" /\ UNCHANGED <<epoch, used, toOracle, toClient>>
        BY <3>12 DEF Derive, oracleVars, pipeVars
      <4>2. pc' = "decrypt" /\ PlaceInv' /\ SessionInv
        BY <2>4, <3>1, <3>12, <4>1, DeriveWhole DEF Reading
      <4>3. toOracle = <<>> /\ toClient = <<>>
        BY <1>1, <4>1 DEF PipeInv
      <4>4. OracleInv'
        BY <4>1, <4>2, <4>3 DEF OracleInv
      <4> QED BY <2>2, <3>3, <4>2, <4>4
    <3>13. CASE DecryptEpoch
      <4>1. pc = "decrypt" /\ UNCHANGED <<used, toOracle, toClient>> /\ toOracle = <<>> /\ toClient = <<>>
        BY <1>1, <3>13 DEF DecryptEpoch, oracleVars, pipeVars, PipeInv
      <4>2. (pc' = "ask" /\ PlaceInv' /\ epoch' = epoch + 1) \/ pc' = "finish"
        BY <2>4, <3>1, <3>13, <4>1, DecryptWhole DEF Reading
      <4>3. CASE pc' = "ask" /\ PlaceInv' /\ epoch' = epoch + 1
        <5>1. \A n \in ReleasedShares : n <= epoch /\ n \in Nat
          <6>1. Len(counts) = epoch
            BY <1>1, <4>1 DEF EpochInv
          <6>2. \A i \in used : recoveries[i].pub \in Nat
            <7>1. recoveries \in Seq(Record) /\ used \subseteq DOMAIN recoveries
              BY <1>1 DEF TypeOK
            <7>2. \A i \in DOMAIN recoveries : recoveries[i] \in Record
              BY <7>1, SeqFacts
            <7> QED BY <7>1, <7>2 DEF Record
          <6> QED BY <1>1, <6>1, <6>2 DEF CausalRelease, ReleasedShares
        <5>2. epoch \in Nat
          BY <1>1 DEF TypeOK
        <5>3. \A n \in ReleasedShares' : n < epoch'
          BY <3>5, <4>1, <4>3, <5>1, <5>2
        <5>4. OracleInv'
          BY <4>1, <4>3, <5>3 DEF OracleInv
        <5> QED BY <2>2, <3>3, <4>3, <5>4
      <4>4. CASE pc' = "finish"
        BY <2>2, <3>3, <4>4 DEF Reading
      <4> QED BY <4>2, <4>3, <4>4
    <3>14. CASE CheckMarker
      <4>1. pc' = "truth"
        BY <2>4, <3>14, MarkerWhole
      <4> QED BY <2>2, <3>3, <4>1 DEF Reading
    <3>15. CASE CompareTruth
      BY <2>2, <3>1, <3>3, <3>15 DEF CompareTruth, Reading, Tolerated
    <3>16. CASE CloseOracle \/ JoinOracle
      BY <2>2, <3>1, <3>3, <3>16 DEF CloseOracle, JoinOracle, Reading
    <3>17. CASE OracleBoot
      <4>1. /\ proc = "boot" /\ UNCHANGED <<pc, result, kex, epoch, pos, seq, sid, key, scalar, used, toOracle>>
            /\ toClient' = Append(toClient, [ok |-> TRUE, priv |-> -1])
        BY <3>1, <3>17 DEF OracleBoot, decoderVars
      <4>2. CASE pc \notin Reading
        BY <2>2, <3>1, <3>3, <4>1, <4>2
      <4>3. CASE pc \in Reading
        <5>1. pc = "boot" /\ toClient = <<>>
          BY <1>1, <4>1, <4>3 DEF PipeInv, Quiet, Reading
        <5>2. PlaceInv'
          BY <3>4, <4>1, <4>3, <5>1
        <5>3. toClient' = <<[ok |-> TRUE, priv |-> -1]>>
          BY <4>1, <5>1
        <5>4. \A i \in DOMAIN toClient' : toClient'[i].ok
          BY <5>3
        <5>5. OracleInv'
          BY <3>1, <3>5, <4>1, <4>3, <5>1, <5>4 DEF OracleInv
        <5> QED BY <2>2, <3>3, <4>1, <5>1, <5>2, <5>5
      <4> QED BY <4>2, <4>3
    <3>18. CASE OracleServe
      <4>1. UNCHANGED <<pc, result, kex, epoch, pos, seq, sid, key, scalar>>
        BY <3>18 DEF OracleServe, decoderVars
      <4>2. CASE pc \notin Reading
        BY <2>2, <3>1, <3>3, <4>1, <4>2
      <4>3. CASE pc \in Reading
        <5>1. PlaceInv'
          <6>1. pc = "derive" => scalar = epoch
            BY <3>1, <4>3 DEF PlaceInv
          <6> QED BY <3>4, <4>1, <4>3, <6>1
        <5>2. OracleInv'
          BY <2>4, <3>1, <3>18, <4>3, ServeWhole
        <5> QED BY <2>2, <3>1, <3>3, <4>1, <4>3, <5>1, <5>2 DEF Reading
      <4> QED BY <4>2, <4>3
    <3>19. CASE OracleDies \/ UNCHANGED vars
      <4>1. UNCHANGED <<pc, result, kex, epoch, pos, seq, sid, key, scalar, used, toOracle, toClient>>
        BY <3>19 DEF OracleDies, vars, decoderVars, oracleVars, pipeVars
      <4>2. pc \in Reading => PlaceInv'
        <5>1. pc \in Reading /\ pc = "derive" => scalar = epoch
          BY <3>1 DEF PlaceInv
        <5> QED BY <3>4, <4>1, <5>1
      <4>3. pc \in Reading => OracleInv'
        BY <3>1, <3>5, <4>1 DEF OracleInv
      <4> QED BY <2>2, <3>1, <3>3, <4>1, <4>2, <4>3
    <3>20. ~Session /\ ~StopCapture
      BY <1>3 DEF Session, StopCapture
    <3> QED BY <3>6, <3>7, <3>8, <3>9, <3>10, <3>11, <3>12, <3>13, <3>14, <3>15, <3>16, <3>17, <3>18,
               <3>19, <3>20 DEF Next, Recover, OracleProcess
  <2> QED BY <2>3, <2>4
<1> QED BY <1>2, <1>3

\* README: "recomputes the SSH mpint shared secret and exchange hash, verifies
\* the host signature ... and recovers SSH_TEST_OK": whatever the number of
\* exchanges, of packets and of wraps of the sequence numbers, and however the
\* two directions and the two processes interleave, a session archived whole is
\* recovered unless the oracle is late or dies.  The assumption is the one that
\* the code needs: a shared secret that starts with a zero octet, one in 256,
\* enters the exchange hash with an encoding the server does not use.
THEOREM WholeIsRecovered ==
    ASSUME \A z \in Secrets : z # <<>> => z[1] # 0
    PROVE  Spec => []WholeSessionRecovered
<1> DEFINE Inv == LadderInv /\ CompleteInv /\ PlainInv /\ PrefixInv /\ SessionInv /\ TornInv /\ WholeInv
<1>1. Init => Inv
  <2> SUFFICES ASSUME Init PROVE Inv
    OBVIOUS
  <2>1. LadderInv
    BY LadderInit
  <2>2. /\ pc = "capture" /\ result = "none" /\ secrets = <<>> /\ pos["s2c"] = 0 /\ chunks = <<>>
        /\ \A d \in Dir : sent[d] = <<>> /\ keyNo[d] = -1 /\ seqNo[d] = 0 /\ kexinits[d] = 0
    BY DEF Init, SessionInit, Dir
  <2>3. RunInv /\ SwitchInv /\ PlainInv
    BY <2>2 DEF RunInv, Live, Ended, SwitchInv, PlainInv, Dir
  <2>4. TornInv /\ WholeInv
    BY <2>2 DEF TornInv, WholeInv
  <2>5. SessionInv
    BY <2>2, SessionStarts
  <2>6. PrefixInv
    BY PlainStarts
  <2> QED BY <2>1, <2>3, <2>4, <2>5, <2>6 DEF CompleteInv
<1>2. Inv /\ [Next]_vars => Inv'
  <2> SUFFICES ASSUME Inv, [Next]_vars PROVE Inv'
    OBVIOUS
  <2>1. TypeInv /\ SwitchInv /\ RunInv /\ SessionTypeOK
    BY DEF LadderInv, TypeInv, TypeOK, CompleteInv
  <2>2. LadderInv' /\ CompleteInv' /\ PlainInv' /\ PrefixInv'
    BY <2>1, LadderInvStep, SwitchStep, RunStep, PlainStep, PrefixStep DEF CompleteInv
  <2>3. SessionInv'
    <3>1. CASE SessionStep
      <4>1. \A d \in Dir : keyNo[d] >= -1
        BY DEF LadderInv, StreamInv
      <4> QED BY <2>1, <3>1, <4>1, SessionKept
    <3>2. CASE UNCHANGED sessionVars
      BY <3>2, SessionStays
    <3>3. SessionStep \/ UNCHANGED sessionVars
      BY DEF Next, Session, StopCapture, Recover, LoadWire, StartOracle, AwaitGreeting, CheckInputs,
             Ask, TakeReply, ReplyTimeout, Derive, DecryptEpoch, CheckMarker, CompareTruth,
             CloseOracle, JoinOracle, OracleProcess, OracleBoot, OracleServe, OracleDies, vars
    <3> QED BY <3>1, <3>2, <3>3
  <2>4. TornInv' /\ WholeInv'
    BY <2>1, WholeStep
  <2> QED BY <2>2, <2>3, <2>4
<1>3. Inv => WholeSessionRecovered
  BY DEF WholeInv, WholeSessionRecovered, Tolerated
<1> QED BY <1>1, <1>2, <1>3, PTL DEF Spec
=============================================================================
