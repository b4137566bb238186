-------------------------- MODULE ResumptionCapture --------------------------
(***************************************************************************)
(* capture_0rtt: up to three linked TLS 1.3 connections to one persistent  *)
(* server, and the thread that reads the ephemeral key pairs which the     *)
(* server's debug hook prints, one private and one public line per (EC)DHE *)
(* connection, into eph_store_phase1["server"].  Nothing but pauses keeps  *)
(* the main thread's copies of that entry in step with the reader.         *)
(***************************************************************************)
EXTENDS Tls13Keys, FiniteSets

CONSTANT MaxTickets   \* bound: tickets that the server issues on one connection

ASSUME CaptureAssumption == MaxTickets \in Nat \ {0}

VARIABLES
    kex,         \* resumption_kex
    grandchild,  \* capture_grandchild
    timely,      \* the reader and dumpcap keep up with the code's pauses
    cpc,         \* control point of the main thread
    wire,        \* the connections made: see Tls13Keys
    saved,       \* saved[c]: the ticket in the file that client c left, 0 if none
    pipe,        \* lines in the server's stderr that the reader has not read
    store,       \* the entry eph_store_phase1["server"]
    phase1,      \* server_phase1
    phase2,      \* eph_store_phase2["server"]
    taken,       \* recovered.get("priv") of the persist call under way
    oracle,      \* oracle[p]: the recovery file of phase p, NoFile if absent
    manifest     \* manifest.json exists

hookVars == <<pipe, store>>
lateVars == <<taken, oracle, manifest>>
captureVars == <<kex, grandchild, timely, cpc, wire, saved, pipe, store, phase1, phase2,
                 taken, oracle, manifest>>

NoPair == [priv |-> 0, pub |-> 0]
NoFile == NoPair
Fresh  == kex = "psk-dhe"

CaptureInit ==
    /\ kex \in {"psk-dhe", "psk-only"} /\ grandchild \in BOOLEAN /\ timely \in BOOLEAN
    /\ cpc = "client1" /\ wire = <<>> /\ saved = <<>>
    /\ pipe = <<>> /\ store = NoPair /\ phase1 = NoPair /\ phase2 = NoPair
    /\ taken = 0 /\ oracle = [p \in 1..2 |-> NoFile] /\ manifest = FALSE
-----------------------------------------------------------------------------
\* reader_thread on the server's stderr takes one line.  It is a daemon
\* thread: it ends with the capture's process.
ReadLine ==
    /\ pipe /= <<>> /\ cpc \notin {"captured", "raised"}
    /\ store' = [store EXCEPT ![Head(pipe).field] = Head(pipe).value]
    /\ pipe' = Tail(pipe)
    /\ UNCHANGED <<kex, grandchild, timely, cpc, wire, saved, phase1, phase2, lateVars>>

\* A connection c of a client and the server, until the client has exited or
\* was terminated: the server prints its pair when it has chosen a key share
\* and issues tickets after the client's Finished; the client's file holds
\* one of them.  Packets that dumpcap has not written yet when it is stopped
\* are missing from the PCAP.
Connection(c, ticket) ==
    \E issued \in 0..MaxTickets :
      /\ \E archived \in {1..n : n \in 0..issued} :
           /\ timely => archived = 1..issued
           /\ wire' = Append(wire, [ticket |-> ticket, dh |-> c = 1 \/ Fresh,
                                    early |-> c > 1, archived |-> archived])
      /\ \E ticketOut \in 0..issued : saved' = Append(saved, ticketOut)
      /\ pipe' = IF c = 1 \/ Fresh
                 THEN pipe \o <<[field |-> "priv", value |-> c], [field |-> "pub", value |-> c]>>
                 ELSE pipe

\* The pauses after a client's exit, when they are long enough.
ReaderHasCaughtUp == timely => pipe = <<>>

Client1 ==
    /\ cpc = "client1"
    /\ Connection(1, 0)
    /\ cpc' = "snapshot1"
    /\ UNCHANGED <<kex, grandchild, timely, store, phase1, phase2, lateVars>>

\* The main thread copies the pair, stops dumpcap and looks for the ticket.
Snapshot1 ==
    /\ cpc = "snapshot1" /\ ReaderHasCaughtUp
    /\ phase1' = store
    /\ cpc' = IF saved[1] = 0 THEN "raised" ELSE "client2"
    /\ UNCHANGED <<kex, grandchild, timely, wire, saved, hookVars, phase2, lateVars>>

\* Phase 2 with the parent's ticket.  The client's summary must report a
\* resumed session and accepted early data.
Client2 ==
    /\ cpc = "client2"
    /\ \/ /\ Connection(2, saved[1])
          /\ cpc' = "snapshot2"
          /\ UNCHANGED <<kex, grandchild, timely, store, phase1, phase2, lateVars>>
       \/ /\ cpc' = "raised"
          /\ UNCHANGED <<kex, grandchild, timely, wire, saved, hookVars, phase1, phase2, lateVars>>

Snapshot2 ==
    /\ cpc = "snapshot2" /\ ReaderHasCaughtUp
    /\ phase2' = IF Fresh THEN store ELSE phase2
    /\ cpc' = IF ~grandchild THEN "restore" ELSE IF saved[2] = 0 THEN "raised" ELSE "client3"
    /\ UNCHANGED <<kex, grandchild, timely, wire, saved, hookVars, phase1, lateVars>>

Client3 ==
    /\ cpc = "client3"
    /\ \/ /\ Connection(3, saved[2])
          /\ cpc' = "restore"
          /\ UNCHANGED <<kex, grandchild, timely, store, phase1, phase2, lateVars>>
       \/ /\ cpc' = "raised"
          /\ UNCHANGED <<kex, grandchild, timely, wire, saved, hookVars, phase1, phase2, lateVars>>

\* Mutants: phase 2 is copied only now; phase 1 is not set back.
RestoreAndSnapshot2 ==
    /\ cpc = "restore" /\ ReaderHasCaughtUp
    /\ phase2' = IF Fresh THEN store ELSE phase2
    /\ store' = phase1
    /\ cpc' = "persist1"
    /\ UNCHANGED <<kex, grandchild, timely, wire, saved, pipe, phase1, lateVars>>

RestoreNothing ==
    /\ cpc = "restore" /\ ReaderHasCaughtUp
    /\ cpc' = "persist1"
    /\ UNCHANGED <<kex, grandchild, timely, wire, saved, hookVars, phase1, phase2, lateVars>>

\* The server is terminated, its readers are joined for a second, and the
\* entry is set back to the first snapshot.  A reader that is still running
\* writes into that entry from now on.
RestorePhase1 ==
    /\ cpc = "restore" /\ ReaderHasCaughtUp
    /\ store' = phase1
    /\ cpc' = "persist1"
    /\ UNCHANGED <<kex, grandchild, timely, wire, saved, pipe, phase1, phase2, lateVars>>

\* persist_recovery_material reads the private value and then the public one.
TakePrivate(p, entry) ==
    /\ cpc = <<"persist1", "persist2">>[p]
    /\ taken' = entry.priv
    /\ cpc' = <<"public1", "public2">>[p]
    /\ UNCHANGED <<kex, grandchild, timely, wire, saved, hookVars, phase1, phase2, oracle, manifest>>

PersistPair(p, entry) ==
    /\ cpc = <<"public1", "public2">>[p]
    /\ IF taken = 0 \/ entry.pub = 0
       THEN cpc' = "raised" /\ UNCHANGED oracle
       ELSE /\ oracle' = [oracle EXCEPT ![p] = [priv |-> taken, pub |-> entry.pub]]
            /\ cpc' = IF p = 1 /\ Fresh THEN "persist2" ELSE "manifest"
    /\ UNCHANGED <<kex, grandchild, timely, wire, saved, hookVars, phase1, phase2, taken, manifest>>

Persist ==
    \/ TakePrivate(1, store) \/ PersistPair(1, store)
    \/ TakePrivate(2, phase2) \/ PersistPair(2, phase2)

WriteManifest ==
    /\ cpc = "manifest"
    /\ manifest' = TRUE
    /\ cpc' = "captured"
    /\ UNCHANGED <<kex, grandchild, timely, wire, saved, hookVars, phase1, phase2, taken, oracle>>

MainStep ==
    \/ Client1 \/ Snapshot1 \/ Client2 \/ Snapshot2 \/ Client3
    \/ RestorePhase1 \/ Persist \/ WriteManifest

CaptureNext == MainStep \/ ReadLine

\* The main thread's waits are bounded; the reader runs while the pipe lives.
CaptureSpec ==
    CaptureInit /\ [][CaptureNext]_captureVars
    /\ WF_captureVars(MainStep) /\ WF_captureVars(ReadLine)
-----------------------------------------------------------------------------
\* The copy that phase 2 keeps was taken before the grandchild connected
\* (l. 357-360): however late the reader is, it never holds phase 3's values,
\* and no recovery file of phase 2 exists for a pure-PSK child.
NeverFromTheFuture ==
    /\ oracle[2].priv <= 2 /\ oracle[2].pub <= 2
    /\ ~Fresh => oracle[2] = NoFile

\* A capture that wrote its manifest has a complete pair, private and public,
\* for every phase that a recovery will ask for (persist_recovery_material
\* raises before the manifest otherwise).
ManifestMeansMaterial ==
    manifest => \A p \in IF Fresh THEN 1..2 ELSE {1} : oracle[p].priv /= 0 /\ oracle[p].pub /= 0

\* The material of phase 1 in a finished capture whose reader keeps up with the
\* code's pauses is the parent's, although
\* the same server went on to print the pairs of its later connections
\* ("Preserve phase-1 server keys before the persistent server handles the
\* second connection and the reader records the next key pair").
Phase1Preserved == timely /\ manifest => oracle[1] = [priv |-> 1, pub |-> 1]

\* Likewise the material of phase 2 is the child's.
Phase2IsTheChilds == timely /\ manifest /\ Fresh => oracle[2] = [priv |-> 2, pub |-> 2]
=============================================================================
