---------------------------- MODULE TcpArchive ----------------------------
(***************************************************************************)
(* From a TCP capture to an archive and back: extract_tcp_chunks and       *)
(* write_pcap (minarx/pcap.py), and _tcp_events with _ssh_stream_events     *)
(* (archive_policy.py).                                                    *)
(*                                                                         *)
(* The state is the capture so far, one row per segment with payload, as   *)
(* tshark lists it; the code is a set of folds over the rows, so that the  *)
(* invariants speak of every capture.  The octets of a direction are       *)
(* numbered from 1 and stand for their values; tcp.seq is relative.        *)
(***************************************************************************)
EXTENDS Integers, SequencesExt, Selection

CONSTANTS
    Flow,        \* connections on the server's port
    Total,       \* Total[f]: octets that each endpoint of flow f sends
    MaxSegment,  \* octets of a segment on the wire
    PieceSize,   \* octets of a segment of the synthetic PCAP
    MaxRows      \* bound: segments captured

ASSUME ArchiveAssumption ==
    /\ Total \in [Flow -> Nat \ {0}] /\ MaxSegment \in Nat \ {0}
    /\ PieceSize \in Nat \ {0} /\ MaxRows \in Nat

Direction == {0, 1}     \* client to server, server to client

VARIABLE rows   \* what dumpcap recorded

vars == <<rows>>

Init == rows = <<>>

Octets(from, to) == [i \in 1..(to - from + 1) |-> from + i - 1]
Segment(f, d, from, to) == [flow |-> f, dir |-> d, seq |-> from, data |-> Octets(from, to)]

\* dumpcap may drop any segment, a segment may arrive late, and an endpoint
\* may send any octets again with other boundaries: whatever was captured,
\* the next row can be any piece of a stream.
Capture(f, d, from, n) ==
    /\ Len(rows) < MaxRows
    /\ from + n - 1 <= Total[f]
    /\ rows' = Append(rows, Segment(f, d, from, from + n - 1))

Next ==
    \E f \in Flow, d \in Direction, n \in 1..MaxSegment :
        \E from \in 1..Total[f] : Capture(f, d, from, n)

Spec == Init /\ [][Next]_vars
-----------------------------------------------------------------------------
(* minarx/pcap.py                                                          *)

\* Mutant of Novel: only whole retransmissions are omitted.
NovelUntrimmed(row, expected) == IF expected - row.seq >= Len(row.data) THEN <<>> ELSE row.data

\* What a row adds after the octets before expected; empty for a
\* retransmission.
Novel(row, expected) == SubSeq(row.data, expected - row.seq + 1, Len(row.data))

\* Payload of one direction is merged into the chunk before it.
AddChunk(chunks, d, data) ==
    IF chunks # <<>> /\ Last(chunks).dir = d
    THEN [chunks EXCEPT ![Len(chunks)].data = @ \o data]
    ELSE Append(chunks, [dir |-> d, data |-> data])

\* The loop's state; next[d] = 0 stands for a direction not seen yet.
Fresh == [error |-> FALSE, flow |-> <<>>, next |-> [d \in Direction |-> 0], chunks |-> <<>>]

ChunkRow(acc, row) ==
    LET expected == IF acc.next[row.dir] = 0 THEN row.seq ELSE acc.next[row.dir]
        novel    == Novel(row, expected)
    IN  IF \/ acc.error
           \/ acc.flow # <<>> /\ acc.flow # <<row.flow>>
           \/ row.seq > expected
        THEN [acc EXCEPT !.error = TRUE]
        ELSE IF novel = <<>> THEN acc
        ELSE [error  |-> FALSE, flow |-> <<row.flow>>,
              next   |-> [acc.next EXCEPT ![row.dir] = expected + Len(novel)],
              chunks |-> AddChunk(acc.chunks, row.dir, novel)]

\* A capture without payload raises as well.
extract_tcp_chunks(segments) ==
    LET end == FoldLeft(ChunkRow, Fresh, segments)
    IN  [ok |-> ~end.error /\ end.chunks # <<>>, chunks |-> end.chunks]

Pieces(chunk) ==
    LET n == Len(chunk.data)
    IN  [i \in 1..((n + PieceSize - 1) \div PieceSize) |->
            [dir |-> chunk.dir,
             data |-> SubSeq(chunk.data, (i - 1) * PieceSize + 1, IF i * PieceSize < n THEN i * PieceSize ELSE n)]]

WritePiece(acc, p) ==
    [rows |-> Append(acc.rows, [flow |-> 0, dir |-> p.dir, seq |-> acc.seq[p.dir], data |-> p.data]),
     seq  |-> [acc.seq EXCEPT ![p.dir] = @ + Len(p.data)]]

NothingWritten == [rows |-> <<>>, seq |-> [d \in Direction |-> 1]]

\* The segments of the synthetic PCAP; sequence numbers start at 1.
write_pcap(chunks) ==
    FoldLeft(WritePiece, NothingWritten, FlattenSeq([i \in DOMAIN chunks |-> Pieces(chunks[i])])).rows
-----------------------------------------------------------------------------
(* archive_policy.py                                                       *)

\* Mutant of EventRow: the sequence number is not advanced past the overlap.
EventRowUnadvanced(acc, row) ==
    LET expected == acc.next[row.dir]
        payload  == IF expected = 0 THEN row.data ELSE Novel(row, expected)
    IN  IF acc.error \/ (expected # 0 /\ row.seq > expected)
        THEN [acc EXCEPT !.error = TRUE]
        ELSE IF payload = <<>> THEN acc
        ELSE [error  |-> FALSE, flow |-> acc.flow,
              next   |-> [acc.next EXCEPT ![row.dir] = row.seq + Len(payload)],
              chunks |-> Append(acc.chunks, [dir |-> row.dir, data |-> payload])]

EventRow(acc, row) ==
    LET expected == acc.next[row.dir]
        payload  == IF expected = 0 THEN row.data ELSE Novel(row, expected)
        start    == IF expected = 0 THEN row.seq ELSE expected
    IN  IF acc.error \/ (expected # 0 /\ row.seq > expected)
        THEN [acc EXCEPT !.error = TRUE]
        ELSE IF payload = <<>> THEN acc
        ELSE [error  |-> FALSE, flow |-> acc.flow,
              next   |-> [acc.next EXCEPT ![row.dir] = start + Len(payload)],
              chunks |-> Append(acc.chunks, [dir |-> row.dir, data |-> payload])]

\* Only the first flow with payload is read.
_tcp_events(segments) ==
    LET Mine(acc, row) == IF row.flow = segments[1].flow THEN EventRow(acc, row) ELSE acc
        end            == FoldLeft(Mine, Fresh, segments)
    IN  [ok |-> ~end.error /\ end.chunks # <<>>, chunks |-> end.chunks]

\* _ssh_stream_events: the payload of one direction.
Stream(chunks, d) ==
    FoldLeft(LAMBDA octets, c : IF c.dir = d THEN octets \o c.data ELSE octets, <<>>, chunks)
-----------------------------------------------------------------------------
(* Properties.                                                             *)

Extracted == extract_tcp_chunks(rows)

OfDirection(d) == {i \in DOMAIN rows : rows[i].dir = d}
LastOctet(r) == r.seq + Len(r.data) - 1

\* An accepted transcript is, in each direction, one run of octets without a
\* hole, a repetition or a reordering, from the first octet of the first
\* segment captured to the last octet captured, of a single connection,
\* whatever was retransmitted with whatever boundaries.
TranscriptIsExact ==
    Extracted.ok =>
        /\ \A i, j \in DOMAIN rows : rows[i].flow = rows[j].flow
        /\ \A d \in Direction :
              LET mine   == OfDirection(d)
                  first  == rows[CHOOSE i \in mine : \A j \in mine : i <= j]
                  stream == Stream(Extracted.chunks, d)
              IN  IF mine = {} THEN stream = <<>>
                  ELSE /\ stream = Octets(first.seq, first.seq + Len(stream) - 1)
                       /\ \A i \in mine : LastOctet(rows[i]) <= Last(stream)

\* The two archivers agree: a capture that MinARX accepts gives the same stream
\* of each direction under the reassembled policy, and one that it rejects is
\* accepted there only if it holds a second connection.
ArchiversAgree ==
    rows # <<>> =>
        LET policy == _tcp_events(rows)
        IN  IF Extracted.ok
            THEN policy.ok /\ \A d \in Direction : Stream(policy.chunks, d) = Stream(Extracted.chunks, d)
            ELSE policy.ok => \E i \in DOMAIN rows : rows[i].flow # rows[1].flow
=============================================================================
