----------------------------- MODULE TlsArchive -----------------------------
(***************************************************************************)
(* TLS records above the segments of TcpArchive: the MinARX codec          *)
(* (minarx/protocols/common.py, tls12.py, tls13.py) and the wire archives   *)
(* of archive_policy.py, both read back from a synthetic PCAP.             *)
(*                                                                         *)
(* A session fixes the records that each endpoint sends.  The first octet  *)
(* of a record stands for its header, which gives type and length; a       *)
(* handshake record holds one message.  The session is not state: the      *)
(* invariants speak of every session over every capture.                   *)
(***************************************************************************)
EXTENDS TcpArchive

CONSTANTS
    TlsFlow,   \* the flow that carries the session
    Sessions   \* records [protocol, mode, index, records]: index counts the
               \* captures of a session, records[d] are the records of d

Record(type, len, sealed, message) ==
    [type |-> type, len |-> len, sealed |-> sealed, message |-> message]

Length(records) == FoldLeft(LAMBDA n, r : n + r.len, 0, records)

\* What an endpoint can send in a record.
AnyRecord ==
    [type : {"handshake", "ccs", "alert", "application"}, len : Nat \ {0}, sealed : BOOLEAN, message : STRING]

\* Both endpoints begin with a hello.  Unless the server asks for another one,
\* application records are protected, and what follows ChangeCipherSpec.  The
\* client sends no hello of a server.
ASSUME SessionsAssumption ==
    \A s \in Sessions :
        /\ \A d \in Direction :
              /\ s.records[d] \in Seq(AnyRecord) /\ Length(s.records[d]) = Total[TlsFlow]
              /\ s.records[d][1].type = "handshake"
        /\ s.records[0][1].message = "ClientHello"
        /\ \A r \in ToSet(s.records[0]) : r.message \notin {"ServerHello", "HelloRetryRequest"}
        /\ \/ s.records[1][1].message = "HelloRetryRequest"
           \/ /\ s.records[1][1].message = "ServerHello"
              /\ \A d \in Direction : \A i \in DOMAIN s.records[d] :
                    LET r == s.records[d][i]
                    IN  /\ r.message # "HelloRetryRequest"
                        /\ r.sealed <=> \/ r.type = "application"
                                       \/ \E j \in 1..(i - 1) : s.records[d][j].type = "ccs"

\* The octets of the records that direction d sends.
Sent(s, d) ==
    [i \in DOMAIN s.records[d] |->
        [dir |-> d, record |-> s.records[d][i],
         data |-> Octets(Length(SubSeq(s.records[d], 1, i - 1)) + 1, Length(SubSeq(s.records[d], 1, i)))]]

\* The record whose header is the octet, if there is one.
StartsAt(s, d, octet) ==
    {i \in DOMAIN s.records[d] : Length(SubSeq(s.records[d], 1, i - 1)) + 1 = octet}
-----------------------------------------------------------------------------
(* Records from chunks: split_tls_records and _tls_record_events.          *)

NoRecords == [error |-> FALSE, pending |-> [d \in Direction |-> <<>>], records |-> <<>>]

\* One octet more of direction d.  A record is complete in the chunk that
\* brings its last octet.  Octets that do not start with a header fail: they
\* ask for too much, or for what does not come.
Octet(s, acc, d, octet) ==
    LET buffer == Append(acc.pending[d], octet)
        starts == StartsAt(s, d, buffer[1])
    IN  IF starts = {} THEN [acc EXCEPT !.error = TRUE]
        ELSE LET record == s.records[d][CHOOSE i \in starts : TRUE]
                 whole  == Len(buffer) >= record.len
             IN  [error   |-> acc.error,
                  pending |-> [acc.pending EXCEPT ![d] = IF whole THEN <<>> ELSE buffer],
                  records |-> IF whole THEN Append(acc.records, [dir |-> d, record |-> record, data |-> buffer])
                              ELSE acc.records]

\* The octets of the chunks in their order, each with its direction.
Bytes(chunks) ==
    FlattenSeq([i \in DOMAIN chunks |->
        [j \in DOMAIN chunks[i].data |-> <<chunks[i].dir, chunks[i].data[j]>>]])

split_tls_records(s, chunks) ==
    LET end == FoldLeft(LAMBDA acc, b : Octet(s, acc, b[1], b[2]), NoRecords, Bytes(chunks))
    IN  [ok |-> ~end.error /\ \A d \in Direction : end.pending[d] = <<>>, records |-> end.records]

\* The messages of the handshake records that come in the clear; a
\* HelloRetryRequest or a capture without a ClientHello is refused.
tls_hello_parameters(records) ==
    LET messages == {r.record.message : r \in {x \in ToSet(records) : x.record.type = "handshake"}}
    IN  [ok       |-> "ClientHello" \in messages /\ "HelloRetryRequest" \notin messages,
         answered |-> "ServerHello" \in messages]

\* The profile names the cipher suite of the ServerHello.
validate(records) == tls_hello_parameters(records).ok /\ tls_hello_parameters(records).answered
-----------------------------------------------------------------------------
(* MinARX.  The layout may be compressed, the opaque octets never are.     *)

\* Mutant of IsOpaque: only application records.
IsOpaqueByType(record, active) == record.type = "application"

\* In TLS 1.2 ChangeCipherSpec activates protection of its direction.
IsOpaque(record, active) == record.type = "application" \/ active

EncodeRecord(acc, r) ==
    LET opaque   == IsOpaque(r.record, acc.active[r.dir])
        fragment == Tail(r.data)
    IN  [layout |-> Append(acc.layout,
                           [dir |-> r.dir, record |-> r.record, header |-> Head(r.data), opaque |-> opaque,
                            clear |-> IF opaque THEN <<>> ELSE fragment, length |-> Len(fragment)]),
         opaque |-> IF opaque THEN acc.opaque \o fragment ELSE acc.opaque,
         active |-> IF r.record.type = "ccs" THEN [acc.active EXCEPT ![r.dir] = TRUE] ELSE acc.active]

NothingEncoded == [layout |-> <<>>, opaque |-> <<>>, active |-> [d \in Direction |-> FALSE]]

_encode_tls_records(records) ==
    LET end == FoldLeft(EncodeRecord, NothingEncoded, records)
    IN  [layout |-> end.layout, opaque |-> end.opaque]

\* One record more; to take octets that are not left raises.
DecodeRecord(acc, e) ==
    LET n == IF e.opaque THEN e.length ELSE 0
    IN  IF n > Len(acc.opaque) THEN [acc EXCEPT !.error = TRUE]
        ELSE [error  |-> acc.error,
              chunks |-> Append(acc.chunks,
                            [dir |-> e.dir, data |-> <<e.header>> \o IF e.opaque THEN SubSeq(acc.opaque, 1, n) ELSE e.clear]),
              opaque |-> SubSeq(acc.opaque, n + 1, Len(acc.opaque))]

\* The records of a layout as chunks, one for each, and what is left of the
\* opaque octets.
_decode_tls_records(layout, opaque) ==
    FoldLeft(DecodeRecord, [error |-> FALSE, chunks |-> <<>>, opaque |-> opaque], layout)

\* The captures of a session follow each other; their opaque octets are one
\* section of the container.
compact_tls_pcaps(s, captures) ==
    LET split   == [i \in DOMAIN captures |-> split_tls_records(s, captures[i])]
        encoded == [i \in DOMAIN captures |-> _encode_tls_records(split[i].records)]
    IN  [ok      |-> \A i \in DOMAIN captures : split[i].ok /\ validate(split[i].records),
         layouts |-> [i \in DOMAIN captures |-> encoded[i].layout],
         opaque  |-> FlattenSeq([i \in DOMAIN captures |-> encoded[i].opaque])]

\* Mutant of Taken: every capture reads the opaque section from its start.
TakenAgain(opaque, layout) == opaque

\* What the captures after one with this layout find in the opaque section.
Taken(opaque, layout) == _decode_tls_records(layout, opaque).opaque

MaterializePcap(acc, layout) ==
    LET read == _decode_tls_records(layout, acc.opaque)
    IN  IF read.error THEN [acc EXCEPT !.error = TRUE]
        ELSE [error |-> acc.error, pcaps |-> Append(acc.pcaps, write_pcap(read.chunks)),
              opaque |-> Taken(acc.opaque, layout)]

materialize_tls_pcaps(container) ==
    LET end == FoldLeft(MaterializePcap, [error |-> FALSE, pcaps |-> <<>>, opaque |-> container.opaque],
                        container.layouts)
    IN  [ok |-> ~end.error /\ end.opaque = <<>>, pcaps |-> end.pcaps]
-----------------------------------------------------------------------------
(* Policy archives.                                                        *)

\* What the compact policy keeps, by the public type and direction.
Retained(s, r) ==
    /\ s.protocol = "tls12" => r.dir = 0 \/ r.record.type \notin {"alert", "application"}
    /\ s.mode = "0rtt" /\ s.index = 1 => r.dir = 0

\* The records, one event each, of what _tcp_events gives.
_tls_record_events(s, events) ==
    LET split == split_tls_records(s, events.chunks)
        kept  == Only(split.records, {r \in ToSet(split.records) : Retained(s, r)})
    IN  [ok     |-> events.ok /\ split.ok /\ split.records # <<>>,
         chunks |-> [i \in DOMAIN kept |-> [dir |-> kept[i].dir, data |-> kept[i].data]]]

\* _decode_wire_events after _encode_wire_events, and the segments that
\* _write_tcp_pcap makes of the events: both lose nothing but the flow.
_write_tcp_pcap(events) == write_pcap(events)

-----------------------------------------------------------------------------
(* Properties.                                                             *)

\* Captures in which nothing before the first segment of a direction is
\* missing: the extraction takes that segment for the start of its stream.
Whole ==
    /\ Extracted.ok /\ rows[1].flow = TlsFlow
    /\ \A d \in Direction : Stream(Extracted.chunks, d) # <<>> => Stream(Extracted.chunks, d)[1] = 1

\* "Compress protocol layout only; opaque protected data is never passed here":
\* no octet of a protected fragment is in the layout, and no handshake message
\* in the clear is hidden from it, wherever the segments were cut.
OpaqueIsSealed ==
    Whole =>
        \A s \in Sessions :
            LET split   == split_tls_records(s, Extracted.chunks)
                encoded == _encode_tls_records(split.records)
            IN  split.ok /\ validate(split.records) =>
                    /\ \A e \in ToSet(encoded.layout) : e.opaque <=> e.record.sealed
                    /\ Len(encoded.opaque) =
                           FoldLeft(LAMBDA n, r : IF r.record.sealed THEN n + r.record.len - 1 ELSE n,
                                    0, split.records)

\* An archive of two captures of a session gives back the records of each, in
\* the order in which they were completed, and uses up the opaque section; a
\* HelloRetryRequest or a capture that ends in a record makes no archive.
RecordsSurvive ==
    Whole =>
        \A s \in Sessions :
            LET container == compact_tls_pcaps(s, <<Extracted.chunks, Extracted.chunks>>)
                read      == materialize_tls_pcaps(container)
                records   == split_tls_records(s, Extracted.chunks).records
            IN  IF container.ok
                THEN /\ read.ok
                     /\ \A i \in 1..2 :
                           LET again == extract_tcp_chunks(read.pcaps[i])
                           IN  again.ok /\ split_tls_records(s, again.chunks) = [ok |-> TRUE, records |-> records]
                ELSE \/ \E d \in Direction : \E i \in DOMAIN s.records[d] :
                            s.records[d][i].message = "HelloRetryRequest"
                     \/ \E d \in Direction :
                            \A k \in 0..Len(s.records[d]) :
                                Length(SubSeq(s.records[d], 1, k)) # Len(Stream(Extracted.chunks, d))
                     \/ \E d \in Direction : Stream(Extracted.chunks, d) = <<>>
=============================================================================
