---------------------------- MODULE InboundChunks ----------------------------
(***************************************************************************)
(* The inbound ring of one blob stream (ring_buffer/inbound.rs) as         *)
(* operators on a ring record.  A chunk is its id; the length check is     *)
(* left out, a sender with the negotiated settings never fails it.         *)
(***************************************************************************)
EXTENDS Integers, FiniteSets

CONSTANT RecvWindow   \* negotiated ack_window_chunks

\* InboundRingBuffer::new refuses a zero size.
ASSUME RecvWindowAssumption == RecvWindow \in Nat \ {0}

NoChunk == -1

NewInbound ==
    [next_expected |-> 0, next_deliver |-> 0, last_chunk_id |-> NoChunk, received |-> {}]

\* The first id from n on that is not in S.
FirstMissing(n, S) ==
    CHOOSE m \in n..(n + Cardinality(S)) : m \notin S /\ \A l \in n..(m - 1) : l \in S

\* Mutant: a last chunk that leaves a gap is acknowledged like a duplicate.
refusal_acks_gap(q, chunk_id, is_last) ==
    IF chunk_id < q.next_deliver                     THEN "Duplicate"
    ELSE IF chunk_id >= q.next_expected + RecvWindow THEN "BlobAckWindowExceeded"
    ELSE IF chunk_id \in q.received                  THEN "Duplicate"
    ELSE IF Cardinality(q.received) >= RecvWindow    THEN "BlobBufferFull"
    ELSE IF is_last /\ chunk_id > q.next_expected    THEN "Duplicate"
    ELSE "none"

\* Why insert_chunk refuses a chunk before storing it, in the order it looks.
Refusal(q, chunk_id, is_last) ==
    IF chunk_id < q.next_deliver                     THEN "Duplicate"
    ELSE IF chunk_id >= q.next_expected + RecvWindow THEN "BlobAckWindowExceeded"
    ELSE IF chunk_id \in q.received                  THEN "Duplicate"
    ELSE IF Cardinality(q.received) >= RecvWindow    THEN "BlobBufferFull"
    ELSE IF is_last /\ chunk_id > q.next_expected    THEN "BlobStreamMissingChunk"
    ELSE "none"

\* Mutant: LAST_CHUNK completes the stream whatever came before it.
completes_on_last(q, chunk_id, is_last) ==
    [ring |-> [q EXCEPT !.received = @ \cup {chunk_id},
                        !.last_chunk_id = IF is_last THEN chunk_id ELSE @],
     outcome |-> IF is_last THEN "Complete" ELSE "Stored"]

\* insert_chunk: the ring it leaves and what it returns.  The gap check runs
\* after the chunk is stored.
insert_chunk(q, chunk_id, is_last) ==
    LET refusal  == Refusal(q, chunk_id, is_last)
        received == q.received \cup {chunk_id}
        expected == IF chunk_id = q.next_expected THEN FirstMissing(chunk_id, received)
                                                  ELSE q.next_expected
        stored   == [q EXCEPT !.received = received, !.next_expected = expected]
        gap      == /\ Cardinality(received) >= RecvWindow
                    /\ expected \notin received
                    /\ \E c \in received : c > expected
        last     == IF is_last THEN chunk_id ELSE q.last_chunk_id
        complete == last # NoChunk /\ expected = last + 1
    IN  CASE refusal # "none" -> [ring |-> q, outcome |-> refusal]
          [] refusal = "none" /\ gap -> [ring |-> stored, outcome |-> "BlobStreamMissingChunk"]
          [] OTHER -> [ring |-> [stored EXCEPT !.last_chunk_id = last],
                       outcome |-> IF complete THEN "Complete" ELSE "Stored"]

CanTake(q) == q.next_deliver \in q.received

take_next(q) ==
    LET next == q.next_deliver + 1
    IN  [q EXCEPT !.received = @ \ {q.next_deliver}, !.next_deliver = next,
                  !.next_expected = IF @ < next THEN next ELSE @]

is_complete(q) == q.last_chunk_id # NoChunk /\ q.next_deliver > q.last_chunk_id
=============================================================================
