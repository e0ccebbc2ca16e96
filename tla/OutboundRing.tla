----------------------------- MODULE OutboundRing -----------------------------
(***************************************************************************)
(* One outbound ring with everything that uses it concurrently: the        *)
(* BlobSender that writes and shuts down, one transmitter task per blob    *)
(* callis that leases, marks and writes chunks, the callis readers that    *)
(* bring ACK, ERROR and blob-transfer-complete (possibly for an attempt    *)
(* the ring has given up), and the peer task that reports lost callis.     *)
(* OutboundChunks has the critical sections; BlobTransfer puts the ring    *)
(* between a real sender and a real receiver.                              *)
(***************************************************************************)
EXTENDS OutboundChunks

CONSTANTS
    Callis,     \* blob callis ids, each with one transmitter task
    MaxWrite,   \* longest poll_write buffer
    MaxBytes,   \* bytes the application writes altogether
    MaxMsgId,   \* write attempts (peer_msg_id values) of a behaviour
    MaxLosses   \* callis losses of a behaviour

ASSUME BoundAssumption ==
    /\ MaxWrite \in Nat \ {0} /\ MaxBytes \in Nat /\ MaxMsgId \in Nat /\ MaxLosses \in Nat
    /\ IsFiniteSet(Callis) /\ 0 \notin Callis

VARIABLES
    ring,       \* the OutboundRingBuffer
    holding,    \* what each transmitter is writing
    wire,       \* attempts the peer has yet to answer: peer_msg_id -> chunk_id
    shutdown,   \* the sender: still open, or how it was closed
    result,     \* what the latest poll_shutdown returned
    next_id,    \* PeerMessageIdAllocator
    losses,     \* callis losses so far
    accepted,   \* bytes poll_write has accepted
    emitted,    \* length and last flag of every chunk made, in chunk id order
    written     \* chunk ids that went to a socket at least once

vars == <<ring, holding, wire, shutdown, result, next_id, losses, accepted, emitted, written>>

Idle == [phase |-> "idle"]

Init ==
    /\ ring = NewRing
    /\ holding = [k \in Callis |-> Idle]
    /\ wire = <<>>
    /\ shutdown = "no" /\ result = "none"
    /\ next_id = 1
    /\ losses = 0
    /\ accepted = 0
    /\ emitted = <<>>
    /\ written = {}

----------------------------------------------------------------------------
(* BlobSenderStream. *)

\* try_push_available; a full ring makes poll_write wait for capacity.
try_push_available(n) ==
    /\ shutdown = "no"
    /\ ring.lifecycle = "Open"
    /\ accepted + n <= MaxBytes
    /\ can_accept_bytes(ring)
    /\ LET p == push_available(ring, n)
       IN  /\ ring' = p.ring
           /\ accepted' = accepted + p.accepted
           /\ emitted' = emitted \o NewChunks(ring, p.ring)
    /\ UNCHANGED <<holding, wire, shutdown, result, next_id, losses, written>>

\* poll_shutdown: one round of seal, repeated while the window is full.
seal_round ==
    /\ shutdown \in {"no", "sealing"}
    /\ ring.lifecycle \notin {"Failed", "Closed"}
    /\ ring.lifecycle = "Sealing" => CanFinalize(ring)
    /\ ring' = seal(ring)
    /\ emitted' = emitted \o NewChunks(ring, ring')
    /\ shutdown' = IF ring'.lifecycle = "Sealing" THEN "sealing" ELSE "sealed"
    /\ UNCHANGED <<holding, wire, result, next_id, losses, accepted, written>>

\* A seal that meets a failed ring, or waits for capacity too long, returns its
\* error without a cleanup: the sender stays open and may shut down again.
seal_fails ==
    /\ \/ shutdown = "sealing"
       \/ shutdown = "no" /\ ring.lifecycle \in {"Failed", "Closed"}
    /\ shutdown' = "no" /\ result' = "err"
    /\ UNCHANGED <<ring, holding, wire, next_id, losses, accepted, emitted, written>>

\* wait_for_complete, then the sender's cleanup closes the ring.
wait_for_complete ==
    /\ shutdown = "sealed"
    /\ ring.lifecycle = "Completed" /\ is_drained(ring)
    /\ shutdown' = "ok" /\ result' = "ok"
    /\ ring' = close(ring)
    /\ UNCHANGED <<holding, wire, next_id, losses, accepted, emitted, written>>

\* A failed or timed out wait: cleanup closes the ring.
wait_fails ==
    /\ shutdown = "sealed"
    /\ shutdown' = "failed" /\ result' = "err"
    /\ ring' = close(ring)
    /\ UNCHANGED <<holding, wire, next_id, losses, accepted, emitted, written>>

\* poll_shutdown of a sender that is closed returns Ok at once.
shutdown_again ==
    /\ shutdown \in {"ok", "failed"}
    /\ result' = "ok"
    /\ UNCHANGED <<ring, holding, wire, shutdown, next_id, losses, accepted, emitted, written>>

\* The application drops a sender that is not closed: cleanup closes the ring.
drop_sender ==
    /\ shutdown \in {"no", "sealing", "sealed"}
    /\ shutdown' = "dropped"
    /\ ring' = close(ring)
    /\ UNCHANGED <<holding, wire, result, next_id, losses, accepted, emitted, written>>

----------------------------------------------------------------------------
(* The transmitters. *)

lease(k) ==
    /\ holding[k] = Idle
    /\ has_dispatchable_replay(ring) \/ has_dispatchable_fresh(ring)
    /\ next_id <= MaxMsgId
    /\ ring' = lease_next_chunk_for_write(ring, k, next_id)
    /\ holding' = [holding EXCEPT ![k] =
                     [phase |-> "leased", lease |-> LeaseOf(ring', NextSlot(ring))]]
    /\ next_id' = next_id + 1
    /\ UNCHANGED <<wire, shutdown, result, losses, accepted, emitted, written>>

mark_chunk_inflight(k) ==
    /\ holding[k].phase = "leased"
    /\ ring' = mark_inflight(ring, holding[k].lease)
    /\ holding' = [holding EXCEPT ![k].phase = "marked"]
    /\ UNCHANGED <<wire, shutdown, result, next_id, losses, accepted, emitted, written>>

\* The frame went to the socket; the peer may or may not answer it.
write_ok(k) ==
    /\ holding[k].phase = "marked"
    /\ wire' = With(wire, holding[k].lease.peer_msg_id, holding[k].lease.chunk_id)
    /\ written' = written \cup {holding[k].lease.chunk_id}
    /\ holding' = [holding EXCEPT ![k] = Idle]
    /\ UNCHANGED <<ring, shutdown, result, next_id, losses, accepted, emitted>>

\* finish_blob_write_attempt of a failed write.
write_err(k) ==
    /\ holding[k].phase = "marked"
    /\ losses < MaxLosses
    /\ losses' = losses + 1
    /\ ring' = mark_callis_replay_ready(ring, k)
    /\ holding' = [holding EXCEPT ![k] = Idle]
    /\ UNCHANGED <<wire, shutdown, result, next_id, accepted, emitted, written>>

\* requeue_inflight_for_callis, or requeue_all_inflight: a disconnect request runs
\* that while the transmitter of the callis is still at work.
callis_lost(k) ==
    /\ losses < MaxLosses
    /\ losses' = losses + 1
    /\ ring' = mark_callis_replay_ready(ring, k)
    /\ UNCHANGED <<holding, wire, shutdown, result, next_id, accepted, emitted, written>>

----------------------------------------------------------------------------
(* Frames from the peer. *)

ack(m) ==
    /\ ring' = note_ack(ring, m)
    /\ wire' = Without(wire, m)
    /\ UNCHANGED <<holding, shutdown, result, next_id, losses, accepted, emitted, written>>

error(m) ==
    /\ ring' = note_error(ring, m, "chunk")
    /\ wire' = Without(wire, m)
    /\ UNCHANGED <<holding, shutdown, result, next_id, losses, accepted, emitted, written>>

\* The receiver completes once it has every chunk up to the last one.
Sealed == emitted # <<>> /\ emitted[Len(emitted)].is_last

complete ==
    /\ Sealed /\ written = 0..(Len(emitted) - 1)
    /\ ring.lifecycle \notin {"Closed", "Completed"}
    /\ ring' = mark_complete(ring)
    /\ UNCHANGED <<holding, wire, shutdown, result, next_id, losses, accepted, emitted, written>>

\* fail_stream and fail_all_streams: fail, then close.
fail_stream ==
    /\ ring.lifecycle \notin {"Failed", "Closed"}
    /\ ring' = close(fail(ring, "stream"))
    /\ UNCHANGED <<holding, wire, shutdown, result, next_id, losses, accepted, emitted, written>>

Next ==
    \/ \E n \in 1..MaxWrite : try_push_available(n)
    \/ seal_round \/ seal_fails \/ wait_for_complete \/ wait_fails
    \/ shutdown_again \/ drop_sender
    \/ \E k \in Callis : lease(k) \/ mark_chunk_inflight(k) \/ write_ok(k) \/ write_err(k)
                         \/ callis_lost(k)
    \/ \E m \in DOMAIN wire : ack(m) \/ error(m)
    \/ complete \/ fail_stream

Spec == Init /\ [][Next]_vars

----------------------------------------------------------------------------
(* Properties. *)

SlotType ==
    [state : {"Empty", "Ready", "Writing", "InFlight", "ReplayReady"}, chunk_id : Nat,
     len : 0..ChunkSize, is_last : BOOLEAN, seq : Nat, peer_msg_id : Nat,
     callis_id : Callis \cup {0}]

\* Types of the ring's fields, and the ranges its unsigned counters rely on:
\* at most one chunk's bytes are staged and the in-flight count never
\* passes the window.
TypeOK ==
    /\ ring.lifecycle \in {"Open", "Sealing", "AwaitingComplete", "Completed", "Failed", "Closed"}
    /\ ring.slots \in [Slots -> SlotType]
    /\ ring.write_buf \in 0..ChunkSize /\ ring.write_cursor \in Slots
    /\ ring.inflight \in 0..WindowSize
    /\ ring.next_chunk_id = Len(emitted)
    /\ shutdown \in {"no", "sealing", "sealed", "ok", "failed", "dropped"}

\* No byte poll_write accepted is lost or repeated by chunk assembly: it is
\* in a chunk, in the pending chunk or in write_buf.  enqueue_chunk drops a
\* chunk silently when no slot is empty, so this is what the window
\* arithmetic has to guarantee.  And no chunk follows the one flagged last,
\* at which the receiver ends the blob.
BytesConserved ==
    /\ accepted = Bytes(emitted) + (IF ring.pending_full THEN ChunkSize ELSE 0) + ring.write_buf
    /\ \A n \in DOMAIN emitted : emitted[n].is_last => n = Len(emitted)

\* The ring's books agree with its slots: chunk_index finds every occupied
\* slot, ack_map names exactly the attempts in flight, inflight counts
\* them, and the window bounds the slots together with pending_full.  And nobody
\* waits for an attempt that cannot end: a slot in Writing is held by the
\* transmitter it is stamped with, under a lease that still matches, and a slot
\* in flight is with that transmitter or on the wire.
BooksExact ==
    /\ TypeOK
    /\ \A i \in Slots : ring.slots[i].state # "Empty" =>
         /\ ring.slots[i].chunk_id \in DOMAIN ring.chunk_index
         /\ ring.chunk_index[ring.slots[i].chunk_id] = i
    /\ Cardinality(DOMAIN ring.chunk_index) = live_chunk_count(ring)
    /\ DOMAIN ring.ack_map = {ring.slots[i].peer_msg_id : i \in InState(ring, "InFlight")}
    /\ \A i \in InState(ring, "InFlight") :
         ring.ack_map[ring.slots[i].peer_msg_id] = ring.slots[i].chunk_id
    /\ ring.inflight = Cardinality(InState(ring, "InFlight"))
    /\ has_window_capacity_for(ring, 0)
    /\ \A i \in InState(ring, "Writing") : \E k \in Callis :
         /\ ring.slots[i].callis_id = k
         /\ holding[k].phase = "leased" /\ Matches(ring, holding[k].lease)
    /\ \A i \in InState(ring, "InFlight") :
         \/ ring.slots[i].peer_msg_id \in DOMAIN wire
         \/ \E k \in Callis : /\ holding[k].phase = "marked"
                             /\ holding[k].lease.peer_msg_id = ring.slots[i].peer_msg_id

\* A poll_shutdown that returns Ok has all bytes of the stream in chunks that
\* reached a socket, with no chunk left in the ring.  One case is named: a sender
\* whose wait failed is closed, its caller has the error, and every later call
\* returns Ok whatever was delivered.
OkMeansDelivered ==
    result = "ok" /\ shutdown # "failed" =>
        /\ Sealed /\ Bytes(emitted) = accepted
        /\ written = 0..(Len(emitted) - 1)
        /\ is_drained(ring)

\* A chunk leaves its slot only through the answer to the attempt now
\* stamped on it: a late ACK or ERROR of an attempt lost with its callis
\* frees nothing.
FreedOnlyByItsAnswer ==
    [][\A i \in Slots :
        ring.slots[i].state # "Empty" /\ ring'.slots[i].state = "Empty" =>
            /\ ring.slots[i].state = "InFlight"
            /\ ring.slots[i].peer_msg_id \in DOMAIN wire \ DOMAIN wire']_vars
=============================================================================
