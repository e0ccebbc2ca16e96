--------------------------- MODULE OutboundChunks ---------------------------
(***************************************************************************)
(* The outbound ring of one blob stream (ring_buffer/outbound.rs and its   *)
(* chunks.rs, state.rs) as operators on a ring record: chunk assembly, the *)
(* fixed slots, the ACK map and the lifecycle.  Bytes are counted, not     *)
(* stored: they enter and leave the ring in order, so a chunk is its id    *)
(* and its length.  Every operator is one critical section of the ring     *)
(* mutex.                                                                  *)
(***************************************************************************)
EXTENDS Integers, FiniteSets, Sequences

CONSTANTS
    ChunkSize,   \* negotiated chunk_size, in bytes
    WindowSize   \* negotiated ack_window_chunks

\* OutboundRingBuffer::new refuses a zero size.
ASSUME SizeAssumption == ChunkSize \in Nat \ {0} /\ WindowSize \in Nat \ {0}

Slots == 0..(WindowSize - 1)

EmptySlot == [state |-> "Empty", chunk_id |-> 0, len |-> 0, is_last |-> FALSE,
              seq |-> 0, peer_msg_id |-> 0, callis_id |-> 0]

\* The slot after its callis was lost, or before its first write.
Unstamped(s, state) == [s EXCEPT !.state = state, !.peer_msg_id = 0, !.callis_id = 0]

\* OutboundState::new.
NewRing ==
    [lifecycle |-> "Open", error |-> "none",
     next_chunk_id |-> 0, write_cursor |-> 0, write_buf |-> 0,
     pending_full |-> FALSE, created_any |-> FALSE,
     slots |-> [i \in Slots |-> EmptySlot],
     chunk_index |-> <<>>, ack_map |-> <<>>, inflight |-> 0]

Without(f, x) == [y \in DOMAIN f \ {x} |-> f[y]]
With(f, x, v) == [y \in DOMAIN f \cup {x} |-> IF y = x THEN v ELSE f[y]]

----------------------------------------------------------------------------
(* Chunk assembly. *)

InState(r, state) == {i \in Slots : r.slots[i].state = state}

live_chunk_count(r) == Cardinality({i \in Slots : r.slots[i].state # "Empty"})

\* Mutant: the pending chunk takes no window space.
capacity_without_pending(r, count) == live_chunk_count(r) + count <= WindowSize

\* pending_full counts as the chunk it will become.
has_window_capacity_for(r, count) ==
    live_chunk_count(r) + (IF r.pending_full THEN 1 ELSE 0) + count <= WindowSize

can_accept_bytes(r) == r.write_buf < ChunkSize \/ has_window_capacity_for(r, 1)

is_drained(r) == live_chunk_count(r) = 0 /\ ~r.pending_full

\* The first empty slot from the write cursor on.
next_empty_slot(r) ==
    LET at(offset) == (r.write_cursor + offset) % WindowSize
        offset == CHOOSE o \in Slots :
                    /\ r.slots[at(o)].state = "Empty"
                    /\ \A p \in 0..(o - 1) : r.slots[at(p)].state # "Empty"
    IN  at(offset)

\* With every slot taken the code returns and the chunk is gone.
enqueue_chunk(r, len, is_last) ==
    IF InState(r, "Empty") = {} THEN r
    ELSE LET i == next_empty_slot(r)
         IN  [r EXCEPT
                !.slots[i] = [EmptySlot EXCEPT !.state = "Ready", !.chunk_id = r.next_chunk_id,
                                               !.len = len, !.is_last = is_last],
                !.chunk_index = With(@, r.next_chunk_id, i),
                !.next_chunk_id = @ + 1,
                !.created_any = TRUE,
                !.write_cursor = (i + 1) % WindowSize]

enqueue_pending(r, is_last) ==
    enqueue_chunk([r EXCEPT !.pending_full = FALSE], ChunkSize, is_last)

\* Fill write_buf with what is left of the caller's n bytes.
take_bytes(p, n) ==
    LET space == ChunkSize - p.ring.write_buf
        left  == n - p.accepted
        take  == IF left < space THEN left ELSE space
    IN  [ring |-> [p.ring EXCEPT !.write_buf = @ + take], accepted |-> p.accepted + take]

\* One round of the loop that turns a full write_buf into the pending chunk.
split_chunk(p, n) ==
    IF p.ring.write_buf < ChunkSize \/ ~has_window_capacity_for(p.ring, 1) THEN p
    ELSE LET r == [p.ring EXCEPT !.write_buf = @ - ChunkSize, !.created_any = TRUE]
             s == IF r.pending_full THEN enqueue_pending(r, FALSE) ELSE r
         IN  take_bytes([p EXCEPT !.ring = [s EXCEPT !.pending_full = TRUE]], n)

\* OutboundChunks::push_available on n bytes.  Every round after the first
\* needs ChunkSize of them, so n + 1 rounds are enough.
push_available(r, n) ==
    LET rounds[k \in 0..(n + 1)] ==
            IF k = 0 THEN take_bytes([ring |-> r, accepted |-> 0], n)
            ELSE split_chunk(rounds[k - 1], n)
        p == rounds[n + 1]
    IN  IF p.ring.pending_full /\ p.ring.write_buf > 0
        THEN [p EXCEPT !.ring = enqueue_pending(@, FALSE)]
        ELSE p

CanFinalize(r) ==
    has_window_capacity_for(r, IF r.pending_full /\ r.write_buf = 0 THEN 0 ELSE 1)

\* Mutant: behind a created chunk the last one is sent without its bytes.
finalize_drops_rest(r) ==
    IF r.pending_full /\ r.write_buf = 0 THEN enqueue_pending(r, TRUE)
    ELSE LET s == IF r.pending_full THEN enqueue_pending(r, FALSE) ELSE r
         IN  enqueue_chunk([s EXCEPT !.write_buf = 0],
                           IF s.created_any THEN 0 ELSE s.write_buf, TRUE)

\* OutboundChunks::finalize, once there is capacity: what is left becomes the
\* last chunk, an empty one only if no chunk was ever made.
finalize(r) ==
    LET rest(s) == enqueue_chunk([s EXCEPT !.write_buf = 0], s.write_buf, TRUE)
    IN  CASE r.pending_full /\ r.write_buf = 0 -> enqueue_pending(r, TRUE)
          [] r.pending_full /\ r.write_buf > 0 -> rest(enqueue_pending(r, FALSE))
          [] ~r.pending_full /\ r.write_buf = 0 /\ r.created_any -> r
          [] OTHER -> rest(r)

\* The chunks ring r2 holds that r1 had not made yet.
NewChunks(r1, r2) ==
    [n \in 1..(r2.next_chunk_id - r1.next_chunk_id) |->
        LET s == r2.slots[r2.chunk_index[r1.next_chunk_id + n - 1]]
        IN  [len |-> s.len, is_last |-> s.is_last]]

\* What a sequence of chunks carries.
Bytes(chunks) ==
    LET sum[n \in 0..Len(chunks)] == IF n = 0 THEN 0 ELSE sum[n - 1] + chunks[n].len
    IN  sum[Len(chunks)]

----------------------------------------------------------------------------
(* Write leases, ACKs and callis loss. *)

can_drain_chunks(r) == r.lifecycle \notin {"Failed", "Closed"}

has_dispatchable_replay(r) == can_drain_chunks(r) /\ InState(r, "ReplayReady") # {}

has_dispatchable_fresh(r) == can_drain_chunks(r) /\ InState(r, "Ready") # {}

\* Mutant: fresh chunks go out before replays.
next_slot_fresh_first(r) ==
    LET ready == IF InState(r, "Ready") # {} THEN InState(r, "Ready")
                                             ELSE InState(r, "ReplayReady")
    IN  CHOOSE i \in ready : \A j \in ready : r.slots[i].chunk_id <= r.slots[j].chunk_id

\* lease_next_chunk_for_write: replays first, then the smallest chunk id.
NextSlot(r) ==
    LET ready == IF InState(r, "ReplayReady") # {} THEN InState(r, "ReplayReady")
                                                   ELSE InState(r, "Ready")
    IN  CHOOSE i \in ready : \A j \in ready : r.slots[i].chunk_id <= r.slots[j].chunk_id

lease_next_chunk_for_write(r, callis_id, peer_msg_id) ==
    LET i == NextSlot(r)
    IN  [r EXCEPT !.slots[i] = [r.slots[i] EXCEPT !.state = "Writing", !.seq = @ + 1,
                                                  !.peer_msg_id = peer_msg_id,
                                                  !.callis_id = callis_id]]

\* The lease handed out is the slot's identity as it stands after the lease.
LeaseOf(r, i) == [r.slots[i] EXCEPT !.state = "Lease"]

\* mark_inflight: a lease that no longer matches its slot changes nothing.
Matches(r, lease) ==
    /\ lease.chunk_id \in DOMAIN r.chunk_index
    /\ r.slots[r.chunk_index[lease.chunk_id]] = [lease EXCEPT !.state = "Writing"]

\* Mutant: the lease is only compared by chunk.
mark_inflight_by_chunk(r, lease) ==
    IF lease.chunk_id \notin DOMAIN r.chunk_index THEN r
    ELSE [r EXCEPT !.slots[r.chunk_index[lease.chunk_id]].state = "InFlight",
                   !.ack_map = With(@, lease.peer_msg_id, lease.chunk_id),
                   !.inflight = @ + 1]

mark_inflight(r, lease) ==
    IF ~Matches(r, lease) THEN r
    ELSE [r EXCEPT !.slots[r.chunk_index[lease.chunk_id]].state = "InFlight",
                   !.ack_map = With(@, lease.peer_msg_id, lease.chunk_id),
                   !.inflight = @ + 1]

\* Mutant: the ACK map keeps the attempts of the lost callis.
replay_keeps_ack_map(r, callis_id) ==
    LET lost(state) == {i \in InState(r, state) : r.slots[i].callis_id = callis_id}
    IN  [r EXCEPT !.slots = [i \in Slots |->
                        IF i \in lost("Writing") \cup lost("InFlight")
                        THEN Unstamped(@[i], "ReplayReady") ELSE @[i]],
                  !.inflight = @ - Cardinality(lost("InFlight"))]

\* OutboundChunks::mark_callis_replay_ready: every attempt of a lost callis is undone.
mark_callis_replay_ready(r, callis_id) ==
    LET lost(state) == {i \in InState(r, state) : r.slots[i].callis_id = callis_id}
        gone == {r.slots[i].peer_msg_id : i \in lost("InFlight")}
    IN  [r EXCEPT !.slots = [i \in Slots |->
                        IF i \in lost("Writing") \cup lost("InFlight")
                        THEN Unstamped(@[i], "ReplayReady") ELSE @[i]],
                  !.ack_map = [m \in DOMAIN @ \ gone |-> @[m]],
                  !.inflight = @ - Cardinality(lost("InFlight"))]

\* OutboundChunks::note_completion; ACK and ERROR empty the slot alike.
complete_chunk(r, peer_msg_id) ==
    IF peer_msg_id \notin DOMAIN r.ack_map THEN r
    ELSE LET acked == [r EXCEPT !.ack_map = Without(@, peer_msg_id)]
             chunk_id == r.ack_map[peer_msg_id]
         IN  IF chunk_id \notin DOMAIN r.chunk_index THEN acked
             ELSE LET i == r.chunk_index[chunk_id]
                  IN  [acked EXCEPT
                         !.chunk_index = Without(@, chunk_id),
                         !.inflight = IF r.slots[i].state = "InFlight" THEN @ - 1 ELSE @,
                         !.slots[i] = EmptySlot]

----------------------------------------------------------------------------
(* Lifecycle. *)

\* One round of OutboundRingBuffer::seal: it waits in Sealing for capacity.
seal(r) ==
    IF r.lifecycle \in {"AwaitingComplete", "Completed"} THEN r
    ELSE IF CanFinalize(r) THEN [finalize(r) EXCEPT !.lifecycle = "AwaitingComplete"]
         ELSE [r EXCEPT !.lifecycle = "Sealing"]

fail(r, err) ==
    IF r.lifecycle = "Failed" THEN r ELSE [r EXCEPT !.lifecycle = "Failed", !.error = err]

mark_complete(r) == IF r.lifecycle = "Failed" THEN r ELSE [r EXCEPT !.lifecycle = "Completed"]

close(r) == IF r.lifecycle = "Failed" THEN r ELSE [r EXCEPT !.lifecycle = "Closed"]

note_ack(r, peer_msg_id) == complete_chunk(r, peer_msg_id)

\* note_error replaces whatever failure the ring already holds.
note_error(r, peer_msg_id, err) ==
    [complete_chunk(r, peer_msg_id) EXCEPT !.lifecycle = "Failed", !.error = err]
=============================================================================
