------------------------------ MODULE RingBooks ------------------------------
(***************************************************************************)
(* What it means for the two rings of a blob stream to be right: how the   *)
(* slots, maps and counters of the outbound ring agree (Books), and how    *)
(* the inbound ring stands to the stream it receives (InboundOk).          *)
(***************************************************************************)
EXTENDS OutboundChunks, InboundChunks

Lifecycles == {"Open", "Sealing", "AwaitingComplete", "Completed", "Failed", "Closed"}

SlotStates == {"Empty", "Ready", "Writing", "InFlight", "ReplayReady"}

SlotOf(Ids) ==
    [state : SlotStates, chunk_id : Nat, len : 0..ChunkSize, is_last : BOOLEAN, seq : Nat,
     peer_msg_id : Nat, callis_id : Ids]

\* A partial function from D to R, as the maps of the ring are.
IsMap(f, D, R) == f = [x \in DOMAIN f |-> f[x]] /\ DOMAIN f \subseteq D /\ \A x \in DOMAIN f : f[x] \in R

RingType(r, Ids) ==
    /\ r = [lifecycle |-> r.lifecycle, error |-> r.error, next_chunk_id |-> r.next_chunk_id,
            write_cursor |-> r.write_cursor, write_buf |-> r.write_buf,
            pending_full |-> r.pending_full, created_any |-> r.created_any,
            slots |-> r.slots, chunk_index |-> r.chunk_index, ack_map |-> r.ack_map,
            inflight |-> r.inflight]
    /\ r.lifecycle \in Lifecycles /\ r.next_chunk_id \in Nat /\ r.write_cursor \in Slots
    /\ r.write_buf \in 0..ChunkSize /\ r.pending_full \in BOOLEAN /\ r.created_any \in BOOLEAN
    /\ r.slots \in [Slots -> SlotOf(Ids)]
    /\ IsMap(r.chunk_index, Nat, Slots) /\ IsMap(r.ack_map, Nat, Nat)
    /\ r.inflight \in Nat

Occupied(r) == {i \in Slots : r.slots[i].state # "Empty"}

Attempted(r) == {i \in Slots : r.slots[i].state \in {"Writing", "InFlight"}}

\* chunk_index is the inverse of the occupied slots' chunk ids, all of them
\* handed out; ack_map has exactly the attempts in flight, and no two
\* attempts under way share a peer_msg_id; the counters are right.
Books(r, Ids) ==
    /\ RingType(r, Ids)
    /\ DOMAIN r.chunk_index = {r.slots[i].chunk_id : i \in Occupied(r)}
    /\ \A i \in Occupied(r) : /\ r.slots[i].chunk_id < r.next_chunk_id
                              /\ r.chunk_index[r.slots[i].chunk_id] = i
    /\ DOMAIN r.ack_map = {r.slots[i].peer_msg_id : i \in InState(r, "InFlight")}
    /\ \A i \in InState(r, "InFlight") :
         r.ack_map[r.slots[i].peer_msg_id] = r.slots[i].chunk_id
    /\ \A i, j \in Attempted(r) : r.slots[i].peer_msg_id = r.slots[j].peer_msg_id => i = j
    /\ r.inflight = Cardinality(InState(r, "InFlight"))
    /\ has_window_capacity_for(r, 0)

\* A lease has the fields of a slot.
IsLease(lease) ==
    lease = [state |-> lease.state, chunk_id |-> lease.chunk_id, len |-> lease.len,
             is_last |-> lease.is_last, seq |-> lease.seq, peer_msg_id |-> lease.peer_msg_id,
             callis_id |-> lease.callis_id]

\* r and t differ in the lifecycle and the error only.
Turned(r, t) ==
    /\ t.next_chunk_id = r.next_chunk_id /\ t.write_cursor = r.write_cursor
    /\ t.write_buf = r.write_buf /\ t.pending_full = r.pending_full
    /\ t.created_any = r.created_any /\ t.slots = r.slots
    /\ t.chunk_index = r.chunk_index /\ t.ack_map = r.ack_map /\ t.inflight = r.inflight

----------------------------------------------------------------------------
(* The inbound ring and the stream it receives. *)

\* No chunk will be made any more.
AllMade(r) == r.lifecycle \notin {"Open", "Sealing"}

\* The chunks the ring q has stored or delivered.
Taken(q) == q.received \cup 0..(q.next_deliver - 1)

\* The receiver has every chunk of the sealed stream r.
Whole(r, q) ==
    /\ AllMade(r) /\ r.next_chunk_id # 0
    /\ q.last_chunk_id = r.next_chunk_id - 1 /\ q.next_expected = r.next_chunk_id

\* The inbound ring q of the stream r: what is stored lies between what was
\* delivered and what was sent, without a gap up to next_expected.
InboundOk(q, r) ==
    /\ q = [next_expected |-> q.next_expected, next_deliver |-> q.next_deliver,
            last_chunk_id |-> q.last_chunk_id, received |-> q.received]
    /\ q.next_expected \in Nat /\ q.next_deliver \in Nat
    /\ q.next_deliver <= q.next_expected /\ q.next_expected <= r.next_chunk_id
    /\ q.received \subseteq q.next_deliver..(r.next_chunk_id - 1)
    /\ q.next_deliver..(q.next_expected - 1) \subseteq q.received
    /\ Cardinality(q.received) <= RecvWindow
    /\ q.last_chunk_id = NoChunk \/ (AllMade(r) /\ q.last_chunk_id = r.next_chunk_id - 1)

\* The chunk c of the stream r, flagged z, may arrive at the ring q.
CanInsert(q, r, c, z) ==
    /\ InboundOk(q, r) /\ r.next_chunk_id \in Nat
    /\ c \in Nat /\ c < r.next_chunk_id /\ z \in BOOLEAN
    /\ z => AllMade(r) /\ c = r.next_chunk_id - 1

Stored == {"Duplicate", "Stored", "Complete"}

Refusals == {"BlobAckWindowExceeded", "BlobBufferFull", "BlobStreamMissingChunk"}

\* What becomes of it.
Inserted(q, r, c, t, outcome) ==
    /\ InboundOk(t, r) /\ Taken(q) \subseteq Taken(t)
    /\ outcome \in Stored \cup Refusals
    /\ outcome \in Stored => c \in Taken(t)
    /\ outcome = "Complete" => Whole(r, t)
    /\ Whole(r, q) => Whole(r, t)
    /\ is_complete(q) => is_complete(t)

\* What a delivery makes of the ring q.
Took(q, r, t) ==
    /\ InboundOk(t, r) /\ Taken(q) \subseteq Taken(t)
    /\ Whole(r, q) => Whole(r, t)
    /\ is_complete(q) => is_complete(t)
=============================================================================
