----------------------------- MODULE BlobTransfer -----------------------------
(***************************************************************************)
(* One blob stream from the BlobSender of one domus to the BlobReceiver of *)
(* another, over several blob callis: the outbound ring, the sender's      *)
(* BlobManager and transmitters, the callis as FIFO channels that can be   *)
(* lost with what they carry, the receiver's chunk handler, response lanes *)
(* and inbound ring, the reading application and the idle reaper.          *)
(*                                                                         *)
(* The stream has been accepted and activated on both sides.  A method of  *)
(* BlobManager takes its locks one at a time; it is split into several     *)
(* actions where another task can act in between and see the difference.   *)
(***************************************************************************)
EXTENDS OutboundChunks, InboundChunks, Sequences

CONSTANTS
    Callis,        \* blob callis ids of a behaviour
    MaxBytes,      \* most bytes the application writes
    MaxMsgId,      \* most write attempts of the sender
    FinishIds,     \* ids the receiver's allocator may give blob-transfer-complete
    AckCapacity,   \* capacity of the ACK lane (16 * send_queue_size)
    Workloads      \* what may happen in a behaviour: bytes, attempts, callis open
                   \* together or one after the other, callis losses and faults

StreamId == 0      \* the request's peer_msg_id

\* The sender times out or is dropped, the receiver's idle deadlines pass, the
\* application drops the BlobReceiver.
Faults == {"give up", "idle", "drop"}

ASSUME TransferAssumption ==
    /\ RecvWindow = WindowSize
    /\ MaxBytes \in Nat /\ MaxMsgId \in Nat /\ FinishIds \subseteq Nat \ {StreamId}
    /\ AckCapacity \in Nat \ {0}
    /\ IsFiniteSet(Callis)
    /\ Workloads \subseteq [bytes : 0..MaxBytes, ids : 0..MaxMsgId, together : BOOLEAN,
                            losses : Nat, faults : SUBSET Faults]

VARIABLES
    workload,     \* the one of this behaviour
    ring,         \* sender: the stream's outbound ring
    registered,   \* sender: the stream is in outbound.streams
    inflight,     \* sender: outbound.inflight, peer_msg_id -> callis
    tx,           \* sender: what each transmitter is doing
    sender,       \* sender: the BlobSenderStream
    next_id,      \* sender: PeerMessageIdAllocator
    net,          \* per callis: up or not, who still has tasks, whether it was
                  \* opened with no other open (history), both channels
    active,       \* receiver: the stream is in recv_streams
    inbound,      \* receiver: its inbound ring
    recent,       \* receiver: the stream is in completed_recv_streams
    receiver,     \* receiver: BlobReceiverState
    rx,           \* receiver: the chunk handler of each callis reader
    write_slots,  \* receiver: response slots, peer_msg_id -> frame
    lanes,        \* receiver: ready ids of the three response lanes
    reaper,       \* receiver: the idle reaper
    reader        \* receiver: the application's read

svars == <<ring, registered, inflight, tx, sender, next_id>>
rvars == <<active, inbound, recent, receiver, rx, write_slots, lanes, reaper, reader>>
vars == <<svars, net, rvars>>

Lanes == {"Ack", "Error", "Complete"}

Init ==
    /\ workload \in Workloads
    /\ ring = NewRing /\ registered = TRUE /\ inflight = <<>>
    /\ tx = [k \in Callis |-> [phase |-> "idle"]]
    /\ sender = "open" /\ next_id = 1
    /\ net = [k \in Callis |-> [state |-> "unused", s |-> FALSE, r |-> FALSE,
                                alone |-> TRUE, out |-> <<>>, back |-> <<>>]]
    /\ active = TRUE /\ inbound = NewInbound /\ recent = FALSE
    /\ receiver = [completed |-> FALSE, error |-> "none", notified |-> FALSE]
    /\ rx = [k \in Callis |-> [phase |-> "idle"]]
    /\ write_slots = <<>> /\ lanes = [l \in Lanes |-> <<>>]
    /\ reaper = "idle"
    /\ reader = [pc |-> "check", armed |-> FALSE, read |-> <<>>]

----------------------------------------------------------------------------
(* Callis.  Both ends add a callis when its handshake is done; when it is   *)
(* lost each end notices for itself, and may still read what has arrived.  *)

add_callis(k) ==
    /\ net[k].state = "unused"
    /\ workload.together \/ \A j \in Callis : ~net[j].s /\ ~net[j].r
    /\ net' = [net EXCEPT ![k].state = "up", ![k].s = TRUE, ![k].r = TRUE,
                          ![k].alone = \A j \in Callis : ~net[j].s /\ ~net[j].r]
    /\ UNCHANGED <<svars, rvars>>

lose_callis(k) ==
    /\ net[k].state = "up"
    /\ Cardinality({j \in Callis : net[j].state = "down"}) < workload.losses
    /\ net' = [net EXCEPT ![k].state = "down"]
    /\ UNCHANGED <<svars, rvars>>

\* A frame written to a lost callis is gone, whatever the write returned.
Sent(k, chan, frame) ==
    IF chan = "out"
    THEN [net EXCEPT ![k].out = IF net[k].state = "up" THEN Append(@, frame) ELSE @]
    ELSE [net EXCEPT ![k].back = IF net[k].state = "up" THEN Append(@, frame) ELSE @]

----------------------------------------------------------------------------
(* The sending application. *)

\* unregister_outbound_stream: out of the table, its lookups dropped, then
\* the ring closed.
unregister(r) ==
    /\ registered' = FALSE
    /\ inflight' = <<>>
    /\ ring' = close(r)

poll_write(n) ==
    /\ sender = "open" /\ ring.lifecycle = "Open"
    /\ n <= workload.bytes - (ring.next_chunk_id * ChunkSize + ring.write_buf
                              + IF ring.pending_full THEN ChunkSize ELSE 0)
    /\ can_accept_bytes(ring)
    /\ ring' = push_available(ring, n).ring
    /\ UNCHANGED <<registered, inflight, tx, sender, next_id, net, rvars>>

\* poll_shutdown, first part: one round of seal.  On a sender that is closed,
\* "ok" or "failed", it returns Ok at once and changes nothing.
poll_shutdown ==
    /\ sender \in {"open", "sealing"}
    /\ ring.lifecycle \notin {"Failed", "Closed"}
    /\ ring.lifecycle = "Sealing" => CanFinalize(ring)
    /\ ring' = seal(ring)
    /\ sender' = IF ring'.lifecycle = "Sealing" THEN "sealing" ELSE "completing"
    /\ UNCHANGED <<registered, inflight, tx, next_id, net, rvars>>

GivesUp == "give up" \in workload.faults \/ ring.lifecycle \in {"Failed", "Closed"}

\* The seal fails: poll_shutdown returns the error and leaves the sender open.
seal_fails ==
    /\ sender = "sealing" /\ GivesUp
    /\ sender' = "open"
    /\ UNCHANGED <<ring, registered, inflight, tx, next_id, net, rvars>>

\* poll_shutdown, second part: wait_for_complete succeeds,
shutdown_ok ==
    /\ sender = "completing"
    /\ ring.lifecycle = "Completed" /\ is_drained(ring)
    /\ sender' = "ok"
    /\ unregister(ring)
    /\ UNCHANGED <<tx, next_id, net, rvars>>

\* or meets a failure, or send_timeout.
shutdown_fails ==
    /\ sender = "completing" /\ GivesUp
    /\ sender' = "failed"
    /\ unregister(ring)
    /\ UNCHANGED <<tx, next_id, net, rvars>>

\* The application drops a sender that is not closed.
drop_sender ==
    /\ sender \in {"open", "sealing", "completing"} /\ GivesUp
    /\ sender' = "dropped"
    /\ unregister(ring)
    /\ UNCHANGED <<tx, next_id, net, rvars>>

----------------------------------------------------------------------------
(* The sender's transmitters. *)

\* next_chunk_frame: lease a chunk from the snapshot of streams.
lease_chunk(k) ==
    /\ net[k].s /\ tx[k].phase = "idle"
    /\ registered
    /\ has_dispatchable_replay(ring) \/ has_dispatchable_fresh(ring)
    /\ next_id <= workload.ids
    /\ ring' = lease_next_chunk_for_write(ring, k, next_id)
    /\ tx' = [tx EXCEPT ![k] = [phase |-> "leased", lease |-> LeaseOf(ring', NextSlot(ring))]]
    /\ next_id' = next_id + 1
    /\ UNCHANGED <<registered, inflight, sender, net, rvars>>

\* The stream may have been unregistered since the lease.
mark_dispatch_inflight(k) ==
    /\ tx[k].phase = "leased"
    /\ inflight' = With(inflight, tx[k].lease.peer_msg_id, k)
    /\ ring' = IF registered THEN mark_inflight(ring, tx[k].lease) ELSE ring
    /\ tx' = [tx EXCEPT ![k].phase = "marked"]
    /\ UNCHANGED <<registered, sender, next_id, net, rvars>>

write_chunk(k) ==
    /\ tx[k].phase = "marked"
    /\ LET l == tx[k].lease
       IN  net' = Sent(k, "out", [id |-> l.peer_msg_id, chunk_id |-> l.chunk_id,
                                  is_last |-> l.is_last])
    /\ tx' = [tx EXCEPT ![k] = [phase |-> "idle"]]
    /\ UNCHANGED <<ring, registered, inflight, sender, next_id, rvars>>

\* finish_blob_write_attempt of a failed write; the transmitter ends.
rollback_dispatch_inflight(k) ==
    /\ tx[k].phase = "marked" /\ net[k].state = "down"
    /\ inflight' = Without(inflight, tx[k].lease.peer_msg_id)
    /\ ring' = IF registered THEN mark_callis_replay_ready(ring, k) ELSE ring
    /\ tx' = [tx EXCEPT ![k] = [phase |-> "ended"]]
    /\ UNCHANGED <<registered, sender, next_id, net, rvars>>

\* Mutant: only the lookup is cleaned, the rings are not asked.
requeue_forgets_rings(k) ==
    /\ net[k].s /\ net[k].state = "down" /\ tx[k].phase \in {"idle", "ended"}
    /\ inflight' = [m \in {n \in DOMAIN inflight : inflight[n] # k} |-> inflight[m]]
    /\ net' = [net EXCEPT ![k].s = FALSE, ![k].back = <<>>]
    /\ tx' = [tx EXCEPT ![k] = [phase |-> "ended"]]
    /\ UNCHANGED <<ring, registered, sender, next_id, rvars>>

\* ConnectionClosed, sent when both tasks of the callis have been joined:
\* requeue_inflight_for_callis, remove_callis.  Without an entry in the lookup
\* the rings are not asked.
requeue_inflight_for_callis(k) ==
    /\ net[k].s /\ net[k].state = "down" /\ tx[k].phase \in {"idle", "ended"}
    /\ LET mine == {m \in DOMAIN inflight : inflight[m] = k}
       IN  /\ inflight' = [m \in DOMAIN inflight \ mine |-> inflight[m]]
           /\ ring' = IF mine # {} /\ registered THEN mark_callis_replay_ready(ring, k)
                                                 ELSE ring
    /\ net' = [net EXCEPT ![k].s = FALSE, ![k].back = <<>>]
    /\ tx' = [tx EXCEPT ![k] = [phase |-> "ended"]]
    /\ UNCHANGED <<registered, sender, next_id, rvars>>

----------------------------------------------------------------------------
(* Frames that reach the sender. *)

Answer(k, kind) ==
    /\ net[k].s /\ net[k].back # <<>>
    /\ Head(net[k].back).kind = kind

handle_ack(k) ==
    /\ Answer(k, "Ack")
    /\ LET m == Head(net[k].back).id
       IN  /\ ring' = IF m \in DOMAIN inflight /\ registered THEN note_ack(ring, m) ELSE ring
           /\ inflight' = Without(inflight, m)
    /\ net' = [net EXCEPT ![k].back = Tail(@)]
    /\ UNCHANGED <<registered, tx, sender, next_id, rvars>>

\* An ERROR answers a chunk in flight, or names the stream.
handle_error(k) ==
    /\ Answer(k, "Error")
    /\ LET m == Head(net[k].back).id
           err == Head(net[k].back).err
       IN  IF m \in DOMAIN inflight
           THEN /\ inflight' = Without(inflight, m)
                /\ ring' = IF registered THEN note_error(ring, m, err) ELSE ring
                /\ UNCHANGED registered
           ELSE IF m = StreamId /\ registered THEN unregister(fail(ring, err))
           ELSE UNCHANGED <<ring, registered, inflight>>
    /\ net' = [net EXCEPT ![k].back = Tail(@)]
    /\ UNCHANGED <<tx, sender, next_id, rvars>>

\* For a stream that is gone the frame is a protocol violation, which ends
\* the callis.  The ACK of this frame finds no slot at the receiver.
handle_complete(k) ==
    /\ Answer(k, "Complete")
    /\ ring' = IF registered THEN mark_complete(ring) ELSE ring
    /\ net' = IF registered THEN [net EXCEPT ![k].back = Tail(@)]
              ELSE [net EXCEPT ![k].back = <<>>, ![k].state = "down"]
    /\ UNCHANGED <<registered, inflight, tx, sender, next_id, rvars>>

----------------------------------------------------------------------------
(* Response lanes of the receiver. *)

Capacity(lane) == IF lane = "Ack" THEN AckCapacity ELSE Cardinality(Callis) + MaxMsgId

\* A response whose id has a slot already, or whose lane is full, is dropped.
Enqueued(slots, ready, frame) ==
    IF frame.id \in DOMAIN slots \/ Len(ready[frame.kind]) >= Capacity(frame.kind)
    THEN [slots |-> slots, lanes |-> ready]
    ELSE [slots |-> With(slots, frame.id, frame),
          lanes |-> [ready EXCEPT ![frame.kind] = Append(@, frame.id)]]

enqueue_blob_write(frame) ==
    LET e == Enqueued(write_slots, lanes, frame)
    IN  write_slots' = e.slots /\ lanes' = e.lanes

\* next_blob_write_slot: the lanes in order; an id that lost its slot is
\* popped and skipped.
LaneOrder == <<"Ack", "Error", "Complete">>

Live(l) == {i \in DOMAIN lanes[l] : lanes[l][i] \in DOMAIN write_slots}

HasResponse == \E l \in Lanes : Live(l) # {}

FirstLane == LET n == CHOOSE n \in 1..3 : /\ Live(LaneOrder[n]) # {}
                                          /\ \A m \in 1..(n - 1) : Live(LaneOrder[m]) = {}
             IN  LaneOrder[n]

FirstLive == CHOOSE i \in Live(FirstLane) : \A j \in Live(FirstLane) : i <= j

NextResponse == lanes[FirstLane][FirstLive]

Popped ==
    [l \in Lanes |-> IF l = FirstLane THEN SubSeq(lanes[l], FirstLive + 1, Len(lanes[l]))
                     ELSE IF Live(l) = {} /\ (FirstLane = "Complete" \/ l = "Ack") THEN <<>>
                     ELSE lanes[l]]

\* A transmitter takes the next response and writes it; the slot goes.
write_response(k) ==
    /\ net[k].r /\ HasResponse
    /\ net' = Sent(k, "back", write_slots[NextResponse])
    /\ write_slots' = Without(write_slots, NextResponse)
    /\ lanes' = Popped
    /\ UNCHANGED <<svars, active, inbound, recent, receiver, rx, reaper, reader>>

\* The write fails: the slot is replay-ready, its id at the back of its lane,
\* and the callis ends.
rollback_response(k) ==
    /\ net[k].r /\ net[k].state = "down" /\ rx[k].phase = "idle" /\ HasResponse
    /\ lanes' = [Popped EXCEPT ![FirstLane] = Append(@, NextResponse)]
    /\ net' = [net EXCEPT ![k].r = FALSE, ![k].out = <<>>]
    /\ UNCHANGED <<svars, active, inbound, recent, receiver, rx, write_slots, reaper, reader>>

receiver_callis_closed(k) ==
    /\ net[k].r /\ net[k].state = "down" /\ rx[k].phase = "idle"
    /\ net' = [net EXCEPT ![k].r = FALSE, ![k].out = <<>>]
    /\ UNCHANGED <<svars, rvars>>

\* The receiver's own messages are answered too: BlobManager::handle_ack
\* removes the slot of that id, whatever response it holds.
own_ack(m) ==
    /\ write_slots' = Without(write_slots, m)
    /\ UNCHANGED <<svars, net, active, inbound, recent, receiver, rx, lanes, reaper, reader>>

----------------------------------------------------------------------------
(* The receiver's chunk handler, one per callis reader. *)

\* recv_chunk_state.  A stream that is gone and not remembered as complete
\* is an error; a passed idle deadline removes the stream here as well.
recv_chunk_state(k) ==
    /\ net[k].r /\ net[k].out # <<>> /\ rx[k].phase = "idle"
    /\ \/ /\ active
          /\ rx' = [rx EXCEPT ![k] = [phase |-> "found", frame |-> Head(net[k].out)]]
          /\ UNCHANGED active
       \/ /\ active /\ "idle" \in workload.faults
          /\ rx' = [rx EXCEPT ![k] = [phase |-> "removed", frame |-> Head(net[k].out),
                                      err |-> "BlobStreamIdleTimeout"]]
          /\ active' = FALSE
       \/ /\ ~active
          /\ rx' = [rx EXCEPT ![k] =
                      [phase |-> "answer", frame |-> Head(net[k].out),
                       outcome |-> IF recent THEN "RecentlyCompleted" ELSE "BlobStreamNotFound"]]
          /\ UNCHANGED active
    /\ net' = [net EXCEPT ![k].out = Tail(@)]
    /\ UNCHANGED <<svars, inbound, recent, receiver, write_slots, lanes, reaper, reader>>

\* insert_chunk on the ring the lookup returned, still in the table or not.
insert(k) ==
    /\ rx[k].phase = "found"
    /\ LET i == insert_chunk(inbound, rx[k].frame.chunk_id, rx[k].frame.is_last)
       IN  /\ inbound' = i.ring
           /\ rx' = [rx EXCEPT ![k] =
                IF i.outcome \in {"Duplicate", "Stored", "Complete"}
                THEN [phase |-> "answer", frame |-> rx[k].frame, outcome |-> i.outcome]
                ELSE [phase |-> "refused", frame |-> rx[k].frame, err |-> i.outcome]]
    /\ UNCHANGED <<svars, net, active, recent, receiver, write_slots, lanes, reaper, reader>>

\* fail_inbound_stream, first part: out of the table.
remove_recv_stream(k) ==
    /\ rx[k].phase = "refused"
    /\ active' = FALSE
    /\ rx' = [rx EXCEPT ![k].phase = "removed"]
    /\ UNCHANGED <<svars, net, inbound, recent, receiver, write_slots, lanes, reaper, reader>>

\* Mutant: the waiting reader is not notified.
failed_silently(err) == [completed |-> TRUE, error |-> err, notified |-> receiver.notified]

Failed(err) == [completed |-> TRUE, error |-> err, notified |-> TRUE]

\* BlobReceiverState::fail, then the ERROR response.
fail_receiver(k) ==
    /\ rx[k].phase = "removed"
    /\ receiver' = Failed(rx[k].err)
    /\ enqueue_blob_write([kind |-> "Error", id |-> rx[k].frame.id, err |-> rx[k].err])
    /\ rx' = [rx EXCEPT ![k] = [phase |-> "idle"]]
    /\ UNCHANGED <<svars, net, active, inbound, recent, reaper, reader>>

\* Mutant: blob-transfer-complete is queued under the id of the chunk.
respond_under_one_id(k) ==
    /\ rx[k].phase = "answer"
    /\ LET id == rx[k].frame.id
           outcome == rx[k].outcome
           e == Enqueued(write_slots, lanes, [kind |-> "Ack", id |-> id])
           c == Enqueued(e.slots, e.lanes, [kind |-> "Complete", id |-> id])
       IN  /\ receiver' = [receiver EXCEPT !.completed = @ \/ outcome = "Complete",
                                           !.notified = @ \/ outcome # "RecentlyCompleted"]
           /\ write_slots' = IF outcome = "Complete" THEN c.slots ELSE e.slots
           /\ lanes' = IF outcome = "Complete" THEN c.lanes ELSE e.lanes
    /\ rx' = [rx EXCEPT ![k] = [phase |-> "idle"]]
    /\ UNCHANGED <<svars, net, active, inbound, recent, reaper, reader>>

\* The rest of handle_blob_transfer_chunk and the response: ACK, and
\* blob-transfer-complete behind it when the last chunk closed the stream.
respond_with_blob(k) ==
    /\ rx[k].phase = "answer"
    /\ LET id == rx[k].frame.id
           outcome == rx[k].outcome
       IN  CASE outcome = "BlobStreamNotFound" ->
                  /\ enqueue_blob_write([kind |-> "Error", id |-> id, err |-> outcome])
                  /\ UNCHANGED receiver
             [] outcome = "Complete" ->
                  /\ receiver' = [receiver EXCEPT !.completed = TRUE, !.notified = TRUE]
                  /\ \E f \in FinishIds :
                       LET e == Enqueued(write_slots, lanes, [kind |-> "Ack", id |-> id])
                           c == Enqueued(e.slots, e.lanes, [kind |-> "Complete", id |-> f])
                       IN  write_slots' = c.slots /\ lanes' = c.lanes
             [] OTHER ->
                  /\ receiver' = [receiver EXCEPT !.notified = @ \/ outcome # "RecentlyCompleted"]
                  /\ enqueue_blob_write([kind |-> "Ack", id |-> id])
    /\ rx' = [rx EXCEPT ![k] = [phase |-> "idle"]]
    /\ UNCHANGED <<svars, net, active, inbound, recent, reaper, reader>>

----------------------------------------------------------------------------
(* The idle reaper, and the memory of completed streams. *)

expire_recv_streams ==
    /\ "idle" \in workload.faults /\ active /\ reaper = "idle"
    /\ active' = FALSE /\ reaper' = "removed"
    /\ UNCHANGED <<svars, net, inbound, recent, receiver, rx, write_slots, lanes, reader>>

reaper_fails_receiver ==
    /\ reaper = "removed"
    /\ receiver' = Failed("BlobStreamIdleTimeout")
    /\ enqueue_blob_write([kind |-> "Error", id |-> StreamId, err |-> "BlobStreamIdleTimeout"])
    /\ reaper' = "idle"
    /\ UNCHANGED <<svars, net, active, inbound, recent, rx, reader>>

forget_completed ==
    /\ "idle" \in workload.faults /\ recent
    /\ recent' = FALSE
    /\ UNCHANGED <<svars, net, active, inbound, receiver, rx, write_slots, lanes, reaper, reader>>

----------------------------------------------------------------------------
(* The reading application: try_receiver_read, twice, then wait.            *)

rest == <<svars, net, rx, write_slots, lanes, reaper>>

Goto(pc) == reader' = [reader EXCEPT !.pc = pc]

\* Nothing to read: arm the waiter and try again, then wait on it.
Nothing ==
    IF reader.armed THEN Goto("wait") /\ UNCHANGED receiver
    ELSE /\ reader' = [reader EXCEPT !.pc = "check", !.armed = TRUE]
         /\ receiver' = [receiver EXCEPT !.notified = FALSE]

check_error ==
    /\ reader.pc = "check"
    /\ Goto(IF receiver.error # "none" THEN "error" ELSE "ring")
    /\ UNCHANGED <<rest, active, inbound, recent, receiver>>

\* The ring is still in the table: the next chunk, the end, or nothing.
read_ring ==
    /\ reader.pc = "ring" /\ active
    /\ IF CanTake(inbound)
       THEN /\ inbound' = take_next(inbound)
            /\ reader' = [pc |-> "check", armed |-> FALSE,
                          read |-> Append(reader.read, inbound.next_deliver)]
            /\ UNCHANGED <<active, recent, receiver>>
       ELSE IF receiver.completed /\ is_complete(inbound)
       THEN /\ active' = FALSE
            /\ Goto("ending")
            /\ UNCHANGED <<inbound, recent, receiver>>
       ELSE Nothing /\ UNCHANGED <<inbound, active, recent>>
    /\ UNCHANGED rest

\* note_recv_complete, and the end.
note_recv_complete ==
    /\ reader.pc = "ending"
    /\ recent' = TRUE
    /\ Goto("eof")
    /\ UNCHANGED <<rest, active, inbound, receiver>>

ring_gone ==
    /\ reader.pc = "ring" /\ ~active
    /\ Goto("gone")
    /\ UNCHANGED <<rest, active, inbound, recent, receiver>>

check_error_again ==
    /\ reader.pc = "gone"
    /\ Goto(IF receiver.error # "none" THEN "error" ELSE "completed")
    /\ UNCHANGED <<rest, active, inbound, recent, receiver>>

check_completed ==
    /\ reader.pc = "completed"
    /\ IF receiver.completed THEN Goto("eof") /\ UNCHANGED receiver ELSE Nothing
    /\ UNCHANGED <<rest, active, inbound, recent>>

woken ==
    /\ reader.pc = "wait" /\ receiver.notified
    /\ reader' = [reader EXCEPT !.pc = "check", !.armed = FALSE]
    /\ UNCHANGED <<rest, active, inbound, recent, receiver>>

\* fail_receiver_idle.
read_times_out ==
    /\ "idle" \in workload.faults /\ reader.pc = "wait"
    /\ receiver' = Failed("BlobStreamIdleTimeout")
    /\ active' = FALSE
    /\ Goto("error")
    /\ UNCHANGED <<rest, inbound, recent>>

\* Drop for BlobReceiverStream: a completed stream is left to the reaper.
\* The last chunk may still complete it behind the check.
drop_receiver ==
    /\ "drop" \in workload.faults /\ reader.pc \notin {"dropping", "dropped"}
    /\ Goto(IF receiver.completed THEN "dropped" ELSE "dropping")
    /\ UNCHANGED <<rest, active, inbound, recent, receiver>>

drop_fails_receiver ==
    /\ reader.pc = "dropping"
    /\ active' = FALSE /\ receiver' = Failed("PeerUnavailable")
    /\ Goto("dropped")
    /\ UNCHANGED <<rest, inbound, recent>>

----------------------------------------------------------------------------
Sending ==
    \/ \E n \in 1..MaxBytes : poll_write(n)
    \/ poll_shutdown \/ seal_fails \/ shutdown_ok \/ shutdown_fails \/ drop_sender
    \/ \E k \in Callis :
         \/ lease_chunk(k) \/ mark_dispatch_inflight(k) \/ write_chunk(k)
         \/ rollback_dispatch_inflight(k) \/ requeue_inflight_for_callis(k)
         \/ handle_ack(k) \/ handle_error(k) \/ handle_complete(k)

Receiving ==
    \/ \E k \in Callis :
         \/ write_response(k) \/ rollback_response(k) \/ receiver_callis_closed(k)
         \/ recv_chunk_state(k) \/ insert(k) \/ remove_recv_stream(k)
         \/ fail_receiver(k) \/ respond_with_blob(k)
    \/ expire_recv_streams \/ reaper_fails_receiver \/ forget_completed

Reading ==
    \/ check_error \/ read_ring \/ note_recv_complete
    \/ ring_gone \/ check_error_again \/ check_completed
    \/ woken \/ read_times_out \/ drop_receiver \/ drop_fails_receiver

Next ==
    \/ \E k \in Callis : add_callis(k) \/ lose_callis(k)
    \/ Sending \/ Receiving \/ Reading

Spec == Init /\ [][Next /\ UNCHANGED workload]_<<vars, workload>>

\* The same with a receiver that sends messages of its own.
SpecBothWays ==
    /\ Init
    /\ [][/\ Next \/ \E m \in DOMAIN write_slots : own_ack(m)
         /\ UNCHANGED workload]_<<vars, workload>>

----------------------------------------------------------------------------
(* Properties. *)

Errors == {"BlobAckWindowExceeded", "BlobBufferFull", "BlobStreamMissingChunk",
           "BlobStreamIdleTimeout", "BlobStreamNotFound", "PeerUnavailable"}

\* Types, and the bounds of the two stores: the ring keeps to its window and
\* the receiver never buffers more chunks than the negotiated window.
TypeOK ==
    /\ ring.lifecycle \in {"Open", "Sealing", "AwaitingComplete", "Completed", "Failed", "Closed"}
    /\ has_window_capacity_for(ring, 0)
    /\ sender \in {"open", "sealing", "completing", "ok", "failed", "dropped"}
    /\ \A m \in DOMAIN inflight : inflight[m] \in Callis
    /\ Cardinality(inbound.received) <= RecvWindow
    /\ receiver.error \in Errors \cup {"none"}
    /\ \A l \in Lanes : Len(lanes[l]) <= Capacity(l)
    /\ reader.pc \in {"check", "ring", "ending", "gone", "completed", "wait", "eof", "error",
                      "dropping", "dropped"}

\* What the receiver has taken responsibility for.
Accepted == inbound.received \cup 0..(inbound.next_deliver - 1)

\* A chunk leaves the sender's ring only when the receiver has accepted it,
\* unless the stream has failed: however ACKs, losses and replays over
\* several callis interleave, no chunk is dropped at both ends, and neither end
\* stores more than its window.
AckedAccepted ==
    /\ TypeOK
    /\ ring.lifecycle # "Failed" =>
        \A c \in 0..(ring.next_chunk_id - 1) :
            c \in Accepted \/ \E i \in Slots : /\ ring.slots[i].state # "Empty"
                                             /\ ring.slots[i].chunk_id = c

\* blob-transfer-complete is believed only for a stream whose every chunk,
\* up to the one flagged last, the receiver has accepted.
CompleteMeansAll ==
    ring.lifecycle = "Completed" =>
        /\ inbound.last_chunk_id = ring.next_chunk_id - 1
        /\ Accepted = 0..(ring.next_chunk_id - 1)

\* Blob callis have followed one another so far.
OneAtATime == \A k \in Callis : net[k].alone

\* As long as blob callis follow one another the stream never fails for a gap or a
\* chunk beyond the window: replays go out before fresh chunks and in id
\* order, so a new callis continues where the lost one stopped.
NoGapOnOneCallis ==
    OneAtATime => receiver.error \notin {"BlobAckWindowExceeded", "BlobStreamMissingChunk"}

HandledBy(k, m) == rx[k].phase # "idle" /\ rx[k].frame.id = m

\* As long as blob callis follow one another, every chunk in flight still has
\* an answer to come: its frame, its handler or its response is somewhere, or
\* its callis is lost and will be requeued.
AttemptAnswerable ==
    registered /\ OneAtATime => \A i \in InState(ring, "InFlight") :
        LET m == ring.slots[i].peer_msg_id
            k == ring.slots[i].callis_id
        IN  \/ tx[k].phase = "marked" /\ tx[k].lease.peer_msg_id = m
            \/ net[k].s /\ net[k].state = "down"
            \/ \E n \in DOMAIN net[k].out : net[k].out[n].id = m
            \/ HandledBy(k, m)
            \/ m \in DOMAIN write_slots
            \/ \E j \in Callis : \E n \in DOMAIN net[j].back : net[j].back[n].id = m

\* The stream has failed, or a task has taken it out of the table to fail it.
Failing ==
    \/ receiver.error # "none"
    \/ reaper = "removed"
    \/ \E k \in Callis : rx[k].phase = "removed"

\* poll_read returns Ok(0) only after LAST_CHUNK has been fully delivered, and a
\* failure surfaces as a read error.
EofOnlyAfterLast == reader.pc = "eof" => is_complete(inbound)

\* What the code keeps of it: a truncated blob ends like a whole one only if the
\* stream fails while the reader looks at its error and its completed flag in turn.
EofOrFailing == reader.pc = "eof" => is_complete(inbound) \/ Failing

\* Unknown ACKs are ignored: a queued response keeps its slot until it is
\* written.
ResponsesKept == \A l \in Lanes : \A i \in DOMAIN lanes[l] : lanes[l][i] \in DOMAIN write_slots

\* The handler of k is about to notify the reader: it has stored a chunk, or fails
\* the stream.
Notifies(k) ==
    \/ rx[k].phase \in {"refused", "removed"}
    \/ rx[k].phase = "answer" /\ rx[k].outcome \in {"Stored", "Duplicate", "Complete"}

\* A reader never sleeps through anything: while it waits with no notification
\* stored, its stream is in the table with no chunk to deliver and no end, or a
\* handler or the reaper has yet to notify it.
SleeperWoken ==
    reader.pc = "wait" /\ ~receiver.notified =>
        \/ active /\ ~receiver.completed /\ ~CanTake(inbound)
        \/ reaper = "removed"
        \/ \E k \in Callis : Notifies(k)

\* As long as no callis is lost, a sender that waits with every chunk acknowledged
\* still has blob-transfer-complete to come: it is queued or on its way, and
\* poll_shutdown does not sit out send_timeout for a stream that was received.
CompleteComing ==
    /\ sender = "completing" /\ registered /\ ring.lifecycle = "AwaitingComplete"
    /\ is_drained(ring)
    /\ \A k \in Callis : net[k].state # "down"
    => \/ \E m \in DOMAIN write_slots : write_slots[m].kind = "Complete"
       \/ \E k \in Callis : \E n \in DOMAIN net[k].back : net[k].back[n].kind = "Complete"
=============================================================================
