---------------------------- MODULE BlobAdmission ----------------------------
(***************************************************************************)
(* How a peer admits the blob streams another peer opens                   *)
(* (transport/blob/receive.rs, callis.rs, blob/mod.rs, blob/io.rs).  A     *)
(* blob request arrives on a primary callis; its reader reserves buffer    *)
(* space, hands a receiver to the application, waits for the decision and  *)
(* for a blob callis, and installs the stream.  Readers of several callis, *)
(* the application and its receivers, the idle reaper and the peer state   *)
(* task touch the same tables, each under its own mutex and never two at a *)
(* time: a step is what happens between two of those critical sections.    *)
(* So the removal of an entry and the release of its reservation are two   *)
(* steps, whoever takes them: a reader, a receiver that is read or         *)
(* dropped, the reaper or the handler of an ERROR.                         *)
(***************************************************************************)
EXTENDS BlobShared

CONSTANTS
  Ids,            \* peer_msg_id values of blob requests, which name the streams
  Callis          \* primary callis open at the same time, each with one reader task

VARIABLES
  reservations,     \* ids with an entry in BlobReservationState.inbound
  dedupe,           \* ids with a delivery in progress
  delivered,        \* ids the dedupe history answers with an ACK
  adm,              \* how far each reader has brought each id, and its receiver
  receivers,        \* every BlobReceiver created, in creation order
  pending_requests, \* BlobInboundState.pending_requests: the receiver, 0 for none
  recv_streams,     \* BlobInboundState.recv_streams: the receiver, 0 for none
  removed,          \* receivers whose entry a task has taken out of a table, and whose
                    \* reservation it has yet to release
  overwritten,      \* reservations replaced by a later one of the same id (history)
  strayed,          \* ids whose reservation was left on record by a request that failed,
                    \* or by a read that was dropped before it released (history)
  forgotten         \* ids the dedupe state lost while a request for them was under
                    \* way (history)

tables == <<pending_requests, recv_streams>>
books == <<used, reservations, overwritten, strayed>>
known == <<dedupe, delivered, forgotten>>
admission == <<books, known, adm, receivers, tables, removed>>

\* Steps of an admission; at "accept" and "callis" it is a waiter of the reader.
Waits == {"accept", "callis"}
Handling == {"insert", "enqueue", "signal", "exists", "take", "install",
             "undo release", "cancel callis", "cancel release"}
Idle == [at |-> "idle", d |-> 0]
Receivers == [id : Ids, decision : {"none", "Accepted", "Rejected"}, completed : BOOLEAN,
              holder : {"app", "idling", "ending",
                        "dropped", "releasing", "removing", "removed", "gone"}]

\* Every variable has its type.
AdmissionTypeOK ==
  /\ reservations \subseteq Ids /\ dedupe \subseteq Ids /\ delivered \subseteq Ids
  /\ strayed \subseteq Ids /\ forgotten \subseteq Ids /\ removed \subseteq DOMAIN receivers
  /\ adm \in [Callis -> [Ids -> [at : {"idle"} \cup Waits \cup Handling, d : 0..Len(receivers)]]]
  /\ receivers \in Seq(Receivers)
  /\ pending_requests \in [Ids -> 0..Len(receivers)]
  /\ recv_streams \in [Ids -> 0..Len(receivers)]
  /\ overwritten \in Nat

AdmissionInit ==
  /\ reservations = {} /\ overwritten = 0
  /\ dedupe = {} /\ delivered = {}
  /\ adm = [c \in Callis |-> [id \in Ids |-> Idle]]
  /\ receivers = <<>>
  /\ pending_requests = [id \in Ids |-> 0]
  /\ recv_streams = [id \in Ids |-> 0]
  /\ removed = {} /\ strayed = {} /\ forgotten = {}

-----------------------------------------------------------------------------
(* Reservations *)

release_unchecked(ids) ==
  /\ release_side("in", Cardinality(ids))
  /\ reservations' = reservations \ ids
  /\ strayed' = strayed \ ids
  /\ UNCHANGED overwritten

\* release_inbound: the tracker gets back what the map still held for ids.
release_inbound(ids) ==
  /\ release_side("in", Cardinality(ids \cap reservations))
  /\ reservations' = reservations \ ids
  /\ strayed' = strayed \ ids
  /\ UNCHANGED overwritten

\* The record of id, if there is one, stays behind and nobody answers for it.
LeavesBehind(id) ==
  /\ strayed' = strayed \cup ({id} \cap reservations)
  /\ UNCHANGED <<used, reservations, overwritten>>

\* BlobReceiverState::fail for the receivers ds.
Failed(ds) ==
  [d \in DOMAIN receivers |->
     IF d \in ds THEN [receivers[d] EXCEPT !.completed = TRUE] ELSE receivers[d]]

-----------------------------------------------------------------------------
(* Reader: a blob request arrives *)

Busy(c) == \E id \in Ids : adm[c][id].at \in Handling
Ready(c) == ~Busy(c)
Goes(c, id, at, d) == adm' = [adm EXCEPT ![c][id] = [at |-> at, d |-> d]] /\ UNCHANGED known
At(c, id, at) == adm[c][id].at = at
\* The admission ends; the request is answered with an ACK or an ERROR.
Ends(c, id, ok) ==
  /\ adm' = [adm EXCEPT ![c][id] = Idle]
  /\ dedupe' = dedupe \ {id}
  /\ delivered' = IF ok THEN delivered \cup {id} ELSE delivered
  /\ UNCHANGED forgotten

\* A request for id is being admitted, has its stream installed or its
\* reservation on record.
Underway(id) ==
  id \in reservations \/ recv_streams[id] # 0 \/ \E c \in Callis : adm[c][id] # Idle

\* dedupe_begin finds the id new, and the tracker takes the reservation.  A
\* request that is refused here, for a full buffer or an unknown taberna, leaves
\* no trace.
request_arrives(c, id) ==
  /\ Len(receivers) < workload.receivers
  /\ Cardinality({r \in Callis : adm[r][id] # Idle}) < workload.readers
  /\ Ready(c) /\ adm[c][id] = Idle
  /\ id \notin dedupe \cup delivered
  /\ try_reserve_side("in")
  /\ dedupe' = dedupe \cup {id}
  /\ forgotten' = IF Underway(id) THEN forgotten ELSE forgotten \ {id}
  /\ adm' = [adm EXCEPT ![c][id] = [at |-> "insert", d |-> 0]]
  /\ UNCHANGED <<reservations, overwritten, strayed, delivered, receivers, tables, removed>>

\* reserve_inbound records it, under the lock it awaited.
insert_reservation(c, id) ==
  /\ At(c, id, "insert")
  /\ reservations' = reservations \cup {id}
  /\ overwritten' = IF id \in reservations THEN overwritten + 1 ELSE overwritten
  /\ strayed' = strayed \ {id}
  /\ Goes(c, id, "enqueue", 0)
  /\ UNCHANGED <<used, receivers, tables, removed>>

NewReceiver(id, holder) ==
  /\ Len(receivers) < workload.receivers
  /\ receivers' = Append(receivers, [id |-> id, decision |-> "none", completed |-> FALSE,
                                     holder |-> holder])

\* The taberna takes the request with its receiver.
enqueue(c, id) ==
  /\ At(c, id, "enqueue")
  /\ NewReceiver(id, "app")
  /\ Goes(c, id, "accept", Len(receivers) + 1)
  /\ UNCHANGED <<books, tables, removed>>

enqueue_refused_keeps(c, id) ==
  /\ At(c, id, "enqueue")
  /\ NewReceiver(id, "dropped")
  /\ Ends(c, id, FALSE)
  /\ UNCHANGED <<books, tables, removed>>

\* The inbox refuses; the receiver created for the request is dropped.
enqueue_refused(c, id) ==
  /\ At(c, id, "enqueue")
  /\ NewReceiver(id, "dropped")
  /\ release_inbound({id})
  /\ Ends(c, id, FALSE)
  /\ UNCHANGED <<tables, removed>>

-----------------------------------------------------------------------------
(* Reader: the decision and the blob callis *)

Decided(c, id, decision) ==
  Ready(c) /\ At(c, id, "accept") /\ receivers[adm[c][id].d].decision = decision

\* drain_blob_accept_waiter, Accepted: the request becomes pending.
drain_accepted(c, id) ==
  /\ Decided(c, id, "Accepted")
  /\ pending_requests' = [pending_requests EXCEPT ![id] = adm[c][id].d]
  /\ Goes(c, id, "signal", adm[c][id].d)
  /\ UNCHANGED <<books, receivers, recv_streams, removed>>

\* Rejected, expired, or the request was dropped.
drain_rejected(c, id) ==
  /\ Decided(c, id, "Rejected")
  /\ release_inbound({id})
  /\ Ends(c, id, FALSE)
  /\ UNCHANGED <<receivers, tables, removed>>

\* The error paths that return without dropping the pending request.
Strays(c, id) ==
  /\ receivers' = Failed({adm[c][id].d})
  /\ Ends(c, id, FALSE)
  /\ LeavesBehind(id)

Proceeds(c, id, at) == Goes(c, id, at, adm[c][id].d) /\ UNCHANGED <<receivers, books>>

\* has_callis: go on, or ask for a dial and wait.  The signal fails once the
\* peer state task is gone.
signal_dial(c, id) ==
  /\ At(c, id, "signal")
  /\ IF pool THEN Proceeds(c, id, "exists")
     ELSE IF ended THEN Strays(c, id)
     ELSE Proceeds(c, id, "callis")
  /\ UNCHANGED <<tables, removed>>

\* drain_blob_callis_waiters: has_callis holds.
callis_ready(c, id) ==
  /\ Ready(c) /\ At(c, id, "callis") /\ pool
  /\ Proceeds(c, id, "exists")
  /\ UNCHANGED <<tables, removed>>

\* drop_pending_request: the entry goes, and then its reservation, if there was
\* one; the receiver fails and the admission ends.
Undoes(c, id) ==
  /\ pending_requests' = [pending_requests EXCEPT ![id] = 0]
  /\ IF pending_requests[id] = 0
     THEN Ends(c, id, FALSE) /\ receivers' = Failed({adm[c][id].d}) /\ UNCHANGED books
     ELSE Proceeds(c, id, "undo release")
  /\ UNCHANGED <<recv_streams, removed>>

\* drain_blob_accept_waiter: the session has lost its primary callis.
session_inactive(c, id) == At(c, id, "signal") /\ Undoes(c, id)

\* drain_blob_callis_waiters: send_timeout has passed.
callis_deadline(c, id) == Ready(c) /\ At(c, id, "callis") /\ Undoes(c, id)

undo_releases(c, id) ==
  /\ At(c, id, "undo release")
  /\ release_inbound({id})
  /\ receivers' = Failed({adm[c][id].d})
  /\ Ends(c, id, FALSE)
  /\ UNCHANGED <<tables, removed>>

\* current_settings: the pool may have emptied since has_callis.
current_settings_fails(c, id) ==
  /\ At(c, id, "exists") /\ ~pool
  /\ Strays(c, id)
  /\ UNCHANGED <<tables, removed>>

\* current_settings was read while the pool held a callis.
\* activate_pending_request: a stream with this id counts as activated.
recv_stream_exists(c, id) ==
  /\ At(c, id, "exists")
  /\ IF recv_streams[id] # 0 THEN Ends(c, id, TRUE) /\ UNCHANGED <<receivers, books>>
     ELSE Proceeds(c, id, "take")
  /\ UNCHANGED <<tables, removed>>

\* activate_pending_request: the entry is taken, if it is still there.
take_pending_request(c, id) ==
  /\ At(c, id, "take")
  /\ pending_requests' = [pending_requests EXCEPT ![id] = 0]
  /\ IF pending_requests[id] = 0 THEN Strays(c, id)
     ELSE Goes(c, id, "install", pending_requests[id]) /\ UNCHANGED <<receivers, books>>
  /\ UNCHANGED <<recv_streams, removed>>

insert_recv_stream(c, id) ==
  /\ At(c, id, "install")
  /\ recv_streams' = [recv_streams EXCEPT ![id] = adm[c][id].d]
  /\ Ends(c, id, TRUE)
  /\ UNCHANGED <<books, receivers, pending_requests, removed>>

-----------------------------------------------------------------------------
(* Reader: the callis ends *)

\* cancel_waiters takes every admission that waits out of the reader's table.
cancel_waiters(c) ==
  /\ Ready(c)
  /\ adm' = [adm EXCEPT ![c] = [id \in Ids |->
               CASE @[id].at = "accept" -> [@[id] EXCEPT !.at = "cancel release"]
                 [] @[id].at = "callis" -> [@[id] EXCEPT !.at = "cancel callis"]
                 [] OTHER -> @[id]]]
  /\ UNCHANGED <<books, known, receivers, tables, removed>>

\* The entry of a request that is pending goes,
cancel_removes(c, id) ==
  /\ At(c, id, "cancel callis")
  /\ pending_requests' = [pending_requests EXCEPT ![id] = 0]
  /\ IF pending_requests[id] = 0 THEN Ends(c, id, FALSE)
     ELSE Goes(c, id, "cancel release", adm[c][id].d)
  /\ UNCHANGED <<books, receivers, recv_streams, removed>>

\* and the reservation is released before the dedupe entry is given up.
cancel_releases(c, id) ==
  /\ At(c, id, "cancel release")
  /\ release_inbound({id})
  /\ Ends(c, id, FALSE)
  /\ UNCHANGED <<receivers, tables, removed>>

\* A frame the handler refuses breaks the loop: the waiters go without a cancel.
\* A callis opened later may go by the same name.
break_loop(c) ==
  /\ Ready(c)
  /\ adm' = [adm EXCEPT ![c] = [id \in Ids |-> Idle]]
  /\ UNCHANGED <<books, known, receivers, tables, removed>>

-----------------------------------------------------------------------------
(* The application and its receivers *)

Becomes(d, holder) == receivers' = [receivers EXCEPT ![d].holder = holder]
Held(d) == receivers[d].holder = "app"

\* The request is accepted, and its receiver kept.
accept(d) ==
  /\ Held(d) /\ receivers[d].decision = "none"
  /\ receivers' = [receivers EXCEPT ![d].decision = "Accepted"]
  /\ UNCHANGED <<books, known, adm, tables, removed>>

\* The request is rejected, dropped or expires, and its receiver goes with it.
reject(d) ==
  /\ Held(d) /\ receivers[d].decision = "none"
  /\ receivers' = [receivers EXCEPT ![d].decision = "Rejected", ![d].holder = "dropped"]
  /\ UNCHANGED <<books, known, adm, tables, removed>>

\* The application drops the receiver, and with it a read that is still running.
\* A read that has failed the receiver or removed the stream, and not yet released,
\* leaves the record behind unless a stream of the id is still installed.
drop_receiver(d) ==
  /\ receivers[d].holder \in {"app", "idling", "ending"} /\ receivers[d].decision = "Accepted"
  /\ Becomes(d, IF receivers[d].completed THEN "gone" ELSE "dropped")
  /\ IF receivers[d].holder # "app" /\ recv_streams[receivers[d].id] = 0
     THEN LeavesBehind(receivers[d].id) ELSE UNCHANGED books
  /\ UNCHANGED <<known, adm, tables, removed>>

\* The task that Drop spawns looks at completed and goes no further,
drop_checks(d) ==
  /\ receivers[d].holder = "dropped" /\ receivers[d].completed
  /\ Becomes(d, "gone")
  /\ UNCHANGED <<books, known, adm, tables, removed>>

\* or it looked before, while completed was not set.  It removes the stream by its
\* id and releases its reservation,
drop_removes_stream(d) ==
  /\ receivers[d].holder = "dropped"
  /\ Becomes(d, "releasing")
  /\ recv_streams' = [recv_streams EXCEPT ![receivers[d].id] = 0]
  /\ UNCHANGED <<books, known, adm, pending_requests, removed>>

drop_releases(d) ==
  /\ receivers[d].holder = "releasing"
  /\ Becomes(d, "removing")
  /\ release_inbound({receivers[d].id})
  /\ UNCHANGED <<known, adm, tables, removed>>

\* drops the pending request of the id,
drop_removes_request(d) ==
  /\ receivers[d].holder = "removing"
  /\ LET id == receivers[d].id IN
     /\ pending_requests' = [pending_requests EXCEPT ![id] = 0]
     /\ receivers' = IF pending_requests[id] = 0
                     THEN [receivers EXCEPT ![d].holder = "gone", ![d].completed = TRUE]
                     ELSE [receivers EXCEPT ![d].holder = "removed"]
  /\ UNCHANGED <<books, known, adm, recv_streams, removed>>

\* with its reservation if there was one, and fails the receiver.
drop_ends(d) ==
  /\ receivers[d].holder = "removed"
  /\ release_inbound({receivers[d].id})
  /\ receivers' = [receivers EXCEPT ![d].holder = "gone", ![d].completed = TRUE]
  /\ UNCHANGED <<known, adm, tables, removed>>

Admitting(d) == \E c \in Callis, id \in Ids : adm[c][id].d = d

\* fail_receiver_idle: a read waited idle_timeout.  That is twice the deadline of
\* a callis waiter, so no admission of this receiver is under way.
read_times_out(d) ==
  /\ Held(d) /\ receivers[d].decision = "Accepted" /\ ~receivers[d].completed
  /\ ~Admitting(d)
  /\ receivers' = [receivers EXCEPT ![d].holder = "idling", ![d].completed = TRUE]
  /\ UNCHANGED <<books, known, adm, tables, removed>>

\* remove_recv_stream by a read, for the stream of its id,
Removes(d) ==
  /\ Becomes(d, "ending")
  /\ recv_streams' = [recv_streams EXCEPT ![receivers[d].id] = 0]
  /\ UNCHANGED <<books, known, adm, pending_requests, removed>>

read_removes_stream(d) == receivers[d].holder = "idling" /\ Removes(d)

\* try_receiver_read finds its receiver completed and the ring empty: Eof.
read_eof(d) ==
  /\ Held(d) /\ receivers[d].completed
  /\ LET r == recv_streams[receivers[d].id] IN r # 0 /\ receivers[r].completed
  /\ Removes(d)

\* and of its reservation, whether or not there was a stream.
read_releases(d) ==
  /\ receivers[d].holder = "ending"
  /\ Becomes(d, "app")
  /\ release_inbound({receivers[d].id})
  /\ UNCHANGED <<known, adm, tables, removed>>

-----------------------------------------------------------------------------
(* Other tasks that end a stream *)

\* handle_blob_transfer_chunk: the last chunk completes the receiver.
last_chunk(id) ==
  /\ recv_streams[id] # 0
  /\ ~receivers[recv_streams[id]].completed
  /\ receivers' = Failed({recv_streams[id]})
  /\ UNCHANGED <<books, known, adm, tables, removed>>

\* The idle reaper, or a chunk that finds the stream past its deadline.
expire_recv_stream(id) ==
  /\ recv_streams[id] # 0
  /\ recv_streams' = [recv_streams EXCEPT ![id] = 0]
  /\ removed' = removed \cup {recv_streams[id]}
  /\ UNCHANGED <<books, known, adm, receivers, pending_requests>>

\* fail_inbound_stream: a bad chunk, or an ERROR of the remote, names the stream.
fail_inbound_stream(id) ==
  /\ pending_requests[id] # 0 \/ recv_streams[id] # 0
  /\ IF pending_requests[id] # 0
     THEN /\ pending_requests' = [pending_requests EXCEPT ![id] = 0]
          /\ removed' = removed \cup {pending_requests[id]}
          /\ receivers' = Failed({pending_requests[id]})
          /\ UNCHANGED recv_streams
     ELSE /\ recv_streams' = [recv_streams EXCEPT ![id] = 0]
          /\ removed' = removed \cup {recv_streams[id]}
          /\ UNCHANGED <<receivers, pending_requests>>
  /\ UNCHANGED <<books, known, adm>>

\* The reservation of an entry such a task removed, and the receiver's failure.
task_releases(d) ==
  /\ d \in removed
  /\ removed' = removed \ {d}
  /\ release_inbound({receivers[d].id})
  /\ receivers' = Failed({d})
  /\ UNCHANGED <<known, adm, tables>>

-----------------------------------------------------------------------------
(* The dedupe state and the peer state task *)

Forgets(ids) ==
  /\ forgotten' = forgotten \cup {id \in ids \cap (dedupe \cup delivered) : Underway(id)}
  /\ UNCHANGED <<books, adm, receivers, tables, removed>>

\* Later messages push a delivered id out of the dedupe history.
evict(id) ==
  /\ id \in delivered
  /\ delivered' = delivered \ {id}
  /\ Forgets({id})
  /\ UNCHANGED dedupe

\* A fresh-session handshake has cleared the dedupe state.
clear_dedupe ==
  /\ dedupe' = {} /\ delivered' = {}
  /\ Forgets(Ids)

\* fail_all_streams: the requests and the streams go, and the receivers of the
\* streams fail.  A request admitted since the reservations went leaves its own.
fail_inbound ==
  /\ pending_requests' = [id \in Ids |-> 0]
  /\ recv_streams' = [id \in Ids |-> 0]
  /\ receivers' = Failed({recv_streams[id] : id \in Ids} \ {0})
  /\ strayed' = strayed \cup {id \in reservations : pending_requests[id] # 0 \/ recv_streams[id] # 0}
  /\ UNCHANGED <<used, reservations, overwritten, known, adm, removed>>

-----------------------------------------------------------------------------
Handler(c, id) ==
  \/ insert_reservation(c, id) \/ enqueue(c, id) \/ enqueue_refused(c, id)
  \/ session_inactive(c, id) \/ signal_dial(c, id) \/ current_settings_fails(c, id)
  \/ recv_stream_exists(c, id) \/ take_pending_request(c, id) \/ insert_recv_stream(c, id)

Drain(c, id) ==
  \/ drain_accepted(c, id) \/ drain_rejected(c, id)
  \/ callis_ready(c, id) \/ callis_deadline(c, id) \/ undo_releases(c, id)

Reader(c) ==
  \/ \E id \in Ids : request_arrives(c, id) \/ Handler(c, id) \/ Drain(c, id)
                     \/ cancel_removes(c, id) \/ cancel_releases(c, id)
  \/ cancel_waiters(c) \/ break_loop(c)

\* What the runtime finishes once the application let go of a receiver.
Cleanup(d) ==
  \/ drop_checks(d) \/ drop_removes_stream(d) \/ drop_releases(d)
  \/ drop_removes_request(d) \/ drop_ends(d)

Application(d) ==
  \/ accept(d) \/ reject(d) \/ drop_receiver(d) \/ read_times_out(d)
  \/ read_removes_stream(d) \/ read_eof(d) \/ read_releases(d)

AdmissionNext ==
  \/ \E c \in Callis : Reader(c)
  \/ \E d \in DOMAIN receivers : Application(d) \/ Cleanup(d) \/ task_releases(d)
  \/ \E id \in Ids : \/ last_chunk(id) \/ expire_recv_stream(id) \/ fail_inbound_stream(id)
                     \/ evict(id)
=============================================================================
