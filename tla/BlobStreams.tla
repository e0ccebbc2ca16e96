----------------------------- MODULE BlobStreams -----------------------------
(***************************************************************************)
(* The blob streams of a peer in both directions (BlobAdmission and        *)
(* BlobOpening) under its peer state task, which adds and removes blob     *)
(* callis and, on a fresh session, a close or a callis that does not       *)
(* resume, runs fail_all_streams over the tables of both: outbound         *)
(* streams, reservations and inbound streams, one mutex after the other.   *)
(***************************************************************************)
EXTENDS BlobAdmission, BlobOpening

VARIABLES
  restart, \* a fresh session's handshake, and the Connected it leaves for the task;
           \* one in a behaviour
  sweep,   \* why a fail_all_streams is in progress, and its next step
  sweeps   \* how many have begun

vars == <<used, pool, ended, workload, admission, opening, restart, sweep, sweeps>>

NoSweep == [why |-> "none", at |-> "none"]

\* Every variable of both directions has its type, and neither cap is exceeded.
TypeOK ==
  /\ SharedTypeOK /\ AdmissionTypeOK /\ OpeningTypeOK
  /\ sweep \in {NoSweep} \cup [why : {"peer", "callis"},
                               at : {"streams", "reservations", "inbound", "callis"}]
  /\ restart \in {"none", "queued", "handled"}
  /\ sweeps \in 0..workload.sweeps

Init ==
  /\ SharedInit /\ AdmissionInit /\ OpeningInit
  /\ restart = "none" /\ sweep = NoSweep /\ sweeps = 0

-----------------------------------------------------------------------------
(* Peer state task *)

\* add_callis: the session resumes, or there is no stream to fail.  The streams
\* a callis that resumes fails for their settings go by fail_outbound_stream.
add_callis ==
  /\ sweep = NoSweep /\ ~pool /\ ~ended
  /\ pool' = TRUE
  /\ UNCHANGED <<used, ended, workload, admission, opening, restart, sweep, sweeps>>

remove_callis ==
  /\ sweep = NoSweep /\ pool /\ ~ended
  /\ pool' = FALSE
  /\ UNCHANGED <<used, ended, workload, admission, opening, restart, sweep, sweeps>>

\* A fresh session's handshake clears the dedupe state; the task hears of it later.
handshake_fresh ==
  /\ workload.fresh /\ restart = "none" /\ ~ended
  /\ restart' = "queued"
  /\ clear_dedupe
  /\ UNCHANGED <<pool, ended, workload, opening, sweep, sweeps>>

Begins(why) ==
  /\ sweep = NoSweep /\ ~ended /\ sweeps < workload.sweeps
  /\ sweep' = [why |-> why, at |-> "streams"]
  /\ sweeps' = sweeps + 1
  /\ UNCHANGED <<used, pool, ended, workload, admission, opening>>

\* Connected of a fresh session.
fresh_restart == restart = "queued" /\ restart' = "handled" /\ Begins("peer")

\* The graceful close task, or teardown_peer_handle.
close_peer == Begins("peer") /\ UNCHANGED restart

\* has_stream_state: streams of either direction, or responses that streams once
\* accepted have left in write_slots.
HasStreamState ==
  \/ streams # {} \/ \E id \in Ids : recv_streams[id] # 0
  \/ \E d \in DOMAIN receivers : receivers[d].decision = "Accepted"

\* add_callis: a blob callis that does not resume meets streams.
add_fresh_callis == HasStreamState /\ Begins("callis") /\ UNCHANGED restart

Sweeps(at, next) ==
  /\ sweep.at = at
  /\ sweep' = [sweep EXCEPT !.at = next]
  /\ UNCHANGED <<pool, ended, workload, restart, sweeps>>

\* fail_all_streams: the outbound streams,
sweep_streams == Sweeps("streams", "reservations") /\ fail_outbound /\ UNCHANGED admission

\* the reservations of both directions,
sweep_reservations ==
  /\ Sweeps("reservations", "inbound")
  /\ used' = [used EXCEPT !["in"] = @ - Cardinality(reservations),
                          !["out"] = @ - Cardinality(outbound_reservations)]
  /\ reservations' = {} /\ outbound_reservations' = {}
  /\ strayed' = {}
  /\ UNCHANGED <<overwritten, known, adm, receivers, tables, removed, send, streams, failing, local>>

\* and the inbound requests and streams.
sweep_inbound == Sweeps("inbound", "callis") /\ fail_inbound /\ UNCHANGED opening

\* drain_callis, or the callis that did not resume enters the pool.
sweep_callis ==
  /\ sweep.at = "callis"
  /\ pool' = (sweep.why = "callis")
  /\ sweep' = NoSweep
  /\ UNCHANGED <<used, ended, workload, admission, opening, restart, sweeps>>

\* The shutdown signal ends the task, whatever the tables hold.
end_task ==
  /\ workload.ends
  /\ sweep = NoSweep /\ ~ended
  /\ ended' = TRUE
  /\ UNCHANGED <<used, pool, workload, admission, opening, restart, sweep, sweeps>>

-----------------------------------------------------------------------------
PeerStateTask ==
  \/ add_callis \/ remove_callis
  \/ handshake_fresh \/ fresh_restart \/ close_peer \/ add_fresh_callis
  \/ sweep_streams \/ sweep_reservations \/ sweep_inbound \/ sweep_callis
  \/ end_task

Next ==
  \/ AdmissionNext /\ UNCHANGED <<pool, ended, workload, opening, restart, sweep, sweeps>>
  \/ OpeningNext /\ UNCHANGED <<pool, ended, workload, restart, sweep, sweeps>>
                 /\ UNCHANGED <<reservations, overwritten, strayed, known, adm, receivers,
                                tables, removed>>
  \/ PeerStateTask

Spec == Init /\ [][Next]_vars

-----------------------------------------------------------------------------
(* Properties *)

\* The tracker shared by all streams counts exactly the reservations on record,
\* the ones a reader or a call is about to record, the sides of local streams, and
\* what was lost on the way: a record overwritten by a later request with the same
\* id, and a call cancelled before its reservation was recorded.  Nothing is
\* released twice, nothing else is lost and no cap is exceeded.
TrackerExact ==
  /\ TypeOK
  /\ used["in"] = Cardinality(reservations) + overwritten
                  + Cardinality({<<c, id>> \in Callis \X Ids : adm[c][id].at = "insert"})
                  + Cardinality({l \in Locals : "in" \in local[l].holds})
  /\ used["out"] = Cardinality(outbound_reservations)
                   + Cardinality({s \in Sends : send[s] \in {"insert", "lost"}})
                   + Cardinality({l \in Locals : "out" \in local[l].holds})

\* Someone will release the inbound reservation of id: a reader that admits the
\* stream, the reaper of an installed stream, a task that removed an entry, a
\* receiver that is read or dropped.
Keeper(id) ==
  \/ \E c \in Callis : adm[c][id].at # "idle"
  \/ recv_streams[id] # 0
  \/ \E d \in DOMAIN receivers :
       /\ receivers[d].id = id
       /\ \/ d \in removed
          \/ receivers[d].holder \in {"idling", "ending", "releasing", "removing", "removed"}
          \/ receivers[d].holder \in {"app", "dropped"} /\ ~receivers[d].completed

\* Every reservation on record has someone who will release it, whatever is
\* lost, refused, dropped, cancelled or failed half way.  The records left behind
\* for good are named one by one: those of an admission that failed after its
\* request became pending, of a request admitted while fail_all_streams ran, of a
\* read dropped between the removal of its stream and the release (strayed), and
\* of a send_blob call cancelled inside release (stuck).
ReservationKept ==
  /\ \A id \in reservations \ strayed : Keeper(id) \/ sweep.at \in {"streams", "reservations"}
  /\ \A s \in outbound_reservations : send[s] \in Guarded \cup Releasing \cup {"open", "stuck"}

\* A task has removed the entry of a request for id and not yet released.
Owed(id) == \E d \in DOMAIN receivers :
              receivers[d].id = id /\ (d \in removed \/ receivers[d].holder = "removed")

\* A request overwrites the record of an earlier one with the same id, and loses
\* its space until the process ends, only if at that moment the dedupe state has
\* forgotten the earlier one (a fresh session, an eviction), the record was left
\* behind, or its release is under way.
LossHasCause ==
  [][overwritten' # overwritten =>
       \E c \in Callis, id \in Ids :
         /\ adm[c][id].at = "insert" /\ adm'[c][id].at = "enqueue"
         /\ id \in forgotten \cup strayed \/ Owed(id)]_vars

\* A request for id counts on the record: it is being admitted, or its stream
\* buffers chunks.
Counted(id) ==
  \/ recv_streams[id] # 0
  \/ \E c \in Callis :
       \/ adm[c][id].at \in {"enqueue", "accept", "install"}
       \/ adm[c][id].at \in {"signal", "callis", "exists", "take"}
            /\ pending_requests[id] # 0

\* A receiver of id, read or dropped, releases by id in this step; or a task does
\* that removed the entry of another request.
ReleasedByName(id) ==
  \E d \in DOMAIN receivers :
    /\ receivers[d].id = id
    /\ \/ receivers[d].holder \in {"ending", "releasing", "removed"} /\ receivers'[d] # receivers[d]
       \/ d \in removed \ removed'

\* While a request is admitted or its stream installed, its reservation leaves the
\* books only by fail_all_streams, by a receiver or a task that releases whatever
\* the id names, or by a second admission of an id the dedupe state has forgotten.
\* An outbound reservation leaves before its stream only by fail_all_streams and as
\* the first step of unregister_outbound_stream.
StreamReserved ==
  [][/\ \A id \in reservations \ reservations' :
          Counted(id)' => \/ sweep.at = "reservations"
                          \/ ReleasedByName(id)
                          \/ id \in forgotten
     /\ \A s \in outbound_reservations \ outbound_reservations' :
          s \in streams' => \/ sweep.at = "reservations"
                            \/ s \in failing' \/ send'[s] = "closing"]_vars
=============================================================================
