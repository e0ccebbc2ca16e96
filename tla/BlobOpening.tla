----------------------------- MODULE BlobOpening -----------------------------
(***************************************************************************)
(* How a domus opens blob streams: PeerHandle::send_blob and the           *)
(* OutboundReservation guard (transport/peer.rs), the outbound tables of   *)
(* the blob manager (blob/mod.rs), and deliver_local (delivery.rs), which  *)
(* reserves both directions for a stream between two local tabernae.  The  *)
(* caller may drop the future of a send at any of its awaits.              *)
(***************************************************************************)
EXTENDS BlobShared

CONSTANTS
  Sends,   \* numbers of the send_blob calls; a call's number is its stream id
  Locals   \* numbers of the local deliveries

VARIABLES
  send,                  \* how far each send_blob call has come
  outbound_reservations, \* ids with an entry in BlobReservationState.outbound
  streams,               \* BlobOutboundState.streams
  failing,               \* streams whose reservation an ERROR handler or add_callis has
                         \* released, and which it has yet to remove
  local                  \* sides a local delivery holds, and whether it is complete

opening == <<send, outbound_reservations, streams, failing, local>>

\* The steps of a call that holds a recorded reservation, and the ends.
Guarded == {"ack", "ensure", "callis", "select", "register"}
Releasing == {"release", "released by Drop"}
Steps == {"new", "insert", "open", "closing", "done"} \cup Guarded \cup Releasing
         \cup {"lost", "stuck"}   \* cancelled with the reservation unrecorded, or recorded

\* Every variable has its type.
OpeningTypeOK ==
  /\ send \in [Sends -> Steps]
  /\ outbound_reservations \subseteq Sends /\ streams \subseteq Sends /\ failing \subseteq Sends
  /\ local \in [Locals -> [at : {"new", "pair", "open", "done"}, holds : SUBSET Sides]]

OpeningInit ==
  /\ send = [s \in Sends |-> "new"]
  /\ outbound_reservations = {} /\ streams = {} /\ failing = {}
  /\ local = [l \in Locals |-> [at |-> "new", holds |-> {}]]

-----------------------------------------------------------------------------
(* send_blob *)

Moves(s, from, to) == send[s] \in from /\ send' = [send EXCEPT ![s] = to]

release_outbound(ids) ==
  /\ release_side("out", Cardinality(ids \cap outbound_reservations))
  /\ outbound_reservations' = outbound_reservations \ ids

\* A call that found the session open and the dial signalled, however long ago,
\* takes its reservation from the tracker.  One that is refused, because the session
\* closes or the buffer is full, leaves no trace.
reserve(s) ==
  /\ s <= workload.sends
  /\ Moves(s, {"new"}, "insert")
  /\ try_reserve_side("out")
  /\ UNCHANGED <<outbound_reservations, streams, failing, local>>

\* reserve_outbound records it; the guard takes over.
insert_outbound(s) ==
  /\ Moves(s, {"insert"}, "ack")
  /\ outbound_reservations' = outbound_reservations \cup {s}
  /\ UNCHANGED <<used, streams, failing, local>>

\* wait_for_ack returns: the remote accepted, or the send failed.
acked(s) == Moves(s, {"ack"}, "ensure") /\ UNCHANGED <<used, outbound_reservations, streams, failing, local>>
ack_fails(s) == Moves(s, {"ack"}, "release") /\ UNCHANGED <<used, outbound_reservations, streams, failing, local>>

\* ensure_blob_callis selects a callis, or asks for a dial and waits; the signal
\* fails once the peer state task is gone.
select_callis(s) ==
  /\ Moves(s, {"ensure"}, IF pool THEN "register" ELSE IF ended THEN "release" ELSE "callis")
  /\ UNCHANGED <<used, outbound_reservations, streams, failing, local>>

\* ensure_blob_callis finds no active primary, or wait_for_callis times out.
ensure_fails(s) ==
  /\ Moves(s, {"ensure", "callis"}, "release")
  /\ UNCHANGED <<used, outbound_reservations, streams, failing, local>>

wait_for_callis(s) ==
  /\ pool
  /\ Moves(s, {"callis"}, "select")
  /\ UNCHANGED <<used, outbound_reservations, streams, failing, local>>

\* The pool may have emptied since wait_for_callis saw it.
select_again(s) ==
  /\ Moves(s, {"select"}, IF pool THEN "register" ELSE "release")
  /\ UNCHANGED <<used, outbound_reservations, streams, failing, local>>

register_uncommitted(s) ==
  /\ Moves(s, {"register"}, "released by Drop")
  /\ streams' = streams \cup {s}
  /\ UNCHANGED <<used, outbound_reservations, failing, local>>

\* register_outbound_stream; the guard is committed and the sender returned.
register_outbound_stream(s) ==
  /\ Moves(s, {"register"}, "open")
  /\ streams' = streams \cup {s}
  /\ UNCHANGED <<used, outbound_reservations, failing, local>>

\* OutboundReservation::release, or the task its Drop spawned.
release_reservation(s) ==
  /\ Moves(s, Releasing, "done")
  /\ release_outbound({s})
  /\ UNCHANGED <<streams, failing, local>>

cancel_forgets(s) ==
  /\ \/ Moves(s, {"insert"}, "lost")
     \/ Moves(s, Guarded \cup {"release"}, "done")
  /\ UNCHANGED <<used, outbound_reservations, streams, failing, local>>

\* The caller drops the future: before the guard exists, the reservation is held
\* by nobody; release() has switched the guard off before it awaits the lock.
cancel(s) ==
  /\ \/ Moves(s, {"insert"}, "lost")
     \/ Moves(s, Guarded, "released by Drop")
     \/ Moves(s, {"release"}, "stuck")
  /\ UNCHANGED <<used, outbound_reservations, streams, failing, local>>

\* unregister_outbound_stream for an ERROR that names the stream, or fail_stream
\* for a stream whose settings are not those of a callis that resumes: the
\* reservation,
fail_outbound_stream(s) ==
  /\ s \in streams \ failing
  /\ release_outbound({s})
  /\ failing' = failing \cup {s}
  /\ UNCHANGED <<send, streams, local>>

\* and then the stream.
unregister_outbound_stream(s) ==
  /\ s \in failing
  /\ streams' = streams \ {s}
  /\ failing' = failing \ {s}
  /\ UNCHANGED <<used, outbound_reservations, send, local>>

\* BlobSenderState::cleanup: the sender finished, failed or was dropped.
cleanup(s) ==
  /\ Moves(s, {"open"}, "closing")
  /\ release_outbound({s})
  /\ UNCHANGED <<streams, failing, local>>

cleanup_ends(s) ==
  /\ Moves(s, {"closing"}, "done")
  /\ streams' = streams \ {s}
  /\ UNCHANGED <<used, outbound_reservations, failing, local>>

-----------------------------------------------------------------------------
(* deliver_local *)

Holds(l, at, sides) == local' = [local EXCEPT ![l] = [at |-> at, holds |-> sides]]

\* try_reserve_pair: the outbound side,
reserve_local(l) ==
  /\ l <= workload.locals
  /\ local[l].at = "new"
  /\ try_reserve_side("out")
  /\ Holds(l, "pair", {"out"})
  /\ UNCHANGED <<send, outbound_reservations, streams, failing>>

\* then the inbound side,
reserve_pair(l) ==
  /\ local[l].at = "pair"
  /\ try_reserve_side("in")
  /\ Holds(l, "open", Sides)
  /\ UNCHANGED <<send, outbound_reservations, streams, failing>>

\* or the outbound side is given back because the inbound side is full.
reserve_pair_fails(l) ==
  /\ local[l].at = "pair"
  /\ used["in"] = Cap["in"]
  /\ release_side("out", 1)
  /\ Holds(l, "done", {})
  /\ UNCHANGED <<send, outbound_reservations, streams, failing>>

\* TrackedDuplex::drop, by the application or because the delivery failed.
drop_local(l, side) ==
  /\ local[l].at = "open" /\ side \in local[l].holds
  /\ release_side(side, 1)
  /\ Holds(l, "open", local[l].holds \ {side})
  /\ UNCHANGED <<send, outbound_reservations, streams, failing>>

-----------------------------------------------------------------------------
(* What the peer state task does to the tables *)

\* fail_all_streams: the rings of every stream fail and close.
fail_outbound ==
  /\ streams' = {}
  /\ UNCHANGED <<used, send, outbound_reservations, failing, local>>

SendBlob(s) ==
  \/ reserve(s) \/ insert_outbound(s) \/ acked(s) \/ ack_fails(s)
  \/ select_callis(s) \/ ensure_fails(s) \/ wait_for_callis(s) \/ select_again(s)
  \/ register_outbound_stream(s) \/ release_reservation(s) \/ cancel(s)

OpeningNext ==
  \/ \E s \in Sends : \/ SendBlob(s) \/ cleanup(s) \/ cleanup_ends(s)
                      \/ fail_outbound_stream(s) \/ unregister_outbound_stream(s)
  \/ \E l \in Locals : \/ reserve_local(l) \/ reserve_pair(l) \/ reserve_pair_fails(l)
                       \/ \E side \in Sides : drop_local(l, side)
=============================================================================
