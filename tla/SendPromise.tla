----------------------------- MODULE SendPromise -----------------------------
(***************************************************************************)
(* What a peer session promises the senders of completion-bearing messages *)
(* (PeerSession::create_outgoing, handle_ack, handle_error, wait_for_ack   *)
(* and the failures of session.rs), without lanes, slots, queues, claims,  *)
(* deadlines or capacities.  A message that is admitted gets a number; its *)
(* sender waits on it and is answered exactly once: Ok by an ACK that      *)
(* names the message, Err by anything else.  Closing fails whoever waits   *)
(* and admits nobody.                                                      *)
(***************************************************************************)
EXTENDS Integers

CONSTANT TrackedIds   \* peer_msg_id values of completion-bearing messages

VARIABLES
  waiting,  \* the number of the admitted message with this id, 0 if there is none
  result,   \* what the sender of each number has been told
  issued,   \* the next number
  closed    \* the session has begun to shut down

vars == <<waiting, result, issued, closed>>

Init ==
  /\ waiting = [id \in TrackedIds |-> 0]
  /\ result = <<>>
  /\ issued = 1
  /\ closed = FALSE

\* The next number is handed out, with r as its result.
Issue(r) ==
  /\ result' = [q \in 1..issued |-> IF q = issued THEN r ELSE result[q]]
  /\ issued' = issued + 1

\* create_outgoing: an id is admitted once, and not once the session closes.
create_outgoing(id) ==
  /\ ~closed
  /\ waiting[id] = 0
  /\ Issue("pending")
  /\ waiting' = [waiting EXCEPT ![id] = issued]
  /\ UNCHANGED closed

\* send_response: an ACK or ERROR takes a number that nobody waits on.
send_response == ~closed /\ Issue("none") /\ UNCHANGED <<waiting, closed>>

Waiting == {id \in TrackedIds : waiting[id] # 0}

\* The senders of ids are told r, and wait no more.
Resolve(ids, r) ==
  /\ result' = [q \in DOMAIN result |-> IF \E id \in ids : waiting[id] = q THEN r ELSE result[q]]
  /\ waiting' = [id \in TrackedIds |-> IF id \in ids THEN 0 ELSE waiting[id]]
  /\ UNCHANGED issued

\* handle_ack: the remote accepted the message.
handle_ack(id) == id \in Waiting /\ Resolve({id}, "Ok") /\ UNCHANGED closed

\* The remote refused it, its deadline passed, or the remote lost the session.
fail(ids) == ids \subseteq Waiting /\ Resolve(ids, "Err") /\ UNCHANGED closed

close == ~closed /\ closed' = TRUE /\ Resolve(Waiting, "Err")

Next ==
  \/ \E id \in TrackedIds : create_outgoing(id) \/ handle_ack(id)
  \/ send_response
  \/ \E ids \in SUBSET TrackedIds : fail(ids)
  \/ close

Spec == Init /\ [][Next]_vars
=============================================================================
