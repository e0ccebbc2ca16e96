--------------------------- MODULE InboundReceive ---------------------------
(***************************************************************************)
(* The receiving half of a peer session: several primary callis readers    *)
(* (transport/callis.rs) hand application messages to a taberna inbox      *)
(* (taberna.rs), wait for the application's decision and answer with ACK   *)
(* or ERROR; the dedupe state they share (session.rs) keeps a message the  *)
(* remote peer replays from being delivered again.                         *)
(*                                                                         *)
(* A step of a reader is one pass of its select loop, split where it       *)
(* releases the dedupe lock before it calls into the inbox.  The waiters   *)
(* that are ready when a pass starts are drained one per step: the         *)
(* application decides concurrently, so a waiter may always be found ready *)
(* or not ready by the pass that precedes any other arm of the select.     *)
(***************************************************************************)
EXTENDS Integers, FiniteSets, Sequences, Functions

CONSTANTS
  Ids,            \* peer_msg_id values of the messages whose deliveries are followed
  Callis,         \* primary callis, each with one reader task
  DedupeLimit,    \* dedupe_limit(config)
  InboxCapacity,  \* accept_queue_size of the destination taberna
  SameCallisReplay, \* whether the remote sends an id again on a callis it is pending on
  MaxRequests,    \* bound on the requests a behaviour enqueues
  None

VARIABLES
  order,      \* ids of completed deliveries, oldest first; DedupeState.set is its range
  pending,    \* ids with a delivery in progress (DedupeState.pending)
  waiters,    \* InboundCallisState.waiters of each reader
  reader,     \* "open", the cancel reason once read_closed is set, "done" after the loop
  begun,      \* the id a reader has begun to deliver but not enqueued yet
  requests,   \* every TabernaRequest created, in creation order
  inbox,      \* positions in requests of the queued ones
  closing,    \* PeerSession.closing
  acked,      \* ids an ACK was handed to the dispatch for
  orphaned,   \* ids in progress when their reader's loop broke or a fresh session
              \* cleared the dedupe state: the code tracks them no further (history)
  forgotten   \* ids the history evicted, or a fresh session cleared (history)

vars == <<order, pending, waiters, reader, begun, requests, inbox, closing, acked,
          orphaned, forgotten>>

Requests == [id : Ids, by : Callis, state : {"Queued", "Held", "Accepted", "Rejected"}]
Decisions == {"none", "Ack", "Error", "Abandoned"}
Message(r) == [kind |-> "Message", req |-> r]
Duplicate(d) == [kind |-> "Duplicate", decision |-> d]
Waiters == [kind : {"Message"}, req : Nat] \cup [kind : {"Duplicate"}, decision : Decisions]

ASSUME ConstantsAssumption ==
  /\ DedupeLimit \in Nat \ {0} /\ InboxCapacity \in Nat \ {0} /\ MaxRequests \in Nat
  /\ SameCallisReplay \in BOOLEAN
  /\ None \notin Ids \cup Waiters

\* Every variable has its type, and the inbox stays within accept_queue_size.
TypeOK ==
  /\ order \in Seq(Ids \cup {None})
  /\ pending \subseteq Ids
  /\ waiters \in [Callis -> [Ids -> Waiters \cup {None}]]
  /\ reader \in [Callis -> {"open", "ConnectionLost", "LocalShutdown", "done"}]
  /\ begun \in [Callis -> Ids \cup {None}]
  /\ requests \in Seq(Requests)
  /\ inbox \in Seq(1..Len(requests)) /\ Len(inbox) <= InboxCapacity
  /\ closing \in BOOLEAN
  /\ acked \subseteq Ids
  /\ orphaned \subseteq Ids /\ forgotten \subseteq Ids

Init ==
  /\ order = <<>>
  /\ pending = {}
  /\ waiters = [c \in Callis |-> [id \in Ids |-> None]]
  /\ reader = [c \in Callis |-> "open"]
  /\ begun = [c \in Callis |-> None]
  /\ requests = <<>>
  /\ inbox = <<>>
  /\ closing = FALSE
  /\ acked = {}
  /\ orphaned = {} /\ forgotten = {}

-----------------------------------------------------------------------------
(* Shared dedupe state *)

IsMessage(w) == w # None /\ w.kind = "Message"
IsDuplicate(w) == w # None /\ w.kind = "Duplicate"

\* The history after a successful delivery of id: ids enter once, the oldest leave.
\* None stands for an id outside Ids, never the same one twice.
remember(id) ==
  LET extended == IF id \in Range(order) \ {None} THEN order ELSE Append(order, id)
      excess   == IF Len(extended) > DedupeLimit THEN Len(extended) - DedupeLimit ELSE 0
  IN  SubSeq(extended, excess + 1, Len(extended))

\* The oneshots of the duplicates that joined the deliveries of ids receive d.
Decide(w, ids, d) ==
  [c \in Callis |-> [id \in Ids |->
     IF id \in ids /\ w[c][id] = Duplicate("none") THEN Duplicate(d) ELSE w[c][id]]]

\* The ids that leave the history when it becomes kept.
Evict(kept) == forgotten' = forgotten \cup ((Range(order) \ Range(kept)) \cap Ids)

dedupe_complete_remembers_errors(w, id, ok) ==
  /\ order' = remember(id)
  /\ pending' = pending \ {id}
  /\ waiters' = Decide(w, {id}, IF ok THEN "Ack" ELSE "Error")
  /\ Evict(order')

\* dedupe_complete(id, result) by a reader whose waiters are then w.
dedupe_complete(w, id, ok) ==
  /\ order' = IF ok THEN remember(id) ELSE order
  /\ pending' = pending \ {id}
  /\ waiters' = Decide(w, {id}, IF ok THEN "Ack" ELSE "Error")
  /\ Evict(order')

\* send_inbound_outcome: the retained store takes the response.
Answer(id, kind) == acked' = IF kind = "Ack" THEN acked \cup {id} ELSE acked

-----------------------------------------------------------------------------
(* Reader: an application message frame arrives *)

CanRead(c) == reader[c] = "open" /\ begun[c] = None

\* A replay meets the callis its first copy is pending on only when the remote
\* resumes the session while this callis lives.
MayArrive(c, id) == CanRead(c) /\ (SameCallisReplay \/ waiters[c][id] = None)

\* receive_message_schedule answers at once: the session is closing, the taberna
\* is not registered, or the id is already delivered.
receive_refused(c, id) ==
  /\ MayArrive(c, id)
  /\ Answer(id, "Error")
  /\ UNCHANGED <<order, pending, waiters, reader, begun, requests, inbox, closing, orphaned, forgotten>>

receive_duplicate(c, id) ==
  /\ MayArrive(c, id) /\ ~closing
  /\ id \in Range(order)
  /\ Answer(id, "Ack")
  /\ UNCHANGED <<order, pending, waiters, reader, begun, requests, inbox, closing, orphaned, forgotten>>

\* dedupe_begin finds the id pending: this reader waits for the same decision.
\* insert_waiter overwrites whatever waiter it had for the id.
receive_pending_duplicate(c, id) ==
  /\ MayArrive(c, id) /\ ~closing
  /\ id \notin Range(order) /\ id \in pending
  /\ waiters' = [waiters EXCEPT ![c][id] = Duplicate("none")]
  /\ UNCHANGED <<order, pending, reader, begun, requests, inbox, closing, acked, orphaned, forgotten>>

receive_new_unlocked(c, id) ==
  /\ MayArrive(c, id) /\ ~closing
  /\ id \notin Range(order)
  /\ pending' = pending \cup {id}
  /\ begun' = [begun EXCEPT ![c] = id]
  /\ UNCHANGED <<order, waiters, reader, requests, inbox, closing, acked, orphaned, forgotten>>

\* dedupe_begin opens a delivery; the inbox is called after the lock is released.
receive_new(c, id) ==
  /\ MayArrive(c, id) /\ ~closing
  /\ id \notin Range(order) /\ id \notin pending
  /\ pending' = pending \cup {id}
  /\ begun' = [begun EXCEPT ![c] = id]
  /\ UNCHANGED <<order, waiters, reader, requests, inbox, closing, acked, orphaned, forgotten>>

\* TabernaInbox::enqueue takes the request.
enqueue(c) ==
  /\ begun[c] # None
  /\ Len(inbox) < InboxCapacity /\ Len(requests) < MaxRequests
  /\ requests' = Append(requests, [id |-> begun[c], by |-> c, state |-> "Queued"])
  /\ inbox' = Append(inbox, Len(requests) + 1)
  /\ waiters' = [waiters EXCEPT ![c][begun[c]] = Message(Len(requests) + 1)]
  /\ begun' = [begun EXCEPT ![c] = None]
  /\ UNCHANGED <<order, pending, reader, closing, acked, orphaned, forgotten>>

enqueue_refused_leaks(c) ==
  /\ begun[c] # None
  /\ Answer(begun[c], "Error")
  /\ begun' = [begun EXCEPT ![c] = None]
  /\ UNCHANGED <<order, pending, waiters, reader, requests, inbox, closing, orphaned, forgotten>>

\* enqueue fails: the inbox is full or shut down, or the payload does not decode.
enqueue_refused(c) ==
  /\ begun[c] # None
  /\ dedupe_complete(waiters, begun[c], FALSE)
  /\ Answer(begun[c], "Error")
  /\ begun' = [begun EXCEPT ![c] = None]
  /\ UNCHANGED <<reader, requests, inbox, closing, orphaned>>

-----------------------------------------------------------------------------
(* The application and the inbox *)

\* Taberna::next takes the oldest queued request.
next ==
  /\ inbox # <<>>
  /\ requests' = [requests EXCEPT ![Head(inbox)].state = "Held"]
  /\ inbox' = Tail(inbox)
  /\ UNCHANGED <<order, pending, waiters, reader, begun, closing, acked, orphaned, forgotten>>

\* The application accepts, or rejects (dropping the request rejects it too).
decide(r, state) ==
  /\ requests[r].state = "Held"
  /\ requests' = [requests EXCEPT ![r].state = state]
  /\ UNCHANGED <<order, pending, waiters, reader, begun, inbox, closing, acked, orphaned, forgotten>>

\* A sequence without its element at position i.
DropAt(s, i) == SubSeq(s, 1, i - 1) \o SubSeq(s, i + 1, Len(s))

\* The request at position i outlives accept_timeout (busy), or the taberna shuts down.
expire(i) ==
  /\ requests' = [requests EXCEPT ![inbox[i]].state = "Rejected"]
  /\ inbox' = DropAt(inbox, i)
  /\ UNCHANGED <<order, pending, waiters, reader, begun, closing, acked, orphaned, forgotten>>

-----------------------------------------------------------------------------
(* Reader: ready waiters *)

Without(c, id) == [waiters EXCEPT ![c][id] = None]

\* A pass of the loop is due: the reader is alive and not inside a handler.
Running(c) == reader[c] # "done" /\ begun[c] = None

\* drain_message_waiter
drain_message_waiter(c, id) ==
  /\ Running(c)
  /\ IsMessage(waiters[c][id])
  /\ LET accepted == requests[waiters[c][id].req].state = "Accepted" IN
     /\ requests[waiters[c][id].req].state \in {"Accepted", "Rejected"}
     /\ dedupe_complete(Without(c, id), id, accepted)
     /\ Answer(id, IF accepted THEN "Ack" ELSE "Error")
  /\ UNCHANGED <<reader, begun, requests, inbox, closing, orphaned>>

\* drain_duplicate_waiter: an abandoned delivery is not answered.
drain_duplicate_waiter(c, id) ==
  /\ Running(c)
  /\ IsDuplicate(waiters[c][id])
  /\ waiters[c][id].decision # "none"
  /\ IF waiters[c][id].decision = "Abandoned" THEN UNCHANGED acked
     ELSE Answer(id, waiters[c][id].decision)
  /\ waiters' = Without(c, id)
  /\ UNCHANGED <<order, pending, reader, begun, requests, inbox, closing, orphaned, forgotten>>

-----------------------------------------------------------------------------
(* Reader: the connection ends *)

\* EOF, a read error or a failed writer (ConnectionLost), or the peer handle's
\* shutdown signal (LocalShutdown): read_closed is set and the reason kept.
stop_reading(c, why) ==
  /\ CanRead(c)
  /\ reader' = [reader EXCEPT ![c] = why]
  /\ UNCHANGED <<order, pending, waiters, begun, requests, inbox, closing, acked, orphaned, forgotten>>

Closed(c) == reader[c] \in {"ConnectionLost", "LocalShutdown"}
OwnedBy(c) == {id \in Ids : IsMessage(waiters[c][id])}
Dropped(c) == [waiters EXCEPT ![c] = [id \in Ids |-> None]]

cancel_all_forgets(c) ==
  /\ Closed(c)
  /\ waiters' = Dropped(c)
  /\ reader' = [reader EXCEPT ![c] = "done"]
  /\ UNCHANGED <<order, pending, begun, requests, inbox, closing, acked, orphaned, forgotten>>

cancel_all_silently(c) ==
  /\ Closed(c)
  /\ pending' = pending \ OwnedBy(c)
  /\ waiters' = Dropped(c)
  /\ reader' = [reader EXCEPT ![c] = "done"]
  /\ UNCHANGED <<order, begun, requests, inbox, closing, acked, orphaned, forgotten>>

\* cancel_waiters, after which the loop ends: the deliveries this reader owned
\* are abandoned, or fail with PeerUnavailable on a local shutdown.  The same
\* end is reached without the cancel when every waiter was drained before.
cancel_all(c) ==
  /\ Closed(c)
  /\ pending' = pending \ OwnedBy(c)
  /\ waiters' = Decide(Dropped(c), OwnedBy(c),
                       IF reader[c] = "LocalShutdown" THEN "Error" ELSE "Abandoned")
  /\ reader' = [reader EXCEPT ![c] = "done"]
  /\ UNCHANGED <<order, begun, requests, inbox, closing, acked, orphaned, forgotten>>

\* CLOSE (which also sets closing) or a frame the handler refuses: the loop breaks
\* at once, and the waiters are dropped with the reader's state.
handler_error(c, close) ==
  /\ CanRead(c)
  /\ orphaned' = orphaned \cup OwnedBy(c)
  /\ closing' = (closing \/ close)
  /\ waiters' = Dropped(c)
  /\ reader' = [reader EXCEPT ![c] = "done"]
  /\ UNCHANGED <<order, pending, begun, requests, inbox, acked, forgotten>>

\* begin_close on this side.
begin_close ==
  /\ closing' = TRUE
  /\ UNCHANGED <<order, pending, waiters, reader, begun, requests, inbox, acked, orphaned, forgotten>>

\* The dedupe part of handle_hello_response(false) and accept_hello: history and
\* pending are cleared, so the oneshots of waiting duplicates close.
fresh_session ==
  /\ orphaned' = orphaned \cup pending
  /\ forgotten' = forgotten \cup pending \cup (Range(order) \cap Ids)
  /\ order' = <<>>
  /\ pending' = {}
  /\ waiters' = Decide(waiters, Ids, "Abandoned")
  /\ UNCHANGED <<reader, begun, requests, inbox, closing, acked>>

\* A message with an id outside Ids is delivered and enters the history.
other_delivered ==
  /\ order' = remember(None)
  /\ Evict(order')
  /\ UNCHANGED <<pending, waiters, reader, begun, requests, inbox, closing, acked, orphaned>>

-----------------------------------------------------------------------------
Decision ==
  \/ next
  \/ \E r \in DOMAIN requests : decide(r, "Accepted") \/ decide(r, "Rejected")
  \/ \E i \in DOMAIN inbox : expire(i)

drain(c, id) == drain_message_waiter(c, id) \/ drain_duplicate_waiter(c, id)

\* An application message frame reaches the handler of callis c.
Receive(c) ==
  \/ \E id \in Ids : \/ receive_refused(c, id) \/ receive_duplicate(c, id)
                     \/ receive_pending_duplicate(c, id) \/ receive_new(c, id)
  \/ enqueue(c) \/ enqueue_refused(c)

\* The reader task of callis c: a pass of its loop, or its end.
Reader(c) ==
  \/ Receive(c) \/ (\E id \in Ids : drain(c, id)) \/ cancel_all(c)
  \/ stop_reading(c, "ConnectionLost") \/ stop_reading(c, "LocalShutdown")
  \/ handler_error(c, TRUE) \/ handler_error(c, FALSE)

Next ==
  \/ \E c \in Callis : Reader(c)
  \/ Decision
  \/ begin_close \/ fresh_session \/ other_delivered

Spec == Init /\ [][Next]_vars

\* Readers keep running, and a pass drains every waiter that is ready.  The
\* application takes and decides what is queued or lets accept_timeout expire it; a
\* request it holds is decided or dropped.
FairSpec ==
  /\ Spec
  /\ WF_vars(Decision)
  /\ \A c \in Callis : /\ WF_vars(enqueue(c) \/ enqueue_refused(c))
                       /\ \A id \in Ids : WF_vars(drain(c, id))
                       /\ WF_vars(cancel_all(c))

-----------------------------------------------------------------------------
(* Properties *)

Owners(id) == {c \in Callis : begun[c] = id \/ IsMessage(waiters[c][id])}

\* Every delivery in progress has a reader that will complete or abandon it, and
\* no id is being delivered by two readers: connection loss, shutdown, refusals
\* and replays on other callis neither leak a pending id nor start it twice.  Only
\* a broken reader loop or a fresh session loses track of a delivery.
DeliveryHasOneOwner ==
  /\ TypeOK
  /\ \A id \in Ids \ orphaned :
       IF id \in pending THEN \E c \in Callis : Owners(id) = {c} ELSE Owners(id) = {}

\* A duplicate that waits joined a delivery still in progress: its decision
\* cannot be missed.
DuplicateJoinsPending ==
  \A c \in Callis, id \in Ids : waiters[c][id] = Duplicate("none") => id \in pending

\* The sender is told "accepted" only for a message the application accepted,
\* whatever the history has evicted.
AckMeansAccepted ==
  \A id \in Ids : id \in acked \/ id \in Range(order)
                  => \E r \in DOMAIN requests : requests[r].id = id /\ requests[r].state = "Accepted"

\* A message that is queued, held or accepted is delivered again only if the
\* callis it came on stopped before the answer could be given, a fresh session
\* cleared the history, or the history has since evicted the id.
RedeliveryOnlyAfterLoss ==
  \A q, r \in DOMAIN requests :
    q < r /\ requests[q].id = requests[r].id /\ requests[q].state # "Rejected"
      => reader[requests[q].by] = "done" \/ requests[q].id \in forgotten

\* Every message a reader holds back is answered or dropped: no waiter stays for
\* ever, whatever happens to the callis that owns the delivery it waits for,
\* unless that delivery is orphaned.
WaitersResolve ==
  \A c \in Callis, id \in Ids :
    waiters[c][id] # None ~> waiters[c][id] = None \/ id \in orphaned
=============================================================================
