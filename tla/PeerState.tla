------------------------------ MODULE PeerState ------------------------------
(***************************************************************************)
(* The peer state task of one peer handle (transport/peer.rs), with the    *)
(* tasks that feed its event channel: dial tasks and inbound handshakes    *)
(* that open a callis and announce it, callis tasks that end and report    *)
(* it, senders and blob streams that ask for a dial, graceful close.       *)
(*                                                                         *)
(* A handler of the task is one action: the PeerStateMachine transition,   *)
(* the effects it returns, and the loop epilogue.  Delays, roles, backoff  *)
(* counters and reports are left out: they choose when a dial starts, not  *)
(* whether.  The retained store is one bit, `work` (something is retained),*)
(* the blob streams another, `streams`; RetainedStore has the detail.      *)
(***************************************************************************)
EXTENDS Integers, FiniteSets, Sequences, SequencesExt

CONSTANTS
    Primaries,       \* ids the primary callis of a behaviour get
    Blobs,           \* ids its blob callis get
    MaxParallel,     \* max_parallel_callis_per_peer
    HandshakeLimit,  \* inbound_handshake_limit_per_peer
    EventCapacity,   \* capacity of the peer_state channel (256 in the code)
    EarlyClose,      \* may a callis end before it has been announced?
    Workloads        \* bounds of a behaviour: the callis it may open, whether messages
                     \* and responses are retained, and whether the disconnect requests
                     \* of test harnesses are made

ASSUME ConstantsAssumption ==
    /\ IsFiniteSet(Primaries) /\ IsFiniteSet(Blobs)
    /\ Primaries \cap Blobs = {}
    /\ MaxParallel \in Nat \ {0}
    /\ HandshakeLimit \in Nat \ {0}
    /\ EventCapacity \in Nat \ {0}
    /\ EarlyClose \in BOOLEAN
    /\ Workloads \subseteq [ids : SUBSET (Primaries \cup Blobs),
                            retains : BOOLEAN, disconnects : BOOLEAN]

VARIABLES
    peer,            \* PeerState: owned by the state task
    primary_active,  \* AtomicBool read by handshakes and blob senders
    session,         \* [active, closing] of the PeerSession
    work,            \* the retained store is not empty
    streams,         \* some blob stream or request is active
    pool,            \* blob callis in the BlobManager's pool
    callis,          \* state of each callis task
    opener,          \* who opened a callis and has still to announce it
    fresh,           \* callis whose handshake found a fresh session
    dials,           \* dial tasks in flight, per kind
    accepting,       \* inbound handshakes past the limit check, per kind
    events,          \* the peer_state channel
    asking,          \* calls between their state change and their signal
    closer,          \* graceful_close callers and the peer shutdown task
    doomed,          \* open callis told to close or to shut down
    workload         \* what this behaviour may do; never changed

vars == <<peer, primary_active, session, work, streams, pool, callis, opener,
          fresh, dials, accepting, events, asking, closer, doomed>>

----------------------------------------------------------------------------
Kinds == {"Primary", "Blob"}

Ids == Primaries \cup Blobs

IdsOf(k) == IF k = "Primary" THEN Primaries ELSE Blobs

\* PeerStateUpdate.
Events ==
    [type : {"Connected", "ConnectionClosed"}, id : Ids]
        \cup [type : {"DialFailed", "Disconnect"}, kind : Kinds]
        \cup [type : {"EnsurePrimaryDial", "EnsureBlobDial", "GracefulClose"}]

PeerStates ==
    [primary : SUBSET Primaries, had_primary : BOOLEAN,
     primary_dial : {"Idle", "Dialing"}, dialing_blob : BOOLEAN,
     closing : BOOLEAN, impaired : BOOLEAN]

Init ==
    /\ peer = [primary |-> {}, had_primary |-> FALSE, primary_dial |-> "Idle",
               dialing_blob |-> FALSE, closing |-> FALSE, impaired |-> FALSE]
    /\ primary_active = FALSE
    /\ session = [active |-> FALSE, closing |-> FALSE]
    /\ work = FALSE
    /\ streams = FALSE
    /\ pool = {}
    /\ callis = [c \in Ids |-> "unused"]
    /\ opener = [c \in Ids |-> "none"]
    /\ fresh = {}
    /\ dials = [k \in Kinds |-> 0]
    /\ accepting = [k \in Kinds |-> 0]
    /\ events = <<>>
    /\ asking = {}
    /\ closer = [call |-> "none", task |-> "none", handles |-> {}]
    /\ doomed = {}
    /\ workload \in Workloads

\* CallisTracker: open() when the callis task is spawned, close() when its
\* reader and writer have both finished, before the event is sent.
Open == {c \in Ids : callis[c] = "open"}

\* Handlers look at the capacity twice, in the transition and when the dial is
\* launched; a dial refused the second time leaves what one refused the first
\* time does, so one look stands for both.
has_callis_capacity == Cardinality(Open) < MaxParallel

\* The channel is bounded: send() waits for room, try_signal_peer_state_ensure
\* drops the signal when there is none.
HasRoom == Len(events) < EventCapacity

try_signal_ensure(e) == events' = IF HasRoom THEN Append(events, e) ELSE events

----------------------------------------------------------------------------
(* PeerStateMachine: transitions of the PeerState alone.                   *)

has_primary_work == ~session.closing /\ work

ensure_primary_dial(s, has_work) ==
    IF s.closing \/ s.primary # {} \/ s.primary_dial = "Dialing"
         \/ ~has_work \/ ~has_callis_capacity
    THEN s
    ELSE [s EXCEPT !.primary_dial = "Dialing"]

redial_primary_never(s, has_work) == [s EXCEPT !.primary_dial = "Idle"]

\* dial_failed_primary and primary_removed: the dial state is cleared, then
\* the need for a dial is looked at again.
redial_primary(s, has_work) ==
    ensure_primary_dial([s EXCEPT !.primary_dial = "Idle"], has_work)

ensure_blob_dial(s, has_callis) ==
    IF s.closing \/ ~primary_active \/ s.dialing_blob
         \/ has_callis \/ ~streams \/ ~has_callis_capacity
    THEN s
    ELSE [s EXCEPT !.dialing_blob = TRUE]

\* dial_failed_blob and blob_removed.
redial_blob(s, has_callis) ==
    ensure_blob_dial([s EXCEPT !.dialing_blob = FALSE], has_callis)

\* update_impaired_since, the epilogue of every iteration of the loop.
update_impaired_since(s, blobs, closing) ==
    [s EXCEPT !.impaired =
        ~s.closing /\ ~closing /\ s.had_primary /\ s.primary = {} /\ blobs = {}]

\* The handler leaves state s: run the epilogue and spawn the dial task that
\* a Dialing set by this handler stands for (launch_primary_dial and
\* schedule_blob_dial; dial_addr is always known outside tests).
Finish(s, launched, blobs, closing) ==
    /\ peer' = update_impaired_since(s, blobs, closing)
    /\ dials' = [k \in Kinds |-> dials[k] + IF k \in launched THEN 1 ELSE 0]

Launched(before, after) ==
    {k \in Kinds : IF k = "Primary"
                   THEN before.primary_dial = "Idle" /\ after.primary_dial = "Dialing"
                   ELSE ~before.dialing_blob /\ after.dialing_blob}

----------------------------------------------------------------------------
(* The state task: one action per PeerStateUpdate.                         *)

Receives(type) == events # <<>> /\ Head(events).type = type /\ events' = Tail(events)

close_new_primary_forgets ==
    /\ Receives("Connected")
    /\ Head(events).id \in Primaries
    /\ peer.closing \/ session.closing
    /\ Finish(peer, {}, pool, session.closing)
    /\ UNCHANGED <<primary_active, session, work, streams, pool, callis, opener,
                   fresh, accepting, asking, closer, doomed>>

\* Connected(Primary) while closing: the new callis is told to close and
\* never becomes visible.
close_new_primary ==
    /\ Receives("Connected")
    /\ LET c == Head(events).id IN
         /\ c \in Primaries
         /\ peer.closing \/ session.closing
         /\ doomed' = doomed \cup ({c} \cap Open)
    /\ Finish(peer, {}, pool, session.closing)
    /\ UNCHANGED <<primary_active, session, work, streams, pool, callis, opener,
                   fresh, accepting, asking, closer>>

\* execute_connected_primary, a session that goes on.
connected_primary ==
    /\ Receives("Connected")
    /\ ~peer.closing /\ ~session.closing
    /\ LET c == Head(events).id IN
         /\ c \in Primaries \ fresh
         /\ Finish([peer EXCEPT !.had_primary = TRUE, !.primary_dial = "Idle",
                                !.primary = @ \cup {c}],
                   {}, pool, session.closing)
    /\ primary_active' = TRUE
    /\ UNCHANGED <<session, work, streams, pool, callis, opener, fresh,
                   accepting, asking, closer, doomed>>

\* The same for a fresh session: execute_fresh_primary_restart_effect drains
\* and closes every older handle, fails the tracked messages (bare responses
\* stay) and every blob stream, before the new handle is added.
connected_fresh_primary ==
    /\ Receives("Connected")
    /\ ~peer.closing /\ ~session.closing
    /\ LET c == Head(events).id IN
         /\ c \in Primaries \cap fresh
         /\ Finish([peer EXCEPT !.had_primary = TRUE, !.primary_dial = "Idle",
                                !.primary = {c}],
                   {}, {}, session.closing)
    /\ primary_active' = TRUE
    /\ doomed' = doomed \cup ((peer.primary \cup pool) \cap Open)
    /\ work' \in {FALSE, work}
    /\ streams' = FALSE
    /\ pool' = {}
    /\ UNCHANGED <<session, callis, opener, fresh, accepting, asking, closer>>

\* execute_connected_blob: only the task's own closing flag is looked at.
\* Both handshakes return blob settings, so the branch without them is dead.
\* A callis that does not resume fails the streams that have begun.
connected_blob ==
    /\ Receives("Connected")
    /\ LET c == Head(events).id IN
         /\ c \in Blobs
         /\ \/ /\ peer.closing
               /\ doomed' = doomed \cup ({c} \cap Open)
               /\ Finish(peer, {}, pool, session.closing)
               /\ UNCHANGED <<streams, pool>>
            \/ /\ ~peer.closing
               /\ pool' = pool \cup {c}
               /\ streams' \in {FALSE, streams}
               /\ Finish([peer EXCEPT !.dialing_blob = FALSE], {}, pool', session.closing)
               /\ UNCHANGED doomed
    /\ UNCHANGED <<primary_active, session, work, callis, opener, fresh,
                   accepting, asking, closer>>

\* execute_dial_failed_primary and execute_dial_failed_blob.
dial_failed ==
    /\ Receives("DialFailed")
    /\ LET k == Head(events).kind
           idle == IF k = "Primary" THEN [peer EXCEPT !.primary_dial = "Idle"]
                   ELSE [peer EXCEPT !.dialing_blob = FALSE]
           s == IF k = "Primary" THEN redial_primary(peer, has_primary_work)
                ELSE redial_blob(peer, pool # {})
       IN  Finish(s, Launched(idle, s), pool, session.closing)
    /\ UNCHANGED <<primary_active, session, work, streams, pool, callis, opener,
                   fresh, accepting, asking, closer, doomed>>

\* execute_after_primary_removed on the handles that are left.
after_primary_removed(left, allow_new_dial) ==
    LET idle == [peer EXCEPT !.primary = left, !.primary_dial = "Idle"]
        s == redial_primary(idle, allow_new_dial /\ has_primary_work)
    IN  /\ primary_active' = (left # {})
        /\ Finish(s, Launched(idle, s), pool, session.closing)

\* execute_primary_closed: also for a callis the task no longer knows.
primary_closed ==
    /\ Receives("ConnectionClosed")
    /\ Head(events).id \in Primaries
    /\ after_primary_removed(peer.primary \ {Head(events).id}, ~peer.closing)
    /\ UNCHANGED <<session, work, streams, pool, callis, opener, fresh,
                   accepting, asking, closer, doomed>>

\* execute_primary_disconnect with no id: every handle is drained and shut down.
primary_disconnect ==
    /\ Receives("Disconnect")
    /\ Head(events).kind = "Primary"
    /\ after_primary_removed({}, TRUE)
    /\ doomed' = doomed \cup (peer.primary \cap Open)
    /\ UNCHANGED <<session, work, streams, pool, callis, opener, fresh,
                   accepting, asking, closer>>

\* execute_blob_closed, execute_blob_disconnect and execute_after_blob_removed.
blob_removed(left) ==
    LET s == redial_blob(peer, left # {})
    IN  /\ pool' = left
        /\ Finish(s, Launched([peer EXCEPT !.dialing_blob = FALSE], s),
                  left, session.closing)

blob_closed ==
    /\ Receives("ConnectionClosed")
    /\ Head(events).id \in Blobs
    /\ blob_removed(pool \ {Head(events).id})
    /\ UNCHANGED <<primary_active, session, work, streams, callis, opener, fresh,
                   accepting, asking, closer, doomed>>

blob_disconnect ==
    /\ Receives("Disconnect")
    /\ Head(events).kind = "Blob"
    /\ blob_removed({})
    /\ doomed' = doomed \cup (pool \cap Open)
    /\ UNCHANGED <<primary_active, session, work, streams, callis, opener, fresh,
                   accepting, asking, closer>>

\* execute_ensure_primary_dial and execute_ensure_blob_dial.
ensure_dial ==
    /\ \/ Receives("EnsurePrimaryDial")
       \/ Receives("EnsureBlobDial")
    /\ LET s == IF Head(events).type = "EnsurePrimaryDial"
                THEN ensure_primary_dial(peer, has_primary_work)
                ELSE ensure_blob_dial(peer, pool # {})
       IN  Finish(s, Launched(peer, s), pool, session.closing)
    /\ UNCHANGED <<primary_active, session, work, streams, pool, callis, opener,
                   fresh, accepting, asking, closer, doomed>>

\* execute_graceful_close: enter closing once, latch the store's shutdown and
\* hand the handles of the moment to the peer shutdown task.
execute_graceful_close ==
    /\ Receives("GracefulClose")
    /\ IF peer.closing
       THEN /\ Finish(peer, {}, pool, session.closing)
            /\ UNCHANGED <<session, work, closer>>
       ELSE /\ Finish([peer EXCEPT !.closing = TRUE, !.primary_dial = "Idle",
                                   !.dialing_blob = FALSE], {}, pool, TRUE)
            /\ session' = [session EXCEPT !.closing = TRUE]
            /\ work' \in {FALSE, work}
            /\ closer' = [closer EXCEPT !.task = "draining", !.handles = peer.primary]
    /\ UNCHANGED <<primary_active, streams, pool, callis, opener, fresh,
                   accepting, asking, doomed>>

\* The impaired deadline has passed: teardown_peer_handle if the conditions
\* still hold, and the epilogue either way.
impaired_deadline ==
    /\ peer.impaired
    /\ IF ~peer.closing /\ ~session.closing /\ peer.primary = {} /\ pool = {}
       THEN /\ Finish([peer EXCEPT !.closing = TRUE, !.primary_dial = "Idle",
                                   !.dialing_blob = FALSE, !.primary = {}],
                      {}, {}, TRUE)
            /\ session' = [session EXCEPT !.closing = TRUE]
            /\ work' \in {FALSE, work}
            /\ primary_active' = FALSE
            /\ streams' = FALSE
            /\ doomed' = doomed \cup ((peer.primary \cup pool) \cap Open)
            /\ pool' = {}
       ELSE /\ Finish(peer, {}, pool, session.closing)
            /\ UNCHANGED <<session, work, primary_active, streams, doomed, pool>>
    /\ UNCHANGED <<callis, opener, fresh, accepting, events, asking, closer>>

----------------------------------------------------------------------------
(* Dial tasks, inbound handshakes and callis tasks.                        *)

Spawn(c, by) ==
    /\ callis[c] = "unused" /\ c \in workload.ids
    /\ callis' = [callis EXCEPT ![c] = "open"]
    /\ opener' = [opener EXCEPT ![c] = by]

DialDone(k) == dials[k] > 0 /\ dials' = [dials EXCEPT ![k] = @ - 1]

\* establish_outbound_primary.  A peer that does not echo RECONNECT has lost
\* the session, unless a primary is active (then this is the second callis of
\* a simultaneous dial).
dial_connects_primary(c) ==
    /\ c \in Primaries /\ DialDone("Primary")
    /\ \/ /\ UNCHANGED <<fresh, work>>
       \/ /\ session.active /\ ~primary_active
          /\ fresh' = fresh \cup {c}
          /\ work' \in {FALSE, work}
    /\ session' = [session EXCEPT !.active = TRUE]
    /\ Spawn(c, "dial")
    /\ UNCHANGED <<peer, primary_active, streams, pool, accepting, events,
                   asking, closer, doomed>>

\* establish_outbound_blob.
dial_connects_blob(c) ==
    /\ c \in Blobs /\ DialDone("Blob")
    /\ Spawn(c, "dial")
    /\ UNCHANGED <<peer, primary_active, session, work, streams, pool, fresh,
                   accepting, events, asking, closer, doomed>>

dial_connects(c) == dial_connects_primary(c) \/ dial_connects_blob(c)

dial_fails_silently(k) ==
    /\ DialDone(k) /\ HasRoom
    /\ UNCHANGED <<peer, primary_active, session, work, streams, pool, callis,
                   opener, fresh, accepting, events, asking, closer, doomed>>

\* Dialling, authentication or the handshake failed or timed out.
dial_fails(k) ==
    /\ DialDone(k) /\ HasRoom
    /\ events' = Append(events, [type |-> "DialFailed", kind |-> k])
    /\ UNCHANGED <<peer, primary_active, session, work, streams, pool, callis,
                   opener, fresh, accepting, asking, closer, doomed>>

\* PeerHandle::inbound and accept_inbound up to the checks: a permit of the
\* HandshakeGate, which is held until the callis is announced, the callis
\* limit, and for a blob callis an active primary.  peer_handle_for gives a
\* new connection to another handle once the session is closing.
Permits ==
    accepting["Primary"] + accepting["Blob"]
        + Cardinality({c \in Ids : opener[c] = "inbound"})

accept_inbound(k) ==
    /\ ~session.closing
    /\ Permits < HandshakeLimit
    /\ has_callis_capacity
    /\ k = "Blob" => primary_active
    /\ accepting' = [accepting EXCEPT ![k] = @ + 1]
    /\ UNCHANGED <<peer, primary_active, session, work, streams, pool, callis,
                   opener, fresh, dials, events, asking, closer, doomed>>

AcceptDone(k) == accepting[k] > 0 /\ accepting' = [accepting EXCEPT ![k] = @ - 1]

\* The hello response has been written: accept_inbound_primary spawns the
\* callis.  accept_hello fails retained messages only for an active session,
\* which accept_inbound_primary never passes it without RECONNECT.
accept_opens_primary(c) ==
    /\ c \in Primaries /\ AcceptDone("Primary")
    /\ session' = [session EXCEPT !.active = TRUE]
    /\ Spawn(c, "inbound")
    /\ UNCHANGED <<peer, primary_active, work, streams, pool, fresh, dials,
                   events, asking, closer, doomed>>

\* accept_inbound_blob.
accept_opens_blob(c) ==
    /\ c \in Blobs /\ AcceptDone("Blob")
    /\ Spawn(c, "inbound")
    /\ UNCHANGED <<peer, primary_active, session, work, streams, pool, fresh,
                   dials, events, asking, closer, doomed>>

accept_opens(c) == accept_opens_primary(c) \/ accept_opens_blob(c)

accept_fails(k) ==
    /\ AcceptDone(k)
    /\ UNCHANGED <<peer, primary_active, session, work, streams, pool, callis,
                   opener, fresh, dials, events, asking, closer, doomed>>

\* The opener sends Connected, after the callis task has been running.
announce(c) ==
    /\ opener[c] # "none" /\ HasRoom
    /\ opener' = [opener EXCEPT ![c] = "none"]
    /\ events' = Append(events, [type |-> "Connected", id |-> c])
    /\ UNCHANGED <<peer, primary_active, session, work, streams, pool, callis,
                   fresh, dials, accepting, asking, closer, doomed>>

\* Reader and writer have finished; the callis leaves the count.
callis_ends(c) ==
    /\ callis[c] = "open"
    /\ EarlyClose \/ opener[c] = "none"
    /\ callis' = [callis EXCEPT ![c] = "ended"]
    /\ doomed' = doomed \ {c}
    /\ UNCHANGED <<peer, primary_active, session, work, streams, pool, opener,
                   fresh, dials, accepting, events, asking, closer>>

report_closed_drops(c) ==
    /\ callis[c] = "ended"
    /\ callis' = [callis EXCEPT ![c] = "closed"]
    /\ try_signal_ensure([type |-> "ConnectionClosed", id |-> c])
    /\ UNCHANGED <<peer, primary_active, session, work, streams, pool, opener,
                   fresh, dials, accepting, asking, closer, doomed>>

\* The callis task sends ConnectionClosed, waiting for room.
report_closed(c) ==
    /\ callis[c] = "ended" /\ HasRoom
    /\ callis' = [callis EXCEPT ![c] = "closed"]
    /\ events' = Append(events, [type |-> "ConnectionClosed", id |-> c])
    /\ UNCHANGED <<peer, primary_active, session, work, streams, pool, opener,
                   fresh, dials, accepting, asking, closer, doomed>>

\* The reader of c meets a CLOSE frame: PeerSession::handle_close fails the
\* tracked messages, and the reader stops.
remote_close(c) ==
    /\ c \in Open
    /\ session' = [session EXCEPT !.closing = TRUE]
    /\ work' \in {FALSE, work}
    /\ doomed' = doomed \cup {c}
    /\ UNCHANGED <<peer, primary_active, streams, pool, callis, opener,
                   fresh, dials, accepting, events, asking, closer>>

----------------------------------------------------------------------------
(* Senders, receivers, blob streams and graceful close.                    *)

\* PeerHandle::send: create_outgoing retains the message, then the signal.
send ==
    /\ workload.retains
    /\ ~session.closing /\ "send" \notin asking
    /\ work' = TRUE
    /\ asking' = asking \cup {"send"}
    /\ UNCHANGED <<peer, primary_active, session, streams, pool, callis, opener,
                   fresh, dials, accepting, events, closer, doomed>>

signal_send ==
    /\ "send" \in asking
    /\ asking' = asking \ {"send"}
    /\ try_signal_ensure([type |-> "EnsurePrimaryDial"])
    /\ UNCHANGED <<peer, primary_active, session, work, streams, pool, callis,
                   opener, fresh, dials, accepting, closer, doomed>>

\* A reader retains an ACK or ERROR response: nothing is signalled.
respond(c) ==
    /\ c \in Open \cap Primaries /\ workload.retains
    /\ closer.task = "none" /\ ~work
    /\ work' = TRUE
    /\ UNCHANGED <<peer, primary_active, session, streams, pool, callis, opener,
                   fresh, dials, accepting, events, asking, closer, doomed>>

\* The last retained item is acknowledged, fails, or expires.
retained_emptied ==
    /\ work
    /\ work' = FALSE
    /\ UNCHANGED <<peer, primary_active, session, streams, pool, callis, opener,
                   fresh, dials, accepting, events, asking, closer, doomed>>

\* handle_blob_request records a pending request; when it is accepted and no
\* blob callis exists, drain_blob_accept_waiter signals.  (A behaviour with
\* no blob ids has no blob traffic.)
blob_request ==
    /\ Open \cap Primaries # {} /\ Blobs \cap workload.ids # {}
    /\ "blob" \notin asking
    /\ streams' = TRUE
    /\ asking' = asking \cup {"blob"}
    /\ UNCHANGED <<peer, primary_active, session, work, pool, callis, opener,
                   fresh, dials, accepting, events, closer, doomed>>

signal_blob ==
    /\ "blob" \in asking
    /\ asking' = asking \ {"blob"}
    /\ IF pool = {} THEN try_signal_ensure([type |-> "EnsureBlobDial"])
       ELSE UNCHANGED events
    /\ UNCHANGED <<peer, primary_active, session, work, streams, pool, callis,
                   opener, fresh, dials, accepting, closer, doomed>>

\* send_blob: ensure_blob_callis has selected a callis; the stream is
\* registered in a later step.
select_callis ==
    /\ pool # {} /\ ~session.closing /\ "register" \notin asking
    /\ asking' = asking \cup {"register"}
    /\ UNCHANGED <<peer, primary_active, session, work, streams, pool, callis,
                   opener, fresh, dials, accepting, events, closer, doomed>>

register_outbound_stream ==
    /\ "register" \in asking
    /\ asking' = asking \ {"register"}
    /\ streams' = TRUE
    /\ UNCHANGED <<peer, primary_active, session, work, pool, callis, opener,
                   fresh, dials, accepting, events, closer, doomed>>

\* The last stream completes, fails or is dropped.
streams_end ==
    /\ streams
    /\ streams' = FALSE
    /\ UNCHANGED <<peer, primary_active, session, work, pool, callis, opener,
                   fresh, dials, accepting, events, asking, closer, doomed>>

\* PeerHandle::graceful_close: begin_close, then the event.
graceful_close ==
    /\ closer.call = "none"
    /\ closer' = [closer EXCEPT !.call = "begun"]
    /\ session' = [session EXCEPT !.closing = TRUE]
    /\ UNCHANGED <<peer, primary_active, work, streams, pool, callis, opener,
                   fresh, dials, accepting, events, asking, doomed>>

graceful_close_sends ==
    /\ closer.call = "begun" /\ HasRoom
    /\ closer' = [closer EXCEPT !.call = "sent"]
    /\ events' = Append(events, [type |-> "GracefulClose"])
    /\ UNCHANGED <<peer, primary_active, session, work, streams, pool, callis,
                   opener, fresh, dials, accepting, asking, doomed>>

shutdown_task_forgets_blobs ==
    /\ closer.task = "draining"
    /\ closer' = [closer EXCEPT !.task = "done", !.handles = {}]
    /\ work' = FALSE
    /\ doomed' = doomed \cup (closer.handles \cap Open)
    /\ streams' = FALSE
    /\ pool' = {}
    /\ UNCHANGED <<peer, primary_active, session, callis, opener, fresh, dials,
                   accepting, events, asking>>

\* The peer shutdown task: the responses have drained, or the deadline has
\* passed and they are dropped; the handles it was given are closed, the blob
\* streams fail and the blob pool is drained.
shutdown_task ==
    /\ closer.task = "draining"
    /\ closer' = [closer EXCEPT !.task = "done", !.handles = {}]
    /\ work' = FALSE
    /\ doomed' = doomed \cup ((closer.handles \cup pool) \cap Open)
    /\ streams' = FALSE
    /\ pool' = {}
    /\ UNCHANGED <<peer, primary_active, session, callis, opener, fresh, dials,
                   accepting, events, asking>>

\* disconnect and disconnect_blob, used by test harnesses on a connection they
\* have made.
disconnect(k) ==
    /\ workload.disconnects /\ HasRoom
    /\ IF k = "Primary" THEN peer.primary # {} ELSE pool # {}
    /\ ~\E i \in DOMAIN events : events[i].type = "Disconnect"
    /\ events' = Append(events, [type |-> "Disconnect", kind |-> k])
    /\ UNCHANGED <<peer, primary_active, session, work, streams, pool, callis,
                   opener, fresh, dials, accepting, asking, closer, doomed>>

----------------------------------------------------------------------------
StateTask ==
    \/ close_new_primary \/ connected_primary \/ connected_fresh_primary
    \/ connected_blob \/ dial_failed \/ primary_closed \/ primary_disconnect
    \/ blob_closed \/ blob_disconnect \/ ensure_dial \/ execute_graceful_close

Callers ==
    \/ send \/ retained_emptied \/ blob_request \/ select_callis
    \/ streams_end \/ graceful_close
    \/ \E c \in Ids : respond(c) \/ remote_close(c)
    \/ \E k \in Kinds : accept_inbound(k) \/ disconnect(k)

Signals ==
    signal_send \/ signal_blob \/ register_outbound_stream \/ graceful_close_sends

Next ==
    /\ \/ StateTask \/ impaired_deadline \/ Callers \/ Signals \/ shutdown_task
       \/ \E k \in Kinds : dial_fails(k) \/ accept_fails(k)
       \/ \E c \in Ids : \/ dial_connects(c) \/ accept_opens(c) \/ announce(c)
                         \/ callis_ends(c) \/ report_closed(c)
    /\ UNCHANGED workload

Spec == Init /\ [][Next]_<<vars, workload>>

\* The fairness the runtime gives: tasks that can run do.  The state task
\* empties its channel, openers announce, ended callis report, a callis that
\* was told to close ends, a dial task and an inbound handshake finish (both
\* have a deadline), a caller that has begun goes on, and so does the peer
\* shutdown task.  Waiting senders of the bounded channel are served in
\* order, so one that waits for room gets it: strong fairness.  Users, the
\* remote peer and the impaired timer owe nothing.
FairSpec ==
    /\ Spec
    /\ WF_vars(StateTask)
    /\ SF_vars(Signals)
    /\ WF_vars(shutdown_task)
    /\ \A k \in Kinds :
         /\ SF_vars(dial_fails(k) \/ \E c \in IdsOf(k) : dial_connects(c))
         /\ WF_vars(accept_fails(k) \/ \E c \in IdsOf(k) : accept_opens(c))
    /\ \A c \in Ids :
         SF_vars(announce(c) \/ (c \in doomed /\ callis_ends(c)) \/ report_closed(c))

----------------------------------------------------------------------------
(* Properties.                                                             *)

Queued(type) == {events[i] : i \in {j \in DOMAIN events : events[j].type = type}}

QueuedIds(type) == {e.id : e \in Queued(type)}

QueuedKinds(type) == {e.kind : e \in Queued(type)}

\* Callis that are open or have been, and that the task has not met yet.
Unannounced == {c \in Ids : opener[c] # "none"} \cup QueuedIds("Connected")

Ended == {c \in Ids : callis[c] = "ended"}

\* Every variable has its type; the channel never holds more than its
\* capacity and the handshake gate never hands out more than its permits.
TypeOK ==
    /\ peer \in PeerStates
    /\ primary_active \in BOOLEAN
    /\ session \in [active : BOOLEAN, closing : BOOLEAN]
    /\ work \in BOOLEAN /\ streams \in BOOLEAN
    /\ pool \subseteq Blobs
    /\ callis \in [Ids -> {"unused", "open", "ended", "closed"}]
    /\ opener \in [Ids -> {"none", "dial", "inbound"}]
    /\ fresh \subseteq Primaries
    /\ dials \in [Kinds -> Nat]
    /\ accepting \in [Kinds -> Nat] /\ Permits <= HandshakeLimit
    /\ events \in Seq(Events) /\ Len(events) <= EventCapacity
    /\ asking \subseteq {"send", "blob", "register"}
    /\ closer \in [call : {"none", "begun", "sent"},
                   task : {"none", "draining", "done"}, handles : SUBSET Primaries]
    /\ doomed \subseteq Open

\* "If no active primary exists, the peer state task schedules primary dial
\* when retained work is present and capacity allows": while something is
\* retained there is a primary callis to carry it, a dial in flight, or an
\* event on its way that makes the task look again.
RetainedWorkHasDialer ==
    work /\ ~peer.closing /\ ~session.closing /\ has_callis_capacity =>
        \/ (Open \cup Ended) \cap Primaries # {}
        \/ dials["Primary"] > 0
        \/ "send" \in asking
        \/ Queued("EnsurePrimaryDial") # {}
        \/ "Primary" \in QueuedKinds("DialFailed") \cup QueuedKinds("Disconnect")
        \/ QueuedIds("ConnectionClosed") \cap Primaries # {}

\* A handle the task counts as active belongs to a callis that runs, or whose
\* end is about to be reported: a dead handle would suppress every dial.
DeadHandleReported ==
    /\ TypeOK
    /\ \A c \in peer.primary \cup pool :
         c \in Open \cup Ended \cup QueuedIds("ConnectionClosed")

\* Dialing and dialing_blob suppress further dials, so each must stand for a
\* task that still owes the state task an answer.
DialFlagHasTask ==
    /\ peer.primary_dial = "Dialing" /\ ~session.closing =>
         \/ dials["Primary"] > 0
         \/ "Primary" \in QueuedKinds("DialFailed")
         \/ Unannounced \cap Primaries # {}
    /\ peer.dialing_blob =>
         \/ dials["Blob"] > 0
         \/ "Blob" \in QueuedKinds("DialFailed")
         \/ Unannounced \cap Blobs # {}

\* No connection is forgotten: an open callis is one the task knows, one it
\* will be told of, or one that has been told to close.  Once the peer is
\* closing, knowing it is not enough: the shutdown task must hold it.
NoOrphanCallis ==
    \A c \in Open :
        \/ c \in doomed \cup Unannounced
        \/ ~peer.closing /\ c \in peer.primary \cup pool
        \/ closer.task = "draining" /\ c \in closer.handles \cup pool

\* Teardown and graceful close end: every callis of a closing peer closes.
ClosingEnds == peer.closing ~> Open = {}
=============================================================================
