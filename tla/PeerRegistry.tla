---------------------------- MODULE PeerRegistry ----------------------------
(***************************************************************************)
(* The transport of a domus (transport/mod.rs, listener.rs): the map from  *)
(* peer addresses to peer handles, the way of an authenticated stream and  *)
(* of a send to a handle, and Transport::shutdown.                         *)
(*                                                                         *)
(* A handle is its state task, its closing flag and what it was told;      *)
(* PeerState has the task in full.  Its event channel is left out here: the*)
(* task takes a callis that was opened at any later time.                  *)
(***************************************************************************)
EXTENDS ConnectBack

CONSTANTS
    MaxHandles,        \* bound: handles a behaviour creates
    HandshakePerPeer,  \* inbound_handshake_limit_per_peer
    Foreign            \* an address of the other transport kind

ASSUME RegistryAssumption ==
    /\ MaxHandles \in Nat \ {0}
    /\ HandshakePerPeer \in Nat \ {0}
    /\ Foreign \notin Peers

VARIABLES
    handles,    \* the handles created so far
    peers,      \* the map, as a function on Peers; NoHandle: no entry
    shutdown    \* Transport::shutdown: its phase and the handles it holds

registry == <<handles, peers, shutdown>>

Handles == DOMAIN handles

RegistryInit ==
    /\ handles = <<>>
    /\ peers = [p \in Peers |-> NoHandle]
    /\ shutdown = [phase |-> "none", held |-> {}, left |-> {}]

\* The watch channels: listener_shutdown_tx and shutdown_tx.
listener_shutdown == shutdown.phase # "none"
shutdown_tx == shutdown.phase \in {"signalled", "done"}

\* What a step of one link leaves alone.
Settled == <<workload, called, inflight, accepted, listener, pending, reply, abandoned>>

----------------------------------------------------------------------------
(* peer_handle_for.  A handle subscribes to shutdown_tx when it is made: a  *)
(* value that was sent before is not a change to it ("deaf").               *)

NewHandle(p) ==
    [peer |-> p, closing |-> FALSE, task |-> "running", deaf |-> shutdown_tx,
     told |-> FALSE, handshakes |-> 0, had_primary |-> FALSE, grace |-> "none"]

peer_handle_for_always_new(p, l, at) ==
    /\ Len(handles) < MaxHandles
    /\ handles' = Append(handles, NewHandle(p))
    /\ peers' = [peers EXCEPT ![p] = Len(handles) + 1]
    /\ link' = [link EXCEPT ![l].at = at, ![l].handle = Len(handles) + 1]

peer_handle_for(p, l, at) ==
    LET h     == peers[p]
        reuse == h # NoHandle /\ ~handles[h].closing
    IN  /\ reuse \/ Len(handles) < MaxHandles
        /\ handles' = IF reuse THEN handles ELSE Append(handles, NewHandle(p))
        /\ peers' = [peers EXCEPT ![p] = IF reuse THEN h ELSE Len(handles) + 1]
        /\ link' = [link EXCEPT ![l].at = at,
                                ![l].handle = IF reuse THEN h ELSE Len(handles) + 1]

\* The task the listener spawned for an authenticated stream.
peer_handle_inbound(c) ==
    /\ At(c) = "accepted"
    /\ peer_handle_for(link[c].peer, c, "handed")
    /\ UNCHANGED Settled /\ UNCHANGED shutdown /\ UNCHANGED reporting

\* send_remote: shutdown_tx is looked at before the map is locked.
send_remote(d, p) ==
    /\ Fresh(d, Dials) /\ workload.dials > 0
    /\ workload' = [workload EXCEPT !.dials = @ - 1]
    /\ link' = [link EXCEPT ![d].at = IF shutdown_tx THEN "failed" ELSE "checked",
                            ![d].peer = p]
    /\ UNCHANGED <<called, inflight, accepted, listener, pending, reply, abandoned>>
    /\ UNCHANGED registry /\ UNCHANGED reporting

\* ensure_peer_addr_kind, or the map.  EnsurePrimaryDial follows: the task of
\* the handle starts a dial, and reports the attempt, if it needs one.
peer_handle(d) ==
    /\ At(d) = "checked"
    /\ IF link[d].peer = Foreign
       THEN Move(d, "failed") /\ UNCHANGED <<handles, peers>> /\ emit(<<Plain("Error")>>)
       ELSE peer_handle_for(link[d].peer, d, "asked") /\ UNCHANGED reporting
    /\ UNCHANGED Settled /\ UNCHANGED shutdown

\* PrimaryDialState::Dialing, or a primary callis the task has.
Dialing(h) == \E d \in Dials : link[d].handle = h
                 /\ At(d) \in {"dialing", "registered", "waiting", "challenged", "setup", "open"}

\* The callis in state.primary and in the blob pool.  A callis that ended
\* before the task took it is never taken out of state.primary ("zombie").
Held(h) == {l \in Links : link[l].handle = h /\ At(l) \in {"adopted", "zombie"}}

HasPrimary(h) == \E l \in Held(h) : link[l].kind = "Primary"

launch_primary_dial(d) ==
    LET h == link[d].handle
    IN  /\ At(d) = "asked"
        /\ IF handles[h].task = "ended" \/ handles[h].closing \/ Dialing(h) \/ HasPrimary(h)
           THEN Move(d, "served") /\ UNCHANGED reporting
           ELSE Move(d, "dialing") /\ emit(<<Plain("DialAttempt")>>)
        /\ UNCHANGED Settled /\ UNCHANGED registry

----------------------------------------------------------------------------
(* From an authenticated stream to a callis of a handle.                    *)

\* PeerHandle::inbound and HandshakeGate::try_acquire.
inbound(c) ==
    LET h == link[c].handle
    IN  /\ At(c) = "handed"
        /\ Move(c, IF handles[h].handshakes + 1 > HandshakePerPeer
                   THEN "excess" ELSE "hello")
        /\ handles' = [handles EXCEPT ![h].handshakes = @ + 1]
        /\ UNCHANGED Settled /\ UNCHANGED <<peers, shutdown>> /\ UNCHANGED reporting

\* The handshake is over, one way or another: the permit is dropped.
LeaveGate(c, at) ==
    /\ Move(c, at)
    /\ handles' = [handles EXCEPT ![link[c].handle].handshakes = @ - 1]

turn_away_excess(c) ==
    /\ At(c) = "excess"
    /\ LeaveGate(c, "closed")
    /\ UNCHANGED Settled /\ UNCHANGED <<peers, shutdown>> /\ UNCHANGED reporting

\* accept_inbound: the wait for the hello, which the end of the listener cuts.
read_hello(c) ==
    /\ At(c) = "hello" /\ ~listener_shutdown
    /\ Move(c, "setup")
    /\ UNCHANGED Settled /\ UNCHANGED registry /\ UNCHANGED reporting

hello_cut(c) ==
    /\ At(c) = "hello" /\ listener_shutdown
    /\ LeaveGate(c, "closed")
    /\ UNCHANGED Settled /\ UNCHANGED <<peers, shutdown>> /\ UNCHANGED reporting

\* A protocol violation or a timeout is reported, other errors are not; for a
\* dial, its failure is.
handshake_fails(l, reported) ==
    LET error == IF reported THEN <<Plain("Error")>> ELSE <<>>
    IN  /\ At(l) \in {"hello", "setup"}
        /\ IF l \in Conns THEN LeaveGate(l, "closed") /\ emit(error)
           ELSE Move(l, "failed") /\ emit(<<Plain("DialFailed")>> \o error)
                /\ UNCHANGED handles
        /\ UNCHANGED Settled /\ UNCHANGED <<peers, shutdown>>

\* The stream of a dial is from another address than the one dialled.
identity_mismatch(d) ==
    /\ At(d) = "setup"
    /\ Move(d, "failed")
    /\ emit(<<Plain("Error"), Plain("DialFailed")>>)
    /\ UNCHANGED Settled /\ UNCHANGED registry

\* spawn_callis_handle: the callis is open, and Connected is on its way.  A
\* dial here is for a primary callis; a blob callis needs a primary.
establish(l, kind) ==
    LET h == link[l].handle
    IN  /\ At(l) = "setup" /\ kind \in workload.kinds
        /\ kind = "Blob" => l \in Conns /\ HasPrimary(h)
        /\ link' = [link EXCEPT ![l].at = "open", ![l].kind = kind]
        /\ handles' = IF l \in Conns THEN [handles EXCEPT ![h].handshakes = @ - 1]
                                     ELSE handles
        /\ UNCHANGED Settled /\ UNCHANGED <<peers, shutdown>> /\ UNCHANGED reporting

\* The task no longer has the callis; it is told to close if it is not dead.
LetGo(l) == [link[l] EXCEPT !.at = IF @ = "adopted" THEN "rejected" ELSE "closed"]

Report(type, l) ==
    [type |-> type, peer |-> link[l].peer, kind |-> link[l].kind]

\* The state task takes the callis, or closes it when the handle is closing; a
\* blob callis it still takes when graceful_close has not reached the task.  A
\* fresh primary means the peer restarted: everything held is let go first.
connected(l, fresh) ==
    LET h       == link[l].handle
        primary == link[l].kind = "Primary"
        closing == handles[h].closing /\ (primary \/ handles[h].grace # "told")
        gone    == IF fresh /\ primary THEN Held(h) ELSE {}
        order   == CHOOSE s \in [1..Cardinality(gone) -> gone] : Range(s) = gone
        reports == [i \in DOMAIN order |-> Report("Disconnected", order[i])]
    IN  /\ At(l) \in {"open", "early"} /\ handles[h].task = "running"
        /\ IF closing
           THEN /\ Move(l, IF At(l) = "open" THEN "rejected" ELSE "closed")
                /\ UNCHANGED handles /\ UNCHANGED reporting
           ELSE /\ link' = [x \in Links |->
                              IF x = l
                              THEN [link[l] EXCEPT !.at = IF @ = "open" THEN "adopted" ELSE "zombie"]
                              ELSE IF x \in gone THEN LetGo(x) ELSE link[x]]
                /\ handles' = [handles EXCEPT ![h].had_primary = @ \/ primary]
                /\ emit(Append(reports, Report("Connected", l)))
        /\ UNCHANGED Settled /\ UNCHANGED <<peers, shutdown>>

\* A callis ends before its opener has sent Connected.
closes_early(l) ==
    /\ At(l) = "open" /\ handles[link[l].handle].task = "running"
    /\ Move(l, "early")
    /\ UNCHANGED Settled /\ UNCHANGED registry /\ UNCHANGED reporting

closes_unreported(l) ==
    /\ At(l) \in {"adopted", "rejected"}
    /\ Move(l, "closed")
    /\ UNCHANGED Settled /\ UNCHANGED registry /\ UNCHANGED reporting

\* A callis ends; if the state task still runs and still has it, that is reported.
connection_closed(l) ==
    LET running == handles[link[l].handle].task = "running"
    IN  /\ At(l) \in {"adopted", "rejected"} \/ (At(l) = "open" /\ ~running)
        /\ Move(l, "closed")
        /\ IF At(l) = "adopted" /\ running
           THEN emit(<<Report("Disconnected", l)>>)
           ELSE UNCHANGED reporting
        /\ UNCHANGED Settled /\ UNCHANGED registry

\* The reconnect window of a handle that had a primary and has no callis is over.
teardown_peer_handle(h) ==
    /\ handles[h].task = "running" /\ ~handles[h].closing
    /\ handles[h].had_primary /\ Held(h) = {}
    /\ handles' = [handles EXCEPT ![h].closing = TRUE]
    /\ UNCHANGED <<peers, shutdown>> /\ UNCHANGED connecting /\ UNCHANGED reporting

\* The state task ends: it sees shutdown_tx change, or it is told.
state_task_ends(h) ==
    /\ handles[h].task = "running"
    /\ handles[h].told \/ (shutdown_tx /\ ~handles[h].deaf)
    /\ handles' = [handles EXCEPT ![h].task = "ended"]
    /\ UNCHANGED <<peers, shutdown>> /\ UNCHANGED connecting /\ UNCHANGED reporting

\* The last reference to a replaced handle is dropped, and with it the task set:
\* every task of the handle is aborted, a dial between two of its steps too, which
\* its peer may still call back.
Aborted(l) == [link[l] EXCEPT !.at = IF @ \in {"registered", "waiting"} THEN "failed" ELSE "closed"]

drop_handle(h) ==
    LET tasks == {l \in Links : link[l].handle = h
                     /\ At(l) \notin {"served", "failed", "unreached", "closed"}}
    IN  /\ handles[h].task = "running"
        /\ h \notin Range(peers) /\ h \notin shutdown.held
        /\ \A l \in tasks : At(l) \notin {"handed", "excess", "asked"}
        /\ handles' = [handles EXCEPT ![h].task = "ended"]
        /\ link' = [l \in Links |-> IF l \in tasks THEN Aborted(l) ELSE link[l]]
        /\ abandoned' = abandoned \cup (pending \cap tasks)
        /\ UNCHANGED <<workload, called, inflight, accepted, listener, pending, reply>>
        /\ UNCHANGED <<peers, shutdown>> /\ UNCHANGED reporting

----------------------------------------------------------------------------
(* Transport::shutdown.                                                     *)

Advance(phase) == shutdown' = [shutdown EXCEPT !.phase = phase]

stop_listener ==
    /\ shutdown.phase = "none" /\ workload.stops
    /\ Advance("stopping")
    /\ emit(<<Plain("Event")>>)
    /\ UNCHANGED connecting /\ UNCHANGED <<handles, peers>>

\* run_listener sees the change of either channel.
listener_stops ==
    /\ listener = "running" /\ listener_shutdown
    /\ listener' = "stopped"
    /\ UNCHANGED <<workload, link, called, inflight, accepted, pending, reply, abandoned>>
    /\ UNCHANGED registry /\ UNCHANGED reporting

snapshot_peers ==
    /\ shutdown.phase = "stopping"
    /\ LET held == {peers[p] : p \in Peers} \ {NoHandle}
       IN  shutdown' = [phase |-> "closing", held |-> held, left |-> held]
    /\ UNCHANGED connecting /\ UNCHANGED <<handles, peers>> /\ UNCHANGED reporting

\* graceful_close sets the flag of the session before it tells the task, which
\* does nothing if the handle was torn down before.
graceful_close(h) ==
    /\ shutdown.phase = "closing" /\ h \in shutdown.left
    /\ handles' = [handles EXCEPT ![h].closing = TRUE,
                                    ![h].grace = IF handles[h].closing THEN @ ELSE "told"]
    /\ shutdown' = [shutdown EXCEPT !.left = @ \ {h}]
    /\ UNCHANGED connecting /\ UNCHANGED peers /\ UNCHANGED reporting

\* The state task handles GracefulClose.
execute_graceful_close(h) ==
    /\ handles[h].task = "running" /\ handles[h].grace = "told"
    /\ handles' = [handles EXCEPT ![h].grace = "begun"]
    /\ UNCHANGED <<peers, shutdown>> /\ UNCHANGED connecting /\ UNCHANGED reporting

\* The task that graceful close spawned empties the blob pool: the end of those
\* callis is not reported any more.
drain_blobs(h) ==
    /\ handles[h].task = "running" /\ handles[h].grace = "begun"
    /\ handles' = [handles EXCEPT ![h].grace = "drained"]
    /\ link' = [l \in Links |->
                   IF l \in Held(h) /\ link[l].kind = "Blob" THEN LetGo(l) ELSE link[l]]
    /\ UNCHANGED Settled /\ UNCHANGED <<peers, shutdown>> /\ UNCHANGED reporting

OpenOn(h) == {l \in Links : link[l].handle = h
                               /\ At(l) \in {"open", "adopted", "rejected"}}

wait_without_timeout ==
    /\ shutdown.phase = "closing" /\ shutdown.left = {}
    /\ \A h \in shutdown.held : OpenOn(h) = {}
    /\ Advance("signalled")
    /\ UNCHANGED connecting /\ UNCHANGED <<handles, peers>> /\ UNCHANGED reporting

\* wait_for_callis_zero of every handle held: the callis are gone, or the
\* timeout is over.
wait_for_callis_zero ==
    /\ shutdown.phase = "closing" /\ shutdown.left = {}
    /\ Advance("signalled")
    /\ UNCHANGED connecting /\ UNCHANGED <<handles, peers>> /\ UNCHANGED reporting

\* shutdown() of every handle held; Domus::shutdown then reports completion.
stop_peers ==
    /\ shutdown.phase = "signalled"
    /\ handles' = [h \in Handles |->
                      [handles[h] EXCEPT !.told = @ \/ h \in shutdown.held]]
    /\ shutdown' = [shutdown EXCEPT !.phase = "done", !.held = {}]
    /\ listener' = "stopped"
    /\ emit(<<Plain("Event")>>)
    /\ UNCHANGED peers
    /\ UNCHANGED <<workload, link, called, inflight, accepted, pending, reply, abandoned>>
=============================================================================
