-------------------------------- MODULE Domus --------------------------------
(***************************************************************************)
(* A domus: the authentication of its streams (ConnectBack), its transport *)
(* (PeerRegistry) and its observability actor (Observability), with the    *)
(* peers that dial it and call it back, the sends that make it dial, and   *)
(* Domus::shutdown (domus.rs).                                             *)
(***************************************************************************)
EXTENDS PeerRegistry

vars == <<reporting, connecting, registry>>

Init == ReportingInit /\ ConnectBackInit /\ RegistryInit

\* Steps of ConnectBack that emit nothing.
Authenticate ==
    /\ \/ \E c \in Conns :
            \/ \E p \in workload.dialers : peer_connects(c, p)
            \/ \E d \in Dials, p \in workload.peers : peer_calls_back(c, d, p)
            \/ accept_raw(c)
            \/ try_acquire(c)
            \/ turn_away(c)
            \/ handle_auth_init(c)
            \/ handle_callback_message(c)
            \/ authentication_fails(c)
            \/ send_accepted(c)
       \/ \E d \in Dials :
            \/ register_pending_callback(d)
            \/ write_auth_init(d)
            \/ callback_arrives(d)
            \/ prove(d)
    /\ UNCHANGED reporting /\ UNCHANGED registry

\* Steps of ConnectBack that report.
AuthenticateReporting ==
    /\ \/ accept_result
       \/ \E c \in Conns : accept_fails(c)
       \/ \E d \in Dials : callback_timeout(d) \/ cut_short(d)
    /\ UNCHANGED registry

Connect ==
    \/ \E c \in Conns :
         \/ peer_handle_inbound(c)
         \/ inbound(c)
         \/ turn_away_excess(c)
         \/ read_hello(c)
         \/ hello_cut(c)
    \/ \E d \in Dials :
         \/ \E p \in workload.peers \cup {Foreign} : send_remote(d, p)
         \/ peer_handle(d)
         \/ launch_primary_dial(d)
         \/ identity_mismatch(d)
    \/ \E l \in Links :
         \/ \E reported \in BOOLEAN : handshake_fails(l, reported)
         \/ \E kind \in Kinds : establish(l, kind)
         \/ \E fresh \in BOOLEAN : connected(l, fresh)
         \/ closes_early(l)
         \/ connection_closed(l)
    \/ \E h \in Handles :
         \/ teardown_peer_handle(h)
         \/ drop_handle(h)

\* Domus::shutdown and what it sets in motion.
EndTask == \E h \in Handles : state_task_ends(h)

CloseHandle == \E h \in Handles : graceful_close(h)

Shutdown ==
    \/ stop_listener
    \/ listener_stops
    \/ snapshot_peers
    \/ CloseHandle
    \/ \E h \in Handles : execute_graceful_close(h) \/ drain_blobs(h)
    \/ wait_for_callis_zero
    \/ stop_peers
    \/ EndTask

Actor ==
    /\ run_observability
    /\ UNCHANGED connecting /\ UNCHANGED registry

Query ==
    /\ workload.queries > 0
    /\ workload' = [workload EXCEPT !.queries = @ - 1]
    /\ \E q \in {"SnapshotAndReset", "ErrorsSince"} : ask(q)
    /\ UNCHANGED <<link, called, inflight, accepted, listener, pending, reply, abandoned>>
    /\ UNCHANGED registry

Next == Authenticate \/ AuthenticateReporting \/ Connect \/ Shutdown \/ Actor \/ Query

Spec == Init /\ [][Next]_vars

\* Shutdown runs on: each of its steps is awaited by the one caller, the wait
\* has a timeout, and the runtime polls a state task whose channel changed.
FairSpec ==
    /\ Spec
    /\ WF_vars(snapshot_peers) /\ WF_vars(CloseHandle)
    /\ WF_vars(wait_for_callis_zero) /\ WF_vars(stop_peers) /\ WF_vars(EndTask)

----------------------------------------------------------------------------
\* The pre-authentication gate counts the tasks that authenticate and those
\* about to take their count back, no more and no less, so no permit leaks,
\* and never more than inbound_handshake_limit_total authenticate at once.
PermitsExact ==
    LET in(at) == Cardinality({c \in Conns : At(c) = at})
    IN  /\ inflight = in("authenticating") + in("refused")
        /\ in("authenticating") <= HandshakeTotal

\* A pending callback belongs to a dial that waits for it, or to one that was
\* cut short (the entries CallbackRemoved says should not be there); a dial that
\* waits has its entry until it is called; and a dial that went on was called by
\* the peer it dialled, and by no other.
RendezvousExact ==
    LET waiting == {d \in Dials : At(d) \in {"registered", "waiting"} /\ reply[d] = "open"}
    IN  /\ waiting \subseteq pending
        /\ pending \subseteq waiting \cup abandoned
        /\ \A d \in Dials :
              At(d) \in {"challenged", "setup", "open", "adopted"} => reply[d] = link[d].peer

\* What docs/peering/socket-transport.md says of failure clean-up: timeout, close of
\* the primary channel and cancellation remove the pending entry, so an entry
\* belongs to a dial that is under way.  The code removes it only when the callback
\* times out or does not match.
CallbackRemoved == \A d \in pending : At(d) \in {"registered", "waiting"}

\* A handle that runs and does not close is the one its address leads to: no
\* peer has two sessions, and every callis in use is one shutdown can find.
OneLiveHandle ==
    /\ \A h \in Handles :
          handles[h].task = "running" /\ ~handles[h].closing => peers[handles[h].peer] = h
    /\ \A l \in Links :
          At(l) = "adopted" /\ ~handles[link[l].handle].closing
              => handles[link[l].handle].peer = link[l].peer

\* What the application reads adds up, whatever was lost: each gauge is what was opened less what
\* was closed and the sum over the peers, the peers counted are those announced
\* as connected, peaks are not below gauges, and the deltas an application
\* collected with snapshot_and_reset are the totals up to the last reset.  And
\* as long as no Connected or Disconnected was lost and the domus is not
\* shutting down, the counts the actor ends up with are the callis its handles
\* hold, over the restarts of a peer and the replacements of its handle.
ReportsExact ==
    /\ \A k \in Kinds :
          /\ metrics.current[k] = metrics.totals[<<"opened", k>>] - metrics.totals[<<"closed", k>>]
          /\ metrics.current[k] = FoldFunction(LAMBDA n, sum : n[k] + sum, 0, counts)
          /\ metrics.peak[k] >= metrics.current[k]
    /\ metrics.peers = Cardinality(DOMAIN counts) /\ announced = DOMAIN counts
    /\ metrics.peak_peers >= metrics.peers
    /\ reader.collected = metrics.baseline
    /\ ~lost /\ commands = <<>> /\ ~listener_shutdown =>
         \A p \in Peers, k \in Kinds :
            Cardinality({l \in UNION {Held(h) : h \in Handles} :
                            link[l].peer = p /\ link[l].kind = k})
                = IF p \in DOMAIN counts THEN counts[p][k] ELSE 0

\* An application that reads on from the last sequence number it saw gets every
\* error once the actor recorded it, except those the ring let go before.
ErrorsAccounted ==
    \A s \in 1..reader.seq : s \in reader.got \/ s \in evicted

\* Shutdown, once called, completes, and the state task of every handle that
\* was made before shutdown_tx was set ends.
ShutdownEnds ==
    shutdown.phase # "none" ~>
        /\ shutdown.phase = "done"
        /\ \A h \in Handles : handles[h].task = "ended" \/ handles[h].deaf
=============================================================================
