----------------------------- MODULE ConnectBack -----------------------------
(***************************************************************************)
(* How a domus authenticates streams (transport/accept.rs, limits.rs,      *)
(* callback_rendezvous.rs, socket_backend.rs).  The dialled side calls the *)
(* dialling side back on a second connection and gives it a nonce there;   *)
(* the dialling side proves on the first connection that it got it.        *)
(*                                                                         *)
(* A link is a raw connection the listener took (Conns: an AuthInit, or    *)
(* the callback of one of this domus's own dials) or a dial of this domus  *)
(* (Dials).  The remote side, the clocks and the network choose what       *)
(* arrives and when a timeout fires.  Keys, certificates and signatures    *)
(* are left out: a check of them passes or fails.  Nonces are fresh, so a  *)
(* dial stands for the one it waits to see again.                          *)
(***************************************************************************)
EXTENDS Observability

CONSTANTS
    Conns, Dials,      \* links a behaviour may see, numbered in the order they appear
    HandshakeTotal,    \* inbound_handshake_limit_total
    AcceptedCapacity,  \* MAX_INBOUND_HANDSHAKE_LIMIT_TOTAL, the capacity of accepted
    Workloads          \* bounds of a behaviour

ASSUME ConnectBackAssumption ==
    /\ Conns \subseteq Nat /\ Dials \subseteq Nat /\ Conns \cap Dials = {}
    /\ IsFiniteSet(Conns \cup Dials)
    /\ {"open", "dropped", "nobody"} \cap Peers = {}
    /\ HandshakeTotal \in Nat \ {0}
    /\ AcceptedCapacity \in Nat /\ AcceptedCapacity >= HandshakeTotal
    /\ Workloads \subseteq [conns : Nat, dials : Nat, queries : Nat,
                            peers : SUBSET Peers, dialers : SUBSET Peers,
                            kinds : SUBSET Kinds, stops : BOOLEAN]

VARIABLES
    workload,   \* what this behaviour may still start, and whether it shuts down
    link,       \* [at, peer, handle, kind] of each link
    called,     \* callback links: the dial whose nonce they echo
    inflight,   \* PreAuthGate
    accepted,   \* the channel from authentication to the listener
    listener,   \* "running" or "stopped"
    pending,    \* CallbackRendezvous: dials with a pending callback
    reply,      \* the oneshot of each dial: "open", "dropped", or who called
    abandoned   \* ghost: pending callbacks whose dial was cut short

connecting == <<workload, link, called, inflight, accepted, listener, pending,
                reply, abandoned>>

Links == Conns \cup Dials

Nobody == "nobody"
NoHandle == 0

ConnectBackInit ==
    /\ workload \in Workloads
    /\ link = [l \in Links |-> [at |-> "unused", peer |-> Nobody,
                                handle |-> NoHandle, kind |-> "Primary"]]
    /\ called = [c \in Conns |-> c]
    /\ inflight = 0
    /\ accepted = <<>>
    /\ listener = "running"
    /\ pending = {}
    /\ reply = [d \in Dials |-> "open"]
    /\ abandoned = {}

At(l) == link[l].at

Fresh(l, among) == At(l) = "unused" /\ \A x \in among : At(x) = "unused" => l <= x

Move(l, at) == link' = [link EXCEPT ![l].at = at]

----------------------------------------------------------------------------
(* Inbound: the accept loop, the gate and the authentication task.         *)

\* A peer connects with an AuthInit.
peer_connects(c, p) ==
    /\ Fresh(c, Conns) /\ workload.conns > 0
    /\ link' = [link EXCEPT ![c].at = "backlog", ![c].peer = p]
    /\ workload' = [workload EXCEPT !.conns = @ - 1]
    /\ UNCHANGED <<called, inflight, accepted, listener, pending, reply, abandoned>>

\* The peer a dial reached, p, calls back: once per AuthInit it read, which may be
\* before the write returns.  It may be another domus than the one dialled, and it
\* may be late.
peer_calls_back(c, d, p) ==
    /\ Fresh(c, Conns) /\ workload.conns > 0
    /\ At(d) \in {"registered", "waiting", "failed"}
    /\ d \notin {called[x] : x \in Conns}
    /\ link' = [link EXCEPT ![c].at = "backlog", ![c].peer = p]
    /\ called' = [called EXCEPT ![c] = d]
    /\ workload' = [workload EXCEPT !.conns = @ - 1]
    /\ UNCHANGED <<inflight, accepted, listener, pending, reply, abandoned>>

\* spawn_accept_socket, called by accept.
accept_raw(c) ==
    /\ At(c) = "backlog" /\ listener = "running"
    /\ Move(c, "spawned")
    /\ UNCHANGED <<workload, called, inflight, accepted, listener, pending, reply,
                   abandoned>>

\* PreAuthGate::try_acquire counts first and looks at the limit afterwards.
try_acquire(c) ==
    /\ At(c) = "spawned"
    /\ inflight' = inflight + 1
    /\ Move(c, IF inflight + 1 > HandshakeTotal THEN "refused" ELSE "authenticating")
    /\ UNCHANGED <<workload, called, accepted, listener, pending, reply, abandoned>>

\* The refused task takes its count back and closes the stream.
turn_away(c) ==
    /\ At(c) = "refused"
    /\ inflight' = inflight - 1
    /\ Move(c, "closed")
    /\ UNCHANGED <<workload, called, accepted, listener, pending, reply, abandoned>>

\* handle_auth_init went through: the permit is dropped, then the stream is sent.
handle_auth_init(c) ==
    /\ At(c) = "authenticating" /\ called[c] = c
    /\ inflight' = inflight - 1
    /\ Move(c, "sending_ok")
    /\ UNCHANGED <<workload, called, accepted, listener, pending, reply, abandoned>>

\* CallbackRendezvous::fulfill: the entry goes even when it does not match.
fulfill(c) ==
    LET d     == called[c]
        match == d \in pending /\ link[c].peer = link[d].peer
    IN  /\ pending' = pending \ {d}
        /\ reply' = IF d \in pending
                    THEN [reply EXCEPT ![d] = IF match THEN link[c].peer ELSE "dropped"]
                    ELSE reply
        /\ Move(c, IF match THEN "closed" ELSE "sending_err")

\* handle_callback_message: a callback yields no stream, only an error.
handle_callback_message(c) ==
    /\ At(c) = "authenticating" /\ called[c] # c
    /\ inflight' = inflight - 1
    /\ fulfill(c)
    /\ UNCHANGED <<workload, called, accepted, listener, abandoned>>

\* A check failed, the stream broke, or the handshake timeout fired.
authentication_fails_keeping_permit(c) ==
    /\ At(c) = "authenticating"
    /\ Move(c, "sending_err")
    /\ UNCHANGED <<workload, called, inflight, accepted, listener, pending, reply,
                   abandoned>>

authentication_fails(c) ==
    /\ At(c) = "authenticating"
    /\ inflight' = inflight - 1
    /\ Move(c, "sending_err")
    /\ UNCHANGED <<workload, called, accepted, listener, pending, reply, abandoned>>

\* accepted_tx.send waits for room.
send_accepted(c) ==
    /\ At(c) \in {"sending_ok", "sending_err"}
    /\ Len(accepted) < AcceptedCapacity
    /\ accepted' = Append(accepted, [from |-> c, ok |-> At(c) = "sending_ok"])
    /\ Move(c, IF At(c) = "sending_ok" THEN "queued" ELSE "closed")
    /\ UNCHANGED <<workload, called, inflight, listener, pending, reply, abandoned>>

\* listener.accept of the backend fails for a connection in the backlog.
accept_fails(c) ==
    /\ At(c) = "backlog" /\ listener = "running"
    /\ Move(c, "closed")
    /\ emit(<<Plain("Error")>>)
    /\ UNCHANGED <<workload, called, inflight, accepted, listener, pending, reply,
                   abandoned>>

\* run_listener: one result of accept.
accept_result ==
    /\ listener = "running" /\ accepted # <<>>
    /\ accepted' = Tail(accepted)
    /\ IF Head(accepted).ok
       THEN Move(Head(accepted).from, "accepted") /\ UNCHANGED reporting
       ELSE UNCHANGED link /\ emit(<<Plain("Error")>>)
    /\ UNCHANGED <<workload, called, inflight, listener, pending, reply, abandoned>>

----------------------------------------------------------------------------
(* Outbound: outbound_connect_back_handshake under the timeout of dial.    *)

register_pending_callback(d) ==
    /\ At(d) = "dialing"
    /\ pending' = pending \cup {d}
    /\ Move(d, "registered")
    /\ UNCHANGED <<workload, called, inflight, accepted, listener, reply, abandoned>>

write_auth_init(d) ==
    /\ At(d) = "registered"
    /\ Move(d, "waiting")
    /\ UNCHANGED <<workload, called, inflight, accepted, listener, pending, reply,
                   abandoned>>

\* The callback came; the challenge that is read next must be from who called.
callback_arrives(d) ==
    /\ At(d) = "waiting" /\ reply[d] \in Peers
    /\ Move(d, "challenged")
    /\ UNCHANGED <<workload, called, inflight, accepted, listener, pending, reply,
                   abandoned>>

prove(d) ==
    /\ At(d) = "challenged"
    /\ Move(d, "setup")
    /\ UNCHANGED <<workload, called, inflight, accepted, listener, pending, reply,
                   abandoned>>

\* spawn_dial, the error branch of the dial: two reports.  A dial that has not
\* begun to write its AuthInit cannot be called back any more.
dial_fails(d) ==
    /\ Move(d, IF At(d) = "dialing" THEN "unreached" ELSE "failed")
    /\ emit(<<Plain("Error"), Plain("DialFailed")>>)
    /\ UNCHANGED <<workload, called, inflight, accepted, listener, reply>>

callback_timeout_without_cleanup(d) ==
    /\ At(d) = "waiting" /\ reply[d] \notin Peers
    /\ dial_fails(d)
    /\ UNCHANGED <<pending, abandoned>>

\* The callback timeout, or a oneshot dropped by a callback that did not match.
callback_timeout(d) ==
    /\ At(d) = "waiting" /\ reply[d] \notin Peers
    /\ pending' = pending \ {d}
    /\ dial_fails(d)
    /\ UNCHANGED abandoned

\* Everything else that ends a dial leaves the rendezvous alone: connect or a
\* write fails, the challenge is bad, or the timeout around the whole handshake
\* drops it wherever it stands.
cut_short(d) ==
    /\ At(d) \in {"dialing", "registered", "waiting", "challenged"}
    /\ abandoned' = abandoned \cup (pending \cap {d})
    /\ dial_fails(d)
    /\ UNCHANGED pending
=============================================================================
