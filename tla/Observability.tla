---------------------------- MODULE Observability ----------------------------
(***************************************************************************)
(* The observability actor of a domus (observability/actor.rs), the lossy  *)
(* handle its producers write to (handle.rs) and an application that asks  *)
(* it for reports (reporting.rs).                                          *)
(*                                                                         *)
(* Producers never wait: emit is try_send, and a command that finds the    *)
(* channel full is gone.  Queries wait for room and for their answer.      *)
(* Error texts, times and the payloads of events are left out; commands    *)
(* that only publish an event are one command, "Event".                    *)
(***************************************************************************)
EXTENDS Integers, FiniteSets, Sequences, Functions

CONSTANTS
    Peers,            \* addresses of remote domus
    CommandCapacity,  \* capacity of the command channel
    ErrorCapacity,    \* error_capacity of the ring of errors
    ReadLimit         \* limit of the application's errors_since

ASSUME ReportingAssumption ==
    /\ IsFiniteSet(Peers)
    /\ CommandCapacity \in Nat \ {0}
    /\ ErrorCapacity \in Nat \ {0}
    /\ ReadLimit \in Nat

VARIABLES
    commands,   \* the command channel
    metrics,    \* MetricsState
    counts,     \* peers: the callis counted for each peer that has an entry
    errors,     \* the ring: sequence numbers of the retained errors
    next_seq,   \* the last sequence number given out
    reader,     \* the application: what it asked, what it has read
    evicted,    \* ghost: errors the ring has let go
    announced,  \* ghost: peers whose last event was PeerConnected
    lost        \* ghost: a Connected or Disconnected found the channel full

reporting == <<commands, metrics, counts, errors, next_seq, reader, evicted,
               announced, lost>>

----------------------------------------------------------------------------
Kinds == {"Primary", "Blob"}

\* MetricsCounters without the gauges: each counter only grows.
Totals == {"opened", "closed"} \X Kinds
              \cup {<<"dial", "attempts">>, <<"dial", "failures">>}

Commands ==
    [type : {"Connected", "Disconnected"}, peer : Peers, kind : Kinds]
        \cup [type : {"DialAttempt", "DialFailed", "Error", "Event",
                      "SnapshotAndReset", "ErrorsSince"}]

Zero == [t \in Totals |-> 0]

ReportingInit ==
    /\ commands = <<>>
    /\ metrics = [current |-> [k \in Kinds |-> 0], peers |-> 0,
                  peak |-> [k \in Kinds |-> 0], peak_peers |-> 0,
                  totals |-> Zero, baseline |-> Zero]
    /\ counts = <<>>
    /\ errors = <<>>
    /\ next_seq = 0
    /\ reader = [asked |-> "none", seq |-> 0, got |-> {}, collected |-> Zero]
    /\ evicted = {}
    /\ announced = {}
    /\ lost = FALSE

\* ObservabilityHandle::emit, for the commands a step emits in a row.
emit(cs) ==
    LET room == CommandCapacity - Len(commands)
        kept == IF Len(cs) <= room THEN cs ELSE SubSeq(cs, 1, room)
        gone == {cs[i] : i \in Len(kept) + 1 .. Len(cs)}
    IN  /\ commands' = commands \o kept
        /\ lost' = (lost \/ \E c \in gone : c.type \in {"Connected", "Disconnected"})
        /\ UNCHANGED <<metrics, counts, errors, next_seq, reader, evicted, announced>>

Plain(type) == [type |-> type]

----------------------------------------------------------------------------
(* MetricsState.                                                           *)

Bigger(a, b) == IF a > b THEN a ELSE b

Saturating(n) == Bigger(n - 1, 0)

record(m, total) == [m EXCEPT !.totals[total] = @ + 1]

\* peer_connected, peer_disconnected.
peer_connected(m) ==
    [m EXCEPT !.peers = @ + 1, !.peak_peers = Bigger(@, m.peers + 1)]

peer_disconnected(m) == [m EXCEPT !.peers = Saturating(@)]

\* primary_connected, blob_connected and their opposites.  The peak kept here
\* is the one of the interval; the all-time one has the same code and no reset.
callis_connected(m, k) ==
    [record(m, <<"opened", k>>) EXCEPT
        !.current[k] = @ + 1, !.peak[k] = Bigger(@, m.current[k] + 1)]

callis_disconnected(m, k) ==
    [record(m, <<"closed", k>>) EXCEPT !.current[k] = Saturating(@)]

\* What snapshot_and_reset answers for a counter, and what it leaves behind.
Delta(m) == [t \in Totals |-> Bigger(m.totals[t] - m.baseline[t], 0)]

reset(m) ==
    [m EXCEPT !.baseline = m.totals, !.peak = m.current, !.peak_peers = m.peers]

----------------------------------------------------------------------------
(* reduce_observability_command.                                           *)

Counted(p) == p \in DOMAIN counts /\ \E k \in Kinds : counts[p][k] > 0

reduce_connected(c) ==
    LET m == callis_connected(metrics, c.kind)
    IN  /\ counts' = [p \in DOMAIN counts \cup {c.peer} |->
                         [k \in Kinds |->
                             (IF p \in DOMAIN counts THEN counts[p][k] ELSE 0)
                                 + IF p = c.peer /\ k = c.kind THEN 1 ELSE 0]]
        /\ IF Counted(c.peer)
           THEN metrics' = m /\ UNCHANGED announced
           ELSE metrics' = peer_connected(m) /\ announced' = announced \cup {c.peer}
        /\ UNCHANGED <<errors, next_seq, reader, evicted>>

\* A Disconnected whose Connected was lost changes nothing.
reduce_disconnected(c) ==
    /\ IF c.peer \in DOMAIN counts /\ counts[c.peer][c.kind] > 0
       THEN LET left == [counts[c.peer] EXCEPT ![c.kind] = @ - 1]
                m    == callis_disconnected(metrics, c.kind)
            IN  IF \A k \in Kinds : left[k] = 0
                THEN /\ counts' = [p \in DOMAIN counts \ {c.peer} |-> counts[p]]
                     /\ metrics' = peer_disconnected(m)
                     /\ announced' = announced \ {c.peer}
                ELSE /\ counts' = [counts EXCEPT ![c.peer] = left]
                     /\ metrics' = m
                     /\ UNCHANGED announced
       ELSE UNCHANGED <<counts, metrics, announced>>
    /\ UNCHANGED <<errors, next_seq, reader, evicted>>

record_error ==
    LET full == Len(errors) = ErrorCapacity
    IN  /\ next_seq' = next_seq + 1
        /\ errors' = Append(IF full THEN Tail(errors) ELSE errors, next_seq + 1)
        /\ evicted' = IF full THEN evicted \cup {Head(errors)} ELSE evicted
        /\ UNCHANGED <<metrics, counts, announced, reader>>

record_total(total) ==
    /\ metrics' = record(metrics, total)
    /\ UNCHANGED <<counts, errors, next_seq, reader, evicted, announced>>

snapshot_and_reset ==
    /\ reader' = [reader EXCEPT !.asked = "none",
                     !.collected = [t \in Totals |-> @[t] + Delta(metrics)[t]]]
    /\ metrics' = reset(metrics)
    /\ UNCHANGED <<counts, errors, next_seq, evicted, announced>>

\* errors_since(seq, limit): the oldest retained errors after seq, up to limit.
errors_since_newest(seq) ==
    LET after == SelectSeq(errors, LAMBDA e : e > seq)
        n     == Bigger(Len(after) - ReadLimit, 0)
    IN  SubSeq(after, n + 1, Len(after))

errors_since(seq) ==
    LET after == SelectSeq(errors, LAMBDA e : e > seq)
    IN  SubSeq(after, 1, IF Len(after) < ReadLimit THEN Len(after) ELSE ReadLimit)

\* The application remembers the sequence number of the last error it got.
answer_errors_since ==
    LET list == errors_since(reader.seq)
    IN  /\ reader' = [reader EXCEPT !.asked = "none",
                         !.seq = IF list = <<>> THEN @ ELSE list[Len(list)],
                         !.got = @ \cup Range(list)]
        /\ UNCHANGED <<metrics, counts, errors, next_seq, evicted, announced>>

\* One turn of run_observability.
run_observability ==
    /\ commands # <<>>
    /\ commands' = Tail(commands)
    /\ UNCHANGED lost
    /\ LET c == Head(commands)
       IN  CASE c.type = "Connected"        -> reduce_connected(c)
             [] c.type = "Disconnected"     -> reduce_disconnected(c)
             [] c.type = "DialAttempt"      -> record_total(<<"dial", "attempts">>)
             [] c.type = "DialFailed"       -> record_total(<<"dial", "failures">>)
             [] c.type = "Error"            -> record_error
             [] c.type = "SnapshotAndReset" -> snapshot_and_reset
             [] c.type = "ErrorsSince"      -> answer_errors_since
             [] c.type = "Event"            ->
                    UNCHANGED <<metrics, counts, errors, next_seq, reader,
                                evicted, announced>>

\* DomusReporting: the command is sent with send, which waits for room.
ask(query) ==
    /\ reader.asked = "none"
    /\ Len(commands) < CommandCapacity
    /\ commands' = Append(commands, Plain(query))
    /\ reader' = [reader EXCEPT !.asked = query]
    /\ UNCHANGED <<metrics, counts, errors, next_seq, evicted, announced, lost>>
=============================================================================
