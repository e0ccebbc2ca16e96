# TLA+ verification of Aurelia peering

TLA+ modules of the A1 peering layer of Aurelia (`src/src/crates/peering`), the TLC runs that check
them and the TLAPS proofs about them. Each definition is translated from the Rust source; the table
`map` of `PROJECT.json` gives the lines each one stands for.

## The system

Two *domus* exchange messages and blobs over several connections (*callis*) per peer. A domus has one
transport with a map of peer handles, and behind each handle:

| Part | Source | What it does | Module |
| --- | --- | --- | --- |
| Retained store | `transport/primary_dispatch/{store,retained}.rs` | retains every primary frame owed to the peer: A1 responses until written, A2/A3 messages until answered, failed or expired | `RetainedStore` |
| Session, as senders see it | `session.rs` | admits messages, answers each sender once | `SendPromise` (abstract) |
| Primary dispatch, transmitters | `transport/primary_dispatch.rs`, `transport/callis.rs` | one transmitter per callis claims, writes and completes | `RetainedStore` (claims and results) |
| Receive loop, dedupe | `transport/callis.rs`, `session.rs` | hands messages to tabernae, waits for their decision, answers; recognises replays | `InboundReceive` |
| Taberna inbox | `taberna.rs` | bounded inbox with expiry; the application accepts or rejects | `InboundReceive` |
| Peer state task | `transport/peer.rs` | decides when to dial, tracks callis, impaired window, graceful close | `PeerState` |
| Handshakes, dial tasks | `transport/handshake.rs` | open a callis and announce it; agree on RECONNECT | `PeerState`, `PeerRegistry` (when they open, announce and fail) |
| Callis tracker, handshake gate | `transport/mod.rs` | count open callis and permits per peer | `PeerState`, `PeerRegistry` |
| Blob ring buffers | `ring_buffer/` | chunking, ACK window, retransmission (sender); reassembly (receiver) | `OutboundChunks`, `OutboundRing`, `InboundChunks` |
| Blob manager: one stream | `transport/blob/` | dispatches chunks and responses to blob callis, hands chunks to the reader, idle reaper | `BlobTransfer` |
| Blob manager: many streams | `transport/blob/`, `transport/peer.rs` | admission, reservations, opening, failing of streams | `BlobAdmission`, `BlobOpening`, `BlobStreams` |
| Blob buffer tracker | `transport/mod.rs` | caps the buffers of all streams of a domus | `BlobShared` |
| Local delivery | `delivery.rs` | blobs between two tabernae of one domus | `BlobOpening` |
| Limits, accept, rendezvous, socket backend | `transport/{limits,accept,callback_rendezvous,socket_backend}.rs` | pre-authentication gate; connect-back authentication | `ConnectBack` |
| Transport, listener | `transport/{mod,listener}.rs` | map of peer handles, accept loop, shutdown | `PeerRegistry` |
| Observability | `observability/` | lossy reports, counters, gauges, ring of errors | `Observability` |
| Domus | `domus.rs` | wires the above; shutdown | `Domus` |
| Message ids, wire format, TCP backend, config, resolver, logging, platform, xtask | remaining files | constants, I/O, tooling | not modelled |

`PROJECT.json` lists every part with its status and reason (`components`), and the places where the
code is exposed to interleavings, staleness, lost signals and limits (`hazards`).

The modules fall into five groups that are checked apart, cut where the code communicates through a
narrow interface: the retained store; the receive loop; the peer state task (which sees the store as
one bit, "something is retained"); the blob streams (one stream in full, or many streams without their
bytes); and the domus around the peer handles (which sees a handle as a state task that adopts and
loses callis).

## Modules

### RetainedStore, SendPromise, RetainedStorePromise

State: the slots of the four lanes, the ready and replay queues, the free lists and counters, the two
lookup maps, the deadline heap (a set of keys: only its order matters, and `Before` has it), the
sequence counter, the shutdown flag, the clock, the reaper's position between its two critical
sections, the claim each transmitter holds while it writes, and the result each sender's oneshot
carries. Every action is one critical section of the store mutex: `set_capacities`, `insert_ack`,
`insert_error`, `insert_tracked`, `claim_next` (with `claim_none` for the pass that finds nothing and
empties the queues it looked at), `complete_write_ok`, `complete_write_err`, `ack`, `fail_one`,
`fail_all`, `fail_non_a1`, `begin_shutdown`, `drop_responses`, `mark_callis_replay_ready`,
`mark_tracked_replay_ready`, `next_deadline`, `expire_due`. Messages are their ids; payloads, error
ids and reports are left out. Orders that follow HashMap iteration are left open.

`SendPromise` is what the session promises a sender, without lanes, slots, claims or deadlines: an
admitted message gets a number, its sender is answered exactly once, Ok only by an ACK that names the
message, and closing answers everyone who waits. `RetainedStorePromise` states that `RetainedStore`
implements it: the number a sender waits on is the sequence number of the slot that `tracked` points
at, its answer is the outcome of that number.

### InboundReceive

State: the dedupe history and pending set of the session, the waiters of each reader, the requests
in the taberna inbox and in the application's hands. A reader's step is one pass of its select loop,
split where it leaves the dedupe lock before calling the inbox (`receive_new`, then `enqueue` or
`enqueue_refused`). The application takes, accepts, rejects or drops requests at any time. Callis are
lost (`stop_reading`, `cancel_all`), the peer sends CLOSE or a frame the handler refuses
(`handler_error`, which drops the waiters without cancelling them), a fresh session clears the dedupe
state, and deliveries of other ids push the modelled ones out of the history (`other_delivered`).
`orphaned` (ids whose reader broke off, or that a fresh session cleared while in progress) and
`forgotten` (ids the history let go) are history variables that name the exceptions of the properties.

### PeerState

State: the `PeerState` the task owns, the event channel with its capacity, the flags other tasks read
(`primary_active`, the session's `active` and `closing`), each callis from spawn to report, dial
tasks and inbound handshakes in flight, and the peer shutdown task. One action per handler of
`PeerStateUpdate`: the transition of `PeerStateMachine`, the effects and the loop epilogue. The
retained store and the stream table are one bit each. The callis tasks, dial tasks, handshakes,
senders and closers are the environment that fills the channel; `send` on the channel waits for room
and `try_signal_peer_state_ensure` drops its signal when there is none. `doomed` has the open
callis that were told to close. A *workload* chosen in `Init` says which callis a
behaviour may open, whether senders retain messages and whether disconnect requests come.

### OutboundChunks, OutboundRing

`OutboundChunks` has the sender's ring buffer as operators on a record: slots, write buffer, the chunk
held back until it is known whether it is the last one, counters and lifecycle. Bytes are counted and
chunks are ids and lengths. `OutboundRing` is that ring alone under two transmitters: every entry point
(`try_push_available`, `seal`, `lease`, `mark_chunk_inflight`, write results, lost callis, ACK, ERROR,
completion, failure, close) in any order, including answers to attempts that have been superseded. The
application's side is `poll_shutdown` and Drop: `shutdown` says how far the sender has come and `result`
what the last call returned. A seal that fails leaves the sender open (`seal_fails`), a wait that fails
closes it (`wait_fails`), and on a closed sender the call returns Ok at once (`shutdown_again`), also
when what closed it was a failed wait.

### InboundChunks, BlobTransfer

`InboundChunks` has the receiver's ring as operators. `BlobTransfer` composes both rings into one
stream between two peers: the sending application (`poll_write`, `poll_shutdown`), transmitters that
lease, mark and write chunks, a network of callis that deliver in order and may be lost with what they
carry, the chunk handler split at its critical sections (`recv_chunk_state`, `insert`,
`remove_recv_stream`, `fail_receiver`, `respond_with_blob`), the response lanes with their capacities,
the reader with each look at the shared state as a step of its own (`check_error`, `read_ring`,
`note_recv_complete`, `ring_gone`, `check_error_again`, `check_completed`), its Drop, and the idle
reaper. Callis that end are requeued by `requeue_inflight_for_callis` once both their tasks are done, as
`ConnectionClosed` is sent after the join of the two. The history field `net[k].alone` records whether
callis k was opened while no other was open. A *workload* chosen in `Init` says how many bytes are
written, how many frames may be sent, whether callis overlap, how many are lost, and which of the faults
of the applications (a sender that gives up, an idle stream, a dropped receiver) may happen.

### BlobShared, BlobAdmission, BlobOpening, BlobStreams

The streams of a peer as tables and reservations, without their bytes. `BlobShared` is the tracker that
counts the reservations of both directions for the whole domus. `BlobAdmission` is the receiving side:
a reader reserves, hands a receiver to the application, waits for its decision and for a blob callis,
and installs the stream. `adm[c][id]` says how far the reader of callis c has come; a step ends
where the code leaves a mutex, since readers, receivers that are read, dropped or time out, the idle
reaper and the peer state task all touch the same tables. `BlobOpening` is the sending side:
`send_blob` with its guard `OutboundReservation`, whose future may be dropped at any await (`cancel`),
and local deliveries that reserve both directions. `BlobStreams` composes the two under the peer state
task: blob callis come and go, and a fresh session, a close or a callis that does not resume runs
`fail_all_streams`, whose passes over outbound streams, reservations and inbound streams are separate
steps; the handshake of a fresh session clears the dedupe state before the task hears of it.
`overwritten` counts records replaced by a later one of the same id; `strayed` has the ids whose record
no one will release: an admission that failed on a path that leaves its entries behind, a request
admitted while `fail_all_streams` ran, a read that was dropped between the removal of its stream and the
release. Sends end in `lost` or `stuck` when they are cancelled between the tracker and the map, or inside
`release`. `forgotten` has the ids the dedupe state let go.

### Observability, ConnectBack, PeerRegistry, Domus

A chain of modules that extend one another, each with the variables of one part.

`Observability`: the command channel (`emit` drops what finds it full; queries wait), the counters with
their baseline for `snapshot_and_reset`, the gauges and peaks, the callis counted per peer, the ring of
errors, and an application that polls. `lost`, `announced` and `evicted` are history variables.

`ConnectBack`: a *link* is a raw connection the listener took or a dial of this domus. A connection
passes the pre-authentication gate (`try_acquire` counts before it compares, `turn_away` takes the count
back), reads an AuthInit or a callback, and sends its result to the listener over a bounded channel. A
dial registers a pending callback, writes AuthInit, waits, and proves what it got. The dialled peer
calls back on a connection of its own, which passes the same gate. `fulfill` removes the entry before it
compares the origin, as the code does. `callback_timeout` cleans its entry up; `cut_short` (the timeout
around the whole dial, or a failed write) does not, and `abandoned` records those entries. The listener
socket may fail (`accept_fails`), and an abandoned entry may still be called back.

`PeerRegistry`: `peer_handle_for` looks an address up and replaces a handle that is closing; inbound
streams and sends reach it by their own ways, a send after it has looked at `shutdown_tx`. A handle
carries the permits of its handshake gate and what it was told; its event channel is left out (a callis
that was opened is adopted at any later time, and one that ends first is "early", which `connected`
then adopts as a dead handle, "zombie": see the run `peer_state_zombie`). A handle made after
`shutdown_tx` was set is `deaf`: it subscribed to a value that never changes again. Shutdown is the
sequence of the code: stop the listener, take a snapshot of the map, close each handle, wait for callis
with a timeout, signal and drop.

`Domus` is the composition, with the peers that connect, the sends, the queries and
`Domus::shutdown`. A *workload* chosen in `Init` bounds what a behaviour may start.

### Proof modules

`RetainedStoreLemmas` and `RetainedStoreProofs`; `InboundReceiveProofs`; `RingProofs` with the
definitions of `RingBooks`, and `OutboundRingProofs`; `BlobTransferSteps` and `BlobTransferProofs`; `DomusProofs`. See *Proofs*.

## Runs

| Run | Shows | Instance |
| --- | --- | --- |
| `retained_store` | no item stranded, counters and free lists exact under resizing, no completion lost or misapplied, every item covered by a deadline, strict lane priority, `SendPromise` implemented, every sender answered | 2 transmitters, 1 message, 1 response, lanes of one slot that grow to two and shrink, 2 admissions, reaper and clock fair |
| `inbound_receive` | one owner per delivery, a waiting duplicate never misses the decision, ACK means accepted, redelivery only after a loss, every waiter resolves | 2 readers, 1 id and deliveries of others, history of 1, inbox of 1, 3 requests, CLOSE, refused frames, fresh sessions |
| `peer_state` | retained work has a dialer; dead handles are reported; a Dialing flag stands for a task; no open callis is forgotten; a closing peer's callis all end | 2 primary callis under a sender; 1 primary under a sender with disconnects; 1 primary and 1 blob callis with disconnects; channel of 1, fair tasks |
| `outbound_ring` | bytes conserved, only the last chunk flagged, maps and counters exact, Ok means delivered, a chunk is freed only by its own answer | 2 callis, window of 2 |
| `blob_transfer` | no chunk dropped at both ends, completion means all chunks; with callis following one another no gap, no overrun window and no unanswerable attempt; a sleeping reader is notified; an acknowledged stream has its completion to come | windows of 2; 4 chunks and 5 attempts over successive callis with a loss; 2 chunks over 2 callis with a loss, 1 chunk with 2 losses; 3 chunks over 1 callis with idle timeouts and applications that give up |
| `blob_streams` | the tracker is exact, every reservation has someone who releases it, space is lost and streams run outside the caps only for named causes | 1 request id that arrives twice, on 1 or 2 callis, fresh sessions, evictions, 2 sends, 1 local delivery, room for 2 reservations a side, 1 sweep |
| `domus` | permits, pending callbacks and handles are exact, reports add up, a polling application misses only evicted errors, shutdown ends | up to 3 connections and 4 dials, 2 peers, limits of 1, 2 handles, channel and ring of 2 |

Runs that show where the code parts from what its documents say (each finding of `PROJECT.json`
quotes the line):

| Run | Violated | What happens |
| --- | --- | --- |
| `inbound_receive_overwrite` | `WaitersResolve` | a replay on the owner's callis overwrites its waiter |
| `peer_state_zombie` | `RetainedWorkHasDialer` | ConnectionClosed is handled before Connected, leaving a dead handle |
| `blob_transfer_own_ack` | `ResponsesKept` | an ACK of the receiver's own message removes the queued response with the same number |
| `blob_transfer_eof` | `EofOnlyAfterLast` | a stream is failed while its reader looks at the table, the error and the completed flag in turn, and the truncated blob ends like a whole one |
| `domus_callback` | `CallbackRemoved` | a dial that is cut short leaves its pending callback in the rendezvous |

The last two show behaviours that the passing runs contain as well. Each of the first three lifts a
restriction the passing runs make to show what else holds: `SameCallisReplay =
FALSE` (a replay comes on another callis than the one its first copy is pending on), `EarlyClose =
FALSE` (a callis does not end before it is announced), `Spec` instead of `SpecBothWays` (the receiver
sends no messages of its own; in the same way `FinishIds` keeps the ids of blob-transfer-complete apart
from chunk ids). The type invariant of a module is a conjunct of one of its properties.

### What the properties except

The models contain behaviours that a reader of the documents may not expect. The properties name them
as the only exceptions, so a further one would be found; `hazards` lists them with their lines.

- Retained store: a resume lets a second transmitter write an item the first is still writing
  (`mark_tracked_replay_ready`); the teardown sweep leaves the ACK lane alone
  (`mark_callis_replay_ready`).
- Receive loop: a message the application still holds is delivered again when its callis is lost, its
  id leaves the history or a fresh session begins (`RedeliveryOnlyAfterLoss`); ids of a reader that
  broke off stay pending (`orphaned`).
- Peer state: a reset dial flag allows a second dial; two handshakes pass the callis limit together; a
  blob dial refused for want of a primary waits for the next blob event. With blob callis in the
  instance a channel full of EnsureBlobDial drops an EnsurePrimaryDial, and blob callis that hold the
  last capacity keep a primary dial from being scheduled until the next send: `RetainedWorkHasDialer`
  is checked with primary callis only.
- One blob stream: the error of a refused chunk is replaced by the BlobStreamNotFound of the chunk
  behind it; over two callis a conforming sender can exceed the receiver's window, and an ACK lost on
  another callis than its chunk came on leaves the chunk to the sender's timeout (`NoGapOnOneCallis`
  and `AttemptAnswerable` speak of callis that follow one another); a stream that fails between the
  reader's look at the error and its look at the completed flag ends with Eof (`blob_transfer_eof`;
  `EndSound` says that nothing else ends a truncated stream so). A shutdown of a sender whose earlier
  shutdown failed returns Ok (`OkMeansDelivered`).
- Blob reservations: `docs/peering/blobs.md` says that reservations are released when streams complete,
  fail or close, and `docs/peering/transport-model.md` that dropping a receiver releases its own. The code
  does so but for the records in `strayed` (three error paths of the admission, a request admitted while
  `fail_all_streams` runs, a read dropped half way), for sends cancelled at the wrong await (`lost`,
  `stuck`) and for a record overwritten by a second request of its id (`overwritten`).
  `ReservationKept` and `LossHasCause` say that there are no others. Tables are keyed by id alone, so a
  receiver or a task that ends late releases whatever its id names by then, and a stream registered after
  a sweep runs outside the caps (`StreamReserved`).
- Domus: the callback entry of a dial that was cut short stays for good (`abandoned`); a refused
  connection holds a count for a moment, so another may be refused although a permit is free; a handle
  made after `shutdown_tx` was set outlives shutdown (`deaf`); a lost Connected or Disconnected shifts
  the gauges, and graceful close does not report the blob callis it drains, so that the gauges are true
  is claimed only while no such report was lost and no shutdown began.

### Bounds

Counters that grow for ever are capped in the guards and named: `MaxSeq` (admissions), `MaxTime`
(clock), `MaxReplay` (keys a resume may pile up), `MaxRequests` (requests), `MaxBytes` (bytes written),
`MaxMsgId` (frames sent), `MaxHandles` (handles made), the ids of callis in `PeerState` and of links in
`Domus`, and the `Workloads` of `PeerState`, `BlobTransfer`, `BlobStreams` and `Domus`.

Two admissions let a slot be given to a new item while keys, a heap entry and a claim of its first
occupant are still around, which is as stale as a key can get relative to the comparison the code
makes; the proofs cover any number. Two transmitters or readers are enough for every race between two
of them and a third party (reaper, resume, application). A channel of one event is full as soon as two
tasks report. Four chunks against windows of two let the sender's window fill and move on while earlier
chunks are unacknowledged, so that a sender which replayed in the wrong order would meet each refusal of
the receiver: a chunk beyond the window, a full buffer, a last chunk before its predecessor and a gap
behind a window that has moved. Five message ids leave one attempt for a replay of a four-chunk stream,
three leave one or two for the shorter ones. The response lanes of the blob runs are large enough never
to drop an ACK: the sender then waits for its timeout, which the model leaves to `shutdown_fails`.

A workload is one combination of actors, and each exists for an interaction: in `blob_streams` two
receivers of one id at a time or in turn over a fresh session, two in turn with a sweep, a receiver
beside a local delivery on the same cap with a fresh session and its sweep, two sends beside a local
delivery; in `domus` a dial while its peer dials too, a peer that reconnects while a send replaces
its handle, shutdown against a dial and against two inbound callis of both kinds, queries beside reports
that overflow the channel, two peers, two dials to one peer. A limit of one makes two of anything
collide at the gate; two handles are a handle and its replacement. Model values are permuted by
`SYMMETRY` only where they are never compared and no liveness is checked.

### Fairness

`retained_store`: the reaper task (`next_deadline`, `expire_due`) and the clock. Transmitters and
callers owe nothing. `inbound_receive`: readers run their loop; the application takes and decides, or
the inbox's expiry does it, as `accept_timeout` guarantees. `peer_state`: the state task, openers,
reporters, dial tasks and handshakes (both have deadlines), a callis told to close, the shutdown task.
Senders waiting on the bounded channel get strong fairness: tokio serves waiting senders in order.
`blob_transfer` assumes no fairness: that a stream does not hang is stated without it. A reader sleeps
only while there is nothing to read, and whatever brings a chunk, the end or a failure has a notification
of it still to give (`SleeperWoken`); an attempt in flight has its answer under way (`AttemptAnswerable`);
and as long as no callis is lost a stream of which all is acknowledged has its blob-transfer-complete
under way (`CompleteComing`).
`domus`: the steps of shutdown (`snapshot_peers`, `CloseHandle`, `wait_for_callis_zero`, `stop_peers`),
which one task takes in sequence, the wait being bounded by its timeout, and the end of a state task
that was told or saw the signal (`EndTask`), which the runtime polls. Peers, callis, dials, the
listener and the actor owe nothing, so `ShutdownEnds` holds with a silent peer.

## Proofs

### The retained store

`RetainedStoreProofs`, with the lemmas of `RetainedStoreLemmas`, proves, for any sets of messages, responses and transmitters and any
capacities, timeouts and bounds allowed by `ConstantsAssumption`: the inductive invariant
(`StoreInvariant`), type correctness (`TypeCorrect`), `NothingStranded`, `AccountingExact`,
`IndexesExact`, `SeqsUnique`, `NoLostCompletion`, `ReaperCoversAll`, `ShutdownDrainsTracked`.

The inductive invariant `IInv` joins the checked invariants with `SlotShape` (a slot is vacant exactly
when it is Empty; nothing beyond `len` is used) and `LaneCounts`. None of the checked invariants is
inductive alone: that a queue key finds its item needs sequence numbers to identify items; that removal
keeps the counters needs the free list to be the vacant slots; that a completion resolves the right
sender needs the lookup maps to match. The steps fall into four families, one lemma each: an allocation
(`AllocationKeepsIInv`), a relabelling that keeps every occupant (`RelabelKeepsIInv`: claims, write
results, replay marks), a removal (`RemovalKeepsIInv`) and resizing.

`StaleResultsIgnored` and `PriorityStrict` are the action properties. The first says that a write result
that arrives after its item was resolved, expired or resumed elsewhere changes nothing: the claim still
names its slot, and only the sequence number tells the old occupant from the new one. The second
follows from `NoStrandedItem`: a claim scans queues, not slots, so that it passes over no waiting item
rests on every waiting item being findable through a queue.

`StoreKeepsPromise` is `Spec => SendersPromise`. The three families map to
steps of `SendPromise`: a relabelling leaves every sequence number where it is and is a stutter; a
removal resolves exactly the senders of the slots it vacates; an allocation issues the next number. The
invariant is needed for the mapping: that `tracked` points at a slot that holds the message, that the
slots vacated and the ids resolved correspond, and that numbers are positive and unique.

### The receive loop

`InboundReceiveProofs` proves, for any set of ids and callis, any history length and any inbox
capacity, `DuplicatesJoin` and `AcksAreAcceptances`, and for `SameCallisReplay = FALSE` also `OneOwner`
and `NoRedelivery`. The hypothesis is the restriction of the run: with a replay on the callis its first
copy is pending on, the overwritten waiter (`inbound_receive_overwrite`) makes both false.

`Progress` is inductive for every remote: a reader inside a handler reads, a message waiter points at a
request its own reader made for that id, the inbox lists queued requests once each, and whatever speaks
of an acceptance (an ACK, the history, a resolved duplicate) has an accepted request behind it. The
last needs decisions to be final, which the step that expires an inbox entry could break: it rejects a
request by its position. `Ownership` adds who owns a delivery: at most one reader has begun or waits for
an id, which is pending exactly while one does (but for `orphaned` ids), and a request that was not
rejected, whose reader lives and whose id was never forgotten, is still waited for or is accepted and in
the history. `RedeliveryOnlyAfterLoss` is not inductive without the last part. `None` must be neither an id nor a waiter (`ConstantsAssumption`).

### The outbound ring

`OutboundRingProofs` proves all four properties of the run `outbound_ring`, for every chunk size, window
size and set of callis and every length of a write: `BooksStayExact`, `NoByteLost`, `OkIsDelivered` and
the action property `FreedByItsAnswer`. `OkIsDelivered` is about every call of `poll_shutdown`, the ones
on a closed sender included; it needs `OkWhenClosed`, that only a closed
sender has returned Ok and that it stays closed. `RingProofs` says what each critical section keeps
of a ring, whatever surrounds it (`RingBooks` has what it means for a ring to be right).

The invariant `IInv` of `OutboundRing` (TLC checked it on the instance of the run first) joins
- `Books`: types; `chunk_index` is the inverse of the chunk ids in occupied slots, all handed out;
  `ack_map` has exactly the attempts in flight; no two attempts under way share a message id; the
  in-flight count is right; the occupied slots and the pending chunk fit the window. `next_empty_slot`
  finds a slot only because of the last, and an answer would free the wrong slot without the others;
- `Account`: the bytes accepted are those of the chunks and of the buffers, and the chunks made are
  numbered by `next_chunk_id`;
- `Tasks`: no two transmitters hold the same message id, a lease in a transmitter's hands is stamped
  with its callis, a slot in Writing is leased as it stands, an attempt in flight is with its transmitter or on
  the wire. An answer then frees the one slot its attempt is stamped on, and a late one none;
- `Finish`: only the final chunk is flagged, after it nothing is buffered and the stream is not open,
  and a completed stream had all its chunks written.

`push_available` loops, and its loop is a recursive function. `RecursionExists` shows that such a
function exists and `InductiveSet` gives induction over natural numbers, both from the least-element
principle of the library; `Round` is the loop invariant, and `TakeRound` and `SplitRound` keep it.

### One blob stream

`BlobTransferProofs` proves, for every chunk size, every pair of windows, any finite set of callis that
come, go and lose what they carry, any number of bytes and of write attempts: `NothingDropped`
(`AckedAccepted`), `CompletionSound` (`CompleteMeansAll`) and `EndSound` (`EofOrFailing`, what is left of
`EofOnlyAfterLast`), each for `Spec` and for `SpecBothWays`, in which the receiver also sends messages of its own. So the lost response
that `blob_transfer_own_ack` shows costs the sender its outcome, never the stream its soundness.

The invariant `IInv` (checked by TLC on the instance of `blob_transfer` first) follows a chunk around:
- `RingOk`: the outbound ring's `Books` hold, every message id in use was handed out, a chunk that is no
  longer in the ring was taken by the receiver unless the stream failed, and a completed stream is whole
  at the receiver;
- `InboundOk`: what the receiver holds lies between what it delivered and what was made, without a gap
  up to `next_expected`, and a known last chunk is the last one of a sealed stream;
- `Travel`: a lease, a frame or a handler on the way to the receiver agrees with the slot its attempt is
  stamped on, if there still is one (`Good`); an ACK on the way back, in a handler, a response slot or a
  frame, speaks of a chunk the receiver took (`Answered`), whichever attempt it answers;
- `SenderOk`, `LanesOk`, `ReaderOk`, `EndOk`: the reader is at the end only when the stream is whole or
  being failed, and what it remembers, or is about to remember, as received is whole.

None of the three properties is inductive without `Travel`: an ACK is believed by its message id alone,
so that it frees only a chunk the receiver has rests on what was true when it was made, kept over every
replay and every loss since. Two ideas keep the proof small. `On` says how far the two ends may have
moved (no chunk and no id is taken back, an attempt under way is an old one or has a new id), and
whatever travels survives it (`TravelOn`). And the steps are proved from `Rules`, what an operation makes
of two rings that are right, in a module that sees no theorem about sets (`BlobTransferSteps`),
which also has what the inbound ring makes of a chunk, given what `Numbers` says of finite sets;
`BlobTransferProofs` derives `Rules` from `RingProofs` and `Numbers` from the library (`RulesHold`,
`NumbersHold`), so neither is an assumption of the theorems.

### The domus

`DomusProofs` proves, for any finite sets of peers, connections and dials and any limits, capacities
and workloads allowed by `ReportingAssumption`, `ConnectBackAssumption` and `RegistryAssumption`:
`PermitsTheorem` (`PermitsExact`), `RendezvousTheorem` (`RendezvousExact`) and `LiveHandleTheorem`
(`OneLiveHandle`), all from the invariant `DomusInv` (`DomusInvHolds`).

`DomusInv` joins the three properties with the types of the links, handles and channels and with
- `ChannelExact`: a stream is at most once in the channel to the listener, and is queued. Without it
  the listener could hand one stream to two handles, or revive a link that has moved on;
- `HandlesMatch`: a link has a handle exactly from the step that hands it over, and that handle is one
  of its peer's. The second half of `OneLiveHandle` needs it, over every replacement;
- `RepliesMatch`: the oneshot of a dial is unresolved until its callback is registered, and is resolved
  only by the peer it dialled. `RendezvousExact` is not inductive without it: a dial would have a
  waiting entry and an answer at once;
- `LiveHandles`: the map leads to handles of the address itself, so that replacing one entry cannot
  hide the live handle of another.

Nearly every step moves one link, so the first lemmas of `DomusProofs` are about a move: what it needs of
the state it leaves and the state it enters for each part to survive (`MoveKeeps`; `GateKeeps` where it
passes the gate, by the cardinality of a set that gains or loses one element; `WaneKeeps` where a handle
closes, ends or is told; `AppearKeeps` where a link appears). They are applied to the steps of
`ConnectBack` and of `PeerRegistry`, among them a fresh session, which lets go of many links at once
(`ManyGoOn`), and the replacement of a handle (`HandOverKeeps`). What the steps need to know of
cardinalities is the hypothesis `Counting`, which `CountingHolds` discharges from the library.

### Only model-checked

Liveness and everything that needs ENABLED (out of the prover's reach); the reports of the domus
(`ReportsExact` sums over a function, which takes an induction over finite sets; `ErrorsAccounted`);
`NoGapOnOneCallis`, `AttemptAnswerable`, `SleeperWoken` and `CompleteComing` of one blob stream, which are
about the order of frames on callis that follow one another, or about everything that is still under way,
and would need the whole contents of the channels in the invariant;
`PeerState` and `BlobStreams`.

## Not modelled

*Dispatch wakeups*: the notification between store and transmitters, close intents, keepalives. The
runs let a transmitter look at the store at any time, so a lost wakeup would not show.

*Two peers with a retained store each*: which messages RECONNECT names, and that both sides agree on
it. The store takes any set of ids to replay and the receive loop any replay, which covers what the
negotiation can ask of either, but not that it asks for the right set.

*A disconnect of the blob callis in `BlobTransfer`*: it requeues everything in flight
(`requeue_all_inflight`) while transmitters are still at work. `OutboundRing` has it, as a `callis_lost`
of a callis whose transmitter holds a lease.

*Redials in the registry*: in `Domus` only a send starts a dial; the redials of a peer state task are in
`PeerState`. *Totals* of identity mismatches, protocol violations and overruns are counters like the ones
that are modelled, and are left out of `Observability`.

*Several blob streams on one callis*: the round-robin cursor. `BlobTransfer` has the bytes of one
stream, `BlobStreams` the tables of several; fairness between streams is not claimed.

*Taberna registration, message ids and the routing of a send*: lookup tables and a counter in front of
the modelled components. *Event broadcast of the observability actor*: it loses events to slow
subscribers and has no effect on the state that is modelled.

*Frame reader and byte layout, TCP backend, TLS, keys and their reload, file-system and socket I/O,
logging, backoff delays* (they choose when a dial starts, not whether), *configuration validation,
resolver, build tooling*: I/O, constants and sequential code. The awaiting variant of the ring's push
and its flush change nothing the modelled entry points do not. The wrap of the 64-bit sequence counters
is out of reach of any run.
