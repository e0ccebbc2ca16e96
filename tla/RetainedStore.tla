--------------------------- MODULE RetainedStore ---------------------------
(***************************************************************************)
(* The bounded store that retains every primary frame a peer still owes    *)
(* the other side: A1 ACK and ERROR responses until they are written, and  *)
(* A2/A3 messages until they are acknowledged, failed or expired           *)
(* (transport/primary_dispatch/store.rs, guarded by the mutex of           *)
(* retained.rs).  The transmitters of several callis claim, write and      *)
(* complete items concurrently with the reaper and the peer state task.    *)
(*                                                                         *)
(* Every action is one critical section of the store mutex.  What a        *)
(* transmitter does between two critical sections (the stream write) is    *)
(* the interval in which claim[c] is held.                                 *)
(***************************************************************************)
EXTENDS Integers, FiniteSets, Sequences, Functions

CONSTANTS
  TrackedIds,      \* peer_msg_id values of completion-bearing messages
  ResponseIds,     \* peer_msg_id values of the remote's messages we answer
  Tier,            \* classify_priority of each tracked message
  Callis,          \* callis ids, each with one transmitter task
  QueueSizes,      \* values of send_queue_size a configuration may hold
  AckMultiplier, ErrorMultiplier, A2Capacity,
  MaxSlots,        \* slots a lane can grow to under QueueSizes
  SendTimeout, ResponseTTL,
  Disconnects,     \* whether the state task may disconnect a callis that still writes
  MaxSeq, MaxTime, MaxReplay,   \* bounds of the explored behaviours
  None

Lanes == {"A1Ack", "A1Error", "A2", "A3"}
ResponseLanes == {"A1Ack", "A1Error"}
TrackedLanes == {"A2", "A3"}

\* The order in which claim_next tries the lanes.
lane_rank(l) == CASE l = "A1Ack" -> 0 [] l = "A1Error" -> 1 [] l = "A2" -> 2 [] l = "A3" -> 3

\* RetainedCapacities::from_send_queue_size.
RetainedCapacities(q) ==
  [A1Ack |-> q * AckMultiplier, A1Error |-> q * ErrorMultiplier, A2 |-> A2Capacity, A3 |-> q]

Index == 1..MaxSlots
SlotIds == Lanes \X Index
States == {"Empty", "Ready", "ReplayReady", "Writing", "Inflight"}

Items == [kind : {"Ack", "Error"}, id : ResponseIds] \cup [kind : {"Tracked"}, id : TrackedIds]

ASSUME ConstantsAssumption ==
  /\ Tier \in [TrackedIds -> {"A1", "A2", "A3"}]
  /\ QueueSizes \subseteq Nat \ {0}
  /\ AckMultiplier \in Nat \ {0} /\ ErrorMultiplier \in Nat \ {0} /\ A2Capacity \in Nat \ {0}
  /\ MaxSlots \in Nat
  /\ \A q \in QueueSizes : \A l \in Lanes : RetainedCapacities(q)[l] <= MaxSlots
  /\ SendTimeout \in Nat /\ ResponseTTL \in Nat
  /\ Disconnects \in BOOLEAN
  /\ MaxSeq \in Nat /\ MaxTime \in Nat /\ MaxReplay \in Nat
  /\ None \notin Callis /\ None \notin Items /\ None \notin SlotIds

Tracked(id) == [kind |-> "Tracked", id |-> id]
IsTracked(item) == item # None /\ item.kind = "Tracked"
IsResponse(item) == item # None /\ item.kind # "Tracked"

VARIABLES
  slot,       \* RetainedSlot of every slot id; slots beyond len[l] are not pushed yet
  len,        \* slots.len() of each lane
  free,       \* the free indices of each lane
  ready,      \* fresh FIFO queue of keys of each lane
  replay,     \* replay queue of keys of each lane
  target,     \* target_capacity
  live,       \* live_count
  tracked,    \* peer_msg_id -> slot id of tracked items
  responses,  \* peer_msg_id -> slot id of retained responses
  deadlines,  \* the deadline heap, as the set of its keys
  nextSeq, shutdown,
  now,        \* Instant::now()
  reaper,     \* the reaper task: "idle", "due" once it has decided to expire
  claim,      \* the claim each transmitter holds while it writes
  outcome     \* what the oneshot of the tracked insertion with this seq carries

storeVars == <<slot, len, free, ready, replay, target, live, tracked, responses, nextSeq, outcome>>
vars == <<slot, len, free, ready, replay, target, live, tracked, responses, deadlines,
          nextSeq, shutdown, now, reaper, claim, outcome>>

EmptySlot == [item |-> None, deadline |-> 0, seq |-> 0, state |-> "Empty", callis |-> None]
Results == {"none", "pending", "Ok", "Err"}   \* the ErrorId of an Err is left out
Keys == [index : Index, seq : Nat]
DeadlineKeys == [deadline : Nat, at : SlotIds, seq : Nat]
Claims == [at : SlotIds, seq : Nat, item : Items, deadline : Nat]

\* Every variable has its type; in particular a sequence number is never 0 and
\* every number handed out has an outcome entry.
TypeOK ==
  /\ slot \in [SlotIds -> [item : Items \cup {None}, deadline : Nat, seq : Nat,
                           state : States, callis : Callis \cup {None}]]
  /\ len \in [Lanes -> Nat]
  /\ free \in [Lanes -> SUBSET Index]
  /\ ready \in [Lanes -> Seq(Keys)]
  /\ replay \in [Lanes -> Seq(Keys)]
  /\ target \in [Lanes -> Nat]
  /\ live \in [Lanes -> Nat]
  /\ tracked \in [TrackedIds -> SlotIds \cup {None}]
  /\ responses \in [ResponseIds -> SlotIds \cup {None}]
  /\ deadlines \subseteq DeadlineKeys
  /\ nextSeq \in Nat \ {0}
  /\ shutdown \in BOOLEAN
  /\ now \in Nat
  /\ reaper \in {"idle", "due"}
  /\ claim \in [Callis -> Claims \cup {None}]
  /\ outcome \in [1..(nextSeq - 1) -> Results]

Init ==
  \E q \in QueueSizes :
    /\ slot = [s \in SlotIds |-> EmptySlot]
    /\ len = RetainedCapacities(q)
    /\ free = [l \in Lanes |-> 1..RetainedCapacities(q)[l]]
    /\ ready = [l \in Lanes |-> <<>>]
    /\ replay = [l \in Lanes |-> <<>>]
    /\ target = RetainedCapacities(q)
    /\ live = [l \in Lanes |-> 0]
    /\ tracked = [id \in TrackedIds |-> None]
    /\ responses = [id \in ResponseIds |-> None]
    /\ deadlines = {}
    /\ nextSeq = 1
    /\ shutdown = FALSE
    /\ now = 0
    /\ reaper = "idle"
    /\ claim = [c \in Callis |-> None]
    /\ outcome = <<>>

-----------------------------------------------------------------------------
(* Lane bookkeeping *)

set_capacities_truncating(q) ==
  /\ len' = RetainedCapacities(q)
  /\ free' = [l \in Lanes |-> free[l] \cup (len[l] + 1)..RetainedCapacities(q)[l]]
  /\ target' = RetainedCapacities(q)
  /\ UNCHANGED <<slot, ready, replay, live, tracked, responses, deadlines, nextSeq,
                 shutdown, now, reaper, claim, outcome>>

\* LaneState::set_target_capacity for every lane: slots are added, never taken away.
set_capacities(q) ==
  /\ len' = [l \in Lanes |-> IF RetainedCapacities(q)[l] > len[l]
                             THEN RetainedCapacities(q)[l] ELSE len[l]]
  /\ free' = [l \in Lanes |-> free[l] \cup (len[l] + 1)..RetainedCapacities(q)[l]]
  /\ target' = RetainedCapacities(q)
  /\ UNCHANGED <<slot, ready, replay, live, tracked, responses, deadlines, nextSeq,
                 shutdown, now, reaper, claim, outcome>>

available(l) == live[l] < target[l]

\* The index LaneState::allocate may take: the free list is a stack whose order
\* follows HashMap iteration in fail_all, so any free index can be on top.
allocatable(l) ==
  IF ~available(l) THEN {}
  ELSE IF free[l] # {} THEN free[l]
  ELSE IF len[l] < target[l] THEN {len[l] + 1}
  ELSE {}

\* The sequence number after nextSeq: wrapping_add(1).max(1) on a u64 that no
\* behaviour wraps.
next_seq == nextSeq + 1

\* VecDeque::push_back of a queue key.
push_back(queue, key) == Append(queue, key)

\* RetainedStore::allocate on index i of lane l; result is what the insertion's
\* oneshot holds (responses have none).
allocate(l, i, item, d, result) ==
  /\ slot' = [slot EXCEPT ![<<l, i>>] =
                [item |-> item, deadline |-> d, seq |-> nextSeq, state |-> "Ready", callis |-> None]]
  /\ len' = [len EXCEPT ![l] = IF i > @ THEN i ELSE @]
  /\ free' = [free EXCEPT ![l] = @ \ {i}]
  /\ live' = [live EXCEPT ![l] = @ + 1]
  /\ ready' = [ready EXCEPT ![l] = push_back(@, [index |-> i, seq |-> nextSeq])]
  /\ deadlines' = deadlines \cup {[deadline |-> d, at |-> <<l, i>>, seq |-> nextSeq]}
  /\ nextSeq' = next_seq
  /\ outcome' = [q \in 1..nextSeq |-> IF q = nextSeq THEN result ELSE outcome[q]]

Occupied(S) == {s \in S : slot[s].item # None}

\* remove_by_slot for every slot of S that holds an item (LaneState::remove_slot
\* returns early on a vacant one); a tracked item's oneshot receives result.
remove_slots(S, result) ==
  LET R == Occupied(S) IN
  /\ slot' = [s \in SlotIds |->
                IF s \in R THEN [item |-> None, deadline |-> slot[s].deadline,
                                 seq |-> slot[s].seq + 1, state |-> "Empty", callis |-> None]
                ELSE slot[s]]
  /\ live' = [l \in Lanes |-> LET n == Cardinality({i \in Index : <<l, i>> \in R})
                              IN  IF live[l] >= n THEN live[l] - n ELSE 0]
  /\ free' = [l \in Lanes |-> free[l] \cup {i \in Index : <<l, i>> \in R}]
  /\ tracked' = [id \in TrackedIds |->
                   IF \E s \in R : slot[s].item = Tracked(id) THEN None ELSE tracked[id]]
  /\ responses' = [id \in ResponseIds |->
                     IF \E s \in R : IsResponse(slot[s].item) /\ slot[s].item.id = id
                     THEN None ELSE responses[id]]
  /\ outcome' = [q \in DOMAIN outcome |->
                   IF \E s \in R : IsTracked(slot[s].item) /\ slot[s].seq = q
                   THEN result ELSE outcome[q]]

-----------------------------------------------------------------------------
(* Insertion *)

never_duplicate(id) == FALSE
contains_tracked(id) == tracked[id] # None
contains_response(id) == responses[id] # None

\* insert_ack / insert_error.  A lane without room still consumes a sequence number.
insert_response(kind, l, id, d) ==
  /\ ~shutdown
  /\ now < d /\ d <= MaxTime
  /\ ~contains_response(id)
  /\ nextSeq <= MaxSeq
  /\ \/ \E i \in allocatable(l) :
          /\ allocate(l, i, [kind |-> kind, id |-> id], d, "none")
          /\ responses' = [responses EXCEPT ![id] = <<l, i>>]
          /\ UNCHANGED <<replay, target, tracked, shutdown, now, reaper, claim>>
     \/ /\ allocatable(l) = {}
        /\ nextSeq' = next_seq
        /\ outcome' = [q \in 1..nextSeq |-> IF q = nextSeq THEN "none" ELSE outcome[q]]
        /\ UNCHANGED <<slot, len, free, ready, replay, target, live, tracked, responses,
                       deadlines, shutdown, now, reaper, claim>>

insert_ack(id) == insert_response("Ack", "A1Ack", id, now + ResponseTTL)
insert_error(id) == insert_response("Error", "A1Error", id, now + ResponseTTL)

tracked_lane(id) == IF Tier[id] = "A2" THEN "A2" ELSE "A3"

\* insert_tracked: the outcomes Shutdown, Expired, Duplicate, A1Tracked and Full
\* leave the store as it is; the caller took the deadline before it got the lock.
insert_tracked(id, d) ==
  /\ ~shutdown
  /\ now < d /\ d <= MaxTime
  /\ ~contains_tracked(id)
  /\ Tier[id] # "A1"
  /\ available(tracked_lane(id))
  /\ nextSeq <= MaxSeq
  /\ \E i \in allocatable(tracked_lane(id)) :
       /\ allocate(tracked_lane(id), i, Tracked(id), d, "pending")
       /\ tracked' = [tracked EXCEPT ![id] = <<tracked_lane(id), i>>]
  /\ UNCHANGED <<replay, target, responses, shutdown, now, reaper, claim>>

-----------------------------------------------------------------------------
(* Transmitters *)

\* A queue key still designates a slot that waits in the state the queue is for.
Current(l, key, state) ==
  slot[<<l, key.index>>].seq = key.seq /\ slot[<<l, key.index>>].state = state

\* The positions claim_from_queue stops at: the first current key, if there is one.
FirstCurrent(l, queue, state) ==
  {n \in 1..Len(queue) : /\ Current(l, queue[n], state)
                         /\ \A m \in 1..(n - 1) : ~Current(l, queue[m], state)}

ReplayPos(l) == IF l \in TrackedLanes THEN FirstCurrent(l, replay[l], "ReplayReady") ELSE {}
ReadyPos(l) == FirstCurrent(l, ready[l], "Ready")

AnyClaimLane ==
  {l \in IF shutdown THEN ResponseLanes ELSE Lanes : ReplayPos(l) \cup ReadyPos(l) # {}}

\* Lanes claim_lane looks at, and the first of them with something to claim.
ClaimLanes == IF shutdown THEN ResponseLanes ELSE Lanes
ClaimLane ==
  {l \in ClaimLanes : /\ ReplayPos(l) \cup ReadyPos(l) # {}
                      /\ \A k \in ClaimLanes : lane_rank(k) < lane_rank(l)
                                               => ReplayPos(k) \cup ReadyPos(k) = {}}

DropFirst(queue, n) == SubSeq(queue, n + 1, Len(queue))

Take(c, l, key) ==
  LET s == <<l, key.index>> IN
  /\ slot' = [slot EXCEPT ![s].state = "Writing", ![s].callis = c]
  /\ claim' = [claim EXCEPT ![c] = [at |-> s, seq |-> slot[s].seq, item |-> slot[s].item,
                                    deadline |-> slot[s].deadline]]

\* claim_next returns a claim.  Every queue tried before the one that yields is
\* popped empty: its keys were all stale.
claim_next(c) ==
  /\ claim[c] = None
  /\ \E l \in ClaimLane :
       LET earlier == {k \in Lanes : lane_rank(k) < lane_rank(l)} IN
       IF ReplayPos(l) # {}
       THEN \E n \in ReplayPos(l) :
              /\ Take(c, l, replay[l][n])
              /\ replay' = [k \in Lanes |-> IF k \in earlier THEN <<>>
                                            ELSE IF k = l THEN DropFirst(replay[l], n) ELSE replay[k]]
              /\ ready' = [k \in Lanes |-> IF k \in earlier THEN <<>> ELSE ready[k]]
       ELSE \E n \in ReadyPos(l) :
              /\ Take(c, l, ready[l][n])
              /\ replay' = [k \in Lanes |-> IF k \in earlier \cup {l} THEN <<>> ELSE replay[k]]
              /\ ready' = [k \in Lanes |-> IF k \in earlier THEN <<>>
                                           ELSE IF k = l THEN DropFirst(ready[l], n) ELSE ready[k]]
  /\ UNCHANGED <<len, free, target, live, tracked, responses, deadlines, nextSeq,
                 shutdown, now, reaper, outcome>>

\* claim_next returns None: the queues of the lanes it looked at are left empty.
claim_none(c) ==
  /\ claim[c] = None
  /\ ClaimLane = {}
  /\ ready' = [l \in Lanes |-> IF l \in ClaimLanes THEN <<>> ELSE ready[l]]
  /\ replay' = [l \in Lanes |-> IF l \in ClaimLanes THEN <<>> ELSE replay[l]]
  /\ UNCHANGED <<slot, len, free, target, live, tracked, responses, deadlines, nextSeq,
                 shutdown, now, reaper, claim, outcome>>

OwnsSlotOnly(c) ==
  claim[c] # None /\ slot[claim[c].at].state = "Writing"

\* The slot is still being written by c for the item c claimed.
Owns(c) ==
  LET k == claim[c] IN
  /\ k # None
  /\ slot[k.at].state = "Writing" /\ slot[k.at].callis = c
  /\ slot[k.at].seq = k.seq /\ slot[k.at].item = k.item

\* complete_write(Ok): a response is done, a tracked item awaits its answer.
complete_write_ok(c) ==
  /\ claim[c] # None
  /\ claim' = [claim EXCEPT ![c] = None]
  /\ \/ /\ Owns(c) /\ IsResponse(claim[c].item)
        /\ remove_slots({claim[c].at}, "none")
        /\ UNCHANGED <<len, ready, replay, target, deadlines, nextSeq, shutdown, now, reaper>>
     \/ /\ Owns(c) /\ IsTracked(claim[c].item)
        /\ slot' = [slot EXCEPT ![claim[c].at].state = "Inflight"]
        /\ UNCHANGED <<len, free, ready, replay, target, live, tracked, responses, deadlines,
                       nextSeq, shutdown, now, reaper, outcome>>
     \/ /\ ~Owns(c)
        /\ UNCHANGED <<storeVars, deadlines, shutdown, now, reaper>>

\* complete_write(Err): the write failed, timed out or was not started.
complete_write_err(c) ==
  /\ claim[c] # None
  /\ claim' = [claim EXCEPT ![c] = None]
  /\ LET at == claim[c].at
         key == [index |-> at[2], seq |-> claim[c].seq]
     IN
     \/ /\ Owns(c) /\ IsResponse(claim[c].item)
        /\ slot' = [slot EXCEPT ![at].state = "Ready", ![at].callis = None]
        /\ ready' = [ready EXCEPT ![at[1]] = push_back(@, key)]
        /\ UNCHANGED replay
     \/ /\ Owns(c) /\ IsTracked(claim[c].item)
        /\ slot' = [slot EXCEPT ![at].state = "ReplayReady"]
        /\ replay' = [replay EXCEPT ![at[1]] = push_back(@, key)]
        /\ UNCHANGED ready
     \/ /\ ~Owns(c)
        /\ UNCHANGED <<slot, ready, replay>>
  /\ UNCHANGED <<len, free, target, live, tracked, responses, deadlines, nextSeq,
                 shutdown, now, reaper, outcome>>

-----------------------------------------------------------------------------
(* Completion, failure, shutdown *)

\* The removals that leave queues, heap, capacity and tasks alone.
vacate(S, result) ==
  /\ remove_slots(S, result)
  /\ UNCHANGED <<len, ready, replay, target, deadlines, nextSeq, now, reaper, claim>>

TrackedSlots == {tracked[id] : id \in TrackedIds} \ {None}
ResponseSlots == {responses[id] : id \in ResponseIds} \ {None}

ack(id) == tracked[id] # None /\ vacate({tracked[id]}, "Ok") /\ UNCHANGED shutdown
fail_one(id) == tracked[id] # None /\ vacate({tracked[id]}, "Err") /\ UNCHANGED shutdown

\* fail_all, called by PrimaryDispatchManager::clear when the peer restarted.
fail_all == TrackedSlots # {} /\ vacate(TrackedSlots, "Err") /\ UNCHANGED shutdown

\* fail_non_a1, called by teardown_peer_handle when the reconnect window expired.
fail_non_a1 ==
  LET S == {s \in TrackedSlots : s[1] \notin ResponseLanes} IN
  S # {} /\ vacate(S, "Err") /\ UNCHANGED shutdown

begin_shutdown_drops_waiters ==
  /\ ~shutdown
  /\ shutdown' = TRUE
  /\ vacate({s \in TrackedSlots : s[1] \notin ResponseLanes}, "pending")

begin_shutdown_spares_writing ==
  /\ ~shutdown
  /\ shutdown' = TRUE
  /\ vacate({s \in TrackedSlots : slot[s].state # "Writing"}, "Err")

begin_shutdown ==
  /\ ~shutdown
  /\ shutdown' = TRUE
  /\ vacate({s \in TrackedSlots : s[1] \notin ResponseLanes}, "Err")

drop_responses == shutdown /\ ResponseSlots # {} /\ vacate(ResponseSlots, "none") /\ UNCHANGED shutdown

-----------------------------------------------------------------------------
(* Replay marking *)

\* The orders in which the keys of a finite set can be pushed.
Orders(keys) == Injection(1..Cardinality(keys), keys)

\* keys[l] are pushed at the back of queue[l], in an order left open: index order
\* in mark_callis_replay_ready, HashMap order in mark_tracked_replay_ready.
PushAll(queue, keys) ==
  {f \in [Lanes -> UNION {{queue[l] \o o : o \in Orders(keys[l])} : l \in Lanes}] :
     \A l \in Lanes : f[l] \in {queue[l] \o o : o \in Orders(keys[l])}}

KeysOf(S) ==
  [l \in Lanes |-> {[index |-> i, seq |-> slot[<<l, i>>].seq] : i \in {j \in Index : <<l, j>> \in S}}]

\* mark_callis_replay_ready(c): what c was writing or had sent goes back.  The
\* sweep covers the lanes A1Error, A2 and A3.  It runs when the tasks of c have
\* ended (ConnectionClosed), or while they still run (Disconnect).
SweptLanes == {"A1Error", "A2", "A3"}

mark_callis_replay_ready(c) ==
  LET swept == {s \in SlotIds : s[1] \in SweptLanes /\ slot[s].callis = c}
      again == {s \in swept : slot[s].state = "Writing" /\ IsResponse(slot[s].item)}
      back  == {s \in swept : slot[s].state \in {"Writing", "Inflight"} /\ IsTracked(slot[s].item)}
  IN
  /\ claim[c] = None \/ Disconnects
  /\ again \cup back # {}
  /\ slot' = [s \in SlotIds |->
                IF s \in again THEN [slot[s] EXCEPT !.state = "Ready", !.callis = None]
                ELSE IF s \in back THEN [slot[s] EXCEPT !.state = "ReplayReady"]
                ELSE slot[s]]
  /\ ready' \in PushAll(ready, KeysOf(again))
  /\ replay' \in PushAll(replay, KeysOf(back))
  /\ UNCHANGED <<len, free, target, live, tracked, responses, deadlines, nextSeq,
                 shutdown, now, reaper, claim, outcome>>

\* mark_tracked_replay_ready(ids) on a resumed session: ids is the snapshot the
\* handshake took, so any of them may have completed since.
mark_tracked_replay_ready(ids) ==
  LET back == {s \in {tracked[id] : id \in ids} \ {None} :
                 slot[s].state \in {"Writing", "Inflight", "ReplayReady"} /\ IsTracked(slot[s].item)}
  IN
  /\ back # {}
  /\ \A l \in Lanes : Len(replay[l]) < MaxReplay
  /\ slot' = [s \in SlotIds |-> IF s \in back THEN [slot[s] EXCEPT !.state = "ReplayReady"] ELSE slot[s]]
  /\ replay' \in PushAll(replay, KeysOf(back))
  /\ UNCHANGED <<len, free, ready, target, live, tracked, responses, deadlines, nextSeq,
                 shutdown, now, reaper, claim, outcome>>

-----------------------------------------------------------------------------
(* Deadlines *)

LiveUnlessInflight(k) ==
  slot[k.at].seq = k.seq /\ slot[k.at].deadline = k.deadline /\ slot[k.at].state \notin {"Empty", "Inflight"}

Live(k) == slot[k.at].seq = k.seq /\ slot[k.at].deadline = k.deadline /\ slot[k.at].state # "Empty"

\* DeadlineKey::cmp, as far as it can tell keys of the heap apart.
Before(j, k) ==
  \/ j.deadline < k.deadline
  \/ j.deadline = k.deadline /\ lane_rank(j.at[1]) < lane_rank(k.at[1])
  \/ j.deadline = k.deadline /\ j.at[1] = k.at[1] /\ j.at[2] < k.at[2]
  \/ j.deadline = k.deadline /\ j.at = k.at /\ j.seq < k.seq

\* next_deadline: stale keys above the first live one are popped.  The reaper
\* goes on to expire once that key is due, and stops when it sees the shutdown.
next_deadline ==
  LET rest == {k \in deadlines : \E j \in deadlines : Live(j) /\ (j = k \/ Before(j, k))} IN
  /\ reaper = "idle"
  /\ ~shutdown
  /\ deadlines' = rest
  /\ reaper' = IF \E k \in rest : k.deadline <= now THEN "due" ELSE "idle"
  /\ UNCHANGED <<storeVars, shutdown, now, claim>>

\* expire_due, entered after the reaper last looked at the shutdown flag.
expire_due ==
  LET due == {k \in deadlines : k.deadline <= now} IN
  /\ reaper = "due"
  /\ reaper' = "idle"
  /\ deadlines' = deadlines \ due
  /\ remove_slots({k.at : k \in {j \in due : Live(j)}}, "Err")
  /\ UNCHANGED <<len, ready, replay, target, nextSeq, shutdown, now, claim>>

Tick ==
  /\ now < MaxTime
  /\ now' = now + 1
  /\ UNCHANGED <<storeVars, deadlines, shutdown, reaper, claim>>

-----------------------------------------------------------------------------
\* One step of run_primary_transmitter.  A write fails when the claim is already
\* past its deadline, prepare_dispatch refuses it, or the connection does.
Transmitter(c) ==
  \/ claim_next(c) \/ claim_none(c)
  \/ complete_write_ok(c) \/ complete_write_err(c)

\* What senders, readers, the session and the peer state task ask of the
\* PrimaryDispatchManager, in any order.
DispatchManager ==
  \/ \E q \in QueueSizes : set_capacities(q)
  \/ \E id \in ResponseIds : insert_ack(id) \/ insert_error(id)
  \/ \E id \in TrackedIds, d \in 0..(now + SendTimeout) : insert_tracked(id, d)
  \/ \E c \in Callis : mark_callis_replay_ready(c)
  \/ \E id \in TrackedIds : ack(id) \/ fail_one(id)
  \/ fail_all \/ fail_non_a1 \/ begin_shutdown \/ drop_responses
  \/ \E ids \in SUBSET TrackedIds : mark_tracked_replay_ready(ids)

Next ==
  \/ \E c \in Callis : Transmitter(c)
  \/ DispatchManager
  \/ next_deadline \/ expire_due \/ Tick

Spec == Init /\ [][Next]_vars

\* The reaper task and the clock keep going; transmitters and callers owe nothing.
FairSpec == Spec /\ WF_vars(next_deadline) /\ WF_vars(expire_due) /\ WF_vars(Tick)

-----------------------------------------------------------------------------
(* Properties *)

\* Nothing is stranded: an item that waits to be written has a key in the queue
\* that claim_next will pop for it, however often it was claimed, swept, failed
\* or replayed before.
NoStrandedItem ==
  \A l \in Lanes, i \in Index :
    LET key == [index |-> i, seq |-> slot[<<l, i>>].seq] IN
    /\ slot[<<l, i>>].state = "Ready" => key \in Range(ready[l])
    /\ slot[<<l, i>>].state = "ReplayReady" => l \in TrackedLanes /\ key \in Range(replay[l])

\* The counters and the free list agree with the slots, so an admission that
\* found the lane available never reaches insert_tracked's unreachable!().
SlotAccounting ==
  \A l \in Lanes :
    /\ live[l] = Cardinality({i \in Index : slot[<<l, i>>].item # None})
    /\ free[l] = {i \in 1..len[l] : slot[<<l, i>>].item = None}
    /\ available(l) => allocatable(l) # {}

\* The lookup maps and the slots describe each other exactly: an ACK resolves the
\* message it names, and at most one response is retained per message.
IndexesMatchSlots ==
  /\ \A id \in TrackedIds : tracked[id] # None => slot[tracked[id]].item = Tracked(id)
  /\ \A id \in ResponseIds : responses[id] # None =>
        IsResponse(slot[responses[id]].item) /\ slot[responses[id]].item.id = id
  /\ \A s \in SlotIds :
        /\ IsTracked(slot[s].item) => tracked[slot[s].item.id] = s /\ s[1] \in TrackedLanes
        /\ IsResponse(slot[s].item) => responses[slot[s].item.id] = s /\ s[1] \in ResponseLanes

\* A sequence number names one retained item of the whole store, so a queue key,
\* a heap key or a claim that outlived its item never matches the next occupant.
SeqsIdentifyItems ==
  \A s, t \in SlotIds : slot[s].item # None =>
    /\ slot[s].seq \in 1..(nextSeq - 1)
    /\ slot[t].item # None /\ slot[t].seq = slot[s].seq => t = s

\* A sender's oneshot is unresolved exactly while its message is retained: no
\* completion is lost by slot reuse, expiry, restart or shutdown.
WaiterIffRetained ==
  \A q \in DOMAIN outcome :
    outcome[q] = "pending" <=> \E s \in SlotIds : IsTracked(slot[s].item) /\ slot[s].seq = q

\* Every retained item is still covered by a key of the deadline heap, although
\* next_deadline and expire_due discard keys of earlier occupants of its slot.
DeadlineCovered ==
  \A s \in SlotIds : slot[s].item # None =>
    [deadline |-> slot[s].deadline, at |-> s, seq |-> slot[s].seq] \in deadlines

\* Once shutdown began no completion-bearing message is retained or being admitted.
ShutdownRetainsNoTracked == shutdown => \A s \in SlotIds : ~IsTracked(slot[s].item)

\* Slots and capacity bounds: a slot is vacant exactly when it is Empty, and no
\* slot beyond the pushed ones is in use.
SlotShape ==
  /\ \A s \in SlotIds : slot[s].item = None <=> slot[s].state = "Empty"
  /\ \A l \in Lanes : len[l] <= MaxSlots /\ target[l] <= MaxSlots
  /\ \A l \in Lanes, i \in Index : i > len[l] => slot[<<l, i>>].item = None

\* The counters and free lists agree with the slots.
LaneCounts ==
  \A l \in Lanes :
    /\ live[l] = Cardinality({i \in Index : slot[<<l, i>>].item # None})
    /\ free[l] = {i \in 1..len[l] : slot[<<l, i>>].item = None}

\* The part of the invariant that only looks at who occupies which slot.
Occupancy ==
  /\ SlotShape
  /\ SeqsIdentifyItems
  /\ LaneCounts
  /\ IndexesMatchSlots
  /\ WaiterIffRetained

\* The inductive invariant: queues, lookup maps, counters, waiters and the heap
\* agree on who is retained, whatever the interleaving of admissions, claims,
\* completions, sweeps, resizes, expiry and shutdown.
IInv ==
  /\ TypeOK
  /\ Occupancy
  /\ NoStrandedItem
  /\ DeadlineCovered
  /\ ShutdownRetainsNoTracked

Dispatchable(l) == {s \in SlotIds : s[1] = l /\ slot[s].state \in {"Ready", "ReplayReady"}}

\* Strict priority: a transmitter never claims from a lane while an item of a
\* more urgent lane waits, nor a fresh message while its lane has a replay waiting.
StrictPriority ==
  [][\A c \in Callis : claim[c] = None /\ claim'[c] # None =>
       LET s == claim'[c].at IN
       /\ \A l \in Lanes : lane_rank(l) < lane_rank(s[1]) => Dispatchable(l) = {}
       /\ slot[s].state = "Ready" =>
            \A t \in Dispatchable(s[1]) : slot[t].state = "Ready"]_vars

\* A write result touches at most the slot it was claimed from, and only while
\* that slot still holds the claimed item.
StaleCompletionIgnored ==
  [][\A c \in Callis : claim[c] # None /\ claim'[c] = None =>
       \A s \in SlotIds : slot'[s] # slot[s] =>
         s = claim[c].at /\ slot[s].seq = claim[c].seq /\ slot[s].callis = c]_vars

\* Every sender learns a result: no retained message outlives its deadline for
\* ever, whatever state it is in and even if every callis is gone.
EverySenderAnswered ==
  \A q \in 1..MaxSeq :
    (q \in DOMAIN outcome /\ outcome[q] = "pending")
      ~> (q \in DOMAIN outcome /\ outcome[q] # "pending")
=============================================================================
