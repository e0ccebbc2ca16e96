-------------------------- MODULE OutboundRingProofs --------------------------
(***************************************************************************)
(* Proofs about OutboundRing, for every window, chunk size, set of callis  *)
(* and bound: the ring's books stay exact, no accepted byte is lost in     *)
(* chunk assembly, a successful shutdown means delivery, and a chunk       *)
(* leaves the ring only through the answer to its current attempt.         *)
(*                                                                         *)
(* The inductive invariant has four parts.  Books (RingBooks) is about the *)
(* ring alone.  Account relates it to the chunks made and the bytes        *)
(* accepted.  Tasks relates its slots to what the transmitters hold        *)
(* and what is on the wire.  Finish relates its lifecycle to how the       *)
(* sender was closed.                                                      *)
(***************************************************************************)
EXTENDS OutboundRing, RingProofs

Ids == Callis \cup {0}

Phases == {"leased", "marked"}

----------------------------------------------------------------------------
(* The invariant. *)

\* After the chunks e the ring r accounts for a bytes.
Account(r, e, a) ==
    /\ e \in Seq(Chunk) /\ Len(e) = r.next_chunk_id
    /\ a \in Nat /\ a = Bytes(e) + Buffered(r)

\* What the transmitter of callis k may hold, while message ids below n are used.
Holds(r, k, x, n) ==
    /\ x = [phase |-> x.phase, lease |-> x.lease] /\ x.phase \in Phases
    /\ IsLease(x.lease) /\ x.lease.callis_id = k
    /\ x.lease.chunk_id \in Nat /\ x.lease.chunk_id < r.next_chunk_id
    /\ x.lease.peer_msg_id \in Nat /\ x.lease.peer_msg_id < n

\* The slots with an attempt of the ring r against the holdings h, the wire w
\* and the next message id n: no two attempts share an id, an attempt of a
\* transmitter is stamped with it, a slot in Writing is leased as it stands, and
\* an attempt in flight is with its transmitter or on the wire.
Tasks(r, h, w, n) ==
    /\ n \in Nat /\ h = [k \in Callis |-> h[k]]
    /\ \A k \in Callis : h[k] = Idle \/ Holds(r, k, h[k], n)
    /\ \A k, l \in Callis :
         h[k] # Idle /\ h[l] # Idle /\ h[k].lease.peer_msg_id = h[l].lease.peer_msg_id => k = l
    /\ \A i \in Attempted(r) : r.slots[i].peer_msg_id < n
    /\ \A i \in Attempted(r), k \in Callis :
         h[k] # Idle /\ h[k].lease.peer_msg_id = r.slots[i].peer_msg_id =>
           r.slots[i].callis_id = k
    /\ \A i \in InState(r, "Writing") : \E k \in Callis :
         /\ h[k] # Idle /\ h[k].phase = "leased"
         /\ r.slots[i] = InPhase(h[k].lease, "Writing")
    /\ \A i \in InState(r, "InFlight") :
         \/ r.slots[i].peer_msg_id \in DOMAIN w
         \/ \E k \in Callis : /\ h[k] # Idle /\ h[k].phase = "marked"
                             /\ h[k].lease.peer_msg_id = r.slots[i].peer_msg_id

\* The chunks e end with the last one.
Ended(e) == e # <<>> /\ e[Len(e)].is_last

\* All of them were written.
AllOut(e, out) == Ended(e) /\ out = 0..(Len(e) - 1)

\* Nothing waits to be made a chunk.
Flushed(r) == r.write_buf = 0 /\ r.pending_full = FALSE

\* The lifecycles before the seal, and those after it that have not ended.
Unsealed == {"Open", "Sealing"}

SealedOff == {"AwaitingComplete", "Completed"}

Finish(r, e, out, how) ==
    /\ Ended(e) => Flushed(r) /\ r.lifecycle \notin Unsealed
    /\ r.lifecycle \in SealedOff => Flushed(r)
    /\ r.lifecycle = "Completed" => AllOut(e, out)
    /\ out \subseteq 0..(Len(e) - 1)
    /\ how = "ok" => AllOut(e, out) /\ Occupied(r) = {}
    /\ LastOnly(e)

Results == {"no", "sealing", "sealed", "ok", "failed", "dropped"}

IInv ==
    /\ Books(ring, Ids)
    /\ Account(ring, emitted, accepted)
    /\ Tasks(ring, holding, wire, next_id)
    /\ Finish(ring, emitted, written, shutdown)
    /\ shutdown \in Results

\* Ok is returned only by a sender that is closed.
OkWhenClosed == result = "ok" => shutdown \in {"ok", "failed"}

\* What FreedOnlyByItsAnswer says of one step.
Freed ==
    \A i \in Slots :
        ring.slots[i].state # "Empty" /\ ring'.slots[i].state = "Empty" =>
            /\ ring.slots[i].state = "InFlight"
            /\ ring.slots[i].peer_msg_id \in DOMAIN wire \ DOMAIN wire'

----------------------------------------------------------------------------
(* How the parts of the invariant follow the ring. *)

\* t has no attempt that r does not have.
NoNewAttempt(r, t) ==
    /\ r.next_chunk_id \in Nat /\ t.next_chunk_id \in Nat /\ r.next_chunk_id <= t.next_chunk_id
    /\ \A i \in Attempted(t) : i \in Attempted(r) /\ t.slots[i] = r.slots[i]

\* A holding of r is one of t.
LEMMA HoldsOn ==
  ASSUME NEW r, NEW t, NEW k, NEW x, NEW n \in Nat, NEW m \in Nat, n <= m, Holds(r, k, x, n),
         r.next_chunk_id \in Nat, t.next_chunk_id \in Nat, r.next_chunk_id <= t.next_chunk_id
  PROVE  Holds(t, k, x, m)
BY DEF Holds

\* The states of an attempt.
LEMMA AttemptStates ==
  ASSUME NEW r
  PROVE  /\ InState(r, "Writing") \subseteq Attempted(r)
         /\ InState(r, "InFlight") \subseteq Attempted(r)
         /\ \A i \in Attempted(r) : i \in InState(r, "Writing") \/ i \in InState(r, "InFlight")
         /\ Attempted(r) \subseteq Occupied(r) /\ Occupied(r) \subseteq Slots
BY DEF InState, Attempted, Occupied

\* Nothing else changed.
LEMMA TasksKept ==
  ASSUME NEW r, NEW t, NEW h, NEW w, NEW n, Tasks(r, h, w, n), NoNewAttempt(r, t)
  PROVE  Tasks(t, h, w, n)
<1>1. /\ \A i \in InState(t, "Writing") : i \in InState(r, "Writing") /\ t.slots[i] = r.slots[i]
      /\ \A i \in InState(t, "InFlight") : i \in InState(r, "InFlight") /\ t.slots[i] = r.slots[i]
  <2>1. /\ \A i \in InState(t, "Writing") : i \in Attempted(t)
        /\ \A i \in InState(t, "InFlight") : i \in Attempted(t)
    BY AttemptStates
  <2> QED BY <2>1 DEF NoNewAttempt, InState
<1>2. \A k \in Callis : h[k] = Idle \/ Holds(t, k, h[k], n)
  <2> TAKE k \in Callis
  <2>1. n \in Nat /\ n <= n
    BY DEF Tasks
  <2> QED BY <2>1, HoldsOn DEF Tasks, NoNewAttempt
<1>3. /\ \A i \in Attempted(t) : t.slots[i].peer_msg_id < n
      /\ \A i \in Attempted(t), k \in Callis :
           h[k] # Idle /\ h[k].lease.peer_msg_id = t.slots[i].peer_msg_id =>
             t.slots[i].callis_id = k
  BY DEF Tasks, NoNewAttempt
<1>4. \A i \in InState(t, "Writing") : \E k \in Callis :
         /\ h[k] # Idle /\ h[k].phase = "leased"
         /\ t.slots[i] = InPhase(h[k].lease, "Writing")
  BY <1>1 DEF Tasks
<1>5. \A i \in InState(t, "InFlight") :
         \/ t.slots[i].peer_msg_id \in DOMAIN w
         \/ \E k \in Callis : /\ h[k] # Idle /\ h[k].phase = "marked"
                             /\ h[k].lease.peer_msg_id = t.slots[i].peer_msg_id
  BY <1>1 DEF Tasks
<1> QED BY <1>2, <1>3, <1>4, <1>5 DEF Tasks

\* An answered id leaves the wire when no attempt in flight has it.
LEMMA TasksAnswered ==
  ASSUME NEW r, NEW h, NEW w, NEW n, NEW m, Tasks(r, h, w, n),
         \A i \in InState(r, "InFlight") : r.slots[i].peer_msg_id # m
  PROVE  Tasks(r, h, Without(w, m), n)
<1>1. DOMAIN Without(w, m) = DOMAIN w \ {m}
  BY DEF Without
<1> QED BY <1>1 DEF Tasks

\* What a transmitter holds from now on.
HeldOn(h, k, x) == [h EXCEPT ![k] = x]

\* The holdings after transmitter k changed its own.
LEMMA HeldOnAt ==
  ASSUME NEW h, h = [l \in Callis |-> h[l]], NEW k \in Callis, NEW x, NEW g, g = HeldOn(h, k, x)
  PROVE  /\ g = [l \in Callis |-> g[l]] /\ g[k] = x
         /\ \A l \in Callis : l # k => g[l] = h[l]
BY DEF HeldOn

\* Transmitter k is done and no attempt is stamped with it, or its attempt is
\* on the wire.
LEMMA TasksReleased ==
  ASSUME NEW r, NEW h, NEW w, NEW v, NEW n, NEW k \in Callis, Tasks(r, h, w, n),
         DOMAIN w \subseteq DOMAIN v, 
         \/ \A i \in Attempted(r) : r.slots[i].callis_id # k
         \/ h[k] # Idle /\ h[k].phase = "marked" /\ h[k].lease.peer_msg_id \in DOMAIN v
  PROVE  Tasks(r, HeldOn(h, k, Idle), v, n)
<1> DEFINE g == HeldOn(h, k, Idle)
<1>1. /\ g = [l \in Callis |-> g[l]] /\ g[k] = Idle
      /\ \A l \in Callis : l # k => g[l] = h[l]
  BY HeldOnAt DEF Tasks
<1> HIDE DEF g
<1>2. /\ \A l \in Callis : g[l] = Idle \/ Holds(r, l, g[l], n)
      /\ \A l \in Callis : g[l] # Idle => g[l] = h[l] /\ h[l] # Idle
  BY <1>1 DEF Tasks
<1>3. \A i \in InState(r, "Writing") : \E l \in Callis :
         /\ g[l] # Idle /\ g[l].phase = "leased"
         /\ r.slots[i] = InPhase(g[l].lease, "Writing")
  <2> TAKE i \in InState(r, "Writing")
  <2>1. PICK l \in Callis : /\ h[l] # Idle /\ h[l].phase = "leased"
                            /\ r.slots[i] = InPhase(h[l].lease, "Writing")
    BY DEF Tasks
  <2>2. r.slots[i].callis_id = l
    BY <2>1 DEF Tasks, Holds, InPhase
  <2>3. i \in Attempted(r)
    BY AttemptStates
  <2>4. l # k
    BY <2>1, <2>2, <2>3
  <2> QED BY <1>1, <2>1, <2>4
<1>4. \A i \in InState(r, "InFlight") :
         \/ r.slots[i].peer_msg_id \in DOMAIN v
         \/ \E l \in Callis : /\ g[l] # Idle /\ g[l].phase = "marked"
                             /\ g[l].lease.peer_msg_id = r.slots[i].peer_msg_id
  <2> TAKE i \in InState(r, "InFlight")
  <2>1. CASE r.slots[i].peer_msg_id \in DOMAIN w
    BY <2>1
  <2>2. CASE r.slots[i].peer_msg_id \notin DOMAIN w
    <3>1. PICK l \in Callis : /\ h[l] # Idle /\ h[l].phase = "marked"
                              /\ h[l].lease.peer_msg_id = r.slots[i].peer_msg_id
      BY <2>2 DEF Tasks
    <3>2. i \in Attempted(r)
      BY AttemptStates
    <3>3. r.slots[i].callis_id = l
      BY <3>1, <3>2 DEF Tasks
    <3>4. CASE l = k
      BY <3>1, <3>2, <3>3, <3>4
    <3>5. CASE l # k
      BY <1>1, <3>1, <3>5
    <3> QED BY <3>4, <3>5
  <2> QED BY <2>1, <2>2
<1>5. /\ \A l, j \in Callis :
           g[l] # Idle /\ g[j] # Idle /\ g[l].lease.peer_msg_id = g[j].lease.peer_msg_id => l = j
      /\ \A i \in Attempted(r), l \in Callis :
           g[l] # Idle /\ g[l].lease.peer_msg_id = r.slots[i].peer_msg_id =>
             r.slots[i].callis_id = l
  BY <1>2 DEF Tasks
<1>6. Tasks(r, g, v, n)
  BY <1>1, <1>2, <1>3, <1>4, <1>5, ZenonT(30) DEF Tasks
<1> QED BY <1>6 DEF g

Leasing(r, h, w, n, k) ==
    /\ Books(r, Ids) /\ Tasks(r, h, w, n) /\ k \in Callis /\ h[k] = Idle
    /\ InState(r, "ReplayReady") # {} \/ InState(r, "Ready") # {}

\* Transmitter k takes a lease under the next message id.
LEMMA TasksLeased ==
  ASSUME NEW r, NEW h, NEW w, NEW n, NEW k, Leasing(r, h, w, n, k),
         NEW t, t = lease_next_chunk_for_write(r, k, n),
         NEW x, x = [phase |-> "leased", lease |-> LeaseOf(t, NextSlot(r))]
  PROVE  /\ Tasks(t, HeldOn(h, k, x), w, n + 1)
         /\ Books(t, Ids) /\ SameStream(r, t) /\ Occupied(t) = Occupied(r)
<1> USE DEF Leasing
<1> DEFINE i == NextSlot(r)
           g == HeldOn(h, k, x)
           new == Leased(r.slots[i], k, n)
<1>1. HasLeased(Ids, r, k, n)
  <2>1. \A j \in Attempted(r) : r.slots[j].peer_msg_id # n
    BY DEF Tasks, Books, RingType
  <2>2. CanLease(Ids, r, k, n)
    BY <2>1 DEF CanLease, Ids, Tasks
  <2> QED BY <2>2, LeaseBooks, ZenonT(30)
<1>2. /\ i \in Slots /\ r.slots[i].state \in {"ReplayReady", "Ready"}
      /\ t.slots[i] = new
      /\ \A j \in Slots : j # i => t.slots[j] = r.slots[j]
      /\ SameStream(r, t) /\ Books(t, Ids)
  BY <1>1, Zenon DEF HasLeased
<1>3. /\ new.state = "Writing" /\ new.chunk_id = r.slots[i].chunk_id /\ new.peer_msg_id = n
      /\ new.callis_id = k /\ IsLease(new) /\ new = InPhase(new, "Writing")
  BY DEF Leased, IsLease, InPhase
<1> HIDE DEF new, i
<1>4. /\ x = [phase |-> x.phase, lease |-> x.lease] /\ x.phase = "leased"
      /\ x.lease = InPhase(new, "Lease") /\ x # Idle
  <2>1. LeaseOf(t, i) = InPhase(new, "Lease")
    BY <1>2, <1>3, PhaseAt DEF LeaseOf
  <2>2. x = [phase |-> "leased", lease |-> InPhase(new, "Lease")]
    BY <2>1 DEF i
  <2>3. x.phase = "leased" /\ x.lease = InPhase(new, "Lease")
    BY <2>2
  <2>4. Idle.phase = "idle"
    BY DEF Idle
  <2> QED BY <2>2, <2>3, <2>4
<1>5. /\ x.lease.peer_msg_id = n /\ x.lease.callis_id = k /\ IsLease(x.lease)
      /\ x.lease.chunk_id = r.slots[i].chunk_id
      /\ InPhase(x.lease, "Writing") = new
  BY <1>3, <1>4 DEF InPhase, IsLease
<1>6. /\ g = [l \in Callis |-> g[l]] /\ g[k] = x
      /\ \A l \in Callis : l # k => g[l] = h[l]
  BY HeldOnAt DEF Tasks
<1>7. n \in Nat /\ n + 1 \in Nat /\ n <= n + 1
  BY SMTT(30) DEF Tasks
<1>8. /\ r.slots[i].chunk_id \in Nat /\ r.slots[i].chunk_id < r.next_chunk_id
      /\ r.next_chunk_id \in Nat /\ t.next_chunk_id = r.next_chunk_id
  <2>1. i \in Occupied(r) /\ r.slots[i] \in SlotOf(Ids) /\ r.next_chunk_id \in Nat
    BY <1>2 DEF Occupied, Books, RingType
  <2>2. r.slots[i].chunk_id \in Nat
    BY <2>1 DEF SlotOf
  <2> QED BY <1>2, <2>1, <2>2, ZenonT(30) DEF Books, SameStream
<1> HIDE DEF g
<1>9. Holds(t, k, x, n + 1)
  BY <1>4, <1>5, <1>7, <1>8 DEF Holds, Phases
<1>10. \A l \in Callis : g[l] = Idle \/ Holds(t, l, g[l], n + 1)
  <2> TAKE l \in Callis
  <2>1. CASE l = k
    BY <1>6, <1>9, <2>1
  <2>2. CASE l # k
    <3>1. h[l] = Idle \/ Holds(r, l, h[l], n)
      BY DEF Tasks
    <3>2. r.next_chunk_id <= t.next_chunk_id /\ t.next_chunk_id \in Nat
      BY <1>8
    <3> QED BY <1>6, <1>7, <1>8, <2>2, <3>1, <3>2, HoldsOn, ZenonT(30)
  <2> QED BY <2>1, <2>2
<1>11. \A l \in Callis : l # k /\ g[l] # Idle => h[l] # Idle /\ g[l] = h[l] /\ h[l].lease.peer_msg_id # n
  BY <1>6, <1>7 DEF Tasks, Holds
<1>12. \A l, j \in Callis :
         g[l] # Idle /\ g[j] # Idle /\ g[l].lease.peer_msg_id = g[j].lease.peer_msg_id => l = j
  BY <1>5, <1>6, <1>11 DEF Tasks
<1>13. /\ Attempted(t) = Attempted(r) \cup {i} /\ i \notin Attempted(r) /\ Occupied(t) = Occupied(r)
       /\ InState(t, "Writing") = InState(r, "Writing") \cup {i}
       /\ InState(t, "InFlight") = InState(r, "InFlight")
       /\ \A j \in Attempted(r) : t.slots[j] = r.slots[j]
  BY <1>2, <1>3 DEF Attempted, Occupied, InState
<1>14. \A j \in Attempted(t) : t.slots[j].peer_msg_id < n + 1
  <2>1. \A j \in Attempted(r) : r.slots[j].peer_msg_id \in Nat /\ r.slots[j].peer_msg_id < n
    <3>1. \A j \in Attempted(r) : r.slots[j] \in SlotOf(Ids)
      BY AttemptStates, ZenonT(30) DEF Books, RingType
    <3> QED BY <3>1, ZenonT(30) DEF Tasks, SlotOf
  <2> QED BY <1>2, <1>3, <1>7, <1>13, <2>1
<1>15. \A j \in Attempted(t), l \in Callis :
         g[l] # Idle /\ g[l].lease.peer_msg_id = t.slots[j].peer_msg_id =>
           t.slots[j].callis_id = l
  <2> TAKE j \in Attempted(t), l \in Callis
  <2>1. CASE j = i
    BY <1>2, <1>3, <1>11, <2>1, ZenonT(30)
  <2>2. CASE j # i
    <3>1. j \in Attempted(r) /\ t.slots[j] = r.slots[j] /\ r.slots[j].peer_msg_id # n
      BY <1>7, <1>13, <2>2 DEF Tasks
    <3> QED BY <1>5, <1>6, <1>11, <3>1 DEF Tasks
  <2> QED BY <2>1, <2>2
<1>16. \A j \in InState(t, "Writing") : \E l \in Callis :
         /\ g[l] # Idle /\ g[l].phase = "leased"
         /\ t.slots[j] = InPhase(g[l].lease, "Writing")
  <2> TAKE j \in InState(t, "Writing")
  <2>1. CASE j = i
    BY <1>2, <1>4, <1>5, <1>6, <2>1, ZenonT(30)
  <2>2. CASE j # i
    <3>1. j \in InState(r, "Writing") /\ t.slots[j] = r.slots[j]
      BY <1>13, <2>2, AttemptStates, ZenonT(30)
    <3>2. PICK l \in Callis : /\ h[l] # Idle /\ h[l].phase = "leased"
                              /\ r.slots[j] = InPhase(h[l].lease, "Writing")
      BY <3>1, ZenonT(30) DEF Tasks
    <3> QED BY <1>6, <3>1, <3>2, ZenonT(30)
  <2> QED BY <2>1, <2>2
<1>17. \A j \in InState(t, "InFlight") :
         \/ t.slots[j].peer_msg_id \in DOMAIN w
         \/ \E l \in Callis : /\ g[l] # Idle /\ g[l].phase = "marked"
                             /\ g[l].lease.peer_msg_id = t.slots[j].peer_msg_id
  <2> TAKE j \in InState(t, "InFlight")
  <2>1. j \in InState(r, "InFlight") /\ t.slots[j] = r.slots[j]
    BY <1>13, AttemptStates, ZenonT(30)
  <2>2. CASE r.slots[j].peer_msg_id \in DOMAIN w
    BY <2>1, <2>2
  <2>3. CASE r.slots[j].peer_msg_id \notin DOMAIN w
    <3>1. PICK l \in Callis : /\ h[l] # Idle /\ h[l].phase = "marked"
                              /\ h[l].lease.peer_msg_id = r.slots[j].peer_msg_id
      BY <2>1, <2>3, ZenonT(30) DEF Tasks
    <3> QED BY <1>6, <2>1, <3>1, ZenonT(30)
  <2> QED BY <2>2, <2>3
<1>18. Tasks(t, g, w, n + 1)
  BY <1>6, <1>7, <1>10, <1>12, <1>14, <1>15, <1>16, <1>17, ZenonT(30) DEF Tasks
<1> QED BY <1>2, <1>13, <1>18 DEF g

Marking(r, h, w, n, k) ==
    /\ Books(r, Ids) /\ Tasks(r, h, w, n) /\ k \in Callis /\ h[k] # Idle /\ h[k].phase = "leased"

\* Transmitter k marks its lease, whether or not it still matches.
LEMMA TasksMarked ==
  ASSUME NEW r, NEW h, NEW w, NEW n, NEW k, Marking(r, h, w, n, k),
         NEW t, t = mark_inflight(r, h[k].lease),
         NEW x, x = [phase |-> "marked", lease |-> h[k].lease]
  PROVE  /\ Tasks(t, HeldOn(h, k, x), w, n)
         /\ Books(t, Ids) /\ SameStream(r, t) /\ Occupied(t) = Occupied(r)
<1> USE DEF Marking
<1> DEFINE g == HeldOn(h, k, x)
           mine == h[k].lease
<1>1. /\ x.phase = "marked" /\ x.lease = mine /\ x = [phase |-> x.phase, lease |-> x.lease]
      /\ x # Idle
  <2>1. Idle.phase = "idle"
    BY DEF Idle
  <2> QED BY <2>1
<1>2. /\ g = [l \in Callis |-> g[l]] /\ g[k] = x
      /\ \A l \in Callis : l # k => g[l] = h[l]
  BY HeldOnAt DEF Tasks
<1>3. Holds(r, k, h[k], n)
  BY DEF Tasks
<1> HIDE DEF g
<1>4. /\ \A l \in Callis : g[l] # Idle => h[l] # Idle /\ g[l].lease = h[l].lease
      /\ \A l \in Callis : g[l] = Idle \/ Holds(r, l, g[l], n)
  <2>1. Holds(r, k, x, n)
    BY <1>1, <1>3, SMTT(30) DEF Holds, Phases
  <2> QED BY <1>1, <1>2, <2>1, ZenonT(30) DEF Tasks
<1>5. /\ SameStream(r, t) /\ Books(t, Ids)
      /\ Attempted(t) = Attempted(r) /\ Occupied(t) = Occupied(r)
      /\ \A j \in Attempted(r) : /\ t.slots[j].peer_msg_id = r.slots[j].peer_msg_id
                                /\ t.slots[j].callis_id = r.slots[j].callis_id
      /\ \A j \in InState(t, "Writing") : /\ j \in InState(r, "Writing") /\ t.slots[j] = r.slots[j]
                                         /\ r.slots[j].peer_msg_id # mine.peer_msg_id
      /\ \A j \in InState(t, "InFlight") :
           \/ j \in InState(r, "InFlight") /\ t.slots[j] = r.slots[j]
           \/ t.slots[j].peer_msg_id = mine.peer_msg_id
  <2>1. CASE Matches(r, mine)
    <3> DEFINE i == r.chunk_index[mine.chunk_id]
    <3>1. HasMarked(Ids, r, mine)
      <4>1. CanMark(Ids, r, mine)
        BY <1>3, <2>1 DEF CanMark, Holds
      <4> QED BY <4>1, MarkBooks, ZenonT(30)
    <3>2. /\ i \in Slots /\ r.slots[i].state = "Writing"
          /\ r.slots[i].peer_msg_id = mine.peer_msg_id /\ r.slots[i].chunk_id = mine.chunk_id
          /\ t.slots[i] = InPhase(r.slots[i], "InFlight")
          /\ \A j \in Slots : j # i => t.slots[j] = r.slots[j]
          /\ SameStream(r, t) /\ Books(t, Ids)
      BY <3>1, Zenon DEF HasMarked
    <3>3. /\ t.slots[i].state = "InFlight" /\ t.slots[i].peer_msg_id = r.slots[i].peer_msg_id
          /\ t.slots[i].callis_id = r.slots[i].callis_id
      <4>1. ASSUME NEW old, NEW new, new = InPhase(old, "InFlight")
            PROVE  /\ new.state = "InFlight" /\ new.peer_msg_id = old.peer_msg_id
                   /\ new.callis_id = old.callis_id
        BY <4>1, ZenonT(30) DEF InPhase
      <4> QED BY <3>2, <4>1, ZenonT(30)
    <3> HIDE DEF i, mine
    <3>4. Attempted(t) = Attempted(r) /\ Occupied(t) = Occupied(r)
      BY <3>2, <3>3, ZenonT(30) DEF Attempted, Occupied
    <3>5. \A j \in Attempted(r) : /\ t.slots[j].peer_msg_id = r.slots[j].peer_msg_id
                                /\ t.slots[j].callis_id = r.slots[j].callis_id
      BY <3>2, <3>3, AttemptStates, ZenonT(30)
    <3>6. \A j \in Slots : r.slots[j].state \in {"Writing", "InFlight"} /\ j # i
                             => r.slots[j].peer_msg_id # mine.peer_msg_id
      <4>1. \A j, l \in Attempted(r) : r.slots[j].peer_msg_id = r.slots[l].peer_msg_id => j = l
        BY ZenonT(30) DEF Books
      <4>2. i \in Attempted(r)
        BY <3>2, ZenonT(30) DEF Attempted
      <4> QED BY <3>2, <4>1, <4>2, ZenonT(30) DEF Attempted
    <3>7. \A j \in InState(t, "Writing") : /\ j \in InState(r, "Writing") /\ t.slots[j] = r.slots[j]
                                         /\ r.slots[j].peer_msg_id # mine.peer_msg_id
      BY <3>2, <3>3, <3>6, ZenonT(30) DEF InState
    <3>8. \A j \in InState(t, "InFlight") :
           \/ j \in InState(r, "InFlight") /\ t.slots[j] = r.slots[j]
           \/ t.slots[j].peer_msg_id = mine.peer_msg_id
      BY <3>2, <3>3, ZenonT(30) DEF InState
    <3> QED BY <3>2, <3>4, <3>5, <3>7, <3>8, ZenonT(30)
  <2>2. CASE ~Matches(r, mine)
    <3>1. t = r /\ SameStream(r, r)
      BY <2>2 DEF mark_inflight, SameStream
    <3>2. ASSUME NEW j \in InState(r, "Writing"), r.slots[j].peer_msg_id = mine.peer_msg_id
          PROVE  FALSE
      <4>1. PICK l \in Callis : /\ h[l] # Idle /\ h[l].phase = "leased"
                                /\ r.slots[j] = InPhase(h[l].lease, "Writing")
        BY ZenonT(30) DEF Tasks
      <4>2. h[l].lease.peer_msg_id = mine.peer_msg_id
        BY <3>2, <4>1 DEF InPhase
      <4>3. l = k
        BY <4>1, <4>2, ZenonT(30) DEF Tasks
      <4>4. r.slots[j] = InPhase(mine, "Writing") /\ r.slots[j].chunk_id = mine.chunk_id
        BY <4>1, <4>3, SMTT(30) DEF InPhase
      <4>5. /\ j \in Occupied(r) /\ mine.chunk_id \in DOMAIN r.chunk_index
            /\ r.chunk_index[mine.chunk_id] = j
        BY <4>4, AttemptStates, ZenonT(30) DEF Books
      <4>6. r.slots[j] = [mine EXCEPT !.state = "Writing"]
        BY <1>3, <4>4, PhaseAt, ZenonT(30) DEF Holds
      <4> QED BY <2>2, <4>5, <4>6, ZenonT(30) DEF Matches
    <3> QED BY <3>1, <3>2
  <2> QED BY <2>1, <2>2, ZenonT(30)
<1>6. /\ t.next_chunk_id = r.next_chunk_id /\ n \in Nat
  BY <1>5, ZenonT(30) DEF SameStream, Tasks
<1>7. \A l \in Callis : g[l] = Idle \/ Holds(t, l, g[l], n)
  BY <1>4, <1>6, ZenonT(30) DEF Holds
<1>8. /\ \A l, j \in Callis :
           g[l] # Idle /\ g[j] # Idle /\ g[l].lease.peer_msg_id = g[j].lease.peer_msg_id => l = j
      /\ \A j \in Attempted(t) : t.slots[j].peer_msg_id < n
      /\ \A j \in Attempted(t), l \in Callis :
           g[l] # Idle /\ g[l].lease.peer_msg_id = t.slots[j].peer_msg_id =>
             t.slots[j].callis_id = l
  BY <1>4, <1>5 DEF Tasks
<1>9. \A j \in InState(t, "Writing") : \E l \in Callis :
         /\ g[l] # Idle /\ g[l].phase = "leased"
         /\ t.slots[j] = InPhase(g[l].lease, "Writing")
  <2> TAKE j \in InState(t, "Writing")
  <2>1. /\ j \in InState(r, "Writing") /\ t.slots[j] = r.slots[j]
        /\ r.slots[j].peer_msg_id # mine.peer_msg_id
    BY <1>5
  <2>2. PICK l \in Callis : /\ h[l] # Idle /\ h[l].phase = "leased"
                            /\ r.slots[j] = InPhase(h[l].lease, "Writing")
    BY <2>1, ZenonT(30) DEF Tasks
  <2>3. l # k
    BY <2>1, <2>2, SMTT(30) DEF InPhase
  <2> QED BY <1>2, <2>1, <2>2, <2>3, ZenonT(30)
<1>10. \A j \in InState(t, "InFlight") :
         \/ t.slots[j].peer_msg_id \in DOMAIN w
         \/ \E l \in Callis : /\ g[l] # Idle /\ g[l].phase = "marked"
                             /\ g[l].lease.peer_msg_id = t.slots[j].peer_msg_id
  <2> TAKE j \in InState(t, "InFlight")
  <2>1. CASE t.slots[j].peer_msg_id = mine.peer_msg_id
    BY <1>1, <1>2, <2>1, ZenonT(30)
  <2>2. CASE t.slots[j].peer_msg_id # mine.peer_msg_id /\ t.slots[j].peer_msg_id \notin DOMAIN w
    <3>1. j \in InState(r, "InFlight") /\ t.slots[j] = r.slots[j]
      BY <1>5, <2>2, ZenonT(30)
    <3>2. PICK l \in Callis : /\ h[l] # Idle /\ h[l].phase = "marked"
                              /\ h[l].lease.peer_msg_id = r.slots[j].peer_msg_id
      BY <2>2, <3>1, ZenonT(30) DEF Tasks
    <3>3. l # k
      BY <2>2, <3>1, <3>2, SMTT(30)
    <3> QED BY <1>2, <3>1, <3>2, <3>3, ZenonT(30)
  <2> QED BY <2>1, <2>2, ZenonT(30)
<1>11. Tasks(t, g, w, n)
  BY <1>2, <1>6, <1>7, <1>8, <1>9, <1>10, ZenonT(30) DEF Tasks
<1> QED BY <1>5, <1>11 DEF g

\* t is r with slots freed at most, possibly after it was closed or failed.
Follows(r, t) ==
    /\ t.write_buf = r.write_buf /\ t.pending_full = r.pending_full
    /\ t.next_chunk_id = r.next_chunk_id
    /\ Occupied(t) \subseteq Occupied(r)
    /\ t.lifecycle = r.lifecycle \/ t.lifecycle = "Closed" \/ t.lifecycle = "Failed"

\* Freeing slots, closing and failing keep the account and the lifecycle facts.
LEMMA FinishKept ==
  ASSUME NEW r, NEW t, NEW e, NEW out, NEW how, NEW a, Follows(r, t)
  PROVE  /\ Finish(r, e, out, how) => Finish(t, e, out, how)
         /\ Account(r, e, a) => Account(t, e, a)
<1>1. t.lifecycle # r.lifecycle => t.lifecycle \notin Unsealed /\ t.lifecycle \notin SealedOff
  BY DEF Follows, Unsealed, SealedOff
<1>2. Flushed(t) <=> Flushed(r)
  BY DEF Flushed, Follows
<1>3. Finish(r, e, out, how) => Finish(t, e, out, how)
  <2>1. t.lifecycle = r.lifecycle \/ t.lifecycle # "Completed"
    BY DEF Follows
  <2> QED BY <1>1, <1>2, <2>1 DEF Finish, Follows
<1>4. Account(r, e, a) => Account(t, e, a)
  BY DEF Account, Follows, Buffered
<1> QED BY <1>3, <1>4

\* A chunk id that is written adds to the ones that are out.
LEMMA FinishWritten ==
  ASSUME NEW r, NEW e, NEW out, NEW how, NEW c, c \in 0..(Len(e) - 1),
         Finish(r, e, out, how)
  PROVE  Finish(r, e, out \cup {c}, how)
<1>1. AllOut(e, out) => AllOut(e, out \cup {c})
  BY DEF AllOut
<1>2. out \cup {c} \subseteq 0..(Len(e) - 1)
  BY DEF Finish
<1> QED BY <1>1, <1>2 DEF Finish

\* No slot is freed when the occupied ones stay so.
LEMMA NothingFreed ==
  ASSUME Occupied(ring) \subseteq Occupied(ring')
  PROVE  Freed
BY DEF Freed, Occupied

\* The ring takes a lifecycle step.
LEMMA TurnFollows ==
  ASSUME NEW r, NEW t, Turned(r, t), Books(r, Ids)
  PROVE  /\ Occupied(t) = Occupied(r) /\ NoNewAttempt(r, t)
         /\ t.lifecycle = r.lifecycle \/ t.lifecycle = "Closed" \/ t.lifecycle = "Failed"
              => Follows(r, t)
<1>1. Occupied(t) = Occupied(r) /\ Attempted(t) = Attempted(r)
  BY ZenonT(30) DEF Turned, Occupied, Attempted
<1>2. r.next_chunk_id \in Nat
  BY DEF Books, RingType
<1> QED BY <1>1, <1>2 DEF Turned, NoNewAttempt, Follows

\* mark_callis_replay_ready leaves the callis no attempt.
LEMMA ReplayFollows ==
  ASSUME NEW r, Books(r, Ids), NEW k, NEW t, t = mark_callis_replay_ready(r, k)
  PROVE  /\ Books(t, Ids) /\ Follows(r, t) /\ NoNewAttempt(r, t) /\ Occupied(t) = Occupied(r)
         /\ \A i \in Attempted(t) : t.slots[i].callis_id # k
<1>1. HasReplayed(Ids, r, k)
  <2>1. CanReplay(Ids, r, k)
    BY DEF CanReplay, Ids
  <2> QED BY <2>1, ReplayBooks
<1>2. /\ \A j \in Lost(r, k) : t.slots[j] = Undone(r.slots[j])
      /\ \A j \in Slots \ Lost(r, k) : t.slots[j] = r.slots[j]
      /\ SameStream(r, t) /\ Books(t, Ids)
  BY <1>1, Zenon DEF HasReplayed
<1>3. /\ \A j \in Lost(r, k) : t.slots[j].state = "ReplayReady" /\ j \in Occupied(r) /\ j \in Slots
      /\ \A j \in Slots : r.slots[j].state \in {"Writing", "InFlight"} /\ r.slots[j].callis_id = k
                            => j \in Lost(r, k)
  <2>1. \A j \in Lost(r, k) : Undone(r.slots[j]).state = "ReplayReady"
    BY DEF Undone
  <2>2. \A j \in Lost(r, k) : j \in Occupied(r) /\ j \in Slots
    BY DEF Lost, LostIn, InState, Occupied
  <2>3. \A j \in Slots : r.slots[j].state \in {"Writing", "InFlight"} /\ r.slots[j].callis_id = k
                            => j \in Lost(r, k)
    BY DEF Lost, LostIn, InState
  <2> QED BY <1>2, <2>1, <2>2, <2>3, ZenonT(30)
<1>4. Occupied(t) = Occupied(r)
  BY <1>2, <1>3, ZenonT(30) DEF Occupied
<1>5. \A i \in Attempted(t) : i \notin Lost(r, k) /\ i \in Slots /\ t.slots[i] = r.slots[i] /\ i \in Attempted(r)
  BY <1>2, <1>3, ZenonT(30) DEF Attempted
<1>6. \A i \in Attempted(t) : t.slots[i].callis_id # k
  BY <1>3, <1>5, ZenonT(30) DEF Attempted
<1>7. t.next_chunk_id = r.next_chunk_id /\ r.next_chunk_id \in Nat
  BY <1>2 DEF SameStream, Books, RingType
<1>8. NoNewAttempt(r, t)
  BY <1>5, <1>7 DEF NoNewAttempt
<1>9. Follows(r, t)
  BY <1>2, <1>4 DEF Follows, SameStream
<1> QED BY <1>2, <1>4, <1>6, <1>8, <1>9, ZenonT(30)

\* What complete_chunk does to the slots for an answer m.
Answered(r, t, m) ==
    /\ Books(t, Ids) /\ NoNewAttempt(r, t) /\ Follows(r, t)
    /\ \A i \in InState(t, "InFlight") : t.slots[i].peer_msg_id # m
    /\ \A i \in Occupied(r) \ Occupied(t) :
         r.slots[i].state = "InFlight" /\ r.slots[i].peer_msg_id = m

\* An ACK or ERROR frees the slot of its attempt and no other.
LEMMA AnswerFollows ==
  ASSUME NEW r, Books(r, Ids), NEW m
  PROVE  Answered(r, complete_chunk(r, m), m)
<1> DEFINE t == complete_chunk(r, m)
<1>1. HasCompleted(Ids, r, m)
  <2>1. CanComplete(Ids, r, m)
    BY DEF CanComplete, Ids
  <2> QED BY <2>1, CompleteBooks
<1>2. /\ SameStream(r, t) /\ Books(t, Ids) /\ m \notin DOMAIN t.ack_map
      /\ m \notin DOMAIN r.ack_map => t = r
      /\ m \in DOMAIN r.ack_map =>
             \E i \in InState(r, "InFlight") :
               /\ r.slots[i].peer_msg_id = m /\ t.slots[i] = EmptySlot
               /\ \A j \in Slots : j # i => t.slots[j] = r.slots[j]
  BY <1>1, ZenonT(30) DEF HasCompleted
<1> HIDE DEF t
<1>3. \A i \in InState(t, "InFlight") : t.slots[i].peer_msg_id # m
  BY <1>2, SMTT(30) DEF Books
<1>4. t.next_chunk_id = r.next_chunk_id /\ r.next_chunk_id \in Nat
  BY <1>2, ZenonT(30) DEF SameStream, Books, RingType
<1>5. CASE m \notin DOMAIN r.ack_map
  <2>1. t = r
    BY <1>2, <1>5, ZenonT(30)
  <2> QED BY <1>2, <1>3, <1>4, <2>1, SMTT(30) DEF Answered, NoNewAttempt, Follows, t
<1>6. CASE m \in DOMAIN r.ack_map
  <2>1. PICK i \in InState(r, "InFlight") :
               /\ r.slots[i].peer_msg_id = m /\ t.slots[i] = EmptySlot
               /\ \A j \in Slots : j # i => t.slots[j] = r.slots[j]
    BY <1>2, <1>6
  <2>2. EmptySlot.state = "Empty"
    BY DEF EmptySlot
  <2>3. i \in Slots /\ r.slots[i].state = "InFlight"
    BY DEF InState
  <2>4. Occupied(t) = Occupied(r) \ {i}
    BY <2>1, <2>2, <2>3, ZenonT(30) DEF Occupied
  <2>5. \A j \in Attempted(t) : j \in Attempted(r) /\ t.slots[j] = r.slots[j]
    BY <2>1, <2>2 DEF Attempted
  <2>6. NoNewAttempt(r, t)
    BY <1>4, <2>5 DEF NoNewAttempt
  <2>7. Follows(r, t)
    BY <1>2, <2>4 DEF Follows, SameStream
  <2>8. \A j \in Occupied(r) \ Occupied(t) : r.slots[j].state = "InFlight" /\ r.slots[j].peer_msg_id = m
    BY <2>1, <2>3, <2>4, ZenonT(30)
  <2> QED BY <1>2, <1>3, <2>6, <2>7, <2>8, ZenonT(30) DEF Answered, t
<1> QED BY <1>5, <1>6

\* Chunk assembly starts no attempt.
LEMMA AdvanceAttempts ==
  ASSUME NEW r, NEW e, NEW t, NEW a, Books(r, Ids), Advanced(Ids, r, e, t, a)
  PROVE  NoNewAttempt(r, t) /\ Occupied(r) \subseteq Occupied(t)
<1>1. r.next_chunk_id \in Nat /\ t.next_chunk_id \in Nat /\ r.next_chunk_id <= t.next_chunk_id
  BY DEF Books, RingType, Advanced
<1>2. \A i \in Attempted(t) : i \in Occupied(r) /\ t.slots[i] = r.slots[i]
  BY DEF Attempted, Advanced, Occupied
<1>3. \A i \in Attempted(t) : i \in Attempted(r)
  BY <1>2 DEF Attempted
<1>4. Occupied(r) \subseteq Occupied(t)
  BY DEF Advanced, Occupied
<1> QED BY <1>1, <1>2, <1>3, <1>4, ZenonT(30) DEF NoNewAttempt

\* Chunk assembly keeps the account.
LEMMA AdvanceAccount ==
  ASSUME NEW r, NEW e, NEW t, NEW a, NEW b, Books(r, Ids), Account(r, e, b),
         Advanced(Ids, r, e, t, a)
  PROVE  Account(t, e \o NewChunks(r, t), a)
<1> DEFINE d == NewChunks(r, t)
<1>1. d \in Seq(Chunk) /\ Len(d) = t.next_chunk_id - r.next_chunk_id /\ e \in Seq(Chunk)
  BY ZenonT(30) DEF Advanced, Account
<1>2. r.next_chunk_id \in Nat /\ t.next_chunk_id \in Nat
  BY DEF Books, RingType, Advanced
<1> HIDE DEF d
<1>3. e \o d \in Seq(Chunk) /\ Len(e \o d) = Len(e) + Len(d)
  BY <1>1, JoinIs, Zenon
<1>4. a \in Nat /\ a = Bytes(e \o d) + Buffered(t)
  BY DEF Advanced, d
<1>5. Len(e \o d) = t.next_chunk_id
  BY <1>1, <1>2, <1>3 DEF Account
<1>6. Account(t, e \o d, a)
  BY <1>3, <1>4, <1>5 DEF Account
<1> QED BY <1>6 DEF d

----------------------------------------------------------------------------
(* The steps. *)

\* A new stream.
LEMMA InitIInv == Init => IInv
<1> SUFFICES ASSUME Init PROVE IInv
  OBVIOUS
<1>1. /\ Books(ring, Ids) /\ Occupied(ring) = {} /\ Buffered(ring) = 0
      /\ ring.next_chunk_id = 0 /\ ring.lifecycle = "Open"
  <2>1. 0 \in Ids
    BY DEF Ids
  <2> QED BY <2>1, NewRingBooks DEF Init
<1>2. Account(ring, emitted, accepted)
  <2>1. emitted = <<>> /\ accepted = 0
    BY DEF Init
  <2>2. <<>> \in Seq(Chunk) /\ Len(<<>>) = 0
    OBVIOUS
  <2> QED BY <1>1, <2>1, <2>2, BytesEmpty DEF Account
<1>3. Tasks(ring, holding, wire, next_id)
  <2>1. InState(ring, "Writing") = {} /\ InState(ring, "InFlight") = {} /\ Attempted(ring) = {}
    BY <1>1, AttemptStates
  <2>2. \A k \in Callis : holding[k] = Idle
    BY DEF Init
  <2>3. next_id \in Nat /\ holding = [k \in Callis |-> holding[k]]
    BY DEF Init
  <2> QED BY <2>1, <2>2, <2>3, Zenon DEF Tasks
<1>4. Finish(ring, emitted, written, shutdown)
  <2>1. emitted = <<>> /\ written = {} /\ shutdown = "no"
    BY DEF Init
  <2>2. ~Ended(emitted) /\ ring.lifecycle \notin SealedOff /\ ring.lifecycle # "Completed"
    BY <1>1, <2>1 DEF Ended, SealedOff
  <2>3. LastOnly(emitted)
    BY <2>1 DEF LastOnly
  <2> QED BY <2>1, <2>2, <2>3 DEF Finish
<1>5. shutdown \in Results
  BY DEF Init, Results
<1> QED BY <1>1, <1>2, <1>3, <1>4, <1>5, ZenonT(30) DEF IInv

\* Chunks that are not the last do not end the stream.
LEMMA NotEnded ==
  ASSUME NEW e \in Seq(Chunk), NEW d \in Seq(Chunk), ~Ended(e), Plain(d)
  PROVE  ~Ended(e \o d)
<1>1. Len(e) \in Nat /\ Len(d) \in Nat
  OBVIOUS
<1>2. /\ e \o d \in Seq(Chunk) /\ Len(e \o d) = Len(e) + Len(d)
      /\ \A i \in 1..(Len(e) + Len(d)) : (e \o d)[i] = IF i <= Len(e) THEN e[i] ELSE d[i - Len(e)]
  BY JoinIs
<1>3. CASE Len(d) = 0
  <2>1. d = <<>>
    BY <1>3
  <2>2. e \o d = e
    BY <2>1, JoinNothing
  <2> QED BY <2>2
<1>4. CASE Len(d) > 0
  <2>1. /\ Len(e) + Len(d) \in 1..(Len(e) + Len(d)) /\ ~(Len(e) + Len(d) <= Len(e))
        /\ Len(e) + Len(d) - Len(e) = Len(d) /\ Len(d) \in 1..Len(d)
    BY <1>1, <1>4
  <2>2. (e \o d)[Len(e) + Len(d)] = d[Len(d)]
    BY <1>2, <2>1
  <2>3. d[Len(d)].is_last = FALSE
    BY <2>1 DEF Plain
  <2>4. (e \o d)[Len(e \o d)].is_last = FALSE
    BY <1>2, <2>2, <2>3
  <2> QED BY <2>4, Zenon DEF Ended
<1> QED BY <1>1, <1>3, <1>4

\* While the stream has not ended, chunks are added behind plain ones.
LEMMA StillLastOnly ==
  ASSUME NEW e \in Seq(Chunk), NEW d \in Seq(Chunk), LastOnly(e), ~Ended(e), LastOnly(d)
  PROVE  LastOnly(e \o d)
<1>1. Len(e) \in Nat /\ Len(d) \in Nat
  OBVIOUS
<1>2. /\ Len(e \o d) = Len(e) + Len(d)
      /\ \A i \in 1..(Len(e) + Len(d)) : (e \o d)[i] = IF i <= Len(e) THEN e[i] ELSE d[i - Len(e)]
  BY JoinIs
<1>3. \A m \in 1..Len(e) : e[m].is_last = FALSE
  <2>1. ASSUME NEW m \in 1..Len(e) PROVE m \in 1..(Len(e) - 1) \/ m = Len(e)
    BY <1>1, <2>1
  <2>2. Len(e) \in 1..Len(e) => e[Len(e)].is_last = FALSE
    <3> SUFFICES ASSUME Len(e) \in 1..Len(e) PROVE e[Len(e)].is_last = FALSE
      BY Zenon
    <3>1. e # <<>>
      <4>1. Len(<<>>) = 0 /\ Len(e) # 0
        BY <1>1
      <4> QED BY <4>1, Zenon
    <3>2. e[Len(e)] \in Chunk
      OBVIOUS
    <3>3. e[Len(e)].is_last \in BOOLEAN
      BY <3>2 DEF Chunk
    <3> QED BY <3>1, <3>3, Zenon DEF Ended
  <2> QED BY <2>1, <2>2, Zenon DEF LastOnly
<1>4. SUFFICES ASSUME NEW i \in 1..(Len(e \o d) - 1) PROVE (e \o d)[i].is_last = FALSE
  BY Zenon DEF LastOnly
<1>5. i \in 1..(Len(e) + Len(d)) /\ i <= Len(e) + Len(d) - 1
  BY <1>1, <1>2
<1>6. CASE i <= Len(e)
  <2>1. i \in 1..Len(e)
    BY <1>1, <1>6
  <2> QED BY <1>2, <1>3, <1>5, <1>6, <2>1, Zenon
<1>7. CASE ~(i <= Len(e))
  <2>1. i - Len(e) \in 1..(Len(d) - 1)
    BY <1>1, <1>5, <1>7, SMTT(30)
  <2> QED BY <1>2, <1>5, <1>7, <2>1, Zenon DEF LastOnly
<1> QED BY <1>6, <1>7, Zenon

\* poll_write.
LEMMA PushStep ==
  ASSUME IInv, NEW n \in 1..MaxWrite, try_push_available(n)
  PROVE  IInv' /\ Freed
<1> DEFINE p == push_available(ring, n)
           d == NewChunks(ring, p.ring)
<1>1. /\ ring.lifecycle = "Open" /\ shutdown = "no" /\ ring' = p.ring
      /\ accepted' = accepted + p.accepted /\ emitted' = emitted \o d
      /\ UNCHANGED <<holding, wire, shutdown, next_id, written>>
  BY Zenon DEF try_push_available
<1>2. Round(Ids, ring, emitted, accepted, n, p)
  <2>1. n \in Nat /\ 0 \in Ids
    BY BoundAssumption DEF Ids
  <2>2. Pushing(Ids, ring, emitted, accepted, n)
    BY <2>1 DEF Pushing, IInv, Account
  <2> QED BY <2>2, PushAvailable
<1>3. /\ Stage(Ids, ring, emitted, p.ring, accepted + p.accepted) /\ Plain(d)
  BY <1>2, ZenonT(30) DEF Round
<1>4. p.ring.lifecycle = "Open" /\ Books(p.ring, Ids)
  BY <1>1, <1>3 DEF Stage, Grown
<1> HIDE DEF p
<1>5. Advanced(Ids, ring, emitted, ring', accepted')
  <2>1. Turned(p.ring, p.ring)
    BY DEF Turned
  <2>2. Advanced(Ids, ring, emitted, p.ring, accepted + p.accepted)
    BY <1>3, <1>4, <2>1, StageAdvanced, ZenonT(30)
  <2> QED BY <1>1, <2>2
<1>6. NoNewAttempt(ring, ring') /\ Occupied(ring) \subseteq Occupied(ring')
  BY <1>5, AdvanceAttempts, ZenonT(30) DEF IInv
<1>7. Account(ring', emitted', accepted')
  BY <1>1, <1>5, AdvanceAccount, ZenonT(30) DEF IInv
<1>8. Tasks(ring', holding', wire', next_id')
  BY <1>1, <1>6, TasksKept, ZenonT(30) DEF IInv
<1>9. Finish(ring', emitted', written', shutdown')
  <2>1. ~Ended(emitted)
    BY <1>1 DEF IInv, Finish, Unsealed
  <2>2. emitted \in Seq(Chunk) /\ d \in Seq(Chunk)
    BY <1>3 DEF Stage
  <2>3. ~Ended(emitted')
    BY <1>1, <1>3, <2>1, <2>2, NotEnded, ZenonT(30)
  <2>4. ring'.lifecycle = "Open" /\ ring'.lifecycle \notin SealedOff
    BY <1>1, <1>4 DEF SealedOff
  <2>5. written \subseteq 0..(Len(emitted') - 1)
    <3>1. Len(emitted) \in Nat /\ Len(emitted') \in Nat /\ Len(emitted) <= Len(emitted')
      BY <1>1, <1>5, <1>7, ZenonT(30) DEF IInv, Account, Books, RingType, Advanced
    <3> QED BY <3>1 DEF IInv, Finish
  <2>6. LastOnly(emitted')
    <3>1. LastOnly(d)
      BY <1>3, <2>2, PlainLastOnly, ZenonT(30)
    <3>2. LastOnly(emitted)
      BY DEF IInv, Finish
    <3> QED BY <1>1, <2>1, <2>2, <3>1, <3>2, StillLastOnly, ZenonT(30)
  <2> QED BY <1>1, <2>3, <2>4, <2>5, <2>6, ZenonT(30) DEF Finish
<1> QED BY <1>1, <1>5, <1>6, <1>7, <1>8, <1>9, NothingFreed, ZenonT(30) DEF IInv, Advanced

\* poll_shutdown's seal.
LEMMA SealStep ==
  ASSUME IInv, seal_round
  PROVE  IInv' /\ Freed
<1>1. /\ ring' = seal(ring) /\ emitted' = emitted \o NewChunks(ring, ring')
      /\ shutdown \in {"no", "sealing"} /\ shutdown' \in {"sealing", "sealed"}
      /\ UNCHANGED <<holding, wire, next_id, accepted, written>>
  BY DEF seal_round
<1>2. HasSealed(Ids, ring, emitted, accepted)
  <2>1. CanSeal(Ids, ring, emitted, accepted)
    BY DEF CanSeal, IInv, Account, Ids
  <2> QED BY <2>1, SealBooks
<1>3. /\ Advanced(Ids, ring, emitted, ring', accepted)
      /\ \/ ring.lifecycle \in {"AwaitingComplete", "Completed"} /\ ring' = ring
              /\ NewChunks(ring, ring') = <<>>
         \/ ring'.lifecycle = "AwaitingComplete" /\ ring'.write_buf = 0
              /\ ring'.pending_full = FALSE
              /\ ring.lifecycle \notin {"AwaitingComplete", "Completed"}
              /\ LastOnly(NewChunks(ring, ring'))
         \/ ring'.lifecycle = "Sealing" /\ Turned(ring, ring') /\ NewChunks(ring, ring') = <<>>
  BY <1>1, <1>2, Zenon DEF HasSealed
<1>4. NoNewAttempt(ring, ring') /\ Occupied(ring) \subseteq Occupied(ring')
  BY <1>3, AdvanceAttempts, ZenonT(30) DEF IInv
<1>5. Account(ring', emitted', accepted')
  BY <1>1, <1>3, AdvanceAccount, ZenonT(30) DEF IInv
<1>6. Tasks(ring', holding', wire', next_id')
  BY <1>1, <1>4, TasksKept DEF IInv
<1>7. emitted \o <<>> = emitted
  BY JoinNothing DEF IInv, Account
<1>8. written' \subseteq 0..(Len(emitted') - 1) /\ shutdown' # "ok" /\ shutdown' \in Results
  <2>1. Len(emitted) \in Nat /\ Len(emitted') \in Nat /\ Len(emitted) <= Len(emitted')
    BY <1>3, <1>5, ZenonT(30) DEF IInv, Account, Books, RingType, Advanced
  <2> QED BY <1>1, <2>1, SMTT(30) DEF IInv, Finish, Results
<1>9. Finish(ring', emitted', written', shutdown')
  <2>1. CASE ring' = ring /\ NewChunks(ring, ring') = <<>>
    <3>1. emitted' = emitted
      BY <1>1, <1>7, <2>1, ZenonT(30)
    <3> QED BY <1>1, <1>8, <2>1, <3>1, ZenonT(30) DEF IInv, Finish
  <2>2. CASE /\ ring'.lifecycle = "AwaitingComplete" /\ ring'.write_buf = 0
             /\ ring'.pending_full = FALSE
             /\ ring.lifecycle \notin {"AwaitingComplete", "Completed"}
             /\ LastOnly(NewChunks(ring, ring'))
    <3>1. ring.lifecycle \in Unsealed
      BY <2>2, ZenonT(30) DEF IInv, Books, RingType, seal_round, Lifecycles, Unsealed
    <3>2. ~Ended(emitted) /\ LastOnly(emitted) /\ emitted \in Seq(Chunk)
      BY <3>1, ZenonT(30) DEF IInv, Finish, Account
    <3>3. NewChunks(ring, ring') \in Seq(Chunk)
      BY <1>3 DEF Advanced
    <3>4. LastOnly(emitted')
      BY <1>1, <2>2, <3>2, <3>3, StillLastOnly, Zenon
    <3> QED BY <1>8, <2>2, <3>4, ZenonT(30) DEF Finish, Flushed, Unsealed
  <2>3. CASE /\ ring'.lifecycle = "Sealing" /\ Turned(ring, ring')
             /\ NewChunks(ring, ring') = <<>>
    <3>1. emitted' = emitted
      BY <1>1, <1>7, <2>3, ZenonT(30)
    <3>2. CASE Ended(emitted)
      <4>1. ring.lifecycle \notin Unsealed
        BY <3>2, ZenonT(30) DEF IInv, Finish
      <4>2. ring.lifecycle \in Lifecycles /\ ring.lifecycle \notin {"Failed", "Closed"}
        BY DEF IInv, Books, RingType, seal_round
      <4>3. ring.lifecycle \in {"AwaitingComplete", "Completed"}
        BY <4>1, <4>2 DEF Lifecycles, Unsealed
      <4>4. ring' = ring
        BY <1>1, <4>3, ZenonT(30) DEF seal
      <4> QED BY <2>3, <4>1, <4>4, ZenonT(30) DEF Unsealed
    <3>3. CASE ~Ended(emitted)
      BY <1>8, <2>3, <3>1, <3>3, ZenonT(30) DEF IInv, Finish, SealedOff
    <3> QED BY <3>2, <3>3
  <2> QED BY <1>3, <2>1, <2>2, <2>3, Zenon
<1>10. Books(ring', Ids)
  BY <1>3 DEF Advanced
<1> QED BY <1>4, <1>5, <1>6, <1>8, <1>9, <1>10, NothingFreed, ZenonT(30) DEF IInv

\* A step of the lifecycle alone keeps what is said of the chunks and attempts.
LEMMA TurnStep ==
  ASSUME IInv, Books(ring', Ids), Turned(ring, ring'),
         UNCHANGED <<holding, wire, next_id, accepted, emitted, written>>
  PROVE  /\ Account(ring', emitted', accepted') /\ Tasks(ring', holding', wire', next_id')
         /\ Occupied(ring') = Occupied(ring) /\ Freed
<1>1. NoNewAttempt(ring, ring') /\ Occupied(ring') = Occupied(ring)
  BY TurnFollows DEF IInv
<1>2. Tasks(ring', holding', wire', next_id')
  BY <1>1, TasksKept, ZenonT(30) DEF IInv
<1>3. Account(ring', emitted', accepted')
  BY DEF IInv, Account, Turned, Buffered
<1>4. Freed
  BY <1>1, NothingFreed, ZenonT(30)
<1> QED BY <1>1, <1>2, <1>3, <1>4, ZenonT(30)

\* wait_for_complete ends the shutdown well.
LEMMA WaitStep ==
  ASSUME IInv, wait_for_complete
  PROVE  IInv' /\ Freed
<1>1. /\ ring.lifecycle = "Completed" /\ is_drained(ring) /\ ring' = close(ring)
      /\ shutdown' = "ok"
      /\ UNCHANGED <<holding, wire, next_id, accepted, emitted, written>>
  BY DEF wait_for_complete
<1>2. Books(ring', Ids) /\ Turned(ring, ring') /\ ring'.lifecycle = "Closed"
  BY <1>1, LifecycleBooks, ZenonT(30) DEF IInv
<1>3. /\ Account(ring', emitted', accepted') /\ Tasks(ring', holding', wire', next_id')
      /\ Occupied(ring') = Occupied(ring) /\ Freed
  BY <1>1, <1>2, TurnStep
<1>4. Occupied(ring) = {}
  <2>1. Cardinality(Occupied(ring)) = 0 /\ IsFiniteSet(Occupied(ring))
    BY <1>1, SlotSets DEF is_drained
  <2> QED BY <2>1, FS_EmptySet
<1>5. Finish(ring', emitted, written, shutdown)
  <2>1. Follows(ring, ring')
    BY <1>2, TurnFollows DEF IInv
  <2> QED BY <2>1, FinishKept DEF IInv
<1>6. AllOut(emitted, written)
  BY <1>1 DEF IInv, Finish
<1>7. Finish(ring', emitted', written', shutdown')
  BY <1>1, <1>3, <1>4, <1>5, <1>6, ZenonT(30) DEF Finish
<1>8. shutdown' \in Results
  BY <1>1 DEF Results
<1> QED BY <1>2, <1>3, <1>7, <1>8, ZenonT(30) DEF IInv

\* A failed wait, or a dropped sender.
LEMMA GiveUpStep ==
  ASSUME IInv, wait_fails \/ drop_sender
  PROVE  IInv' /\ Freed
<1>1. /\ ring' = close(ring) /\ shutdown' \in {"failed", "dropped"}
      /\ UNCHANGED <<holding, wire, next_id, accepted, emitted, written>>
  BY DEF wait_fails, drop_sender
<1>2. /\ Books(ring', Ids) /\ Turned(ring, ring')
      /\ ring'.lifecycle = "Closed" \/ ring'.lifecycle = "Failed"
  BY <1>1, LifecycleBooks, ZenonT(30) DEF IInv
<1>3. /\ Account(ring', emitted', accepted') /\ Tasks(ring', holding', wire', next_id')
      /\ Occupied(ring') = Occupied(ring) /\ Freed
  BY <1>1, <1>2, TurnStep, ZenonT(30)
<1>4. Finish(ring', emitted, written, shutdown)
  <2>1. Follows(ring, ring')
    BY <1>2, TurnFollows, ZenonT(30) DEF IInv
  <2> QED BY <2>1, FinishKept DEF IInv
<1>5. Finish(ring', emitted', written', shutdown')
  BY <1>1, <1>4 DEF Finish
<1>6. shutdown' \in Results
  BY <1>1, ZenonT(30) DEF Results
<1> QED BY <1>2, <1>3, <1>5, <1>6 DEF IInv

\* A failed seal, or the Ok of a closed sender, leaves the ring as it is.
LEMMA ResultStep ==
  ASSUME IInv, seal_fails \/ shutdown_again
  PROVE  IInv' /\ Freed
<1>1. /\ UNCHANGED <<ring, holding, wire, next_id, accepted, emitted, written>>
      /\ shutdown' = "no" \/ shutdown' = shutdown
  BY DEF seal_fails, shutdown_again
<1>2. Finish(ring', emitted', written', shutdown')
  BY <1>1, ZenonT(30) DEF IInv, Finish
<1>3. shutdown' \in Results
  BY <1>1, ZenonT(30) DEF IInv, Results
<1>4. Books(ring', Ids) /\ Account(ring', emitted', accepted')
      /\ Tasks(ring', holding', wire', next_id')
  BY <1>1, ZenonT(30) DEF IInv
<1>5. Freed
  BY <1>1, ZenonT(30) DEF Freed
<1> QED BY <1>2, <1>3, <1>4, <1>5, ZenonT(30) DEF IInv

\* fail_stream and fail_all_streams.
LEMMA FailStep ==
  ASSUME IInv, fail_stream
  PROVE  IInv' /\ Freed
<1> DEFINE s == fail(ring, "stream")
<1>1. /\ ring' = close(s)
      /\ UNCHANGED <<holding, wire, next_id, accepted, emitted, written, shutdown>>
  BY DEF fail_stream
<1>2. Books(s, Ids) /\ Turned(ring, s) /\ s.lifecycle = "Failed"
  BY LifecycleBooks DEF IInv
<1> HIDE DEF s
<1>3. ring' = s
  BY <1>1, <1>2 DEF close
<1>4. Books(ring', Ids) /\ Turned(ring, ring') /\ ring'.lifecycle = "Failed"
  BY <1>2, <1>3
<1>5. /\ Account(ring', emitted', accepted') /\ Tasks(ring', holding', wire', next_id')
      /\ Occupied(ring') = Occupied(ring) /\ Freed
  BY <1>1, <1>4, TurnStep, ZenonT(30)
<1>6. Finish(ring', emitted, written, shutdown)
  <2>1. Follows(ring, ring')
    BY <1>4, TurnFollows, ZenonT(30) DEF IInv
  <2> QED BY <2>1, FinishKept DEF IInv
<1> QED BY <1>1, <1>4, <1>5, <1>6, ZenonT(30) DEF IInv

\* blob-transfer-complete.
LEMMA CompleteStep ==
  ASSUME IInv, complete
  PROVE  IInv' /\ Freed
<1>1. /\ Sealed /\ written = 0..(Len(emitted) - 1) /\ ring' = mark_complete(ring)
      /\ UNCHANGED <<holding, wire, next_id, accepted, emitted, written, shutdown>>
  BY DEF complete
<1>2. /\ Books(ring', Ids) /\ Turned(ring, ring')
      /\ ring'.lifecycle = "Completed" \/ ring'.lifecycle = "Failed"
  BY <1>1, LifecycleBooks, Zenon DEF IInv
<1>3. /\ Account(ring', emitted', accepted') /\ Tasks(ring', holding', wire', next_id')
      /\ Occupied(ring') = Occupied(ring) /\ Freed
  BY <1>1, <1>2, TurnStep, ZenonT(30)
<1>4. Ended(emitted) /\ AllOut(emitted, written)
  BY <1>1 DEF Sealed, Ended, AllOut
<1>5. Flushed(ring') /\ ring'.lifecycle \notin Unsealed
  <2>1. Flushed(ring)
    BY <1>4, ZenonT(30) DEF IInv, Finish
  <2> QED BY <1>2, <2>1 DEF Flushed, Turned, Unsealed
<1>6. Finish(ring', emitted', written', shutdown')
  BY <1>1, <1>3, <1>4, <1>5, ZenonT(30) DEF IInv, Finish
<1> QED BY <1>1, <1>2, <1>3, <1>6, ZenonT(30) DEF IInv

\* A transmitter takes a lease.
LEMMA LeaseStep ==
  ASSUME IInv, NEW k \in Callis, lease(k)
  PROVE  IInv' /\ Freed
<1> DEFINE x == [phase |-> "leased", lease |-> LeaseOf(ring', NextSlot(ring))]
<1>1. /\ ring' = lease_next_chunk_for_write(ring, k, next_id)
      /\ holding' = HeldOn(holding, k, x) /\ next_id' = next_id + 1
      /\ UNCHANGED <<wire, shutdown, accepted, emitted, written>>
  BY Zenon DEF lease, HeldOn
<1>2. Leasing(ring, holding, wire, next_id, k)
  BY ZenonT(30) DEF lease, Leasing, IInv, has_dispatchable_replay, has_dispatchable_fresh
<1>3. /\ Tasks(ring', HeldOn(holding, k, x), wire, next_id + 1)
      /\ Books(ring', Ids) /\ SameStream(ring, ring') /\ Occupied(ring') = Occupied(ring)
  <2> HIDE DEF x
  <2> SUFFICES ASSUME NEW t, t = ring' PROVE
         /\ Tasks(t, HeldOn(holding, k, x), wire, next_id + 1)
         /\ Books(t, Ids) /\ SameStream(ring, t) /\ Occupied(t) = Occupied(ring)
    OBVIOUS
  <2>1. x = [phase |-> "leased", lease |-> LeaseOf(t, NextSlot(ring))]
    BY DEF x
  <2> QED BY <1>1, <1>2, <2>1, TasksLeased, SMTT(30)
<1> HIDE DEF x
<1>4. Follows(ring, ring')
  BY <1>3 DEF Follows, SameStream
<1>5. Finish(ring', emitted, written, shutdown) /\ Account(ring', emitted, accepted)
  BY <1>4, FinishKept DEF IInv
<1>6. Freed
  BY <1>3, NothingFreed
<1> QED BY <1>1, <1>3, <1>5, <1>6, ZenonT(30) DEF IInv

\* A transmitter marks its lease in flight.
LEMMA MarkStep ==
  ASSUME IInv, NEW k \in Callis, mark_chunk_inflight(k)
  PROVE  IInv' /\ Freed
<1> DEFINE x == [phase |-> "marked", lease |-> holding[k].lease]
<1>1. /\ holding[k].phase = "leased" /\ ring' = mark_inflight(ring, holding[k].lease)
      /\ holding' = [holding EXCEPT ![k].phase = "marked"]
      /\ UNCHANGED <<wire, shutdown, next_id, accepted, emitted, written>>
  BY DEF mark_chunk_inflight
<1>2. holding[k] # Idle
  <2>1. Idle.phase = "idle"
    BY DEF Idle
  <2> QED BY <1>1, <2>1
<1>3. holding' = HeldOn(holding, k, x)
  <2>1. holding[k] = [phase |-> holding[k].phase, lease |-> holding[k].lease]
    BY <1>2 DEF IInv, Tasks, Holds
  <2>2. [holding[k] EXCEPT !.phase = "marked"] = x
    <3> SUFFICES ASSUME NEW q, q = [holding[k] EXCEPT !.phase = "marked"] PROVE q = x
      OBVIOUS
    <3> QED BY <2>1, Zenon
  <2>3. holding' = [holding EXCEPT ![k] = [holding[k] EXCEPT !.phase = "marked"]]
    BY <1>1, Zenon
  <2> QED BY <2>2, <2>3, ZenonT(30) DEF HeldOn
<1>4. Marking(ring, holding, wire, next_id, k)
  BY <1>1, <1>2 DEF Marking, IInv
<1>5. /\ Tasks(ring', HeldOn(holding, k, x), wire, next_id)
      /\ Books(ring', Ids) /\ SameStream(ring, ring') /\ Occupied(ring') = Occupied(ring)
  BY <1>1, <1>4, TasksMarked
<1> HIDE DEF x
<1>6. Follows(ring, ring')
  BY <1>5, ZenonT(30) DEF Follows, SameStream
<1>7. Finish(ring', emitted, written, shutdown) /\ Account(ring', emitted, accepted)
  BY <1>6, FinishKept DEF IInv
<1>8. Freed
  BY <1>5, NothingFreed, ZenonT(30)
<1> QED BY <1>1, <1>3, <1>5, <1>7, <1>8, Zenon DEF IInv

\* The frame of a marked lease is out.
LEMMA WriteOkStep ==
  ASSUME IInv, NEW k \in Callis, write_ok(k)
  PROVE  IInv' /\ Freed
<1> DEFINE m == holding[k].lease.peer_msg_id
           c == holding[k].lease.chunk_id
<1>1. /\ holding[k].phase = "marked" /\ wire' = With(wire, m, c) /\ written' = written \cup {c}
      /\ holding' = HeldOn(holding, k, Idle)
      /\ UNCHANGED <<ring, shutdown, next_id, accepted, emitted>>
  BY ZenonT(30) DEF write_ok, HeldOn
<1>2. holding[k] # Idle
  <2>1. Idle.phase = "idle"
    BY DEF Idle
  <2> QED BY <1>1, <2>1, ZenonT(30)
<1>3. DOMAIN wire' = DOMAIN wire \cup {m}
  BY <1>1, ZenonT(30) DEF With
<1>4. c \in 0..(Len(emitted) - 1)
  <2>1. c \in Nat /\ c < ring.next_chunk_id
    BY <1>2, SMTT(30) DEF IInv, Tasks, Holds
  <2> QED BY <2>1, SMTT(30) DEF IInv, Account
<1> HIDE DEF c
<1>5. Tasks(ring, HeldOn(holding, k, Idle), wire', next_id)
  BY <1>1, <1>2, <1>3, TasksReleased, ZenonT(30) DEF IInv
<1>6. Finish(ring, emitted, written', shutdown)
  BY <1>1, <1>4, FinishWritten, ZenonT(30) DEF IInv
<1>7. Freed
  BY <1>1, NothingFreed, ZenonT(30)
<1> QED BY <1>1, <1>5, <1>6, <1>7, ZenonT(30) DEF IInv

\* The write of a marked lease failed.
LEMMA WriteErrStep ==
  ASSUME IInv, NEW k \in Callis, write_err(k)
  PROVE  IInv' /\ Freed
<1>1. /\ ring' = mark_callis_replay_ready(ring, k) /\ holding' = HeldOn(holding, k, Idle)
      /\ UNCHANGED <<wire, shutdown, next_id, accepted, emitted, written>>
  BY SMTT(30) DEF write_err, HeldOn
<1>2. /\ Books(ring', Ids) /\ Follows(ring, ring') /\ NoNewAttempt(ring, ring')
      /\ Occupied(ring') = Occupied(ring)
      /\ \A i \in Attempted(ring') : ring'.slots[i].callis_id # k
  BY <1>1, ReplayFollows, ZenonT(30) DEF IInv
<1>3. Tasks(ring', holding, wire, next_id)
  BY <1>2, TasksKept, SMTT(30) DEF IInv
<1>4. Tasks(ring', HeldOn(holding, k, Idle), wire, next_id)
  BY <1>2, <1>3, TasksReleased, ZenonT(30)
<1>5. Finish(ring', emitted, written, shutdown) /\ Account(ring', emitted, accepted)
  BY <1>2, FinishKept DEF IInv
<1>6. Freed
  BY <1>2, NothingFreed, ZenonT(30)
<1> QED BY <1>1, <1>2, <1>4, <1>5, <1>6, ZenonT(30) DEF IInv

\* A callis is lost, whatever its transmitter is doing.
LEMMA LossStep ==
  ASSUME IInv, NEW k \in Callis, callis_lost(k)
  PROVE  IInv' /\ Freed
<1>1. /\ ring' = mark_callis_replay_ready(ring, k)
      /\ UNCHANGED <<holding, wire, shutdown, next_id, accepted, emitted, written>>
  BY SMTT(30) DEF callis_lost
<1>2. /\ Books(ring', Ids) /\ Follows(ring, ring') /\ NoNewAttempt(ring, ring')
      /\ Occupied(ring') = Occupied(ring)
  BY <1>1, ReplayFollows, ZenonT(30) DEF IInv
<1>3. Tasks(ring', holding, wire, next_id)
  BY <1>2, TasksKept, ZenonT(30) DEF IInv
<1>4. Finish(ring', emitted, written, shutdown) /\ Account(ring', emitted, accepted)
  BY <1>2, FinishKept, ZenonT(30) DEF IInv
<1>5. Freed
  BY <1>2, NothingFreed, ZenonT(30)
<1> QED BY <1>1, <1>2, <1>3, <1>4, <1>5, ZenonT(30) DEF IInv

\* An answer, with the ring it leaves.
LEMMA AnswerStep ==
  ASSUME IInv, NEW m \in DOMAIN wire, Answered(ring, ring', m), wire' = Without(wire, m),
         UNCHANGED <<holding, shutdown, next_id, accepted, emitted, written>>
  PROVE  IInv' /\ Freed
<1>1. DOMAIN wire' = DOMAIN wire \ {m}
  BY SMTT(30) DEF Without
<1>2. Tasks(ring', holding, wire, next_id)
  BY TasksKept, ZenonT(30) DEF IInv, Answered
<1>3. Tasks(ring', holding, wire', next_id)
  BY <1>2, TasksAnswered, ZenonT(30) DEF Answered
<1>4. Finish(ring', emitted, written, shutdown) /\ Account(ring', emitted, accepted)
  BY FinishKept, ZenonT(30) DEF IInv, Answered
<1>5. Freed
  <2>1. \A i \in Slots : ring.slots[i].state # "Empty" /\ ring'.slots[i].state = "Empty"
                          => i \in Occupied(ring) \ Occupied(ring')
    BY DEF Occupied
  <2> QED BY <1>1, <2>1, ZenonT(30) DEF Freed, Answered
<1> QED BY <1>3, <1>4, <1>5, ZenonT(30) DEF IInv, Answered

\* An ACK.
LEMMA AckStep ==
  ASSUME IInv, NEW m \in DOMAIN wire, ack(m)
  PROVE  IInv' /\ Freed
<1>1. Answered(ring, complete_chunk(ring, m), m)
  BY AnswerFollows, ZenonT(30) DEF IInv
<1> QED BY <1>1, AnswerStep, ZenonT(30) DEF ack, note_ack

\* An ERROR.
LEMMA ErrorStep ==
  ASSUME IInv, NEW m \in DOMAIN wire, error(m)
  PROVE  IInv' /\ Freed
<1> DEFINE s == complete_chunk(ring, m)
<1>1. Answered(ring, s, m)
  BY AnswerFollows, ZenonT(30) DEF IInv
<1>2. /\ ring' = note_error(ring, m, "chunk") /\ wire' = Without(wire, m)
      /\ UNCHANGED <<holding, shutdown, next_id, accepted, emitted, written>>
  BY DEF error
<1>3. Books(ring', Ids) /\ Turned(s, ring') /\ ring'.lifecycle = "Failed"
  BY <1>1, <1>2, NoteErrorBooks, ZenonT(30) DEF Answered
<1> HIDE DEF s
<1>4. Answered(ring, ring', m)
  <2>1. /\ Occupied(ring') = Occupied(s) /\ Attempted(ring') = Attempted(s)
        /\ InState(ring', "InFlight") = InState(s, "InFlight") /\ ring'.slots = s.slots
    BY <1>3, ZenonT(30) DEF Turned, Occupied, Attempted, InState
  <2>2. NoNewAttempt(ring, ring')
    BY <1>1, <1>3, <2>1, ZenonT(30) DEF Answered, NoNewAttempt, Turned
  <2>3. Follows(ring, ring')
    BY <1>1, <1>3, <2>1, ZenonT(30) DEF Answered, Follows, Turned
  <2> QED BY <1>1, <1>3, <2>1, <2>2, <2>3, ZenonT(30) DEF Answered
<1> QED BY <1>2, <1>4, AnswerStep, ZenonT(30)

\* Every step keeps the invariant and frees slots only as FreedOnlyByItsAnswer says.
LEMMA NextIInv ==
  ASSUME IInv, Next
  PROVE  IInv' /\ Freed
<1>1. ASSUME NEW n \in 1..MaxWrite, try_push_available(n) PROVE IInv' /\ Freed
  BY <1>1, PushStep
<1>2. ASSUME NEW k \in Callis,
             lease(k) \/ mark_chunk_inflight(k) \/ write_ok(k) \/ write_err(k) \/ callis_lost(k)
      PROVE  IInv' /\ Freed
  BY <1>2, LeaseStep, MarkStep, WriteOkStep, WriteErrStep, LossStep, ZenonT(30)
<1>3. ASSUME NEW m \in DOMAIN wire, ack(m) \/ error(m) PROVE IInv' /\ Freed
  BY <1>3, AckStep, ErrorStep, ZenonT(30)
<1>4. CASE \/ seal_round \/ seal_fails \/ wait_for_complete \/ wait_fails
           \/ shutdown_again \/ drop_sender
  BY <1>4, SealStep, ResultStep, WaitStep, GiveUpStep, ZenonT(30)
<1>5. CASE complete \/ fail_stream
  BY <1>5, CompleteStep, FailStep, ZenonT(30)
<1> QED BY <1>1, <1>2, <1>3, <1>4, <1>5, ZenonT(30) DEF Next

\* A step that changes nothing.
LEMMA StutterIInv ==
  ASSUME IInv, UNCHANGED vars
  PROVE  IInv'
BY DEF IInv, vars

\* The invariant holds in every reachable state.
THEOREM Invariant == Spec => []IInv
<1>1. Init => IInv
  BY InitIInv
<1>2. IInv /\ [Next]_vars => IInv'
  BY NextIInv, StutterIInv, ZenonT(30)
<1> QED BY <1>1, <1>2, PTL DEF Spec

\* Only wait_for_complete and a later call on a closed sender return Ok, and a
\* closed sender stays closed.
LEMMA ClosedInvariant == Spec => []OkWhenClosed
<1>1. Init => OkWhenClosed
  BY DEF Init, OkWhenClosed
<1>2. ASSUME OkWhenClosed, [Next]_vars PROVE OkWhenClosed'
  <2>1. CASE UNCHANGED <<shutdown, result>>
    BY <1>2, <2>1 DEF OkWhenClosed
  <2>2. CASE seal_round
    BY <1>2, <2>2 DEF OkWhenClosed, seal_round
  <2>3. CASE seal_fails \/ wait_for_complete \/ wait_fails \/ shutdown_again
    BY <2>3 DEF OkWhenClosed, seal_fails, wait_for_complete, wait_fails, shutdown_again
  <2>4. CASE drop_sender
    BY <1>2, <2>4 DEF OkWhenClosed, drop_sender
  <2>5. ASSUME NEW n \in 1..MaxWrite, try_push_available(n) PROVE UNCHANGED <<shutdown, result>>
    BY <2>5, Zenon DEF try_push_available
  <2>6. ASSUME NEW k \in Callis,
               lease(k) \/ mark_chunk_inflight(k) \/ write_ok(k) \/ write_err(k) \/ callis_lost(k)
        PROVE  UNCHANGED <<shutdown, result>>
    BY <2>6, Zenon DEF lease, mark_chunk_inflight, write_ok, write_err, callis_lost
  <2>7. ASSUME NEW m \in DOMAIN wire, ack(m) \/ error(m) PROVE UNCHANGED <<shutdown, result>>
    BY <2>7, Zenon DEF ack, error
  <2>8. complete \/ fail_stream \/ UNCHANGED vars => UNCHANGED <<shutdown, result>>
    BY Zenon DEF complete, fail_stream, vars
  <2> QED BY <1>2, <2>1, <2>2, <2>3, <2>4, <2>5, <2>6, <2>7, <2>8, ZenonT(30) DEF Next
<1> QED BY <1>1, <1>2, PTL DEF Spec

----------------------------------------------------------------------------
(* What it implies. *)

\* chunk_index has one entry per occupied slot.
LEMMA IndexSize ==
  ASSUME NEW r, Books(r, Ids)
  PROVE  Cardinality(DOMAIN r.chunk_index) = live_chunk_count(r)
<1> DEFINE S == Occupied(r)
           T == DOMAIN r.chunk_index
           f == [i \in S |-> r.slots[i].chunk_id]
<1>1. T = {r.slots[i].chunk_id : i \in S} /\ \A i \in S : r.chunk_index[r.slots[i].chunk_id] = i
  BY DEF Books
<1> HIDE DEF S, T
<1>2. f \in [S -> T] /\ \A i \in S : r.chunk_index[f[i]] = i
  BY <1>1
<1>3. \A x \in T : \E i \in S : f[i] = x
  BY <1>1
<1> HIDE DEF f
<1>4. f \in Bijection(S, T)
  BY <1>2, <1>3 DEF Bijection, Injection, Surjection, IsInjective
<1>5. ExistsBijection(S, T) /\ IsFiniteSet(S) /\ Cardinality(S) = live_chunk_count(r)
  BY <1>4, SlotSets, ZenonT(30) DEF ExistsBijection, S
<1>6. Cardinality(T) = Cardinality(S)
  BY <1>5, FS_Bijection, ZenonT(30)
<1> QED BY <1>5, <1>6, ZenonT(30) DEF T

\* The types of the ring's fields, and their ranges.
LEMMA InvariantType == IInv => TypeOK
<1> SUFFICES ASSUME IInv PROVE TypeOK
  BY ZenonT(30)
<1>1. /\ ring.lifecycle \in Lifecycles /\ ring.write_buf \in 0..ChunkSize
      /\ ring.write_cursor \in Slots /\ ring.slots \in [Slots -> SlotOf(Ids)]
  BY DEF IInv, Books, RingType
<1>2. SlotOf(Ids) = SlotType
  BY ZenonT(30) DEF SlotOf, SlotType, SlotStates, Ids
<1>3. ring.inflight \in 0..WindowSize
  <2>1. ring.inflight = Cardinality(InState(ring, "InFlight"))
    BY ZenonT(30) DEF IInv, Books
  <2> QED BY <2>1, SlotSets, SizeAssumption, SMTT(30)
<1>4. ring.next_chunk_id = Len(emitted) /\ shutdown \in Results
  BY SMTT(30) DEF IInv, Account
<1> QED BY <1>1, <1>2, <1>3, <1>4, ZenonT(30) DEF TypeOK, Lifecycles, Results

\* BooksExact is the part of the invariant that speaks of slots, books and
\* attempts.
LEMMA InvariantBooks == IInv => BooksExact
<1> SUFFICES ASSUME IInv PROVE BooksExact
  OBVIOUS
<1>1. TypeOK
  BY InvariantType
<1>2. Books(ring, Ids) /\ Tasks(ring, holding, wire, next_id)
  BY SMTT(30) DEF IInv
<1>3. \A i \in Slots : ring.slots[i].state # "Empty" =>
         /\ ring.slots[i].chunk_id \in DOMAIN ring.chunk_index
         /\ ring.chunk_index[ring.slots[i].chunk_id] = i
  BY <1>2, ZenonT(30) DEF Books, Occupied
<1>4. Cardinality(DOMAIN ring.chunk_index) = live_chunk_count(ring)
  BY <1>2, IndexSize, ZenonT(30)
<1>5. /\ DOMAIN ring.ack_map = {ring.slots[i].peer_msg_id : i \in InState(ring, "InFlight")}
      /\ \A i \in InState(ring, "InFlight") :
           ring.ack_map[ring.slots[i].peer_msg_id] = ring.slots[i].chunk_id
      /\ ring.inflight = Cardinality(InState(ring, "InFlight"))
      /\ has_window_capacity_for(ring, 0)
  BY <1>2, ZenonT(30) DEF Books
<1>6. \A i \in InState(ring, "Writing") : \E k \in Callis :
         /\ ring.slots[i].callis_id = k
         /\ holding[k].phase = "leased" /\ Matches(ring, holding[k].lease)
  <2> TAKE i \in InState(ring, "Writing")
  <2>1. PICK k \in Callis : /\ holding[k] # Idle /\ holding[k].phase = "leased"
                            /\ ring.slots[i] = InPhase(holding[k].lease, "Writing")
    BY <1>2, ZenonT(30) DEF Tasks
  <2> DEFINE x == holding[k].lease
  <2>2. IsLease(x) /\ x.callis_id = k
    BY <1>2, <2>1 DEF Tasks, Holds
  <2>3. /\ ring.slots[i] = [x EXCEPT !.state = "Writing"]
        /\ ring.slots[i].callis_id = k /\ ring.slots[i].chunk_id = x.chunk_id
    <3> HIDE DEF x
    <3>1. InPhase(x, "Writing") = [x EXCEPT !.state = "Writing"]
      BY <2>2, PhaseAt, ZenonT(30)
    <3>2. ring.slots[i] = InPhase(x, "Writing")
      BY <2>1, ZenonT(30) DEF x
    <3> QED BY <2>2, <3>1, <3>2, ZenonT(30) DEF InPhase
  <2>4. i \in Slots /\ ring.slots[i].state # "Empty"
    BY ZenonT(30) DEF InState
  <2>5. Matches(ring, x)
    BY <1>3, <2>3, <2>4, Zenon DEF Matches
  <2> QED BY <2>1, <2>3, <2>5, ZenonT(30)
<1>7. \A i \in InState(ring, "InFlight") :
         \/ ring.slots[i].peer_msg_id \in DOMAIN wire
         \/ \E k \in Callis : /\ holding[k].phase = "marked"
                             /\ holding[k].lease.peer_msg_id = ring.slots[i].peer_msg_id
  BY <1>2 DEF Tasks
<1> QED BY <1>1, <1>3, <1>4, <1>5, <1>6, <1>7, ZenonT(30) DEF BooksExact

\* The ring's books agree with its slots at every moment, and no slot waits
\* for an attempt that neither a transmitter nor the wire has.
THEOREM BooksStayExact == Spec => []BooksExact
BY Invariant, InvariantBooks, PTL

\* push_available, finalize and enqueue_chunk lose and repeat no byte that
\* poll_write accepted, and make no chunk behind the one flagged last.
THEOREM NoByteLost == Spec => []BytesConserved
<1>1. IInv => BytesConserved
  <2> SUFFICES ASSUME IInv PROVE BytesConserved
    OBVIOUS
  <2>1. /\ Bytes(emitted) \in Nat /\ accepted = Bytes(emitted) + Buffered(ring)
        /\ ring.write_buf \in Nat
    <3>1. accepted = Bytes(emitted) + Buffered(ring) /\ ring.write_buf \in 0..ChunkSize
      BY ZenonT(30) DEF IInv, Account, Books, RingType
    <3>2. emitted \in Seq(Chunk)
      BY ZenonT(30) DEF IInv, Account
    <3>3. ring.write_buf \in Nat
      BY ONLY <3>1, SizeAssumption
    <3> QED BY <3>1, <3>2, <3>3, BytesNat, Zenon
  <2> DEFINE b == IF ring.pending_full THEN ChunkSize ELSE 0
  <2>2. b \in Nat /\ Buffered(ring) = b + ring.write_buf
    BY SizeAssumption DEF Buffered
  <2> HIDE DEF b
  <2>3. accepted = Bytes(emitted) + b + ring.write_buf
    BY <2>1, <2>2
  <2>4. ASSUME NEW n \in DOMAIN emitted, emitted[n].is_last PROVE n = Len(emitted)
    <3>1. emitted \in Seq(Chunk) /\ LastOnly(emitted)
      BY DEF IInv, Account, Finish
    <3>2. n \in 1..Len(emitted)
      BY <3>1
    <3>3. n \notin 1..(Len(emitted) - 1)
      BY <2>4, <3>1, ZenonT(30) DEF LastOnly
    <3> QED BY <3>1, <3>2, <3>3
  <2> QED BY <2>3, <2>4, ZenonT(30) DEF BytesConserved, b
<1> QED BY <1>1, Invariant, PTL

\* When poll_shutdown returns Ok, and not on a sender that a failed wait has
\* closed, every accepted byte is in a chunk, every chunk reached a socket, and
\* the ring is empty.
THEOREM OkIsDelivered == Spec => []OkMeansDelivered
<1>1. IInv /\ OkWhenClosed => OkMeansDelivered
  <2> SUFFICES ASSUME IInv, OkWhenClosed, result = "ok", shutdown # "failed"
               PROVE  /\ Sealed /\ Bytes(emitted) = accepted
                      /\ written = 0..(Len(emitted) - 1)
                      /\ is_drained(ring)
    BY DEF OkMeansDelivered
  <2>1. AllOut(emitted, written) /\ Occupied(ring) = {}
    <3>1. shutdown = "ok"
      BY DEF OkWhenClosed
    <3> QED BY <3>1 DEF IInv, Finish
  <2>2. Sealed /\ written = 0..(Len(emitted) - 1) /\ Ended(emitted)
    BY <2>1 DEF AllOut, Ended, Sealed
  <2>3. Flushed(ring)
    BY <2>2 DEF IInv, Finish
  <2>4. Bytes(emitted) = accepted
    <3>1. Buffered(ring) = 0
      BY <2>3 DEF Flushed, Buffered
    <3>2. Bytes(emitted) \in Nat
      BY BytesNat DEF IInv, Account
    <3> QED BY <3>1, <3>2 DEF IInv, Account
  <2>5. is_drained(ring)
    <3>1. live_chunk_count(ring) = 0
      BY <2>1, SlotSets, FS_EmptySet, ZenonT(30)
    <3> QED BY <2>3, <3>1, ZenonT(30) DEF is_drained, Flushed
  <2> QED BY <2>2, <2>4, <2>5, ZenonT(30)
<1> QED BY <1>1, Invariant, ClosedInvariant, PTL

\* An answer to an attempt that was lost with its callis frees nothing; a slot
\* is emptied by the answer to the attempt now stamped on it and by nothing else.
THEOREM FreedByItsAnswer == Spec => FreedOnlyByItsAnswer
<1>1. IInv /\ [Next]_vars => [Freed]_vars
  BY NextIInv
<1>2. Spec => [][Freed]_vars
  BY <1>1, Invariant, PTL DEF Spec
<1> QED BY <1>2, Zenon DEF FreedOnlyByItsAnswer, Freed

=============================================================================
