------------------------- MODULE BlobTransferProofs -------------------------
(***************************************************************************)
(* One blob stream over any set of callis, for every chunk size, window,   *)
(* number of bytes and of write attempts: no chunk is dropped at both      *)
(* ends, a completed stream is whole, and a reader sees a clean end only   *)
(* after the last chunk or while the stream is being failed.  The receiver *)
(* may send messages of its own.                                           *)
(*                                                                         *)
(* The operations of both rings are shown to follow the rules that the     *)
(* steps of BlobTransferSteps rest on; with them its invariant holds.      *)
(***************************************************************************)
EXTENDS BlobTransferSteps, RingProofs

----------------------------------------------------------------------------
(* The outbound ring moves on. *)

\* A change of r to t that makes chunks, in a stream that was not sealed.
Makes(r, t, a) ==
    /\ ~AllMade(r) /\ Advanced(Ids, r, <<>>, t, a)
    /\ t.lifecycle \in {"Open", "Sealing", "AwaitingComplete"}
    /\ LastOnly(NewChunks(r, t)) /\ (~AllMade(t) => Plain(NewChunks(r, t)))

\* Chunk assembly takes right rings to right rings.
LEMMA MakesOn ==
  ASSUME NEW r, NEW n, NEW q, RingOk(r, n, q), InboundOk(q, r), NEW t, NEW a, Makes(r, t, a)
  PROVE  Onward(r, n, q, t, n)
<1>1. /\ Books(r, Ids) /\ Books(t, Ids) /\ n \in Nat \ {0} /\ r.next_chunk_id \in Nat
      /\ t.next_chunk_id \in Nat /\ r.next_chunk_id <= t.next_chunk_id
  BY DEF RingOk, Makes, Advanced, Books, RingType
<1>2. /\ \A i \in Occupied(r) : t.slots[i] = r.slots[i]
      /\ \A i \in Occupied(t) \ Occupied(r) :
           t.slots[i].state = "Ready" /\ r.next_chunk_id <= t.slots[i].chunk_id
      /\ \A c \in r.next_chunk_id..(t.next_chunk_id - 1) : c \in DOMAIN t.chunk_index
  BY DEF Makes, Advanced
<1>3. \A i \in Attempted(t) : i \in Attempted(r) /\ t.slots[i] = r.slots[i]
  <2> SUFFICES ASSUME NEW i \in Attempted(t) PROVE i \in Attempted(r) /\ t.slots[i] = r.slots[i]
    OBVIOUS
  <2>1. i \in Occupied(t) /\ t.slots[i].state # "Ready" /\ i \in Slots
    BY DEF Attempted, Occupied
  <2>2. i \in Occupied(r)
    BY <1>2, <2>1, ZenonT(30)
  <2> QED BY <1>2, <2>1, <2>2, ZenonT(30) DEF Attempted
<1>4. InboundOk(q, t)
  BY <1>1 DEF InboundOk, Makes
<1>5. On(r, n, q, t, n, q)
  BY <1>1, <1>3 DEF On, Makes, Whole
<1>6. \A i \in Attempted(t) : t.slots[i].peer_msg_id < n
  BY <1>3 DEF RingOk
<1>7. ASSUME NEW i \in Occupied(t), t.slots[i].is_last
      PROVE  AllMade(t) /\ t.slots[i].chunk_id = t.next_chunk_id - 1
  <2>1. i \notin Occupied(r)
    BY <1>2, <1>7, ZenonT(30) DEF RingOk, Makes
  <2> DEFINE c == t.slots[i].chunk_id
             d == NewChunks(r, t)
             l == c - r.next_chunk_id + 1
  <2>2. /\ r.next_chunk_id <= c /\ c \in Nat /\ c < t.next_chunk_id /\ t.chunk_index[c] = i
        /\ t.slots[i].is_last \in BOOLEAN
    BY <1>1, <1>2, <2>1, ZenonT(30) DEF Books, RingType, SlotOf, Occupied
  <2>3. l \in 1..(t.next_chunk_id - r.next_chunk_id) /\ r.next_chunk_id + l - 1 = c
    BY <1>1, <2>2
  <2>4. d[l].is_last = TRUE
    <3> HIDE DEF l
    <3>1. d[l] = [len |-> t.slots[t.chunk_index[r.next_chunk_id + l - 1]].len,
                  is_last |-> t.slots[t.chunk_index[r.next_chunk_id + l - 1]].is_last]
      BY <2>3, ZenonT(30) DEF NewChunks
    <3>2. t.chunk_index[r.next_chunk_id + l - 1] = i
      BY <2>2, <2>3, ZenonT(30)
    <3>3. d[l].is_last = t.slots[i].is_last
      BY <3>1, <3>2
    <3> HIDE DEF d
    <3> QED BY <1>7, <2>2, <3>3, ZenonT(30)
  <2>5. Len(d) = t.next_chunk_id - r.next_chunk_id
    BY DEF Makes, Advanced
  <2> HIDE DEF d
  <2>6. AllMade(t)
    <3> SUFFICES ASSUME Plain(d) PROVE FALSE
      BY DEF Makes, d
    <3> QED BY <2>3, <2>4, <2>5, ZenonT(30) DEF Plain
  <2>7. c = t.next_chunk_id - 1
    <3> SUFFICES ASSUME c # t.next_chunk_id - 1 PROVE FALSE
      OBVIOUS
    <3>1. l \in 1..(Len(d) - 1)
      <4> HIDE DEF c
      <4> QED BY ONLY <1>1, <2>2, <2>3, <2>5, c # t.next_chunk_id - 1, SMTT(30)
    <3>2. LastOnly(d)
      BY DEF Makes, d
    <3> QED BY <2>4, <3>1, <3>2, ZenonT(30) DEF LastOnly
  <2> QED BY <2>6, <2>7, ZenonT(30)
<1>8. ASSUME NEW c \in 0..(t.next_chunk_id - 1)
      PROVE  c \in Taken(q) \/ c \in DOMAIN t.chunk_index
  <2>1. CASE c < r.next_chunk_id
    <3>1. c \in Taken(q) \/ c \in DOMAIN r.chunk_index
      <4>1. r.lifecycle # "Failed" /\ c \in 0..(r.next_chunk_id - 1)
        BY <1>1, <2>1 DEF Makes, AllMade
      <4> QED BY <4>1 DEF RingOk
    <3>2. ASSUME c \in DOMAIN r.chunk_index PROVE c \in DOMAIN t.chunk_index
      <4>1. PICK i \in Occupied(r) : c = r.slots[i].chunk_id
        BY <1>1, <3>2 DEF Books
      <4>2. i \in Occupied(t) /\ c = t.slots[i].chunk_id
        BY <1>2, <4>1, ZenonT(30) DEF Occupied
      <4> QED BY <1>1, <4>2, ZenonT(30) DEF Books
    <3> QED BY <3>1, <3>2, ZenonT(30)
  <2>2. CASE ~(c < r.next_chunk_id)
    BY <1>1, <1>2, <2>2
  <2> QED BY <2>1, <2>2, ZenonT(30)
<1>9. RingOk(t, n, q)
  BY <1>1, <1>6, <1>7, <1>8, ZenonT(30) DEF RingOk, Makes
<1> QED BY <1>4, <1>5, <1>9, ZenonT(30) DEF Onward

\* The ids a slot may be stamped with.
LEMMA BothIds == 0 \in Ids /\ Callis \subseteq Ids
BY DEF Ids

\* close, fail, and mark_complete of a stream that arrived.
LEMMA LifecycleOn ==
  ASSUME NEW r, NEW n, NEW q, Both(r, n, q), NEW err
  PROVE  /\ Onward(r, n, q, close(r), n)
         /\ Onward(r, n, q, close(fail(r, err)), n)
         /\ Whole(r, q) => Onward(r, n, q, mark_complete(r), n)
<1>1. Books(r, Ids)
  BY DEF Both, RingOk
<1> DEFINE f == fail(r, err)
<1>2. /\ Books(close(r), Ids) /\ Turned(r, close(r))
      /\ close(r).lifecycle = IF r.lifecycle = "Failed" THEN "Failed" ELSE "Closed"
      /\ Books(f, Ids) /\ Turned(r, f)
      /\ f.lifecycle = "Failed"
      /\ Books(mark_complete(r), Ids) /\ Turned(r, mark_complete(r))
      /\ mark_complete(r).lifecycle = IF r.lifecycle = "Failed" THEN "Failed" ELSE "Completed"
  BY <1>1, LifecycleBooks, ZenonT(30)
<1> HIDE DEF f
<1>3. /\ Books(close(f), Ids) /\ Turned(f, close(f))
      /\ close(f).lifecycle = IF f.lifecycle = "Failed" THEN "Failed" ELSE "Closed"
  BY <1>2, LifecycleBooks, Zenon
<1>4. Onward(r, n, q, close(r), n)
  <2>1. AllMade(close(r)) /\ close(r).lifecycle # "Completed"
        /\ (close(r).lifecycle # "Failed" => r.lifecycle # "Failed")
    BY <1>2 DEF AllMade
  <2> QED BY <1>2, <2>1, TurnOn, Zenon
<1>5. Onward(r, n, q, close(f), n)
  <2>1. close(f).lifecycle = "Failed" /\ Turned(r, close(f))
    BY <1>2, <1>3, ZenonT(30) DEF Turned
  <2>2. AllMade(close(f)) /\ close(f).lifecycle # "Completed"
    BY <2>1 DEF AllMade
  <2> QED BY <1>3, <2>1, <2>2, TurnOn, Zenon
<1>6. Whole(r, q) => Onward(r, n, q, mark_complete(r), n)
  <2>1. AllMade(mark_complete(r)) /\ (mark_complete(r).lifecycle # "Failed" => r.lifecycle # "Failed")
    BY <1>2 DEF AllMade
  <2> QED BY <1>2, <2>1, TurnOn, Zenon
<1> QED BY <1>4, <1>5, <1>6, ZenonT(30) DEF f

\* push_available.
LEMMA PushOn ==
  ASSUME NEW r, NEW n, NEW q, Both(r, n, q), r.lifecycle = "Open", NEW k \in Nat
  PROVE  Onward(r, n, q, push_available(r, k).ring, n)
<1> DEFINE t == push_available(r, k).ring
           a == Buffered(r)
<1>1. Books(r, Ids) /\ RingType(r, Ids)
  BY Zenon DEF Both, RingOk, Books
<1>2. a \in Nat
  BY <1>1, SizeAssumption DEF Buffered, RingType
<1> HIDE DEF a
<1>3. <<>> \in Seq(Chunk) /\ a = Bytes(<<>>) + Buffered(r)
  BY <1>2, BytesEmpty DEF a
<1>4. Pushing(Ids, r, <<>>, a, k)
  BY <1>1, <1>2, <1>3, BothIds, ZenonT(30) DEF Pushing
<1>5. Round(Ids, r, <<>>, a, k, push_available(r, k))
  BY <1>4, PushAvailable, Zenon
<1> DEFINE b == a + push_available(r, k).accepted
<1>6. Stage(Ids, r, <<>>, t, b) /\ Plain(NewChunks(r, t))
  BY <1>5, Zenon DEF Round
<1> HIDE DEF t, b
<1>7. Books(t, Ids) /\ Grown(r, t) /\ NewChunks(r, t) \in Seq(Chunk) /\ Turned(t, t)
  BY <1>6 DEF Stage, Turned
<1>8. Advanced(Ids, r, <<>>, t, b)
  BY <1>6, <1>7, StageAdvanced, Zenon
<1>9. t.lifecycle = "Open"
  BY <1>7, ZenonT(30) DEF Grown
<1>10. Makes(r, t, b)
  BY <1>6, <1>7, <1>8, <1>9, PlainLastOnly, ZenonT(30) DEF Makes, AllMade
<1> QED BY <1>10, MakesOn, ZenonT(30) DEF Both, t

\* seal.
LEMMA SealOn ==
  ASSUME NEW r, NEW n, NEW q, Both(r, n, q), r.lifecycle \notin {"Failed", "Closed"}
  PROVE  Onward(r, n, q, seal(r), n)
<1> DEFINE t == seal(r)
           a == Buffered(r)
<1>1. Books(r, Ids) /\ RingType(r, Ids)
  BY Zenon DEF Both, RingOk, Books
<1>2. a \in Nat
  BY <1>1, SizeAssumption DEF Buffered, RingType
<1> HIDE DEF a
<1>3. <<>> \in Seq(Chunk) /\ a = Bytes(<<>>) + Buffered(r)
  BY <1>2, BytesEmpty DEF a
<1>4. CanSeal(Ids, r, <<>>, a)
  BY <1>1, <1>2, <1>3, BothIds, ZenonT(30) DEF CanSeal
<1>5. HasSealed(Ids, r, <<>>, a)
  BY <1>4, SealBooks, Zenon
<1>6. /\ Advanced(Ids, r, <<>>, t, a)
      /\ \/ r.lifecycle \in {"AwaitingComplete", "Completed"} /\ t = r
         \/ /\ t.lifecycle = "AwaitingComplete" /\ r.lifecycle \notin {"AwaitingComplete", "Completed"}
            /\ LastOnly(NewChunks(r, t))
         \/ t.lifecycle = "Sealing" /\ Turned(r, t) /\ NewChunks(r, t) = <<>>
  BY <1>5, Zenon DEF HasSealed
<1>7. CASE t = r
  BY <1>7, StayOn, ZenonT(30)
<1>8. CASE /\ t.lifecycle = "AwaitingComplete" /\ r.lifecycle \notin {"AwaitingComplete", "Completed"}
           /\ LastOnly(NewChunks(r, t))
  <2>1. ~AllMade(r) /\ AllMade(t)
    BY <1>1, <1>8, ZenonT(30) DEF AllMade, RingType, Lifecycles
  <2>2. Makes(r, t, a)
    BY <1>6, <1>8, <2>1, Zenon DEF Makes
  <2> QED BY <2>2, MakesOn, Zenon DEF Both
<1>9. CASE t.lifecycle = "Sealing" /\ Turned(r, t)
  <2>1. CASE ~AllMade(r)
    <3>1. Books(t, Ids) /\ t.lifecycle # "Completed" /\ r.lifecycle # "Failed"
      BY <1>6, <1>9, ZenonT(30) DEF Advanced
    <3> QED BY <1>9, <2>1, <3>1, TurnOn, Zenon
  <2>2. CASE AllMade(r)
    <3>1. r.lifecycle \in {"AwaitingComplete", "Completed"}
      BY <1>1, <2>2, ZenonT(30) DEF AllMade, RingType, Lifecycles
    <3>2. t = r
      BY <3>1 DEF seal
    <3> QED BY <1>7, <3>2, ZenonT(30)
  <2> QED BY <2>1, <2>2, ZenonT(30)
<1> HIDE DEF t
<1> QED BY <1>6, <1>7, <1>8, <1>9, Zenon DEF t

\* t has the stream of r; what the slots of t hold was there before.
Rewritten(r, n, t, m) ==
    /\ SameStream(r, t) /\ Books(t, Ids) /\ m \in Nat /\ n <= m
    /\ \A i \in Slots :
         /\ t.slots[i].state # "Empty" =>
              /\ r.slots[i].state # "Empty" /\ t.slots[i].chunk_id = r.slots[i].chunk_id
              /\ t.slots[i].is_last = r.slots[i].is_last
         /\ t.slots[i].state \in {"Writing", "InFlight"} =>
              \/ t.slots[i].peer_msg_id = n /\ n < m
              \/ /\ r.slots[i].state \in {"Writing", "InFlight"}
                 /\ t.slots[i].peer_msg_id = r.slots[i].peer_msg_id

\* Such a change takes right rings to right rings.
LEMMA RewrittenOn ==
  ASSUME NEW r, NEW n, NEW q, Both(r, n, q), NEW t, NEW m, Rewritten(r, n, t, m),
         \A i \in Occupied(r) \ Occupied(t) : r.slots[i].chunk_id \in Taken(q)
  PROVE  Onward(r, n, q, t, m)
<1>1. t.lifecycle = r.lifecycle /\ t.next_chunk_id = r.next_chunk_id
  BY ZenonT(30) DEF Rewritten, SameStream
<1>2. \A i \in Occupied(t) : /\ i \in Occupied(r) /\ t.slots[i].chunk_id = r.slots[i].chunk_id
                             /\ t.slots[i].is_last = r.slots[i].is_last
  BY ZenonT(30) DEF Rewritten, Occupied
<1>3. \A i \in Attempted(t) :
        \/ t.slots[i].peer_msg_id = n /\ n < m
        \/ i \in Attempted(r) /\ t.slots[i].peer_msg_id = r.slots[i].peer_msg_id
  BY DEF Rewritten, Attempted
<1>4. r.lifecycle = "Completed" => Whole(r, q)
  BY DEF Both, RingOk
<1>5. Moves(r, n, q, t, m)
  BY <1>1, <1>2, <1>3, <1>4, Zenon DEF Moves, Rewritten, AllMade
<1> QED BY <1>5, MovesOn, Zenon DEF Both

CanLeaseOn(r, n, q, k) ==
    Both(r, n, q) /\ k \in Callis /\ (has_dispatchable_replay(r) \/ has_dispatchable_fresh(r))

\* lease_next_chunk_for_write: the lease carries the new id.
LEMMA LeaseOn ==
  ASSUME NEW r, NEW n, NEW q, NEW k, CanLeaseOn(r, n, q, k)
  PROVE  LET t == lease_next_chunk_for_write(r, k, n)
         IN  LeasedOn(r, n, q, t, LeaseOf(t, NextSlot(r)))
<1> DEFINE t == lease_next_chunk_for_write(r, k, n)
           i == NextSlot(r)
           l == LeaseOf(t, i)
<1>1. /\ Books(r, Ids) /\ RingType(r, Ids) /\ n \in Nat /\ r.next_chunk_id \in Nat
      /\ r.slots \in [Slots -> SlotOf(Ids)]
  BY ZenonT(30) DEF CanLeaseOn, Both, RingOk, Books, RingType
<1>2. \A j \in Attempted(r) : r.slots[j].peer_msg_id \in Nat /\ r.slots[j].peer_msg_id # n
                              /\ j \in Slots
  <2> SUFFICES ASSUME NEW j \in Attempted(r)
               PROVE  r.slots[j].peer_msg_id \in Nat /\ r.slots[j].peer_msg_id # n /\ j \in Slots
    OBVIOUS
  <2>1. j \in Slots /\ r.slots[j] \in SlotOf(Ids)
    BY <1>1, ZenonT(30) DEF Attempted
  <2>2. r.slots[j].peer_msg_id < n
    BY DEF CanLeaseOn, Both, RingOk
  <2> QED BY <1>1, <2>1, <2>2 DEF SlotOf
<1>3. CanLease(Ids, r, k, n)
  BY <1>1, <1>2, BothIds, ZenonT(30)
     DEF CanLease, CanLeaseOn, has_dispatchable_replay, has_dispatchable_fresh
<1>4. HasLeased(Ids, r, k, n)
  BY <1>3, LeaseBooks, Zenon
<1>5. /\ i \in Slots /\ r.slots[i].state \in {"ReplayReady", "Ready"}
      /\ t.slots[i] = Leased(r.slots[i], k, n)
      /\ \A j \in Slots : j # i => t.slots[j] = r.slots[j]
      /\ SameStream(r, t) /\ Books(t, Ids)
  BY <1>4, Zenon DEF HasLeased
<1> HIDE DEF t, i
<1>6. /\ t.slots[i].state = "Writing" /\ t.slots[i].chunk_id = r.slots[i].chunk_id
      /\ t.slots[i].is_last = r.slots[i].is_last /\ t.slots[i].peer_msg_id = n
  BY <1>5 DEF Leased
<1>7. n + 1 \in Nat /\ n <= n + 1 /\ n < n + 1
  BY <1>1
<1>8. Rewritten(r, n, t, n + 1)
  <2> SUFFICES ASSUME NEW j \in Slots
               PROVE  /\ t.slots[j].state # "Empty" =>
                          /\ r.slots[j].state # "Empty" /\ t.slots[j].chunk_id = r.slots[j].chunk_id
                          /\ t.slots[j].is_last = r.slots[j].is_last
                      /\ t.slots[j].state \in {"Writing", "InFlight"} =>
                          \/ t.slots[j].peer_msg_id = n /\ n < n + 1
                          \/ /\ r.slots[j].state \in {"Writing", "InFlight"}
                             /\ t.slots[j].peer_msg_id = r.slots[j].peer_msg_id
    BY <1>5, <1>7, Zenon DEF Rewritten
  <2>1. CASE j = i
    BY <1>5, <1>6, <1>7, <2>1, Zenon
  <2>2. CASE j # i
    BY <1>5, <2>2, ZenonT(30)
  <2> QED BY <2>1, <2>2, Zenon
<1>9. \A j \in Occupied(r) \ Occupied(t) : r.slots[j].chunk_id \in Taken(q)
  <2> SUFFICES ASSUME NEW j \in Occupied(r) PROVE j \in Occupied(t)
    OBVIOUS
  <2> QED BY <1>5, <1>6, ZenonT(30) DEF Occupied
<1>10. Onward(r, n, q, t, n + 1)
  BY <1>8, <1>9, RewrittenOn, Zenon DEF CanLeaseOn
<1>11. t.slots[i] \in SlotOf(Ids) /\ IsLease(t.slots[i])
  <2>1. t.slots[i] \in SlotOf(Ids)
    BY <1>5, ZenonT(30) DEF Books, RingType
  <2> QED BY <2>1, SlotIsLease, Zenon
<1>12. l = InPhase(t.slots[i], "Lease")
  BY <1>11, PhaseAt, Zenon DEF LeaseOf
<1> HIDE DEF l
<1>13. /\ IsLease(l) /\ l.chunk_id = t.slots[i].chunk_id /\ l.is_last = t.slots[i].is_last
       /\ l.peer_msg_id = n
  BY <1>6, <1>12, ZenonT(30) DEF IsLease, InPhase
<1>14. Good(FrameOf(l), t, n + 1)
  <2> DEFINE f == FrameOf(l)
  <2>1. f.id = n /\ f.chunk_id = t.slots[i].chunk_id /\ f.is_last = t.slots[i].is_last
        /\ f \in Frame
    BY <1>1, <1>11, <1>13, ZenonT(30) DEF FrameOf, Frame, SlotOf
  <2> HIDE DEF f
  <2>2. /\ Books(t, Ids) /\ i \in Attempted(t) /\ i \in Occupied(t)
    BY <1>5, <1>6, ZenonT(30) DEF Attempted, Occupied
  <2>3. f.chunk_id < t.next_chunk_id
    BY <2>1, <2>2, ZenonT(30) DEF Books
  <2>4. f.is_last => AllMade(t) /\ f.chunk_id = t.next_chunk_id - 1
    BY <1>10, <2>1, <2>2, Zenon DEF Onward, RingOk
  <2>5. \A j \in Attempted(t) : t.slots[j].peer_msg_id = f.id => t.slots[j].chunk_id = f.chunk_id
    <3>1. \A j \in Attempted(t) : t.slots[j].peer_msg_id = t.slots[i].peer_msg_id => j = i
      BY <2>2, Zenon DEF Books
    <3> QED BY <1>6, <2>1, <3>1, ZenonT(30)
  <2> QED BY <1>7, <2>1, <2>3, <2>4, <2>5, ZenonT(30) DEF Good, f
<1> QED BY <1>10, <1>13, <1>14, ZenonT(30) DEF LeasedOn, l, t, i

\* mark_inflight, of a lease that is current or stale.
LEMMA MarkOn ==
  ASSUME NEW r, NEW n, NEW q, Both(r, n, q), NEW lease, IsLease(lease)
  PROVE  Onward(r, n, q, mark_inflight(r, lease), n)
<1> DEFINE t == mark_inflight(r, lease)
           i == r.chunk_index[lease.chunk_id]
<1>1. CASE ~Matches(r, lease)
  <2>1. t = r
    BY <1>1 DEF mark_inflight
  <2> QED BY <2>1, StayOn, ZenonT(30)
<1>2. CASE Matches(r, lease)
  <2>1. Books(r, Ids) /\ n \in Nat /\ n <= n
    BY DEF Both, RingOk
  <2>2. HasMarked(Ids, r, lease)
    BY <1>2, <2>1, MarkBooks, Zenon DEF CanMark
  <2>3. /\ i \in Slots /\ r.slots[i].state = "Writing"
        /\ t.slots[i] = InPhase(r.slots[i], "InFlight")
        /\ \A j \in Slots : j # i => t.slots[j] = r.slots[j]
        /\ SameStream(r, t) /\ Books(t, Ids)
    BY <2>2, Zenon DEF HasMarked
  <2> HIDE DEF t, i
  <2>4. /\ t.slots[i].state = "InFlight" /\ t.slots[i].chunk_id = r.slots[i].chunk_id
        /\ t.slots[i].is_last = r.slots[i].is_last
        /\ t.slots[i].peer_msg_id = r.slots[i].peer_msg_id
    BY <2>3 DEF InPhase
  <2>5. Rewritten(r, n, t, n)
    BY <2>1, <2>3, <2>4, ZenonT(30) DEF Rewritten
  <2>6. \A j \in Occupied(r) \ Occupied(t) : r.slots[j].chunk_id \in Taken(q)
    BY <2>3, <2>4 DEF Occupied
  <2> QED BY <2>5, <2>6, RewrittenOn, ZenonT(30) DEF t
<1> QED BY <1>1, <1>2, ZenonT(30)

\* mark_callis_replay_ready.
LEMMA ReplayOn ==
  ASSUME NEW r, NEW n, NEW q, Both(r, n, q), NEW k
  PROVE  Onward(r, n, q, mark_callis_replay_ready(r, k), n)
<1> DEFINE t == mark_callis_replay_ready(r, k)
<1>1. Books(r, Ids) /\ n \in Nat /\ n <= n
  BY DEF Both, RingOk
<1>2. HasReplayed(Ids, r, k)
  BY <1>1, ReplayBooks, BothIds, Zenon DEF CanReplay
<1>3. /\ \A j \in Lost(r, k) : t.slots[j] = Undone(r.slots[j])
      /\ \A j \in Slots \ Lost(r, k) : t.slots[j] = r.slots[j]
      /\ SameStream(r, t) /\ Books(t, Ids)
  BY <1>2, Zenon DEF HasReplayed
<1> HIDE DEF t
<1>4. \A j \in Lost(r, k) : /\ j \in Slots /\ r.slots[j].state \in {"Writing", "InFlight"}
                            /\ t.slots[j].state = "ReplayReady"
                            /\ t.slots[j].chunk_id = r.slots[j].chunk_id
                            /\ t.slots[j].is_last = r.slots[j].is_last
  <2> SUFFICES ASSUME NEW j \in Lost(r, k)
               PROVE  /\ j \in Slots /\ r.slots[j].state \in {"Writing", "InFlight"}
                      /\ t.slots[j].state = "ReplayReady"
                      /\ t.slots[j].chunk_id = r.slots[j].chunk_id
                      /\ t.slots[j].is_last = r.slots[j].is_last
    BY Zenon
  <2>1. j \in Slots /\ r.slots[j].state \in {"Writing", "InFlight"}
    BY DEF Lost, LostIn, InState
  <2>2. t.slots[j] = Undone(r.slots[j])
    BY <1>3, Zenon
  <2> QED BY <2>1, <2>2 DEF Undone
<1>5. Rewritten(r, n, t, n)
  <2> SUFFICES ASSUME NEW j \in Slots
               PROVE  /\ t.slots[j].state # "Empty" =>
                          /\ r.slots[j].state # "Empty" /\ t.slots[j].chunk_id = r.slots[j].chunk_id
                          /\ t.slots[j].is_last = r.slots[j].is_last
                      /\ t.slots[j].state \in {"Writing", "InFlight"} =>
                          /\ r.slots[j].state \in {"Writing", "InFlight"}
                          /\ t.slots[j].peer_msg_id = r.slots[j].peer_msg_id
    BY <1>1, <1>3, Zenon DEF Rewritten
  <2>1. CASE j \in Lost(r, k)
    BY <1>4, <2>1, ZenonT(30)
  <2>2. CASE j \notin Lost(r, k)
    BY <1>3, <2>2, ZenonT(30)
  <2> QED BY <2>1, <2>2, ZenonT(30)
<1>6. \A j \in Occupied(r) \ Occupied(t) : r.slots[j].chunk_id \in Taken(q)
  <2> SUFFICES ASSUME NEW j \in Occupied(r) PROVE j \in Occupied(t)
    OBVIOUS
  <2> QED BY <1>3, <1>4, ZenonT(30) DEF Occupied
<1> QED BY <1>5, <1>6, RewrittenOn, ZenonT(30) DEF t

\* complete_chunk, of an answer m, empties at most the slot of that attempt.
LEMMA CompleteOn ==
  ASSUME NEW r, NEW n, NEW q, Both(r, n, q), NEW m
  PROVE  LET t == complete_chunk(r, m)
         IN  /\ Rewritten(r, n, t, n)
             /\ \A j \in Occupied(r) \ Occupied(t) : j \in Attempted(r) /\ r.slots[j].peer_msg_id = m
<1> DEFINE t == complete_chunk(r, m)
<1>1. Books(r, Ids) /\ n \in Nat /\ n <= n
  BY DEF Both, RingOk
<1>2. HasCompleted(Ids, r, m)
  BY <1>1, CompleteBooks, BothIds, Zenon DEF CanComplete
<1>3. /\ SameStream(r, t) /\ Books(t, Ids)
      /\ m \notin DOMAIN r.ack_map => t = r
      /\ m \in DOMAIN r.ack_map =>
           \E i \in InState(r, "InFlight") :
             /\ r.slots[i].peer_msg_id = m /\ t.slots[i] = EmptySlot
             /\ \A j \in Slots : j # i => t.slots[j] = r.slots[j]
  BY <1>2, Zenon DEF HasCompleted
<1> HIDE DEF t
<1>4. CASE m \notin DOMAIN r.ack_map
  <2>1. t = r
    BY <1>3, <1>4, ZenonT(30)
  <2> QED BY <1>1, <1>3, <2>1, ZenonT(30) DEF Rewritten, t
<1>5. CASE m \in DOMAIN r.ack_map
  <2>1. PICK i \in InState(r, "InFlight") :
             /\ r.slots[i].peer_msg_id = m /\ t.slots[i] = EmptySlot
             /\ \A j \in Slots : j # i => t.slots[j] = r.slots[j]
    BY <1>3, <1>5, ZenonT(30)
  <2>2. i \in Slots /\ r.slots[i].state = "InFlight" /\ t.slots[i].state = "Empty"
    BY <2>1, SMTT(30) DEF InState, EmptySlot
  <2>3. Rewritten(r, n, t, n)
    <3> SUFFICES ASSUME NEW j \in Slots
                 PROVE  /\ t.slots[j].state # "Empty" =>
                            /\ r.slots[j].state # "Empty" /\ t.slots[j].chunk_id = r.slots[j].chunk_id
                            /\ t.slots[j].is_last = r.slots[j].is_last
                        /\ t.slots[j].state \in {"Writing", "InFlight"} =>
                            /\ r.slots[j].state \in {"Writing", "InFlight"}
                            /\ t.slots[j].peer_msg_id = r.slots[j].peer_msg_id
      BY <1>1, <1>3, Zenon DEF Rewritten
    <3>1. CASE j = i
      BY <2>2, <3>1, ZenonT(30)
    <3>2. CASE j # i
      BY <2>1, <3>2, ZenonT(30)
    <3> QED BY <3>1, <3>2
  <2>4. \A j \in Occupied(r) \ Occupied(t) : j \in Attempted(r) /\ r.slots[j].peer_msg_id = m
    <3> SUFFICES ASSUME NEW j \in Occupied(r) \ Occupied(t) PROVE j = i
      BY <2>1, <2>2, ZenonT(30) DEF Attempted
    <3> QED BY <2>1, <2>2, ZenonT(30) DEF Occupied
  <2> QED BY <2>3, <2>4, ZenonT(30) DEF t
<1> QED BY <1>4, <1>5, ZenonT(30)

\* note_ack of a chunk that was taken.
LEMMA AckOn ==
  ASSUME NEW r, NEW n, NEW q, Both(r, n, q), NEW m, AckOk(m, r, n, q)
  PROVE  Onward(r, n, q, note_ack(r, m), n)
<1> DEFINE t == complete_chunk(r, m)
<1>1. /\ Rewritten(r, n, t, n)
      /\ \A j \in Occupied(r) \ Occupied(t) : j \in Attempted(r) /\ r.slots[j].peer_msg_id = m
  BY CompleteOn, Zenon
<1> HIDE DEF t
<1>2. \A j \in Occupied(r) \ Occupied(t) : r.slots[j].chunk_id \in Taken(q)
  BY <1>1 DEF AckOk
<1> QED BY <1>1, <1>2, RewrittenOn, Zenon DEF note_ack, t

\* note_error.
LEMMA ErrorOn ==
  ASSUME NEW r, NEW n, NEW q, Both(r, n, q), NEW m, NEW err
  PROVE  Onward(r, n, q, note_error(r, m, err), n)
<1> DEFINE s == complete_chunk(r, m)
           t == note_error(r, m, err)
<1>1. Rewritten(r, n, s, n)
  BY CompleteOn, Zenon
<1>2. Books(s, Ids)
  BY <1>1 DEF Rewritten
<1>3. Books(t, Ids) /\ Turned(s, t) /\ t.lifecycle = "Failed"
  BY <1>2, NoteErrorBooks, Zenon
<1> HIDE DEF s, t
<1>4. t.slots = s.slots /\ t.next_chunk_id = r.next_chunk_id
  BY <1>1, <1>3, ZenonT(30) DEF Turned, Rewritten, SameStream
<1>5. Moves(r, n, q, t, n)
  <2>1. \A i \in Occupied(t) : /\ i \in Occupied(r) /\ t.slots[i].chunk_id = r.slots[i].chunk_id
                               /\ t.slots[i].is_last = r.slots[i].is_last
    BY <1>1, <1>4, ZenonT(30) DEF Rewritten, Occupied
  <2>2. \A i \in Attempted(t) :
          \/ t.slots[i].peer_msg_id = n /\ n < n
          \/ i \in Attempted(r) /\ t.slots[i].peer_msg_id = r.slots[i].peer_msg_id
    BY <1>1, <1>4, ZenonT(30) DEF Rewritten, Attempted
  <2>3. AllMade(t)
    BY <1>3, ZenonT(30) DEF AllMade
  <2>4. n \in Nat /\ n <= n
    BY DEF Both, RingOk
  <2>5. t.lifecycle # "Completed"
    BY <1>3
  <2> QED BY <1>3, <1>4, <2>1, <2>2, <2>3, <2>4, <2>5, Zenon DEF Moves
<1> QED BY <1>5, MovesOn, Zenon DEF Both, t

----------------------------------------------------------------------------
(* The specification. *)

\* The facts about counting hold.
LEMMA NumbersHold == Numbers
<1>1. Cardinality(Callis) \in Nat
  BY TransferAssumption, FS_CardinalityType, ZenonT(30)
<1>2. ASSUME NEW T, T \subseteq Nat /\ T # {} PROVE \E n \in T : \A m \in T : n <= m
  BY <1>2, LeastElement, Zenon
<1>3. ASSUME NEW S, IsFiniteSet(S) PROVE Cardinality(S) \in Nat
  BY <1>3, FS_CardinalityType, ZenonT(30)
<1>4. ASSUME NEW S, IsFiniteSet(S), NEW T, T \subseteq S
      PROVE  IsFiniteSet(T) /\ Cardinality(T) <= Cardinality(S)
  BY <1>4, FS_Subset, Zenon
<1>5. ASSUME NEW S, NEW x, IsFiniteSet(S)
      PROVE  /\ IsFiniteSet(S \cup {x})
             /\ x \notin S => Cardinality(S \cup {x}) = Cardinality(S) + 1
  BY <1>5, FS_AddElement, Zenon
<1>6. ASSUME NEW a \in Int, NEW b \in Int
      PROVE  IsFiniteSet(a..b) /\ (a <= b => Cardinality(a..b) = b - a + 1)
  BY FS_Interval
<1> QED BY <1>1, <1>2, <1>3, <1>4, <1>5, <1>6, Zenon DEF Numbers

\* The operations of both rings follow the rules.
LEMMA RingRulesHold ==
  ASSUME NEW r, NEW n, NEW q, Both(r, n, q)
  PROVE  RingRules(r, n, q)
<1>1. PushRule(r, n, q)
  BY PushOn, Zenon DEF PushRule
<1>2. SealRule(r, n, q)
  BY SealOn, Zenon DEF SealRule
<1>3. TurnRule(r, n, q)
  BY LifecycleOn, Zenon DEF TurnRule
<1>4. LeaseRule(r, n, q)
  BY LeaseOn, Zenon DEF LeaseRule, CanLeaseOn
<1>5. MarkRule(r, n, q) /\ ReplayRule(r, n, q)
  BY MarkOn, ReplayOn, Zenon DEF MarkRule, ReplayRule
<1>6. AckRule(r, n, q) /\ ErrorRule(r, n, q)
  BY AckOn, ErrorOn, Zenon DEF AckRule, ErrorRule
<1>7. InsertRule(q, r)
  BY InsertIs, NumbersHold, Zenon DEF InsertRule
<1>8. TakeRule(q, r)
  <2>1. InboundOk(q, r) /\ r.next_chunk_id \in Nat
    BY DEF Both, RingOk, Books, RingType
  <2> QED BY <2>1, TakeIs, NumbersHold, Zenon DEF TakeRule
<1> QED BY <1>1, <1>2, <1>3, <1>4, <1>5, <1>6, <1>7, <1>8, Zenon DEF RingRules

\* The rules hold wherever the invariant does.
LEMMA RulesHold ==
  ASSUME IInv
  PROVE  Rules
BY Before, RingRulesHold, NumbersHold, Zenon DEF Rules

\* A new stream.
LEMMA InitHolds ==
  ASSUME Init
  PROVE  IInv
<1>1. RingOk(ring, next_id, inbound) /\ InboundOk(inbound, ring)
  <2>1. ring = NewRing /\ next_id = 1 /\ inbound = NewInbound
    BY DEF Init
  <2>2. /\ Books(ring, Ids) /\ Occupied(ring) = {}
        /\ ring.next_chunk_id = 0 /\ ring.lifecycle = "Open"
    <3>1. 0 \in Ids
      BY DEF Ids
    <3> QED BY <2>1, <3>1, NewRingBooks, ZenonT(30)
  <2>3. Attempted(ring) = {}
    BY <2>2, ZenonT(30) DEF Attempted, Occupied
  <2>4. RingOk(ring, next_id, inbound)
    BY <2>1, <2>2, <2>3 DEF RingOk
  <2>5. Cardinality({}) = 0 /\ 0 <= RecvWindow
    BY FS_EmptySet, RecvWindowAssumption
  <2>6. InboundOk(inbound, ring)
    BY <2>1, <2>2, <2>5 DEF InboundOk, NewInbound
  <2> QED BY <2>4, <2>6, ZenonT(30)
<1>2. SenderOk
  <2>1. sender = "open" /\ registered \in BOOLEAN /\ inflight = <<>>
    BY DEF Init
  <2>2. InflightOk(<<>>)
    BY DEF InflightOk
  <2> QED BY <2>1, <2>2, ZenonT(30) DEF SenderOk
<1>3. ReaderOk
  <2>1. /\ reader = [pc |-> "check", armed |-> FALSE, read |-> <<>>]
        /\ receiver = [completed |-> FALSE, error |-> "none", notified |-> FALSE]
        /\ active \in BOOLEAN /\ recent \in BOOLEAN /\ reaper = "idle"
    BY ZenonT(30) DEF Init
  <2>2. ReceiverOk(receiver)
    BY <2>1 DEF ReceiverOk
  <2> QED BY <2>1, <2>2, ZenonT(30) DEF ReaderOk, Places
<1>4. EndOk
  <2>1. active /\ ~recent /\ reader.pc = "check"
    BY DEF Init
  <2> QED BY <2>1 DEF EndOk, EndRead, Past
<1>5. LanesOk(lanes)
  <2>1. lanes = [l \in Lanes |-> <<>>]
    BY DEF Init
  <2>2. \A l \in Lanes : Len(<<>>) <= Capacity(l)
    BY NumbersHold, CapacityNat
  <2> QED BY <2>1, <2>2 DEF LanesOk
<1>6. Now
  <2>1. /\ tx = [k \in Callis |-> [phase |-> "idle"]] /\ rx = [k \in Callis |-> [phase |-> "idle"]]
        /\ write_slots = <<>>
    BY ZenonT(30) DEF Init
  <2>2. /\ tx = [k \in Callis |-> tx[k]] /\ \A k \in Callis : TxOk(tx[k], ring, next_id)
        /\ rx = [k \in Callis |-> rx[k]] /\ \A k \in Callis : RxOk(rx[k], ring, next_id, inbound)
    BY <2>1, ZenonT(30) DEF TxOk, RxOk
  <2>3. net = [k \in Callis |-> net[k]] /\ \A k \in Callis : NetOk(net[k], ring, next_id, inbound)
    <3>1. net = [k \in Callis |-> [state |-> "unused", s |-> FALSE, r |-> FALSE,
                                   alone |-> TRUE, out |-> <<>>, back |-> <<>>]]
      BY DEF Init
    <3>2. ASSUME NEW k \in Callis PROVE NetOk(net[k], ring, next_id, inbound)
      <4>1. net[k] = [state |-> "unused", s |-> FALSE, r |-> FALSE,
                      alone |-> TRUE, out |-> <<>>, back |-> <<>>]
        BY <3>1
      <4>2. <<>> \in Seq(GoodFrames(ring, next_id)) /\ <<>> \in Seq(GoodAnswers(ring, next_id, inbound))
        OBVIOUS
      <4> QED BY <4>1, <4>2 DEF NetOk, Channel
    <3> QED BY <3>1, <3>2, ZenonT(30)
  <2>4. write_slots = [m \in DOMAIN write_slots |-> write_slots[m]] /\ DOMAIN write_slots = {}
    BY <2>1
  <2> QED BY <2>2, <2>3, <2>4, ZenonT(30) DEF Now, Travel
<1> QED BY <1>1, <1>2, <1>3, <1>4, <1>5, <1>6, ZenonT(30) DEF IInv, Now

----------------------------------------------------------------------------
(* What the invariant says. *)

\* What the properties call accepted.
LEMMA Accept == Accepted = Taken(inbound)
BY DEF Accepted, Taken

\* The invariant gives the types and the bounds,
LEMMA TypesHold ==
  ASSUME IInv
  PROVE  TypeOK
<1>1. /\ ring.lifecycle \in {"Open", "Sealing", "AwaitingComplete", "Completed", "Failed", "Closed"}
      /\ has_window_capacity_for(ring, 0)
  BY DEF IInv, RingOk, Books, RingType, Lifecycles
<1>2. /\ sender \in {"open", "sealing", "completing", "ok", "failed", "dropped"}
      /\ \A m \in DOMAIN inflight : inflight[m] \in Callis
  BY ZenonT(30) DEF IInv, SenderOk, InflightOk
<1>3. Cardinality(inbound.received) <= RecvWindow
  BY DEF IInv, InboundOk
<1>4. receiver.error \in Errors \cup {"none"} /\ reader.pc \in Places
  BY DEF IInv, ReaderOk, ReceiverOk
<1>5. \A l \in Lanes : Len(lanes[l]) <= Capacity(l)
  BY DEF IInv, LanesOk
<1> QED BY <1>1, <1>2, <1>3, <1>4, <1>5, ZenonT(30) DEF TypeOK, Places

\* and the three properties.
LEMMA Implies ==
  ASSUME IInv
  PROVE  AckedAccepted /\ CompleteMeansAll /\ EofOrFailing
<1>1. /\ RingOk(ring, next_id, inbound) /\ InboundOk(inbound, ring) /\ EndOk
      /\ ring.next_chunk_id \in Nat
  BY ZenonT(30) DEF IInv, RingOk, Books, RingType
<1>2. AckedAccepted
  <2>1. ASSUME ring.lifecycle # "Failed", NEW c \in 0..(ring.next_chunk_id - 1), c \notin Accepted
        PROVE  \E i \in Slots : ring.slots[i].state # "Empty" /\ ring.slots[i].chunk_id = c
    <3>1. c \in DOMAIN ring.chunk_index
      BY <1>1, <2>1, Accept, ZenonT(30) DEF RingOk
    <3>d. DOMAIN ring.chunk_index = {ring.slots[i].chunk_id : i \in Occupied(ring)}
      BY <1>1, ZenonT(30) DEF RingOk, Books
    <3>2. PICK i \in Occupied(ring) : ring.slots[i].chunk_id = c
      BY <3>1, <3>d, ZenonT(30)
    <3> QED BY <3>2, ZenonT(30) DEF Occupied
  <2> QED BY <2>1, TypesHold, ZenonT(30) DEF AckedAccepted
<1>3. CompleteMeansAll
  <2>1. ASSUME ring.lifecycle = "Completed"
        PROVE  /\ inbound.last_chunk_id = ring.next_chunk_id - 1
               /\ Accepted = 0..(ring.next_chunk_id - 1)
    <3>1. Whole(ring, inbound)
      BY <1>1, <2>1, ZenonT(30) DEF RingOk
    <3> QED BY <1>1, <3>1, WholeTaken, Accept, ZenonT(30) DEF Whole
  <2> QED BY <2>1 DEF CompleteMeansAll
<1>4. EofOrFailing
  BY <1>1 DEF EndOk, EofOrFailing, Past
<1> QED BY <1>2, <1>3, <1>4, ZenonT(30)

\* IInv is an invariant of both specifications, whatever the windows, the
\* sizes, the callis, the losses, the timeouts and the drops.
THEOREM TransferInvariant == (Spec => []IInv) /\ (SpecBothWays => []IInv)
<1>1. Init => IInv
  BY InitHolds
<1>2. IInv /\ [Next /\ UNCHANGED workload]_<<vars, workload>> => IInv'
  <2> SUFFICES ASSUME IInv, [Next /\ UNCHANGED workload]_<<vars, workload>> PROVE IInv'
    OBVIOUS
  <2>1. [NextBothWays]_vars
    BY Zenon DEF NextBothWays
  <2> QED BY <2>1, RulesHold, StepKeeps, ZenonT(30)
<1>3. IInv /\ [/\ Next \/ \E m \in DOMAIN write_slots : own_ack(m)
              /\ UNCHANGED workload]_<<vars, workload>> => IInv'
  <2> SUFFICES ASSUME IInv, [NextBothWays /\ UNCHANGED workload]_<<vars, workload>> PROVE IInv'
    BY Zenon DEF NextBothWays
  <2>1. [NextBothWays]_vars
    BY Zenon
  <2> QED BY <2>1, RulesHold, StepKeeps, ZenonT(30)
<1> QED BY <1>1, <1>2, <1>3, PTL DEF Spec, SpecBothWays

\* No chunk is dropped at both ends: acknowledge_msg empties a slot only for a
\* chunk insert_chunk has stored, also when the receiver sends messages of its
\* own, and neither end buffers more than its window.
THEOREM NothingDropped ==
  (Spec => []AckedAccepted) /\ (SpecBothWays => []AckedAccepted)
<1>1. IInv => AckedAccepted
  BY Implies, ZenonT(30)
<1> QED BY <1>1, TransferInvariant, PTL

\* The sender believes blob-transfer-complete (handle_complete) only for a
\* stream the receiver has in full, up to the chunk flagged last.
THEOREM CompletionSound ==
  (Spec => []CompleteMeansAll) /\ (SpecBothWays => []CompleteMeansAll)
<1>1. IInv => CompleteMeansAll
  BY Implies, ZenonT(30)
<1> QED BY <1>1, TransferInvariant, PTL

\* poll_read ends a stream only behind its last chunk, or on a failure that is
\* under way.
THEOREM EndSound ==
  (Spec => []EofOrFailing) /\ (SpecBothWays => []EofOrFailing)
<1>1. IInv => EofOrFailing
  BY Implies
<1> QED BY <1>1, TransferInvariant, PTL

=============================================================================
