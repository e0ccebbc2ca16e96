-------------------------- MODULE BlobTransferSteps --------------------------
(***************************************************************************)
(* One blob stream over any set of callis: an invariant of both ends and   *)
(* of what travels between them, and that every step keeps it, given what  *)
(* the operations of the two rings do (Rules).                             *)
(*                                                                         *)
(* The invariant follows a chunk around.  What carries it to the receiver  *)
(* (a lease, a frame, a handler) agrees with the slot its attempt is       *)
(* stamped on (Good); what carries the answer back (an outcome, a          *)
(* response, a frame) speaks of a chunk the receiver took (Answered).  All *)
(* of it survives what either end may do meanwhile (On).                   *)
(***************************************************************************)
EXTENDS BlobTransfer, RingBooks, TLAPS

Ids == Callis \cup {0}

----------------------------------------------------------------------------
(* The two ends. *)

\* The outbound ring r, with message ids below n used: a chunk that left it was
\* taken, unless the stream failed, and only the final chunk of a sealed
\* stream is flagged last.
RingOk(r, n, q) ==
    /\ Books(r, Ids) /\ n \in Nat \ {0}
    /\ \A i \in Attempted(r) : r.slots[i].peer_msg_id < n
    /\ \A i \in Occupied(r) :
         r.slots[i].is_last => AllMade(r) /\ r.slots[i].chunk_id = r.next_chunk_id - 1
    /\ r.lifecycle # "Failed" =>
         \A c \in 0..(r.next_chunk_id - 1) : c \in Taken(q) \/ c \in DOMAIN r.chunk_index
    /\ r.lifecycle = "Completed" => Whole(r, q)

----------------------------------------------------------------------------
(* What travels between them. *)

Frame == [id : Nat, chunk_id : Nat, is_last : BOOLEAN]

\* The frame f was made from a chunk of r, under an id below n, and agrees
\* with the slot that waits for its answer.
Good(f, r, n) ==
    /\ f \in Frame /\ f.id < n /\ f.chunk_id < r.next_chunk_id
    /\ f.is_last => AllMade(r) /\ f.chunk_id = r.next_chunk_id - 1
    /\ \A i \in Attempted(r) : r.slots[i].peer_msg_id = f.id => r.slots[i].chunk_id = f.chunk_id

\* An ACK of m empties only the slot of a chunk that was taken.
AckOk(m, r, n, q) ==
    /\ m \in Nat /\ m < n
    /\ \A i \in Attempted(r) : r.slots[i].peer_msg_id = m => r.slots[i].chunk_id \in Taken(q)

Answers == [kind : {"Ack", "Complete"}, id : Nat] \cup [kind : {"Error"}, id : Nat, err : Errors]

Answered(b, r, n, q) ==
    /\ b \in Answers
    /\ b.kind = "Ack" => AckOk(b.id, r, n, q)
    /\ b.kind = "Complete" => Whole(r, q)

FrameOf(l) == [id |-> l.peer_msg_id, chunk_id |-> l.chunk_id, is_last |-> l.is_last]

Outcomes == {"Duplicate", "Stored", "Complete", "RecentlyCompleted", "BlobStreamNotFound"}

\* What a transmitter of the sender may be doing.
TxOk(x, r, n) ==
    \/ x \in [phase : {"idle", "ended"}]
    \/ /\ x.phase \in {"leased", "marked"} /\ x = [phase |-> x.phase, lease |-> x.lease]
       /\ IsLease(x.lease) /\ Good(FrameOf(x.lease), r, n)

\* What a chunk handler of the receiver may be doing.
RxOk(y, r, n, q) ==
    \/ y = [phase |-> "idle"]
    \/ /\ y.phase = "found" /\ y = [phase |-> "found", frame |-> y.frame]
       /\ Good(y.frame, r, n)
    \/ /\ y.phase \in {"refused", "removed"}
       /\ y = [phase |-> y.phase, frame |-> y.frame, err |-> y.err]
       /\ y.err \in Errors /\ Good(y.frame, r, n)
    \/ /\ y.phase = "answer"
       /\ y = [phase |-> "answer", frame |-> y.frame, outcome |-> y.outcome]
       /\ y.outcome \in Outcomes /\ Good(y.frame, r, n)
       /\ y.outcome # "BlobStreamNotFound" => y.frame.chunk_id \in Taken(q)
       /\ y.outcome = "Complete" => Whole(r, q)

\* The channels of one callis.
GoodFrames(r, n) == {f \in Frame : Good(f, r, n)}

GoodAnswers(r, n, q) == {b \in Answers : Answered(b, r, n, q)}

Channel(w, out, back) ==
    w = [state |-> w.state, s |-> w.s, r |-> w.r, alone |-> w.alone, out |-> out, back |-> back]

NetOk(w, r, n, q) ==
    /\ Channel(w, w.out, w.back)
    /\ w.out \in Seq(GoodFrames(r, n)) /\ w.back \in Seq(GoodAnswers(r, n, q))

\* All of it: transmitters x, handlers y, channels w and responses s.
Travel(x, y, w, s, r, n, q) ==
    /\ x = [k \in Callis |-> x[k]] /\ \A k \in Callis : TxOk(x[k], r, n)
    /\ y = [k \in Callis |-> y[k]] /\ \A k \in Callis : RxOk(y[k], r, n, q)
    /\ w = [k \in Callis |-> w[k]] /\ \A k \in Callis : NetOk(w[k], r, n, q)
    /\ s = [m \in DOMAIN s |-> s[m]] /\ \A m \in DOMAIN s : Answered(s[m], r, n, q)

\* The lanes that list the responses.
LanesOk(ready) ==
    /\ ready = [l \in Lanes |-> ready[l]]
    /\ \A l \in Lanes : ready[l] \in Seq(Nat) /\ Len(ready[l]) <= Capacity(l)

----------------------------------------------------------------------------
(* The reading side. *)

Places == {"check", "ring", "ending", "gone", "completed", "wait", "eof", "error", "dropping", "dropped"}

\* The places of a reader that found the stream gone, or took it out itself.
Past == {"ending", "gone", "completed", "eof"}

ReceiverOk(v) ==
    /\ v = [completed |-> v.completed, error |-> v.error, notified |-> v.notified]
    /\ v.error \in Errors \cup {"none"}

ReaderOk ==
    /\ reader = [pc |-> reader.pc, armed |-> reader.armed, read |-> reader.read]
    /\ reader.pc \in Places
    /\ ReceiverOk(receiver)
    /\ active \in BOOLEAN /\ recent \in BOOLEAN /\ reaper \in {"idle", "removed"}

\* The end was read: it is remembered, or about to be.
EndRead == recent \/ reader.pc = "ending"

\* A stream leaves the table when its end was read, or to be failed.
EndOk ==
    /\ ~active => is_complete(inbound) \/ Failing
    /\ reader.pc \in Past => ~active
    /\ EndRead => Whole(ring, inbound)

\* The sender's tables.
InflightOk(f) == f = [m \in DOMAIN f |-> f[m]] /\ \A m \in DOMAIN f : f[m] \in Callis

SenderOk ==
    /\ sender \in {"open", "sealing", "completing", "ok", "failed", "dropped"}
    /\ registered \in BOOLEAN
    /\ InflightOk(inflight)

IInv ==
    /\ SenderOk /\ ReaderOk /\ EndOk /\ LanesOk(lanes)
    /\ RingOk(ring, next_id, inbound) /\ InboundOk(inbound, ring)
    /\ Travel(tx, rx, net, write_slots, ring, next_id, inbound)

----------------------------------------------------------------------------
(* What travels stays good while the two ends move on. *)

\* From the ring r, the ids below n and the inbound ring q the ends have come
\* to t, m and u: no chunk and no id was taken back, and an attempt under way
\* is an earlier one or carries a new id.
On(r, n, q, t, m, u) ==
    /\ n \in Nat /\ m \in Nat /\ n <= m
    /\ r.next_chunk_id \in Nat /\ t.next_chunk_id \in Nat /\ r.next_chunk_id <= t.next_chunk_id
    /\ AllMade(r) => AllMade(t) /\ t.next_chunk_id = r.next_chunk_id
    /\ \A i \in Attempted(t) :
         \/ n <= t.slots[i].peer_msg_id
         \/ /\ i \in Attempted(r) /\ t.slots[i].peer_msg_id = r.slots[i].peer_msg_id
            /\ t.slots[i].chunk_id = r.slots[i].chunk_id
    /\ Taken(q) \subseteq Taken(u)
    /\ Whole(r, q) => Whole(t, u)

\* A frame stays good.
LEMMA GoodOn ==
  ASSUME NEW r, NEW n, NEW q, NEW t, NEW m, NEW u, On(r, n, q, t, m, u), NEW f, Good(f, r, n)
  PROVE  Good(f, t, m)
<1>1. f \in Frame /\ f.id \in Nat /\ f.chunk_id \in Nat /\ f.id < n /\ f.chunk_id < r.next_chunk_id
  BY DEF Good, Frame
<1>2. f.id < m /\ f.chunk_id < t.next_chunk_id
  BY <1>1 DEF On
<1>3. f.is_last => AllMade(t) /\ f.chunk_id = t.next_chunk_id - 1
  BY DEF On, Good
<1>4. ASSUME NEW i \in Attempted(t), t.slots[i].peer_msg_id = f.id
      PROVE  t.slots[i].chunk_id = f.chunk_id
  <2>1. ~(n <= f.id)
    BY <1>1 DEF On
  <2> QED BY <1>4, <2>1 DEF On, Good
<1> QED BY <1>1, <1>2, <1>3, <1>4 DEF Good

\* An ACK stays right.
LEMMA AckOkOn ==
  ASSUME NEW r, NEW n, NEW q, NEW t, NEW m, NEW u, On(r, n, q, t, m, u), NEW f, AckOk(f, r, n, q)
  PROVE  AckOk(f, t, m, u)
<1>1. f \in Nat /\ f < m /\ ~(n <= f)
  BY DEF AckOk, On
<1>2. ASSUME NEW i \in Attempted(t), t.slots[i].peer_msg_id = f
      PROVE  t.slots[i].chunk_id \in Taken(u)
  BY <1>1, <1>2 DEF On, AckOk
<1> QED BY <1>1, <1>2 DEF AckOk

\* An answer stays right.
LEMMA AnsweredOn ==
  ASSUME NEW r, NEW n, NEW q, NEW t, NEW m, NEW u, On(r, n, q, t, m, u), NEW b, Answered(b, r, n, q)
  PROVE  Answered(b, t, m, u)
<1>1. b.kind = "Ack" => AckOk(b.id, t, m, u)
  BY AckOkOn, Zenon DEF Answered
<1> QED BY <1>1, Zenon DEF Answered, On

\* So does what a transmitter holds,
LEMMA TxOn ==
  ASSUME NEW r, NEW n, NEW q, NEW t, NEW m, NEW u, On(r, n, q, t, m, u), NEW x, TxOk(x, r, n)
  PROVE  TxOk(x, t, m)
BY GoodOn, Zenon DEF TxOk

\* what a handler holds,
LEMMA RxOn ==
  ASSUME NEW r, NEW n, NEW q, NEW t, NEW m, NEW u, On(r, n, q, t, m, u), NEW y, RxOk(y, r, n, q)
  PROVE  RxOk(y, t, m, u)
<1>1. Good(y.frame, r, n) => Good(y.frame, t, m)
  BY GoodOn, Zenon
<1>2. Taken(q) \subseteq Taken(u) /\ (Whole(r, q) => Whole(t, u))
  BY DEF On
<1> QED BY <1>1, <1>2, Zenon DEF RxOk

\* Sequences over a larger set.
LEMMA SeqWider ==
  ASSUME NEW S, NEW T, S \subseteq T, NEW e \in Seq(S)
  PROVE  e \in Seq(T)
<1>1. Len(e) \in Nat /\ e \in [1..Len(e) -> S]
  OBVIOUS
<1>2. e \in [1..Len(e) -> T]
  BY <1>1
<1> QED BY <1>1, <1>2

\* what a callis carries,
LEMMA NetOn ==
  ASSUME NEW r, NEW n, NEW q, NEW t, NEW m, NEW u, On(r, n, q, t, m, u), NEW w, NetOk(w, r, n, q)
  PROVE  NetOk(w, t, m, u)
<1>1. GoodFrames(r, n) \subseteq GoodFrames(t, m)
  BY GoodOn, Zenon DEF GoodFrames
<1>2. GoodAnswers(r, n, q) \subseteq GoodAnswers(t, m, u)
  BY AnsweredOn, Zenon DEF GoodAnswers
<1>3. w.out \in Seq(GoodFrames(t, m))
  BY <1>1, SeqWider, Zenon DEF NetOk
<1>4. w.back \in Seq(GoodAnswers(t, m, u))
  BY <1>2, SeqWider, Zenon DEF NetOk
<1> QED BY <1>3, <1>4, Zenon DEF NetOk

\* and all of it together.
LEMMA TravelOn ==
  ASSUME NEW r, NEW n, NEW q, NEW t, NEW m, NEW u, On(r, n, q, t, m, u),
         NEW x, NEW y, NEW w, NEW s, Travel(x, y, w, s, r, n, q)
  PROVE  Travel(x, y, w, s, t, m, u)
<1>1. \A k \in Callis : TxOk(x[k], t, m)
  BY TxOn, Zenon DEF Travel
<1>2. \A k \in Callis : RxOk(y[k], t, m, u)
  BY RxOn, Zenon DEF Travel
<1>3. \A k \in Callis : NetOk(w[k], t, m, u)
  BY NetOn, Zenon DEF Travel
<1>4. \A i \in DOMAIN s : Answered(s[i], t, m, u)
  BY AnsweredOn, Zenon DEF Travel
<1> QED BY <1>1, <1>2, <1>3, <1>4, Zenon DEF Travel

\* v is w but for what belongs to the callis k.
Changed(v, w, k) == v = [j \in Callis |-> v[j]] /\ \A j \in Callis : j # k => v[j] = w[j]

\* An update of one entry.
LEMMA ChangedAt ==
  ASSUME NEW w, w = [j \in Callis |-> w[j]], NEW k \in Callis, NEW a, NEW v, v = [w EXCEPT ![k] = a]
  PROVE  Changed(v, w, k) /\ v[k] = a
BY DEF Changed

\* One transmitter does something else.
LEMMA TravelTx ==
  ASSUME NEW x, NEW y, NEW w, NEW s, NEW r, NEW n, NEW q, Travel(x, y, w, s, r, n, q),
         NEW v, NEW k \in Callis, Changed(v, x, k), TxOk(v[k], r, n)
  PROVE  Travel(v, y, w, s, r, n, q)
BY Zenon DEF Travel, Changed

\* One handler does something else.
LEMMA TravelRx ==
  ASSUME NEW x, NEW y, NEW w, NEW s, NEW r, NEW n, NEW q, Travel(x, y, w, s, r, n, q),
         NEW v, NEW k \in Callis, Changed(v, y, k), RxOk(v[k], r, n, q)
  PROVE  Travel(x, v, w, s, r, n, q)
BY Zenon DEF Travel, Changed

\* The channels of k become out and back.
Rechannelled(v, w, k, out, back) == Changed(v, w, k) /\ Channel(v[k], out, back)

\* One callis carries something else.
LEMMA TravelNet ==
  ASSUME NEW x, NEW y, NEW w, NEW s, NEW r, NEW n, NEW q, Travel(x, y, w, s, r, n, q),
         NEW v, NEW k \in Callis, NEW out, NEW back, Rechannelled(v, w, k, out, back),
         out \in Seq(GoodFrames(r, n)), back \in Seq(GoodAnswers(r, n, q))
  PROVE  Travel(x, y, v, s, r, n, q)
<1>1. v[k].out = out /\ v[k].back = back
  BY DEF Rechannelled, Channel
<1>2. NetOk(v[k], r, n, q)
  BY <1>1, Zenon DEF NetOk, Rechannelled
<1> QED BY <1>2, Zenon DEF Travel, Rechannelled, Changed

\* A response is queued or taken out.
LEMMA TravelSlots ==
  ASSUME NEW x, NEW y, NEW w, NEW s, NEW r, NEW n, NEW q, Travel(x, y, w, s, r, n, q), NEW m
  PROVE  /\ Travel(x, y, w, Without(s, m), r, n, q)
         /\ \A f : Answered(f, r, n, q) => Travel(x, y, w, With(s, m, f), r, n, q)
<1>1. \A i \in DOMAIN s : Answered(s[i], r, n, q)
  BY DEF Travel
<1>2. /\ Without(s, m) = [i \in DOMAIN Without(s, m) |-> Without(s, m)[i]]
      /\ \A i \in DOMAIN Without(s, m) : i \in DOMAIN s /\ Without(s, m)[i] = s[i]
  BY DEF Without
<1>3. Travel(x, y, w, Without(s, m), r, n, q)
  BY <1>1, <1>2, Zenon DEF Travel
<1>4. ASSUME NEW f, Answered(f, r, n, q) PROVE Travel(x, y, w, With(s, m, f), r, n, q)
  <2> DEFINE u == With(s, m, f)
  <2>1. /\ u = [i \in DOMAIN u |-> u[i]]
        /\ \A i \in DOMAIN u : u[i] = f \/ (i \in DOMAIN s /\ u[i] = s[i])
    BY DEF With
  <2> HIDE DEF u
  <2>2. \A i \in DOMAIN u : Answered(u[i], r, n, q)
    BY <1>1, <1>4, <2>1, Zenon
  <2>3. Travel(x, y, w, u, r, n, q)
    BY <2>1, <2>2, Zenon DEF Travel
  <2> QED BY <2>3 DEF u
<1> QED BY <1>3, <1>4, Zenon

\* A change of r to t that makes no chunk: ids below m are used then, a chunk
\* leaves the ring only if it was taken or the stream fails.
Moves(r, n, q, t, m) ==
    /\ Books(t, Ids) /\ m \in Nat /\ n <= m
    /\ t.next_chunk_id = r.next_chunk_id
    /\ \A i \in Occupied(t) : /\ i \in Occupied(r) /\ t.slots[i].chunk_id = r.slots[i].chunk_id
                              /\ t.slots[i].is_last = r.slots[i].is_last
    /\ \A i \in Attempted(t) :
         \/ t.slots[i].peer_msg_id = n /\ n < m
         \/ i \in Attempted(r) /\ t.slots[i].peer_msg_id = r.slots[i].peer_msg_id
    /\ AllMade(r) => AllMade(t)
    /\ t.lifecycle # "Failed" =>
         /\ r.lifecycle # "Failed"
         /\ \A i \in Occupied(r) \ Occupied(t) : r.slots[i].chunk_id \in Taken(q)
    /\ t.lifecycle = "Completed" => Whole(r, q)

\* Both rings are right after a step to t, and what travels stays good.
Onward(r, n, q, t, m) == RingOk(t, m, q) /\ InboundOk(q, t) /\ On(r, n, q, t, m, q)

\* Such a change takes right rings to right rings.
LEMMA MovesOn ==
  ASSUME NEW r, NEW n, NEW q, RingOk(r, n, q), InboundOk(q, r), NEW t, NEW m, Moves(r, n, q, t, m)
  PROVE  Onward(r, n, q, t, m)
<1>1. /\ Books(r, Ids) /\ n \in Nat \ {0} /\ m \in Nat /\ n <= m /\ r.next_chunk_id \in Nat
      /\ t.next_chunk_id = r.next_chunk_id
  BY DEF RingOk, Moves, Books, RingType
<1>2. \A i \in Attempted(t) : i \in Occupied(t) /\ i \in Slots
  BY DEF Attempted, Occupied
<1>3. \A i \in Attempted(r) : r.slots[i].peer_msg_id \in Nat /\ r.slots[i].peer_msg_id < n
  BY <1>1 DEF Attempted, Books, RingType, SlotOf, RingOk
<1>4. Whole(r, q) => Whole(t, q)
  BY <1>1 DEF Whole, Moves
<1>5. InboundOk(q, t)
  BY <1>1 DEF InboundOk, Moves
<1>6. On(r, n, q, t, m, q)
  <2>1. \A i \in Attempted(t) :
          \/ n <= t.slots[i].peer_msg_id
          \/ /\ i \in Attempted(r) /\ t.slots[i].peer_msg_id = r.slots[i].peer_msg_id
             /\ t.slots[i].chunk_id = r.slots[i].chunk_id
    BY <1>1, <1>2 DEF Moves
  <2> QED BY <1>1, <1>4, <2>1 DEF On, Moves
<1>7. \A i \in Attempted(t) : t.slots[i].peer_msg_id < m
  BY <1>1, <1>3 DEF Moves
<1>8. \A i \in Occupied(t) :
        t.slots[i].is_last => AllMade(t) /\ t.slots[i].chunk_id = t.next_chunk_id - 1
  BY <1>1 DEF RingOk, Moves
<1>9. ASSUME t.lifecycle # "Failed", NEW c \in 0..(t.next_chunk_id - 1)
      PROVE  c \in Taken(q) \/ c \in DOMAIN t.chunk_index
  <2>1. c \in Taken(q) \/ c \in DOMAIN r.chunk_index
    BY <1>1, <1>9 DEF RingOk, Moves
  <2>2. ASSUME c \in DOMAIN r.chunk_index PROVE c \in Taken(q) \/ c \in DOMAIN t.chunk_index
    <3>1. PICK i \in Occupied(r) : c = r.slots[i].chunk_id
      BY <1>1, <2>2 DEF Books
    <3>2. CASE i \in Occupied(t)
      <4>1. c = t.slots[i].chunk_id
        BY <3>1, <3>2 DEF Moves
      <4> QED BY <3>2, <4>1 DEF Moves, Books
    <3>3. CASE i \notin Occupied(t)
      BY <1>9, <3>1, <3>3 DEF Moves
    <3> QED BY <3>2, <3>3
  <2> QED BY <2>1, <2>2
<1>10. RingOk(t, m, q)
  BY <1>1, <1>4, <1>7, <1>8, <1>9 DEF RingOk, Moves
<1> QED BY <1>5, <1>6, <1>10 DEF Onward

\* The two rings are right.
Both(r, n, q) == RingOk(r, n, q) /\ InboundOk(q, r)

\* A ring that only turns.
LEMMA TurnOn ==
  ASSUME NEW r, NEW n, NEW q, Both(r, n, q), NEW t, Books(t, Ids), Turned(r, t),
         AllMade(r) => AllMade(t), t.lifecycle # "Failed" => r.lifecycle # "Failed",
         t.lifecycle = "Completed" => Whole(r, q)
  PROVE  Onward(r, n, q, t, n)
<1>1. Occupied(t) = Occupied(r) /\ Attempted(t) = Attempted(r) /\ t.slots = r.slots
      /\ t.next_chunk_id = r.next_chunk_id
  BY DEF Turned, Occupied, Attempted
<1>2. n \in Nat
  BY DEF Both, RingOk
<1>3. Moves(r, n, q, t, n)
  BY <1>1, <1>2 DEF Moves
<1> QED BY <1>3, MovesOn, Zenon DEF Both

\* A ring that does not move.
LEMMA StayOn ==
  ASSUME NEW r, NEW n, NEW q, Both(r, n, q)
  PROVE  Onward(r, n, q, r, n)
<1>1. Books(r, Ids) /\ Turned(r, r) /\ (r.lifecycle = "Completed" => Whole(r, q))
  BY DEF Both, RingOk, Turned
<1> QED BY <1>1, TurnOn, Zenon

----------------------------------------------------------------------------
(* The rules of the two rings: what an operation makes of rings that are    *)
(* right.  The steps below rest on them alone.                              *)

\* push_available and seal.
PushRule(r, n, q) ==
    r.lifecycle = "Open" => \A k \in Nat : Onward(r, n, q, push_available(r, k).ring, n)

SealRule(r, n, q) ==
    r.lifecycle \notin {"Failed", "Closed"} => Onward(r, n, q, seal(r), n)

\* close, fail, and mark_complete of a stream that arrived.
TurnRule(r, n, q) ==
    /\ Onward(r, n, q, close(r), n)
    /\ \A err : Onward(r, n, q, close(fail(r, err)), n)
    /\ Whole(r, q) => Onward(r, n, q, mark_complete(r), n)

\* lease_next_chunk_for_write under the id n.
LeasedOn(r, n, q, t, l) ==
    Onward(r, n, q, t, n + 1) /\ IsLease(l) /\ Good(FrameOf(l), t, n + 1)

LeaseRule(r, n, q) ==
    has_dispatchable_replay(r) \/ has_dispatchable_fresh(r) =>
        \A k \in Callis :
            LET t == lease_next_chunk_for_write(r, k, n)
            IN  LeasedOn(r, n, q, t, LeaseOf(t, NextSlot(r)))

\* mark_inflight and mark_callis_replay_ready.
MarkRule(r, n, q) ==
    \A lease : IsLease(lease) => Onward(r, n, q, mark_inflight(r, lease), n)

ReplayRule(r, n, q) == \A k : Onward(r, n, q, mark_callis_replay_ready(r, k), n)

\* note_ack of a chunk that was taken, and note_error.
AckRule(r, n, q) == \A m : AckOk(m, r, n, q) => Onward(r, n, q, note_ack(r, m), n)

ErrorRule(r, n, q) == \A m, err : Onward(r, n, q, note_error(r, m, err), n)

\* insert_chunk of a chunk the sender has made, and take_next.
InsertRule(q, r) ==
    \A c, z : CanInsert(q, r, c, z) =>
        Inserted(q, r, c, insert_chunk(q, c, z).ring, insert_chunk(q, c, z).outcome)

TakeRule(q, r) == CanTake(q) => Took(q, r, take_next(q))

\* Facts about counting that the queues and the inbound ring need.
Numbers ==
    /\ Cardinality(Callis) \in Nat
    /\ \A T : T \subseteq Nat /\ T # {} => \E n \in T : \A m \in T : n <= m
    /\ \A S : IsFiniteSet(S) => Cardinality(S) \in Nat
    /\ \A S : IsFiniteSet(S) => \A T : T \subseteq S =>
         IsFiniteSet(T) /\ Cardinality(T) <= Cardinality(S)
    /\ \A S, x : IsFiniteSet(S) => IsFiniteSet(S \cup {x}) /\
         (x \notin S => Cardinality(S \cup {x}) = Cardinality(S) + 1)
    /\ \A a, b \in Int : IsFiniteSet(a..b) /\ (a <= b => Cardinality(a..b) = b - a + 1)

RingRules(r, n, q) ==
    /\ PushRule(r, n, q) /\ SealRule(r, n, q) /\ TurnRule(r, n, q) /\ LeaseRule(r, n, q)
    /\ MarkRule(r, n, q) /\ ReplayRule(r, n, q) /\ AckRule(r, n, q) /\ ErrorRule(r, n, q)
    /\ InsertRule(q, r) /\ TakeRule(q, r)

\* The rules in the present state.
Rules == Numbers /\ RingRules(ring, next_id, inbound)

----------------------------------------------------------------------------
(* The inbound ring. *)

\* FirstMissing finds the end of the run of S that starts at n.
LEMMA FirstMissingIs ==
  ASSUME Numbers, NEW n \in Nat, NEW S, IsFiniteSet(S)
  PROVE  /\ FirstMissing(n, S) \in Nat /\ n <= FirstMissing(n, S)
         /\ FirstMissing(n, S) \notin S
         /\ \A l \in n..(FirstMissing(n, S) - 1) : l \in S
<1> DEFINE N == Cardinality(S)
           T == {m \in n..(n + N) : m \notin S}
<1>1. N \in Nat
  BY DEF Numbers
<1>2. T # {}
  <2> SUFFICES ASSUME n..(n + N) \subseteq S PROVE FALSE
    OBVIOUS
  <2>1. Cardinality(n..(n + N)) <= N
    BY Zenon DEF Numbers
  <2>2. Cardinality(n..(n + N)) = N + 1
    BY <1>1 DEF Numbers
  <2> QED BY <1>1, <2>1, <2>2
<1>3. T \subseteq Nat
  BY <1>1
<1>4. PICK m \in T : \A l \in T : m <= l
  BY <1>2, <1>3, Zenon DEF Numbers
<1>5. m \in n..(n + N) /\ m \notin S /\ m \in Nat
  BY <1>1
<1>6. \A l \in n..(m - 1) : l \in S
  <2> SUFFICES ASSUME NEW l \in n..(m - 1), l \notin S PROVE FALSE
    OBVIOUS
  <2>1. l \in T /\ ~(m <= l)
    BY <1>1, <1>5
  <2> QED BY <1>4, <2>1
<1>7. \E x \in n..(n + N) : x \notin S /\ \A l \in n..(x - 1) : l \in S
  BY <1>5, <1>6
<1> DEFINE f == FirstMissing(n, S)
<1>8. f \in n..(n + N) /\ f \notin S /\ \A l \in n..(f - 1) : l \in S
  BY <1>7, Zenon DEF FirstMissing
<1> QED BY <1>1, <1>8

\* An inbound ring from its fields.
Inbound(expected, deliver, last, received) ==
    [next_expected |-> expected, next_deliver |-> deliver, last_chunk_id |-> last,
     received |-> received]

\* The chunk is known, or new and within the window.
LEMMA RefusalIs ==
  ASSUME NEW q, NEW r, NEW c, NEW z, CanInsert(q, r, c, z)
  PROVE  /\ Refusal(q, c, z) \in {"Duplicate", "none"} \cup Refusals
         /\ Refusal(q, c, z) = "Duplicate" => c \in Taken(q)
         /\ Refusal(q, c, z) = "none" =>
              q.next_deliver <= c /\ c \notin q.received /\ ~(Cardinality(q.received) >= RecvWindow)
<1>1. q.next_deliver \in Nat /\ c \in Nat
  BY DEF CanInsert, InboundOk
<1>2. /\ "BlobAckWindowExceeded" \in Refusals /\ "BlobBufferFull" \in Refusals
      /\ "BlobStreamMissingChunk" \in Refusals
      /\ "Duplicate" \notin Refusals /\ "none" \notin Refusals /\ "Duplicate" # "none"
  BY DEF Refusals
<1> DEFINE f == Refusal(q, c, z)
<1>3. /\ c < q.next_deliver => f = "Duplicate"
      /\ ~(c < q.next_deliver) /\ c \in q.received => f \in {"Duplicate", "BlobAckWindowExceeded"}
      /\ ~(c < q.next_deliver) /\ c \notin q.received =>
           f \in {"BlobAckWindowExceeded", "BlobBufferFull", "BlobStreamMissingChunk", "none"}
      /\ ~(c < q.next_deliver) /\ c \notin q.received /\ Cardinality(q.received) >= RecvWindow =>
           f \in {"BlobAckWindowExceeded", "BlobBufferFull"}
  BY SMT DEF Refusal
<1> HIDE DEF f
<1>4. c < q.next_deliver \/ c \in q.received => c \in Taken(q)
  BY <1>1 DEF Taken
<1>5. f = "Duplicate" => c < q.next_deliver \/ c \in q.received
  BY <1>3
<1>6. f = "none" => ~(c < q.next_deliver) /\ c \notin q.received /\ ~(Cardinality(q.received) >= RecvWindow)
  BY <1>3
<1>7. f \in {"Duplicate", "none"} \cup Refusals
  BY <1>2, <1>3
<1> QED BY <1>1, <1>4, <1>5, <1>6, <1>7 DEF f

\* A new chunk c is stored in q, next_expected moves to e.
LEMMA StoreIs ==
  ASSUME Numbers, NEW q, NEW r, NEW c, NEW z, CanInsert(q, r, c, z),
         q.next_deliver <= c, c \notin q.received, ~(Cardinality(q.received) >= RecvWindow),
         NEW e, NEW last,
         e = IF c = q.next_expected THEN FirstMissing(c, q.received \cup {c}) ELSE q.next_expected,
         last \in {q.last_chunk_id, IF z THEN c ELSE q.last_chunk_id}
  PROVE  LET t == Inbound(e, q.next_deliver, last, q.received \cup {c})
         IN  /\ InboundOk(t, r) /\ Taken(q) \subseteq Taken(t) /\ c \in Taken(t)
             /\ Whole(r, q) => Whole(r, t)
             /\ is_complete(q) => is_complete(t)
             /\ last # NoChunk /\ e = last + 1 => Whole(r, t)
<1> DEFINE S == q.received \cup {c}
           N == r.next_chunk_id
           t == Inbound(e, q.next_deliver, last, S)
<1>1. /\ q.next_expected \in Nat /\ q.next_deliver \in Nat /\ N \in Nat /\ c \in Nat /\ c < N
      /\ q.next_deliver <= q.next_expected /\ q.next_expected <= N
      /\ q.received \subseteq q.next_deliver..(N - 1)
      /\ q.next_deliver..(q.next_expected - 1) \subseteq q.received
      /\ q.last_chunk_id = NoChunk \/ (AllMade(r) /\ q.last_chunk_id = N - 1)
      /\ z => AllMade(r) /\ c = N - 1
  BY DEF CanInsert, InboundOk
<1>2. IsFiniteSet(q.received) /\ IsFiniteSet(S) /\ Cardinality(S) = Cardinality(q.received) + 1
      /\ Cardinality(q.received) \in Nat
  <2>1. IsFiniteSet(q.next_deliver..(N - 1))
    <3>1. q.next_deliver \in Int /\ N - 1 \in Int
      BY <1>1
    <3> QED BY <3>1, Zenon DEF Numbers
  <2>2. IsFiniteSet(q.received)
    BY <1>1, <2>1, Zenon DEF Numbers
  <2> QED BY <2>2, Zenon DEF Numbers
<1>3. S \subseteq q.next_deliver..(N - 1) /\ c \in S /\ q.received \subseteq S
  BY <1>1
<1>p. e = IF c = q.next_expected THEN FirstMissing(c, S) ELSE q.next_expected
  OBVIOUS
<1> HIDE DEF S
<1>4. /\ e \in Nat /\ q.next_expected <= e /\ e <= N /\ q.next_deliver..(e - 1) \subseteq S
  <2>1. CASE c # q.next_expected
    BY <1>1, <1>3, <1>p, <2>1
  <2>2. CASE c = q.next_expected
    <3>1. e \in Nat /\ c <= e /\ e \notin S /\ \A l \in c..(e - 1) : l \in S
      <4>1. e = FirstMissing(c, S)
        BY <1>p, <2>2, Zenon
      <4>2. c \in Nat /\ IsFiniteSet(S)
        BY <1>1, <1>2, Zenon
      <4> DEFINE f == FirstMissing(c, S)
      <4>3. f \in Nat /\ c <= f /\ f \notin S /\ \A l \in c..(f - 1) : l \in S
        BY <4>2, FirstMissingIs, Zenon
      <4> HIDE DEF f
      <4>4. e = f
        BY <4>1 DEF f
      <4> QED BY <4>3, <4>4, Zenon
    <3>2. e # c
      BY <1>3, <3>1
    <3>3. e - 1 \in S
      BY <1>1, <3>1, <3>2
    <3>4. e <= N
      BY <1>1, <1>3, <3>1, <3>3
    <3>5. ASSUME NEW l \in q.next_deliver..(e - 1) PROVE l \in S
      BY <1>1, <1>3, <2>2, <3>1
    <3> QED BY <1>1, <2>2, <3>1, <3>4, <3>5
  <2> QED BY <2>1, <2>2, Zenon
<1>5. Cardinality(S) <= RecvWindow
  BY <1>2, RecvWindowAssumption
<1>6. last = NoChunk \/ (AllMade(r) /\ last = N - 1)
  BY <1>1
<1>7. /\ t.next_expected = e /\ t.next_deliver = q.next_deliver /\ t.last_chunk_id = last
      /\ t.received = S
      /\ t = Inbound(t.next_expected, t.next_deliver, t.last_chunk_id, t.received)
  BY DEF Inbound
<1> HIDE DEF t
<1>8. InboundOk(t, r)
  BY <1>1, <1>3, <1>4, <1>5, <1>6, <1>7 DEF InboundOk, Inbound
<1>9. Taken(q) \subseteq Taken(t) /\ c \in Taken(t)
  BY <1>7 DEF Taken, S
<1>10. Whole(r, q) => Whole(r, t)
  BY <1>1, <1>4, <1>6, <1>7 DEF Whole, NoChunk
<1>11. ~is_complete(q)
  BY <1>1 DEF is_complete, NoChunk
<1>12. last # NoChunk /\ e = last + 1 => Whole(r, t)
  BY <1>1, <1>6, <1>7 DEF Whole
<1> QED BY <1>8, <1>9, <1>10, <1>11, <1>12 DEF t, S

IsInbound(q) == q = Inbound(q.next_expected, q.next_deliver, q.last_chunk_id, q.received)

\* A chunk stored.
LEMMA StoredAt ==
  ASSUME NEW q, IsInbound(q), NEW S, NEW e
  PROVE  [q EXCEPT !.received = S, !.next_expected = e] =
           Inbound(e, q.next_deliver, q.last_chunk_id, S)
<1>1. ASSUME NEW t, t = [q EXCEPT !.received = S, !.next_expected = e]
      PROVE  t = Inbound(e, q.next_deliver, q.last_chunk_id, S)
  BY <1>1, Zenon DEF Inbound, IsInbound
<1> QED BY <1>1, Zenon

\* The last chunk known.
LEMMA LastAt ==
  ASSUME NEW e, NEW d, NEW c, NEW S, NEW last
  PROVE  [Inbound(e, d, c, S) EXCEPT !.last_chunk_id = last] = Inbound(e, d, last, S)
<1> DEFINE u == Inbound(e, d, c, S)
<1>1. IsInbound(u) /\ u.next_expected = e /\ u.next_deliver = d /\ u.received = S
  BY DEF Inbound, IsInbound
<1> HIDE DEF u
<1>2. ASSUME NEW t, t = [u EXCEPT !.last_chunk_id = last]
      PROVE  t = Inbound(e, d, last, S)
  BY <1>1, <1>2, Zenon DEF Inbound, IsInbound
<1> QED BY <1>2, Zenon DEF u

\* A chunk delivered.
LEMMA DeliveredAt ==
  ASSUME NEW q, IsInbound(q), NEW S, NEW d, NEW e
  PROVE  [q EXCEPT !.received = S, !.next_deliver = d, !.next_expected = e] =
           Inbound(e, d, q.last_chunk_id, S)
<1>1. ASSUME NEW t, t = [q EXCEPT !.received = S, !.next_deliver = d, !.next_expected = e]
      PROVE  t = Inbound(e, d, q.last_chunk_id, S)
  BY <1>1, Zenon DEF Inbound, IsInbound
<1> QED BY <1>1, Zenon

\* insert_chunk of a chunk the sender has made.
LEMMA InsertIs ==
  ASSUME Numbers, NEW q, NEW r, NEW c, NEW z, CanInsert(q, r, c, z)
  PROVE  Inserted(q, r, c, insert_chunk(q, c, z).ring, insert_chunk(q, c, z).outcome)
<1> DEFINE f == Refusal(q, c, z)
           S == q.received \cup {c}
           e == IF c = q.next_expected THEN FirstMissing(c, S) ELSE q.next_expected
           last == IF z THEN c ELSE q.last_chunk_id
           gap == /\ Cardinality(S) >= RecvWindow
                  /\ e \notin S
                  /\ \E x \in S : x > e
           t == Inbound(e, q.next_deliver, q.last_chunk_id, S)
           u == Inbound(e, q.next_deliver, last, S)
           i == insert_chunk(q, c, z)
           done == last # NoChunk /\ e = last + 1
<1>1. InboundOk(q, r)
  BY DEF CanInsert
<1> HIDE DEF S, e, last
<1>2. /\ [q EXCEPT !.received = S, !.next_expected = e] = t
      /\ [t EXCEPT !.last_chunk_id = last] = u
  <2>1. IsInbound(q)
    BY <1>1 DEF InboundOk, IsInbound, Inbound
  <2>2. [q EXCEPT !.received = S, !.next_expected = e] = t
    BY <2>1, StoredAt, Zenon
  <2>3. [t EXCEPT !.last_chunk_id = last] = u
    <3>1. \A x, y, w, v, l : [Inbound(x, y, w, v) EXCEPT !.last_chunk_id = l] = Inbound(x, y, l, v)
      BY LastAt, Zenon
    <3> QED BY <3>1
  <2> QED BY <2>2, <2>3, Zenon
<1>3. i = CASE f # "none" -> [ring |-> q, outcome |-> f]
            [] f = "none" /\ gap -> [ring |-> t, outcome |-> "BlobStreamMissingChunk"]
            [] OTHER -> [ring |-> u, outcome |-> IF done THEN "Complete" ELSE "Stored"]
  BY <1>2, Zenon DEF insert_chunk, S, e, last
<1>4. /\ f \in {"Duplicate", "none"} \cup Refusals
      /\ f = "Duplicate" => c \in Taken(q)
      /\ f = "none" =>
           q.next_deliver <= c /\ c \notin q.received /\ ~(Cardinality(q.received) >= RecvWindow)
  BY RefusalIs, Zenon
<1> USE DEF S, e, last
<1> HIDE DEF i, f, gap, done
<1>5. CASE f # "none"
  <2>1. i.ring = q /\ i.outcome = f
    BY <1>3, <1>5
  <2>2. f \in Stored \cup Refusals /\ f # "Stored" /\ f # "Complete"
    BY <1>4, <1>5 DEF Stored, Refusals
  <2>3. f \in Stored => c \in Taken(q)
    BY <1>4, <2>2 DEF Stored
  <2> QED BY <1>1, <2>1, <2>2, <2>3, Zenon DEF Inserted, i
<1>6. CASE f = "none"
  <2>1. q.next_deliver <= c /\ c \notin q.received /\ ~(Cardinality(q.received) >= RecvWindow)
    BY <1>4, <1>6, Zenon
  <2>2. /\ InboundOk(t, r) /\ Taken(q) \subseteq Taken(t) /\ c \in Taken(t)
        /\ Whole(r, q) => Whole(r, t)
        /\ is_complete(q) => is_complete(t)
    BY <2>1, StoreIs, Zenon
  <2>3. /\ InboundOk(u, r) /\ Taken(q) \subseteq Taken(u) /\ c \in Taken(u)
        /\ Whole(r, q) => Whole(r, u)
        /\ is_complete(q) => is_complete(u)
        /\ last # NoChunk /\ e = last + 1 => Whole(r, u)
    BY <2>1, StoreIs, Zenon
  <2>4. CASE gap
    <3>1. i.ring = t /\ i.outcome = "BlobStreamMissingChunk"
      BY <1>3, <1>6, <2>4
    <3>2. "BlobStreamMissingChunk" \in Refusals /\ "BlobStreamMissingChunk" \notin Stored
      BY DEF Refusals, Stored
    <3> HIDE DEF t
    <3> QED BY <2>2, <3>1, <3>2, Zenon DEF Inserted, i, Stored
  <2>5. CASE ~gap
    <3>1. i.ring = u /\ i.outcome = IF done THEN "Complete" ELSE "Stored"
      BY <1>3, <1>6, <2>5
    <3>2. i.outcome \in Stored /\ (i.outcome = "Complete" => done)
      BY <3>1 DEF Stored
    <3>3. i.outcome = "Complete" => Whole(r, u)
      BY <2>3, <3>2, Zenon DEF done
    <3> HIDE DEF u
    <3> QED BY <2>3, <3>1, <3>2, <3>3, Zenon DEF Inserted, i
  <2> QED BY <2>4, <2>5
<1> QED BY <1>5, <1>6

\* take_next.
LEMMA TakeIs ==
  ASSUME Numbers, NEW q, NEW r, InboundOk(q, r), r.next_chunk_id \in Nat, CanTake(q)
  PROVE  Took(q, r, take_next(q))
<1> DEFINE d == q.next_deliver
           N == r.next_chunk_id
           S == q.received \ {d}
           e == IF q.next_expected < d + 1 THEN d + 1 ELSE q.next_expected
           t == Inbound(e, d + 1, q.last_chunk_id, S)
<1>1. /\ q.next_expected \in Nat /\ d \in Nat /\ N \in Nat
      /\ d <= q.next_expected /\ q.next_expected <= N
      /\ q.received \subseteq d..(N - 1)
      /\ d..(q.next_expected - 1) \subseteq q.received
      /\ Cardinality(q.received) <= RecvWindow
      /\ q.last_chunk_id = NoChunk \/ (AllMade(r) /\ q.last_chunk_id = N - 1)
      /\ d \in q.received
  BY DEF InboundOk, CanTake
<1>2. take_next(q) = t
  <2>0. IsInbound(q)
    BY DEF InboundOk, IsInbound, Inbound
  <2>1. \A x, y, w : [q EXCEPT !.received = x, !.next_deliver = y, !.next_expected = w] =
                      Inbound(w, y, q.last_chunk_id, x)
    BY <2>0, DeliveredAt, Zenon
  <2>2. take_next(q) = [q EXCEPT !.received = S, !.next_deliver = d + 1, !.next_expected = e]
    BY DEF take_next
  <2> HIDE DEF S, e
  <2> QED BY <2>1, <2>2, Zenon
<1>3. Cardinality(S) <= RecvWindow
  <2>1. IsFiniteSet(d..(N - 1))
    <3>1. d \in Int /\ N - 1 \in Int
      BY <1>1
    <3> QED BY <3>1, Zenon DEF Numbers
  <2>2. IsFiniteSet(q.received)
    BY <1>1, <2>1, Zenon DEF Numbers
  <2>3. Cardinality(S) <= Cardinality(q.received) /\ Cardinality(S) \in Nat /\ Cardinality(q.received) \in Nat
    <3>1. S \subseteq q.received
      OBVIOUS
    <3> QED BY <2>2, <3>1, Zenon DEF Numbers
  <2> QED BY <1>1, <2>3, RecvWindowAssumption
<1>4. /\ e \in Nat /\ d + 1 \in Nat /\ d + 1 <= e /\ e <= N
      /\ S \subseteq (d + 1)..(N - 1) /\ (d + 1)..(e - 1) \subseteq S
      /\ (q.next_expected = N => e = N)
  BY <1>1
<1>5. /\ t.next_expected = e /\ t.next_deliver = d + 1 /\ t.last_chunk_id = q.last_chunk_id
      /\ t.received = S
      /\ t = Inbound(t.next_expected, t.next_deliver, t.last_chunk_id, t.received)
  BY DEF Inbound
<1> HIDE DEF t, e
<1>6. InboundOk(t, r)
  BY <1>1, <1>3, <1>4, <1>5 DEF InboundOk, Inbound
<1>7. Taken(q) \subseteq Taken(t)
  BY <1>1, <1>5 DEF Taken
<1>8. Whole(r, q) => Whole(r, t)
  BY <1>1, <1>4, <1>5 DEF Whole
<1>9. is_complete(q) => is_complete(t)
  BY <1>1, <1>5 DEF is_complete, NoChunk
<1> QED BY <1>2, <1>6, <1>7, <1>8, <1>9 DEF Took

----------------------------------------------------------------------------
(* Channels and lanes. *)

IsNet(w) == w = [j \in Callis |-> w[j]] /\ \A k \in Callis : Channel(w[k], w[k].out, w[k].back)

\* Other frames on the way out.
LEMMA ChannelOut ==
  ASSUME NEW w, IsNet(w), NEW k \in Callis, NEW out, NEW v, v = [w EXCEPT ![k].out = out]
  PROVE  Rechannelled(v, w, k, out, w[k].back)
BY DEF IsNet, Rechannelled, Changed, Channel

\* Other answers on the way back.
LEMMA ChannelBack ==
  ASSUME NEW w, IsNet(w), NEW k \in Callis, NEW back, NEW v, v = [w EXCEPT ![k].back = back]
  PROVE  Rechannelled(v, w, k, w[k].out, back)
BY DEF IsNet, Rechannelled, Changed, Channel

\* An end that opens, closes or breaks.
LEMMA ChannelFlag ==
  ASSUME NEW w, IsNet(w), NEW k \in Callis, NEW a, NEW v,
         \/ v = [w EXCEPT ![k].state = a] \/ v = [w EXCEPT ![k].s = a]
         \/ v = [w EXCEPT ![k].r = a] \/ v = [w EXCEPT ![k].alone = a]
  PROVE  Rechannelled(v, w, k, w[k].out, w[k].back)
<1>1. CASE v = [w EXCEPT ![k].state = a]
  BY <1>1 DEF IsNet, Rechannelled, Changed, Channel
<1>2. CASE v = [w EXCEPT ![k].s = a]
  BY <1>2 DEF IsNet, Rechannelled, Changed, Channel
<1>3. CASE v = [w EXCEPT ![k].r = a]
  BY <1>3 DEF IsNet, Rechannelled, Changed, Channel
<1>4. CASE v = [w EXCEPT ![k].alone = a]
  BY <1>4 DEF IsNet, Rechannelled, Changed, Channel
<1> QED BY <1>1, <1>2, <1>3, <1>4, Zenon

\* Two changes of one channel in turn.
IsChannels(u, k, out, back) == IsNet(u) /\ u[k].out = out /\ u[k].back = back

\* What one such change leaves,
LEMMA ChannelNext ==
  ASSUME NEW w, IsNet(w), NEW k \in Callis, NEW u, NEW out, NEW back, Rechannelled(u, w, k, out, back)
  PROVE  IsChannels(u, k, out, back)
<1>1. u[k].out = out /\ u[k].back = back
  BY DEF Rechannelled, Channel
<1>2. IsNet(u)
  BY <1>1, Zenon DEF IsNet, Rechannelled, Changed
<1> QED BY <1>1, <1>2, Zenon DEF IsChannels

\* and two in a row.
LEMMA ChannelTwice ==
  ASSUME NEW w, NEW k \in Callis, NEW u, NEW c, NEW d, Rechannelled(u, w, k, c, d),
         NEW v, NEW a, NEW b, Rechannelled(v, u, k, a, b)
  PROVE  Rechannelled(v, w, k, a, b)
BY Zenon DEF Rechannelled, Changed

\* add_callis.
LEMMA ChannelOpened ==
  ASSUME NEW w, IsNet(w), NEW k \in Callis, NEW a, NEW b, NEW c, NEW d, NEW v,
         v = [w EXCEPT ![k].state = a, ![k].s = b, ![k].r = c, ![k].alone = d]
  PROVE  Rechannelled(v, w, k, w[k].out, w[k].back)
<1>1. PICK w1 : w1 = [w EXCEPT ![k].state = a]
  OBVIOUS
<1>2. PICK w2 : w2 = [w1 EXCEPT ![k].s = b]
  BY Zenon
<1>3. PICK w3 : w3 = [w2 EXCEPT ![k].r = c]
  BY Zenon
<1>4. v = [w3 EXCEPT ![k].alone = d]
  BY <1>1, <1>2, <1>3, Zenon
<1>5. Rechannelled(w1, w, k, w[k].out, w[k].back)
  BY <1>1, ChannelFlag, Zenon
<1>6. Rechannelled(w2, w, k, w[k].out, w[k].back)
  <2>1. IsChannels(w1, k, w[k].out, w[k].back)
    BY <1>5, ChannelNext, Zenon
  <2>2. Rechannelled(w2, w1, k, w[k].out, w[k].back)
    BY <1>2, <2>1, ChannelFlag, Zenon DEF IsChannels
  <2> QED BY <1>5, <2>2, ChannelTwice, Zenon
<1>7. Rechannelled(w3, w, k, w[k].out, w[k].back)
  <2>1. IsChannels(w2, k, w[k].out, w[k].back)
    BY <1>6, ChannelNext, Zenon
  <2>2. Rechannelled(w3, w2, k, w[k].out, w[k].back)
    BY <1>3, <2>1, ChannelFlag, Zenon DEF IsChannels
  <2> QED BY <1>6, <2>2, ChannelTwice, Zenon
<1>8. IsChannels(w3, k, w[k].out, w[k].back)
  BY <1>7, ChannelNext, Zenon
<1>9. Rechannelled(v, w3, k, w[k].out, w[k].back)
  BY <1>4, <1>8, ChannelFlag, Zenon DEF IsChannels
<1> QED BY <1>7, <1>9, ChannelTwice, Zenon

\* The receiver lets go of a lost callis.
LEMMA ChannelClosed ==
  ASSUME NEW w, IsNet(w), NEW k \in Callis, NEW a, NEW b, NEW v,
         v = [w EXCEPT ![k].r = a, ![k].out = b]
  PROVE  Rechannelled(v, w, k, b, w[k].back)
<1>1. PICK u : u = [w EXCEPT ![k].r = a]
  OBVIOUS
<1>2. v = [u EXCEPT ![k].out = b]
  BY <1>1, Zenon
<1>3. Rechannelled(u, w, k, w[k].out, w[k].back)
  BY <1>1, ChannelFlag, Zenon
<1>4. IsChannels(u, k, w[k].out, w[k].back)
  BY <1>3, ChannelNext, Zenon
<1>5. Rechannelled(v, u, k, b, w[k].back)
  BY <1>2, <1>4, ChannelOut, Zenon DEF IsChannels
<1> QED BY <1>3, <1>5, ChannelTwice, Zenon

\* The lanes have a capacity.
LEMMA CapacityNat ==
  ASSUME Numbers
  PROVE  \A l : Capacity(l) \in Nat
<1>1. Cardinality(Callis) \in Nat
  BY Zenon DEF Numbers
<1> QED BY <1>1, TransferAssumption DEF Capacity

----------------------------------------------------------------------------
(* What the steps have in common. *)

\* Entries made in and taken from the inflight table.
LEMMA Inflights ==
  ASSUME NEW f, InflightOk(f)
  PROVE  /\ InflightOk(<<>>)
         /\ \A m : InflightOk(Without(f, m))
         /\ \A m : \A k \in Callis : InflightOk(With(f, m, k))
         /\ \A X : InflightOk([m \in DOMAIN f \ X |-> f[m]])
<1>1. InflightOk(<<>>)
  BY DEF InflightOk
<1>2. ASSUME NEW X PROVE InflightOk([m \in DOMAIN f \ X |-> f[m]])
  BY DEF InflightOk
<1>3. ASSUME NEW m PROVE InflightOk(Without(f, m))
  BY <1>2, Zenon DEF Without
<1>4. ASSUME NEW m, NEW k \in Callis PROVE InflightOk(With(f, m, k))
  BY DEF InflightOk, With
<1> QED BY <1>1, <1>2, <1>3, <1>4, Zenon

Now == Travel(tx, rx, net, write_slots, ring, next_id, inbound)

\* What the invariant gives a step to work with.
LEMMA Before ==
  ASSUME IInv
  PROVE  /\ Both(ring, next_id, inbound) /\ Now /\ IsNet(net)
         /\ tx = [k \in Callis |-> tx[k]] /\ rx = [k \in Callis |-> rx[k]]
         /\ \A k \in Callis : /\ TxOk(tx[k], ring, next_id) /\ RxOk(rx[k], ring, next_id, inbound)
                              /\ net[k].out \in Seq(GoodFrames(ring, next_id))
                              /\ net[k].back \in Seq(GoodAnswers(ring, next_id, inbound))
BY Zenon DEF IInv, Both, Now, Travel, NetOk, IsNet

\* A step of the sender.
LEMMA SenderSide ==
  ASSUME IInv, UNCHANGED rvars, Onward(ring, next_id, inbound, ring', next_id'), SenderOk', Now'
  PROVE  IInv'
<1>1. /\ active' = active /\ inbound' = inbound /\ recent' = recent /\ receiver' = receiver
      /\ rx' = rx /\ lanes' = lanes /\ reaper' = reaper /\ reader' = reader
  BY DEF rvars
<1>2. ReaderOk' /\ LanesOk(lanes')
  BY <1>1 DEF IInv, ReaderOk
<1>3. Failing' = Failing
  BY <1>1 DEF Failing
<1>4. EndRead => Whole(ring', inbound')
  BY <1>1, Zenon DEF IInv, EndOk, Onward, On
<1>5. EndOk'
  BY <1>1, <1>3, <1>4 DEF IInv, EndOk, EndRead
<1> QED BY <1>1, <1>2, <1>5 DEF IInv, Onward, Now

\* A step of the sender that touches its tables, a transmitter and a callis.
LEMMA SenderMoves ==
  ASSUME IInv, UNCHANGED rvars, Onward(ring, next_id, inbound, ring', next_id'), SenderOk',
         NEW k \in Callis, NEW out, NEW back,
         tx' = tx \/ (Changed(tx', tx, k) /\ TxOk(tx'[k], ring', next_id')),
         net' = net \/ (/\ Rechannelled(net', net, k, out, back)
                        /\ out \in Seq(GoodFrames(ring', next_id'))
                        /\ back \in Seq(GoodAnswers(ring', next_id', inbound)))
  PROVE  IInv'
<1>1. inbound' = inbound /\ rx' = rx /\ write_slots' = write_slots
  BY DEF rvars
<1>2. Travel(tx, rx, net, write_slots, ring', next_id', inbound)
  BY Before, TravelOn, Zenon DEF Onward, Now
<1>3. Travel(tx', rx, net, write_slots, ring', next_id', inbound)
  BY <1>2, TravelTx, Zenon
<1>4. Travel(tx', rx, net', write_slots, ring', next_id', inbound)
  BY <1>3, TravelNet, Zenon
<1> QED BY <1>1, <1>4, SenderSide, Zenon DEF Now

\* A step that only touches one callis.
LEMMA NetMoves ==
  ASSUME IInv, UNCHANGED <<svars, rvars>>, NEW k \in Callis, NEW out, NEW back,
         Rechannelled(net', net, k, out, back),
         out \in Seq(GoodFrames(ring, next_id)), back \in Seq(GoodAnswers(ring, next_id, inbound))
  PROVE  IInv'
<1>1. /\ UNCHANGED rvars /\ ring' = ring /\ next_id' = next_id /\ tx' = tx
      /\ registered' = registered /\ inflight' = inflight /\ sender' = sender
  BY DEF svars
<1>2. Onward(ring, next_id, inbound, ring', next_id')
  BY <1>1, Before, StayOn
<1>3. SenderOk'
  BY <1>1 DEF IInv, SenderOk
<1> QED BY <1>1, <1>2, <1>3, SenderMoves, Zenon

\* Nothing happens.
LEMMA StutterKeeps ==
  ASSUME IInv, UNCHANGED vars
  PROVE  IInv'
<1>1. /\ UNCHANGED rvars /\ ring' = ring /\ next_id' = next_id /\ tx' = tx /\ net' = net
      /\ registered' = registered /\ inflight' = inflight /\ sender' = sender
      /\ rx' = rx /\ write_slots' = write_slots /\ inbound' = inbound
  BY DEF vars, svars, rvars
<1>2. Onward(ring, next_id, inbound, ring', next_id')
  BY <1>1, Before, StayOn
<1>3. SenderOk' /\ Now'
  BY <1>1, Before DEF IInv, SenderOk, Now
<1> QED BY <1>1, <1>2, <1>3, SenderSide

----------------------------------------------------------------------------
(* The steps of callis and of the sender. *)

\* A callis comes up.
LEMMA AddCallisKeeps ==
  ASSUME IInv, NEW k \in Callis, add_callis(k)
  PROVE  IInv'
<1>1. Rechannelled(net', net, k, net[k].out, net[k].back)
  BY Before, ChannelOpened, Zenon DEF add_callis
<1>2. UNCHANGED <<svars, rvars>>
  BY DEF add_callis
<1> QED BY <1>1, <1>2, Before, NetMoves, Zenon

\* A callis goes down.
LEMMA LoseCallisKeeps ==
  ASSUME IInv, NEW k \in Callis, lose_callis(k)
  PROVE  IInv'
<1>1. Rechannelled(net', net, k, net[k].out, net[k].back)
  BY Before, ChannelFlag, Zenon DEF lose_callis
<1>2. UNCHANGED <<svars, rvars>>
  BY DEF lose_callis
<1> QED BY <1>1, <1>2, Before, NetMoves, Zenon

\* The next frame of a callis, and the frames behind it.
LEMMA NextFrame ==
  ASSUME NEW S, NEW e \in Seq(S), e # <<>>
  PROVE  Head(e) \in S /\ Tail(e) \in Seq(S)
OBVIOUS

----------------------------------------------------------------------------
(* The steps of the receiver. *)

\* An inbound ring that does not move.
LEMMA TookNothing ==
  ASSUME NEW q, NEW r, InboundOk(q, r)
  PROVE  Took(q, r, q)
BY DEF Took

\* The sender's ring stays right when the inbound ring takes more.
LEMMA InboundMoves ==
  ASSUME NEW r, NEW n, NEW q, Both(r, n, q), NEW u, Took(q, r, u)
  PROVE  RingOk(r, n, u) /\ On(r, n, q, r, n, u)
<1>1. Taken(q) \subseteq Taken(u) /\ (Whole(r, q) => Whole(r, u))
  BY DEF Took
<1>2. RingOk(r, n, u)
  BY <1>1 DEF Both, RingOk
<1>3. n \in Nat /\ n <= n /\ r.next_chunk_id \in Nat /\ r.next_chunk_id <= r.next_chunk_id
  BY DEF Both, RingOk, Books, RingType
<1>4. On(r, n, q, r, n, u)
  BY <1>1, <1>3 DEF On
<1> QED BY <1>2, <1>4

\* A step of the receiver.
LEMMA ReceiverSide ==
  ASSUME IInv, UNCHANGED svars, Took(inbound, ring, inbound'), LanesOk(lanes'), ReaderOk', EndOk',
         Travel(tx, rx', net', write_slots', ring, next_id, inbound')
  PROVE  IInv'
<1>1. /\ ring' = ring /\ registered' = registered /\ inflight' = inflight /\ tx' = tx
      /\ sender' = sender /\ next_id' = next_id
  BY DEF svars
<1>2. SenderOk'
  BY <1>1 DEF IInv, SenderOk
<1>3. RingOk(ring', next_id', inbound') /\ InboundOk(inbound', ring')
  BY <1>1, Before, InboundMoves DEF Took
<1>4. Travel(tx', rx', net', write_slots', ring', next_id', inbound')
  BY <1>1
<1> QED BY <1>2, <1>3, <1>4 DEF IInv

\* A step that leaves the reading side and the handlers alone.
LEMMA LanesMove ==
  ASSUME IInv, UNCHANGED <<svars, active, inbound, recent, receiver, rx, reaper, reader>>,
         LanesOk(lanes'), Travel(tx, rx, net', write_slots', ring, next_id, inbound)
  PROVE  IInv'
<1>1. /\ UNCHANGED svars /\ active' = active /\ inbound' = inbound /\ recent' = recent
      /\ receiver' = receiver /\ rx' = rx /\ reaper' = reaper /\ reader' = reader
      /\ ring' = ring
  BY DEF svars
<1>2. Took(inbound, ring, inbound')
  BY <1>1, TookNothing DEF IInv
<1>3. ReaderOk'
  BY <1>1, ZenonT(30) DEF IInv, ReaderOk
<1>4. EndOk'
  BY <1>1, SMTT(30) DEF IInv, EndOk, EndRead, Failing
<1>5. Travel(tx, rx', net', write_slots', ring, next_id, inbound')
  BY <1>1
<1> QED BY <1>1, <1>2, <1>3, <1>4, <1>5, ReceiverSide

\* An ACK of a message of the receiver takes the response of that id.
LEMMA OwnAckKeeps ==
  ASSUME IInv, NEW m, own_ack(m)
  PROVE  IInv'
<1>1. /\ write_slots' = Without(write_slots, m) /\ net' = net /\ lanes' = lanes
      /\ UNCHANGED <<svars, active, inbound, recent, receiver, rx, reaper, reader>>
  BY DEF own_ack
<1>2. Travel(tx, rx, net', write_slots', ring, next_id, inbound)
  BY <1>1, Before, TravelSlots, Zenon DEF Now
<1>3. LanesOk(lanes')
  BY <1>1 DEF IInv
<1> QED BY <1>1, <1>2, <1>3, LanesMove

\* The end of the stream stays what it is.
LEMMA EndKept ==
  ASSUME IInv, ring' = ring, Took(inbound, ring, inbound'), EndRead' => EndRead \/ Whole(ring, inbound),
         Failing => Failing', active' \/ ~active \/ is_complete(inbound') \/ Failing',
         reader'.pc \in Past => ~active'
  PROVE  EndOk'
<1>1. EndRead' => Whole(ring', inbound')
  BY DEF IInv, EndOk, Took
<1>2. ~active' => is_complete(inbound') \/ Failing'
  BY DEF IInv, EndOk, Took
<1> QED BY <1>1, <1>2 DEF EndOk

\* A whole stream has every chunk.
LEMMA WholeTaken ==
  ASSUME NEW r, NEW q, Whole(r, q), InboundOk(q, r), r.next_chunk_id \in Nat
  PROVE  Taken(q) = 0..(r.next_chunk_id - 1)
BY DEF Whole, InboundOk, Taken

\* A failed receiver has an error.
LEMMA FailedIs ==
  ASSUME NEW err \in Errors
  PROVE  ReceiverOk(Failed(err)) /\ Failed(err).error # "none"
BY DEF ReceiverOk, Failed, Errors

\* A step of the reader, or of the memory of completed streams.
LEMMA ReaderMoves ==
  ASSUME IInv, UNCHANGED rest, Took(inbound, ring, inbound'),
         ReceiverOk(receiver'), receiver.error # "none" => receiver'.error # "none",
         reader' = [pc |-> reader'.pc, armed |-> reader'.armed, read |-> reader'.read],
         reader'.pc \in Places, active' \in BOOLEAN, recent' \in BOOLEAN,
         EndRead' => EndRead \/ Whole(ring, inbound),
         active' \/ ~active \/ is_complete(inbound') \/ receiver'.error # "none",
         reader'.pc \in Past => ~active'
  PROVE  IInv'
<1>1. /\ UNCHANGED svars /\ ring' = ring /\ net' = net /\ rx' = rx /\ write_slots' = write_slots
      /\ lanes' = lanes /\ reaper' = reaper /\ next_id' = next_id
  BY DEF rest, svars
<1>2. Travel(tx, rx', net', write_slots', ring, next_id, inbound')
  <2>1. Travel(tx, rx, net, write_slots, ring, next_id, inbound')
    BY Before, InboundMoves, TravelOn, Zenon DEF Now
  <2> QED BY <1>1, <2>1
<1>3. LanesOk(lanes') /\ ReaderOk'
  BY <1>1 DEF IInv, ReaderOk
<1>4. Failing => Failing'
  BY <1>1 DEF Failing
<1>5. EndOk'
  <2>1. active' \/ ~active \/ is_complete(inbound') \/ Failing'
    BY DEF Failing
  <2> QED BY <1>1, <1>4, <2>1, EndKept
<1> QED BY <1>1, <1>2, <1>3, <1>5, ReceiverSide

\* A completed stream is forgotten.
LEMMA ForgetKeeps ==
  ASSUME IInv, forget_completed
  PROVE  IInv'
<1>1. /\ ~recent' /\ recent' \in BOOLEAN /\ UNCHANGED rest
      /\ active' = active /\ inbound' = inbound /\ receiver' = receiver /\ reader' = reader
  BY Zenon DEF forget_completed, rest, svars
<1>2. Took(inbound, ring, inbound')
  BY <1>1, TookNothing DEF IInv
<1>3. /\ active' \in BOOLEAN /\ (active' \/ ~active) /\ ReceiverOk(receiver')
      /\ reader' = [pc |-> reader'.pc, armed |-> reader'.armed, read |-> reader'.read]
      /\ reader'.pc \in Places
  BY <1>1 DEF IInv, ReaderOk
<1>4. reader'.pc \in Past => ~active'
  BY <1>1 DEF IInv, EndOk
<1>5. EndRead' => EndRead
  BY <1>1 DEF EndRead
<1> QED BY <1>1, <1>2, <1>3, <1>4, <1>5, ReaderMoves

\* Every step of the sender keeps the invariant,
LEMMA SendingKeeps ==
  ASSUME IInv, Rules, Sending
  PROVE  IInv'
<1>ChannelLeft.
      ASSUME NEW w, IsNet(w), NEW k \in Callis, NEW a, NEW b, NEW v,
             v = [w EXCEPT ![k].s = a, ![k].back = b]
      PROVE  Rechannelled(v, w, k, w[k].out, b)
  <2> USE <1>ChannelLeft
  <2>1. PICK u : u = [w EXCEPT ![k].s = a]
    OBVIOUS
  <2>2. v = [u EXCEPT ![k].back = b]
    BY <2>1, Zenon
  <2>3. Rechannelled(u, w, k, w[k].out, w[k].back)
    BY <2>1, ChannelFlag, Zenon
  <2>4. IsChannels(u, k, w[k].out, w[k].back)
    BY <2>3, ChannelNext, Zenon
  <2>5. Rechannelled(v, u, k, w[k].out, b)
    BY <2>2, <2>4, ChannelBack, Zenon DEF IsChannels
  <2> QED BY <2>3, <2>5, ChannelTwice, Zenon
<1>ChannelBroken.
      ASSUME NEW w, IsNet(w), NEW k \in Callis, NEW a, NEW b, NEW v,
             v = [w EXCEPT ![k].back = b, ![k].state = a]
      PROVE  Rechannelled(v, w, k, w[k].out, b)
  <2> USE <1>ChannelBroken
  <2>1. PICK u : u = [w EXCEPT ![k].back = b]
    OBVIOUS
  <2>2. v = [u EXCEPT ![k].state = a]
    BY <2>1, Zenon
  <2>3. Rechannelled(u, w, k, w[k].out, b)
    BY <2>1, ChannelBack, Zenon
  <2>4. IsChannels(u, k, w[k].out, b)
    BY <2>3, ChannelNext, Zenon
  <2>5. Rechannelled(v, u, k, w[k].out, b)
    BY <2>2, <2>4, ChannelFlag, Zenon DEF IsChannels
  <2> QED BY <2>3, <2>5, ChannelTwice, Zenon
\* The channels of a callis stay good when the sender moves.
<1>StillGood.
      ASSUME Onward(ring, next_id, inbound, ring', next_id'), NEW k \in Callis
      PROVE  /\ net[k].out \in Seq(GoodFrames(ring', next_id'))
             /\ net[k].back \in Seq(GoodAnswers(ring', next_id', inbound))
  <2> USE <1>StillGood
  <2>1. Travel(tx, rx, net, write_slots, ring', next_id', inbound)
    BY Before, TravelOn, Zenon DEF Onward, Now
  <2> QED BY <2>1, Zenon DEF Travel, NetOk
\* A step of the sending application.
<1>ApplicationMoves.
      ASSUME UNCHANGED <<tx, next_id, net, rvars>>, SenderOk',
             Onward(ring, next_id, inbound, ring', next_id)
      PROVE  IInv'
  <2> USE <1>ApplicationMoves
  <2>1. /\ UNCHANGED rvars /\ next_id' = next_id /\ tx' = tx /\ net' = net
        /\ rx' = rx /\ write_slots' = write_slots /\ inbound' = inbound
    BY DEF rvars
  <2>2. Travel(tx, rx, net, write_slots, ring', next_id, inbound)
    BY Before, TravelOn, Zenon DEF Onward, Now
  <2>3. Now'
    BY <2>1, <2>2 DEF Now
  <2> QED BY <2>1, <2>3, SenderSide
<1>WriteKeeps.
      ASSUME NEW n \in 1..MaxBytes, poll_write(n)
      PROVE  IInv'
  <2> USE <1>WriteKeeps
  <2>1. n \in Nat
    BY TransferAssumption
  <2>2. /\ ring.lifecycle = "Open" /\ ring' = push_available(ring, n).ring
        /\ UNCHANGED <<registered, inflight, tx, sender, next_id, net, rvars>>
    BY DEF poll_write
  <2>3. Onward(ring, next_id, inbound, ring', next_id)
    BY <2>1, <2>2, Zenon DEF Rules, RingRules, PushRule
  <2>4. SenderOk'
    BY <2>2 DEF IInv, SenderOk
  <2> QED BY <2>2, <2>3, <2>4, <1>ApplicationMoves
<1>ShutdownKeeps.
      ASSUME poll_shutdown
      PROVE  IInv'
  <2> USE <1>ShutdownKeeps
  <2>1. /\ ring.lifecycle \notin {"Failed", "Closed"} /\ ring' = seal(ring)
        /\ sender' \in {"sealing", "completing"}
        /\ UNCHANGED <<registered, inflight, tx, next_id, net, rvars>>
    BY DEF poll_shutdown
  <2>2. Onward(ring, next_id, inbound, ring', next_id)
    BY <2>1, Zenon DEF Rules, RingRules, SealRule
  <2>3. SenderOk'
    BY <2>1 DEF IInv, SenderOk
  <2> QED BY <2>1, <2>2, <2>3, <1>ApplicationMoves
<1>SealFailsKeeps.
      ASSUME seal_fails
      PROVE  IInv'
  <2> USE <1>SealFailsKeeps
  <2>1. /\ sender' = "open" /\ ring' = ring
        /\ UNCHANGED <<registered, inflight, tx, next_id, net, rvars>>
    BY DEF seal_fails
  <2>2. Onward(ring, next_id, inbound, ring', next_id)
    BY <2>1, Before, StayOn
  <2>3. SenderOk'
    BY <2>1 DEF IInv, SenderOk
  <2> QED BY <2>1, <2>2, <2>3, <1>ApplicationMoves
<1>UnregisterKeeps.
      ASSUME shutdown_ok \/ shutdown_fails \/ drop_sender
      PROVE  IInv'
  <2> USE <1>UnregisterKeeps
  <2>1. /\ registered' = FALSE /\ inflight' = <<>> /\ ring' = close(ring)
        /\ sender' \in {"ok", "failed", "dropped"}
        /\ UNCHANGED <<tx, next_id, net, rvars>>
    BY DEF shutdown_ok, shutdown_fails, drop_sender, unregister
  <2>2. Onward(ring, next_id, inbound, ring', next_id)
    BY <2>1, Zenon DEF Rules, RingRules, TurnRule
  <2>3. SenderOk'
    <3>1. InflightOk(inflight')
      BY <2>1, Inflights DEF IInv, SenderOk
    <3> QED BY <2>1, <3>1, ZenonT(30) DEF SenderOk
  <2> QED BY <2>1, <2>2, <2>3, <1>ApplicationMoves
<1>LeaseKeeps.
      ASSUME NEW k \in Callis, lease_chunk(k)
      PROVE  IInv'
  <2> USE <1>LeaseKeeps
  <2> DEFINE l == LeaseOf(ring', NextSlot(ring))
  <2>1. /\ has_dispatchable_replay(ring) \/ has_dispatchable_fresh(ring)
        /\ ring' = lease_next_chunk_for_write(ring, k, next_id)
        /\ tx' = [tx EXCEPT ![k] = [phase |-> "leased", lease |-> l]]
        /\ next_id' = next_id + 1
        /\ UNCHANGED <<registered, inflight, sender, net, rvars>>
    BY DEF lease_chunk
  <2>3. LeasedOn(ring, next_id, inbound, ring', l)
    BY <2>1, Zenon DEF Rules, RingRules, LeaseRule
  <2> HIDE DEF l
  <2>4. Changed(tx', tx, k) /\ tx'[k] = [phase |-> "leased", lease |-> l]
    BY <2>1, Before, ChangedAt, Zenon
  <2>5. TxOk(tx'[k], ring', next_id')
    <3>1. tx'[k].phase = "leased" /\ tx'[k].lease = l /\ tx'[k] = [phase |-> tx'[k].phase, lease |-> tx'[k].lease]
      BY <2>4
    <3> QED BY <2>1, <2>3, <3>1 DEF TxOk, LeasedOn
  <2>6. SenderOk'
    BY <2>1 DEF IInv, SenderOk
  <2>7. Onward(ring, next_id, inbound, ring', next_id')
    BY <2>1, <2>3, Zenon DEF LeasedOn
  <2> QED BY <2>1, <2>4, <2>5, <2>6, <2>7, SenderMoves, Zenon
<1>MarkKeeps.
      ASSUME NEW k \in Callis, mark_dispatch_inflight(k)
      PROVE  IInv'
  <2> USE <1>MarkKeeps
  <2> DEFINE l == tx[k].lease
  <2>1. /\ tx[k].phase = "leased"
        /\ inflight' = With(inflight, l.peer_msg_id, k)
        /\ ring' = IF registered THEN mark_inflight(ring, l) ELSE ring
        /\ tx' = [tx EXCEPT ![k].phase = "marked"]
        /\ UNCHANGED <<registered, sender, next_id, net, rvars>>
    BY DEF mark_dispatch_inflight
  <2>2. tx[k] = [phase |-> "leased", lease |-> l] /\ IsLease(l) /\ Good(FrameOf(l), ring, next_id)
    BY <2>1, Before DEF TxOk
  <2>3. tx' = [tx EXCEPT ![k] = [phase |-> "marked", lease |-> l]]
    <3>1. [tx[k] EXCEPT !.phase = "marked"] = [phase |-> "marked", lease |-> l]
      BY <2>2
    <3> QED BY <2>1, <3>1, Zenon
  <2> HIDE DEF l
  <2>4. Changed(tx', tx, k) /\ tx'[k] = [phase |-> "marked", lease |-> l]
    BY <2>3, Before, ChangedAt, Zenon
  <2>5. Onward(ring, next_id, inbound, ring', next_id')
    <3>1. CASE registered
      BY <2>1, <2>2, <3>1, Zenon DEF Rules, RingRules, MarkRule
    <3>2. CASE ~registered
      BY <2>1, <3>2, Before, StayOn
    <3> QED BY <3>1, <3>2
  <2>6. Good(FrameOf(l), ring', next_id')
    BY <2>2, <2>5, GoodOn, Zenon DEF Onward
  <2>7. TxOk(tx'[k], ring', next_id')
    <3>1. tx'[k].phase = "marked" /\ tx'[k].lease = l /\ tx'[k] = [phase |-> tx'[k].phase, lease |-> tx'[k].lease]
      BY <2>4
    <3> QED BY <2>2, <2>6, <3>1, ZenonT(30) DEF TxOk
  <2>8. SenderOk'
    <3>1. InflightOk(inflight')
      BY <2>1, Inflights, Zenon DEF IInv, SenderOk
    <3> QED BY <2>1, <3>1 DEF IInv, SenderOk
  <2> QED BY <2>1, <2>4, <2>5, <2>7, <2>8, SenderMoves, Zenon
\* A frame written to a callis.
<1>SentOut.
      ASSUME IsNet(net), NEW k \in Callis, NEW S, NEW f \in S, net[k].out \in Seq(S)
      PROVE  \E out \in Seq(S) : Rechannelled(Sent(k, "out", f), net, k, out, net[k].back)
  <2> USE <1>SentOut
  <2> DEFINE out == IF net[k].state = "up" THEN Append(net[k].out, f) ELSE net[k].out
  <2>1. out \in Seq(S)
    OBVIOUS
  <2> HIDE DEF out
  <2>2. Sent(k, "out", f) = [net EXCEPT ![k].out = out]
    BY DEF Sent, out
  <2>3. Rechannelled(Sent(k, "out", f), net, k, out, net[k].back)
    BY <2>2, ChannelOut, Zenon
  <2> QED BY <2>1, <2>3, Zenon
<1>WriteChunkKeeps.
      ASSUME NEW k \in Callis, write_chunk(k)
      PROVE  IInv'
  <2> USE <1>WriteChunkKeeps
  <2> DEFINE f == FrameOf(tx[k].lease)
  <2>1. /\ tx[k].phase = "marked" /\ net' = Sent(k, "out", f)
        /\ tx' = [tx EXCEPT ![k] = [phase |-> "idle"]]
        /\ UNCHANGED <<ring, registered, inflight, sender, next_id, rvars>>
    BY DEF write_chunk, FrameOf
  <2>2. Good(f, ring, next_id)
    BY <2>1, Before, ZenonT(30) DEF TxOk
  <2>3. f \in GoodFrames(ring, next_id)
    BY <2>2 DEF Good, GoodFrames
  <2> HIDE DEF f
  <2>4. PICK out \in Seq(GoodFrames(ring, next_id)) : Rechannelled(net', net, k, out, net[k].back)
    BY <2>1, <2>3, Before, <1>SentOut, Zenon
  <2>5. Changed(tx', tx, k) /\ tx'[k] = [phase |-> "idle"]
    BY <2>1, Before, ChangedAt, Zenon
  <2>6. TxOk(tx'[k], ring', next_id')
    <3>1. [phase |-> "idle"] \in [phase : {"idle", "ended"}]
      BY Zenon
    <3> QED BY <2>5, <3>1, Zenon DEF TxOk
  <2>7. Onward(ring, next_id, inbound, ring', next_id')
    BY <2>1, Before, StayOn
  <2>8. SenderOk'
    BY <2>1 DEF IInv, SenderOk
  <2>9. UNCHANGED rvars /\ ring' = ring /\ next_id' = next_id
    BY <2>1
  <2>10. net[k].back \in Seq(GoodAnswers(ring', next_id', inbound)) /\ out \in Seq(GoodFrames(ring', next_id'))
    BY <2>9, Before
  <2> QED BY <2>4, <2>5, <2>6, <2>7, <2>8, <2>9, <2>10, SenderMoves, Zenon
<1>RollbackKeeps.
      ASSUME NEW k \in Callis, rollback_dispatch_inflight(k)
      PROVE  IInv'
  <2> USE <1>RollbackKeeps
  <2>1. /\ inflight' = Without(inflight, tx[k].lease.peer_msg_id)
        /\ ring' = IF registered THEN mark_callis_replay_ready(ring, k) ELSE ring
        /\ tx' = [tx EXCEPT ![k] = [phase |-> "ended"]]
        /\ UNCHANGED <<registered, sender, next_id, net, rvars>>
    BY DEF rollback_dispatch_inflight
  <2>2. Onward(ring, next_id, inbound, ring', next_id')
    <3>1. CASE registered
      BY <2>1, <3>1, Zenon DEF Rules, RingRules, ReplayRule
    <3>2. CASE ~registered
      BY <2>1, <3>2, Before, StayOn
    <3> QED BY <3>1, <3>2
  <2>3. Changed(tx', tx, k) /\ tx'[k] = [phase |-> "ended"]
    BY <2>1, Before, ChangedAt, Zenon
  <2>4. TxOk(tx'[k], ring', next_id')
    <3>1. [phase |-> "ended"] \in [phase : {"idle", "ended"}]
      BY Zenon
    <3> QED BY <2>3, <3>1, Zenon DEF TxOk
  <2>5. SenderOk'
    <3>1. InflightOk(inflight')
      BY <2>1, Inflights, Zenon DEF IInv, SenderOk
    <3> QED BY <2>1, <3>1 DEF IInv, SenderOk
  <2> QED BY <2>1, <2>2, <2>3, <2>4, <2>5, SenderMoves, Zenon
<1>RequeueKeeps.
      ASSUME NEW k \in Callis, requeue_inflight_for_callis(k)
      PROVE  IInv'
  <2> USE <1>RequeueKeeps
  <2> DEFINE mine == {m \in DOMAIN inflight : inflight[m] = k}
  <2>1. /\ inflight' = [m \in DOMAIN inflight \ mine |-> inflight[m]]
        /\ ring' = IF mine # {} /\ registered THEN mark_callis_replay_ready(ring, k) ELSE ring
        /\ net' = [net EXCEPT ![k].s = FALSE, ![k].back = <<>>]
        /\ tx' = [tx EXCEPT ![k] = [phase |-> "ended"]]
        /\ UNCHANGED <<registered, sender, next_id, rvars>>
    BY DEF requeue_inflight_for_callis
  <2> HIDE DEF mine
  <2>2. Onward(ring, next_id, inbound, ring', next_id')
    <3>1. CASE mine # {} /\ registered
      BY <2>1, <3>1, Zenon DEF Rules, RingRules, ReplayRule
    <3>2. CASE ~(mine # {} /\ registered)
      BY <2>1, <3>2, Before, StayOn
    <3> QED BY <3>1, <3>2
  <2>3. Changed(tx', tx, k) /\ tx'[k] = [phase |-> "ended"]
    BY <2>1, Before, ChangedAt, Zenon
  <2>4. TxOk(tx'[k], ring', next_id')
    <3>1. [phase |-> "ended"] \in [phase : {"idle", "ended"}]
      BY Zenon
    <3> QED BY <2>3, <3>1, Zenon DEF TxOk
  <2>5. SenderOk'
    <3>1. InflightOk(inflight')
      BY <2>1, Inflights, Zenon DEF IInv, SenderOk
    <3> QED BY <2>1, <3>1 DEF IInv, SenderOk
  <2>6. Rechannelled(net', net, k, net[k].out, <<>>)
    BY <2>1, Before, <1>ChannelLeft, Zenon
  <2>7. net[k].out \in Seq(GoodFrames(ring', next_id')) /\ <<>> \in Seq(GoodAnswers(ring', next_id', inbound))
    BY <2>2, <1>StillGood
  <2>8. UNCHANGED rvars
    BY <2>1
  <2> QED BY <2>2, <2>3, <2>4, <2>5, <2>6, <2>7, <2>8, SenderMoves, Zenon
<1>NextAnswer.
      ASSUME NEW k \in Callis, NEW kind, Answer(k, kind)
      PROVE  /\ Answered(Head(net[k].back), ring, next_id, inbound)
             /\ Head(net[k].back).kind = kind
             /\ \A t, m : Onward(ring, next_id, inbound, t, m) =>
                  Tail(net[k].back) \in Seq(GoodAnswers(t, m, inbound))
  <2> USE <1>NextAnswer
  <2>1. /\ net[k].back \in Seq(GoodAnswers(ring, next_id, inbound)) /\ net[k].back # <<>>
        /\ Head(net[k].back).kind = kind
    BY Before DEF Answer
  <2>2. /\ Head(net[k].back) \in GoodAnswers(ring, next_id, inbound)
        /\ Tail(net[k].back) \in Seq(GoodAnswers(ring, next_id, inbound))
    BY <2>1, NextFrame, Zenon
  <2>3. ASSUME NEW t, NEW m, Onward(ring, next_id, inbound, t, m)
        PROVE  Tail(net[k].back) \in Seq(GoodAnswers(t, m, inbound))
    <3>1. GoodAnswers(ring, next_id, inbound) \subseteq GoodAnswers(t, m, inbound)
      BY <2>3, AnsweredOn, Zenon DEF GoodAnswers, Onward
    <3> QED BY <2>2, <3>1, SeqWider, Zenon
  <2> QED BY <2>1, <2>2, <2>3, Zenon DEF GoodAnswers
\* The sender has dealt with the next answer of k.
<1>AnswerMoves.
      ASSUME NEW k \in Callis, NEW kind, Answer(k, kind), UNCHANGED <<tx, sender, next_id, rvars>>,
             net' = [net EXCEPT ![k].back = Tail(@)],
             Onward(ring, next_id, inbound, ring', next_id), registered' \in BOOLEAN, InflightOk(inflight')
      PROVE  IInv'
  <2> USE <1>AnswerMoves
  <2>1. /\ UNCHANGED rvars /\ tx' = tx /\ sender' = sender /\ next_id' = next_id
        /\ net' = [net EXCEPT ![k].back = Tail(net[k].back)]
    OBVIOUS
  <2>2. SenderOk'
    BY <2>1 DEF IInv, SenderOk
  <2>3. Rechannelled(net', net, k, net[k].out, Tail(net[k].back))
    BY <2>1, Before, ChannelBack, Zenon
  <2>4. Onward(ring, next_id, inbound, ring', next_id')
    BY <2>1
  <2>5. /\ net[k].out \in Seq(GoodFrames(ring', next_id'))
        /\ Tail(net[k].back) \in Seq(GoodAnswers(ring', next_id', inbound))
    BY <2>4, <1>StillGood, <1>NextAnswer, Zenon
  <2> QED BY <2>1, <2>2, <2>3, <2>4, <2>5, SenderMoves, Zenon
<1>AckKeeps.
      ASSUME NEW k \in Callis, handle_ack(k)
      PROVE  IInv'
  <2> USE <1>AckKeeps
  <2> DEFINE m == Head(net[k].back).id
  <2>1. /\ Answer(k, "Ack")
        /\ ring' = IF m \in DOMAIN inflight /\ registered THEN note_ack(ring, m) ELSE ring
        /\ inflight' = Without(inflight, m)
        /\ net' = [net EXCEPT ![k].back = Tail(@)]
        /\ UNCHANGED <<registered, tx, sender, next_id, rvars>>
    BY DEF handle_ack
  <2>2. AckOk(m, ring, next_id, inbound)
    BY <2>1, <1>NextAnswer, Zenon DEF Answered
  <2> HIDE DEF m
  <2>3. Onward(ring, next_id, inbound, ring', next_id)
    <3>1. CASE m \in DOMAIN inflight /\ registered
      BY <2>1, <2>2, <3>1, Zenon DEF Rules, RingRules, AckRule
    <3>2. CASE ~(m \in DOMAIN inflight /\ registered)
      BY <2>1, <3>2, Before, StayOn
    <3> QED BY <3>1, <3>2
  <2>4. InflightOk(inflight') /\ registered' \in BOOLEAN
    BY <2>1, Inflights DEF IInv, SenderOk
  <2>5. UNCHANGED <<tx, sender, next_id, rvars>>
    BY <2>1
  <2> QED BY <2>1, <2>3, <2>4, <2>5, <1>AnswerMoves, Zenon
<1>ErrorKeeps.
      ASSUME NEW k \in Callis, handle_error(k)
      PROVE  IInv'
  <2> USE <1>ErrorKeeps
  <2> DEFINE m == Head(net[k].back).id
             err == Head(net[k].back).err
  <2>1. /\ Answer(k, "Error")
        /\ IF m \in DOMAIN inflight
           THEN /\ inflight' = Without(inflight, m)
                /\ ring' = IF registered THEN note_error(ring, m, err) ELSE ring
                /\ UNCHANGED registered
           ELSE IF m = StreamId /\ registered THEN unregister(fail(ring, err))
           ELSE UNCHANGED <<ring, registered, inflight>>
        /\ net' = [net EXCEPT ![k].back = Tail(@)]
        /\ UNCHANGED <<tx, sender, next_id, rvars>>
    BY DEF handle_error
  <2> HIDE DEF m, err
  <2>2. InflightOk(inflight) /\ registered \in BOOLEAN
    BY DEF IInv, SenderOk
  <2>3. Onward(ring, next_id, inbound, ring', next_id) /\ registered' \in BOOLEAN /\ InflightOk(inflight')
    <3>1. CASE m \in DOMAIN inflight
      <4>1. CASE registered
        BY <2>1, <2>2, <3>1, <4>1, Inflights DEF Rules, RingRules, ErrorRule
      <4>2. CASE ~registered
        BY <2>1, <2>2, <3>1, <4>2, Before, StayOn, Inflights
      <4> QED BY <4>1, <4>2
    <3>2. CASE m \notin DOMAIN inflight /\ m = StreamId /\ registered
      <4>1. registered' = FALSE /\ inflight' = <<>> /\ ring' = close(fail(ring, err))
        BY <2>1, <3>2 DEF unregister
      <4>2. Onward(ring, next_id, inbound, ring', next_id)
        BY <4>1, Zenon DEF Rules, RingRules, TurnRule
      <4>3. InflightOk(<<>>)
        BY <2>2, Inflights, Zenon
      <4> QED BY <4>1, <4>2, <4>3, Zenon
    <3>3. CASE m \notin DOMAIN inflight /\ ~(m = StreamId /\ registered)
      BY <2>1, <2>2, <3>3, Before, StayOn
    <3> QED BY <3>1, <3>2, <3>3
  <2> QED BY <2>1, <2>3, <1>AnswerMoves, Zenon
<1>CompleteKeeps.
      ASSUME NEW k \in Callis, handle_complete(k)
      PROVE  IInv'
  <2> USE <1>CompleteKeeps
  <2>1. /\ Answer(k, "Complete")
        /\ ring' = IF registered THEN mark_complete(ring) ELSE ring
        /\ net' = IF registered THEN [net EXCEPT ![k].back = Tail(@)]
                  ELSE [net EXCEPT ![k].back = <<>>, ![k].state = "down"]
        /\ UNCHANGED <<registered, inflight, tx, sender, next_id, rvars>>
    BY DEF handle_complete
  <2>2. Whole(ring, inbound)
    BY <2>1, <1>NextAnswer, Zenon DEF Answered
  <2>3. InflightOk(inflight') /\ registered' \in BOOLEAN
    BY <2>1 DEF IInv, SenderOk
  <2>4. UNCHANGED <<tx, sender, next_id, rvars>>
    BY <2>1
  <2>5. CASE registered
    <3>1. Onward(ring, next_id, inbound, ring', next_id)
      BY <2>1, <2>2, <2>5, Zenon DEF Rules, RingRules, TurnRule
    <3>2. net' = [net EXCEPT ![k].back = Tail(@)]
      BY <2>1, <2>5
    <3> QED BY <2>1, <2>3, <2>4, <3>1, <3>2, <1>AnswerMoves, Zenon
  <2>6. CASE ~registered
    <3>1. ring' = ring /\ net' = [net EXCEPT ![k].back = <<>>, ![k].state = "down"]
      BY <2>1, <2>6
    <3>2. Rechannelled(net', net, k, net[k].out, <<>>)
      BY <3>1, Before, <1>ChannelBroken, Zenon
    <3>3. UNCHANGED <<svars, rvars>>
      BY <2>1, <3>1 DEF svars
    <3>4. <<>> \in Seq(GoodAnswers(ring, next_id, inbound))
      OBVIOUS
    <3> QED BY <3>2, <3>3, <3>4, Before, NetMoves, Zenon
  <2> QED BY <2>5, <2>6
<1>1. ASSUME NEW k \in Callis,
             \/ lease_chunk(k) \/ mark_dispatch_inflight(k) \/ write_chunk(k)
             \/ rollback_dispatch_inflight(k) \/ requeue_inflight_for_callis(k)
             \/ handle_ack(k) \/ handle_error(k) \/ handle_complete(k)
      PROVE  IInv'
  BY <1>1, <1>LeaseKeeps, <1>MarkKeeps, <1>WriteChunkKeeps, <1>RollbackKeeps, <1>RequeueKeeps,
     <1>AckKeeps, <1>ErrorKeeps, <1>CompleteKeeps, Zenon
<1> QED BY <1>1, <1>WriteKeeps, <1>ShutdownKeeps, <1>SealFailsKeeps, <1>UnregisterKeeps, Zenon DEF Sending

\* every step of the receiver,
LEMMA ReceivingKeeps ==
  ASSUME IInv, Rules, Receiving
  PROVE  IInv'
\* enqueue_blob_write of an answer.
<1>EnqueuedOk.
      ASSUME Numbers, NEW x, NEW y, NEW w, NEW s, NEW r, NEW n, NEW q, Travel(x, y, w, s, r, n, q),
             NEW ready, LanesOk(ready), NEW f, Answered(f, r, n, q)
      PROVE  LET e == Enqueued(s, ready, f)
             IN  Travel(x, y, w, e.slots, r, n, q) /\ LanesOk(e.lanes)
  <2> USE <1>EnqueuedOk
  <2> DEFINE e == Enqueued(s, ready, f)
             full == f.id \in DOMAIN s \/ Len(ready[f.kind]) >= Capacity(f.kind)
             more == [ready EXCEPT ![f.kind] = Append(@, f.id)]
  <2>1. CASE full
    <3>1. e.slots = s /\ e.lanes = ready
      BY <2>1 DEF Enqueued
    <3> QED BY <3>1, ZenonT(30)
  <2>2. CASE ~full
    <3>1. e.slots = With(s, f.id, f) /\ e.lanes = more
      BY <2>2 DEF Enqueued
    <3>2. Travel(x, y, w, With(s, f.id, f), r, n, q)
      BY TravelSlots, Zenon
    <3>3. f.kind \in Lanes /\ f.id \in Nat
      BY DEF Answered, Answers, Lanes
    <3>4. ~(Len(ready[f.kind]) >= Capacity(f.kind))
      BY <2>2
    <3>5. /\ ready = [l \in Lanes |-> ready[l]]
          /\ \A l \in Lanes : ready[l] \in Seq(Nat) /\ Len(ready[l]) <= Capacity(l)
      BY DEF LanesOk
    <3>6. /\ Append(ready[f.kind], f.id) \in Seq(Nat)
          /\ Len(Append(ready[f.kind], f.id)) <= Capacity(f.kind)
      BY <3>3, <3>4, <3>5, CapacityNat
    <3>7. /\ more = [l \in Lanes |-> more[l]]
          /\ more[f.kind] = Append(ready[f.kind], f.id)
          /\ \A l \in Lanes : l # f.kind => more[l] = ready[l]
      BY <3>3, <3>5, Zenon
    <3> HIDE DEF more
    <3>8. LanesOk(more)
      BY <3>5, <3>6, <3>7, ZenonT(30) DEF LanesOk
    <3> QED BY <3>1, <3>2, <3>8, ZenonT(30)
  <2> QED BY <2>1, <2>2
\* A transmitter that finds a response: its lane and its place in it.
<1>ResponseFound.
      ASSUME Numbers, HasResponse, LanesOk(lanes)
      PROVE  /\ FirstLane \in Lanes /\ FirstLive \in DOMAIN lanes[FirstLane]
             /\ NextResponse \in DOMAIN write_slots /\ NextResponse \in Nat
  <2> USE <1>ResponseFound
  <2>1. \A l \in Lanes : \E n \in 1..3 : LaneOrder[n] = l
    <3>1. LaneOrder[1] = "Ack" /\ LaneOrder[2] = "Error" /\ LaneOrder[3] = "Complete"
      BY DEF LaneOrder
    <3> QED BY <3>1 DEF Lanes
  <2> DEFINE T == {n \in 1..3 : Live(LaneOrder[n]) # {}}
  <2>2. T # {} /\ T \subseteq Nat
    BY <2>1 DEF HasResponse
  <2>3. PICK n \in T : \A m \in T : n <= m
    BY <2>2, Zenon DEF Numbers
  <2>4. n \in 1..3 /\ Live(LaneOrder[n]) # {} /\ \A m \in 1..(n - 1) : Live(LaneOrder[m]) = {}
    <3>1. n \in 1..3 /\ Live(LaneOrder[n]) # {}
      OBVIOUS
    <3>2. ASSUME NEW m \in 1..(n - 1), Live(LaneOrder[m]) # {} PROVE FALSE
      <4>1. m \in T /\ ~(n <= m)
        BY <3>1, <3>2
      <4> QED BY <2>3, <4>1
    <3> QED BY <3>1, <3>2
  <2> DEFINE c == CHOOSE i \in 1..3 : /\ Live(LaneOrder[i]) # {}
                                      /\ \A m \in 1..(i - 1) : Live(LaneOrder[m]) = {}
  <2>5. c \in 1..3 /\ Live(LaneOrder[c]) # {}
    BY <2>4, Zenon
  <2>6. FirstLane = LaneOrder[c]
    BY DEF FirstLane
  <2> HIDE DEF c
  <2>7. FirstLane \in Lanes
    BY <2>5, <2>6 DEF LaneOrder, Lanes
  <2> DEFINE S == Live(FirstLane)
  <2>8. lanes[FirstLane] \in Seq(Nat) /\ S # {} /\ S \subseteq DOMAIN lanes[FirstLane]
    BY <2>5, <2>6, <2>7 DEF LanesOk, Live
  <2>9. S \subseteq Nat
    BY <2>8
  <2>10. \E i \in S : \A j \in S : i <= j
    BY <2>8, <2>9, Zenon DEF Numbers
  <2>11. FirstLive \in S
    BY <2>10, Zenon DEF FirstLive
  <2>12. FirstLive \in DOMAIN lanes[FirstLane] /\ NextResponse \in DOMAIN write_slots
    BY <2>11 DEF Live, NextResponse
  <2>13. NextResponse \in Nat
    BY <2>8, <2>12 DEF NextResponse
  <2> QED BY <2>7, <2>12, <2>13
\* The lanes without it, and with it at the back of its lane again.
<1>PoppedOk.
      ASSUME Numbers, HasResponse, LanesOk(lanes)
      PROVE  LanesOk(Popped) /\ LanesOk([Popped EXCEPT ![FirstLane] = Append(@, NextResponse)])
  <2> USE <1>PoppedOk
  <2> DEFINE f == FirstLane
             i == FirstLive
             rest_of == SubSeq(lanes[f], i + 1, Len(lanes[f]))
  <2>1. f \in Lanes /\ i \in DOMAIN lanes[f] /\ NextResponse \in Nat
    BY <1>ResponseFound
  <2>2. \A l \in Lanes : lanes[l] \in Seq(Nat) /\ Len(lanes[l]) \in Nat /\ Len(lanes[l]) <= Capacity(l)
    BY DEF LanesOk
  <2>3. rest_of \in Seq(Nat) /\ Len(rest_of) + 1 <= Len(lanes[f]) /\ Len(rest_of) \in Nat
    <3>1. i \in 1..Len(lanes[f])
      BY <2>1, <2>2
    <3>2. lanes[f] \in Seq(Nat) /\ Len(lanes[f]) \in Nat
      BY <2>1, <2>2
    <3> HIDE DEF f, i
    <3>3. /\ rest_of \in Seq(Nat)
          /\ Len(rest_of) = IF i + 1 <= Len(lanes[f]) THEN Len(lanes[f]) - (i + 1) + 1 ELSE 0
      BY <3>1, <3>2
    <3> QED BY <3>1, <3>2, <3>3
  <2>4. /\ Popped = [l \in Lanes |-> Popped[l]] /\ Popped[f] = rest_of
        /\ \A l \in Lanes : l # f => Popped[l] \in {<<>>, lanes[l]}
    BY <2>1, Zenon DEF Popped
  <2> HIDE DEF rest_of, f
  <2>5. LanesOk(Popped)
    <3> SUFFICES ASSUME NEW l \in Lanes PROVE Popped[l] \in Seq(Nat) /\ Len(Popped[l]) <= Capacity(l)
      BY <2>4 DEF LanesOk
    <3>1. CASE l = f
      BY <2>1, <2>2, <2>3, <2>4, <3>1, CapacityNat
    <3>2. CASE l # f
      <4>1. Popped[l] = <<>> \/ Popped[l] = lanes[l]
        BY <2>4, <3>2
      <4>2. <<>> \in Seq(Nat) /\ Len(<<>>) = 0 /\ Capacity(l) \in Nat
        BY CapacityNat
      <4>3. CASE Popped[l] = lanes[l]
        BY <2>2, <4>3, Zenon
      <4>4. CASE Popped[l] = <<>>
        <5>1. 0 <= Capacity(l)
          BY <4>2
        <5> QED BY <4>2, <4>4, <5>1, Zenon
      <4> QED BY <4>1, <4>3, <4>4
    <3> QED BY <3>1, <3>2
  <2> DEFINE b == Append(rest_of, NextResponse)
             t == [Popped EXCEPT ![f] = Append(@, NextResponse)]
  <2>6. b \in Seq(Nat) /\ Len(b) = Len(rest_of) + 1
    BY <2>1, <2>3
  <2>7. t = [l \in Lanes |-> t[l]] /\ t[f] = b /\ \A l \in Lanes : l # f => t[l] = Popped[l]
    BY <2>1, <2>4
  <2> HIDE DEF t, b
  <2>8. LanesOk(t)
    <3> SUFFICES ASSUME NEW l \in Lanes PROVE t[l] \in Seq(Nat) /\ Len(t[l]) <= Capacity(l)
      BY <2>7 DEF LanesOk
    <3>1. CASE l = f
      BY <2>1, <2>2, <2>3, <2>6, <2>7, <3>1, CapacityNat
    <3>2. CASE l # f
      BY <2>5, <2>7, <3>2 DEF LanesOk
    <3> QED BY <3>1, <3>2
  <2> QED BY <2>5, <2>8 DEF t, f
<1>SentBack.
      ASSUME IsNet(net), NEW k \in Callis, NEW S, NEW f \in S, net[k].back \in Seq(S)
      PROVE  \E back \in Seq(S) : Rechannelled(Sent(k, "back", f), net, k, net[k].out, back)
  <2> USE <1>SentBack
  <2> DEFINE back == IF net[k].state = "up" THEN Append(net[k].back, f) ELSE net[k].back
  <2>1. back \in Seq(S)
    OBVIOUS
  <2> HIDE DEF back
  <2>2. Sent(k, "back", f) = [net EXCEPT ![k].back = back]
    BY DEF Sent, back
  <2>3. Rechannelled(Sent(k, "back", f), net, k, net[k].out, back)
    BY <2>2, ChannelBack, Zenon
  <2> QED BY <2>1, <2>3, Zenon
<1>WriteResponseKeeps.
      ASSUME NEW k \in Callis, write_response(k)
      PROVE  IInv'
  <2> USE <1>WriteResponseKeeps
  <2> DEFINE f == write_slots[NextResponse]
  <2>1. /\ HasResponse /\ net' = Sent(k, "back", f)
        /\ write_slots' = Without(write_slots, NextResponse) /\ lanes' = Popped
        /\ UNCHANGED <<svars, active, inbound, recent, receiver, rx, reaper, reader>>
    BY DEF write_response
  <2>2. LanesOk(lanes)
    BY DEF IInv
  <2>3. LanesOk(lanes')
    BY <2>1, <2>2, <1>PoppedOk DEF Rules
  <2>4. NextResponse \in DOMAIN write_slots
    BY <2>1, <2>2, <1>ResponseFound DEF Rules
  <2>5. f \in GoodAnswers(ring, next_id, inbound)
    BY <2>4, Before DEF Now, Travel, GoodAnswers, Answered
  <2> HIDE DEF f
  <2>6. PICK back \in Seq(GoodAnswers(ring, next_id, inbound)) :
          Rechannelled(net', net, k, net[k].out, back)
    BY <2>1, <2>5, Before, <1>SentBack, Zenon
  <2>7. Travel(tx, rx, net', write_slots, ring, next_id, inbound)
    BY <2>6, Before, TravelNet, Zenon DEF Now
  <2>8. Travel(tx, rx, net', write_slots', ring, next_id, inbound)
    BY <2>1, <2>7, TravelSlots, Zenon
  <2> QED BY <2>1, <2>3, <2>8, LanesMove
<1>RollbackResponseKeeps.
      ASSUME NEW k \in Callis, rollback_response(k)
      PROVE  IInv'
  <2> USE <1>RollbackResponseKeeps
  <2>1. /\ HasResponse /\ lanes' = [Popped EXCEPT ![FirstLane] = Append(@, NextResponse)]
        /\ net' = [net EXCEPT ![k].r = FALSE, ![k].out = <<>>]
        /\ UNCHANGED <<svars, active, inbound, recent, receiver, rx, write_slots, reaper, reader>>
    BY DEF rollback_response
  <2>2. LanesOk(lanes')
    <3>1. LanesOk(lanes)
      BY DEF IInv
    <3> QED BY <2>1, <3>1, <1>PoppedOk, Zenon DEF Rules
  <2>3. Rechannelled(net', net, k, <<>>, net[k].back)
    BY <2>1, Before, ChannelClosed, Zenon
  <2>4. <<>> \in Seq(GoodFrames(ring, next_id))
    OBVIOUS
  <2>5. Travel(tx, rx, net', write_slots, ring, next_id, inbound)
    BY <2>3, <2>4, Before, TravelNet, Zenon DEF Now
  <2>6. Travel(tx, rx, net', write_slots', ring, next_id, inbound)
    BY <2>1, <2>5
  <2>7. UNCHANGED <<svars, active, inbound, recent, receiver, rx, reaper, reader>>
    BY <2>1
  <2> QED BY <2>2, <2>6, <2>7, LanesMove
<1>ReceiverClosedKeeps.
      ASSUME NEW k \in Callis, receiver_callis_closed(k)
      PROVE  IInv'
  <2> USE <1>ReceiverClosedKeeps
  <2>1. net' = [net EXCEPT ![k].r = FALSE, ![k].out = <<>>] /\ UNCHANGED <<svars, rvars>>
    BY DEF receiver_callis_closed
  <2>2. Rechannelled(net', net, k, <<>>, net[k].back)
    BY <2>1, Before, ChannelClosed, Zenon
  <2>3. <<>> \in Seq(GoodFrames(ring, next_id))
    OBVIOUS
  <2> QED BY <2>1, <2>2, <2>3, Before, NetMoves, Zenon
\* The phases of a chunk handler.
<1>HandlerPhases.
      ASSUME NEW r, NEW n, NEW q, NEW f, Good(f, r, n)
      PROVE  /\ RxOk([phase |-> "found", frame |-> f], r, n, q)
             /\ \A err \in Errors : /\ RxOk([phase |-> "refused", frame |-> f, err |-> err], r, n, q)
                                    /\ RxOk([phase |-> "removed", frame |-> f, err |-> err], r, n, q)
             /\ \A outcome \in Outcomes :
                  /\ outcome # "BlobStreamNotFound" => f.chunk_id \in Taken(q)
                  /\ outcome = "Complete" => Whole(r, q)
                  => RxOk([phase |-> "answer", frame |-> f, outcome |-> outcome], r, n, q)
  <2> USE <1>HandlerPhases
  <2>1. RxOk([phase |-> "found", frame |-> f], r, n, q)
    BY Zenon DEF RxOk
  <2>2. ASSUME NEW err \in Errors
        PROVE  /\ RxOk([phase |-> "refused", frame |-> f, err |-> err], r, n, q)
               /\ RxOk([phase |-> "removed", frame |-> f, err |-> err], r, n, q)
    BY ZenonT(30) DEF RxOk
  <2>3. ASSUME NEW outcome \in Outcomes, outcome # "BlobStreamNotFound" => f.chunk_id \in Taken(q),
               outcome = "Complete" => Whole(r, q)
        PROVE  RxOk([phase |-> "answer", frame |-> f, outcome |-> outcome], r, n, q)
    BY <2>3, Zenon DEF RxOk
  <2> QED BY <2>1, <2>2, <2>3, Zenon
\* A failure stays visible while a handler goes on.
<1>FailingKept.
      ASSUME NEW k \in Callis, Changed(rx', rx, k), rx[k].phase # "removed" \/ rx'[k].phase = "removed",
             receiver.error # "none" => receiver'.error # "none", reaper = "removed" => reaper' = "removed",
             Failing
      PROVE  Failing'
  <2> USE <1>FailingKept
  <2>1. CASE receiver.error # "none"
    BY <2>1 DEF Failing
  <2>2. CASE reaper = "removed"
    BY <2>2 DEF Failing
  <2>3. ASSUME NEW j \in Callis, rx[j].phase = "removed" PROVE Failing'
    <3>1. rx'[j].phase = "removed"
      BY <2>3, Zenon DEF Changed
    <3> QED BY <3>1 DEF Failing
  <2> QED BY <2>1, <2>2, <2>3, Zenon DEF Failing
<1>RecvChunkKeeps.
      ASSUME NEW k \in Callis, recv_chunk_state(k)
      PROVE  IInv'
  <2> USE <1>RecvChunkKeeps
  <2> DEFINE f == Head(net[k].out)
             found == [phase |-> "found", frame |-> f]
             late == [phase |-> "removed", frame |-> f, err |-> "BlobStreamIdleTimeout"]
             gone(o) == [phase |-> "answer", frame |-> f, outcome |-> o]
             o == IF recent THEN "RecentlyCompleted" ELSE "BlobStreamNotFound"
  <2>1. /\ net[k].out # <<>> /\ rx[k].phase = "idle"
        /\ \/ active /\ rx' = [rx EXCEPT ![k] = found] /\ active' = active
           \/ active /\ rx' = [rx EXCEPT ![k] = late] /\ active' = FALSE
           \/ ~active /\ rx' = [rx EXCEPT ![k] = gone(o)] /\ active' = active
        /\ net' = [net EXCEPT ![k].out = Tail(@)]
        /\ UNCHANGED <<svars, inbound, recent, receiver, write_slots, lanes, reaper, reader>>
    BY Zenon DEF recv_chunk_state
  <2>2. f \in GoodFrames(ring, next_id) /\ Tail(net[k].out) \in Seq(GoodFrames(ring, next_id))
    BY <2>1, Before, NextFrame
  <2>3. Good(f, ring, next_id) /\ f.chunk_id \in 0..(ring.next_chunk_id - 1)
    <3>1. Good(f, ring, next_id)
      BY <2>2, ZenonT(30) DEF GoodFrames
    <3>2. f \in Frame /\ f.chunk_id < ring.next_chunk_id /\ ring.next_chunk_id \in Nat
      BY <3>1, Before DEF Good, Both, RingOk, Books, RingType
    <3> QED BY <3>1, <3>2 DEF Frame
  <2>4. RxOk(found, ring, next_id, inbound) /\ RxOk(late, ring, next_id, inbound)
    <3>1. "BlobStreamIdleTimeout" \in Errors
      BY DEF Errors
    <3> QED BY <2>3, <3>1, <1>HandlerPhases, Zenon
  <2>5. RxOk(gone(o), ring, next_id, inbound)
    <3>1. o \in Outcomes /\ o # "Complete" /\ (o # "BlobStreamNotFound" => recent)
      BY DEF Outcomes
    <3>2. recent => f.chunk_id \in Taken(inbound)
      <4>1. recent => Whole(ring, inbound)
        BY DEF IInv, EndOk, EndRead
      <4>2. InboundOk(inbound, ring) /\ ring.next_chunk_id \in Nat
        BY Before DEF Both, RingOk, Books, RingType
      <4> QED BY <2>3, <4>1, <4>2, WholeTaken
    <3> HIDE DEF f, o
    <3> QED BY <2>3, <3>1, <3>2, <1>HandlerPhases, Zenon
  <2>6. found.phase = "found" /\ late.phase = "removed" /\ gone(o).phase = "answer"
    OBVIOUS
  <2> HIDE DEF found, late, gone, o
  <2>7. /\ Changed(rx', rx, k) /\ RxOk(rx'[k], ring, next_id, inbound)
        /\ active' \/ ~active \/ rx'[k].phase = "removed"
        /\ active' \in BOOLEAN /\ (~active => ~active')
    <3>1. CASE active /\ rx' = [rx EXCEPT ![k] = found] /\ active' = active
      <4>1. Changed(rx', rx, k) /\ rx'[k] = found
        BY <3>1, Before, ChangedAt, Zenon
      <4> QED BY <2>4, <3>1, <4>1 DEF IInv, ReaderOk
    <3>2. CASE active /\ rx' = [rx EXCEPT ![k] = late] /\ active' = FALSE
      <4>1. Changed(rx', rx, k) /\ rx'[k] = late
        BY <3>2, Before, ChangedAt, Zenon
      <4> QED BY <2>4, <2>6, <3>2, <4>1, Zenon
    <3>3. CASE ~active /\ rx' = [rx EXCEPT ![k] = gone(o)] /\ active' = active
      <4>1. Changed(rx', rx, k) /\ rx'[k] = gone(o)
        BY <3>3, Before, ChangedAt, Zenon
      <4> QED BY <2>5, <3>3, <4>1 DEF IInv, ReaderOk
    <3> QED BY <2>1, <3>1, <3>2, <3>3, Zenon
  <2>8. Rechannelled(net', net, k, Tail(net[k].out), net[k].back)
    BY <2>1, Before, ChannelOut, Zenon
  <2>9. Travel(tx, rx', net', write_slots, ring, next_id, inbound)
    <3>1. Travel(tx, rx', net, write_slots, ring, next_id, inbound)
      BY <2>7, Before, TravelRx, Zenon DEF Now
    <3> QED BY <2>2, <2>8, <3>1, Before, TravelNet, Zenon
  <2>10. /\ UNCHANGED svars /\ ring' = ring /\ inbound' = inbound /\ recent' = recent
         /\ receiver' = receiver /\ write_slots' = write_slots /\ lanes' = lanes
         /\ reaper' = reaper /\ reader' = reader
    BY <2>1 DEF svars
  <2>11. Took(inbound, ring, inbound') /\ LanesOk(lanes')
    BY <2>10, TookNothing DEF IInv
  <2>12. ReaderOk'
    BY <2>7, <2>10 DEF IInv, ReaderOk
  <2>13. Failing => Failing'
    <3>1. rx[k].phase # "removed"
      BY <2>1
    <3> QED BY <2>7, <2>10, <3>1, <1>FailingKept, Zenon
  <2>14. rx'[k].phase = "removed" => Failing'
    BY ZenonT(30) DEF Failing
  <2>15. reader'.pc \in Past => ~active'
    BY <2>7, <2>10 DEF IInv, EndOk
  <2>16. EndRead' => EndRead
    BY <2>10 DEF EndRead
  <2>17. EndOk'
    BY <2>7, <2>10, <2>11, <2>13, <2>14, <2>15, <2>16, EndKept, Zenon
  <2> QED BY <2>9, <2>10, <2>11, <2>12, <2>17, ReceiverSide
\* What a handler knows of its frame.
<1>HandlerFrame.
      ASSUME NEW k \in Callis, rx[k].phase # "idle"
      PROVE  /\ Good(rx[k].frame, ring, next_id)
             /\ rx[k].phase \in {"refused", "removed"} =>
                  /\ rx[k] = [phase |-> rx[k].phase, frame |-> rx[k].frame, err |-> rx[k].err]
                  /\ rx[k].err \in Errors
             /\ rx[k].phase = "answer" =>
                  /\ rx[k].outcome \in Outcomes
                  /\ rx[k].outcome # "BlobStreamNotFound" => rx[k].frame.chunk_id \in Taken(inbound)
                  /\ rx[k].outcome = "Complete" => Whole(ring, inbound)
  <2> USE <1>HandlerFrame
  <2>1. RxOk(rx[k], ring, next_id, inbound)
    BY Before
  <2>2. rx[k] # [phase |-> "idle"]
    BY SMTT(30)
  <2> QED BY <2>1, <2>2, Zenon DEF RxOk
<1>InsertKeeps.
      ASSUME NEW k \in Callis, insert(k)
      PROVE  IInv'
  <2> USE <1>InsertKeeps
  <2> DEFINE f == rx[k].frame
             i == insert_chunk(inbound, f.chunk_id, f.is_last)
             yes == [phase |-> "answer", frame |-> f, outcome |-> i.outcome]
             no == [phase |-> "refused", frame |-> f, err |-> i.outcome]
  <2>1. /\ rx[k].phase = "found" /\ inbound' = i.ring
        /\ rx' = [rx EXCEPT ![k] = IF i.outcome \in {"Duplicate", "Stored", "Complete"}
                                   THEN yes ELSE no]
        /\ UNCHANGED <<svars, net, active, recent, receiver, write_slots, lanes, reaper, reader>>
    BY Zenon DEF insert
  <2>2. Good(f, ring, next_id)
    BY <2>1, <1>HandlerFrame, Zenon
  <2>3. CanInsert(inbound, ring, f.chunk_id, f.is_last)
    BY <2>2, Before, Zenon DEF CanInsert, Both, RingOk, Books, RingType, Good, Frame
  <2>4. Inserted(inbound, ring, f.chunk_id, i.ring, i.outcome)
    BY <2>3, Zenon DEF Rules, RingRules, InsertRule
  <2> HIDE DEF f, i
  <2>5. Took(inbound, ring, inbound')
    BY <2>1, <2>4, ZenonT(30) DEF Inserted, Took
  <2>6. /\ UNCHANGED svars /\ ring' = ring /\ net' = net /\ active' = active /\ recent' = recent
        /\ receiver' = receiver /\ write_slots' = write_slots /\ lanes' = lanes
        /\ reaper' = reaper /\ reader' = reader
    BY <2>1 DEF svars
  <2>7. i.outcome \in Stored => RxOk(yes, ring, next_id, inbound')
    <3>1. i.outcome \in Stored => i.outcome \in Outcomes
      BY DEF Stored, Outcomes
    <3>2. i.outcome \in Stored => f.chunk_id \in Taken(inbound') /\ (i.outcome = "Complete" => Whole(ring, inbound'))
      BY <2>1, <2>4, Zenon DEF Inserted
    <3> QED BY <2>2, <3>1, <3>2, <1>HandlerPhases, Zenon
  <2>8. i.outcome \notin Stored => RxOk(no, ring, next_id, inbound')
    <3>1. i.outcome \notin Stored => i.outcome \in Errors
      <4>1. i.outcome \in Stored \cup Refusals
        BY <2>4, Zenon DEF Inserted
      <4> QED BY <4>1 DEF Refusals, Errors
    <3> QED BY <2>2, <3>1, <1>HandlerPhases, Zenon
  <2> HIDE DEF yes, no
  <2>9. Changed(rx', rx, k) /\ rx'[k] = IF i.outcome \in Stored THEN yes ELSE no
    BY <2>1, Before, ChangedAt, Zenon DEF Stored
  <2>10. RxOk(rx'[k], ring, next_id, inbound')
    BY <2>7, <2>8, <2>9
  <2>11. Travel(tx, rx', net', write_slots', ring, next_id, inbound')
    <3>1. Travel(tx, rx, net, write_slots, ring, next_id, inbound')
      BY <2>5, Before, InboundMoves, TravelOn, Zenon DEF Now
    <3>2. Travel(tx, rx', net, write_slots, ring, next_id, inbound')
      BY <2>9, <2>10, <3>1, TravelRx, Zenon
    <3> QED BY <2>6, <3>2
  <2>12. ReaderOk' /\ LanesOk(lanes')
    BY <2>6 DEF IInv, ReaderOk
  <2>13. Failing => Failing'
    <3>1. rx[k].phase # "removed"
      BY <2>1
    <3> QED BY <2>6, <2>9, <3>1, <1>FailingKept, Zenon
  <2>14. /\ active' \/ ~active
         /\ reader'.pc \in Past => ~active'
         /\ EndRead' => EndRead
    BY <2>6 DEF IInv, EndOk, ReaderOk, EndRead
  <2>15. EndOk'
    BY <2>5, <2>6, <2>13, <2>14, EndKept, Zenon
  <2> QED BY <2>5, <2>6, <2>11, <2>12, <2>15, ReceiverSide
<1>RemoveKeeps.
      ASSUME NEW k \in Callis, remove_recv_stream(k)
      PROVE  IInv'
  <2> USE <1>RemoveKeeps
  <2> DEFINE f == rx[k].frame
             err == rx[k].err
  <2>1. /\ rx[k].phase = "refused" /\ active' = FALSE
        /\ rx' = [rx EXCEPT ![k].phase = "removed"]
        /\ UNCHANGED <<svars, net, inbound, recent, receiver, write_slots, lanes, reaper, reader>>
    BY DEF remove_recv_stream
  <2>2. /\ Good(f, ring, next_id) /\ err \in Errors
        /\ rx[k] = [phase |-> rx[k].phase, frame |-> f, err |-> err]
    BY <2>1, <1>HandlerFrame
  <2>3. rx' = [rx EXCEPT ![k] = [phase |-> "removed", frame |-> f, err |-> err]]
    <3>1. [rx[k] EXCEPT !.phase = "removed"] = [phase |-> "removed", frame |-> f, err |-> err]
      BY <2>2
    <3> QED BY <2>1, <3>1, Zenon
  <2> HIDE DEF f, err
  <2>4. Changed(rx', rx, k) /\ rx'[k] = [phase |-> "removed", frame |-> f, err |-> err]
    BY <2>3, Before, ChangedAt, Zenon
  <2>5. RxOk(rx'[k], ring, next_id, inbound) /\ rx'[k].phase = "removed"
    <3>1. RxOk([phase |-> "removed", frame |-> f, err |-> err], ring, next_id, inbound)
      BY <2>2, <1>HandlerPhases, Zenon
    <3> QED BY <2>4, <3>1
  <2>6. /\ UNCHANGED svars /\ ring' = ring /\ net' = net /\ inbound' = inbound /\ recent' = recent
        /\ receiver' = receiver /\ write_slots' = write_slots /\ lanes' = lanes
        /\ reaper' = reaper /\ reader' = reader
    BY <2>1 DEF svars
  <2>7. Travel(tx, rx', net', write_slots', ring, next_id, inbound')
    <3>1. Travel(tx, rx', net, write_slots, ring, next_id, inbound)
      BY <2>4, <2>5, Before, TravelRx, Zenon DEF Now
    <3> QED BY <2>6, <3>1
  <2>8. Took(inbound, ring, inbound') /\ LanesOk(lanes')
    BY <2>6, TookNothing DEF IInv
  <2>9. ReaderOk'
    BY <2>1, <2>6, Zenon DEF IInv, ReaderOk
  <2>10. Failing'
    BY <2>5 DEF Failing
  <2>11. EndOk'
    <3>1. ~active'
      BY <2>1
    <3>2. EndRead' => EndRead
      BY <2>6 DEF EndRead
    <3> QED BY <2>6, <2>8, <2>10, <3>1, <3>2, EndKept, Zenon
  <2> QED BY <2>6, <2>7, <2>8, <2>9, <2>11, ReceiverSide
\* A handler has queued its responses.
<1>ResponseMoves.
      ASSUME NEW k \in Callis, UNCHANGED <<svars, net, active, inbound, recent, reaper, reader>>,
             rx' = [rx EXCEPT ![k] = [phase |-> "idle"]],
             Travel(tx, rx, net, write_slots', ring, next_id, inbound), LanesOk(lanes'),
             ReceiverOk(receiver'), receiver.error # "none" => receiver'.error # "none",
             rx[k].phase = "removed" => receiver'.error # "none"
      PROVE  IInv'
  <2> USE <1>ResponseMoves
  <2>1. /\ UNCHANGED svars /\ ring' = ring /\ net' = net /\ inbound' = inbound /\ recent' = recent
        /\ active' = active /\ reaper' = reaper /\ reader' = reader
    BY DEF svars
  <2>2. Changed(rx', rx, k) /\ rx'[k] = [phase |-> "idle"]
    BY Before, ChangedAt, Zenon
  <2>3. RxOk(rx'[k], ring, next_id, inbound)
    BY <2>2, Zenon DEF RxOk
  <2>4. Travel(tx, rx', net', write_slots', ring, next_id, inbound')
    <3>1. Travel(tx, rx', net, write_slots', ring, next_id, inbound)
      BY <2>2, <2>3, TravelRx, Zenon
    <3> QED BY <2>1, <3>1
  <2>5. Took(inbound, ring, inbound')
    BY <2>1, TookNothing DEF IInv
  <2>6. ReaderOk'
    BY <2>1 DEF IInv, ReaderOk
  <2>7. Failing => Failing'
    <3>1. CASE rx[k].phase = "removed"
      BY <3>1 DEF Failing
    <3>2. CASE rx[k].phase # "removed"
      BY <2>1, <2>2, <3>2, <1>FailingKept, ZenonT(30)
    <3> QED BY <3>1, <3>2, ZenonT(30)
  <2>8. /\ active' \/ ~active \/ is_complete(inbound') \/ Failing'
        /\ reader'.pc \in Past => ~active'
        /\ EndRead' => EndRead
    BY <2>1 DEF IInv, EndOk, ReaderOk, EndRead
  <2>9. EndOk'
    BY <2>1, <2>5, <2>7, <2>8, EndKept, ZenonT(30)
  <2> QED BY <2>1, <2>4, <2>5, <2>6, <2>9, ReceiverSide, ZenonT(30)
\* The answers a handler gives.
<1>AnswersAre.
      ASSUME NEW r, NEW n, NEW q, NEW id \in Nat
      PROVE  /\ \A err \in Errors : Answered([kind |-> "Error", id |-> id, err |-> err], r, n, q)
             /\ AckOk(id, r, n, q) => Answered([kind |-> "Ack", id |-> id], r, n, q)
             /\ Whole(r, q) => Answered([kind |-> "Complete", id |-> id], r, n, q)
  <2> USE <1>AnswersAre
  <2>1. ASSUME NEW err \in Errors PROVE Answered([kind |-> "Error", id |-> id, err |-> err], r, n, q)
    BY DEF Answered, Answers
  <2>2. AckOk(id, r, n, q) => Answered([kind |-> "Ack", id |-> id], r, n, q)
    BY ZenonT(30) DEF Answered, Answers
  <2>3. Whole(r, q) => Answered([kind |-> "Complete", id |-> id], r, n, q)
    BY DEF Answered, Answers
  <2> QED BY <2>1, <2>2, <2>3, ZenonT(30)
\* enqueue_blob_write in the present state.
<1>EnqueueNow.
      ASSUME Numbers, NEW f, Answered(f, ring, next_id, inbound), enqueue_blob_write(f)
      PROVE  Travel(tx, rx, net, write_slots', ring, next_id, inbound) /\ LanesOk(lanes')
  <2> USE <1>EnqueueNow
  <2> DEFINE e == Enqueued(write_slots, lanes, f)
  <2>1. write_slots' = e.slots /\ lanes' = e.lanes
    BY DEF enqueue_blob_write
  <2>2. Travel(tx, rx, net, e.slots, ring, next_id, inbound) /\ LanesOk(e.lanes)
    BY Before, <1>EnqueuedOk, Zenon DEF Now, IInv
  <2> HIDE DEF e
  <2> QED BY <2>1, <2>2
<1>FailReceiverKeeps.
      ASSUME NEW k \in Callis, fail_receiver(k)
      PROVE  IInv'
  <2> USE <1>FailReceiverKeeps
  <2> DEFINE a == [kind |-> "Error", id |-> rx[k].frame.id, err |-> rx[k].err]
  <2>1. /\ rx[k].phase = "removed" /\ receiver' = Failed(rx[k].err)
        /\ enqueue_blob_write(a)
        /\ rx' = [rx EXCEPT ![k] = [phase |-> "idle"]]
        /\ UNCHANGED <<svars, net, active, inbound, recent, reaper, reader>>
    BY DEF fail_receiver
  <2>2. Good(rx[k].frame, ring, next_id) /\ rx[k].err \in Errors
    BY <2>1, <1>HandlerFrame, ZenonT(30)
  <2>3. rx[k].frame.id \in Nat
    BY <2>2 DEF Good, Frame
  <2>4. Answered(a, ring, next_id, inbound)
    BY <2>2, <2>3, <1>AnswersAre, Zenon
  <2> HIDE DEF a
  <2>5. Travel(tx, rx, net, write_slots', ring, next_id, inbound) /\ LanesOk(lanes')
    BY <2>1, <2>4, <1>EnqueueNow, Zenon DEF Rules
  <2>6. ReceiverOk(receiver') /\ receiver'.error # "none"
    BY <2>1, <2>2, FailedIs
  <2> QED BY <2>1, <2>5, <2>6, <1>ResponseMoves, ZenonT(30)
<1>RespondKeeps.
      ASSUME NEW k \in Callis, respond_with_blob(k)
      PROVE  IInv'
  <2> USE <1>RespondKeeps
  <2> DEFINE id == rx[k].frame.id
             outcome == rx[k].outcome
             ack == [kind |-> "Ack", id |-> id]
  <2>1. /\ rx[k].phase = "answer"
        /\ rx' = [rx EXCEPT ![k] = [phase |-> "idle"]]
        /\ UNCHANGED <<svars, net, active, inbound, recent, reaper, reader>>
    BY DEF respond_with_blob
  <2>2. /\ Good(rx[k].frame, ring, next_id) /\ outcome \in Outcomes
        /\ outcome # "BlobStreamNotFound" => rx[k].frame.chunk_id \in Taken(inbound)
        /\ outcome = "Complete" => Whole(ring, inbound)
    BY <2>1, <1>HandlerFrame, ZenonT(30)
  <2>3. id \in Nat /\ (outcome # "BlobStreamNotFound" => AckOk(id, ring, next_id, inbound))
    <3>1. id \in Nat
      BY <2>2, Zenon DEF Good, Frame
    <3> QED BY <2>2, <3>1, ZenonT(30) DEF Good, AckOk
  <2>4. /\ outcome = "BlobStreamNotFound" =>
             /\ enqueue_blob_write([kind |-> "Error", id |-> id, err |-> outcome])
             /\ receiver' = receiver
        /\ outcome = "Complete" =>
             /\ receiver' = [receiver EXCEPT !.completed = TRUE, !.notified = TRUE]
             /\ \E g \in FinishIds :
                  LET e == Enqueued(write_slots, lanes, ack)
                      c == Enqueued(e.slots, e.lanes, [kind |-> "Complete", id |-> g])
                  IN  write_slots' = c.slots /\ lanes' = c.lanes
        /\ outcome \notin {"BlobStreamNotFound", "Complete"} =>
             /\ receiver' = [receiver EXCEPT !.notified = @ \/ outcome # "RecentlyCompleted"]
             /\ enqueue_blob_write(ack)
    BY DEF respond_with_blob
  <2> HIDE DEF outcome
  <2>5. ReceiverOk(receiver)
    BY DEF IInv, ReaderOk
  <2>6. rx[k].phase # "removed"
    BY <2>1
  <2>7. CASE outcome = "BlobStreamNotFound"
    <3>1. outcome \in Errors
      BY <2>7 DEF Errors
    <3>2. Answered([kind |-> "Error", id |-> id, err |-> outcome], ring, next_id, inbound)
      BY <2>3, <3>1, <1>AnswersAre, Zenon
    <3>3. Travel(tx, rx, net, write_slots', ring, next_id, inbound) /\ LanesOk(lanes')
      BY <2>4, <2>7, <3>2, <1>EnqueueNow, Zenon DEF Rules
    <3>4. ReceiverOk(receiver') /\ (receiver.error # "none" => receiver'.error # "none")
      BY <2>4, <2>5, <2>7
    <3> QED BY <2>1, <2>6, <3>3, <3>4, <1>ResponseMoves, Zenon
  <2>8. CASE outcome = "Complete"
    <3>1. Answered(ack, ring, next_id, inbound)
      BY <2>3, <2>8, <1>AnswersAre, Zenon
    <3>2. PICK g \in FinishIds :
            LET e == Enqueued(write_slots, lanes, ack)
                c == Enqueued(e.slots, e.lanes, [kind |-> "Complete", id |-> g])
            IN  write_slots' = c.slots /\ lanes' = c.lanes
      BY <2>4, <2>8, Zenon
    <3> DEFINE e == Enqueued(write_slots, lanes, ack)
               fin == [kind |-> "Complete", id |-> g]
               c == Enqueued(e.slots, e.lanes, fin)
    <3>3. Answered(fin, ring, next_id, inbound)
      <4>1. g \in Nat
        BY TransferAssumption
      <4> QED BY <2>2, <2>8, <4>1, <1>AnswersAre, Zenon
    <3>4. Travel(tx, rx, net, e.slots, ring, next_id, inbound) /\ LanesOk(e.lanes)
      BY <3>1, Before, <1>EnqueuedOk, Zenon DEF Now, IInv, Rules
    <3> HIDE DEF e, fin
    <3>5. Travel(tx, rx, net, c.slots, ring, next_id, inbound) /\ LanesOk(c.lanes)
      BY <3>3, <3>4, <1>EnqueuedOk, ZenonT(30) DEF Rules
    <3>6. write_slots' = c.slots /\ lanes' = c.lanes
      BY <3>2, ZenonT(30) DEF e, fin
    <3> HIDE DEF c
    <3>7. receiver' = [receiver EXCEPT !.completed = TRUE, !.notified = TRUE]
      BY <2>4, <2>8, Zenon
    <3>8. ReceiverOk(receiver') /\ (receiver.error # "none" => receiver'.error # "none")
      BY <2>5, <3>7, Zenon DEF ReceiverOk
    <3>9. Travel(tx, rx, net, write_slots', ring, next_id, inbound) /\ LanesOk(lanes')
      BY <3>5, <3>6, ZenonT(30)
    <3> QED BY <2>1, <2>6, <3>8, <3>9, <1>ResponseMoves, Zenon
  <2>9. CASE outcome \notin {"BlobStreamNotFound", "Complete"}
    <3>1. Answered(ack, ring, next_id, inbound)
      BY <2>3, <2>9, <1>AnswersAre, Zenon
    <3>2. enqueue_blob_write(ack) /\ receiver' = [receiver EXCEPT !.notified = @ \/ outcome # "RecentlyCompleted"]
      BY <2>4, <2>9, Zenon
    <3> HIDE DEF ack
    <3>3. Travel(tx, rx, net, write_slots', ring, next_id, inbound) /\ LanesOk(lanes')
      BY <3>1, <3>2, <1>EnqueueNow, Zenon DEF Rules
    <3>4. ReceiverOk(receiver') /\ (receiver.error # "none" => receiver'.error # "none")
      BY <2>5, <3>2 DEF ReceiverOk
    <3> QED BY <2>1, <2>6, <3>3, <3>4, <1>ResponseMoves, Zenon
  <2> QED BY <2>7, <2>8, <2>9
\* The reaper takes the stream out of the table.
<1>ExpireKeeps.
      ASSUME expire_recv_streams
      PROVE  IInv'
  <2> USE <1>ExpireKeeps
  <2>1. /\ ~active' /\ active' \in BOOLEAN /\ reaper' = "removed"
        /\ UNCHANGED svars /\ ring' = ring /\ net' = net /\ inbound' = inbound /\ recent' = recent
        /\ receiver' = receiver /\ rx' = rx /\ write_slots' = write_slots /\ lanes' = lanes
        /\ reader' = reader
    BY Zenon DEF expire_recv_streams, svars
  <2>2. Took(inbound, ring, inbound') /\ LanesOk(lanes')
    BY <2>1, TookNothing, ZenonT(30) DEF IInv
  <2>3. Travel(tx, rx', net', write_slots', ring, next_id, inbound')
    BY <2>1, Before DEF Now
  <2>4. ReaderOk'
    BY <2>1 DEF IInv, ReaderOk
  <2>5. Failing'
    BY <2>1 DEF Failing
  <2>6. EndRead' => EndRead
    BY <2>1 DEF EndRead
  <2>7. EndOk'
    BY <2>1, <2>2, <2>5, <2>6, EndKept
  <2> QED BY <2>1, <2>2, <2>3, <2>4, <2>7, ReceiverSide
\* The reaper fails the stream it took out.
<1>ReaperFailsKeeps.
      ASSUME reaper_fails_receiver
      PROVE  IInv'
  <2> USE <1>ReaperFailsKeeps
  <2> DEFINE err == "BlobStreamIdleTimeout"
             a == [kind |-> "Error", id |-> StreamId, err |-> err]
  <2>1. /\ receiver' = Failed(err) /\ enqueue_blob_write(a) /\ reaper' = "idle"
        /\ UNCHANGED svars /\ ring' = ring /\ net' = net /\ inbound' = inbound /\ recent' = recent
        /\ active' = active /\ rx' = rx /\ reader' = reader
    BY DEF reaper_fails_receiver, svars
  <2>2. err \in Errors /\ StreamId \in Nat
    BY DEF Errors, StreamId
  <2> HIDE DEF err
  <2>3. Answered(a, ring, next_id, inbound)
    BY <2>2, <1>AnswersAre, Zenon
  <2> HIDE DEF a
  <2>4. Travel(tx, rx, net, write_slots', ring, next_id, inbound) /\ LanesOk(lanes')
    BY <2>1, <2>3, <1>EnqueueNow, Zenon DEF Rules
  <2>5. Travel(tx, rx', net', write_slots', ring, next_id, inbound')
    BY <2>1, <2>4
  <2>6. Took(inbound, ring, inbound')
    BY <2>1, TookNothing DEF IInv
  <2>7. ReceiverOk(receiver') /\ receiver'.error # "none"
    BY <2>1, <2>2, FailedIs, ZenonT(30)
  <2>8. ReaderOk'
    BY <2>1, <2>7 DEF IInv, ReaderOk
  <2>9. Failing'
    BY <2>7 DEF Failing
  <2>10. /\ reader'.pc \in Past => ~active'
         /\ EndRead' => EndRead
    BY <2>1 DEF IInv, EndOk, EndRead
  <2>11. EndOk'
    BY <2>1, <2>6, <2>9, <2>10, EndKept
  <2> QED BY <2>1, <2>4, <2>5, <2>6, <2>8, <2>11, ReceiverSide, ZenonT(30)
<1>1. ASSUME NEW k \in Callis,
             \/ write_response(k) \/ rollback_response(k) \/ receiver_callis_closed(k)
             \/ recv_chunk_state(k) \/ insert(k) \/ remove_recv_stream(k)
             \/ fail_receiver(k) \/ respond_with_blob(k)
      PROVE  IInv'
  BY <1>1, <1>WriteResponseKeeps, <1>RollbackResponseKeeps, <1>ReceiverClosedKeeps, <1>RecvChunkKeeps,
     <1>InsertKeeps, <1>RemoveKeeps, <1>FailReceiverKeeps, <1>RespondKeeps, Zenon
<1> QED BY <1>1, <1>ExpireKeeps, <1>ReaperFailsKeeps, ForgetKeeps, ZenonT(30) DEF Receiving

\* and every step of the reader.
LEMMA ReadingKeeps ==
  ASSUME IInv, Rules, Reading
  PROVE  IInv'
\* The same when the inbound ring and the table stay as they are.
<1>LookMoves.
      ASSUME UNCHANGED <<rest, active, inbound, recent>>,
             ReceiverOk(receiver'), receiver.error # "none" => receiver'.error # "none",
             reader' = [pc |-> reader'.pc, armed |-> reader'.armed, read |-> reader'.read],
             reader'.pc \in Places, reader'.pc # "ending", reader'.pc \in Past => ~active
      PROVE  IInv'
  <2> USE <1>LookMoves
  <2>1. UNCHANGED rest /\ active' = active /\ inbound' = inbound /\ recent' = recent
    OBVIOUS
  <2>2. Took(inbound, ring, inbound')
    BY <2>1, TookNothing DEF IInv
  <2>3. active' \in BOOLEAN /\ recent' \in BOOLEAN /\ (active' \/ ~active)
    BY <2>1 DEF IInv, ReaderOk
  <2>4. EndRead' => EndRead \/ Whole(ring, inbound)
    BY <2>1 DEF EndRead
  <2>5. reader'.pc \in Past => ~active'
    BY <2>1
  <2> QED BY <2>1, <2>2, <2>3, <2>4, <2>5, ReaderMoves
\* Goto moves the reader, Nothing arms or parks it.
<1>GotoIs.
      ASSUME NEW p \in Places, Goto(p)
      PROVE  /\ reader' = [pc |-> reader'.pc, armed |-> reader'.armed, read |-> reader'.read]
             /\ reader'.pc = p
  BY <1>GotoIs DEF IInv, ReaderOk, Goto
<1>NothingIs.
      ASSUME Nothing
      PROVE  /\ reader' = [pc |-> reader'.pc, armed |-> reader'.armed, read |-> reader'.read]
             /\ reader'.pc \in {"wait", "check"}
             /\ ReceiverOk(receiver') /\ receiver'.error = receiver.error
  <2> USE <1>NothingIs
  <2>1. CASE reader.armed
    <3>1. Goto("wait") /\ receiver' = receiver
      BY <2>1 DEF Nothing
    <3>2. "wait" \in Places
      BY DEF Places
    <3> QED BY <3>1, <3>2, <1>GotoIs DEF IInv, ReaderOk
  <2>2. CASE ~reader.armed
    <3>1. /\ reader' = [reader EXCEPT !.pc = "check", !.armed = TRUE]
          /\ receiver' = [receiver EXCEPT !.notified = FALSE]
      BY <2>2 DEF Nothing
    <3>2. /\ reader = [pc |-> reader.pc, armed |-> reader.armed, read |-> reader.read]
          /\ receiver = [completed |-> receiver.completed, error |-> receiver.error,
                         notified |-> receiver.notified]
          /\ receiver.error \in Errors \cup {"none"}
      BY DEF IInv, ReaderOk, ReceiverOk
    <3>3. reader' = [pc |-> "check", armed |-> TRUE, read |-> reader.read]
      BY <3>1, <3>2, Zenon
    <3>4. receiver' = [completed |-> receiver.completed, error |-> receiver.error, notified |-> FALSE]
      BY <3>1, <3>2, Zenon
    <3> QED BY <3>2, <3>3, <3>4 DEF ReceiverOk
  <2> QED BY <2>1, <2>2
<1>CheckErrorKeeps.
      ASSUME check_error \/ ring_gone \/ check_error_again \/ drop_receiver
      PROVE  IInv'
  <2> USE <1>CheckErrorKeeps
  <2>1. /\ UNCHANGED <<rest, active, inbound, recent>> /\ receiver' = receiver
        /\ \/ Goto("error") \/ Goto("ring") \/ Goto("dropped") \/ Goto("dropping")
           \/ (Goto("gone") /\ ~active)
           \/ (Goto("completed") /\ reader.pc = "gone")
    BY DEF check_error, ring_gone, check_error_again, drop_receiver
  <2>2. PICK p : /\ p \in {"error", "ring", "dropped", "dropping", "gone", "completed"}
                 /\ Goto(p) /\ (p \in {"gone", "completed"} => ~active)
    BY <2>1 DEF IInv, EndOk, Past
  <2>3. p \in Places /\ p # "ending" /\ (p \in Past => ~active)
    BY <2>2 DEF Places, Past
  <2>4. /\ reader' = [pc |-> reader'.pc, armed |-> reader'.armed, read |-> reader'.read]
        /\ reader'.pc = p
    BY <2>2, <2>3, <1>GotoIs
  <2>5. ReceiverOk(receiver') /\ receiver'.error = receiver.error
    BY <2>1 DEF IInv, ReaderOk
  <2> QED BY <2>1, <2>3, <2>4, <2>5, <1>LookMoves
<1>CheckCompletedKeeps.
      ASSUME check_completed
      PROVE  IInv'
  <2> USE <1>CheckCompletedKeeps
  <2>1. /\ UNCHANGED <<rest, active, inbound, recent>> /\ reader.pc = "completed"
        /\ (Goto("eof") /\ receiver' = receiver) \/ Nothing
    BY DEF check_completed
  <2>2. ~active
    BY <2>1 DEF IInv, EndOk, Past
  <2>3. CASE Nothing
    <3>1. /\ reader' = [pc |-> reader'.pc, armed |-> reader'.armed, read |-> reader'.read]
          /\ reader'.pc \in {"wait", "check"}
          /\ ReceiverOk(receiver') /\ receiver'.error = receiver.error
      BY <2>3, <1>NothingIs
    <3>2. reader'.pc \in Places /\ reader'.pc # "ending"
      BY <3>1 DEF Places
    <3> QED BY <2>1, <2>2, <3>1, <3>2, <1>LookMoves
  <2>4. CASE Goto("eof") /\ receiver' = receiver
    <3>1. "eof" \in Places
      BY DEF Places
    <3>2. /\ reader' = [pc |-> reader'.pc, armed |-> reader'.armed, read |-> reader'.read]
          /\ reader'.pc = "eof"
      BY <2>4, <3>1, <1>GotoIs
    <3>3. ReceiverOk(receiver') /\ receiver'.error = receiver.error
      BY <2>4 DEF IInv, ReaderOk
    <3> QED BY <2>1, <2>2, <3>1, <3>2, <3>3, <1>LookMoves
  <2> QED BY <2>1, <2>3, <2>4
<1>WokenKeeps.
      ASSUME woken
      PROVE  IInv'
  <2> USE <1>WokenKeeps
  <2>1. /\ UNCHANGED <<rest, active, inbound, recent>> /\ receiver' = receiver
        /\ reader' = [reader EXCEPT !.pc = "check", !.armed = FALSE]
    BY DEF woken
  <2>2. reader = [pc |-> reader.pc, armed |-> reader.armed, read |-> reader.read]
    BY DEF IInv, ReaderOk
  <2>3. reader' = [pc |-> "check", armed |-> FALSE, read |-> reader.read]
    BY <2>1, <2>2, ZenonT(30)
  <2>4. /\ reader' = [pc |-> reader'.pc, armed |-> reader'.armed, read |-> reader'.read]
        /\ reader'.pc \in Places /\ reader'.pc # "ending" /\ reader'.pc \notin Past
    BY <2>3 DEF Places, Past
  <2>5. ReceiverOk(receiver') /\ receiver'.error = receiver.error
    BY <2>1 DEF IInv, ReaderOk
  <2> QED BY <2>1, <2>4, <2>5, <1>LookMoves
\* The reader fails the stream itself: its wait or its life has ended.
<1>ReaderFailsKeeps.
      ASSUME read_times_out \/ drop_fails_receiver
      PROVE  IInv'
  <2> USE <1>ReaderFailsKeeps
  <2>1. PICK err \in Errors, p \in {"error", "dropped"} :
          receiver' = Failed(err) /\ Goto(p) /\ ~active' /\ active' \in BOOLEAN
            /\ UNCHANGED <<rest, inbound, recent>>
    <3>1. /\ "BlobStreamIdleTimeout" \in Errors /\ "PeerUnavailable" \in Errors
          /\ "error" \in {"error", "dropped"} /\ "dropped" \in {"error", "dropped"}
      BY DEF Errors
    <3>2. FALSE \in BOOLEAN /\ ~FALSE
      OBVIOUS
    <3>3. CASE read_times_out
      BY <3>1, <3>2, <3>3, Zenon DEF read_times_out
    <3>4. CASE drop_fails_receiver
      BY <3>1, <3>2, <3>4, Zenon DEF drop_fails_receiver
    <3> QED BY <3>3, <3>4
  <2>2. UNCHANGED rest /\ inbound' = inbound /\ recent' = recent
    BY <2>1
  <2>3. ReceiverOk(receiver') /\ receiver'.error # "none"
    BY <2>1, FailedIs
  <2>4. p \in Places
    BY <2>1 DEF Places
  <2>5. /\ reader' = [pc |-> reader'.pc, armed |-> reader'.armed, read |-> reader'.read]
        /\ reader'.pc = p
    BY <2>1, <2>4, <1>GotoIs
  <2>6. Took(inbound, ring, inbound')
    BY <2>2, TookNothing DEF IInv
  <2>7. recent' \in BOOLEAN /\ (EndRead' => EndRead \/ Whole(ring, inbound))
    BY <2>1, <2>2, <2>5 DEF IInv, ReaderOk, EndRead
  <2>8. reader'.pc \in Places
    BY <2>4, <2>5
  <2> QED BY <2>1, <2>2, <2>3, <2>5, <2>6, <2>7, <2>8, ReaderMoves, ZenonT(30)
\* A ring that has delivered its last chunk has had them all.
<1>CompleteIsWhole.
      ASSUME NEW q, NEW r, InboundOk(q, r), r.next_chunk_id \in Nat, is_complete(q)
      PROVE  Whole(r, q)
  <2> USE <1>CompleteIsWhole
  <2>1. AllMade(r) /\ q.last_chunk_id = r.next_chunk_id - 1
    BY DEF InboundOk, is_complete
  <2>2. r.next_chunk_id # 0 /\ q.next_expected = r.next_chunk_id
    BY <2>1 DEF InboundOk, is_complete, NoChunk
  <2> QED BY <2>1, <2>2 DEF Whole
<1>ReadRingKeeps.
      ASSUME read_ring
      PROVE  IInv'
  <2> USE <1>ReadRingKeeps
  <2>1. InboundOk(inbound, ring) /\ ring.next_chunk_id \in Nat /\ ReceiverOk(receiver)
    BY Zenon DEF IInv, RingOk, Books, RingType, ReaderOk
  <2>2. UNCHANGED rest /\ active
    BY DEF read_ring
  <2>3. CASE CanTake(inbound)
    <3>1. /\ inbound' = take_next(inbound)
          /\ reader' = [pc |-> "check", armed |-> FALSE,
                        read |-> Append(reader.read, inbound.next_deliver)]
          /\ active' = active /\ recent' = recent /\ receiver' = receiver
      BY <2>3 DEF read_ring
    <3>2. Took(inbound, ring, inbound')
      BY <2>3, <3>1, Zenon DEF Rules, RingRules, TakeRule
    <3>3. /\ reader' = [pc |-> reader'.pc, armed |-> reader'.armed, read |-> reader'.read]
          /\ reader'.pc = "check" /\ reader'.pc \in Places /\ reader'.pc \notin Past
      BY <3>1 DEF Places, Past
    <3>4. active' \in BOOLEAN /\ recent' \in BOOLEAN
      BY <3>1 DEF IInv, ReaderOk
    <3>5. /\ EndRead' => EndRead \/ Whole(ring, inbound)
          /\ active' \/ ~active
          /\ reader'.pc \in Past => ~active'
          /\ ReceiverOk(receiver') /\ (receiver.error # "none" => receiver'.error # "none")
      BY <2>1, <3>1, <3>3 DEF EndRead
    <3> QED BY <2>2, <3>2, <3>3, <3>4, <3>5, ReaderMoves, ZenonT(30)
  <2>4. CASE ~CanTake(inbound) /\ receiver.completed /\ is_complete(inbound)
    <3>1. /\ ~active' /\ active' \in BOOLEAN /\ recent' = recent
          /\ Goto("ending") /\ inbound' = inbound /\ receiver' = receiver
      BY <2>4, Zenon DEF read_ring
    <3>2. Whole(ring, inbound)
      BY <2>1, <2>4, <1>CompleteIsWhole
    <3>3. "ending" \in Places /\ recent' \in BOOLEAN
      BY <3>1 DEF IInv, ReaderOk, Places
    <3>4. /\ reader' = [pc |-> reader'.pc, armed |-> reader'.armed, read |-> reader'.read]
          /\ reader'.pc \in Places
      BY <3>1, <3>3, <1>GotoIs
    <3>5. Took(inbound, ring, inbound') /\ is_complete(inbound')
      BY <2>1, <2>4, <3>1, TookNothing
    <3>6. ReceiverOk(receiver') /\ (receiver.error # "none" => receiver'.error # "none")
      BY <2>1, <3>1
    <3> QED BY <2>2, <3>1, <3>2, <3>3, <3>4, <3>5, <3>6, ReaderMoves
  <2>5. CASE ~CanTake(inbound) /\ ~(receiver.completed /\ is_complete(inbound))
    <3>1. Nothing /\ UNCHANGED <<rest, active, inbound, recent>>
      BY <2>5, Zenon DEF read_ring
    <3>2. /\ reader' = [pc |-> reader'.pc, armed |-> reader'.armed, read |-> reader'.read]
          /\ reader'.pc \in {"wait", "check"}
          /\ ReceiverOk(receiver') /\ receiver'.error = receiver.error
      BY <3>1, <1>NothingIs
    <3>3. reader'.pc \in Places /\ reader'.pc # "ending" /\ reader'.pc \notin Past
      BY <3>2 DEF Places, Past
    <3> QED BY <3>1, <3>2, <3>3, <1>LookMoves
  <2> QED BY <2>3, <2>4, <2>5
<1>NoteCompleteKeeps.
      ASSUME note_recv_complete
      PROVE  IInv'
  <2> USE <1>NoteCompleteKeeps
  <2>1. /\ reader.pc = "ending" /\ Goto("eof") /\ recent' \in BOOLEAN /\ UNCHANGED rest
        /\ active' = active /\ inbound' = inbound /\ receiver' = receiver
    BY Zenon DEF note_recv_complete
  <2>2. EndRead /\ ~active /\ active' \in BOOLEAN /\ ReceiverOk(receiver')
    BY <2>1 DEF IInv, EndOk, ReaderOk, EndRead, Past
  <2>3. "eof" \in Places
    BY DEF Places
  <2>4. /\ reader' = [pc |-> reader'.pc, armed |-> reader'.armed, read |-> reader'.read]
        /\ reader'.pc \in Places
    BY <2>1, <2>3, <1>GotoIs
  <2>5. Took(inbound, ring, inbound')
    BY <2>1, TookNothing DEF IInv
  <2> QED BY <2>1, <2>2, <2>4, <2>5, ReaderMoves
<1> QED BY <1>CheckErrorKeeps, <1>ReadRingKeeps, <1>NoteCompleteKeeps, <1>CheckCompletedKeeps, <1>WokenKeeps,
           <1>ReaderFailsKeeps, ZenonT(30)
        DEF Reading

NextBothWays == Next \/ \E m \in DOMAIN write_slots : own_ack(m)

\* Every step of the two ends and of the callis between them keeps IInv.
LEMMA StepKeeps ==
  ASSUME IInv, Rules, [NextBothWays]_vars
  PROVE  IInv'
BY StutterKeeps, AddCallisKeeps, LoseCallisKeeps, SendingKeeps, ReceivingKeeps, ReadingKeeps,
   OwnAckKeeps, Zenon DEF NextBothWays, Next

=============================================================================
