------------------------ MODULE InboundReceiveProofs ------------------------
(***************************************************************************)
(* Proofs about InboundReceive for every set of ids and callis, every      *)
(* history length and every inbox capacity.                                *)
(*                                                                         *)
(* Progress is what the readers and the inbox keep true whatever the       *)
(* remote replays; Ownership adds what holds as long as no id arrives on a *)
(* callis that already waits for it (SameCallisReplay = FALSE).            *)
(***************************************************************************)
EXTENDS InboundReceive, TLAPS

\* The ids of the requests the application accepted.
Accepted(id) == \E r \in DOMAIN requests : requests[r].id = id /\ requests[r].state = "Accepted"

\* A reader inside a handler reads, and a reader that ended holds nothing.
ReadersInv ==
  \A c \in Callis : /\ begun[c] # None => reader[c] = "open"
                    /\ reader[c] = "done" => \A id \in Ids : waiters[c][id] = None

\* A message waiter waits for a request its own reader created for that id.
MessagesInv ==
  \A c \in Callis, id \in Ids : IsMessage(waiters[c][id]) =>
    LET r == waiters[c][id].req IN
    r \in DOMAIN requests /\ requests[r].id = id /\ requests[r].by = c

\* The inbox holds queued requests, each once.
InboxInv ==
  /\ \A i \in DOMAIN inbox : requests[inbox[i]].state = "Queued"
  /\ \A i, j \in DOMAIN inbox : inbox[i] = inbox[j] => i = j

\* What says "accepted" of an id: an answer, the history, or a decided duplicate.
Says(id) ==
  \/ id \in acked
  \/ id \in Range(order)
  \/ \E c \in Callis : waiters[c][id] = Duplicate("Ack")

AcksInv == \A id \in Ids : Says(id) => Accepted(id)

Progress ==
  TypeOK /\ ReadersInv /\ MessagesInv /\ InboxInv /\ AcksInv /\ DuplicateJoinsPending

Owns(c, id) == begun[c] = id \/ IsMessage(waiters[c][id])

\* An id is tracked until a fresh session has cleared the dedupe state under a
\* delivery of it.
Tracked(id) == id \notin orphaned \cap forgotten

\* A reader that begins a delivery had no waiter for it.
BegunInv == \A c \in Callis : begun[c] # None => waiters[c][begun[c]] = None

\* A tracked id has at most one owner, which is pending and not in the history
\* (unless the history has dropped the id before); an id that is pending and was
\* not orphaned has an owner.
OwnersInv ==
  \A id \in Ids :
    /\ Tracked(id) => \A c, d \in Callis : Owns(c, id) /\ Owns(d, id) => c = d
    /\ Tracked(id) => \A c \in Callis : Owns(c, id) => id \in pending
    /\ id \notin forgotten => \A c \in Callis : Owns(c, id) => id \notin Range(order)
    /\ id \notin orphaned => (id \in pending => \E c \in Callis : Owns(c, id))

\* A request that was not rejected, whose reader lives and whose id was never
\* forgotten, is still waited for or is accepted and in the history.
RequestsInv ==
  \A q \in DOMAIN requests :
    LET id == requests[q].id
        c  == requests[q].by
    IN  requests[q].state # "Rejected" /\ id \notin forgotten /\ reader[c] # "done"
          => \/ waiters[c][id] = Message(q)
             \/ requests[q].state = "Accepted" /\ id \in Range(order)

Ownership == BegunInv /\ OwnersInv /\ RequestsInv /\ RedeliveryOnlyAfterLoss

-----------------------------------------------------------------------------
(* The operators of the model *)

WaiterMaps == [Callis -> [Ids -> Waiters \cup {None}]]

\* The two kinds of waiter are waiters, differ, and carry what they were built from.
LEMMA WaiterKinds ==
  /\ \A n \in Nat : Message(n) \in Waiters /\ IsMessage(Message(n)) /\ Message(n).req = n
  /\ \A d \in Decisions : /\ Duplicate(d) \in Waiters /\ Duplicate(d).decision = d
                          /\ IsDuplicate(Duplicate(d)) /\ ~IsMessage(Duplicate(d))
  /\ ~IsMessage(None) /\ ~IsDuplicate(None)
  /\ \A w \in Waiters : IsMessage(w) => w.req \in Nat /\ w = Message(w.req)
  /\ \A w \in Waiters : IsDuplicate(w) => w.decision \in Decisions /\ w = Duplicate(w.decision)
<1>1. \A n \in Nat : Message(n) \in Waiters /\ Message(n) # None /\ Message(n).kind = "Message"
                     /\ Message(n).req = n
  BY ConstantsAssumption DEF Message, Waiters
<1>2. \A d \in Decisions : Duplicate(d) \in Waiters /\ Duplicate(d) # None
                           /\ Duplicate(d).kind = "Duplicate" /\ Duplicate(d).decision = d
  BY ConstantsAssumption DEF Duplicate, Waiters
<1>3. \A w \in Waiters : w.kind = "Message" => w.req \in Nat /\ w = Message(w.req)
  BY DEF Waiters, Message
<1>4. \A w \in Waiters : w.kind = "Duplicate" => w.decision \in Decisions /\ w = Duplicate(w.decision)
  BY DEF Waiters, Duplicate
<1> QED BY <1>1, <1>2, <1>3, <1>4 DEF IsMessage, IsDuplicate

\* Decide changes only duplicates that still wait for one of the ids.
LEMMA DecideAt ==
  ASSUME NEW w \in WaiterMaps, NEW ids, NEW d \in Decisions
  PROVE  /\ Decide(w, ids, d) \in WaiterMaps
         /\ \A c \in Callis, id \in Ids :
              /\ Decide(w, ids, d)[c][id] =
                   IF id \in ids /\ w[c][id] = Duplicate("none") THEN Duplicate(d) ELSE w[c][id]
              /\ IsMessage(Decide(w, ids, d)[c][id]) <=> IsMessage(w[c][id])
              /\ IsMessage(w[c][id]) => Decide(w, ids, d)[c][id] = w[c][id]
<1>1. Duplicate(d) \in Waiters /\ ~IsMessage(Duplicate(d)) /\ ~IsMessage(Duplicate("none"))
  BY WaiterKinds DEF Decisions
<1>2. \A c \in Callis, id \in Ids :
        Decide(w, ids, d)[c][id] =
          IF id \in ids /\ w[c][id] = Duplicate("none") THEN Duplicate(d) ELSE w[c][id]
  BY DEF Decide
<1>3. Decide(w, ids, d) \in WaiterMaps
  BY <1>1 DEF Decide, WaiterMaps
<1> QED BY <1>1, <1>2, <1>3

\* The history gains at most the id it is told to remember, keeps that id or
\* evicts it, and loses only from its front.
LEMMA RememberAt ==
  ASSUME order \in Seq(Ids \cup {None}), NEW id \in Ids \cup {None}
  PROVE  /\ remember(id) \in Seq(Ids \cup {None})
         /\ Range(remember(id)) \subseteq Range(order) \cup {id}
         /\ id \in Ids => id \in Range(order) \cup Range(remember(id))
<1> DEFINE extended == IF id \in Range(order) \ {None} THEN order ELSE Append(order, id)
           excess   == IF Len(extended) > DedupeLimit THEN Len(extended) - DedupeLimit ELSE 0
<1>1. extended \in Seq(Ids \cup {None})
  OBVIOUS
<1>2. Range(extended) \subseteq Range(order) \cup {id}
  BY DEF Range
<1>3. id \in Ids /\ id \notin Range(order) => Len(extended) > 0 /\ extended[Len(extended)] = id
  OBVIOUS
<1> HIDE DEF extended
<1>4. excess \in Nat /\ excess <= Len(extended) /\ (Len(extended) > 0 => excess < Len(extended))
  BY <1>1, ConstantsAssumption
<1> HIDE DEF excess
<1>5. remember(id) = SubSeq(extended, excess + 1, Len(extended))
  BY DEF remember, extended, excess
<1>6. /\ SubSeq(extended, excess + 1, Len(extended)) \in Seq(Ids \cup {None})
      /\ Len(SubSeq(extended, excess + 1, Len(extended))) = Len(extended) - excess
      /\ \A i \in 1..(Len(extended) - excess) :
           SubSeq(extended, excess + 1, Len(extended))[i] = extended[excess + i]
  BY <1>1, <1>4
<1>7. Range(remember(id)) \subseteq Range(extended)
  BY <1>1, <1>4, <1>5, <1>6 DEF Range
<1>8. Len(extended) > 0 => extended[Len(extended)] \in Range(remember(id))
  <2> SUFFICES ASSUME Len(extended) > 0
               PROVE  extended[Len(extended)] \in Range(remember(id))
    OBVIOUS
  <2>1. Len(extended) - excess \in 1..(Len(extended) - excess)
    BY <1>1, <1>4
  <2>2. remember(id)[Len(extended) - excess] = extended[Len(extended)]
    BY <1>1, <1>4, <1>5, <1>6, <2>1
  <2>3. DOMAIN remember(id) = 1..(Len(extended) - excess)
    BY <1>5, <1>6
  <2> QED BY <2>1, <2>2, <2>3, Zenon DEF Range
<1> QED BY <1>2, <1>3, <1>5, <1>6, <1>7, <1>8

\* What dedupe_complete does to the shared state, seen from outside.
LEMMA CompleteAt ==
  ASSUME order \in Seq(Ids \cup {None}), NEW w \in WaiterMaps, NEW id \in Ids, NEW ok \in BOOLEAN,
         dedupe_complete(w, id, ok)
  PROVE  /\ order' \in Seq(Ids \cup {None})
         /\ Range(order') \subseteq Range(order) \cup (IF ok THEN {id} ELSE {})
         /\ ok => id \in Range(order') \cup forgotten'
         /\ \A x \in Ids : x \in Range(order) => x \in Range(order') \cup forgotten'
         /\ forgotten \subseteq forgotten'
         /\ forgotten' \subseteq forgotten \cup Ids
<1>1. order' = IF ok THEN remember(id) ELSE order
  BY DEF dedupe_complete
<1>2. forgotten' = forgotten \cup ((Range(order) \ Range(order')) \cap Ids)
  BY DEF dedupe_complete, Evict
<1> QED BY <1>1, <1>2, RememberAt

States == {"Queued", "Held", "Accepted", "Rejected"}
Restate(rs, r, st) == [rs EXCEPT ![r].state = st]

\* Deciding, taking or expiring a request changes its state and nothing else.
LEMMA RestateAt ==
  ASSUME NEW rs \in Seq(Requests), NEW r \in DOMAIN rs,
         NEW st \in States
  PROVE  /\ Restate(rs, r, st) \in Seq(Requests)
         /\ Len(Restate(rs, r, st)) = Len(rs) /\ DOMAIN Restate(rs, r, st) = DOMAIN rs
         /\ \A q \in DOMAIN rs :
              /\ Restate(rs, r, st)[q].id = rs[q].id
              /\ Restate(rs, r, st)[q].by = rs[q].by
              /\ Restate(rs, r, st)[q].state = IF q = r THEN st ELSE rs[q].state
<1>1. \A q \in DOMAIN rs : rs[q] \in Requests
  OBVIOUS
<1>2. \A x \in Requests : /\ [x EXCEPT !.state = st] \in Requests
                          /\ [x EXCEPT !.state = st].id = x.id
                          /\ [x EXCEPT !.state = st].by = x.by
                          /\ [x EXCEPT !.state = st].state = st
  BY DEF Requests, States
<1>3. /\ DOMAIN Restate(rs, r, st) = DOMAIN rs
      /\ \A q \in DOMAIN rs :
           Restate(rs, r, st)[q] = IF q = r THEN [rs[q] EXCEPT !.state = st] ELSE rs[q]
  BY DEF Restate
<1>4. \A q \in DOMAIN rs : Restate(rs, r, st)[q] \in Requests
  BY <1>1, <1>2, <1>3
<1> DEFINE t == Restate(rs, r, st)
<1>5. Restate(rs, r, st) = [q \in 1..Len(rs) |-> t[q]] /\ Len(rs) \in Nat /\ DOMAIN rs = 1..Len(rs)
  BY <1>3 DEF Restate
<1>6. \A q \in 1..Len(rs) : t[q] \in Requests
  BY <1>4, <1>5
<1> HIDE DEF t
<1>7. [q \in 1..Len(rs) |-> t[q]] \in Seq(Requests) /\ Len([q \in 1..Len(rs) |-> t[q]]) = Len(rs)
  BY <1>5, <1>6
<1> QED BY <1>1, <1>2, <1>3, <1>5, <1>7, ZenonT(30)

\* Two pieces around a gap, joined.
LEMMA JoinAt ==
  ASSUME NEW S, NEW a \in Seq(S), NEW b \in Seq(S), NEW n \in Nat, NEW i \in 1..n,
         Len(a) = i - 1, Len(b) = n - i
  PROVE  /\ a \o b \in Seq(S)
         /\ Len(a \o b) = n - 1
         /\ \A j \in 1..(n - 1) : (a \o b)[j] = IF j < i THEN a[j] ELSE b[j - (i - 1)]
<1>1. a \o b \in Seq(S) /\ Len(a \o b) = Len(a) + Len(b)
  OBVIOUS
<1>2. \A j \in 1..(Len(a) + Len(b)) : (a \o b)[j] = IF j <= Len(a) THEN a[j] ELSE b[j - Len(a)]
  OBVIOUS
<1> QED BY <1>1, <1>2

\* Removing a position of a sequence closes the gap and keeps the rest.
LEMMA DropAtAt ==
  ASSUME NEW S, NEW s \in Seq(S), NEW i \in DOMAIN s
  PROVE  /\ DropAt(s, i) \in Seq(S) /\ Len(DropAt(s, i)) = Len(s) - 1
         /\ \A j \in 1..(Len(s) - 1) : DropAt(s, i)[j] = IF j < i THEN s[j] ELSE s[j + 1]
<1>1. i \in 1..Len(s) /\ Len(s) \in Nat
  OBVIOUS
<1> DEFINE a == SubSeq(s, 1, i - 1)
           b == SubSeq(s, i + 1, Len(s))
<1>2. a \in Seq(S) /\ Len(a) = i - 1
  BY <1>1
<1>3. b \in Seq(S) /\ Len(b) = Len(s) - i
  BY <1>1
<1>4. \A j \in 1..(i - 1) : a[j] = s[j]
  BY <1>1
<1>5. \A j \in 1..(Len(s) - i) : b[j] = s[i + j]
  BY <1>1
<1>6. DropAt(s, i) = a \o b
  BY DEF DropAt
<1> HIDE DEF a, b
<1>7. /\ a \o b \in Seq(S) /\ Len(a \o b) = Len(s) - 1
      /\ \A j \in 1..(Len(s) - 1) : (a \o b)[j] = IF j < i THEN a[j] ELSE b[j - (i - 1)]
  BY <1>1, <1>2, <1>3, JoinAt, SMTT(30)
<1>8. ASSUME NEW j \in 1..(Len(s) - 1)
      PROVE  IF j < i THEN a[j] = s[j] ELSE b[j - (i - 1)] = s[j + 1]
  <2>1. CASE j < i
    BY <1>1, <1>4, <2>1
  <2>2. CASE ~(j < i)
    <3>1. j - (i - 1) \in 1..(Len(s) - i) /\ i + (j - (i - 1)) = j + 1
      BY <1>1, <2>2
    <3> QED BY <1>5, <2>2, <3>1
  <2> QED BY <2>1, <2>2
<1> QED BY <1>6, <1>7, <1>8

-----------------------------------------------------------------------------
(* Types *)

\* Every action keeps the types.
LEMMA TypeStep ==
  ASSUME TypeOK, [Next]_vars
  PROVE  TypeOK'
<1> USE DEF TypeOK
<1>w. waiters \in WaiterMaps
  BY DEF WaiterMaps
<1>k. /\ \A n \in Nat : Message(n) \in Waiters
      /\ \A d \in Decisions : Duplicate(d) \in Waiters
  BY WaiterKinds
<1>1. ASSUME NEW c \in Callis, NEW id \in Ids, receive_refused(c, id) \/ receive_duplicate(c, id)
      PROVE  TypeOK'
  BY <1>1 DEF receive_refused, receive_duplicate, Answer
<1>2. ASSUME NEW c \in Callis, NEW id \in Ids, receive_pending_duplicate(c, id)
      PROVE  TypeOK'
  BY <1>2, <1>k DEF receive_pending_duplicate, Decisions
<1>3. ASSUME NEW c \in Callis, NEW id \in Ids, receive_new(c, id)
      PROVE  TypeOK'
  BY <1>3 DEF receive_new
<1>4. ASSUME NEW c \in Callis, enqueue(c)
      PROVE  TypeOK'
  <2>1. begun[c] \in Ids /\ Message(Len(requests) + 1) \in Waiters
    BY <1>4, <1>k DEF enqueue
  <2>2. waiters' \in [Callis -> [Ids -> Waiters \cup {None}]]
    BY <1>4, <2>1 DEF enqueue
  <2>3. requests' \in Seq(Requests) /\ Len(requests') = Len(requests) + 1
    BY <1>4, <2>1 DEF enqueue, Requests
  <2>4. inbox' \in Seq(1..Len(requests')) /\ Len(inbox') <= InboxCapacity
    BY <1>4, <2>3, ConstantsAssumption DEF enqueue
  <2>5. begun' \in [Callis -> Ids \cup {None}]
    BY <1>4 DEF enqueue
  <2> QED BY <1>4, <2>2, <2>3, <2>4, <2>5 DEF enqueue
<1>5. ASSUME NEW c \in Callis, enqueue_refused(c)
      PROVE  TypeOK'
  <2>1. begun[c] \in Ids /\ dedupe_complete(waiters, begun[c], FALSE)
    BY <1>5, ZenonT(30) DEF enqueue_refused
  <2>2. order' \in Seq(Ids \cup {None}) /\ forgotten' \subseteq Ids
    BY <2>1, <1>w, CompleteAt, ZenonT(30)
  <2>3. waiters' \in WaiterMaps
    BY <2>1, <1>w, DecideAt DEF dedupe_complete, Decisions
  <2> QED BY <1>5, <2>1, <2>2, <2>3, ZenonT(30) DEF enqueue_refused, dedupe_complete, Answer, WaiterMaps
<1>6. ASSUME NEW c \in Callis, NEW id \in Ids, drain_message_waiter(c, id)
      PROVE  TypeOK'
  <2> DEFINE ok == requests[waiters[c][id].req].state = "Accepted"
  <2>1. Without(c, id) \in WaiterMaps
    BY <1>w DEF Without, WaiterMaps
  <2>2. dedupe_complete(Without(c, id), id, ok) /\ ok \in BOOLEAN
    BY <1>6 DEF drain_message_waiter
  <2>3. order' \in Seq(Ids \cup {None}) /\ forgotten' \subseteq Ids
    BY <2>1, <2>2, CompleteAt, ZenonT(30)
  <2>4. waiters' \in WaiterMaps
    BY <2>1, <2>2, DecideAt DEF dedupe_complete, Decisions
  <2>5. pending' \subseteq Ids /\ acked' \subseteq Ids
    BY <1>6, <2>2, ZenonT(30) DEF drain_message_waiter, dedupe_complete, Answer
  <2> QED BY <1>6, <2>3, <2>4, <2>5 DEF drain_message_waiter, WaiterMaps
<1>7. ASSUME NEW c \in Callis, NEW id \in Ids, drain_duplicate_waiter(c, id)
      PROVE  TypeOK'
  BY <1>7 DEF drain_duplicate_waiter, Without, Answer
<1>8. ASSUME NEW c \in Callis, cancel_all(c)
      PROVE  TypeOK'
  <2>1. Dropped(c) \in WaiterMaps
    BY <1>w DEF Dropped, WaiterMaps
  <2>2. waiters' \in WaiterMaps
    BY <1>8, <2>1, DecideAt DEF cancel_all, Decisions
  <2> QED BY <1>8, <2>2 DEF cancel_all, WaiterMaps
<1>9. ASSUME NEW c \in Callis, NEW why \in {"ConnectionLost", "LocalShutdown"}, stop_reading(c, why)
      PROVE  TypeOK'
  BY <1>9 DEF stop_reading
<1>10. ASSUME NEW c \in Callis, NEW close \in BOOLEAN, handler_error(c, close)
       PROVE  TypeOK'
  BY <1>10 DEF handler_error, Dropped, OwnedBy
<1>11. ASSUME next
       PROVE  TypeOK'
  <2>1. Head(inbox) \in 1..Len(requests)
    BY <1>11 DEF next
  <2>2. requests' \in Seq(Requests) /\ Len(requests') = Len(requests)
    <3>1. requests' = Restate(requests, Head(inbox), "Held")
      BY <1>11, Zenon DEF next, Restate
    <3> QED BY <3>1, <2>1, RestateAt DEF States
  <2>3. inbox' \in Seq(1..Len(requests')) /\ Len(inbox') <= InboxCapacity
    BY <1>11, <2>2, ConstantsAssumption DEF next
  <2> QED BY <1>11, <2>2, <2>3 DEF next
<1>12. ASSUME NEW r \in DOMAIN requests, NEW st \in {"Accepted", "Rejected"}, decide(r, st)
       PROVE  TypeOK'
  <2>1. requests' \in Seq(Requests) /\ Len(requests') = Len(requests)
    <3>1. requests' = Restate(requests, r, st)
      BY <1>12, Zenon DEF decide, Restate
    <3>2. st \in States
      BY DEF States
    <3> QED BY <3>1, <3>2, RestateAt
  <2> QED BY <1>12, <2>1 DEF decide
<1>13. ASSUME NEW i \in DOMAIN inbox, expire(i)
       PROVE  TypeOK'
  <2>1. inbox[i] \in 1..Len(requests)
    OBVIOUS
  <2>2. requests' \in Seq(Requests) /\ Len(requests') = Len(requests)
    <3>1. requests' = Restate(requests, inbox[i], "Rejected")
      BY <1>13, Zenon DEF expire, Restate
    <3> QED BY <3>1, <2>1, RestateAt DEF States
  <2>3. inbox' \in Seq(1..Len(requests')) /\ Len(inbox') <= InboxCapacity
    BY <1>13, <2>2, DropAtAt, ConstantsAssumption DEF expire
  <2> QED BY <1>13, <2>2, <2>3 DEF expire
<1>14. CASE begin_close
  BY <1>14 DEF begin_close
<1>15. CASE fresh_session
  <2>1. waiters' \in WaiterMaps
    BY <1>15, <1>w, DecideAt DEF fresh_session, Decisions
  <2> QED BY <1>15, <2>1 DEF fresh_session, WaiterMaps
<1>16. CASE other_delivered
  <2>1. order' \in Seq(Ids \cup {None})
    BY <1>16, RememberAt DEF other_delivered
  <2> QED BY <1>16, <2>1 DEF other_delivered, Evict
<1>17. CASE UNCHANGED vars
  BY <1>17 DEF vars
<1> HIDE DEF TypeOK
<1> QED
  BY <1>1, <1>2, <1>3, <1>4, <1>5, <1>6, <1>7, <1>8, <1>9, <1>10, <1>11, <1>12, <1>13, <1>14,
     <1>15, <1>16, <1>17, ZenonT(30) DEF Next, Reader, Receive, drain, Decision

-----------------------------------------------------------------------------
(* The waiters after each step that touches several of them *)

\* A refused enqueue fails the duplicates of the id, and touches no other waiter.
LEMMA EnqueueRefusedAt ==
  ASSUME TypeOK, NEW c \in Callis, enqueue_refused(c)
  PROVE  /\ begun[c] \in Ids
         /\ \A d \in Callis, x \in Ids : waiters'[d][x] =
              IF x = begun[c] /\ waiters[d][x] = Duplicate("none") THEN Duplicate("Error")
              ELSE waiters[d][x]
<1>1. begun[c] \in Ids /\ waiters \in WaiterMaps
  BY DEF enqueue_refused, TypeOK, WaiterMaps
<1>2. waiters' = Decide(waiters, {begun[c]}, "Error")
  BY DEF enqueue_refused, dedupe_complete
<1> QED BY <1>1, <1>2, DecideAt DEF Decisions

\* A decided delivery leaves its owner's waiters and decides its duplicates.
LEMMA DrainMessageAt ==
  ASSUME TypeOK, NEW c \in Callis, NEW id \in Ids, drain_message_waiter(c, id)
  PROVE  LET ok == requests[waiters[c][id].req].state = "Accepted" IN
         \A d \in Callis, x \in Ids : waiters'[d][x] =
           IF d = c /\ x = id THEN None
           ELSE IF x = id /\ waiters[d][x] = Duplicate("none")
                THEN Duplicate(IF ok THEN "Ack" ELSE "Error")
                ELSE waiters[d][x]
<1> DEFINE ok == requests[waiters[c][id].req].state = "Accepted"
<1>1. waiters \in WaiterMaps /\ Without(c, id) \in WaiterMaps
  BY DEF TypeOK, WaiterMaps, Without
<1>2. \A d \in Callis, x \in Ids :
        Without(c, id)[d][x] = IF d = c /\ x = id THEN None ELSE waiters[d][x]
  BY <1>1 DEF Without, WaiterMaps
<1>3. waiters' = Decide(Without(c, id), {id}, IF ok THEN "Ack" ELSE "Error")
  BY DEF drain_message_waiter, dedupe_complete
<1> HIDE DEF ok
<1>4. (IF ok THEN "Ack" ELSE "Error") \in Decisions
  BY DEF Decisions
<1>5. \A d \in Callis, x \in Ids : waiters'[d][x] =
        IF x \in {id} /\ Without(c, id)[d][x] = Duplicate("none")
        THEN Duplicate(IF ok THEN "Ack" ELSE "Error") ELSE Without(c, id)[d][x]
  BY <1>1, <1>3, <1>4, DecideAt
<1>6. None # Duplicate("none")
  BY WaiterKinds, ConstantsAssumption DEF Decisions
<1>7. \A d \in Callis, x \in Ids : waiters'[d][x] =
        IF d = c /\ x = id THEN None
        ELSE IF x = id /\ waiters[d][x] = Duplicate("none")
             THEN Duplicate(IF ok THEN "Ack" ELSE "Error")
             ELSE waiters[d][x]
  BY <1>2, <1>5, <1>6
<1> QED BY <1>7 DEF ok

\* A reader that cancels drops its waiters and decides the duplicates of its deliveries.
LEMMA CancelAt ==
  ASSUME TypeOK, NEW c \in Callis, cancel_all(c)
  PROVE  \A d \in Callis, x \in Ids : waiters'[d][x] =
           IF d = c THEN None
           ELSE IF IsMessage(waiters[c][x]) /\ waiters[d][x] = Duplicate("none")
                THEN Duplicate(IF reader[c] = "LocalShutdown" THEN "Error" ELSE "Abandoned")
                ELSE waiters[d][x]
<1> DEFINE why == IF reader[c] = "LocalShutdown" THEN "Error" ELSE "Abandoned"
<1>1. waiters \in WaiterMaps /\ Dropped(c) \in WaiterMaps
  BY DEF TypeOK, WaiterMaps, Dropped
<1>2. \A d \in Callis, x \in Ids : Dropped(c)[d][x] = IF d = c THEN None ELSE waiters[d][x]
  BY <1>1 DEF Dropped, WaiterMaps
<1>3. waiters' = Decide(Dropped(c), OwnedBy(c), why)
  BY DEF cancel_all
<1>4. why \in Decisions
  BY DEF Decisions
<1> HIDE DEF why
<1>5. \A d \in Callis, x \in Ids : waiters'[d][x] =
        IF x \in OwnedBy(c) /\ Dropped(c)[d][x] = Duplicate("none")
        THEN Duplicate(why) ELSE Dropped(c)[d][x]
  BY <1>1, <1>3, <1>4, DecideAt
<1>6. None # Duplicate("none") /\ \A x \in Ids : x \in OwnedBy(c) <=> IsMessage(waiters[c][x])
  BY WaiterKinds, ConstantsAssumption DEF Decisions, OwnedBy
<1>7. \A d \in Callis, x \in Ids : waiters'[d][x] =
        IF d = c THEN None
        ELSE IF IsMessage(waiters[c][x]) /\ waiters[d][x] = Duplicate("none")
             THEN Duplicate(why) ELSE waiters[d][x]
  BY <1>2, <1>5, <1>6
<1> QED BY <1>7 DEF why

\* A fresh session abandons every waiting duplicate.
LEMMA FreshAt ==
  ASSUME TypeOK, fresh_session
  PROVE  \A d \in Callis, x \in Ids : waiters'[d][x] =
           IF waiters[d][x] = Duplicate("none") THEN Duplicate("Abandoned") ELSE waiters[d][x]
<1>1. waiters \in WaiterMaps /\ "Abandoned" \in Decisions
  BY DEF TypeOK, WaiterMaps, Decisions
<1>2. waiters' = Decide(waiters, Ids, "Abandoned")
  BY DEF fresh_session
<1> QED BY <1>1, <1>2, DecideAt

\* A reader that breaks out of its loop drops its waiters.
LEMMA HandlerErrorAt ==
  ASSUME TypeOK, NEW c \in Callis, NEW close, handler_error(c, close)
  PROVE  \A d \in Callis, x \in Ids : waiters'[d][x] = IF d = c THEN None ELSE waiters[d][x]
  BY SMTT(30) DEF TypeOK, handler_error, Dropped

-----------------------------------------------------------------------------
(* Progress is inductive *)

\* A decision is final: requests stay, with their id and their reader, and an
\* accepted or rejected one stays so.
RequestsKept ==
  /\ DOMAIN requests \subseteq DOMAIN requests'
  /\ \A q \in DOMAIN requests :
       /\ requests'[q].id = requests[q].id /\ requests'[q].by = requests[q].by
       /\ requests[q].state \in {"Accepted", "Rejected"} => requests'[q].state = requests[q].state

\* Only a Queued request is taken or expires, and only a Held one is decided.
LEMMA RequestsKeptStep ==
  ASSUME TypeOK, InboxInv, [Next]_vars
  PROVE  RequestsKept
<1>1. ASSUME NEW c \in Callis, enqueue(c)
      PROVE  RequestsKept
  BY <1>1 DEF enqueue, RequestsKept, TypeOK
<1>2. ASSUME NEW r \in DOMAIN requests, NEW st \in States, requests' = Restate(requests, r, st),
             requests[r].state \in {"Queued", "Held"}
      PROVE  RequestsKept
  <2>1. requests \in Seq(Requests)
    BY DEF TypeOK
  <2> QED BY <1>2, <2>1, RestateAt DEF RequestsKept
<1>3. ASSUME next
      PROVE  RequestsKept
  <2>1. Head(inbox) \in DOMAIN requests /\ requests[Head(inbox)].state = "Queued"
    BY <1>3 DEF next, InboxInv, TypeOK
  <2>2. requests' = Restate(requests, Head(inbox), "Held")
    BY <1>3, Zenon DEF next, Restate
  <2> QED BY <1>2, <2>1, <2>2 DEF States
<1>4. ASSUME NEW r \in DOMAIN requests, NEW st \in {"Accepted", "Rejected"}, decide(r, st)
      PROVE  RequestsKept
  <2>1. requests' = Restate(requests, r, st) /\ requests[r].state = "Held" /\ st \in States
    BY <1>4 DEF decide, Restate, States
  <2> QED BY <1>2, <2>1
<1>5. ASSUME NEW i \in DOMAIN inbox, expire(i)
      PROVE  RequestsKept
  <2>1. inbox[i] \in DOMAIN requests /\ requests[inbox[i]].state = "Queued"
    BY DEF InboxInv, TypeOK
  <2>2. requests' = Restate(requests, inbox[i], "Rejected")
    BY <1>5, Zenon DEF expire, Restate
  <2> QED BY <1>2, <2>1, <2>2 DEF States
<1>6. ASSUME UNCHANGED requests
      PROVE  RequestsKept
  BY <1>6 DEF RequestsKept
<1> QED
  BY <1>1, <1>3, <1>4, <1>5, <1>6, ZenonT(30)
  DEF Next, Reader, Receive, drain, Decision, vars, receive_refused, receive_duplicate,
      receive_pending_duplicate, receive_new, enqueue_refused, drain_message_waiter,
      drain_duplicate_waiter, cancel_all, stop_reading, handler_error, begin_close,
      fresh_session, other_delivered

\* A message waiter comes from enqueue, for the request it appends.
LEMMA MessageWaiters ==
  ASSUME TypeOK, [Next]_vars, NEW d \in Callis, NEW x \in Ids, IsMessage(waiters'[d][x])
  PROVE  \/ waiters'[d][x] = waiters[d][x]
         \/ enqueue(d) /\ begun[d] = x /\ waiters'[d][x] = Message(Len(requests) + 1)
<1> DEFINE Goal == \/ waiters'[d][x] = waiters[d][x]
                   \/ enqueue(d) /\ begun[d] = x /\ waiters'[d][x] = Message(Len(requests) + 1)
<1>k. ~IsMessage(None) /\ \A dec \in Decisions : ~IsMessage(Duplicate(dec))
  BY WaiterKinds
<1>1. ASSUME NEW c \in Callis, NEW id \in Ids, receive_pending_duplicate(c, id)
      PROVE  Goal
  <2>1. waiters'[d][x] = IF d = c /\ x = id THEN Duplicate("none") ELSE waiters[d][x]
    BY <1>1 DEF receive_pending_duplicate, TypeOK
  <2> QED BY <2>1, <1>k DEF Decisions
<1>2. ASSUME NEW c \in Callis, enqueue(c)
      PROVE  Goal
  <2>1. begun[c] \in Ids
    BY <1>2 DEF enqueue, TypeOK
  <2>2. waiters'[d][x] = IF d = c /\ x = begun[c] THEN Message(Len(requests) + 1) ELSE waiters[d][x]
    BY <1>2, <2>1 DEF enqueue, TypeOK
  <2> QED BY <1>2, <2>2
<1>3. ASSUME NEW c \in Callis, enqueue_refused(c)
      PROVE  Goal
  BY <1>3, <1>k, EnqueueRefusedAt DEF Decisions
<1>4. ASSUME NEW c \in Callis, NEW id \in Ids, drain_message_waiter(c, id)
      PROVE  Goal
  BY <1>4, <1>k, DrainMessageAt DEF Decisions
<1>5. ASSUME NEW c \in Callis, NEW id \in Ids, drain_duplicate_waiter(c, id)
      PROVE  Goal
  <2>1. waiters'[d][x] = IF d = c /\ x = id THEN None ELSE waiters[d][x]
    BY <1>5 DEF drain_duplicate_waiter, Without, TypeOK
  <2> QED BY <2>1, <1>k
<1>6. ASSUME NEW c \in Callis, cancel_all(c)
      PROVE  Goal
  BY <1>6, <1>k, CancelAt DEF Decisions
<1>7. ASSUME NEW c \in Callis, NEW close, handler_error(c, close)
      PROVE  Goal
  BY <1>7, <1>k, HandlerErrorAt
<1>8. ASSUME fresh_session
      PROVE  Goal
  BY <1>8, <1>k, FreshAt DEF Decisions
<1>9. ASSUME UNCHANGED waiters
      PROVE  Goal
  BY <1>9
<1> HIDE DEF Goal
<1>10. Goal
  BY <1>1, <1>2, <1>3, <1>4, <1>5, <1>6, <1>7, <1>8, <1>9, ZenonT(30)
  DEF Next, Reader, Receive, drain, Decision, vars, receive_refused, receive_duplicate,
      receive_new, stop_reading, next, decide, expire, begin_close, other_delivered
<1> QED BY <1>10 DEF Goal

\* Message waiters keep pointing at a request of their own reader and id.
LEMMA MessagesStep ==
  ASSUME TypeOK, InboxInv, MessagesInv, [Next]_vars
  PROVE  MessagesInv'
<1>1. RequestsKept
  BY RequestsKeptStep
<1> SUFFICES ASSUME NEW c \in Callis, NEW id \in Ids, IsMessage(waiters'[c][id])
             PROVE  LET r == waiters'[c][id].req IN
                    r \in DOMAIN requests' /\ requests'[r].id = id /\ requests'[r].by = c
  BY DEF MessagesInv
<1>2. CASE waiters'[c][id] = waiters[c][id]
  BY <1>1, <1>2 DEF MessagesInv, RequestsKept
<1>3. CASE enqueue(c) /\ begun[c] = id /\ waiters'[c][id] = Message(Len(requests) + 1)
  <2>1. waiters'[c][id].req = Len(requests) + 1
    BY <1>3, WaiterKinds DEF TypeOK
  <2>2. /\ Len(requests) + 1 \in DOMAIN requests'
        /\ requests'[Len(requests) + 1] = [id |-> id, by |-> c, state |-> "Queued"]
    BY <1>3 DEF enqueue, TypeOK
  <2> QED BY <2>1, <2>2
<1> QED BY <1>2, <1>3, MessageWaiters

\* A reader ends with nothing begun and no waiter, and gets none afterwards.
LEMMA ReadersStep ==
  ASSUME TypeOK, ReadersInv, [Next]_vars
  PROVE  ReadersInv'
<1>k. None # Duplicate("none")
  BY WaiterKinds, ConstantsAssumption DEF Decisions
<1>1. ASSUME NEW c \in Callis, NEW id \in Ids, receive_pending_duplicate(c, id)
      PROVE  ReadersInv'
  BY <1>1 DEF receive_pending_duplicate, MayArrive, CanRead, ReadersInv, TypeOK
<1>2. ASSUME NEW c \in Callis, NEW id \in Ids, receive_new(c, id)
      PROVE  ReadersInv'
  BY <1>2 DEF receive_new, MayArrive, CanRead, ReadersInv, TypeOK
<1>3. ASSUME NEW c \in Callis, enqueue(c)
      PROVE  ReadersInv'
  BY <1>3 DEF enqueue, ReadersInv, TypeOK
<1>4. ASSUME NEW c \in Callis, enqueue_refused(c)
      PROVE  ReadersInv'
  <2>1. UNCHANGED reader /\ begun' = [begun EXCEPT ![c] = None]
    BY <1>4 DEF enqueue_refused
  <2>2. \A d \in Callis, x \in Ids : waiters[d][x] = None => waiters'[d][x] = None
    BY <1>4, <1>k, EnqueueRefusedAt
  <2> QED BY <2>1, <2>2 DEF ReadersInv, TypeOK
<1>5. ASSUME NEW c \in Callis, NEW id \in Ids, drain_message_waiter(c, id)
      PROVE  ReadersInv'
  <2>1. UNCHANGED <<reader, begun>>
    BY <1>5 DEF drain_message_waiter
  <2>2. \A d \in Callis, x \in Ids : waiters[d][x] = None => waiters'[d][x] = None
    BY <1>5, <1>k, DrainMessageAt
  <2> QED BY <2>1, <2>2, SMTT(30) DEF ReadersInv, TypeOK
<1>6. ASSUME NEW c \in Callis, NEW id \in Ids, drain_duplicate_waiter(c, id)
      PROVE  ReadersInv'
  BY <1>6 DEF drain_duplicate_waiter, Without, ReadersInv, TypeOK
<1>7. ASSUME NEW c \in Callis, cancel_all(c)
      PROVE  ReadersInv'
  <2>1. UNCHANGED begun /\ reader' = [reader EXCEPT ![c] = "done"] /\ begun[c] = None
    BY <1>7 DEF cancel_all, Closed, ReadersInv
  <2>2. \A d \in Callis, x \in Ids : d = c \/ waiters[d][x] = None => waiters'[d][x] = None
    BY <1>7, <1>k, CancelAt
  <2> QED BY <2>1, <2>2 DEF ReadersInv, TypeOK
<1>8. ASSUME NEW c \in Callis, NEW why \in {"ConnectionLost", "LocalShutdown"}, stop_reading(c, why)
      PROVE  ReadersInv'
  BY <1>8 DEF stop_reading, CanRead, ReadersInv, TypeOK
<1>9. ASSUME NEW c \in Callis, NEW close \in BOOLEAN, handler_error(c, close)
      PROVE  ReadersInv'
  <2>1. UNCHANGED begun /\ reader' = [reader EXCEPT ![c] = "done"] /\ begun[c] = None
    BY <1>9 DEF handler_error, CanRead
  <2>2. \A d \in Callis, x \in Ids : d = c \/ waiters[d][x] = None => waiters'[d][x] = None
    BY <1>9, HandlerErrorAt
  <2> QED BY <2>1, <2>2 DEF ReadersInv, TypeOK
<1>10. ASSUME fresh_session
       PROVE  ReadersInv'
  <2>1. UNCHANGED <<reader, begun>>
    BY <1>10 DEF fresh_session
  <2>2. \A d \in Callis, x \in Ids : waiters[d][x] = None => waiters'[d][x] = None
    BY <1>10, <1>k, FreshAt
  <2> QED BY <2>1, <2>2 DEF ReadersInv, TypeOK
<1>11. ASSUME UNCHANGED <<waiters, reader, begun>>
       PROVE  ReadersInv'
  BY <1>11, SMTT(30) DEF ReadersInv
<1> QED
  BY <1>1, <1>2, <1>3, <1>4, <1>5, <1>6, <1>7, <1>8, <1>9, <1>10, <1>11, ZenonT(30)
  DEF Next, Reader, Receive, drain, Decision, vars, receive_refused, receive_duplicate,
      next, decide, expire, begin_close, other_delivered

\* The inbox keeps holding queued requests, each once.
LEMMA InboxStep ==
  ASSUME TypeOK, InboxInv, [Next]_vars
  PROVE  InboxInv'
<1>t. requests \in Seq(Requests) /\ inbox \in Seq(1..Len(requests))
  BY DEF TypeOK
<1>r. ASSUME NEW r \in DOMAIN requests, NEW st \in States, requests' = Restate(requests, r, st)
      PROVE  \A q \in DOMAIN requests : q # r => requests'[q].state = requests[q].state
  BY <1>r, <1>t, RestateAt
<1>1. ASSUME NEW c \in Callis, enqueue(c)
      PROVE  InboxInv'
  <2>1. /\ Len(requests') = Len(requests) + 1 /\ requests'[Len(requests) + 1].state = "Queued"
        /\ \A q \in 1..Len(requests) : requests'[q] = requests[q]
    BY <1>1, <1>t DEF enqueue
  <2>2. /\ Len(inbox') = Len(inbox) + 1 /\ inbox'[Len(inbox) + 1] = Len(requests) + 1
        /\ \A i \in 1..Len(inbox) : inbox'[i] = inbox[i] /\ inbox[i] \in 1..Len(requests)
        /\ DOMAIN inbox' = 1..(Len(inbox) + 1)
    BY <1>1, <1>t DEF enqueue
  <2>3. Len(inbox) \in Nat /\ Len(requests) \in Nat /\ DOMAIN inbox = 1..Len(inbox)
    BY <1>t
  <2>4. \A i \in DOMAIN inbox' : i \in DOMAIN inbox \/ i = Len(inbox) + 1
    BY <2>2, <2>3
  <2>5. \A i \in DOMAIN inbox' : requests'[inbox'[i]].state = "Queued"
    BY <2>1, <2>2, <2>3, <2>4 DEF InboxInv
  <2>6. \A i, j \in DOMAIN inbox' : inbox'[i] = inbox'[j] => i = j
    BY <2>2, <2>3, <2>4 DEF InboxInv
  <2> QED BY <2>5, <2>6 DEF InboxInv
<1>2. ASSUME next
      PROVE  InboxInv'
  <2>1. Len(inbox) \in Nat \ {0} /\ Head(inbox) = inbox[1] /\ inbox[1] \in DOMAIN requests
    BY <1>2, <1>t DEF next
  <2>2. Len(inbox') = Len(inbox) - 1 /\ \A i \in 1..(Len(inbox) - 1) : inbox'[i] = inbox[i + 1]
    BY <1>2, <1>t, <2>1 DEF next
  <2>3. inbox' \in Seq(1..Len(requests))
    BY <1>2, <1>t DEF next
  <2>4. requests' = Restate(requests, inbox[1], "Held")
    BY <1>2, <2>1, Zenon DEF next, Restate
  <2>5. \A q \in DOMAIN requests : q # inbox[1] => requests'[q].state = requests[q].state
    <3>1. "Held" \in States
      BY DEF States
    <3> QED BY <1>r, <2>1, <2>4, <3>1
  <2>6. ASSUME NEW i \in DOMAIN inbox'
        PROVE  /\ i + 1 \in DOMAIN inbox /\ i + 1 # 1 /\ 1 \in DOMAIN inbox
               /\ inbox'[i] = inbox[i + 1] /\ inbox[i + 1] \in DOMAIN requests
    BY <1>t, <2>1, <2>2, <2>3, SMTT(30)
  <2>7. \A i \in DOMAIN inbox' : requests'[inbox'[i]].state = "Queued"
    BY <2>5, <2>6 DEF InboxInv
  <2>8. \A i, j \in DOMAIN inbox' : inbox'[i] = inbox'[j] => i = j
    BY <2>3, <2>6 DEF InboxInv
  <2> QED BY <2>7, <2>8 DEF InboxInv
<1>3. ASSUME NEW r \in DOMAIN requests, NEW st \in {"Accepted", "Rejected"}, decide(r, st)
      PROVE  InboxInv'
  <2>1. requests' = Restate(requests, r, st) /\ requests[r].state = "Held" /\ st \in States
    BY <1>3 DEF decide, Restate, States
  <2>2. \A q \in DOMAIN requests : q # r => requests'[q].state = requests[q].state
    BY <1>t, <2>1, RestateAt
  <2>3. UNCHANGED inbox /\ \A i \in DOMAIN inbox : inbox[i] \in DOMAIN requests
    BY <1>3, <1>t DEF decide
  <2> QED BY <2>1, <2>2, <2>3 DEF InboxInv
<1>4. ASSUME NEW k \in DOMAIN inbox, expire(k)
      PROVE  InboxInv'
  <2>1. Len(inbox) \in Nat /\ k \in 1..Len(inbox) /\ inbox[k] \in DOMAIN requests
    BY <1>4, <1>t
  <2>2. /\ Len(inbox') = Len(inbox) - 1 /\ inbox' \in Seq(1..Len(requests))
        /\ \A i \in 1..(Len(inbox) - 1) : inbox'[i] = IF i < k THEN inbox[i] ELSE inbox[i + 1]
    BY <1>4, <1>t, DropAtAt, ZenonT(30) DEF expire
  <2>4. requests' = Restate(requests, inbox[k], "Rejected")
    BY <1>4, Zenon DEF expire, Restate
  <2>5. \A q \in DOMAIN requests : q # inbox[k] => requests'[q].state = requests[q].state
    <3>1. "Rejected" \in States
      BY DEF States
    <3> QED BY <1>r, <2>1, <2>4, <3>1
  <2> DEFINE at(i) == IF i < k THEN i ELSE i + 1
  <2>6. ASSUME NEW i \in DOMAIN inbox'
        PROVE  /\ at(i) \in DOMAIN inbox /\ at(i) # k
               /\ inbox'[i] = inbox[at(i)] /\ inbox[at(i)] \in DOMAIN requests
    <3>1. i \in 1..(Len(inbox) - 1)
      BY <2>1, <2>2
    <3>2. at(i) \in 1..Len(inbox) /\ at(i) # k
      BY <2>1, <3>1
    <3>3. inbox'[i] = inbox[at(i)]
      BY <2>2, <3>1, ZenonT(30)
    <3> QED BY <1>t, <3>2, <3>3
  <2>7. \A i, j \in DOMAIN inbox' : at(i) = at(j) => i = j
    BY <2>1, <2>2
  <2> HIDE DEF at
  <2>8. \A i \in DOMAIN inbox' : requests'[inbox'[i]].state = "Queued"
    BY <2>5, <2>6 DEF InboxInv
  <2>9. \A i, j \in DOMAIN inbox' : inbox'[i] = inbox'[j] => i = j
    BY <2>6, <2>7 DEF InboxInv
  <2> QED BY <2>8, <2>9 DEF InboxInv
<1>5. ASSUME UNCHANGED <<requests, inbox>>
      PROVE  InboxInv'
  BY <1>5 DEF InboxInv
<1> QED
  BY <1>1, <1>2, <1>3, <1>4, <1>5, ZenonT(30)
  DEF Next, Reader, Receive, drain, Decision, vars, receive_refused, receive_duplicate,
      receive_pending_duplicate, receive_new, enqueue_refused, drain_message_waiter,
      drain_duplicate_waiter, cancel_all, stop_reading, handler_error, begin_close,
      fresh_session, other_delivered

\* An ACK, an entry of the history and a duplicate's ACK stem from an acceptance.
LEMMA AcksStep ==
  ASSUME TypeOK, InboxInv, MessagesInv, AcksInv, [Next]_vars
  PROVE  AcksInv'
<1> DEFINE Sound == \A id \in Ids : Says(id)' => Says(id) \/ Accepted(id)
<1>k. /\ Duplicate("none") # Duplicate("Ack") /\ Duplicate("Error") # Duplicate("Ack")
      /\ Duplicate("Abandoned") # Duplicate("Ack") /\ None # Duplicate("Ack")
      /\ \A n \in Nat : Message(n) # Duplicate("Ack")
  BY WaiterKinds DEF Decisions
<1>t. order \in Seq(Ids \cup {None}) /\ waiters \in WaiterMaps
  BY DEF TypeOK, WaiterMaps
<1>1. ASSUME NEW c \in Callis, NEW id \in Ids, receive_refused(c, id) \/ receive_duplicate(c, id)
      PROVE  Sound
  BY <1>1 DEF receive_refused, receive_duplicate, Answer, Says
<1>2. ASSUME NEW c \in Callis, NEW id \in Ids, receive_pending_duplicate(c, id)
      PROVE  Sound
  <2>1. \A d \in Callis, x \in Ids :
          waiters'[d][x] = IF d = c /\ x = id THEN Duplicate("none") ELSE waiters[d][x]
    BY <1>2, <1>t DEF receive_pending_duplicate, WaiterMaps
  <2>2. UNCHANGED <<acked, order>>
    BY <1>2 DEF receive_pending_duplicate
  <2> QED BY <2>1, <2>2, <1>k DEF Says
<1>3. ASSUME NEW c \in Callis, enqueue(c)
      PROVE  Sound
  <2>1. begun[c] \in Ids /\ UNCHANGED <<acked, order>> /\ Len(requests) + 1 \in Nat
    BY <1>3 DEF enqueue, TypeOK
  <2>2. \A d \in Callis, x \in Ids : waiters'[d][x] =
          IF d = c /\ x = begun[c] THEN Message(Len(requests) + 1) ELSE waiters[d][x]
    BY <1>3, <1>t, <2>1 DEF enqueue, WaiterMaps
  <2> QED BY <2>1, <2>2, <1>k DEF Says
<1>4. ASSUME NEW c \in Callis, enqueue_refused(c)
      PROVE  Sound
  <2>1. begun[c] \in Ids /\ dedupe_complete(waiters, begun[c], FALSE) /\ acked' = acked
    BY <1>4, ZenonT(30) DEF enqueue_refused, Answer, TypeOK
  <2>2. Range(order') \subseteq Range(order)
    BY <2>1 DEF dedupe_complete
  <2>3. \A d \in Callis, x \in Ids : waiters'[d][x] = Duplicate("Ack") => waiters[d][x] = Duplicate("Ack")
    BY <1>4, <1>k, EnqueueRefusedAt
  <2> QED BY <2>1, <2>2, <2>3 DEF Says
<1>5. ASSUME NEW c \in Callis, NEW id \in Ids, drain_message_waiter(c, id)
      PROVE  Sound
  <2> DEFINE ok == requests[waiters[c][id].req].state = "Accepted"
  <2>1. /\ dedupe_complete(Without(c, id), id, ok) /\ ok \in BOOLEAN
        /\ acked' = IF ok THEN acked \cup {id} ELSE acked
        /\ IsMessage(waiters[c][id])
    BY <1>5 DEF drain_message_waiter, Answer
  <2>2. ok => Accepted(id)
    BY <2>1 DEF MessagesInv, Accepted
  <2>3. \A d \in Callis, x \in Ids : waiters'[d][x] =
          IF d = c /\ x = id THEN None
          ELSE IF x = id /\ waiters[d][x] = Duplicate("none")
               THEN Duplicate(IF ok THEN "Ack" ELSE "Error")
               ELSE waiters[d][x]
    BY <1>5, DrainMessageAt
  <2>4. Without(c, id) \in WaiterMaps
    BY <1>t DEF Without, WaiterMaps
  <2> HIDE DEF ok
  <2>5. Range(order') \subseteq Range(order) \cup (IF ok THEN {id} ELSE {})
    BY <1>t, <2>1, <2>4, CompleteAt
  <2>6. \A d \in Callis, x \in Ids : waiters'[d][x] = Duplicate("Ack")
          => waiters[d][x] = Duplicate("Ack") \/ (ok /\ x = id)
    BY <2>3, <1>k
  <2> QED BY <2>1, <2>2, <2>5, <2>6, ZenonT(30) DEF Says
<1>6. ASSUME NEW c \in Callis, NEW id \in Ids, drain_duplicate_waiter(c, id)
      PROVE  Sound
  <2>1. waiters[c][id] = Duplicate(waiters[c][id].decision)
    BY <1>6, <1>t, WaiterKinds DEF drain_duplicate_waiter, WaiterMaps
  <2>2. \A d \in Callis, x \in Ids : waiters'[d][x] = IF d = c /\ x = id THEN None ELSE waiters[d][x]
    BY <1>6, <1>t DEF drain_duplicate_waiter, Without, WaiterMaps
  <2>3. /\ acked' = acked \/ (waiters[c][id].decision = "Ack" /\ acked' = acked \cup {id})
        /\ UNCHANGED order
    BY <1>6 DEF drain_duplicate_waiter, Answer
  <2> QED BY <2>1, <2>2, <2>3, <1>k DEF Says
<1>7. ASSUME NEW c \in Callis, cancel_all(c)
      PROVE  Sound
  <2>1. UNCHANGED <<acked, order>>
    BY <1>7 DEF cancel_all
  <2>2. \A d \in Callis, x \in Ids : waiters'[d][x] = Duplicate("Ack") => waiters[d][x] = Duplicate("Ack")
    BY <1>7, <1>k, CancelAt
  <2> QED BY <2>1, <2>2 DEF Says
<1>8. ASSUME NEW c \in Callis, NEW close \in BOOLEAN, handler_error(c, close)
      PROVE  Sound
  <2>1. UNCHANGED <<acked, order>>
    BY <1>8 DEF handler_error
  <2>2. \A d \in Callis, x \in Ids : waiters'[d][x] = Duplicate("Ack") => waiters[d][x] = Duplicate("Ack")
    BY <1>8, <1>k, HandlerErrorAt
  <2> QED BY <2>1, <2>2 DEF Says
<1>9. ASSUME fresh_session
      PROVE  Sound
  <2>1. UNCHANGED acked /\ Range(order') = {}
    BY <1>9 DEF fresh_session, Range
  <2>2. \A d \in Callis, x \in Ids : waiters'[d][x] = Duplicate("Ack") => waiters[d][x] = Duplicate("Ack")
    BY <1>9, <1>k, FreshAt
  <2> QED BY <2>1, <2>2 DEF Says
<1>10. ASSUME other_delivered
       PROVE  Sound
  <2>1. UNCHANGED <<acked, waiters>> /\ Range(order') \subseteq Range(order) \cup {None}
    BY <1>10, <1>t, RememberAt DEF other_delivered
  <2> QED BY <2>1, ConstantsAssumption DEF Says
<1>11. ASSUME UNCHANGED <<acked, order, waiters>>
       PROVE  Sound
  BY <1>11 DEF Says
<1> HIDE DEF Sound
<1>12. Sound
  BY <1>1, <1>2, <1>3, <1>4, <1>5, <1>6, <1>7, <1>8, <1>9, <1>10, <1>11, ZenonT(30)
  DEF Next, Reader, Receive, drain, Decision, vars, receive_new, stop_reading, next, decide,
      expire, begin_close
<1>13. \A id \in Ids : Accepted(id) => Accepted(id)'
  BY RequestsKeptStep DEF RequestsKept, Accepted
<1> QED BY <1>12, <1>13 DEF Sound, AcksInv

\* Whatever takes an id out of pending decides the duplicates that wait for it.
LEMMA DuplicatesStep ==
  ASSUME TypeOK, DuplicateJoinsPending, [Next]_vars
  PROVE  DuplicateJoinsPending'
<1> DEFINE waits(c, x) == waiters[c][x] = Duplicate("none")
           Joined == \A d \in Callis, x \in Ids :
                       waits(d, x)' => x \in pending' \/ (waits(d, x) /\ x \notin pending)
<1>k. /\ Duplicate("Ack") # Duplicate("none") /\ Duplicate("Error") # Duplicate("none")
      /\ Duplicate("Abandoned") # Duplicate("none") /\ None # Duplicate("none")
      /\ \A n \in Nat : Message(n) # Duplicate("none")
  BY WaiterKinds DEF Decisions
<1>t. waiters \in WaiterMaps
  BY DEF TypeOK, WaiterMaps
<1>1. ASSUME NEW c \in Callis, NEW id \in Ids, receive_pending_duplicate(c, id)
      PROVE  Joined
  <2>1. \A d \in Callis, x \in Ids :
          waiters'[d][x] = IF d = c /\ x = id THEN Duplicate("none") ELSE waiters[d][x]
    BY <1>1, <1>t DEF receive_pending_duplicate, WaiterMaps
  <2>2. UNCHANGED pending /\ id \in pending
    BY <1>1 DEF receive_pending_duplicate
  <2> QED BY <2>1, <2>2
<1>2. ASSUME NEW c \in Callis, NEW id \in Ids, receive_new(c, id)
      PROVE  Joined
  BY <1>2 DEF receive_new
<1>3. ASSUME NEW c \in Callis, enqueue(c)
      PROVE  Joined
  <2>1. begun[c] \in Ids /\ UNCHANGED pending /\ Len(requests) + 1 \in Nat
    BY <1>3 DEF enqueue, TypeOK
  <2>2. \A d \in Callis, x \in Ids : waiters'[d][x] =
          IF d = c /\ x = begun[c] THEN Message(Len(requests) + 1) ELSE waiters[d][x]
    BY <1>3, <1>t, <2>1 DEF enqueue, WaiterMaps
  <2> QED BY <2>1, <2>2, <1>k
<1>4. ASSUME NEW c \in Callis, enqueue_refused(c)
      PROVE  Joined
  <2>1. pending' = pending \ {begun[c]}
    BY <1>4 DEF enqueue_refused, dedupe_complete
  <2>2. \A d \in Callis, x \in Ids : waits(d, x)' => waits(d, x) /\ x # begun[c]
    BY <1>4, <1>k, EnqueueRefusedAt
  <2> QED BY <2>1, <2>2
<1>5. ASSUME NEW c \in Callis, NEW id \in Ids, drain_message_waiter(c, id)
      PROVE  Joined
  <2>1. pending' = pending \ {id}
    BY <1>5, ZenonT(30) DEF drain_message_waiter, dedupe_complete
  <2>2. \A d \in Callis, x \in Ids : waits(d, x)' => waits(d, x) /\ x # id
    BY <1>5, <1>k, DrainMessageAt
  <2> QED BY <2>1, <2>2, SMTT(30)
<1>6. ASSUME NEW c \in Callis, NEW id \in Ids, drain_duplicate_waiter(c, id)
      PROVE  Joined
  <2>1. \A d \in Callis, x \in Ids : waiters'[d][x] = IF d = c /\ x = id THEN None ELSE waiters[d][x]
    BY <1>6, <1>t, ZenonT(30) DEF drain_duplicate_waiter, Without, WaiterMaps
  <2>2. UNCHANGED pending
    BY <1>6 DEF drain_duplicate_waiter
  <2> QED BY <2>1, <2>2, <1>k
<1>7. ASSUME NEW c \in Callis, cancel_all(c)
      PROVE  Joined
  <2>1. pending' = pending \ OwnedBy(c) /\ \A x \in Ids : x \in OwnedBy(c) <=> IsMessage(waiters[c][x])
    BY <1>7 DEF cancel_all, OwnedBy
  <2>2. \A d \in Callis, x \in Ids : waits(d, x)' => waits(d, x) /\ ~IsMessage(waiters[c][x])
    BY <1>7, <1>k, CancelAt
  <2> QED BY <2>1, <2>2
<1>8. ASSUME NEW c \in Callis, NEW close \in BOOLEAN, handler_error(c, close)
      PROVE  Joined
  <2>1. UNCHANGED pending
    BY <1>8 DEF handler_error
  <2>2. \A d \in Callis, x \in Ids : waits(d, x)' => waits(d, x)
    BY <1>8, <1>k, HandlerErrorAt
  <2> QED BY <2>1, <2>2
<1>9. ASSUME fresh_session
      PROVE  Joined
  BY <1>9, <1>k, FreshAt
<1>10. ASSUME UNCHANGED <<pending, waiters>>
       PROVE  Joined
  BY <1>10
<1> HIDE DEF Joined
<1>11. Joined
  BY <1>1, <1>2, <1>3, <1>4, <1>5, <1>6, <1>7, <1>8, <1>9, <1>10, ZenonT(30)
  DEF Next, Reader, Receive, drain, Decision, vars, receive_refused, receive_duplicate,
      stop_reading, next, decide, expire, begin_close, other_delivered
<1> QED BY <1>11 DEF Joined, DuplicateJoinsPending

\* Progress holds initially.
LEMMA InitProgress ==
  Init => Progress
<1> SUFFICES ASSUME Init PROVE Progress
  OBVIOUS
<1>k. None # Duplicate("none") /\ None # Duplicate("Ack") /\ ~IsMessage(None)
  BY WaiterKinds, ConstantsAssumption DEF Decisions
<1>0. \A S : <<>> \in Seq(S)
  OBVIOUS
<1>1. TypeOK
  <2>1. /\ order \in Seq(Ids \cup {None}) /\ requests \in Seq(Requests)
        /\ inbox \in Seq(1..Len(requests)) /\ Len(inbox) = 0
    BY <1>0 DEF Init
  <2>2. Len(inbox) <= InboxCapacity
    BY <2>1, ConstantsAssumption
  <2> QED BY <2>1, <2>2, ZenonT(30) DEF Init, TypeOK
<1>2. ReadersInv /\ MessagesInv /\ InboxInv /\ DuplicateJoinsPending
  BY <1>k DEF Init, ReadersInv, MessagesInv, InboxInv, DuplicateJoinsPending
<1>3. AcksInv
  BY <1>k DEF Init, AcksInv, Says, Range
<1> QED BY <1>1, <1>2, <1>3 DEF Progress

\* Every step keeps Progress.
LEMMA ProgressStep ==
  ASSUME Progress, [Next]_vars
  PROVE  Progress'
  BY TypeStep, ReadersStep, MessagesStep, InboxStep, AcksStep, DuplicatesStep DEF Progress

\* The readers and the inbox keep Progress whatever arrives and whenever the
\* application decides.
THEOREM ProgressHolds == Spec => []Progress
<1>1. Progress /\ [Next]_vars => Progress'
  BY ProgressStep
<1> QED BY <1>1, InitProgress, PTL DEF Spec

\* A duplicate waits only while the delivery it joined is in progress
\* (dedupe_begin, dedupe_complete, cancel_waiters).
THEOREM DuplicatesJoin == Spec => []DuplicateJoinsPending
<1>1. Progress => DuplicateJoinsPending
  BY DEF Progress
<1> QED BY <1>1, ProgressHolds, PTL

\* An ACK leaves, or an id enters the history, only after the application accepted
\* a request for it (drain_message_waiter, dedupe_complete).
THEOREM AcksAreAcceptances == Spec => []AckMeansAccepted
<1>1. Progress => AckMeansAccepted
  BY DEF Progress, AcksInv, Says, Accepted, AckMeansAccepted
<1> QED BY <1>1, ProgressHolds, PTL

-----------------------------------------------------------------------------
(* Ownership is inductive when no id returns to a callis that waits for it *)

\* What is lost stays lost: a reader that ended never reads again, an id once
\* forgotten stays so, and an id leaves the history only into forgotten.
Monotone ==
  /\ forgotten \subseteq forgotten' /\ orphaned \subseteq orphaned'
  /\ \A c \in Callis : reader[c] = "done" => reader'[c] = "done"
  /\ \A x \in Ids : x \in Range(order) => x \in Range(order') \cup forgotten'

\* Every step of the receiving half keeps that.
LEMMA MonotoneStep ==
  ASSUME TypeOK, [Next]_vars
  PROVE  Monotone
<1>t. order \in Seq(Ids \cup {None}) /\ waiters \in WaiterMaps
  BY DEF TypeOK, WaiterMaps
<1>1. ASSUME NEW c \in Callis, enqueue_refused(c)
      PROVE  Monotone
  <2>1. begun[c] \in Ids /\ dedupe_complete(waiters, begun[c], FALSE) /\ UNCHANGED <<reader, orphaned>>
    BY <1>1, ZenonT(30) DEF enqueue_refused, TypeOK
  <2> QED BY <2>1, <1>t, CompleteAt, ZenonT(30) DEF Monotone
<1>2. ASSUME NEW c \in Callis, NEW id \in Ids, drain_message_waiter(c, id)
      PROVE  Monotone
  <2> DEFINE ok == requests[waiters[c][id].req].state = "Accepted"
  <2>1. /\ dedupe_complete(Without(c, id), id, ok) /\ ok \in BOOLEAN
        /\ UNCHANGED <<reader, orphaned>>
    BY <1>2 DEF drain_message_waiter
  <2>2. Without(c, id) \in WaiterMaps
    BY <1>t DEF Without, WaiterMaps
  <2> HIDE DEF ok
  <2> QED BY <2>1, <2>2, <1>t, CompleteAt, ZenonT(30) DEF Monotone
<1>3. ASSUME NEW c \in Callis, cancel_all(c)
      PROVE  Monotone
  BY <1>3 DEF cancel_all, Monotone, TypeOK
<1>4. ASSUME NEW c \in Callis, NEW why \in {"ConnectionLost", "LocalShutdown"}, stop_reading(c, why)
      PROVE  Monotone
  BY <1>4 DEF stop_reading, CanRead, Monotone, TypeOK
<1>5. ASSUME NEW c \in Callis, NEW close \in BOOLEAN, handler_error(c, close)
      PROVE  Monotone
  BY <1>5 DEF handler_error, Monotone, TypeOK
<1>6. ASSUME fresh_session
      PROVE  Monotone
  BY <1>6 DEF fresh_session, Monotone
<1>7. ASSUME other_delivered
      PROVE  Monotone
  BY <1>7 DEF other_delivered, Evict, Monotone
<1>8. ASSUME UNCHANGED <<order, reader, orphaned, forgotten>>
      PROVE  Monotone
  BY <1>8 DEF Monotone
<1> QED
  BY <1>1, <1>2, <1>3, <1>4, <1>5, <1>6, <1>7, <1>8, ZenonT(30)
  DEF Next, Reader, Receive, drain, Decision, vars, receive_refused, receive_duplicate,
      receive_pending_duplicate, receive_new, enqueue, drain_duplicate_waiter, next, decide,
      expire, begin_close

\* A reader inside the enqueue has no waiter for the id.
LEMMA BegunStep ==
  ASSUME TypeOK, BegunInv, SameCallisReplay = FALSE, [Next]_vars
  PROVE  BegunInv'
<1>k. None # Duplicate("none")
  BY WaiterKinds, ConstantsAssumption DEF Decisions
<1>t. waiters \in WaiterMaps /\ begun \in [Callis -> Ids \cup {None}]
  BY DEF TypeOK, WaiterMaps
<1>0. ASSUME \A d \in Callis : begun'[d] = begun[d] \/ begun'[d] = None,
             \A d \in Callis, x \in Ids : waiters[d][x] = None /\ begun'[d] = x => waiters'[d][x] = None
      PROVE  BegunInv'
  BY <1>0, <1>t DEF BegunInv
<1>1. ASSUME NEW c \in Callis, NEW id \in Ids, receive_pending_duplicate(c, id)
      PROVE  BegunInv'
  BY <1>1, <1>t, ConstantsAssumption
  DEF receive_pending_duplicate, MayArrive, CanRead, BegunInv, WaiterMaps
<1>2. ASSUME NEW c \in Callis, NEW id \in Ids, receive_new(c, id)
      PROVE  BegunInv'
  BY <1>2, <1>t DEF receive_new, MayArrive, CanRead, BegunInv
<1>3. ASSUME NEW c \in Callis, enqueue(c)
      PROVE  BegunInv'
  BY <1>3, <1>t DEF enqueue, BegunInv, WaiterMaps
<1>4. ASSUME NEW c \in Callis, enqueue_refused(c)
      PROVE  BegunInv'
  <2>1. begun' = [begun EXCEPT ![c] = None]
    BY <1>4 DEF enqueue_refused
  <2>2. \A d \in Callis, x \in Ids : waiters[d][x] = None => waiters'[d][x] = None
    BY <1>4, <1>k, EnqueueRefusedAt
  <2> QED BY <1>0, <1>t, <2>1, <2>2
<1>5. ASSUME NEW c \in Callis, NEW id \in Ids, drain_message_waiter(c, id)
      PROVE  BegunInv'
  <2>1. UNCHANGED begun
    BY <1>5 DEF drain_message_waiter
  <2>2. \A d \in Callis, x \in Ids : waiters[d][x] = None => waiters'[d][x] = None
    BY <1>5, <1>k, DrainMessageAt
  <2> QED BY <1>0, <2>1, <2>2
<1>6. ASSUME NEW c \in Callis, NEW id \in Ids, drain_duplicate_waiter(c, id)
      PROVE  BegunInv'
  BY <1>6, <1>t DEF drain_duplicate_waiter, Without, BegunInv, WaiterMaps
<1>7. ASSUME NEW c \in Callis, cancel_all(c)
      PROVE  BegunInv'
  <2>1. UNCHANGED begun
    BY <1>7 DEF cancel_all
  <2>2. \A d \in Callis, x \in Ids : waiters[d][x] = None => waiters'[d][x] = None
    BY <1>7, <1>k, CancelAt
  <2> QED BY <1>0, <2>1, <2>2
<1>8. ASSUME NEW c \in Callis, NEW close \in BOOLEAN, handler_error(c, close)
      PROVE  BegunInv'
  <2>1. UNCHANGED begun
    BY <1>8 DEF handler_error
  <2>2. \A d \in Callis, x \in Ids : waiters[d][x] = None => waiters'[d][x] = None
    BY <1>8, HandlerErrorAt
  <2> QED BY <1>0, <2>1, <2>2
<1>9. ASSUME fresh_session
      PROVE  BegunInv'
  <2>1. UNCHANGED begun
    BY <1>9 DEF fresh_session
  <2>2. \A d \in Callis, x \in Ids : waiters[d][x] = None => waiters'[d][x] = None
    BY <1>9, <1>k, FreshAt
  <2> QED BY <1>0, <2>1, <2>2
<1>10. ASSUME UNCHANGED <<waiters, begun>>
       PROVE  BegunInv'
  BY <1>10 DEF BegunInv
<1> QED
  BY <1>1, <1>2, <1>3, <1>4, <1>5, <1>6, <1>7, <1>8, <1>9, <1>10, ZenonT(30)
  DEF Next, Reader, Receive, drain, Decision, vars, receive_refused, receive_duplicate,
      stop_reading, next, decide, expire, begin_close, other_delivered

\* A reader gains a delivery only by receive_new, and gives one up only by
\* completing or abandoning it.
LEMMA OwnersStep ==
  ASSUME TypeOK, ReadersInv, BegunInv, OwnersInv, SameCallisReplay = FALSE, [Next]_vars
  PROVE  OwnersInv'
<1>k. ~IsMessage(None) /\ \A d \in Decisions : ~IsMessage(Duplicate(d))
  BY WaiterKinds
<1>t. /\ waiters \in WaiterMaps /\ begun \in [Callis -> Ids \cup {None}]
      /\ order \in Seq(Ids \cup {None})
  BY DEF TypeOK, WaiterMaps
<1>m. forgotten \subseteq forgotten' /\ orphaned \subseteq orphaned'
  BY MonotoneStep DEF Monotone
<1>d. /\ \A x : Tracked(x)' => Tracked(x)
      /\ \A x : x \notin forgotten' => x \notin forgotten /\ Tracked(x)
  BY <1>m DEF Tracked
<1>0. ASSUME \A d \in Callis, x \in Ids : Owns(d, x)' <=> Owns(d, x),
             UNCHANGED pending,
             \A x \in Ids : x \in Range(order') => x \in Range(order)
      PROVE  OwnersInv'
  <2>1. ASSUME NEW x \in Ids
        PROVE  /\ Tracked(x)' => \A c, d \in Callis : Owns(c, x)' /\ Owns(d, x)' => c = d
               /\ Tracked(x)' => \A c \in Callis : Owns(c, x)' => x \in pending'
               /\ x \notin forgotten' => \A c \in Callis : Owns(c, x)' => x \notin Range(order')
               /\ x \notin orphaned' => (x \in pending' => \E c \in Callis : Owns(c, x)')
    BY <1>0, <1>d, <1>m, <2>1 DEF OwnersInv
  <2> QED BY <2>1 DEF OwnersInv
<1>1. ASSUME NEW c \in Callis, NEW id \in Ids, Owns(c, id),
             \A d \in Callis, x \in Ids : Owns(d, x)' <=> Owns(d, x) /\ ~(d = c /\ x = id),
             pending' = pending \ {id},
             \A x \in Ids : x \in Range(order') => x \in Range(order) \cup {id}
      PROVE  OwnersInv'
  <2>1. ASSUME NEW x \in Ids
        PROVE  /\ Tracked(x)' => \A e, d \in Callis : Owns(e, x)' /\ Owns(d, x)' => e = d
               /\ Tracked(x)' => \A e \in Callis : Owns(e, x)' => x \in pending'
               /\ x \notin forgotten' => \A e \in Callis : Owns(e, x)' => x \notin Range(order')
               /\ x \notin orphaned' => (x \in pending' => \E e \in Callis : Owns(e, x)')
    BY <1>1, <1>d, <1>m, <2>1 DEF OwnersInv
  <2> QED BY <2>1 DEF OwnersInv
<1>2. ASSUME NEW c \in Callis, NEW id \in Ids, receive_pending_duplicate(c, id)
      PROVE  OwnersInv'
  <2>1. \A d \in Callis, x \in Ids :
          waiters'[d][x] = IF d = c /\ x = id THEN Duplicate("none") ELSE waiters[d][x]
    BY <1>2, <1>t DEF receive_pending_duplicate, WaiterMaps
  <2>2. waiters[c][id] = None /\ UNCHANGED <<begun, pending, order>>
    BY <1>2 DEF receive_pending_duplicate, MayArrive
  <2>3. \A d \in Callis, x \in Ids : Owns(d, x)' <=> Owns(d, x)
    BY <2>1, <2>2, <1>k DEF Owns, Decisions
  <2> QED BY <1>0, <2>2, <2>3
<1>3. ASSUME NEW c \in Callis, NEW id \in Ids, receive_new(c, id)
      PROVE  OwnersInv'
  <2>1. /\ begun[c] = None /\ UNCHANGED <<waiters, order, orphaned, forgotten>>
        /\ id \notin pending /\ id \notin Range(order) /\ pending' = pending \cup {id}
        /\ begun' = [begun EXCEPT ![c] = id]
    BY <1>3 DEF receive_new, MayArrive, CanRead
  <2>2. \A d \in Callis, x \in Ids : Owns(d, x)' <=> Owns(d, x) \/ (d = c /\ x = id)
    BY <2>1, <1>t, ConstantsAssumption DEF Owns
  <2>3. ASSUME NEW x \in Ids
        PROVE  /\ Tracked(x)' => \A e, d \in Callis : Owns(e, x)' /\ Owns(d, x)' => e = d
               /\ Tracked(x)' => \A e \in Callis : Owns(e, x)' => x \in pending'
               /\ x \notin forgotten' => \A e \in Callis : Owns(e, x)' => x \notin Range(order')
               /\ x \notin orphaned' => (x \in pending' => \E e \in Callis : Owns(e, x)')
    BY <2>1, <2>2, <1>d, <1>m, <2>3 DEF OwnersInv
  <2> QED BY <2>3 DEF OwnersInv
<1>4. ASSUME NEW c \in Callis, enqueue(c)
      PROVE  OwnersInv'
  <2>1. /\ begun[c] \in Ids /\ begun' = [begun EXCEPT ![c] = None] /\ UNCHANGED <<pending, order>>
        /\ IsMessage(Message(Len(requests) + 1))
    BY <1>4, <1>t, WaiterKinds DEF enqueue, TypeOK
  <2>2. \A d \in Callis, x \in Ids : waiters'[d][x] =
          IF d = c /\ x = begun[c] THEN Message(Len(requests) + 1) ELSE waiters[d][x]
    BY <1>4, <1>t, <2>1 DEF enqueue, WaiterMaps
  <2>3. \A d \in Callis, x \in Ids : Owns(d, x)' <=> Owns(d, x)
    BY <2>1, <2>2, <1>t, ConstantsAssumption DEF Owns
  <2> QED BY <1>0, <2>1, <2>3
<1>5. ASSUME NEW c \in Callis, enqueue_refused(c)
      PROVE  OwnersInv'
  <2>1. /\ begun[c] \in Ids /\ begun' = [begun EXCEPT ![c] = None]
        /\ pending' = pending \ {begun[c]} /\ order' = order
    BY <1>5, <1>t DEF enqueue_refused, dedupe_complete
  <2>2. \A d \in Callis, x \in Ids : IsMessage(waiters'[d][x]) <=> IsMessage(waiters[d][x])
    BY <1>5, <1>k, EnqueueRefusedAt DEF Decisions
  <2>3. Owns(c, begun[c]) /\ ~IsMessage(waiters[c][begun[c]])
    BY <2>1, <1>k, ConstantsAssumption DEF Owns, BegunInv
  <2>4. \A d \in Callis, x \in Ids : Owns(d, x)' <=> Owns(d, x) /\ ~(d = c /\ x = begun[c])
    BY <2>1, <2>2, <2>3, <1>t, ConstantsAssumption DEF Owns
  <2> QED BY <1>1, <2>1, <2>3, <2>4
<1>6. ASSUME NEW c \in Callis, NEW id \in Ids, drain_message_waiter(c, id)
      PROVE  OwnersInv'
  <2> DEFINE ok == requests[waiters[c][id].req].state = "Accepted"
  <2>1. /\ dedupe_complete(Without(c, id), id, ok) /\ ok \in BOOLEAN
        /\ IsMessage(waiters[c][id]) /\ begun[c] = None /\ UNCHANGED begun
    BY <1>6, ZenonT(30) DEF drain_message_waiter, Running
  <2>2. pending' = pending \ {id}
    BY <2>1 DEF dedupe_complete
  <2>3. \A d \in Callis, x \in Ids :
          IsMessage(waiters'[d][x]) <=> IsMessage(waiters[d][x]) /\ ~(d = c /\ x = id)
    BY <1>6, <1>k, DrainMessageAt DEF Decisions
  <2>4. Without(c, id) \in WaiterMaps
    BY <1>t, ZenonT(30) DEF Without, WaiterMaps
  <2> HIDE DEF ok
  <2>5. Range(order') \subseteq Range(order) \cup {id}
    BY <1>t, <2>1, <2>4, CompleteAt
  <2>6. Owns(c, id) /\ \A d \in Callis, x \in Ids : Owns(d, x)' <=> Owns(d, x) /\ ~(d = c /\ x = id)
    BY <2>1, <2>3, ConstantsAssumption DEF Owns
  <2> QED BY <1>1, <2>2, <2>5, <2>6, ZenonT(30)
<1>7. ASSUME NEW c \in Callis, NEW id \in Ids, drain_duplicate_waiter(c, id)
      PROVE  OwnersInv'
  <2>1. \A d \in Callis, x \in Ids : waiters'[d][x] = IF d = c /\ x = id THEN None ELSE waiters[d][x]
    BY <1>7, <1>t, SMTT(30) DEF drain_duplicate_waiter, Without, WaiterMaps
  <2>2. UNCHANGED <<pending, order, begun>> /\ ~IsMessage(waiters[c][id])
    BY <1>7, ZenonT(30) DEF drain_duplicate_waiter, IsDuplicate, IsMessage
  <2>3. \A d \in Callis, x \in Ids : Owns(d, x)' <=> Owns(d, x)
    BY <2>1, <2>2, <1>k DEF Owns
  <2> QED BY <1>0, <2>2, <2>3
<1>8. ASSUME NEW c \in Callis, cancel_all(c)
      PROVE  OwnersInv'
  <2>1. /\ begun[c] = None /\ UNCHANGED <<begun, order, orphaned, forgotten>>
        /\ pending' = pending \ OwnedBy(c)
    BY <1>8 DEF cancel_all, Closed, ReadersInv
  <2>2. \A x \in Ids : x \in OwnedBy(c) <=> Owns(c, x)
    BY <2>1, ConstantsAssumption DEF OwnedBy, Owns
  <2>3. \A d \in Callis, x \in Ids : IsMessage(waiters'[d][x]) <=> IsMessage(waiters[d][x]) /\ d # c
    BY <1>8, <1>k, CancelAt DEF Decisions
  <2>4. \A d \in Callis, x \in Ids : Owns(d, x)' <=> Owns(d, x) /\ d # c
    BY <2>1, <2>3, ConstantsAssumption DEF Owns
  <2>5. ASSUME NEW x \in Ids
        PROVE  /\ Tracked(x)' => \A e, d \in Callis : Owns(e, x)' /\ Owns(d, x)' => e = d
               /\ Tracked(x)' => \A e \in Callis : Owns(e, x)' => x \in pending'
               /\ x \notin forgotten' => \A e \in Callis : Owns(e, x)' => x \notin Range(order')
               /\ x \notin orphaned' => (x \in pending' => \E e \in Callis : Owns(e, x)')
    BY <2>1, <2>2, <2>4, <1>d, <1>m, <2>5 DEF OwnersInv
  <2> QED BY <2>5 DEF OwnersInv
<1>9. ASSUME NEW c \in Callis, NEW close \in BOOLEAN, handler_error(c, close)
      PROVE  OwnersInv'
  <2>1. /\ begun[c] = None /\ UNCHANGED <<begun, order, pending, forgotten>>
        /\ orphaned' = orphaned \cup OwnedBy(c)
    BY <1>9 DEF handler_error, CanRead
  <2>2. \A x \in Ids : x \in OwnedBy(c) <=> Owns(c, x)
    BY <2>1, ConstantsAssumption DEF OwnedBy, Owns
  <2>3. \A d \in Callis, x \in Ids : Owns(d, x)' <=> Owns(d, x) /\ d # c
    BY <1>9, <1>k, <2>1, HandlerErrorAt, ConstantsAssumption DEF Owns
  <2>4. ASSUME NEW x \in Ids
        PROVE  /\ Tracked(x)' => \A e, d \in Callis : Owns(e, x)' /\ Owns(d, x)' => e = d
               /\ Tracked(x)' => \A e \in Callis : Owns(e, x)' => x \in pending'
               /\ x \notin forgotten' => \A e \in Callis : Owns(e, x)' => x \notin Range(order')
               /\ x \notin orphaned' => (x \in pending' => \E e \in Callis : Owns(e, x)')
    BY <2>1, <2>2, <2>3, <1>d, <1>m, <2>4 DEF OwnersInv
  <2> QED BY <2>4 DEF OwnersInv
<1>10. ASSUME fresh_session
       PROVE  OwnersInv'
  <2>1. /\ pending' = {} /\ UNCHANGED begun /\ Range(order') = {}
        /\ \A x \in pending : x \in orphaned' /\ x \in forgotten'
    BY <1>10 DEF fresh_session, Range
  <2>2. \A d \in Callis, x \in Ids : Owns(d, x)' <=> Owns(d, x)
    BY <1>10, <1>k, <2>1, FreshAt DEF Owns, Decisions
  <2>3. ASSUME NEW x \in Ids
        PROVE  Tracked(x)' => \A e \in Callis : ~Owns(e, x)'
    BY <2>1, <2>2, <1>d DEF OwnersInv, Tracked
  <2> QED BY <2>1, <2>3, <1>d DEF OwnersInv
<1>11. ASSUME other_delivered
       PROVE  OwnersInv'
  <2>1. UNCHANGED <<pending, waiters, begun>> /\ Range(order') \subseteq Range(order) \cup {None}
    BY <1>11, <1>t, RememberAt DEF other_delivered
  <2>2. \A d \in Callis, x \in Ids : Owns(d, x)' <=> Owns(d, x)
    BY <2>1 DEF Owns
  <2> QED BY <1>0, <2>1, <2>2, ConstantsAssumption
<1>12. ASSUME UNCHANGED <<pending, waiters, begun, order>>
       PROVE  OwnersInv'
  <2>1. \A d \in Callis, x \in Ids : Owns(d, x)' <=> Owns(d, x)
    BY <1>12 DEF Owns
  <2> QED BY <1>0, <1>12, <2>1
<1> QED
  BY <1>2, <1>3, <1>4, <1>5, <1>6, <1>7, <1>8, <1>9, <1>10, <1>11, <1>12, ZenonT(30)
  DEF Next, Reader, Receive, drain, Decision, vars, receive_refused, receive_duplicate,
      stop_reading, next, decide, expire, begin_close

\* A waiter for a request stays until its reader ends or drains the decision.
LEMMA MessageFate ==
  ASSUME TypeOK, BegunInv, SameCallisReplay = FALSE, [Next]_vars,
         NEW d \in Callis, NEW x \in Ids, IsMessage(waiters[d][x])
  PROVE  \/ waiters'[d][x] = waiters[d][x]
         \/ reader'[d] = "done"
         \/ drain_message_waiter(d, x)
<1> DEFINE Goal == \/ waiters'[d][x] = waiters[d][x]
                   \/ reader'[d] = "done"
                   \/ drain_message_waiter(d, x)
<1>k. waiters[d][x] # None /\ \A dec \in Decisions : waiters[d][x] # Duplicate(dec)
  BY WaiterKinds
<1>t. /\ waiters \in WaiterMaps /\ begun \in [Callis -> Ids \cup {None}]
      /\ reader \in [Callis -> {"open", "ConnectionLost", "LocalShutdown", "done"}]
  BY DEF TypeOK, WaiterMaps
<1>1. ASSUME NEW c \in Callis, NEW id \in Ids, receive_pending_duplicate(c, id)
      PROVE  Goal
  BY <1>1, <1>k, <1>t DEF receive_pending_duplicate, MayArrive, WaiterMaps
<1>2. ASSUME NEW c \in Callis, enqueue(c)
      PROVE  Goal
  BY <1>2, <1>k, <1>t DEF enqueue, BegunInv, WaiterMaps
<1>3. ASSUME NEW c \in Callis, enqueue_refused(c)
      PROVE  Goal
  BY <1>3, <1>k, EnqueueRefusedAt DEF Decisions
<1>4. ASSUME NEW c \in Callis, NEW id \in Ids, drain_message_waiter(c, id)
      PROVE  Goal
  <2>1. CASE d = c /\ x = id
    BY <1>4, <2>1
  <2>2. CASE ~(d = c /\ x = id)
    BY <1>4, <1>k, <2>2, DrainMessageAt DEF Decisions
  <2> QED BY <2>1, <2>2
<1>5. ASSUME NEW c \in Callis, NEW id \in Ids, drain_duplicate_waiter(c, id)
      PROVE  Goal
  BY <1>5, <1>t DEF drain_duplicate_waiter, Without, WaiterMaps, IsDuplicate, IsMessage
<1>6. ASSUME NEW c \in Callis, cancel_all(c)
      PROVE  Goal
  <2>1. reader'[c] = "done"
    BY <1>6, <1>t DEF cancel_all
  <2> QED BY <1>6, <1>k, <2>1, CancelAt DEF Decisions
<1>7. ASSUME NEW c \in Callis, NEW close \in BOOLEAN, handler_error(c, close)
      PROVE  Goal
  <2>1. reader'[c] = "done"
    BY <1>7, <1>t DEF handler_error
  <2> QED BY <1>7, <2>1, HandlerErrorAt
<1>8. ASSUME fresh_session
      PROVE  Goal
  BY <1>8, <1>k, FreshAt DEF Decisions
<1>9. ASSUME UNCHANGED waiters
      PROVE  Goal
  BY <1>9
<1> HIDE DEF Goal
<1>10. Goal
  BY <1>1, <1>2, <1>3, <1>4, <1>5, <1>6, <1>7, <1>8, <1>9, ZenonT(30)
  DEF Next, Reader, Receive, drain, Decision, vars, receive_refused, receive_duplicate,
      receive_new, stop_reading, next, decide, expire, begin_close, other_delivered
<1> QED BY <1>10 DEF Goal

\* Requests are appended by enqueue only.
LEMMA NewRequests ==
  ASSUME TypeOK, [Next]_vars, NEW q \in DOMAIN requests', q \notin DOMAIN requests
  PROVE  \E c \in Callis : /\ enqueue(c) /\ begun[c] \in Ids /\ q = Len(requests) + 1
                           /\ requests'[q] = [id |-> begun[c], by |-> c, state |-> "Queued"]
                           /\ waiters'[c][begun[c]] = Message(q)
<1>t. requests \in Seq(Requests) /\ inbox \in Seq(1..Len(requests))
  BY SMTT(30) DEF TypeOK
<1>1. ASSUME NEW c \in Callis, enqueue(c)
      PROVE  /\ begun[c] \in Ids /\ q = Len(requests) + 1
             /\ requests'[q] = [id |-> begun[c], by |-> c, state |-> "Queued"]
             /\ waiters'[c][begun[c]] = Message(q)
  <2>1. begun[c] \in Ids
    BY <1>1 DEF enqueue, TypeOK
  <2>2. q = Len(requests) + 1 /\ requests'[q] = [id |-> begun[c], by |-> c, state |-> "Queued"]
    BY <1>1, <1>t DEF enqueue
  <2>3. waiters'[c][begun[c]] = Message(Len(requests) + 1)
    BY <1>1, <2>1 DEF enqueue, TypeOK
  <2> QED BY <2>1, <2>2, <2>3, ZenonT(30)
<1>2. ASSUME DOMAIN requests' = DOMAIN requests
      PROVE  FALSE
  BY <1>2
<1>3. ASSUME NEW r \in DOMAIN requests, NEW st \in States, requests' = Restate(requests, r, st)
      PROVE  FALSE
  BY <1>2, <1>3, <1>t, RestateAt
<1>4. ~next
  <2> SUFFICES ASSUME next PROVE FALSE
    OBVIOUS
  <2>1. Head(inbox) \in DOMAIN requests /\ "Held" \in States
    BY <1>t DEF next, States
  <2>2. requests' = Restate(requests, Head(inbox), "Held")
    BY Zenon DEF next, Restate
  <2> QED BY <1>3, <2>1, <2>2
<1>5. ASSUME NEW r \in DOMAIN requests, NEW st \in {"Accepted", "Rejected"}, decide(r, st)
      PROVE  FALSE
  BY <1>3, <1>5 DEF decide, Restate, States
<1>6. ASSUME NEW i \in DOMAIN inbox, expire(i)
      PROVE  FALSE
  <2>1. inbox[i] \in DOMAIN requests /\ "Rejected" \in States
    BY <1>t DEF States
  <2>2. requests' = Restate(requests, inbox[i], "Rejected")
    BY <1>6, Zenon DEF expire, Restate
  <2> QED BY <1>3, <2>1, <2>2
<1>7. requests' # requests
  BY <1>2, SMTT(30)
<1>8. \E c \in Callis : enqueue(c)
  BY <1>4, <1>5, <1>6, <1>7, ZenonT(30)
  DEF Next, Reader, Receive, drain, Decision, vars, receive_refused, receive_duplicate,
      receive_pending_duplicate, receive_new, enqueue_refused, drain_message_waiter,
      drain_duplicate_waiter, cancel_all, stop_reading, handler_error, begin_close,
      fresh_session, other_delivered
<1> QED BY <1>1, <1>8

\* A request is waited for until its decision reached the history.
LEMMA RequestsStep ==
  ASSUME Progress, Ownership, SameCallisReplay = FALSE, [Next]_vars
  PROVE  RequestsInv'
<1>p. TypeOK /\ ReadersInv /\ MessagesInv /\ InboxInv /\ BegunInv /\ OwnersInv /\ RequestsInv
  BY DEF Progress, Ownership
<1>t. requests \in Seq(Requests) /\ waiters \in WaiterMaps /\ order \in Seq(Ids \cup {None})
  BY <1>p DEF TypeOK, WaiterMaps
<1>m. RequestsKept /\ Monotone
  BY <1>p, RequestsKeptStep, MonotoneStep
<1> SUFFICES ASSUME NEW q \in DOMAIN requests',
                    requests'[q].state # "Rejected", requests'[q].id \notin forgotten',
                    reader'[requests'[q].by] # "done"
             PROVE  \/ waiters'[requests'[q].by][requests'[q].id] = Message(q)
                    \/ requests'[q].state = "Accepted" /\ requests'[q].id \in Range(order')
  BY SMTT(30) DEF RequestsInv
<1>1. CASE q \in DOMAIN requests
  <2> DEFINE id == requests[q].id
             c  == requests[q].by
  <2>1. /\ requests'[q].id = id /\ requests'[q].by = c /\ id \in Ids /\ c \in Callis
        /\ requests[q].state # "Rejected"
        /\ requests[q].state = "Accepted" => requests'[q].state = "Accepted"
    <3>1. requests[q] \in Requests
      BY <1>1, <1>t
    <3>2. id \in Ids /\ c \in Callis
      BY <3>1 DEF Requests
    <3> QED BY <1>1, <1>m, <3>2 DEF RequestsKept
  <2> HIDE DEF id, c
  <2>2. id \notin forgotten' /\ id \notin forgotten /\ reader'[c] # "done" /\ reader[c] # "done"
    BY <1>m, <2>1 DEF Monotone
  <2>3. CASE requests[q].state = "Accepted" /\ id \in Range(order)
    BY <1>m, <2>1, <2>2, <2>3, SMTT(30) DEF Monotone
  <2>4. CASE waiters[c][id] = Message(q)
    <3>1. q \in Nat /\ IsMessage(waiters[c][id]) /\ waiters[c][id].req = q
      BY <1>1, <1>t, <2>4, WaiterKinds
    <3>2. CASE waiters'[c][id] = waiters[c][id]
      BY <2>1, <2>4, <3>2, ZenonT(30)
    <3>3. CASE drain_message_waiter(c, id)
      <4>1. requests[q].state = "Accepted" /\ requests'[q] = requests[q]
        BY <2>1, <3>1, <3>3, ZenonT(30) DEF drain_message_waiter
      <4>2. dedupe_complete(Without(c, id), id, TRUE)
        BY <3>1, <3>3, <4>1, ZenonT(30) DEF drain_message_waiter
      <4>3. /\ order' = remember(id)
            /\ forgotten' = forgotten \cup ((Range(order) \ Range(order')) \cap Ids)
        BY <4>2, ZenonT(30) DEF dedupe_complete, Evict
      <4>4. id \in Range(order') \cup forgotten'
        BY <1>t, <2>1, <4>3, RememberAt, SMTT(30)
      <4> QED BY <2>1, <2>2, <4>1, <4>4, SMTT(30)
    <3> QED BY <1>p, <2>1, <2>2, <3>1, <3>2, <3>3, MessageFate, ZenonT(30)
  <2> QED BY <1>1, <1>p, <2>1, <2>2, <2>3, <2>4, ZenonT(30) DEF RequestsInv, id, c
<1>2. CASE q \notin DOMAIN requests
  <2>1. PICK c \in Callis : /\ requests'[q] = [id |-> begun[c], by |-> c, state |-> "Queued"]
                            /\ waiters'[c][begun[c]] = Message(q)
    BY <1>2, <1>p, NewRequests
  <2> QED BY <2>1, SMTT(30)
<1> QED BY <1>1, <1>2, ZenonT(30)

\* A delivery starts again only when what was known of the first was lost.
LEMMA RedeliveryStep ==
  ASSUME Progress, Ownership, SameCallisReplay = FALSE, [Next]_vars
  PROVE  RedeliveryOnlyAfterLoss'
<1>p. /\ TypeOK /\ ReadersInv /\ MessagesInv /\ InboxInv /\ BegunInv /\ OwnersInv /\ RequestsInv
      /\ RedeliveryOnlyAfterLoss
  BY DEF Progress, Ownership
<1>t. requests \in Seq(Requests) /\ requests' \in Seq(Requests)
  BY <1>p, TypeStep DEF TypeOK
<1>m. RequestsKept /\ Monotone
  BY <1>p, RequestsKeptStep, MonotoneStep
<1> SUFFICES ASSUME NEW q \in DOMAIN requests', NEW r \in DOMAIN requests', q < r,
                    requests'[q].id = requests'[r].id, requests'[q].state # "Rejected",
                    reader'[requests'[q].by] # "done", requests'[q].id \notin forgotten'
             PROVE  FALSE
  BY DEF RedeliveryOnlyAfterLoss
<1>1. q \in DOMAIN requests
  <2>1. CASE r \in DOMAIN requests
    BY <1>t, <2>1
  <2>2. CASE r \notin DOMAIN requests
    <3>1. r = Len(requests) + 1
      BY <1>p, <2>2, NewRequests
    <3> QED BY <1>t, <3>1
  <2> QED BY <2>1, <2>2
<1> DEFINE id == requests[q].id
           c  == requests[q].by
<1>2. /\ requests'[q].id = id /\ requests'[q].by = c /\ id \in Ids /\ c \in Callis
      /\ requests[q].state # "Rejected"
  <2>1. requests[q] \in Requests
    BY <1>1, <1>t
  <2>2. id \in Ids /\ c \in Callis
    BY <2>1, SMTT(30) DEF Requests
  <2> QED BY <1>1, <1>m, <2>2 DEF RequestsKept
<1> HIDE DEF id, c
<1>3. id \notin forgotten /\ reader[c] # "done"
  BY <1>m, <1>2, ZenonT(30) DEF Monotone
<1>4. CASE r \in DOMAIN requests
  BY <1>1, <1>2, <1>3, <1>4, <1>p, <1>m, ZenonT(30) DEF RedeliveryOnlyAfterLoss, RequestsKept, id, c
<1>5. CASE r \notin DOMAIN requests
  <2>1. PICK d \in Callis : begun[d] \in Ids /\ requests'[r].id = begun[d]
    BY <1>5, <1>p, NewRequests
  <2>2. begun[d] = id /\ Owns(d, id) /\ waiters[d][id] = None /\ Tracked(id)
    BY <1>2, <1>3, <1>p, <2>1, ConstantsAssumption, ZenonT(30) DEF Owns, BegunInv, Tracked
  <2>3. \/ waiters[c][id] = Message(q)
        \/ id \in Range(order)
    BY <1>1, <1>2, <1>3, <1>p, SMTT(30) DEF RequestsInv, id, c
  <2>4. CASE id \in Range(order)
    BY <1>2, <1>3, <1>p, <2>2, <2>4, ZenonT(30) DEF OwnersInv
  <2>5. CASE waiters[c][id] = Message(q)
    <3>1. IsMessage(waiters[c][id]) /\ waiters[c][id] # None
      BY <1>1, <1>t, <2>5, WaiterKinds, SMTT(30) DEF IsMessage
    <3>2. c = d
      BY <1>2, <1>p, <2>2, <3>1 DEF OwnersInv, Owns
    <3> QED BY <2>2, <3>1, <3>2, ZenonT(30)
  <2> QED BY <2>3, <2>4, <2>5
<1> QED BY <1>4, <1>5

\* Without a replay to a callis that still waits, Ownership holds as well.
THEOREM OwnershipHolds ==
  ASSUME SameCallisReplay = FALSE
  PROVE  Spec => [](Progress /\ Ownership)
<1>1. Init => Progress /\ Ownership
  <2>1. ASSUME Init PROVE Ownership
    <3>1. requests = <<>> /\ pending = {} /\ \A c \in Callis : begun[c] = None
      BY <2>1 DEF Init
    <3>2. \A c \in Callis, id \in Ids : ~Owns(c, id)
      BY <2>1, WaiterKinds, ConstantsAssumption DEF Init, Owns
    <3>3. BegunInv /\ OwnersInv
      BY <3>1, <3>2 DEF BegunInv, OwnersInv
    <3>4. RequestsInv /\ RedeliveryOnlyAfterLoss
      BY <3>1 DEF RequestsInv, RedeliveryOnlyAfterLoss
    <3> QED BY <3>3, <3>4 DEF Ownership
  <2>2. Init => Progress
    BY InitProgress
  <2> QED BY <2>1, <2>2
<1>2. Progress /\ Ownership /\ [Next]_vars => (Progress /\ Ownership)'
  <2> SUFFICES ASSUME Progress, Ownership, [Next]_vars
               PROVE  Progress' /\ Ownership'
    OBVIOUS
  <2>1. Progress'
    BY ProgressStep
  <2>2. BegunInv' /\ OwnersInv'
    BY BegunStep, OwnersStep, Zenon DEF Progress, Ownership
  <2>3. RequestsInv' /\ RedeliveryOnlyAfterLoss'
    BY RequestsStep, RedeliveryStep, Zenon
  <2> QED BY <2>1, <2>2, <2>3 DEF Ownership
<1> QED BY <1>1, <1>2, PTL DEF Spec

\* Every delivery in progress has exactly one reader, and a reader delivers only
\* what is pending, until a broken loop or a fresh session orphans the id.
THEOREM OneOwner ==
  ASSUME SameCallisReplay = FALSE
  PROVE  Spec => []DeliveryHasOneOwner
<1>1. Progress /\ Ownership => DeliveryHasOneOwner
  <2> SUFFICES ASSUME Progress, Ownership, NEW id \in Ids, id \notin orphaned
               PROVE  IF id \in pending THEN \E c \in Callis : Owners(id) = {c} ELSE Owners(id) = {}
    BY DEF DeliveryHasOneOwner, Progress
  <2>1. /\ \A c, d \in Callis : Owns(c, id) /\ Owns(d, id) => c = d
        /\ \A c \in Callis : Owns(c, id) => id \in pending
        /\ id \in pending => \E c \in Callis : Owns(c, id)
    BY DEF Ownership, OwnersInv, Tracked
  <2>2. Owners(id) = {c \in Callis : Owns(c, id)}
    BY DEF Owners, Owns
  <2>3. CASE id \in pending
    <3>1. PICK c \in Callis : Owns(c, id)
      BY <2>1, <2>3
    <3>2. Owners(id) = {c}
      BY <2>1, <2>2, <3>1
    <3> QED BY <2>3, <3>2
  <2>4. CASE id \notin pending
    BY <2>1, <2>2, <2>4
  <2> QED BY <2>3, <2>4
<1> QED BY <1>1, OwnershipHolds, PTL

\* A message that is queued, held or accepted is delivered a second time only after
\* its callis stopped or the dedupe state lost the id.
THEOREM NoRedelivery ==
  ASSUME SameCallisReplay = FALSE
  PROVE  Spec => []RedeliveryOnlyAfterLoss
<1>1. Progress /\ Ownership => RedeliveryOnlyAfterLoss
  BY DEF Ownership
<1> QED BY <1>1, OwnershipHolds, PTL

=============================================================================
