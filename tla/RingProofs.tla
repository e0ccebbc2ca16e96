----------------------------- MODULE RingProofs -----------------------------
(***************************************************************************)
(* What the operations of the outbound ring of a blob stream do, for every *)
(* window and chunk size: they keep its books, and no byte is lost in      *)
(* chunk assembly.  The loop of push_available is a recursive function, so *)
(* the module starts with the two facts about natural numbers that reason  *)
(* about one: an inductive set contains every natural number, and a        *)
(* recursion over an interval has a solution.                              *)
(***************************************************************************)
EXTENDS RingBooks, FiniteSetTheorems, TLAPS

----------------------------------------------------------------------------
(* Induction and recursion over natural numbers. *)

\* A nonempty set of natural numbers has a least element.
LEMMA LeastElement ==
  ASSUME NEW T, T \subseteq Nat, T # {}
  PROVE  \E n \in T : \A m \in T : n <= m
<1> DEFINE R == {ss \in Nat \X Nat : ss[1] < ss[2]}
<1>1. IsWellFoundedOn(R, Nat)
  BY NatLessThanWellFounded, SMT DEF OpToRel
<1>2. \A x, y \in Nat : x < y => <<x, y>> \in R
  OBVIOUS
<1> HIDE DEF R
<1>3. PICK n \in T : \A y \in T : ~(<<y, n>> \in R)
  BY <1>1, WFMin, Zenon
<1>4. ASSUME NEW m \in T
      PROVE  n <= m
  <2>1. n \in Nat /\ m \in Nat /\ ~(m < n)
    BY <1>2, <1>3, Zenon
  <2> QED BY <2>1
<1> QED BY <1>4

\* Induction, with the property given as the set of the numbers that have it.
LEMMA InductiveSet ==
  ASSUME NEW S, 0 \in S, \A n \in Nat : n \in S => n + 1 \in S
  PROVE  Nat \subseteq S
<1> SUFFICES ASSUME Nat \ S # {} PROVE FALSE
  OBVIOUS
<1>1. PICK n \in Nat \ S : \A m \in Nat \ S : n <= m
  <2> DEFINE T == Nat \ S
  <2>1. T \subseteq Nat /\ T # {}
    OBVIOUS
  <2> HIDE DEF T
  <2>2. \E n \in T : \A m \in T : n <= m
    BY <2>1, LeastElement, Zenon
  <2> QED BY <2>2 DEF T
<1>2. n # 0 /\ n - 1 \in Nat /\ n - 1 < n /\ (n - 1) + 1 = n
  BY <1>1
<1>3. n - 1 \in S
  BY <1>1, <1>2
<1> QED BY <1>1, <1>2, <1>3

\* f is defined over 0..N by recursion from a with the step function g.
Recursion(P, a, N, g) == a \in P /\ N \in Nat /\ g \in [(1..N) \X P -> P]

Solution(f, P, a, N, g) ==
    f \in [0..N -> P] /\ f = [k \in 0..N |-> IF k = 0 THEN a ELSE g[<<k, f[k - 1]>>]]

\* A recursion over 0..N that stays in P has a solution.
LEMMA RecursionExists ==
  ASSUME NEW P, NEW a, NEW N, NEW g, Recursion(P, a, N, g)
  PROVE  \E f : Solution(f, P, a, N, g)
<1> USE DEF Recursion
<1> DEFINE Solves(f, n) == f[0] = a /\ \A k \in 1..n : f[k] = g[<<k, f[k - 1]>>]
           S == {n \in Nat : n <= N => \E f \in [0..n -> P] : Solves(f, n)}
<1>1. 0 \in S
  <2> DEFINE f == [k \in 0..0 |-> a]
  <2>1. f \in [0..0 -> P]
    OBVIOUS
  <2>2. f[0] = a
    OBVIOUS
  <2>3. \A k \in 1..0 : FALSE
    OBVIOUS
  <2> HIDE DEF f
  <2>4. Solves(f, 0)
    BY <2>2, <2>3
  <2> QED BY <2>1, <2>4
<1>2. ASSUME NEW n \in Nat, n \in S
      PROVE  n + 1 \in S
  <2> SUFFICES ASSUME n + 1 <= N PROVE \E f \in [0..(n + 1) -> P] : Solves(f, n + 1)
    OBVIOUS
  <2>1. PICK f \in [0..n -> P] : Solves(f, n)
    BY <1>2
  <2> DEFINE h == [k \in 0..(n + 1) |-> IF k = n + 1 THEN g[<<n + 1, f[n]>>] ELSE f[k]]
  <2>2. h \in [0..(n + 1) -> P]
    <3>1. f[n] \in P /\ n + 1 \in 1..N
      BY <2>1
    <3>2. g[<<n + 1, f[n]>>] \in P
      BY <3>1
    <3>3. \A k \in 0..(n + 1) : k # n + 1 => f[k] \in P
      BY <2>1
    <3> QED BY <3>2, <3>3
  <2>3. h[0] = a
    BY <2>1
  <2>4. ASSUME NEW k \in 1..(n + 1)
        PROVE  h[k] = g[<<k, h[k - 1]>>]
    <3>1. CASE k = n + 1
      <4>1. h[n + 1] = g[<<n + 1, f[n]>>] /\ h[n] = f[n] /\ k - 1 = n
        BY <3>1
      <4> QED BY <3>1, <4>1, Zenon
    <3>2. CASE k # n + 1
      BY <2>1, <3>2
    <3> QED BY <3>1, <3>2
  <2> QED BY <2>2, <2>3, <2>4, Zenon
<1> HIDE DEF S
<1>3. Nat \subseteq S
  BY <1>1, <1>2, InductiveSet
<1>4. PICK f \in [0..N -> P] : Solves(f, N)
  BY <1>3 DEF S
<1>5. \A k \in 0..N : k = 0 \/ k \in 1..N
  OBVIOUS
<1>6. f = [k \in 0..N |-> f[k]]
  BY <1>4
<1>7. [k \in 0..N |-> f[k]] = [k \in 0..N |-> IF k = 0 THEN a ELSE g[<<k, f[k - 1]>>]]
  BY <1>4, <1>5, Zenon
<1> QED BY <1>4, <1>6, <1>7, Zenon DEF Solution

----------------------------------------------------------------------------
(* The books of a ring. *)

----------------------------------------------------------------------------
(* The slots. *)

\* Remainders modulo the window are slots, and one turn around it comes back
\* to the same slot.
LEMMA WindowTurns ==
  /\ \A x \in Nat : x % WindowSize \in Slots
  /\ \A i \in Slots : i % WindowSize = i /\ (i + WindowSize) % WindowSize = i
<1> DEFINE W == WindowSize
<1>1. W \in Nat \ {0}
  BY SizeAssumption
<1> HIDE DEF W
<1>2. \A x \in Nat : x % W \in 0..(W - 1)
  BY <1>1
<1>3. \A i \in 0..(W - 1) : i % W = i
  BY <1>1
<1>4. \A i \in 0..(W - 1) : (i + W) % W = i
  BY <1>1
<1> QED BY <1>2, <1>3, <1>4 DEF Slots, W

\* next_empty_slot finds an empty slot when there is one.
LEMMA NextEmptySlotAt ==
  ASSUME NEW r, r.write_cursor \in Slots, InState(r, "Empty") # {}
  PROVE  next_empty_slot(r) \in InState(r, "Empty")
<1> DEFINE at(o) == (r.write_cursor + o) % WindowSize
           Hits == {o \in Slots : r.slots[at(o)].state = "Empty"}
<1>1. Hits # {}
  <2>1. PICK j \in Slots : r.slots[j].state = "Empty"
    BY DEF InState
  <2> DEFINE o == IF r.write_cursor <= j THEN j - r.write_cursor ELSE j - r.write_cursor + WindowSize
  <2>2. o \in Slots
    BY SizeAssumption DEF Slots
  <2>3. r.write_cursor + o = j \/ r.write_cursor + o = j + WindowSize
    BY SizeAssumption DEF Slots
  <2> HIDE DEF o
  <2>4. at(o) = j
    BY <2>3, WindowTurns
  <2> QED BY <2>1, <2>2, <2>4
<1>2. Hits \subseteq Nat
  BY SizeAssumption DEF Slots
<1> HIDE DEF Hits
<1>3. PICK o \in Hits : \A p \in Hits : o <= p
  BY <1>1, <1>2, LeastElement, Zenon
<1> USE DEF Hits
<1>4. \A p \in 0..(o - 1) : p \in Slots /\ ~(o <= p)
  BY SizeAssumption DEF Slots
<1>5. \E q \in Slots : /\ r.slots[at(q)].state = "Empty"
                       /\ \A p \in 0..(q - 1) : r.slots[at(p)].state # "Empty"
  BY <1>3, <1>4
<1> DEFINE c == CHOOSE q \in Slots : /\ r.slots[at(q)].state = "Empty"
                                     /\ \A p \in 0..(q - 1) : r.slots[at(p)].state # "Empty"
<1>6. c \in Slots /\ r.slots[at(c)].state = "Empty"
  BY <1>5, Zenon
<1>7. next_empty_slot(r) = at(c)
  BY DEF next_empty_slot
<1> HIDE DEF c
<1>8. at(c) \in Slots
  <2>1. r.write_cursor + c \in Nat
    BY <1>6, SizeAssumption DEF Slots
  <2> QED BY <2>1, WindowTurns
<1> QED BY <1>6, <1>7, <1>8 DEF InState


\* A map restricted to fewer keys.
LEMMA WithoutAt ==
  ASSUME NEW f, NEW D, NEW R, IsMap(f, D, R), NEW X, NEW g,
         g = [y \in DOMAIN f \ X |-> f[y]]
  PROVE  /\ IsMap(g, D, R)
         /\ DOMAIN g = DOMAIN f \ X
         /\ \A y \in DOMAIN g : g[y] = f[y]
<1>1. /\ DOMAIN g = DOMAIN f \ X
      /\ \A y \in DOMAIN g : g[y] = f[y]
      /\ g = [y \in DOMAIN g |-> g[y]]
  OBVIOUS
<1>2. DOMAIN g \subseteq D /\ \A y \in DOMAIN g : g[y] \in R
  BY <1>1 DEF IsMap
<1> QED BY <1>1, <1>2 DEF IsMap

Restricted(g, f, X) == g = [y \in DOMAIN f \ X |-> f[y]]

KeptMap(g, f, X, D, R) ==
    IsMap(g, D, R) /\ DOMAIN g = DOMAIN f \ X /\ \A y \in DOMAIN g : g[y] = f[y]

\* The same, with both sides named.
LEMMA WithoutIs ==
  ASSUME NEW f, NEW D, NEW R, IsMap(f, D, R), NEW X, NEW g, Restricted(g, f, X)
  PROVE  KeptMap(g, f, X, D, R)
BY WithoutAt DEF Restricted, KeptMap

\* A chunk that was just put into a slot.
Fresh(chunk_id, len, is_last) ==
    [state |-> "Ready", chunk_id |-> chunk_id, len |-> len, is_last |-> is_last,
     seq |-> 0, peer_msg_id |-> 0, callis_id |-> 0]

\* The ring r with a fresh chunk in slot i.
Filled(r, i, len, is_last) ==
    [lifecycle |-> r.lifecycle, error |-> r.error, next_chunk_id |-> r.next_chunk_id + 1,
     write_cursor |-> (i + 1) % WindowSize, write_buf |-> r.write_buf,
     pending_full |-> r.pending_full, created_any |-> TRUE,
     slots |-> [r.slots EXCEPT ![i] = Fresh(r.next_chunk_id, len, is_last)],
     chunk_index |-> With(r.chunk_index, r.next_chunk_id, i), ack_map |-> r.ack_map,
     inflight |-> r.inflight]

\* The slots of a ring are a finite set of WindowSize elements.
LEMMA SlotSets ==
  ASSUME NEW r
  PROVE  /\ IsFiniteSet(Slots) /\ Cardinality(Slots) = WindowSize
         /\ IsFiniteSet(Occupied(r)) /\ Cardinality(Occupied(r)) \in Nat
         /\ Cardinality(Occupied(r)) = live_chunk_count(r)
         /\ \A state : /\ IsFiniteSet(InState(r, state)) /\ Cardinality(InState(r, state)) \in Nat
                       /\ Cardinality(InState(r, state)) <= WindowSize
         /\ Cardinality(Occupied(r)) < WindowSize => InState(r, "Empty") # {}
<1>1. IsFiniteSet(Slots) /\ Cardinality(Slots) = WindowSize
  <2>1. 0 \in Int /\ WindowSize - 1 \in Int /\ ~(0 > WindowSize - 1)
    BY SizeAssumption
  <2> QED BY <2>1, FS_Interval, SizeAssumption DEF Slots
<1>2. Occupied(r) \in SUBSET Slots /\ \A state : InState(r, state) \in SUBSET Slots
  BY DEF Occupied, InState
<1>3. \A T \in SUBSET Slots : IsFiniteSet(T) /\ Cardinality(T) \in Nat /\ Cardinality(T) <= WindowSize
  BY <1>1, FS_Subset, FS_CardinalityType
<1>4. Cardinality(Occupied(r)) = live_chunk_count(r)
  BY DEF Occupied, live_chunk_count
<1>5. ASSUME Cardinality(Occupied(r)) < WindowSize
      PROVE  InState(r, "Empty") # {}
  <2>1. Occupied(r) # Slots
    BY <1>1, <1>5, SizeAssumption
  <2> QED BY <2>1 DEF Occupied, InState
<1> QED BY <1>1, <1>2, <1>3, <1>4, <1>5

\* enqueue_chunk on a ring with an empty slot.
LEMMA EnqueueAt ==
  ASSUME NEW Ids, NEW r, RingType(r, Ids), Cardinality(Occupied(r)) < WindowSize,
         NEW len, NEW is_last
  PROVE  \E i \in InState(r, "Empty") :
           enqueue_chunk(r, len, is_last) = Filled(r, i, len, is_last)
<1>1. InState(r, "Empty") # {}
  BY SlotSets
<1>2. next_empty_slot(r) \in InState(r, "Empty")
  BY <1>1, NextEmptySlotAt DEF RingType
<1> DEFINE i == next_empty_slot(r)
           chunk == [EmptySlot EXCEPT !.state = "Ready", !.chunk_id = r.next_chunk_id,
                                      !.len = len, !.is_last = is_last]
<1>a. chunk = Fresh(r.next_chunk_id, len, is_last)
  <2> SUFFICES ASSUME NEW q, q = chunk PROVE q = Fresh(r.next_chunk_id, len, is_last)
    OBVIOUS
  <2> QED BY Zenon DEF EmptySlot, Fresh
<1>b. enqueue_chunk(r, len, is_last) =
        [r EXCEPT !.slots[i] = chunk,
                  !.chunk_index = With(@, r.next_chunk_id, i),
                  !.next_chunk_id = @ + 1, !.created_any = TRUE,
                  !.write_cursor = (i + 1) % WindowSize]
  BY <1>1, Zenon DEF enqueue_chunk
<1> HIDE DEF chunk
<1>3. enqueue_chunk(r, len, is_last) =
        [r EXCEPT !.slots[i] = Fresh(r.next_chunk_id, len, is_last),
                  !.chunk_index = With(@, r.next_chunk_id, i),
                  !.next_chunk_id = @ + 1, !.created_any = TRUE,
                  !.write_cursor = (i + 1) % WindowSize]
  BY <1>a, <1>b
<1> HIDE DEF i
<1>4. enqueue_chunk(r, len, is_last) = Filled(r, i, len, is_last)
  BY <1>3, ZenonT(30) DEF Filled, RingType
<1> QED BY <1>2, <1>4 DEF i


\* The ring r with other values in the fields that are neither slots nor maps.
Refit(r, lifecycle, error, write_buf, pending_full, created_any) ==
    [lifecycle |-> lifecycle, error |-> error, next_chunk_id |-> r.next_chunk_id,
     write_cursor |-> r.write_cursor, write_buf |-> write_buf,
     pending_full |-> pending_full, created_any |-> created_any,
     slots |-> r.slots, chunk_index |-> r.chunk_index, ack_map |-> r.ack_map,
     inflight |-> r.inflight]

\* The updates of those fields that the code makes.
LEMMA RefitAt ==
  ASSUME NEW Ids, NEW r, RingType(r, Ids), NEW v, NEW w
  PROVE  /\ [r EXCEPT !.lifecycle = v] =
              Refit(r, v, r.error, r.write_buf, r.pending_full, r.created_any)
         /\ [r EXCEPT !.lifecycle = v, !.error = w] =
              Refit(r, v, w, r.write_buf, r.pending_full, r.created_any)
         /\ [r EXCEPT !.write_buf = v] =
              Refit(r, r.lifecycle, r.error, v, r.pending_full, r.created_any)
         /\ [r EXCEPT !.pending_full = v] =
              Refit(r, r.lifecycle, r.error, r.write_buf, v, r.created_any)
         /\ [r EXCEPT !.write_buf = v, !.created_any = w] =
              Refit(r, r.lifecycle, r.error, v, r.pending_full, w)
         /\ Refit(r, r.lifecycle, r.error, r.write_buf, r.pending_full, r.created_any) = r
<1>1. ASSUME NEW q, q = [r EXCEPT !.lifecycle = v]
      PROVE  q = Refit(r, v, r.error, r.write_buf, r.pending_full, r.created_any)
  BY <1>1, Zenon DEF Refit, RingType
<1>2. ASSUME NEW q, q = [r EXCEPT !.lifecycle = v, !.error = w]
      PROVE  q = Refit(r, v, w, r.write_buf, r.pending_full, r.created_any)
  BY <1>2, Zenon DEF Refit, RingType
<1>3. ASSUME NEW q, q = [r EXCEPT !.write_buf = v]
      PROVE  q = Refit(r, r.lifecycle, r.error, v, r.pending_full, r.created_any)
  BY <1>3, Zenon DEF Refit, RingType
<1>4. ASSUME NEW q, q = [r EXCEPT !.pending_full = v]
      PROVE  q = Refit(r, r.lifecycle, r.error, r.write_buf, v, r.created_any)
  BY <1>4, Zenon DEF Refit, RingType
<1>5. ASSUME NEW q, q = [r EXCEPT !.write_buf = v, !.created_any = w]
      PROVE  q = Refit(r, r.lifecycle, r.error, v, r.pending_full, w)
  BY <1>5, Zenon DEF Refit, RingType
<1>6. Refit(r, r.lifecycle, r.error, r.write_buf, r.pending_full, r.created_any) = r
  BY DEF Refit, RingType
<1> QED BY <1>1, <1>2, <1>3, <1>4, <1>5, <1>6, Zenon

\* The books do not depend on those fields, apart from the pending chunk.
LEMMA RefitBooks ==
  ASSUME NEW Ids, NEW r, Books(r, Ids), NEW lifecycle \in Lifecycles, NEW error,
         NEW write_buf \in 0..ChunkSize, NEW pending_full \in BOOLEAN,
         NEW created_any \in BOOLEAN,
         Cardinality(Occupied(r)) + (IF pending_full THEN 1 ELSE 0) <= WindowSize
  PROVE  LET s == Refit(r, lifecycle, error, write_buf, pending_full, created_any)
         IN  Books(s, Ids) /\ Occupied(s) = Occupied(r)
<1> DEFINE s == Refit(r, lifecycle, error, write_buf, pending_full, created_any)
<1>1. /\ s.lifecycle = lifecycle /\ s.error = error /\ s.next_chunk_id = r.next_chunk_id
      /\ s.write_cursor = r.write_cursor /\ s.write_buf = write_buf
      /\ s.pending_full = pending_full /\ s.created_any = created_any
      /\ s.slots = r.slots /\ s.chunk_index = r.chunk_index
      /\ s.ack_map = r.ack_map /\ s.inflight = r.inflight
  BY DEF Refit
<1>2. s = [lifecycle |-> s.lifecycle, error |-> s.error, next_chunk_id |-> s.next_chunk_id,
           write_cursor |-> s.write_cursor, write_buf |-> s.write_buf,
           pending_full |-> s.pending_full, created_any |-> s.created_any,
           slots |-> s.slots, chunk_index |-> s.chunk_index, ack_map |-> s.ack_map,
           inflight |-> s.inflight]
  BY <1>1, Zenon DEF Refit
<1> HIDE DEF s
<1>3. RingType(s, Ids)
  BY <1>1, <1>2 DEF Books, RingType
<1>4. /\ Occupied(s) = Occupied(r) /\ Attempted(s) = Attempted(r)
      /\ \A state : InState(s, state) = InState(r, state)
  BY <1>1 DEF Occupied, Attempted, InState
<1>5. has_window_capacity_for(s, 0)
  BY <1>1, <1>4, SlotSets, SizeAssumption DEF has_window_capacity_for
<1>6. Books(s, Ids)
  BY <1>1, <1>3, <1>4, <1>5 DEF Books
<1> QED BY <1>4, <1>6 DEF s

\* A fresh chunk keeps the books when the window has room for one more.
LEMMA EnqueuedBooks ==
  ASSUME NEW Ids, 0 \in Ids, NEW r, Books(r, Ids), NEW len \in 0..ChunkSize,
         NEW is_last \in BOOLEAN, NEW i \in InState(r, "Empty"),
         has_window_capacity_for(r, 1)
  PROVE  LET s == Filled(r, i, len, is_last)
         IN  /\ Books(s, Ids) /\ Occupied(s) = Occupied(r) \cup {i} /\ i \notin Occupied(r)
             /\ Cardinality(Occupied(s)) = Cardinality(Occupied(r)) + 1
<1> DEFINE s == Filled(r, i, len, is_last)
           chunk == Fresh(r.next_chunk_id, len, is_last)
<1>a. RingType(r, Ids) /\ i \in Slots
  BY DEF Books, InState
<1>1. /\ s.lifecycle = r.lifecycle /\ s.error = r.error /\ s.next_chunk_id = r.next_chunk_id + 1
      /\ s.write_cursor = (i + 1) % WindowSize /\ s.write_buf = r.write_buf
      /\ s.pending_full = r.pending_full /\ s.created_any = TRUE
      /\ s.slots = [r.slots EXCEPT ![i] = chunk]
      /\ s.chunk_index = With(r.chunk_index, r.next_chunk_id, i)
      /\ s.ack_map = r.ack_map /\ s.inflight = r.inflight
  BY DEF Filled
<1>2. s = [lifecycle |-> s.lifecycle, error |-> s.error, next_chunk_id |-> s.next_chunk_id,
           write_cursor |-> s.write_cursor, write_buf |-> s.write_buf,
           pending_full |-> s.pending_full, created_any |-> s.created_any,
           slots |-> s.slots, chunk_index |-> s.chunk_index, ack_map |-> s.ack_map,
           inflight |-> s.inflight]
  BY <1>1, Zenon DEF Filled
<1>3. /\ chunk \in SlotOf(Ids) /\ chunk.state = "Ready" /\ chunk.chunk_id = r.next_chunk_id
  BY <1>a DEF Fresh, SlotOf, SlotStates, RingType
<1> HIDE DEF s, chunk
<1>4. /\ s.slots \in [Slots -> SlotOf(Ids)] /\ s.slots[i] = chunk
      /\ \A j \in Slots : j # i => s.slots[j] = r.slots[j]
  BY <1>a, <1>1, <1>3 DEF RingType
<1>5. /\ IsMap(s.chunk_index, Nat, Slots)
      /\ DOMAIN s.chunk_index = DOMAIN r.chunk_index \cup {r.next_chunk_id}
      /\ s.chunk_index[r.next_chunk_id] = i
      /\ \A c \in DOMAIN r.chunk_index : c # r.next_chunk_id => s.chunk_index[c] = r.chunk_index[c]
  <2>1. IsMap(r.chunk_index, Nat, Slots) /\ r.next_chunk_id \in Nat
    BY <1>a DEF RingType
  <2> DEFINE g == With(r.chunk_index, r.next_chunk_id, i)
  <2>2. /\ DOMAIN g = DOMAIN r.chunk_index \cup {r.next_chunk_id} /\ g[r.next_chunk_id] = i
        /\ \A c \in DOMAIN r.chunk_index : c # r.next_chunk_id => g[c] = r.chunk_index[c]
        /\ g = [y \in DOMAIN g |-> g[y]]
    BY DEF With
  <2> HIDE DEF g
  <2>3. IsMap(g, Nat, Slots)
    BY <1>a, <2>1, <2>2 DEF IsMap
  <2>4. s.chunk_index = g
    BY <1>1 DEF g
  <2> QED BY <2>2, <2>3, <2>4
<1>6. s.write_cursor \in Slots
  <2>1. i + 1 \in Nat
    BY <1>a, SizeAssumption DEF Slots
  <2> QED BY <1>1, <2>1, WindowTurns
<1>7. RingType(s, Ids)
  <2>1. /\ s.lifecycle \in Lifecycles /\ s.next_chunk_id \in Nat /\ s.write_buf \in 0..ChunkSize
        /\ IsMap(s.ack_map, Nat, Nat) /\ s.inflight \in Nat
    BY <1>a, <1>1 DEF RingType
  <2>2. s.pending_full \in BOOLEAN /\ s.created_any \in BOOLEAN
    BY <1>a, <1>1, Zenon DEF RingType
  <2> QED BY <1>2, <1>4, <1>5, <1>6, <2>1, <2>2, Zenon DEF RingType
<1>8. /\ Occupied(s) = Occupied(r) \cup {i} /\ i \notin Occupied(r)
      /\ Attempted(s) = Attempted(r) /\ InState(s, "InFlight") = InState(r, "InFlight")
  BY <1>3, <1>4 DEF Occupied, Attempted, InState
<1>9. Cardinality(Occupied(s)) = Cardinality(Occupied(r)) + 1
  BY <1>8, SlotSets, FS_AddElement, ZenonT(30)
<1>10. has_window_capacity_for(s, 0)
  BY <1>1, <1>9, SlotSets, SizeAssumption DEF has_window_capacity_for
<1>11. \A j \in Occupied(r) : j \in Slots /\ j # i /\ s.slots[j] = r.slots[j]
  BY <1>4, <1>8 DEF Occupied
<1>12. \A j \in Attempted(r) : j \in Slots /\ j # i /\ s.slots[j] = r.slots[j] /\ j \in Occupied(r)
  BY <1>4, <1>8 DEF Occupied, Attempted
<1>13. \A j \in InState(r, "InFlight") : s.slots[j] = r.slots[j] /\ j \in Occupied(r)
  BY <1>12 DEF InState, Attempted
<1>14. \A j \in Occupied(s) : /\ s.slots[j].chunk_id < s.next_chunk_id
                             /\ s.chunk_index[s.slots[j].chunk_id] = j
  <2> TAKE j \in Occupied(s)
  <2>1. CASE j = i
    BY <2>1, <1>1, <1>3, <1>4, <1>5, <1>a DEF RingType
  <2>2. CASE j # i
    <3>1. j \in Occupied(r)
      BY <2>2, <1>8
    <3>2. /\ r.slots[j].chunk_id < r.next_chunk_id /\ r.chunk_index[r.slots[j].chunk_id] = j
          /\ r.slots[j].chunk_id \in DOMAIN r.chunk_index /\ r.slots[j].chunk_id \in Nat
      BY <3>1, <1>a DEF Books, RingType, SlotOf, Occupied, IsMap
    <3> QED BY <3>1, <3>2, <1>1, <1>5, <1>11, <1>a DEF RingType
  <2> QED BY <2>1, <2>2
<1>15. DOMAIN s.chunk_index = {s.slots[j].chunk_id : j \in Occupied(s)}
  <2>1. DOMAIN r.chunk_index = {r.slots[j].chunk_id : j \in Occupied(r)}
    BY DEF Books
  <2> QED BY <2>1, <1>3, <1>4, <1>5, <1>8, <1>11
<1>16. DOMAIN s.ack_map = {s.slots[j].peer_msg_id : j \in InState(s, "InFlight")}
  BY <1>1, <1>8, <1>13 DEF Books
<1>17. \A j \in InState(s, "InFlight") :
         s.ack_map[s.slots[j].peer_msg_id] = s.slots[j].chunk_id
  BY <1>1, <1>8, <1>13 DEF Books
<1>18. \A j, k \in Attempted(s) : s.slots[j].peer_msg_id = s.slots[k].peer_msg_id => j = k
  BY <1>8, <1>12 DEF Books
<1>19. s.inflight = Cardinality(InState(s, "InFlight"))
  BY <1>1, <1>8 DEF Books
<1>20. Books(s, Ids)
  BY <1>7, <1>10, <1>14, <1>15, <1>16, <1>17, <1>18, <1>19 DEF Books
<1> QED BY <1>8, <1>9, <1>20 DEF s


----------------------------------------------------------------------------
(* Sequences. *)

\* Two sequences in a row.
LEMMA JoinIs ==
  ASSUME NEW S, NEW d \in Seq(S), NEW e \in Seq(S)
  PROVE  /\ d \o e \in Seq(S) /\ Len(d \o e) = Len(d) + Len(e)
         /\ \A i \in 1..(Len(d) + Len(e)) :
              (d \o e)[i] = IF i <= Len(d) THEN d[i] ELSE e[i - Len(d)]
OBVIOUS

\* Joining in either order.
LEMMA JoinTwice ==
  ASSUME NEW S, NEW c \in Seq(S), NEW d \in Seq(S), NEW e \in Seq(S)
  PROVE  (c \o d) \o e = c \o (d \o e)
OBVIOUS

\* Joining nothing.
LEMMA JoinNothing ==
  ASSUME NEW S, NEW e \in Seq(S)
  PROVE  e \o <<>> = e /\ <<>> \o e = e
OBVIOUS

\* A sequence with one more element.
LEMMA AppendAdds ==
  ASSUME NEW S, NEW e \in Seq(S), NEW x \in S
  PROVE  /\ Append(e, x) \in Seq(S) /\ Len(Append(e, x)) = Len(e) + 1
         /\ \A i \in 1..Len(e) : Append(e, x)[i] = e[i]
         /\ Append(e, x)[Len(e) + 1] = x
OBVIOUS

\* Append is a join.
LEMMA AppendJoins ==
  ASSUME NEW S, NEW e \in Seq(S), NEW x \in S
  PROVE  Append(e, x) = e \o <<x>>
OBVIOUS

\* Sequences with the same elements are the same.
LEMMA SameElements ==
  ASSUME NEW S, NEW d \in Seq(S), NEW T, NEW e \in Seq(T), Len(d) = Len(e),
         \A i \in 1..Len(d) : d[i] = e[i]
  PROVE  d = e
OBVIOUS

----------------------------------------------------------------------------
(* The account of the bytes. *)

Chunk == [len : 0..ChunkSize, is_last : BOOLEAN]

\* f holds the running totals of the chunks e.
Totals(f, e) ==
    /\ f \in [0..Len(e) -> Nat] /\ f[0] = 0
    /\ \A n \in 1..Len(e) : f[n] = f[n - 1] + e[n].len

\* Bytes is the last of the running totals, whichever way they are given.
LEMMA BytesTotals ==
  ASSUME NEW e \in Seq(Chunk)
  PROVE  /\ \E f : Totals(f, e)
         /\ \A f : Totals(f, e) => Bytes(e) = f[Len(e)]
<1> DEFINE N == Len(e)
           g == [q \in (1..N) \X Nat |-> q[2] + e[q[1]].len]
<1>1. N \in Nat /\ \A n \in 1..N : e[n].len \in Nat
  <2>1. \A n \in 1..N : e[n] \in Chunk
    OBVIOUS
  <2>2. \A c \in Chunk : c.len \in Nat
    BY SizeAssumption DEF Chunk
  <2> QED BY <2>1, <2>2
<1> HIDE DEF N
<1>2. \A n \in 1..N, t \in Nat : g[<<n, t>>] = t + e[n].len
  OBVIOUS
<1>3. g \in [(1..N) \X Nat -> Nat]
  BY <1>1
<1> HIDE DEF g
<1>4. PICK h : Solution(h, Nat, 0, N, g)
  <2>1. Recursion(Nat, 0, N, g)
    BY <1>1, <1>3 DEF Recursion
  <2> QED BY <2>1, RecursionExists
<1>5. \A k \in 1..N : h[k - 1] \in Nat
  BY <1>1, <1>4 DEF Solution
<1>6. h[0] = 0 /\ \A n \in 1..N : h[n] = h[n - 1] + e[n].len
  BY <1>1, <1>2, <1>4, <1>5 DEF Solution
<1>7. Totals(h, e)
  BY <1>4, <1>6, Zenon DEF Totals, N, Solution
<1>8. h = [n \in 0..N |-> IF n = 0 THEN 0 ELSE h[n - 1] + e[n].len]
  <2>1. \A k \in 0..N : k = 0 \/ k \in 1..N
    BY <1>1
  <2>2. h = [n \in 0..N |-> h[n]]
    BY <1>4 DEF Solution
  <2>3. [n \in 0..N |-> h[n]] = [n \in 0..N |-> IF n = 0 THEN 0 ELSE h[n - 1] + e[n].len]
    BY <1>6, <2>1, Zenon
  <2> QED BY <2>2, <2>3, Zenon
<1> DEFINE sum[n \in 0..N] == IF n = 0 THEN 0 ELSE sum[n - 1] + e[n].len
<1>9. sum = [n \in 0..N |-> IF n = 0 THEN 0 ELSE sum[n - 1] + e[n].len]
  BY <1>8, Zenon
<1>10. Bytes(e) = sum[N]
  BY DEF Bytes, N
<1> HIDE DEF sum
<1>11. \A n \in 0..N : sum[n] = IF n = 0 THEN 0 ELSE sum[n - 1] + e[n].len
  BY <1>9, Zenon
<1>12. ASSUME NEW f, Totals(f, e)
       PROVE  Bytes(e) = f[Len(e)]
  <2> DEFINE S == {n \in Nat : n <= N => sum[n] = f[n]}
  <2>1. 0 \in S
    BY <1>1, <1>11, <1>12 DEF Totals
  <2>2. ASSUME NEW n \in Nat, n \in S
        PROVE  n + 1 \in S
    <3> SUFFICES ASSUME n + 1 <= N PROVE sum[n + 1] = f[n + 1]
      OBVIOUS
    <3>1. sum[n] = f[n] /\ n + 1 \in 1..N /\ n + 1 \in 0..N /\ n + 1 # 0 /\ (n + 1) - 1 = n
      BY <1>1, <2>2
    <3>2. sum[n + 1] = sum[n] + e[n + 1].len
      BY <1>11, <3>1
    <3>3. f[n + 1] = f[n] + e[n + 1].len
      BY <1>12, <3>1 DEF Totals, N
    <3> QED BY <3>1, <3>2, <3>3
  <2> HIDE DEF S
  <2>3. Nat \subseteq S
    BY <2>1, <2>2, InductiveSet
  <2>4. sum[N] = f[N]
    BY <1>1, <2>3 DEF S
  <2> QED BY <1>10, <2>4 DEF N
<1> QED BY <1>7, <1>12

\* What chunks carry is a number.
LEMMA BytesNat ==
  ASSUME NEW e \in Seq(Chunk)
  PROVE  Bytes(e) \in Nat
<1>1. PICK f : Totals(f, e)
  BY BytesTotals
<1>2. Len(e) \in 0..Len(e)
  OBVIOUS
<1>3. f[Len(e)] \in Nat
  BY <1>1, <1>2 DEF Totals
<1> QED BY <1>1, <1>3, BytesTotals

\* One more chunk adds its length.
LEMMA BytesAppend ==
  ASSUME NEW e \in Seq(Chunk), NEW x \in Chunk
  PROVE  /\ Bytes(e) \in Nat
         /\ Append(e, x) \in Seq(Chunk)
         /\ Bytes(Append(e, x)) = Bytes(e) + x.len
<1>1. PICK f : Totals(f, e)
  BY BytesTotals
<1>2. Len(e) \in Nat /\ x.len \in Nat
  BY SizeAssumption DEF Chunk
<1>3. Bytes(e) = f[Len(e)] /\ f[Len(e)] \in Nat
  BY <1>1, <1>2, BytesTotals DEF Totals
<1> DEFINE d == Append(e, x)
           h == [n \in 0..(Len(e) + 1) |-> IF n = Len(e) + 1 THEN f[Len(e)] + x.len ELSE f[n]]
<1>4. /\ d \in Seq(Chunk) /\ Len(d) = Len(e) + 1 /\ d[Len(e) + 1] = x
      /\ \A n \in 1..Len(e) : d[n] = e[n]
  OBVIOUS
<1> HIDE DEF d
<1>5. /\ h \in [0..(Len(e) + 1) -> Nat] /\ h[0] = 0 /\ h[Len(e) + 1] = f[Len(e)] + x.len
      /\ \A n \in 0..Len(e) : h[n] = f[n]
  BY <1>1, <1>2, <1>3 DEF Totals
<1> HIDE DEF h
<1>6. \A n \in 1..(Len(e) + 1) : h[n] = h[n - 1] + d[n].len
  <2> TAKE n \in 1..(Len(e) + 1)
  <2>1. CASE n = Len(e) + 1
    BY <2>1, <1>2, <1>4, <1>5
  <2>2. CASE n # Len(e) + 1
    <3>1. n \in 1..Len(e) /\ n - 1 \in 0..Len(e) /\ n \in 0..Len(e)
      BY <2>2, <1>2
    <3> QED BY <3>1, <1>1, <1>4, <1>5 DEF Totals
  <2> QED BY <2>1, <2>2
<1>7. Totals(h, d)
  BY <1>4, <1>5, <1>6 DEF Totals
<1>8. Bytes(d) = h[Len(d)]
  BY <1>4, <1>7, BytesTotals
<1> QED BY <1>3, <1>4, <1>5, <1>8 DEF d

\* No chunks carry no bytes.
LEMMA BytesEmpty ==
  Bytes(<<>>) = 0
<1> DEFINE f == [n \in 0..0 |-> 0]
           e == <<>>
<1>1. e \in Seq(Chunk) /\ Len(e) = 0
  OBVIOUS
<1>2. f \in [0..0 -> Nat] /\ f[0] = 0 /\ \A n \in 1..0 : FALSE
  OBVIOUS
<1> HIDE DEF e, f
<1>3. Totals(f, e)
  BY <1>1, <1>2 DEF Totals
<1> QED BY <1>1, <1>2, <1>3, BytesTotals DEF e


\* Bytes the ring holds that are not in a chunk yet.
Buffered(r) == (IF r.pending_full THEN ChunkSize ELSE 0) + r.write_buf

\* Chunk assembly takes r to s: it only fills empty slots.
Grown(r, s) ==
    /\ s.lifecycle = r.lifecycle /\ s.error = r.error
    /\ s.ack_map = r.ack_map /\ s.inflight = r.inflight
    /\ r.next_chunk_id \in Nat /\ r.next_chunk_id <= s.next_chunk_id
    /\ \A i \in Occupied(r) : s.slots[i] = r.slots[i]
    /\ \A i \in Occupied(s) \ Occupied(r) :
         s.slots[i].state = "Ready" /\ r.next_chunk_id <= s.slots[i].chunk_id
    /\ \A c \in r.next_chunk_id..(s.next_chunk_id - 1) : c \in DOMAIN s.chunk_index

\* Assembly took r to s after it had made the chunks e, and a bytes have been
\* accepted altogether.
Stage(Ids, r, e, s, a) ==
    /\ Books(s, Ids) /\ Grown(r, s)
    /\ e \in Seq(Chunk) /\ NewChunks(r, s) \in Seq(Chunk)
    /\ a \in Nat /\ a = Bytes(e \o NewChunks(r, s)) + Buffered(s)

\* Other values of the remaining fields make no chunk.
LEMMA RefitGrown ==
  ASSUME NEW r, NEW s, Grown(r, s), NEW write_buf, NEW pending_full, NEW created_any
  PROVE  LET t == Refit(s, s.lifecycle, s.error, write_buf, pending_full, created_any)
         IN  Grown(r, t) /\ NewChunks(r, t) = NewChunks(r, s)
<1> DEFINE t == Refit(s, s.lifecycle, s.error, write_buf, pending_full, created_any)
<1>1. /\ t.lifecycle = s.lifecycle /\ t.error = s.error /\ t.next_chunk_id = s.next_chunk_id
      /\ t.slots = s.slots /\ t.chunk_index = s.chunk_index
      /\ t.ack_map = s.ack_map /\ t.inflight = s.inflight
  BY DEF Refit
<1> HIDE DEF t
<1>2. Occupied(t) = Occupied(s)
  BY <1>1 DEF Occupied
<1>3. Grown(r, t)
  BY <1>1, <1>2 DEF Grown
<1>4. NewChunks(r, t) = NewChunks(r, s)
  BY <1>1, Zenon DEF NewChunks
<1> QED BY <1>3, <1>4 DEF t

\* b is one longer than a, which it starts with.
OneLonger(S, a, y, b) ==
    /\ a \in Seq(S) /\ y \in S
    /\ b = [n \in 1..(Len(a) + 1) |-> b[n]]
    /\ \A n \in 1..Len(a) : b[n] = a[n]
    /\ b[Len(a) + 1] = y

\* A sequence one longer, with the same elements before, is an Append.
LEMMA AppendIs ==
  ASSUME NEW S, NEW a, NEW y, NEW b, OneLonger(S, a, y, b)
  PROVE  b = Append(a, y)
<1> USE DEF OneLonger
<1> DEFINE N == Len(a)
<1>1. N \in Nat /\ \A n \in 1..(N + 1) : n \in 1..N \/ n = N + 1
  OBVIOUS
<1>2. \A n \in 1..(N + 1) : b[n] \in S
  <2>1. \A n \in 1..N : a[n] \in S
    OBVIOUS
  <2> QED BY <1>1, <2>1, Zenon
<1>3. b \in Seq(S) /\ Len(b) = N + 1
  BY <1>1, <1>2
<1> DEFINE d == Append(a, y)
<1>4. d \in Seq(S) /\ Len(d) = N + 1 /\ d[N + 1] = y /\ \A n \in 1..N : d[n] = a[n]
  BY AppendAdds
<1> HIDE DEF d
<1>5. \A n \in 1..Len(b) : b[n] = d[n]
  BY <1>1, <1>3, <1>4, ZenonT(30)
<1> QED BY <1>3, <1>4, <1>5, SameElements, Zenon DEF d

\* A fresh chunk is one more new chunk.
LEMMA EnqueuedGrown ==
  ASSUME NEW Ids, NEW r, NEW s, Books(s, Ids), Grown(r, s), NewChunks(r, s) \in Seq(Chunk),
         NEW len \in 0..ChunkSize, NEW is_last \in BOOLEAN, NEW i \in InState(s, "Empty")
  PROVE  LET t == Filled(s, i, len, is_last)
             x == [len |-> len, is_last |-> is_last]
         IN  Grown(r, t) /\ NewChunks(r, t) = Append(NewChunks(r, s), x)
<1> DEFINE t == Filled(s, i, len, is_last)
           x == [len |-> len, is_last |-> is_last]
           chunk == Fresh(s.next_chunk_id, len, is_last)
           N == s.next_chunk_id - r.next_chunk_id
           slot(u, n) == u.slots[u.chunk_index[r.next_chunk_id + n - 1]]
<1>1. /\ t.lifecycle = s.lifecycle /\ t.error = s.error /\ t.next_chunk_id = s.next_chunk_id + 1
      /\ t.slots = [s.slots EXCEPT ![i] = chunk]
      /\ t.chunk_index = With(s.chunk_index, s.next_chunk_id, i)
      /\ t.ack_map = s.ack_map /\ t.inflight = s.inflight
  BY ZenonT(30) DEF Filled
<1>2. /\ i \in Slots /\ i \notin Occupied(s) /\ s.next_chunk_id \in Nat /\ r.next_chunk_id \in Nat
      /\ N \in Nat /\ s.slots \in [Slots -> SlotOf(Ids)]
  BY DEF Books, RingType, InState, Grown, Occupied
<1>3. /\ chunk.state = "Ready" /\ chunk.len = len /\ chunk.is_last = is_last
      /\ chunk.chunk_id = s.next_chunk_id
  BY DEF Fresh
<1> HIDE DEF t, chunk
<1>4. t.slots[i] = chunk /\ \A j \in Slots : j # i => t.slots[j] = s.slots[j]
  BY <1>1, <1>2
<1>5. /\ DOMAIN t.chunk_index = DOMAIN s.chunk_index \cup {s.next_chunk_id}
      /\ t.chunk_index[s.next_chunk_id] = i
      /\ \A c \in DOMAIN s.chunk_index : c # s.next_chunk_id => t.chunk_index[c] = s.chunk_index[c]
  BY <1>1 DEF With
<1>6. Occupied(t) = Occupied(s) \cup {i}
  BY <1>2, <1>3, <1>4 DEF Occupied
<1>7. Grown(r, t)
  <2>1. \A j \in Occupied(r) : t.slots[j] = r.slots[j]
    BY <1>2, <1>4 DEF Grown, Occupied
  <2>2. \A j \in Occupied(t) \ Occupied(r) :
          t.slots[j].state = "Ready" /\ r.next_chunk_id <= t.slots[j].chunk_id
    BY <1>2, <1>3, <1>4, <1>6 DEF Grown, Occupied
  <2>3. \A c \in r.next_chunk_id..(t.next_chunk_id - 1) : c \in DOMAIN t.chunk_index
    BY <1>1, <1>2, <1>5 DEF Grown
  <2> QED BY <1>1, <1>2, <2>1, <2>2, <2>3 DEF Grown
<1>8. ASSUME NEW n \in 1..N
      PROVE  slot(t, n) = slot(s, n)
  <2> DEFINE c == r.next_chunk_id + n - 1
  <2>1. c \in r.next_chunk_id..(s.next_chunk_id - 1) /\ c # s.next_chunk_id
    BY <1>2
  <2> HIDE DEF c
  <2>2. c \in DOMAIN s.chunk_index
    BY <2>1 DEF Grown
  <2>3. PICK j \in Occupied(s) : s.slots[j].chunk_id = c
    BY <2>2 DEF Books
  <2>4. s.chunk_index[c] = j /\ j \in Slots /\ j # i
    BY <1>2, <2>3, ZenonT(30) DEF Books, Occupied
  <2>5. t.chunk_index[c] = j
    BY <1>5, <2>1, <2>2, <2>4
  <2> QED BY <1>4, <2>4, <2>5 DEF c
<1>9. slot(t, N + 1) = chunk
  <2>1. r.next_chunk_id + (N + 1) - 1 = s.next_chunk_id
    BY <1>2
  <2> QED BY <1>4, <1>5, <2>1
<1>10. t.next_chunk_id - r.next_chunk_id = N + 1
  BY <1>1, <1>2
<1> DEFINE old == NewChunks(r, s)
           new == NewChunks(r, t)
<1>11. /\ new = [n \in 1..(N + 1) |-> [len |-> slot(t, n).len, is_last |-> slot(t, n).is_last]]
       /\ old = [n \in 1..N |-> [len |-> slot(s, n).len, is_last |-> slot(s, n).is_last]]
  BY <1>10, ZenonT(30) DEF NewChunks
<1> HIDE DEF slot
<1>12. /\ \A n \in 1..N : new[n] = old[n]
       /\ new[N + 1] = x
  BY <1>2, <1>3, <1>8, <1>9, <1>11
<1>13. DOMAIN new = 1..(N + 1) /\ Len(old) = N
  BY <1>2, <1>11
<1>14. new = [n \in 1..(N + 1) |-> new[n]]
  BY <1>11
<1> HIDE DEF old, new, N, x
<1>15. new = Append(old, x)
  <2>a. old \in Seq(Chunk) /\ x \in Chunk
    BY DEF old, x, Chunk
  <2>1. OneLonger(Chunk, old, x, new)
    BY <1>2, <1>12, <1>13, <1>14, <2>a, Zenon DEF OneLonger
  <2> QED BY <2>1, AppendIs
<1> QED BY <1>7, <1>15 DEF t, old, new, x


\* Appending to the second part of a concatenation.
LEMMA ConcatAppend ==
  ASSUME NEW S, NEW e \in Seq(S), NEW d \in Seq(S), NEW x \in S
  PROVE  e \o Append(d, x) = Append(e \o d, x) /\ e \o d \in Seq(S)
<1>1. <<x>> \in Seq(S)
  OBVIOUS
<1>2. e \o d \in Seq(S)
  BY JoinIs
<1>3. Append(d, x) = d \o <<x>>
  BY AppendJoins
<1>4. Append(e \o d, x) = (e \o d) \o <<x>>
  <2>1. ASSUME NEW f \in Seq(S) PROVE Append(f, x) = f \o <<x>>
    BY AppendJoins
  <2> QED BY <1>2, <2>1
<1>5. (e \o d) \o <<x>> = e \o (d \o <<x>>)
  BY <1>1, JoinTwice
<1> QED BY <1>2, <1>3, <1>4, <1>5

\* In a stage s, len bytes leave the buffers for a chunk and u is the ring
\* without them, with room for one more chunk.
Moved(Ids, r, e, s, a, u, write_buf, pending_full, created_any, len, is_last) ==
    /\ 0 \in Ids /\ Stage(Ids, r, e, s, a)
    /\ write_buf \in 0..ChunkSize /\ pending_full \in BOOLEAN /\ created_any \in BOOLEAN
    /\ len \in 0..ChunkSize /\ is_last \in BOOLEAN
    /\ u = Refit(s, s.lifecycle, s.error, write_buf, pending_full, created_any)
    /\ Buffered(u) + len = Buffered(s) /\ has_window_capacity_for(u, 1)

Enlarged(Ids, r, e, s, a, u, write_buf, pending_full, len, is_last) ==
    LET t == enqueue_chunk(u, len, is_last)
    IN  /\ Stage(Ids, r, e, t, a)
        /\ t.write_buf = write_buf /\ t.pending_full = pending_full
        /\ t.created_any = TRUE
        /\ Cardinality(Occupied(t)) = Cardinality(Occupied(s)) + 1
        /\ NewChunks(r, t) = Append(NewChunks(r, s), [len |-> len, is_last |-> is_last])

\* One enqueue_chunk of a stage.
LEMMA StageEnqueue ==
  ASSUME NEW Ids, NEW r, NEW e, NEW s, NEW a, NEW u, NEW write_buf, NEW pending_full,
         NEW created_any, NEW len, NEW is_last,
         Moved(Ids, r, e, s, a, u, write_buf, pending_full, created_any, len, is_last)
  PROVE  Enlarged(Ids, r, e, s, a, u, write_buf, pending_full, len, is_last)
<1> DEFINE t == enqueue_chunk(u, len, is_last)
           x == [len |-> len, is_last |-> is_last]
<1> USE DEF Moved
<1>1. /\ Books(s, Ids) /\ Grown(r, s) /\ e \in Seq(Chunk) /\ NewChunks(r, s) \in Seq(Chunk)
      /\ a \in Nat /\ a = Bytes(e \o NewChunks(r, s)) + Buffered(s)
  BY DEF Stage
<1>2. u.write_buf = write_buf /\ u.pending_full = pending_full /\ u.slots = s.slots
  BY DEF Refit
<1>3. Occupied(u) = Occupied(s) /\ Cardinality(Occupied(s)) \in Nat
  BY <1>2, SlotSets, Zenon DEF Occupied
<1>4. /\ Cardinality(Occupied(s)) + (IF pending_full THEN 1 ELSE 0) <= WindowSize
      /\ Cardinality(Occupied(s)) < WindowSize
  BY <1>2, <1>3, SlotSets, SizeAssumption DEF has_window_capacity_for
<1>5. Books(u, Ids)
  <2>1. s.lifecycle \in Lifecycles
    BY <1>1, ZenonT(30) DEF Books, RingType
  <2> QED BY <1>1, <1>4, <2>1, RefitBooks
<1>6. Grown(r, u) /\ NewChunks(r, u) = NewChunks(r, s)
  BY <1>1, RefitGrown, SMTT(30)
<1>7. PICK i \in InState(u, "Empty") : t = Filled(u, i, len, is_last)
  BY <1>3, <1>4, <1>5, EnqueueAt, SMTT(30) DEF Books
<1> HIDE DEF t, x
<1>8. /\ Books(t, Ids) /\ Cardinality(Occupied(t)) = Cardinality(Occupied(s)) + 1
  BY <1>3, <1>5, <1>7, EnqueuedBooks
<1>9. t.write_buf = write_buf /\ t.pending_full = pending_full /\ t.created_any = TRUE
  BY <1>2, <1>7, ZenonT(30) DEF Filled
<1>10. Grown(r, t) /\ NewChunks(r, t) = Append(NewChunks(r, s), x)
  BY <1>1, <1>5, <1>6, <1>7, EnqueuedGrown DEF x
<1>11. x \in Chunk /\ x.len = len
  BY DEF x, Chunk
<1>12. ASSUME NEW d \in Seq(Chunk)
       PROVE  /\ e \o Append(d, x) = Append(e \o d, x) /\ e \o d \in Seq(Chunk)
              /\ Append(d, x) \in Seq(Chunk)
              /\ Bytes(e \o d) \in Nat /\ Bytes(Append(e \o d, x)) = Bytes(e \o d) + len
  <2>1. e \o Append(d, x) = Append(e \o d, x) /\ e \o d \in Seq(Chunk)
    BY <1>1, <1>11, ConcatAppend, ZenonT(30)
  <2>2. Append(d, x) \in Seq(Chunk)
    BY <1>11
  <2>3. ASSUME NEW f \in Seq(Chunk)
        PROVE  Bytes(f) \in Nat /\ Bytes(Append(f, x)) = Bytes(f) + len
    BY <1>11, BytesAppend
  <2> QED BY <2>1, <2>2, <2>3, ZenonT(30)
<1>13. /\ NewChunks(r, t) \in Seq(Chunk)
       /\ Bytes(e \o NewChunks(r, t)) = Bytes(e \o NewChunks(r, s)) + len
       /\ Bytes(e \o NewChunks(r, s)) \in Nat
  BY <1>1, <1>10, <1>12, Zenon
<1>14. Buffered(t) = Buffered(u) /\ Buffered(u) \in Nat
  BY <1>2, <1>9, SizeAssumption DEF Buffered
<1>15. a = Bytes(e \o NewChunks(r, t)) + Buffered(t)
  BY <1>1, <1>13, <1>14, SizeAssumption
<1>16. Stage(Ids, r, e, t, a)
  BY <1>1, <1>8, <1>10, <1>13, <1>15 DEF Stage
<1> QED BY <1>8, <1>9, <1>10, <1>16 DEF t, x, Enlarged


\* Chunk assembly starts from where the ring is.
LEMMA StageStart ==
  ASSUME NEW Ids, NEW r, Books(r, Ids), NEW e \in Seq(Chunk), NEW a \in Nat,
         a = Bytes(e) + Buffered(r)
  PROVE  Stage(Ids, r, e, r, a) /\ NewChunks(r, r) = <<>>
<1>1. r.next_chunk_id \in Nat
  BY DEF Books, RingType
<1>2. NewChunks(r, r) = <<>>
  <2>1. r.next_chunk_id - r.next_chunk_id = 0
    BY <1>1
  <2> QED BY <2>1 DEF NewChunks
<1>3. e \o <<>> = e /\ <<>> \in Seq(Chunk)
  BY JoinNothing
<1>4. Grown(r, r)
  BY <1>1 DEF Grown
<1> QED BY <1>2, <1>3, <1>4 DEF Stage

\* In a stage s the buffers become those of u, and b bytes are accepted.
Refitted(Ids, r, e, s, a, u, write_buf, pending_full, created_any, b) ==
    /\ Stage(Ids, r, e, s, a)
    /\ write_buf \in 0..ChunkSize /\ pending_full \in BOOLEAN /\ created_any \in BOOLEAN
    /\ u = Refit(s, s.lifecycle, s.error, write_buf, pending_full, created_any)
    /\ Cardinality(Occupied(s)) + (IF pending_full THEN 1 ELSE 0) <= WindowSize
    /\ b \in Nat /\ b + Buffered(s) = a + Buffered(u)

Kept(Ids, r, e, s, u, write_buf, pending_full, b) ==
    /\ Stage(Ids, r, e, u, b) /\ NewChunks(r, u) = NewChunks(r, s)
    /\ Occupied(u) = Occupied(s)
    /\ u.write_buf = write_buf /\ u.pending_full = pending_full

\* Bytes that come in or move between the buffers.
LEMMA StageRefit ==
  ASSUME NEW Ids, NEW r, NEW e, NEW s, NEW a, NEW u, NEW write_buf, NEW pending_full,
         NEW created_any, NEW b,
         Refitted(Ids, r, e, s, a, u, write_buf, pending_full, created_any, b)
  PROVE  Kept(Ids, r, e, s, u, write_buf, pending_full, b)
<1> USE DEF Refitted
<1>1. /\ Books(s, Ids) /\ Grown(r, s) /\ e \in Seq(Chunk) /\ NewChunks(r, s) \in Seq(Chunk)
      /\ a \in Nat /\ a = Bytes(e \o NewChunks(r, s)) + Buffered(s)
  BY DEF Stage
<1>2. u.write_buf = write_buf /\ u.pending_full = pending_full
  BY DEF Refit
<1>3. s.lifecycle \in Lifecycles /\ s.write_buf \in 0..ChunkSize /\ s.pending_full \in BOOLEAN
  BY <1>1, ZenonT(30) DEF Books, RingType
<1>4. Books(u, Ids) /\ Occupied(u) = Occupied(s)
  BY <1>1, <1>3, RefitBooks
<1>5. Grown(r, u) /\ NewChunks(r, u) = NewChunks(r, s)
  BY <1>1, RefitGrown
<1>6. Buffered(u) \in Nat /\ Buffered(s) \in Nat
  BY <1>2, <1>3, SizeAssumption DEF Buffered
<1>7. Bytes(e \o NewChunks(r, s)) \in Nat
  <2>1. ASSUME NEW d \in Seq(Chunk) PROVE e \o d \in Seq(Chunk)
    BY <1>1, JoinIs
  <2>2. e \o NewChunks(r, s) \in Seq(Chunk)
    BY <1>1, <2>1
  <2> QED BY <2>2, BytesNat, Zenon
<1>8. b = Bytes(e \o NewChunks(r, u)) + Buffered(u)
  <2>1. Bytes(e \o NewChunks(r, u)) = Bytes(e \o NewChunks(r, s))
    BY <1>5
  <2>2. ASSUME NEW m \in Nat, NEW x \in Nat, NEW y \in Nat, a = m + x, b + x = a + y
        PROVE  b = m + y
    BY <1>1, <2>2
  <2> QED BY <1>1, <1>6, <1>7, <2>1, <2>2, ZenonT(30)
<1> QED BY <1>1, <1>2, <1>4, <1>5, <1>8, Zenon DEF Stage, Kept

\* enqueue_pending in a stage, and what it makes of it.
Pending(Ids, r, e, s, a, is_last) ==
    0 \in Ids /\ Stage(Ids, r, e, s, a) /\ s.pending_full /\ is_last \in BOOLEAN

Emitted(Ids, r, e, s, a, is_last) ==
    LET t == enqueue_pending(s, is_last)
    IN  /\ Stage(Ids, r, e, t, a)
        /\ t.write_buf = s.write_buf /\ t.pending_full = FALSE
        /\ t.created_any = TRUE
        /\ Cardinality(Occupied(t)) = Cardinality(Occupied(s)) + 1
        /\ NewChunks(r, t) = Append(NewChunks(r, s), [len |-> ChunkSize, is_last |-> is_last])

\* enqueue_pending: the pending chunk becomes a chunk.
LEMMA StagePending ==
  ASSUME NEW Ids, NEW r, NEW e, NEW s, NEW a, NEW is_last, Pending(Ids, r, e, s, a, is_last)
  PROVE  Emitted(Ids, r, e, s, a, is_last)
<1> USE DEF Pending
<1> DEFINE u == Refit(s, s.lifecycle, s.error, s.write_buf, FALSE, s.created_any)
<1>1. /\ RingType(s, Ids) /\ has_window_capacity_for(s, 0)
      /\ s.write_buf \in 0..ChunkSize /\ s.created_any \in BOOLEAN
  BY DEF Stage, Books, RingType
<1>2. [s EXCEPT !.pending_full = FALSE] = u
  BY <1>1, RefitAt, Zenon
<1>3. u.write_buf = s.write_buf /\ u.pending_full = FALSE /\ u.slots = s.slots
  BY DEF Refit
<1>4. Buffered(u) + ChunkSize = Buffered(s)
  <2>1. Buffered(s) = ChunkSize + s.write_buf /\ Buffered(u) = 0 + s.write_buf
    BY <1>3, Zenon DEF Buffered
  <2>2. \A w \in Nat : (0 + w) + ChunkSize = ChunkSize + w
    BY SizeAssumption
  <2>3. s.write_buf \in Nat
    BY <1>1, SizeAssumption
  <2> QED BY <2>1, <2>2, <2>3, Zenon
<1>5. has_window_capacity_for(u, 1)
  <2>1. live_chunk_count(u) = live_chunk_count(s) /\ live_chunk_count(s) \in Nat
    BY <1>3, SlotSets, Zenon DEF live_chunk_count
  <2>2. live_chunk_count(s) + 1 + 0 <= WindowSize
    BY <1>1, Zenon DEF has_window_capacity_for
  <2>3. live_chunk_count(s) + 0 + 1 <= WindowSize
    BY <2>1, <2>2, SizeAssumption
  <2> QED BY <1>3, <2>1, <2>3, Zenon DEF has_window_capacity_for
<1>6. ChunkSize \in 0..ChunkSize /\ FALSE \in BOOLEAN
  BY SizeAssumption
<1> HIDE DEF u
<1>7. enqueue_pending(s, is_last) = enqueue_chunk(u, ChunkSize, is_last)
  BY <1>2, Zenon DEF enqueue_pending
<1>8. u = Refit(s, s.lifecycle, s.error, s.write_buf, FALSE, s.created_any)
  BY DEF u
<1>9. PICK no \in BOOLEAN : no = FALSE
  BY Zenon
<1>10. Moved(Ids, r, e, s, a, u, s.write_buf, no, s.created_any, ChunkSize, is_last)
  BY <1>1, <1>4, <1>5, <1>6, <1>8, <1>9, Zenon DEF Moved
<1> DEFINE t == enqueue_chunk(u, ChunkSize, is_last)
<1>11. /\ Stage(Ids, r, e, t, a)
       /\ t.write_buf = s.write_buf /\ t.pending_full = no
       /\ t.created_any = TRUE
       /\ Cardinality(Occupied(t)) = Cardinality(Occupied(s)) + 1
       /\ NewChunks(r, t) = Append(NewChunks(r, s), [len |-> ChunkSize, is_last |-> is_last])
  <2>1. Enlarged(Ids, r, e, s, a, u, s.write_buf, no, ChunkSize, is_last)
    BY <1>10, StageEnqueue
  <2> QED BY <2>1, Zenon DEF Enlarged
<1> HIDE DEF t
<1>12. enqueue_pending(s, is_last) = t
  BY <1>7 DEF t
<1> QED BY <1>9, <1>11, <1>12, Zenon DEF Emitted

\* None of the chunks d is flagged last; none but the final one is.
Plain(d) == \A m \in 1..Len(d) : d[m].is_last = FALSE

LastOnly(d) == \A m \in 1..(Len(d) - 1) : d[m].is_last = FALSE

\* A chunk that is not the last keeps the chunks plain.
LEMMA PlainAppend ==
  ASSUME NEW d \in Seq(Chunk), Plain(d)
  PROVE  Plain(Append(d, [len |-> ChunkSize, is_last |-> FALSE]))
<1> DEFINE x == [len |-> ChunkSize, is_last |-> FALSE]
<1>1. x \in Chunk /\ x.is_last = FALSE
  BY SizeAssumption DEF Chunk
<1> HIDE DEF x
<1>2. /\ Len(Append(d, x)) = Len(d) + 1 /\ Append(d, x)[Len(d) + 1] = x
      /\ \A m \in 1..Len(d) : Append(d, x)[m] = d[m]
  BY <1>1
<1>3. Len(d) \in Nat /\ \A m \in 1..(Len(d) + 1) : m \in 1..Len(d) \/ m = Len(d) + 1
  OBVIOUS
<1>4. Plain(Append(d, x))
  BY <1>1, <1>2, <1>3, Zenon DEF Plain
<1> QED BY <1>4 DEF x

\* Where none is flagged, none but the final one is.
LEMMA PlainLastOnly ==
  ASSUME NEW d \in Seq(Chunk), Plain(d)
  PROVE  LastOnly(d)
<1>1. 1..(Len(d) - 1) \subseteq 1..Len(d)
  OBVIOUS
<1> QED BY <1>1, Zenon DEF Plain, LastOnly

\* Behind plain chunks the next one may be the last.
LEMMA PlainThenAny ==
  ASSUME NEW d \in Seq(Chunk), Plain(d), NEW x \in Chunk
  PROVE  LastOnly(Append(d, x))
<1>1. /\ Len(Append(d, x)) = Len(d) + 1
      /\ \A m \in 1..Len(d) : Append(d, x)[m] = d[m]
  OBVIOUS
<1>2. Len(d) \in Nat
  OBVIOUS
<1>3. 1..(Len(Append(d, x)) - 1) = 1..Len(d)
  BY <1>1, <1>2
<1> QED BY <1>1, <1>3, Zenon DEF Plain, LastOnly

\* write_buf of s has become the last chunk of t.
Rested(Ids, r, e, s, a, t) ==
    /\ Stage(Ids, r, e, t, a) /\ t.write_buf = 0 /\ t.pending_full = FALSE
    /\ NewChunks(r, t) = Append(NewChunks(r, s), [len |-> s.write_buf, is_last |-> TRUE])

\* The last step of finalize: write_buf becomes the last chunk.
LEMMA StageRest ==
  ASSUME NEW Ids, 0 \in Ids, NEW r, NEW e, NEW s, NEW a, Stage(Ids, r, e, s, a),
         s.pending_full = FALSE, Cardinality(Occupied(s)) + 1 <= WindowSize
  PROVE  Rested(Ids, r, e, s, a, enqueue_chunk([s EXCEPT !.write_buf = 0], s.write_buf, TRUE))
<1> DEFINE u == Refit(s, s.lifecycle, s.error, 0, s.pending_full, s.created_any)
<1>1. /\ RingType(s, Ids) /\ s.write_buf \in 0..ChunkSize /\ s.created_any \in BOOLEAN
      /\ s.pending_full \in BOOLEAN
  BY DEF Stage, Books, RingType
<1>2. [s EXCEPT !.write_buf = 0] = u
  BY <1>1, RefitAt, Zenon
<1>3. u.write_buf = 0 /\ u.pending_full = FALSE /\ u.slots = s.slots
  BY DEF Refit
<1>4. Buffered(u) + s.write_buf = Buffered(s)
  BY <1>1, <1>3, SizeAssumption DEF Buffered
<1>5. has_window_capacity_for(u, 1)
  <2>1. live_chunk_count(u) = Cardinality(Occupied(s)) /\ live_chunk_count(u) \in Nat
    BY <1>3, SlotSets, Zenon DEF live_chunk_count, Occupied
  <2> QED BY <1>1, <1>3, <2>1, SizeAssumption DEF has_window_capacity_for
<1>6. 0 \in 0..ChunkSize /\ TRUE \in BOOLEAN
  BY SizeAssumption
<1> HIDE DEF u
<1>7. u = Refit(s, s.lifecycle, s.error, 0, s.pending_full, s.created_any)
  BY DEF u
<1>8. PICK yes \in BOOLEAN : yes = TRUE
  BY Zenon
<1>9. Moved(Ids, r, e, s, a, u, 0, s.pending_full, s.created_any, s.write_buf, yes)
  BY <1>1, <1>4, <1>5, <1>6, <1>7, Zenon DEF Moved
<1> DEFINE t == enqueue_chunk(u, s.write_buf, yes)
<1>10. /\ Stage(Ids, r, e, t, a) /\ t.write_buf = 0 /\ t.pending_full = s.pending_full
       /\ NewChunks(r, t) = Append(NewChunks(r, s), [len |-> s.write_buf, is_last |-> yes])
  <2>1. Enlarged(Ids, r, e, s, a, u, 0, s.pending_full, s.write_buf, yes)
    BY <1>9, StageEnqueue
  <2> QED BY <2>1, Zenon DEF Enlarged
<1> HIDE DEF t
<1>11. t = enqueue_chunk([s EXCEPT !.write_buf = 0], s.write_buf, TRUE)
  BY <1>2, <1>8, Zenon DEF t
<1> QED BY <1>8, <1>10, <1>11, Zenon DEF Rested

\* finalize leaves nothing in the buffers, loses none of it, and flags the
\* final chunk only.
LEMMA Finalized ==
  ASSUME NEW Ids, 0 \in Ids, NEW r, NEW e, NEW s, NEW a, Stage(Ids, r, e, s, a),
         CanFinalize(s), Plain(NewChunks(r, s))
  PROVE  /\ Stage(Ids, r, e, finalize(s), a)
         /\ finalize(s).write_buf = 0 /\ finalize(s).pending_full = FALSE
         /\ LastOnly(NewChunks(r, finalize(s)))
<1>1. /\ s.write_buf \in 0..ChunkSize /\ s.pending_full \in BOOLEAN
  BY DEF Stage, Books, RingType
<1>2. Cardinality(Occupied(s)) \in Nat /\ Cardinality(Occupied(s)) = live_chunk_count(s)
  BY SlotSets
<1>3. NewChunks(r, s) \in Seq(Chunk)
  BY DEF Stage
<1>4. \A len \in 0..ChunkSize : [len |-> len, is_last |-> TRUE] \in Chunk
  BY DEF Chunk
<1>5. ChunkSize \in 0..ChunkSize
  BY SizeAssumption
<1>6. CASE s.pending_full /\ s.write_buf = 0
  <2>1. finalize(s) = enqueue_pending(s, TRUE)
    BY <1>6 DEF finalize
  <2>2. Pending(Ids, r, e, s, a, TRUE)
    BY <1>6, Zenon DEF Pending
  <2>3. Emitted(Ids, r, e, s, a, TRUE)
    BY <2>2, StagePending, Zenon
  <2>4. LastOnly(Append(NewChunks(r, s), [len |-> ChunkSize, is_last |-> TRUE]))
    BY <1>3, <1>4, <1>5, PlainThenAny, Zenon
  <2> QED BY <1>6, <2>1, <2>3, <2>4, Zenon DEF Emitted
<1>7. CASE s.pending_full /\ s.write_buf > 0
  <2> DEFINE t == enqueue_pending(s, FALSE)
  <2>1. finalize(s) = enqueue_chunk([t EXCEPT !.write_buf = 0], t.write_buf, TRUE)
    <3>1. s.write_buf # 0
      BY <1>1, <1>7, SizeAssumption
    <3> QED BY <1>7, <3>1, Zenon DEF finalize
  <2>2. /\ Stage(Ids, r, e, t, a) /\ t.pending_full = FALSE
        /\ Cardinality(Occupied(t)) = Cardinality(Occupied(s)) + 1
        /\ NewChunks(r, t) = Append(NewChunks(r, s), [len |-> ChunkSize, is_last |-> FALSE])
    <3>1. Pending(Ids, r, e, s, a, FALSE)
      BY <1>7, Zenon DEF Pending
    <3>2. Emitted(Ids, r, e, s, a, FALSE)
      BY <3>1, StagePending, Zenon
    <3> QED BY <3>2, Zenon DEF Emitted
  <2> HIDE DEF t
  <2>3. Cardinality(Occupied(t)) + 1 <= WindowSize
    BY <1>1, <1>2, <1>7, <2>2, SizeAssumption DEF CanFinalize, has_window_capacity_for
  <2>4. Plain(NewChunks(r, t)) /\ NewChunks(r, t) \in Seq(Chunk) /\ t.write_buf \in 0..ChunkSize
    <3>1. Plain(Append(NewChunks(r, s), [len |-> ChunkSize, is_last |-> FALSE]))
      BY <1>3, PlainAppend, ZenonT(30)
    <3>2. NewChunks(r, t) \in Seq(Chunk) /\ RingType(t, Ids)
      BY <2>2, ZenonT(30) DEF Stage, Books
    <3> QED BY <2>2, <3>1, <3>2 DEF RingType
  <2>5. LastOnly(Append(NewChunks(r, t), [len |-> t.write_buf, is_last |-> TRUE]))
    BY <1>4, <2>4, PlainThenAny, Zenon
  <2>6. /\ Stage(Ids, r, e, finalize(s), a)
        /\ finalize(s).write_buf = 0 /\ finalize(s).pending_full = FALSE
        /\ NewChunks(r, finalize(s)) =
             Append(NewChunks(r, t), [len |-> t.write_buf, is_last |-> TRUE])
    <3>1. Rested(Ids, r, e, t, a, finalize(s))
      BY <2>1, <2>2, <2>3, StageRest, Zenon
    <3> QED BY <3>1, Zenon DEF Rested
  <2> QED BY <2>5, <2>6, Zenon
<1>8. CASE ~s.pending_full /\ s.write_buf = 0 /\ s.created_any
  <2>1. finalize(s) = s
    BY <1>8 DEF finalize
  <2>2. LastOnly(NewChunks(r, s))
    BY <1>3, PlainLastOnly, Zenon
  <2> QED BY <1>1, <1>8, <2>1, <2>2
<1>9. CASE ~s.pending_full /\ ~(s.write_buf = 0 /\ s.created_any)
  <2>1. finalize(s) = enqueue_chunk([s EXCEPT !.write_buf = 0], s.write_buf, TRUE)
    BY <1>9, Zenon DEF finalize
  <2>2. Cardinality(Occupied(s)) + 1 <= WindowSize
    BY <1>1, <1>2, <1>9, SizeAssumption DEF CanFinalize, has_window_capacity_for
  <2>3. s.pending_full = FALSE
    BY <1>1, <1>9
  <2>4. LastOnly(Append(NewChunks(r, s), [len |-> s.write_buf, is_last |-> TRUE]))
    BY <1>1, <1>3, <1>4, PlainThenAny, Zenon
  <2>5. /\ Stage(Ids, r, e, finalize(s), a)
        /\ finalize(s).write_buf = 0 /\ finalize(s).pending_full = FALSE
        /\ NewChunks(r, finalize(s)) =
             Append(NewChunks(r, s), [len |-> s.write_buf, is_last |-> TRUE])
    <3>1. Rested(Ids, r, e, s, a, finalize(s))
      BY <2>1, <2>2, <2>3, StageRest, Zenon
    <3> QED BY <3>1, Zenon DEF Rested
  <2> QED BY <2>4, <2>5, Zenon
<1>10. s.pending_full => s.write_buf = 0 \/ s.write_buf > 0
  BY <1>1, SizeAssumption
<1> QED BY <1>6, <1>7, <1>8, <1>9, <1>10, Zenon


----------------------------------------------------------------------------
(* push_available. *)

\* Where the loop of push_available stands: a bytes had been accepted before,
\* p.accepted of the caller's n since, and no chunk made is the last one.
Round(Ids, r, e, a, n, p) ==
    /\ 0 \in Ids /\ n \in Nat /\ a \in Nat
    /\ p = [ring |-> p.ring, accepted |-> p.accepted]
    /\ p.accepted \in 0..n
    /\ Stage(Ids, r, e, p.ring, a + p.accepted)
    /\ Plain(NewChunks(r, p.ring))

\* The bytes of the chunks of a stage.
LEMMA StageBytes ==
  ASSUME NEW Ids, NEW r, NEW e, NEW s, NEW a, Stage(Ids, r, e, s, a)
  PROVE  Bytes(e \o NewChunks(r, s)) \in Nat
<1>1. ASSUME NEW d \in Seq(Chunk) PROVE e \o d \in Seq(Chunk)
  BY JoinIs DEF Stage
<1>2. e \o NewChunks(r, s) \in Seq(Chunk)
  BY <1>1 DEF Stage
<1> QED BY <1>2, BytesNat, Zenon

\* take_bytes keeps the loop where it stands: bytes go from the caller to write_buf.
LEMMA TakeRound ==
  ASSUME NEW Ids, NEW r, NEW e, NEW a, NEW n, NEW p, Round(Ids, r, e, a, n, p)
  PROVE  Round(Ids, r, e, a, n, take_bytes(p, n))
<1> DEFINE s == p.ring
           space == ChunkSize - s.write_buf
           left  == n - p.accepted
           take  == IF left < space THEN left ELSE space
           u == Refit(s, s.lifecycle, s.error, s.write_buf + take, s.pending_full, s.created_any)
           q == take_bytes(p, n)
<1>1. /\ Stage(Ids, r, e, s, a + p.accepted) /\ RingType(s, Ids) /\ has_window_capacity_for(s, 0)
      /\ p.accepted \in 0..n /\ n \in Nat /\ a \in Nat
  BY DEF Round, Stage, Books
<1>2. s.write_buf \in 0..ChunkSize /\ s.pending_full \in BOOLEAN /\ s.created_any \in BOOLEAN
  BY <1>1, SMTT(30) DEF RingType
<1>3. /\ take \in Nat /\ s.write_buf + take \in 0..ChunkSize /\ p.accepted + take \in 0..n
      /\ p.accepted \in Nat
  BY <1>1, <1>2, SizeAssumption
<1>4. q = [ring |-> [s EXCEPT !.write_buf = @ + take], accepted |-> p.accepted + take]
  BY Zenon DEF take_bytes
<1> HIDE DEF take, s
<1>5. [s EXCEPT !.write_buf = @ + take] = u
  BY <1>1, RefitAt, Zenon
<1>6. u.write_buf = s.write_buf + take /\ u.pending_full = s.pending_full
  BY DEF Refit
<1> HIDE DEF u, q
<1>7. q = [ring |-> u, accepted |-> p.accepted + take]
  BY <1>4, <1>5, Zenon
<1>8. q.ring = u /\ q.accepted = p.accepted + take /\ q = [ring |-> q.ring, accepted |-> q.accepted]
  BY <1>7
<1>9. Cardinality(Occupied(s)) + (IF s.pending_full THEN 1 ELSE 0) <= WindowSize
  <2>1. live_chunk_count(s) = Cardinality(Occupied(s)) /\ live_chunk_count(s) \in Nat
    BY SlotSets
  <2> QED BY <1>1, <2>1, SizeAssumption DEF has_window_capacity_for
<1>10. (a + (p.accepted + take)) + Buffered(s) = (a + p.accepted) + Buffered(u)
  <2>1. Buffered(u) = Buffered(s) + take /\ Buffered(s) \in Nat
    BY <1>2, <1>3, <1>6, SizeAssumption DEF Buffered
  <2> QED BY <1>1, <1>3, <2>1
<1>11. a + (p.accepted + take) \in Nat
  BY <1>1, <1>3
<1>12. u = Refit(s, s.lifecycle, s.error, s.write_buf + take, s.pending_full, s.created_any)
  BY DEF u
<1>13. Refitted(Ids, r, e, s, a + p.accepted, u, s.write_buf + take, s.pending_full,
                s.created_any, a + (p.accepted + take))
  BY <1>1, <1>2, <1>3, <1>9, <1>10, <1>11, <1>12, Zenon DEF Refitted
<1>14. Kept(Ids, r, e, s, u, s.write_buf + take, s.pending_full, a + (p.accepted + take))
  BY <1>13, StageRefit
<1>15. Stage(Ids, r, e, u, a + (p.accepted + take)) /\ NewChunks(r, u) = NewChunks(r, s)
  BY <1>14, Zenon DEF Kept
<1>16. Plain(NewChunks(r, u))
  BY <1>15, Zenon DEF Round, s
<1> QED BY <1>1, <1>3, <1>8, <1>15, <1>16, ZenonT(30) DEF Round, q


\* One turn of the loop: the pending chunk is enqueued, write_buf becomes pending.
LEMMA SplitRound ==
  ASSUME NEW Ids, NEW r, NEW e, NEW a, NEW n, NEW p, Round(Ids, r, e, a, n, p)
  PROVE  Round(Ids, r, e, a, n, split_chunk(p, n))
<1> DEFINE s == p.ring
           b == a + p.accepted
<1>1. CASE s.write_buf < ChunkSize \/ ~has_window_capacity_for(s, 1)
  <2>1. split_chunk(p, n) = p
    BY <1>1, Zenon DEF split_chunk
  <2> QED BY <2>1
<1>2. CASE ~(s.write_buf < ChunkSize \/ ~has_window_capacity_for(s, 1))
  <2> DEFINE u == [s EXCEPT !.write_buf = @ - ChunkSize, !.created_any = TRUE]
             t == IF u.pending_full THEN enqueue_pending(u, FALSE) ELSE u
             v == [t EXCEPT !.pending_full = TRUE]
             q == [p EXCEPT !.ring = v]
  <2>1. split_chunk(p, n) = take_bytes(q, n)
    BY <1>2, ZenonT(30) DEF split_chunk
  <2>2. /\ 0 \in Ids /\ n \in Nat /\ a \in Nat /\ p.accepted \in 0..n
        /\ p = [ring |-> s, accepted |-> p.accepted]
        /\ Stage(Ids, r, e, s, b) /\ RingType(s, Ids) /\ Plain(NewChunks(r, s))
    BY DEF Round, Stage, Books
  <2>3. /\ s.write_buf = ChunkSize /\ s.pending_full \in BOOLEAN /\ has_window_capacity_for(s, 1)
        /\ b \in Nat
    BY <1>2, <2>2, SizeAssumption DEF RingType, Stage
  <2> HIDE DEF s, b
  <2>4. PICK yes \in BOOLEAN : yes = TRUE
    BY Zenon
  <2>5. u = Refit(s, s.lifecycle, s.error, s.write_buf - ChunkSize, s.pending_full, yes)
    <3> SUFFICES ASSUME NEW g, g = u
                 PROVE  g = Refit(s, s.lifecycle, s.error, s.write_buf - ChunkSize,
                                  s.pending_full, yes)
      OBVIOUS
    <3> QED BY <2>2, <2>4, Zenon DEF Refit, RingType
  <2>6. u = Refit(s, s.lifecycle, s.error, 0, s.pending_full, yes)
    <3>1. s.write_buf - ChunkSize = 0
      BY <2>3, SizeAssumption
    <3> QED BY <2>5, <3>1, Zenon
  <2> HIDE DEF u
  <2>7. u.write_buf = 0 /\ u.pending_full = s.pending_full
    BY <2>6 DEF Refit
  <2>8. /\ Buffered(s) \in Nat /\ Buffered(u) \in Nat /\ Buffered(s) = Buffered(u) + ChunkSize
    BY <2>3, <2>7, SizeAssumption DEF Buffered
  <2>9. b - ChunkSize \in Nat
    <3>1. b = Bytes(e \o NewChunks(r, s)) + Buffered(s) /\ Bytes(e \o NewChunks(r, s)) \in Nat
      BY <2>2, StageBytes DEF Stage
    <3> QED BY <2>8, <3>1, SizeAssumption
  <2>10. /\ Cardinality(Occupied(s)) \in Nat
         /\ Cardinality(Occupied(s)) + (IF s.pending_full THEN 1 ELSE 0) + 1 <= WindowSize
    BY <2>3, SlotSets DEF has_window_capacity_for
  <2>11. Kept(Ids, r, e, s, u, 0, s.pending_full, b - ChunkSize)
    <3>1. Cardinality(Occupied(s)) + (IF s.pending_full THEN 1 ELSE 0) <= WindowSize
      BY <2>10, SizeAssumption
    <3>2. (b - ChunkSize) + Buffered(s) = b + Buffered(u) /\ 0 \in 0..ChunkSize
      BY <2>3, <2>8, SizeAssumption
    <3>3. Refitted(Ids, r, e, s, b, u, 0, s.pending_full, yes, b - ChunkSize)
      BY <2>2, <2>3, <2>6, <2>9, <3>1, <3>2, Zenon DEF Refitted
    <3> QED BY <3>3, StageRefit
  <2>12. /\ Stage(Ids, r, e, t, b - ChunkSize) /\ t.write_buf = 0 /\ t.pending_full = FALSE
         /\ Cardinality(Occupied(t)) + 1 <= WindowSize
         /\ Plain(NewChunks(r, t))
    <3>1. /\ Stage(Ids, r, e, u, b - ChunkSize) /\ NewChunks(r, u) = NewChunks(r, s)
          /\ Occupied(u) = Occupied(s)
      BY <2>11, Zenon DEF Kept
    <3>2. CASE s.pending_full
      <4>1. t = enqueue_pending(u, FALSE)
        BY <2>7, <3>2, Zenon
      <4>2. Pending(Ids, r, e, u, b - ChunkSize, FALSE)
        BY <2>2, <2>7, <3>1, <3>2, Zenon DEF Pending
      <4>3. Emitted(Ids, r, e, u, b - ChunkSize, FALSE)
        BY <4>2, StagePending, Zenon
      <4> HIDE DEF t
      <4>4. /\ Stage(Ids, r, e, t, b - ChunkSize) /\ t.write_buf = 0 /\ t.pending_full = FALSE
            /\ Cardinality(Occupied(t)) = Cardinality(Occupied(u)) + 1
            /\ NewChunks(r, t) =
                 Append(NewChunks(r, u), [len |-> ChunkSize, is_last |-> FALSE])
        BY <2>7, <4>1, <4>3, Zenon DEF Emitted
      <4>5. Cardinality(Occupied(t)) + 1 <= WindowSize
        <5>1. Cardinality(Occupied(s)) + 1 + 1 <= WindowSize
          BY <2>10, <3>2, Zenon
        <5> QED BY <2>10, <3>1, <4>4, <5>1, SizeAssumption
      <4>6. Plain(NewChunks(r, t))
        <5>1. NewChunks(r, s) \in Seq(Chunk)
          BY <2>2 DEF Stage
        <5> QED BY <2>2, <3>1, <4>4, <5>1, PlainAppend, Zenon
      <4> QED BY <4>4, <4>5, <4>6
    <3>3. CASE ~s.pending_full
      <4>1. t = u
        BY <2>7, <3>3, Zenon
      <4> HIDE DEF t
      <4>2. Cardinality(Occupied(s)) + 0 + 1 <= WindowSize /\ s.pending_full = FALSE
        BY <2>3, <2>10, <3>3, Zenon
      <4>3. Cardinality(Occupied(s)) + 1 <= WindowSize
        BY <2>10, <4>2, SizeAssumption
      <4> QED BY <2>2, <2>7, <3>1, <4>1, <4>2, <4>3, Zenon
    <3> QED BY <3>2, <3>3, Zenon
  <2> HIDE DEF t
  <2>13. v = Refit(t, t.lifecycle, t.error, 0, yes, t.created_any) /\ t.created_any \in BOOLEAN
    <3>1. RingType(t, Ids) /\ t.created_any \in BOOLEAN
      BY <2>12 DEF Stage, Books, RingType
    <3> QED BY <2>4, <2>12, <3>1, RefitAt, Zenon
  <2> HIDE DEF v
  <2>14. v.write_buf = 0 /\ v.pending_full = yes
    BY <2>13 DEF Refit
  <2>15. Kept(Ids, r, e, t, v, 0, yes, b)
    <3>1. Cardinality(Occupied(t)) + (IF yes THEN 1 ELSE 0) <= WindowSize
      BY <2>4, <2>12, Zenon
    <3>2. b + Buffered(t) = (b - ChunkSize) + Buffered(v) /\ 0 \in 0..ChunkSize
      <4>1. Buffered(t) = 0 + 0 /\ Buffered(v) = ChunkSize + 0
        BY <2>4, <2>12, <2>14, Zenon DEF Buffered
      <4> QED BY <2>3, <4>1, SizeAssumption
    <3>3. Refitted(Ids, r, e, t, b - ChunkSize, v, 0, yes, t.created_any, b)
      BY <2>3, <2>12, <2>13, <3>1, <3>2, Zenon DEF Refitted
    <3> QED BY <3>3, StageRefit
  <2>16. Stage(Ids, r, e, v, b) /\ NewChunks(r, v) = NewChunks(r, t)
    BY <2>15, Zenon DEF Kept
  <2>17. q = [ring |-> v, accepted |-> p.accepted]
    <3> SUFFICES ASSUME NEW g, g = q PROVE g = [ring |-> v, accepted |-> p.accepted]
      OBVIOUS
    <3> QED BY <2>2, Zenon
  <2> HIDE DEF q
  <2>18. q.ring = v /\ q.accepted = p.accepted
    BY <2>17
  <2>19. Round(Ids, r, e, a, n, q)
    BY <2>2, <2>12, <2>16, <2>17, <2>18, Zenon DEF Round, b
  <2> QED BY <2>1, <2>19, TakeRound, Zenon
<1> QED BY <1>1, <1>2


\* The rings with a given error form a set, as a recursion needs.
Maps(D, R) == UNION {[X -> R] : X \in SUBSET D}

Rings(Ids, error) ==
    [lifecycle : Lifecycles, error : {error}, next_chunk_id : Nat, write_cursor : Slots,
     write_buf : 0..ChunkSize, pending_full : BOOLEAN, created_any : BOOLEAN,
     slots : [Slots -> SlotOf(Ids)], chunk_index : Maps(Nat, Slots), ack_map : Maps(Nat, Nat),
     inflight : Nat]

\* A ring with exact books is one of the rings the loop ranges over.
LEMMA RingsAt ==
  ASSUME NEW Ids, NEW r, RingType(r, Ids)
  PROVE  r \in Rings(Ids, r.error)
<1>1. ASSUME NEW f, NEW D, NEW R, IsMap(f, D, R)
      PROVE  f \in Maps(D, R)
  <2>1. f \in [DOMAIN f -> R] /\ DOMAIN f \in SUBSET D
    BY <1>1 DEF IsMap
  <2> QED BY <2>1 DEF Maps
<1>2. r.chunk_index \in Maps(Nat, Slots) /\ r.ack_map \in Maps(Nat, Nat)
  BY <1>1 DEF RingType
<1> QED BY <1>2 DEF RingType, Rings

\* The books and the account of a ring that is given n more bytes.
Pushing(Ids, r, e, a, n) ==
    /\ 0 \in Ids /\ Books(r, Ids) /\ e \in Seq(Chunk) /\ n \in Nat
    /\ a \in Nat /\ a = Bytes(e) + Buffered(r)

\* push_available on n bytes.
LEMMA PushAvailable ==
  ASSUME NEW Ids, NEW r, NEW e, NEW a, NEW n, Pushing(Ids, r, e, a, n)
  PROVE  Round(Ids, r, e, a, n, push_available(r, n))
<1> DEFINE start == take_bytes([ring |-> r, accepted |-> 0], n)
           P == {p \in [ring : Rings(Ids, r.error), accepted : 0..n] : Round(Ids, r, e, a, n, p)}
<1>1. Round(Ids, r, e, a, n, start)
  <2> DEFINE p == [ring |-> r, accepted |-> 0]
  <2>1. p.ring = r /\ p.accepted = 0 /\ p = [ring |-> p.ring, accepted |-> p.accepted]
    OBVIOUS
  <2>2. Stage(Ids, r, e, r, a) /\ NewChunks(r, r) = <<>>
    BY StageStart DEF Pushing
  <2>3. Plain(<<>>) /\ 0 \in 0..n /\ a + 0 = a
    BY DEF Plain, Pushing
  <2> HIDE DEF p
  <2>4. Round(Ids, r, e, a, n, p)
    BY <2>1, <2>2, <2>3, Zenon DEF Round, Pushing
  <2> QED BY <2>4, TakeRound DEF p
<1>2. ASSUME NEW p, Round(Ids, r, e, a, n, p)
      PROVE  p \in P
  <2>1. RingType(p.ring, Ids) /\ p.ring.error = r.error
    BY <1>2 DEF Round, Stage, Books, Grown
  <2>2. p.ring \in Rings(Ids, r.error)
    BY <2>1, RingsAt
  <2>3. p.accepted \in 0..n /\ p = [ring |-> p.ring, accepted |-> p.accepted]
    BY <1>2 DEF Round
  <2>4. p \in [ring : Rings(Ids, r.error), accepted : 0..n]
    BY <2>2, <2>3
  <2> QED BY <1>2, <2>4
<1>3. \A p \in P : split_chunk(p, n) \in P
  BY <1>2, SplitRound
<1>4. start \in P
  BY <1>1, <1>2
<1>5. \A p \in P : Round(Ids, r, e, a, n, p)
  OBVIOUS
<1> HIDE DEF P, start
<1> DEFINE N == n + 1
           g == [x \in (1..N) \X P |-> split_chunk(x[2], n)]
<1>6. N \in Nat /\ g \in [(1..N) \X P -> P]
  BY <1>3 DEF Pushing
<1>7. \A k \in 1..N, p \in P : g[<<k, p>>] = split_chunk(p, n)
  OBVIOUS
<1> HIDE DEF g, N
<1>8. Recursion(P, start, N, g)
  BY <1>4, <1>6 DEF Recursion
<1>9. PICK h : Solution(h, P, start, N, g)
  BY <1>8, RecursionExists
<1>10. \A k \in 0..N : h[k] = IF k = 0 THEN start ELSE split_chunk(h[k - 1], n)
  <2>1. \A k \in 1..N : k - 1 \in 0..N
    BY <1>6
  <2>2. \A k \in 0..N : h[k] = IF k = 0 THEN start ELSE g[<<k, h[k - 1]>>]
    BY <1>9, Zenon DEF Solution
  <2>3. \A k \in 0..N : k = 0 \/ k \in 1..N
    BY <1>6
  <2>4. \A k \in 1..N : h[k - 1] \in P
    BY <1>9, <2>1 DEF Solution
  <2> QED BY <1>7, <2>2, <2>3, <2>4, Zenon
<1>11. h = [k \in 0..N |-> IF k = 0 THEN start ELSE split_chunk(h[k - 1], n)]
  <2>1. h = [k \in 0..N |-> h[k]]
    BY <1>9 DEF Solution
  <2>2. [k \in 0..N |-> h[k]] = [k \in 0..N |-> IF k = 0 THEN start ELSE split_chunk(h[k - 1], n)]
    BY <1>10, Zenon
  <2> QED BY <2>1, <2>2, Zenon
<1> DEFINE rounds[k \in 0..N] == IF k = 0 THEN start ELSE split_chunk(rounds[k - 1], n)
<1>12. rounds = [k \in 0..N |-> IF k = 0 THEN start ELSE split_chunk(rounds[k - 1], n)]
  BY <1>11, Zenon
<1>13. push_available(r, n) =
         IF rounds[N].ring.pending_full /\ rounds[N].ring.write_buf > 0
         THEN [rounds[N] EXCEPT !.ring = enqueue_pending(@, FALSE)] ELSE rounds[N]
  BY Zenon DEF push_available, start, N
<1> HIDE DEF rounds
<1>14. \A k \in 0..N : rounds[k] = IF k = 0 THEN start ELSE split_chunk(rounds[k - 1], n)
  BY <1>12, Zenon
<1> DEFINE S == {k \in Nat : k <= N => rounds[k] \in P}
<1>15. 0 \in S
  BY <1>4, <1>6, <1>14
<1>16. ASSUME NEW k \in Nat, k \in S
       PROVE  k + 1 \in S
  <2> SUFFICES ASSUME k + 1 <= N PROVE rounds[k + 1] \in P
    OBVIOUS
  <2>1. k <= N /\ k + 1 \in 0..N /\ k + 1 # 0 /\ (k + 1) - 1 = k
    BY <1>6
  <2>2. rounds[k + 1] = split_chunk(rounds[k], n)
    BY <1>14, <2>1
  <2> QED BY <1>3, <1>16, <2>1, <2>2
<1> HIDE DEF S
<1>17. Nat \subseteq S
  BY <1>15, <1>16, InductiveSet
<1>18. rounds[N] \in P
  BY <1>6, <1>17 DEF S
<1> DEFINE p == rounds[N]
           s == p.ring
<1>19. Round(Ids, r, e, a, n, p)
  BY <1>5, <1>18
<1> HIDE DEF p
<1>20. CASE s.pending_full /\ s.write_buf > 0
  <2> DEFINE t == enqueue_pending(s, FALSE)
             q == [p EXCEPT !.ring = enqueue_pending(@, FALSE)]
             b == a + p.accepted
  <2>1. push_available(r, n) = q
    BY <1>13, <1>20, Zenon DEF p
  <2>2. /\ 0 \in Ids /\ n \in Nat /\ a \in Nat /\ p.accepted \in 0..n
        /\ p = [ring |-> p.ring, accepted |-> p.accepted]
        /\ Stage(Ids, r, e, s, b) /\ Plain(NewChunks(r, s))
    BY <1>19, Zenon DEF Round
  <2>3. Pending(Ids, r, e, s, b, FALSE)
    BY <1>20, <2>2, Zenon DEF Pending
  <2>4. Emitted(Ids, r, e, s, b, FALSE)
    BY <2>3, StagePending, Zenon
  <2>5. /\ Stage(Ids, r, e, t, b)
        /\ NewChunks(r, t) = Append(NewChunks(r, s), [len |-> ChunkSize, is_last |-> FALSE])
    BY <2>4, Zenon DEF Emitted
  <2>6. q = [ring |-> t, accepted |-> p.accepted]
    <3> SUFFICES ASSUME NEW x, x = q PROVE x = [ring |-> t, accepted |-> p.accepted]
      BY Zenon
    <3> QED BY <2>2, Zenon
  <2> HIDE DEF t, q, b
  <2>7. q.ring = t /\ q.accepted = p.accepted
    BY <2>6
  <2>8. Plain(NewChunks(r, t))
    <3>1. NewChunks(r, s) \in Seq(Chunk)
      BY <2>2 DEF Stage
    <3> QED BY <2>2, <2>5, <3>1, PlainAppend, Zenon
  <2>9. Round(Ids, r, e, a, n, q)
    BY <2>2, <2>5, <2>6, <2>7, <2>8, Zenon DEF Round, b
  <2> QED BY <2>1, <2>9
<1>21. CASE ~(s.pending_full /\ s.write_buf > 0)
  <2>1. push_available(r, n) = p
    BY <1>13, <1>21, Zenon DEF p
  <2> QED BY <1>19, <2>1
<1> QED BY <1>20, <1>21


----------------------------------------------------------------------------
(* Leases, ACKs and callis loss. *)

\* The ring r with other slots and maps.
Rebooked(r, slots, chunk_index, ack_map, inflight) ==
    [lifecycle |-> r.lifecycle, error |-> r.error, next_chunk_id |-> r.next_chunk_id,
     write_cursor |-> r.write_cursor, write_buf |-> r.write_buf,
     pending_full |-> r.pending_full, created_any |-> r.created_any,
     slots |-> slots, chunk_index |-> chunk_index, ack_map |-> ack_map,
     inflight |-> inflight]

\* What such a change leaves alone.
SameStream(r, t) ==
    /\ t.lifecycle = r.lifecycle /\ t.error = r.error /\ t.next_chunk_id = r.next_chunk_id
    /\ t.write_cursor = r.write_cursor /\ t.write_buf = r.write_buf
    /\ t.pending_full = r.pending_full /\ t.created_any = r.created_any

Rebooking(Ids, r, t, slots, chunk_index, ack_map, inflight) ==
    /\ RingType(r, Ids) /\ t = Rebooked(r, slots, chunk_index, ack_map, inflight)
    /\ slots \in [Slots -> SlotOf(Ids)] /\ IsMap(chunk_index, Nat, Slots)
    /\ IsMap(ack_map, Nat, Nat) /\ inflight \in Nat

RebookedTo(Ids, r, t, slots, chunk_index, ack_map, inflight) ==
    /\ SameStream(r, t) /\ RingType(t, Ids)
    /\ t.slots = slots /\ t.chunk_index = chunk_index
    /\ t.ack_map = ack_map /\ t.inflight = inflight

\* New slots, books and counts of the right types make a ring again.
LEMMA RebookedAt ==
  ASSUME NEW Ids, NEW r, NEW t, NEW slots, NEW chunk_index, NEW ack_map, NEW inflight,
         Rebooking(Ids, r, t, slots, chunk_index, ack_map, inflight)
  PROVE  RebookedTo(Ids, r, t, slots, chunk_index, ack_map, inflight)
<1> USE DEF Rebooking
<1>1. /\ SameStream(r, t) /\ t.slots = slots /\ t.chunk_index = chunk_index
      /\ t.ack_map = ack_map /\ t.inflight = inflight
  BY DEF Rebooked, SameStream
<1>2. t = [lifecycle |-> t.lifecycle, error |-> t.error, next_chunk_id |-> t.next_chunk_id,
           write_cursor |-> t.write_cursor, write_buf |-> t.write_buf,
           pending_full |-> t.pending_full, created_any |-> t.created_any,
           slots |-> t.slots, chunk_index |-> t.chunk_index, ack_map |-> t.ack_map,
           inflight |-> t.inflight]
  BY <1>1, Zenon DEF Rebooked, SameStream
<1>3. RingType(t, Ids)
  BY <1>1, <1>2, Zenon DEF RingType, SameStream
<1> QED BY <1>1, <1>3 DEF RebookedTo

\* The slot a lease takes is one that waits for a write.
LEMMA NextSlotAt ==
  ASSUME NEW Ids, NEW r, RingType(r, Ids),
         InState(r, "ReplayReady") # {} \/ InState(r, "Ready") # {}
  PROVE  NextSlot(r) \in InState(r, "ReplayReady") \cup InState(r, "Ready")
<1> DEFINE ready == IF InState(r, "ReplayReady") # {} THEN InState(r, "ReplayReady")
                                                      ELSE InState(r, "Ready")
           ids == {r.slots[i].chunk_id : i \in ready}
           first == CHOOSE i \in ready : \A j \in ready : r.slots[i].chunk_id <= r.slots[j].chunk_id
<1>1. ready # {} /\ ready \subseteq Slots
  BY DEF InState
<1>2. ready \subseteq InState(r, "ReplayReady") \cup InState(r, "Ready")
  OBVIOUS
<1>3. NextSlot(r) = first
  BY Zenon DEF NextSlot
<1> HIDE DEF ready
<1>4. ids # {} /\ ids \subseteq Nat
  BY <1>1 DEF RingType, SlotOf
<1> HIDE DEF ids
<1>5. PICK c \in ids : \A d \in ids : c <= d
  BY <1>4, LeastElement, Zenon
<1>6. \E i \in ready : \A j \in ready : r.slots[i].chunk_id <= r.slots[j].chunk_id
  BY <1>5 DEF ids
<1>7. first \in ready
  BY <1>6, ZenonT(30)
<1> QED BY <1>2, <1>3, <1>7

\* A slot that a transmitter has been given to write.
Leased(slot, callis_id, peer_msg_id) ==
    [state |-> "Writing", chunk_id |-> slot.chunk_id, len |-> slot.len,
     is_last |-> slot.is_last, seq |-> slot.seq + 1, peer_msg_id |-> peer_msg_id,
     callis_id |-> callis_id]

CanLease(Ids, r, callis_id, peer_msg_id) ==
    /\ Books(r, Ids) /\ callis_id \in Ids /\ peer_msg_id \in Nat
    /\ InState(r, "ReplayReady") # {} \/ InState(r, "Ready") # {}
    /\ \A j \in Attempted(r) : r.slots[j].peer_msg_id # peer_msg_id

HasLeased(Ids, r, callis_id, peer_msg_id) ==
    LET i == NextSlot(r)
        t == lease_next_chunk_for_write(r, callis_id, peer_msg_id)
    IN  /\ i \in Slots /\ r.slots[i].state \in {"ReplayReady", "Ready"}
        /\ t.slots[i] = Leased(r.slots[i], callis_id, peer_msg_id)
        /\ \A j \in Slots : j # i => t.slots[j] = r.slots[j]
        /\ SameStream(r, t) /\ Books(t, Ids)

\* lease_next_chunk_for_write, under a peer_msg_id that no attempt under way has.
LEMMA LeaseBooks ==
  ASSUME NEW Ids, NEW r, NEW callis_id, NEW peer_msg_id,
         CanLease(Ids, r, callis_id, peer_msg_id)
  PROVE  HasLeased(Ids, r, callis_id, peer_msg_id)
<1> USE DEF CanLease
<1> DEFINE i == NextSlot(r)
           t == lease_next_chunk_for_write(r, callis_id, peer_msg_id)
           old == r.slots[i]
           new == Leased(old, callis_id, peer_msg_id)
           taken == [old EXCEPT !.state = "Writing", !.seq = @ + 1,
                                !.peer_msg_id = peer_msg_id, !.callis_id = callis_id]
<1>1. RingType(r, Ids)
  BY DEF Books
<1>2. i \in Slots /\ old.state \in {"ReplayReady", "Ready"}
  BY <1>1, NextSlotAt DEF InState
<1>3. old \in SlotOf(Ids)
  BY <1>1, <1>2 DEF RingType
<1>4. t = [r EXCEPT !.slots = [r.slots EXCEPT ![i] = taken]]
  BY DEF lease_next_chunk_for_write
<1> HIDE DEF i, t
<1>5. ASSUME NEW q, q = taken
      PROVE  q = new
  <2>1. old = [state |-> old.state, chunk_id |-> old.chunk_id, len |-> old.len,
               is_last |-> old.is_last, seq |-> old.seq, peer_msg_id |-> old.peer_msg_id,
               callis_id |-> old.callis_id]
    BY <1>3 DEF SlotOf
  <2> HIDE DEF old
  <2> QED BY <1>5, <2>1, Zenon DEF Leased
<1>6. new \in SlotOf(Ids) /\ new.state = "Writing" /\ new.chunk_id = old.chunk_id
      /\ new.peer_msg_id = peer_msg_id
  <2>1. "Writing" \in SlotStates
    BY DEF SlotStates
  <2> HIDE DEF old
  <2> QED BY <1>3, <2>1 DEF Leased, SlotOf
<1> DEFINE slots == [r.slots EXCEPT ![i] = new]
<1>7. t = Rebooked(r, slots, r.chunk_index, r.ack_map, r.inflight)
  <2> HIDE DEF new, taken
  <2>1. t = [r EXCEPT !.slots = [r.slots EXCEPT ![i] = new]]
    BY <1>4, <1>5, Zenon
  <2> QED BY <1>1, <2>1, Zenon DEF Rebooked, RingType
<1> HIDE DEF new
<1>8. slots \in [Slots -> SlotOf(Ids)] /\ slots[i] = new /\ \A j \in Slots : j # i => slots[j] = r.slots[j]
  BY <1>1, <1>2, <1>6 DEF RingType
<1> HIDE DEF slots
<1>9. /\ SameStream(r, t) /\ RingType(t, Ids) /\ t.slots = slots
      /\ t.chunk_index = r.chunk_index /\ t.ack_map = r.ack_map /\ t.inflight = r.inflight
  <2>1. IsMap(r.chunk_index, Nat, Slots) /\ IsMap(r.ack_map, Nat, Nat) /\ r.inflight \in Nat
    BY <1>1, ZenonT(30) DEF RingType
  <2>2. Rebooking(Ids, r, t, slots, r.chunk_index, r.ack_map, r.inflight)
    BY <1>1, <1>7, <1>8, <2>1, ZenonT(30) DEF Rebooking
  <2>3. RebookedTo(Ids, r, t, slots, r.chunk_index, r.ack_map, r.inflight)
    BY <2>2, RebookedAt, ZenonT(30)
  <2> QED BY <2>3 DEF RebookedTo
<1>10. /\ Occupied(t) = Occupied(r) /\ i \in Occupied(r) /\ Attempted(t) = Attempted(r) \cup {i}
       /\ InState(t, "InFlight") = InState(r, "InFlight")
       /\ i \notin Attempted(r) /\ InState(r, "InFlight") \subseteq Attempted(r)
       /\ Occupied(r) \subseteq Slots /\ Attempted(r) \subseteq Slots
  BY <1>2, <1>6, <1>8, <1>9, ZenonT(30) DEF Occupied, Attempted, InState
<1>11. /\ \A j \in Occupied(t) : t.slots[j].chunk_id = r.slots[j].chunk_id
       /\ \A j \in Attempted(r) : t.slots[j] = r.slots[j]
       /\ t.slots[i].peer_msg_id = peer_msg_id
  BY <1>6, <1>8, <1>9, <1>10
<1>12. has_window_capacity_for(t, 0)
  <2>1. live_chunk_count(t) = live_chunk_count(r)
    BY <1>10, SlotSets, ZenonT(30)
  <2> QED BY <1>9, <2>1, Zenon DEF has_window_capacity_for, Books, SameStream
<1>13. Books(t, Ids)
  <2>1. DOMAIN t.chunk_index = {t.slots[j].chunk_id : j \in Occupied(t)}
    BY <1>9, <1>10, <1>11 DEF Books
  <2>2. \A j \in Occupied(t) : /\ t.slots[j].chunk_id < t.next_chunk_id
                              /\ t.chunk_index[t.slots[j].chunk_id] = j
    BY <1>9, <1>10, <1>11, ZenonT(30) DEF Books, SameStream
  <2>3. DOMAIN t.ack_map = {t.slots[j].peer_msg_id : j \in InState(t, "InFlight")}
    BY <1>9, <1>10, <1>11, SMTT(30) DEF Books
  <2>4. \A j \in InState(t, "InFlight") : t.ack_map[t.slots[j].peer_msg_id] = t.slots[j].chunk_id
    BY <1>9, <1>10, <1>11, ZenonT(30) DEF Books
  <2>5. \A j, k \in Attempted(t) : t.slots[j].peer_msg_id = t.slots[k].peer_msg_id => j = k
    BY <1>10, <1>11, ZenonT(30) DEF Books
  <2>6. t.inflight = Cardinality(InState(t, "InFlight"))
    BY <1>9, <1>10 DEF Books
  <2> QED BY <1>9, <1>12, <2>1, <2>2, <2>3, <2>4, <2>5, <2>6, ZenonT(30) DEF Books
<1> QED BY <1>2, <1>8, <1>9, <1>13, ZenonT(30) DEF HasLeased, i, t, new

\* The slot, or the lease on it, in another state.
InPhase(slot, state) ==
    [state |-> state, chunk_id |-> slot.chunk_id, len |-> slot.len, is_last |-> slot.is_last,
     seq |-> slot.seq, peer_msg_id |-> slot.peer_msg_id, callis_id |-> slot.callis_id]

\* Setting the state of a slot or a lease.
LEMMA PhaseAt ==
  ASSUME NEW slot, IsLease(slot), NEW state
  PROVE  [slot EXCEPT !.state = state] = InPhase(slot, state)
<1> SUFFICES ASSUME NEW q, q = [slot EXCEPT !.state = state] PROVE q = InPhase(slot, state)
  BY Zenon
<1> QED BY Zenon DEF IsLease, InPhase

\* A slot has the fields of a lease.
LEMMA SlotIsLease ==
  ASSUME NEW Ids, NEW slot \in SlotOf(Ids)
  PROVE  IsLease(slot)
BY SMTT(30) DEF SlotOf, IsLease

HasMarked(Ids, r, lease) ==
    LET i == r.chunk_index[lease.chunk_id]
        t == mark_inflight(r, lease)
    IN  /\ i \in Slots /\ r.slots[i].state = "Writing"
        /\ r.slots[i].peer_msg_id = lease.peer_msg_id /\ r.slots[i].chunk_id = lease.chunk_id
        /\ t.slots[i] = InPhase(r.slots[i], "InFlight")
        /\ \A j \in Slots : j # i => t.slots[j] = r.slots[j]
        /\ SameStream(r, t) /\ Books(t, Ids)

CanMark(Ids, r, lease) == Books(r, Ids) /\ IsLease(lease) /\ Matches(r, lease)

\* mark_inflight of a lease that still matches its slot.
LEMMA MarkBooks ==
  ASSUME NEW Ids, NEW r, NEW lease, CanMark(Ids, r, lease)
  PROVE  HasMarked(Ids, r, lease)
<1> USE DEF CanMark
<1> DEFINE i == r.chunk_index[lease.chunk_id]
           m == lease.peer_msg_id
           t == mark_inflight(r, lease)
           old == r.slots[i]
           new == InPhase(old, "InFlight")
<1>1. RingType(r, Ids)
  BY DEF Books
<1>2. old = InPhase(lease, "Writing") /\ lease.chunk_id \in DOMAIN r.chunk_index
  BY PhaseAt, ZenonT(30) DEF Matches
<1>3. i \in Slots /\ i \in Occupied(r)
  <2>1. PICK j \in Occupied(r) : r.slots[j].chunk_id = lease.chunk_id
    BY <1>2 DEF Books
  <2> QED BY <2>1, ZenonT(30) DEF Books, Occupied
<1>4. old \in SlotOf(Ids)
  BY <1>1, <1>3, ZenonT(30) DEF RingType
<1>5. old.state = "Writing" /\ old.chunk_id = lease.chunk_id /\ old.peer_msg_id = m
  BY <1>2 DEF InPhase
<1>6. t = [r EXCEPT !.slots = [r.slots EXCEPT ![i] = [old EXCEPT !.state = "InFlight"]],
                    !.ack_map = With(r.ack_map, m, lease.chunk_id),
                    !.inflight = r.inflight + 1]
  BY DEF mark_inflight
<1>7. [old EXCEPT !.state = "InFlight"] = new
  BY <1>4, SlotIsLease, PhaseAt
<1>8. /\ new \in SlotOf(Ids) /\ new.state = "InFlight" /\ new.chunk_id = old.chunk_id
      /\ new.peer_msg_id = m
  <2>1. "InFlight" \in SlotStates
    BY DEF SlotStates
  <2> HIDE DEF old
  <2> QED BY <1>4, <1>5, <2>1 DEF InPhase, SlotOf
<1> HIDE DEF i, t, old, new, m
<1> DEFINE slots == [r.slots EXCEPT ![i] = new]
           acks == With(r.ack_map, m, lease.chunk_id)
<1>9. t = Rebooked(r, slots, r.chunk_index, acks, r.inflight + 1)
  <2> DEFINE up == r.inflight + 1
  <2> HIDE DEF slots, acks, up
  <2>1. t = [r EXCEPT !.slots = slots, !.ack_map = acks, !.inflight = up]
    BY <1>6, <1>7, Zenon DEF slots, acks, up
  <2>2. t = Rebooked(r, slots, r.chunk_index, acks, up)
    BY <1>1, <2>1, Zenon DEF Rebooked, RingType
  <2> QED BY <2>2 DEF up
<1>10. /\ slots \in [Slots -> SlotOf(Ids)] /\ slots[i] = new
       /\ \A j \in Slots : j # i => slots[j] = r.slots[j]
  BY <1>1, <1>3, <1>8, ZenonT(30) DEF RingType
<1>11. /\ DOMAIN acks = DOMAIN r.ack_map \cup {m} /\ acks[m] = lease.chunk_id
       /\ \A x \in DOMAIN r.ack_map : x # m => acks[x] = r.ack_map[x]
       /\ acks = [x \in DOMAIN acks |-> acks[x]]
  BY DEF With
<1> HIDE DEF slots, acks
<1>12. IsMap(acks, Nat, Nat)
  <2>1. m \in Nat /\ lease.chunk_id \in Nat /\ IsMap(r.ack_map, Nat, Nat)
    BY <1>1, <1>4, <1>5, ZenonT(30) DEF SlotOf, RingType
  <2> QED BY <1>11, <2>1 DEF IsMap
<1>13. /\ SameStream(r, t) /\ RingType(t, Ids) /\ t.slots = slots
       /\ t.chunk_index = r.chunk_index /\ t.ack_map = acks /\ t.inflight = r.inflight + 1
  <2>1. IsMap(r.chunk_index, Nat, Slots) /\ r.inflight + 1 \in Nat
    BY <1>1 DEF RingType
  <2>2. Rebooking(Ids, r, t, slots, r.chunk_index, acks, r.inflight + 1)
    BY <1>1, <1>9, <1>10, <1>12, <2>1 DEF Rebooking
  <2>3. RebookedTo(Ids, r, t, slots, r.chunk_index, acks, r.inflight + 1)
    BY <2>2, RebookedAt, SMTT(30)
  <2> QED BY <2>3 DEF RebookedTo
<1>14. /\ Occupied(t) = Occupied(r) /\ Attempted(t) = Attempted(r) /\ i \in Attempted(r)
       /\ InState(t, "InFlight") = InState(r, "InFlight") \cup {i} /\ i \notin InState(r, "InFlight")
       /\ InState(r, "InFlight") \subseteq Attempted(r) /\ Attempted(r) \subseteq Slots
       /\ Occupied(r) \subseteq Slots
  BY <1>3, <1>5, <1>8, <1>10, <1>13, ZenonT(30) DEF Occupied, Attempted, InState, old
<1>15. /\ \A j \in Slots : t.slots[j].chunk_id = r.slots[j].chunk_id
       /\ \A j \in Slots : t.slots[j].peer_msg_id = r.slots[j].peer_msg_id
       /\ r.slots[i].peer_msg_id = m /\ r.slots[i].chunk_id = lease.chunk_id
  BY <1>3, <1>5, <1>8, <1>10, <1>13, ZenonT(30) DEF old
<1>16. has_window_capacity_for(t, 0)
  <2>1. live_chunk_count(t) = live_chunk_count(r)
    BY <1>14, SlotSets, SMTT(30)
  <2> QED BY <1>13, <2>1, Zenon DEF has_window_capacity_for, Books, SameStream
<1>17. Books(t, Ids)
  <2>1. DOMAIN t.chunk_index = {t.slots[j].chunk_id : j \in Occupied(t)}
    BY <1>13, <1>14, <1>15, SMTT(30) DEF Books
  <2>2. \A j \in Occupied(t) : /\ t.slots[j].chunk_id < t.next_chunk_id
                              /\ t.chunk_index[t.slots[j].chunk_id] = j
    BY <1>13, <1>14, <1>15 DEF Books, SameStream
  <2>3. DOMAIN t.ack_map = {t.slots[j].peer_msg_id : j \in InState(t, "InFlight")}
    <3>1. DOMAIN r.ack_map = {r.slots[j].peer_msg_id : j \in InState(r, "InFlight")}
      BY DEF Books
    <3> QED BY <1>11, <1>13, <1>14, <1>15, <3>1
  <2>4. \A j \in InState(t, "InFlight") : t.ack_map[t.slots[j].peer_msg_id] = t.slots[j].chunk_id
    <3> TAKE j \in InState(t, "InFlight")
    <3>1. CASE j = i
      BY <1>3, <1>11, <1>13, <1>15, <3>1, ZenonT(30)
    <3>2. CASE j # i
      <4>1. j \in InState(r, "InFlight") /\ j \in Attempted(r) /\ j \in Slots
        BY <1>14, <3>2, ZenonT(30)
      <4>2. r.slots[j].peer_msg_id # m
        BY <1>14, <1>15, <3>2, <4>1, ZenonT(30) DEF Books
      <4>3. /\ r.slots[j].peer_msg_id \in DOMAIN r.ack_map
            /\ r.ack_map[r.slots[j].peer_msg_id] = r.slots[j].chunk_id
        BY <4>1, ZenonT(30) DEF Books
      <4> QED BY <1>11, <1>13, <1>15, <4>1, <4>2, <4>3, ZenonT(30)
    <3> QED BY <3>1, <3>2
  <2>5. \A j, k \in Attempted(t) : t.slots[j].peer_msg_id = t.slots[k].peer_msg_id => j = k
    BY <1>14, <1>15 DEF Books
  <2>6. t.inflight = Cardinality(InState(t, "InFlight"))
    <3>1. Cardinality(InState(r, "InFlight") \cup {i}) = Cardinality(InState(r, "InFlight")) + 1
      BY <1>14, SlotSets, FS_AddElement, Zenon
    <3> QED BY <1>13, <1>14, <3>1, Zenon DEF Books
  <2> QED BY <1>13, <1>16, <2>1, <2>2, <2>3, <2>4, <2>5, <2>6, ZenonT(30) DEF Books
<1>18. t.slots[i] = new /\ \A j \in Slots : j # i => t.slots[j] = r.slots[j]
  BY <1>10, <1>13
<1> QED BY <1>3, <1>5, <1>13, <1>17, <1>18, ZenonT(30) DEF HasMarked, i, t, old, new, m


\* The slots of a callis in one state.
LostIn(r, callis_id, state) == {i \in InState(r, state) : r.slots[i].callis_id = callis_id}

Lost(r, callis_id) == LostIn(r, callis_id, "Writing") \cup LostIn(r, callis_id, "InFlight")

\* A slot whose attempt was undone.
Undone(slot) ==
    [state |-> "ReplayReady", chunk_id |-> slot.chunk_id, len |-> slot.len,
     is_last |-> slot.is_last, seq |-> slot.seq, peer_msg_id |-> 0, callis_id |-> 0]

CanReplay(Ids, r, callis_id) == 0 \in Ids /\ Books(r, Ids)

HasReplayed(Ids, r, callis_id) ==
    LET t == mark_callis_replay_ready(r, callis_id)
    IN  /\ \A j \in Lost(r, callis_id) : t.slots[j] = Undone(r.slots[j])
        /\ \A j \in Slots \ Lost(r, callis_id) : t.slots[j] = r.slots[j]
        /\ SameStream(r, t) /\ Books(t, Ids)

\* mark_callis_replay_ready.
LEMMA ReplayBooks ==
  ASSUME NEW Ids, NEW r, NEW callis_id, CanReplay(Ids, r, callis_id)
  PROVE  HasReplayed(Ids, r, callis_id)
<1> USE DEF CanReplay
<1> DEFINE L == Lost(r, callis_id)
           F == LostIn(r, callis_id, "InFlight")
           gone == {r.slots[i].peer_msg_id : i \in F}
           t == mark_callis_replay_ready(r, callis_id)
           slots == [i \in Slots |-> IF i \in L THEN Unstamped(r.slots[i], "ReplayReady")
                                                ELSE r.slots[i]]
           acks == [m \in DOMAIN r.ack_map \ gone |-> r.ack_map[m]]
           down == r.inflight - Cardinality(F)
<1>1. RingType(r, Ids)
  BY DEF Books
<1>2. t = [r EXCEPT !.slots = slots, !.ack_map = acks, !.inflight = down]
  BY Zenon DEF mark_callis_replay_ready, Lost, LostIn
<1>3. ASSUME NEW j \in Slots
      PROVE  Unstamped(r.slots[j], "ReplayReady") = Undone(r.slots[j])
  <2>1. IsLease(r.slots[j])
    BY <1>1, SlotIsLease DEF RingType
  <2>2. ASSUME NEW s, IsLease(s), NEW q, q = Unstamped(s, "ReplayReady")
        PROVE  q = Undone(s)
    BY <2>2, Zenon DEF IsLease, Undone, Unstamped
  <2> QED BY <2>1, <2>2
<1>4. /\ L \subseteq Attempted(r) /\ F \subseteq L /\ F \subseteq InState(r, "InFlight")
      /\ L \cap InState(r, "InFlight") = F
      /\ Attempted(r) \subseteq Slots /\ Attempted(r) \subseteq Occupied(r)
      /\ InState(r, "InFlight") \subseteq Attempted(r) /\ Occupied(r) \subseteq Slots
  BY DEF Lost, LostIn, Attempted, InState, Occupied
<1>5. \A j \in Slots : /\ Undone(r.slots[j]) \in SlotOf(Ids)
                       /\ Undone(r.slots[j]).state = "ReplayReady"
                       /\ Undone(r.slots[j]).chunk_id = r.slots[j].chunk_id
  <2> TAKE j \in Slots
  <2>1. "ReplayReady" \in SlotStates /\ r.slots[j] \in SlotOf(Ids)
    BY <1>1, ZenonT(30) DEF SlotStates, RingType
  <2> QED BY <2>1 DEF Undone, SlotOf
<1>6. /\ slots \in [Slots -> SlotOf(Ids)]
      /\ \A j \in L : slots[j] = Undone(r.slots[j])
      /\ \A j \in Slots \ L : slots[j] = r.slots[j]
  <2>1. \A j \in Slots : slots[j] = IF j \in L THEN Undone(r.slots[j]) ELSE r.slots[j]
    BY <1>3
  <2> QED BY <1>1, <1>4, <1>5, <2>1 DEF RingType
<1>7. IsMap(acks, Nat, Nat) /\ DOMAIN acks = DOMAIN r.ack_map \ gone 
      /\ \A m \in DOMAIN acks : acks[m] = r.ack_map[m]
  <2>1. Restricted(acks, r.ack_map, gone) /\ IsMap(r.ack_map, Nat, Nat)
    BY <1>1 DEF RingType, Restricted
  <2> HIDE DEF acks, gone
  <2>2. KeptMap(acks, r.ack_map, gone, Nat, Nat)
    BY <2>1, WithoutIs
  <2> QED BY <2>2 DEF KeptMap
<1>8. /\ Cardinality(InState(r, "InFlight") \ F) = Cardinality(InState(r, "InFlight")) - Cardinality(F)
      /\ Cardinality(InState(r, "InFlight") \ F) \in Nat
  <2>1. IsFiniteSet(InState(r, "InFlight")) /\ InState(r, "InFlight") \cap F = F
    BY <1>4, SlotSets, ZenonT(30)
  <2> HIDE DEF F
  <2> QED BY <2>1, FS_Difference, FS_CardinalityType, ZenonT(30)
<1>9. down = Cardinality(InState(r, "InFlight") \ F) /\ down \in Nat
  BY <1>8 DEF Books
<1> HIDE DEF slots, acks, down, t
<1>10. t = Rebooked(r, slots, r.chunk_index, acks, down)
  BY <1>1, <1>2, Zenon DEF Rebooked, RingType
<1>11. /\ SameStream(r, t) /\ RingType(t, Ids) /\ t.slots = slots
       /\ t.chunk_index = r.chunk_index /\ t.ack_map = acks /\ t.inflight = down
  <2>1. IsMap(r.chunk_index, Nat, Slots)
    BY <1>1, ZenonT(30) DEF RingType
  <2>2. Rebooking(Ids, r, t, slots, r.chunk_index, acks, down)
    BY <1>1, <1>6, <1>7, <1>9, <1>10, <2>1 DEF Rebooking
  <2>3. RebookedTo(Ids, r, t, slots, r.chunk_index, acks, down)
    BY <2>2, RebookedAt
  <2> QED BY <2>3 DEF RebookedTo
<1>12. /\ Occupied(t) = Occupied(r) /\ Attempted(t) = Attempted(r) \ L
       /\ InState(t, "InFlight") = InState(r, "InFlight") \ F
  <2>1. \A j \in Slots : t.slots[j].state = IF j \in L THEN "ReplayReady" ELSE r.slots[j].state
    BY <1>4, <1>5, <1>6, <1>11, ZenonT(30)
  <2>2. \A j \in L : r.slots[j].state # "Empty" /\ r.slots[j].state \in {"Writing", "InFlight"}
    BY <1>4 DEF Attempted
  <2> HIDE DEF L, F
  <2>3. Occupied(t) = Occupied(r)
    BY <2>1, <2>2 DEF Occupied
  <2>4. Attempted(t) = Attempted(r) \ L
    BY <2>1 DEF Attempted
  <2>5. InState(t, "InFlight") = InState(r, "InFlight") \ F
    BY <1>4, <2>1, ZenonT(30) DEF InState
  <2> QED BY <2>3, <2>4, <2>5, ZenonT(30)
<1>13. /\ \A j \in Slots : t.slots[j].chunk_id = r.slots[j].chunk_id
       /\ \A j \in Attempted(t) : t.slots[j] = r.slots[j]
       /\ \A j \in InState(t, "InFlight") : t.slots[j] = r.slots[j]
  BY <1>4, <1>5, <1>6, <1>11, <1>12
<1> HIDE DEF L, F
<1>14. has_window_capacity_for(t, 0)
  <2>1. live_chunk_count(t) = live_chunk_count(r)
    BY <1>12, SlotSets, ZenonT(30)
  <2> QED BY <1>11, <2>1, Zenon DEF has_window_capacity_for, Books, SameStream
<1>15. Books(t, Ids)
  <2>1. DOMAIN t.chunk_index = {t.slots[j].chunk_id : j \in Occupied(t)}
    BY <1>4, <1>11, <1>12, <1>13, SMTT(30) DEF Books
  <2>2. \A j \in Occupied(t) : /\ t.slots[j].chunk_id < t.next_chunk_id
                              /\ t.chunk_index[t.slots[j].chunk_id] = j
    BY <1>4, <1>11, <1>12, <1>13, ZenonT(30) DEF Books, SameStream
  <2>3. DOMAIN t.ack_map = {t.slots[j].peer_msg_id : j \in InState(t, "InFlight")}
    <3>1. DOMAIN r.ack_map = {r.slots[j].peer_msg_id : j \in InState(r, "InFlight")}
      BY DEF Books
    <3>2. \A j, k \in InState(r, "InFlight") : r.slots[j].peer_msg_id = r.slots[k].peer_msg_id => j = k
      BY <1>4, ZenonT(30) DEF Books
    <3>3. DOMAIN t.ack_map = {r.slots[j].peer_msg_id : j \in InState(r, "InFlight") \ F}
      BY <1>4, <1>7, <1>11, <3>1, <3>2
    <3> QED BY <1>12, <1>13, <3>3, ZenonT(30)
  <2>4. \A j \in InState(t, "InFlight") : t.ack_map[t.slots[j].peer_msg_id] = t.slots[j].chunk_id
    <3> TAKE j \in InState(t, "InFlight")
    <3>1. t.slots[j].peer_msg_id \in DOMAIN t.ack_map
      BY <2>3, ZenonT(30)
    <3>2. r.ack_map[r.slots[j].peer_msg_id] = r.slots[j].chunk_id /\ t.slots[j] = r.slots[j]
      BY <1>12, <1>13, ZenonT(30) DEF Books
    <3> QED BY <1>7, <1>11, <3>1, <3>2
  <2>5. \A j, k \in Attempted(t) : t.slots[j].peer_msg_id = t.slots[k].peer_msg_id => j = k
    BY <1>12, <1>13 DEF Books
  <2>6. t.inflight = Cardinality(InState(t, "InFlight"))
    BY <1>9, <1>11, <1>12
  <2> QED BY <1>11, <1>14, <2>1, <2>2, <2>3, <2>4, <2>5, <2>6, ZenonT(30) DEF Books
<1>16. /\ \A j \in L : t.slots[j] = Undone(r.slots[j])
       /\ \A j \in Slots \ L : t.slots[j] = r.slots[j]
  BY <1>6, <1>11
<1> QED BY <1>11, <1>15, <1>16, ZenonT(30) DEF HasReplayed, t, L

\* complete_chunk, for an answer m.
HasCompleted(Ids, r, m) ==
    LET t == complete_chunk(r, m)
    IN  /\ SameStream(r, t) /\ Books(t, Ids) /\ m \notin DOMAIN t.ack_map
        /\ m \notin DOMAIN r.ack_map => t = r
        /\ m \in DOMAIN r.ack_map =>
             \E i \in InState(r, "InFlight") :
               /\ r.slots[i].peer_msg_id = m /\ t.slots[i] = EmptySlot
               /\ \A j \in Slots : j # i => t.slots[j] = r.slots[j]

CanComplete(Ids, r, m) == 0 \in Ids /\ Books(r, Ids)

\* An answer frees the slot of its attempt, if the ring still has it in flight.
LEMMA CompleteBooks ==
  ASSUME NEW Ids, NEW r, NEW m, CanComplete(Ids, r, m)
  PROVE  HasCompleted(Ids, r, m)
<1> USE DEF CanComplete
<1> DEFINE t == complete_chunk(r, m)
<1>1. RingType(r, Ids)
  BY DEF Books
<1>2. CASE m \notin DOMAIN r.ack_map
  <2>1. t = r
    BY <1>2, ZenonT(30) DEF complete_chunk
  <2> QED BY <1>2, <2>1 DEF HasCompleted, SameStream
<1>3. CASE m \in DOMAIN r.ack_map
  <2>1. PICK i \in InState(r, "InFlight") : r.slots[i].peer_msg_id = m
    BY <1>3 DEF Books
  <2> DEFINE c == r.slots[i].chunk_id
  <2>2. /\ i \in Slots /\ r.slots[i].state = "InFlight" /\ i \in Occupied(r) /\ i \in Attempted(r)
        /\ InState(r, "InFlight") \subseteq Attempted(r) /\ Attempted(r) \subseteq Slots
        /\ Attempted(r) \subseteq Occupied(r) /\ Occupied(r) \subseteq Slots
    BY ZenonT(30) DEF InState, Occupied, Attempted
  <2>3. r.ack_map[m] = c /\ c \in DOMAIN r.chunk_index /\ r.chunk_index[c] = i
    BY <2>1, <2>2 DEF Books
  <2> DEFINE slots == [r.slots EXCEPT ![i] = EmptySlot]
             acks == Without(r.ack_map, m)
             index == Without(r.chunk_index, c)
             down == r.inflight - 1
  <2>4. t = Rebooked(r, slots, index, acks, down)
    <3> DEFINE acked == [r EXCEPT !.ack_map = acks]
    <3>1. t = [acked EXCEPT !.chunk_index = Without(@, c),
                            !.inflight = IF r.slots[i].state = "InFlight" THEN @ - 1 ELSE @,
                            !.slots[i] = EmptySlot]
      BY <1>3, <2>3, Zenon DEF complete_chunk
    <3>2. acked = Rebooked(r, r.slots, r.chunk_index, acks, r.inflight)
      <4> HIDE DEF acks
      <4> SUFFICES ASSUME NEW q, q = acked
                   PROVE  q = Rebooked(r, r.slots, r.chunk_index, acks, r.inflight)
        OBVIOUS
      <4> QED BY <1>1, Zenon DEF Rebooked, RingType
    <3> HIDE DEF acked, acks
    <3>3. /\ acked.chunk_index = r.chunk_index /\ acked.inflight = r.inflight
          /\ acked.slots = r.slots
      BY <3>2 DEF Rebooked
    <3>4. t = [acked EXCEPT !.chunk_index = index, !.inflight = down, !.slots = slots]
      BY <2>2, <3>1, <3>3, Zenon
    <3> HIDE DEF index, down, slots
    <3> QED BY <3>2, <3>4, Zenon DEF Rebooked
  <2>5. EmptySlot \in SlotOf(Ids) /\ EmptySlot.state = "Empty"
    <3>1. "Empty" \in SlotStates /\ 0 \in 0..ChunkSize
      BY SizeAssumption DEF SlotStates
    <3> QED BY <3>1 DEF EmptySlot, SlotOf
  <2>6. /\ slots \in [Slots -> SlotOf(Ids)] /\ slots[i] = EmptySlot
        /\ \A j \in Slots : j # i => slots[j] = r.slots[j]
    BY <1>1, <2>2, <2>5 DEF RingType
  <2>7. /\ IsMap(acks, Nat, Nat) /\ DOMAIN acks = DOMAIN r.ack_map \ {m}
        /\ \A x \in DOMAIN acks : acks[x] = r.ack_map[x]
    <3>1. Restricted(acks, r.ack_map, {m}) /\ IsMap(r.ack_map, Nat, Nat)
      BY <1>1 DEF RingType, Restricted, Without
    <3> HIDE DEF acks, index, c
    <3>2. KeptMap(acks, r.ack_map, {m}, Nat, Nat)
      BY <3>1, WithoutIs
    <3> QED BY <3>2 DEF KeptMap
  <2>8. /\ IsMap(index, Nat, Slots) /\ DOMAIN index = DOMAIN r.chunk_index \ {c}
        /\ \A x \in DOMAIN index : index[x] = r.chunk_index[x]
    <3>1. Restricted(index, r.chunk_index, {c}) /\ IsMap(r.chunk_index, Nat, Slots)
      BY <1>1 DEF RingType, Restricted, Without
    <3> HIDE DEF acks, index, c
    <3>2. KeptMap(index, r.chunk_index, {c}, Nat, Slots)
      BY <3>1, WithoutIs, ZenonT(30)
    <3> QED BY <3>2 DEF KeptMap
  <2>9. /\ Cardinality(InState(r, "InFlight") \ {i}) = Cardinality(InState(r, "InFlight")) - 1
        /\ Cardinality(InState(r, "InFlight") \ {i}) \in Nat
        /\ Cardinality(Occupied(r) \ {i}) = Cardinality(Occupied(r)) - 1
    <3>1. IsFiniteSet(InState(r, "InFlight")) /\ IsFiniteSet(Occupied(r))
      BY SlotSets, ZenonT(30)
    <3> QED BY <2>2, <3>1, FS_RemoveElement, FS_CardinalityType
  <2>10. down = Cardinality(InState(r, "InFlight") \ {i}) /\ down \in Nat
    BY <2>9 DEF Books
  <2> HIDE DEF slots, acks, index, down, t
  <2>11. /\ SameStream(r, t) /\ RingType(t, Ids) /\ t.slots = slots
         /\ t.chunk_index = index /\ t.ack_map = acks /\ t.inflight = down
    <3>1. Rebooking(Ids, r, t, slots, index, acks, down)
      BY <1>1, <2>4, <2>6, <2>7, <2>8, <2>10, ZenonT(30) DEF Rebooking
    <3>2. RebookedTo(Ids, r, t, slots, index, acks, down)
      BY <3>1, RebookedAt, ZenonT(30)
    <3> QED BY <3>2, ZenonT(30) DEF RebookedTo
  <2>12. /\ Occupied(t) = Occupied(r) \ {i} /\ Attempted(t) = Attempted(r) \ {i}
         /\ InState(t, "InFlight") = InState(r, "InFlight") \ {i}
    BY <2>2, <2>5, <2>6, <2>11, ZenonT(30) DEF Occupied, Attempted, InState
  <2>13. \A j \in Occupied(t) : j # i /\ j \in Slots /\ j \in Occupied(r) /\ t.slots[j] = r.slots[j]
    BY <2>2, <2>6, <2>11, <2>12, ZenonT(30)
  <2>14. /\ \A j \in Attempted(t) : j \in Attempted(r) /\ j \in Occupied(t)
         /\ \A j \in InState(t, "InFlight") : j \in InState(r, "InFlight") /\ j \in Attempted(t)
    BY <2>2, <2>12, ZenonT(30)
  <2>15. has_window_capacity_for(t, 0)
    <3>1. /\ live_chunk_count(t) = live_chunk_count(r) - 1 /\ live_chunk_count(t) \in Nat
          /\ live_chunk_count(r) \in Nat
      BY <2>9, <2>12, SlotSets, ZenonT(30)
    <3>2. t.pending_full = r.pending_full /\ r.pending_full \in BOOLEAN
      BY <1>1, <2>11, ZenonT(30) DEF SameStream, RingType
    <3> QED BY <3>1, <3>2, SizeAssumption DEF has_window_capacity_for, Books
  <2>16. \A j, k \in Occupied(r) : r.slots[j].chunk_id = r.slots[k].chunk_id => j = k
    BY DEF Books
  <2>17. \A j, k \in Attempted(r) : r.slots[j].peer_msg_id = r.slots[k].peer_msg_id => j = k
    BY ZenonT(30) DEF Books
  <2>18. Books(t, Ids)
    <3>1. DOMAIN t.chunk_index = {t.slots[j].chunk_id : j \in Occupied(t)}
      <4>1. DOMAIN r.chunk_index = {r.slots[j].chunk_id : j \in Occupied(r)}
        BY ZenonT(30) DEF Books
      <4>2. DOMAIN t.chunk_index = {r.slots[j].chunk_id : j \in Occupied(t)}
        BY <2>2, <2>8, <2>11, <2>12, <2>16, <4>1, SMTT(30)
      <4> QED BY <2>13, <4>2, ZenonT(30)
    <3>2. \A j \in Occupied(t) : /\ t.slots[j].chunk_id < t.next_chunk_id
                                /\ t.chunk_index[t.slots[j].chunk_id] = j
      <4> TAKE j \in Occupied(t)
      <4>1. t.slots[j].chunk_id \in DOMAIN index
        BY <2>11, <3>1, ZenonT(30)
      <4>2. /\ r.slots[j].chunk_id < r.next_chunk_id /\ r.chunk_index[r.slots[j].chunk_id] = j
            /\ t.slots[j] = r.slots[j]
        BY <2>13 DEF Books
      <4> QED BY <2>8, <2>11, <4>1, <4>2, ZenonT(30) DEF SameStream
    <3>3. DOMAIN t.ack_map = {t.slots[j].peer_msg_id : j \in InState(t, "InFlight")}
      <4>1. DOMAIN r.ack_map = {r.slots[j].peer_msg_id : j \in InState(r, "InFlight")}
        BY ZenonT(30) DEF Books
      <4>2. DOMAIN t.ack_map = {r.slots[j].peer_msg_id : j \in InState(t, "InFlight")}
        BY <2>1, <2>2, <2>7, <2>11, <2>12, <2>17, <4>1, SMTT(30)
      <4> QED BY <2>13, <2>14, <4>2, ZenonT(30)
    <3>4. \A j \in InState(t, "InFlight") : t.ack_map[t.slots[j].peer_msg_id] = t.slots[j].chunk_id
      <4> TAKE j \in InState(t, "InFlight")
      <4>1. t.slots[j].peer_msg_id \in DOMAIN acks
        BY <2>11, <3>3, ZenonT(30)
      <4>2. r.ack_map[r.slots[j].peer_msg_id] = r.slots[j].chunk_id /\ t.slots[j] = r.slots[j]
        BY <2>13, <2>14, ZenonT(30) DEF Books
      <4> QED BY <2>7, <2>11, <4>1, <4>2, ZenonT(30)
    <3>5. \A j, k \in Attempted(t) : t.slots[j].peer_msg_id = t.slots[k].peer_msg_id => j = k
      BY <2>13, <2>14, <2>17
    <3>6. t.inflight = Cardinality(InState(t, "InFlight"))
      BY <2>10, <2>11, <2>12, ZenonT(30)
    <3> QED BY <2>11, <2>15, <3>1, <3>2, <3>3, <3>4, <3>5, <3>6, ZenonT(30) DEF Books
  <2>19. m \notin DOMAIN t.ack_map
    BY <2>7, <2>11
  <2>20. t.slots[i] = EmptySlot /\ \A j \in Slots : j # i => t.slots[j] = r.slots[j]
    BY <2>6, <2>11
  <2> QED BY <1>3, <2>1, <2>11, <2>18, <2>19, <2>20, ZenonT(30) DEF HasCompleted, t
<1> QED BY <1>2, <1>3

----------------------------------------------------------------------------
(* Lifecycle. *)

Turns(Ids, r, v, w, t) ==
    /\ Books(r, Ids) /\ v \in Lifecycles
    /\ t = [r EXCEPT !.lifecycle = v] \/ t = [r EXCEPT !.lifecycle = v, !.error = w]

HasTurned(Ids, r, v, t) == Books(t, Ids) /\ Turned(r, t) /\ t.lifecycle = v

\* A lifecycle change leaves the books alone.
LEMMA TurnBooks ==
  ASSUME NEW Ids, NEW r, NEW v, NEW w, NEW t, Turns(Ids, r, v, w, t)
  PROVE  HasTurned(Ids, r, v, t)
<1> USE DEF Turns, HasTurned
<1>1. /\ RingType(r, Ids) /\ r.write_buf \in 0..ChunkSize /\ r.pending_full \in BOOLEAN
      /\ r.created_any \in BOOLEAN
  BY DEF Books, RingType
<1>2. Cardinality(Occupied(r)) + (IF r.pending_full THEN 1 ELSE 0) <= WindowSize
  <2>1. Cardinality(Occupied(r)) = live_chunk_count(r) /\ Cardinality(Occupied(r)) \in Nat
    BY SlotSets
  <2> QED BY <1>1, <2>1, SizeAssumption DEF Books, has_window_capacity_for
<1>3. ASSUME NEW x, t = Refit(r, v, x, r.write_buf, r.pending_full, r.created_any)
      PROVE  Books(t, Ids) /\ Turned(r, t) /\ t.lifecycle = v
  <2>1. Books(t, Ids)
    BY <1>1, <1>2, <1>3, RefitBooks
  <2>2. Turned(r, t) /\ t.lifecycle = v
    BY <1>3 DEF Refit, Turned
  <2> QED BY <2>1, <2>2
<1>4. \/ t = Refit(r, v, r.error, r.write_buf, r.pending_full, r.created_any)
      \/ t = Refit(r, v, w, r.write_buf, r.pending_full, r.created_any)
  <2>1. CASE t = [r EXCEPT !.lifecycle = v]
    BY <1>1, <2>1, Zenon DEF Refit, RingType
  <2>2. CASE t = [r EXCEPT !.lifecycle = v, !.error = w]
    BY <1>1, <2>2, Zenon DEF Refit, RingType
  <2> QED BY <2>1, <2>2
<1> QED BY <1>3, <1>4, Zenon

\* close, fail and mark_complete.
LEMMA LifecycleBooks ==
  ASSUME NEW Ids, NEW r, Books(r, Ids), NEW err
  PROVE  /\ Books(close(r), Ids) /\ Turned(r, close(r))
         /\ close(r).lifecycle = IF r.lifecycle = "Failed" THEN "Failed" ELSE "Closed"
         /\ Books(fail(r, err), Ids) /\ Turned(r, fail(r, err))
         /\ fail(r, err).lifecycle = "Failed"
         /\ Books(mark_complete(r), Ids) /\ Turned(r, mark_complete(r))
         /\ mark_complete(r).lifecycle = IF r.lifecycle = "Failed" THEN "Failed" ELSE "Completed"
<1>1. "Closed" \in Lifecycles /\ "Failed" \in Lifecycles /\ "Completed" \in Lifecycles
  BY DEF Lifecycles
<1>2. Turned(r, r)
  BY DEF Turned
<1>3. CASE r.lifecycle = "Failed"
  <2>1. close(r) = r /\ fail(r, err) = r /\ mark_complete(r) = r
    BY <1>3 DEF close, fail, mark_complete
  <2> QED BY <1>2, <1>3, <2>1
<1>4. CASE r.lifecycle # "Failed"
  <2>1. /\ close(r) = [r EXCEPT !.lifecycle = "Closed"]
        /\ fail(r, err) = [r EXCEPT !.lifecycle = "Failed", !.error = err]
        /\ mark_complete(r) = [r EXCEPT !.lifecycle = "Completed"]
    BY <1>4 DEF close, fail, mark_complete
  <2>2. /\ Turns(Ids, r, "Closed", err, close(r))
        /\ Turns(Ids, r, "Failed", err, fail(r, err))
        /\ Turns(Ids, r, "Completed", err, mark_complete(r))
    BY <1>1, <2>1, Zenon DEF Turns
  <2>3. /\ HasTurned(Ids, r, "Closed", close(r))
        /\ HasTurned(Ids, r, "Failed", fail(r, err))
        /\ HasTurned(Ids, r, "Completed", mark_complete(r))
    BY <2>2, TurnBooks, Zenon
  <2> QED BY <1>4, <2>3, Zenon DEF HasTurned
<1> QED BY <1>3, <1>4

\* note_error: the answered slot is freed and the ring fails.
LEMMA NoteErrorBooks ==
  ASSUME NEW Ids, NEW r, NEW m, NEW err, Books(complete_chunk(r, m), Ids)
  PROVE  /\ Books(note_error(r, m, err), Ids)
         /\ Turned(complete_chunk(r, m), note_error(r, m, err))
         /\ note_error(r, m, err).lifecycle = "Failed"
<1>1. "Failed" \in Lifecycles
  BY DEF Lifecycles
<1>2. note_error(r, m, err) = [complete_chunk(r, m) EXCEPT !.lifecycle = "Failed", !.error = err]
  BY DEF note_error
<1>3. Turns(Ids, complete_chunk(r, m), "Failed", err, note_error(r, m, err))
  BY <1>1, <1>2, Zenon DEF Turns
<1>4. HasTurned(Ids, complete_chunk(r, m), "Failed", note_error(r, m, err))
  BY <1>3, TurnBooks, ZenonT(30)
<1> QED BY <1>4, Zenon DEF HasTurned

\* t continues r: occupied slots are kept, slots filled since are Ready and
\* hold new chunks, and after the chunks e these account for the a bytes
\* accepted.
Advanced(Ids, r, e, t, a) ==
    /\ Books(t, Ids)
    /\ \A i \in Occupied(r) : t.slots[i] = r.slots[i]
    /\ \A i \in Occupied(t) \ Occupied(r) :
         t.slots[i].state = "Ready" /\ r.next_chunk_id <= t.slots[i].chunk_id
    /\ r.next_chunk_id <= t.next_chunk_id
    /\ \A c \in r.next_chunk_id..(t.next_chunk_id - 1) : c \in DOMAIN t.chunk_index
    /\ NewChunks(r, t) \in Seq(Chunk)
    /\ Len(NewChunks(r, t)) = t.next_chunk_id - r.next_chunk_id
    /\ a \in Nat /\ a = Bytes(e \o NewChunks(r, t)) + Buffered(t)

\* Chunk assembly, possibly followed by a lifecycle change, continues the ring.
LEMMA StageAdvanced ==
  ASSUME NEW Ids, NEW r, NEW e, NEW s, NEW a, Stage(Ids, r, e, s, a),
         NEW t, Books(t, Ids), Turned(s, t)
  PROVE  Advanced(Ids, r, e, t, a) /\ NewChunks(r, t) = NewChunks(r, s)
<1>1. NewChunks(r, t) = NewChunks(r, s) /\ Occupied(t) = Occupied(s) /\ Buffered(t) = Buffered(s)
  BY DEF Turned, NewChunks, Occupied, Buffered
<1>2. Len(NewChunks(r, s)) = s.next_chunk_id - r.next_chunk_id
  <2>1. s.next_chunk_id - r.next_chunk_id \in Nat
    BY SMTT(30) DEF Stage, Grown, Books, RingType
  <2> DEFINE N == s.next_chunk_id - r.next_chunk_id
  <2>2. NewChunks(r, s) \in Seq(Chunk) /\ DOMAIN NewChunks(r, s) = 1..N
    BY Zenon DEF Stage, NewChunks
  <2> HIDE DEF N
  <2>3. N \in Nat
    BY <2>1 DEF N
  <2>4. ASSUME NEW q \in Seq(Chunk), DOMAIN q = 1..N PROVE Len(q) = N
    BY <2>3, <2>4
  <2> QED BY <2>2, <2>4, ZenonT(30) DEF N
<1> QED BY <1>1, <1>2, ZenonT(30) DEF Stage, Grown, Advanced, Turned

CanSeal(Ids, r, e, a) ==
    /\ 0 \in Ids /\ Books(r, Ids) /\ e \in Seq(Chunk)
    /\ a \in Nat /\ a = Bytes(e) + Buffered(r)

HasSealed(Ids, r, e, a) ==
    LET t == seal(r)
    IN  /\ Advanced(Ids, r, e, t, a)
        /\ \/ r.lifecycle \in {"AwaitingComplete", "Completed"} /\ t = r /\ NewChunks(r, t) = <<>>
           \/ /\ t.lifecycle = "AwaitingComplete" /\ t.write_buf = 0 /\ t.pending_full = FALSE
              /\ r.lifecycle \notin {"AwaitingComplete", "Completed"} /\ LastOnly(NewChunks(r, t))
           \/ t.lifecycle = "Sealing" /\ Turned(r, t) /\ NewChunks(r, t) = <<>>

\* One round of seal.
LEMMA SealBooks ==
  ASSUME NEW Ids, NEW r, NEW e, NEW a, CanSeal(Ids, r, e, a)
  PROVE  HasSealed(Ids, r, e, a)
<1> USE DEF CanSeal
<1>1. Stage(Ids, r, e, r, a) /\ NewChunks(r, r) = <<>>
  BY StageStart
<1>2. "AwaitingComplete" \in Lifecycles /\ "Sealing" \in Lifecycles
  BY DEF Lifecycles
<1>3. CASE r.lifecycle \in {"AwaitingComplete", "Completed"}
  <2>1. seal(r) = r /\ Turned(r, r)
    BY <1>3 DEF seal, Turned
  <2>2. Advanced(Ids, r, e, r, a)
    BY <1>1, <2>1, StageAdvanced
  <2> QED BY <1>1, <1>3, <2>1, <2>2 DEF HasSealed
<1>4. CASE r.lifecycle \notin {"AwaitingComplete", "Completed"} /\ CanFinalize(r)
  <2> DEFINE s == finalize(r)
             t == seal(r)
  <2>1. t = [s EXCEPT !.lifecycle = "AwaitingComplete"]
    BY <1>4 DEF seal
  <2>2. /\ Stage(Ids, r, e, s, a) /\ s.write_buf = 0 /\ s.pending_full = FALSE
        /\ LastOnly(NewChunks(r, s))
    <3>1. Plain(NewChunks(r, r))
      <4>1. \A m : m \notin 1..Len(<<>>)
        OBVIOUS
      <4> QED BY <1>1, <4>1, Zenon DEF Plain
    <3> QED BY <1>1, <1>4, <3>1, Finalized, Zenon
  <2>3. Books(s, Ids)
    BY <2>2 DEF Stage
  <2> HIDE DEF s, t
  <2>4. Books(t, Ids) /\ Turned(s, t) /\ t.lifecycle = "AwaitingComplete"
    <3>1. Turns(Ids, s, "AwaitingComplete", s.error, t)
      BY <1>2, <2>1, <2>3, Zenon DEF Turns
    <3>2. HasTurned(Ids, s, "AwaitingComplete", t)
      BY <3>1, TurnBooks, Zenon
    <3> QED BY <3>2, Zenon DEF HasTurned
  <2>5. Advanced(Ids, r, e, t, a) /\ NewChunks(r, t) = NewChunks(r, s)
    BY <2>2, <2>4, StageAdvanced, SMTT(30)
  <2>6. t.write_buf = 0 /\ t.pending_full = FALSE /\ LastOnly(NewChunks(r, t))
    BY <2>2, <2>4, <2>5 DEF Turned
  <2> QED BY <1>4, <2>4, <2>5, <2>6 DEF HasSealed, t
<1>5. CASE r.lifecycle \notin {"AwaitingComplete", "Completed"} /\ ~CanFinalize(r)
  <2> DEFINE t == seal(r)
  <2>1. t = [r EXCEPT !.lifecycle = "Sealing"]
    BY <1>5 DEF seal
  <2> HIDE DEF t
  <2>2. Books(t, Ids) /\ Turned(r, t) /\ t.lifecycle = "Sealing"
    <3>1. Turns(Ids, r, "Sealing", r.error, t)
      BY <1>2, <2>1, Zenon DEF Turns
    <3>2. HasTurned(Ids, r, "Sealing", t)
      BY <3>1, TurnBooks, Zenon
    <3> QED BY <3>2, Zenon DEF HasTurned
  <2>3. Advanced(Ids, r, e, t, a) /\ NewChunks(r, t) = NewChunks(r, r)
    BY <1>1, <2>2, StageAdvanced
  <2> QED BY <1>1, <2>2, <2>3 DEF HasSealed, t
<1> QED BY <1>3, <1>4, <1>5

\* A new ring.
LEMMA NewRingBooks ==
  ASSUME NEW Ids, 0 \in Ids
  PROVE  /\ Books(NewRing, Ids) /\ Occupied(NewRing) = {} /\ Buffered(NewRing) = 0
         /\ NewRing.next_chunk_id = 0 /\ NewRing.lifecycle = "Open"
<1> DEFINE r == NewRing
<1>1. /\ r.lifecycle = "Open" /\ r.error = "none" /\ r.next_chunk_id = 0 /\ r.write_cursor = 0
      /\ r.write_buf = 0 /\ r.pending_full = FALSE /\ r.created_any = FALSE
      /\ r.slots = [i \in Slots |-> EmptySlot]
      /\ r.chunk_index = <<>> /\ r.ack_map = <<>> /\ r.inflight = 0
      /\ r = [lifecycle |-> r.lifecycle, error |-> r.error, next_chunk_id |-> r.next_chunk_id,
            write_cursor |-> r.write_cursor, write_buf |-> r.write_buf,
            pending_full |-> r.pending_full, created_any |-> r.created_any,
            slots |-> r.slots, chunk_index |-> r.chunk_index, ack_map |-> r.ack_map,
            inflight |-> r.inflight]
  BY DEF NewRing
<1> HIDE DEF r
<1>2. EmptySlot \in SlotOf(Ids) /\ EmptySlot.state = "Empty"
  <2>1. "Empty" \in SlotStates /\ 0 \in 0..ChunkSize
    BY SizeAssumption DEF SlotStates
  <2> QED BY <2>1 DEF EmptySlot, SlotOf
<1>3. \A D, R : IsMap(<<>>, D, R)
  BY DEF IsMap
<1>4. 0 \in Slots /\ "Open" \in Lifecycles /\ 0 \in 0..ChunkSize
  BY SizeAssumption DEF Slots, Lifecycles
<1>5. RingType(r, Ids)
  <2>1. r.slots \in [Slots -> SlotOf(Ids)]
    BY <1>1, <1>2
  <2> QED BY <1>1, <1>3, <1>4, <2>1 DEF RingType
<1>6. \A i \in Slots : r.slots[i].state = "Empty"
  BY <1>1, <1>2
<1>7. Occupied(r) = {} /\ InState(r, "InFlight") = {} /\ Attempted(r) = {}
  BY <1>6 DEF Occupied, InState, Attempted
<1>8. live_chunk_count(r) = 0 /\ Cardinality(InState(r, "InFlight")) = 0
  <2>1. Cardinality({}) = 0
    BY FS_EmptySet
  <2> QED BY <1>7, <2>1, SlotSets
<1>9. has_window_capacity_for(r, 0)
  BY <1>1, <1>8, SizeAssumption, SMTT(30) DEF has_window_capacity_for
<1>10. Books(r, Ids)
  BY <1>1, <1>5, <1>7, <1>8, <1>9 DEF Books
<1> QED BY <1>1, <1>7, <1>10, SMTT(30) DEF Buffered, r
=============================================================================
