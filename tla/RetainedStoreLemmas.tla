------------------------ MODULE RetainedStoreLemmas -------------------------
(***************************************************************************)
(* The facts about slots, queues, allocation and removal that the proofs of*)
(* the steps of RetainedStore share, and the proofs that claims, removals, *)
(* deadlines, write results and replay marking keep its invariant.         *)
(***************************************************************************)
EXTENDS RetainedStore, FiniteSetTheorems, TLAPS

\* A step that leaves every slot's occupant, and all the bookkeeping about
\* occupants, as they are.
SameOccupant(s) ==
  /\ slot'[s].item = slot[s].item
  /\ slot'[s].seq = slot[s].seq
  /\ slot'[s].deadline = slot[s].deadline
  /\ slot'[s].state = "Empty" <=> slot[s].state = "Empty"

Relabel ==
  /\ \A s \in SlotIds : SameOccupant(s)
  /\ UNCHANGED <<len, free, target, live, tracked, responses, nextSeq, outcome>>

-----------------------------------------------------------------------------
(* Slots, queues and finite sets *)

\* A slot is a lane and an index of it.
LEMMA SlotIdsFact ==
  /\ \A l \in Lanes, i \in Index : <<l, i>> \in SlotIds
  /\ \A s \in SlotIds : s[1] \in Lanes /\ s[2] \in Index /\ s = <<s[1], s[2]>>
BY DEF SlotIds

\* A lane has finitely many slots.
LEMMA IndexFinite == MaxSlots \in Nat /\ IsFiniteSet(Index) /\ Index \subseteq Nat
<1>1. MaxSlots \in Nat
  BY ConstantsAssumption
<1> QED BY <1>1, FS_Interval DEF Index

\* RetainedCapacities yields admissible capacities.
LEMMA CapacitiesFact ==
  ASSUME NEW q \in QueueSizes
  PROVE  /\ RetainedCapacities(q) \in [Lanes -> Nat]
         /\ \A l \in Lanes : RetainedCapacities(q)[l] <= MaxSlots
<1>1. q \in Nat /\ q * AckMultiplier \in Nat /\ q * ErrorMultiplier \in Nat /\ A2Capacity \in Nat
  BY ConstantsAssumption, SMT
<1>2. RetainedCapacities(q) \in [Lanes -> Nat]
  BY <1>1 DEF RetainedCapacities, Lanes
<1> QED BY <1>2, ConstantsAssumption

\* A step that changes only states and callis of slots keeps who occupies them.
LEMMA RelabelKeepsOccupancy ==
  ASSUME TypeOK, TypeOK', Occupancy, Relabel
  PROVE  Occupancy'
<1> USE SlotIdsFact
<1>1. SlotShape'
  BY DEF Occupancy, SlotShape, Relabel, SameOccupant
<1>2. SeqsIdentifyItems'
  BY DEF Occupancy, SeqsIdentifyItems, Relabel, SameOccupant
<1>3. LaneCounts'
  <2> SUFFICES ASSUME NEW l \in Lanes
               PROVE /\ live'[l] = Cardinality({i \in Index : slot'[<<l, i>>].item # None})
                     /\ free'[l] = {i \in 1..len'[l] : slot'[<<l, i>>].item = None}
    BY DEF LaneCounts
  <2>1. \A i \in Index : slot'[<<l, i>>].item = slot[<<l, i>>].item
    BY DEF Relabel, SameOccupant
  <2>2. {i \in Index : slot'[<<l, i>>].item # None} = {i \in Index : slot[<<l, i>>].item # None}
    BY <2>1
  <2>3. 1..len[l] \subseteq Index
    <3>1. len[l] \in Nat /\ len[l] <= MaxSlots
      BY DEF Occupancy, SlotShape, TypeOK
    <3> QED BY <3>1, IndexFinite DEF Index
  <2>4. {i \in 1..len[l] : slot'[<<l, i>>].item = None} = {i \in 1..len[l] : slot[<<l, i>>].item = None}
    BY <2>1, <2>3
  <2> QED BY <2>2, <2>4 DEF Occupancy, LaneCounts, Relabel, SameOccupant
<1>4. IndexesMatchSlots'
  BY SMTT(20) DEF Occupancy, IndexesMatchSlots, Relabel, SameOccupant, TypeOK, IsTracked, IsResponse
<1>5. WaiterIffRetained'
  BY DEF Occupancy, WaiterIffRetained, Relabel, SameOccupant, TypeOK
<1> QED BY <1>1, <1>2, <1>3, <1>4, <1>5 DEF Occupancy

\* An item is a tracked message or a response, never both, and never None.
LEMMA ItemFact ==
  /\ \A x \in Items : x # None /\ (IsTracked(x) <=> ~IsResponse(x))
  /\ \A x \in Items : IsTracked(x) => x.id \in TrackedIds /\ x = Tracked(x.id)
  /\ \A x \in Items : IsResponse(x) => x.id \in ResponseIds
  /\ \A id \in TrackedIds : Tracked(id) \in Items /\ IsTracked(Tracked(id)) /\ Tracked(id).id = id
  /\ ~IsTracked(None) /\ ~IsResponse(None)
<1>1. None \notin Items
  BY ConstantsAssumption
<1> QED BY <1>1 DEF Items, IsTracked, IsResponse, Tracked

\* What the removal of the items of S does slot by slot.
LEMMA RemovalFact ==
  ASSUME TypeOK, NEW S \in SUBSET SlotIds, NEW result, remove_slots(S, result)
  PROVE  \A s \in SlotIds :
           /\ s \in Occupied(S) => /\ slot[s].item # None
                                   /\ slot'[s].item = None /\ slot'[s].state = "Empty"
                                   /\ slot'[s].seq \in Nat /\ slot'[s].callis = None
                                   /\ slot'[s].deadline = slot[s].deadline
           /\ s \notin Occupied(S) => slot'[s] = slot[s]
           /\ s \in S => slot'[s].item = None
<1> SUFFICES ASSUME NEW s \in SlotIds
             PROVE  /\ s \in Occupied(S) => /\ slot[s].item # None
                                            /\ slot'[s].item = None /\ slot'[s].state = "Empty"
                                            /\ slot'[s].seq \in Nat /\ slot'[s].callis = None
                                            /\ slot'[s].deadline = slot[s].deadline
                    /\ s \notin Occupied(S) => slot'[s] = slot[s]
                    /\ s \in S => slot'[s].item = None
  OBVIOUS
<1>1. slot[s] \in [item : Items \cup {None}, deadline : Nat, seq : Nat,
                   state : States, callis : Callis \cup {None}]
  BY DEF TypeOK
<1>2. slot'[s] = IF s \in Occupied(S)
                 THEN [item |-> None, deadline |-> slot[s].deadline, seq |-> slot[s].seq + 1,
                       state |-> "Empty", callis |-> None]
                 ELSE slot[s]
  BY DEF remove_slots
<1>3. s \in Occupied(S) <=> s \in S /\ slot[s].item # None
  BY DEF Occupied
<1> QED BY <1>1, <1>2, <1>3

\* The size of what is left when a part of a finite set is taken out.
LEMMA SubsetDifference ==
  ASSUME NEW A, NEW B, IsFiniteSet(A), B \subseteq A
  PROVE  Cardinality(A \ B) = Cardinality(A) - Cardinality(B)
<1>1. A \cap B = B
  OBVIOUS
<1> QED BY ONLY <1>1, FS_Difference, IsFiniteSet(A)

\* A removal takes from live_count what it adds to the free list.
LEMMA RemovalKeepsCounts ==
  ASSUME TypeOK, SlotShape, LaneCounts, NEW S \in SUBSET SlotIds, NEW result,
         remove_slots(S, result), UNCHANGED <<len, target>>
  PROVE  LaneCounts' /\ live' \in [Lanes -> Nat] /\ free' \in [Lanes -> SUBSET Index]
<1> DEFINE R == Occupied(S)
           O(l) == {i \in Index : slot[<<l, i>>].item # None}
           D(l) == {i \in Index : <<l, i>> \in R}
<1> USE SlotIdsFact
<1>1. ASSUME NEW l \in Lanes
      PROVE  /\ live'[l] = Cardinality({i \in Index : slot'[<<l, i>>].item # None})
             /\ live'[l] \in Nat
             /\ free'[l] = {i \in 1..len'[l] : slot'[<<l, i>>].item = None}
             /\ free'[l] \subseteq Index
  <2>1. \A i \in Index : slot'[<<l, i>>].item # None <=> i \in O(l) \ D(l)
    BY RemovalFact, ZenonT(20)
  <2>2. {i \in Index : slot'[<<l, i>>].item # None} = O(l) \ D(l)
    BY <2>1
  <2>3. D(l) \subseteq O(l)
    BY DEF Occupied
  <2>4. IsFiniteSet(O(l)) /\ IsFiniteSet(D(l))
    BY IndexFinite, FS_Subset, <2>3, ZenonT(20)
  <2>5. Cardinality(O(l) \ D(l)) = Cardinality(O(l)) - Cardinality(D(l))
    <3> HIDE DEF O, D
    <3> QED BY <2>3, <2>4, SubsetDifference
  <2>6. Cardinality(D(l)) <= Cardinality(O(l)) /\ Cardinality(D(l)) \in Nat /\ Cardinality(O(l)) \in Nat
    <3> HIDE DEF O, D
    <3> QED BY <2>3, <2>4, FS_Subset, FS_CardinalityType
  <2>7. live[l] = Cardinality(O(l))
    BY DEF LaneCounts
  <2>8. live'[l] = IF live[l] >= Cardinality(D(l)) THEN live[l] - Cardinality(D(l)) ELSE 0
    BY DEF remove_slots
  <2>9. live'[l] = Cardinality(O(l) \ D(l)) /\ live'[l] \in Nat
    <3> HIDE DEF O, D
    <3> QED BY <2>5, <2>6, <2>7, <2>8
  <2>10. len'[l] = len[l] /\ len[l] \in Nat /\ 1..len[l] \subseteq Index
    <3>1. len[l] \in Nat /\ len[l] <= MaxSlots
      BY DEF SlotShape, TypeOK
    <3> QED BY <3>1, IndexFinite DEF Index
  <2>11. \A i \in Index : i > len[l] => i \notin D(l)
    BY <2>3 DEF SlotShape
  <2>12. free'[l] = free[l] \cup D(l)
    BY DEF remove_slots
  <2>13. free[l] = {i \in 1..len[l] : slot[<<l, i>>].item = None}
    BY ZenonT(20) DEF LaneCounts
  <2>14. D(l) \subseteq 1..len[l]
    BY <2>10, <2>11, IndexFinite DEF Index
  <2>15. free'[l] = {i \in 1..len[l] : slot'[<<l, i>>].item = None}
    BY <2>1, <2>10, <2>12, <2>13, <2>14
  <2> QED BY <2>2, <2>9, <2>10, <2>15, ZenonT(20)
<1>2. live' \in [Lanes -> Nat] /\ free' \in [Lanes -> SUBSET Index]
  <2>1. live' = [l \in Lanes |-> live'[l]] /\ free' = [l \in Lanes |-> free'[l]]
    BY DEF remove_slots
  <2> QED BY <1>1, <2>1, ZenonT(20)
<1> QED BY <1>1, <1>2 DEF LaneCounts

\* The size of an interval.
LEMMA IntervalCardinality == \A n \in Nat : Cardinality(1..n) = n
<1> TAKE n \in Nat
<1>1. 1 \in Int /\ n \in Int
  OBVIOUS
<1>2. Cardinality(1..n) = IF 1 > n THEN 0 ELSE n - 1 + 1
  BY ONLY <1>1, FS_Interval
<1> QED BY <1>2

\* An available lane always has an index to allocate.
LEMMA AvailableAllocatable ==
  ASSUME TypeOK, SlotShape, LaneCounts
  PROVE  SlotAccounting
<1> SUFFICES \A l \in Lanes : available(l) => allocatable(l) # {}
  BY DEF SlotAccounting, LaneCounts
<1> SUFFICES ASSUME NEW l \in Lanes, available(l), allocatable(l) = {}
             PROVE  FALSE
  OBVIOUS
<1>0. free[l] = {} /\ ~(len[l] < target[l])
  <2>1. live[l] < target[l]
    BY DEF available
  <2>2. CASE free[l] # {}
    BY <2>1, <2>2 DEF allocatable, available
  <2>3. CASE free[l] = {} /\ len[l] < target[l]
    BY <2>1, <2>3 DEF allocatable, available
  <2> QED BY <2>2, <2>3
<1>1. len[l] \in Nat /\ len[l] <= MaxSlots /\ target[l] \in Nat /\ live[l] \in Nat
  BY DEF SlotShape, TypeOK
<1> DEFINE O == {i \in Index : slot[<<l, i>>].item # None}
<1>2. 1..len[l] \subseteq O
  <2>1. free[l] = {i \in 1..len[l] : slot[<<l, i>>].item = None}
    BY ZenonT(20) DEF LaneCounts
  <2>2. 1..len[l] \subseteq Index
    BY <1>1, IndexFinite DEF Index
  <2> QED BY <1>0, <2>1, <2>2
<1>3. IsFiniteSet(O) /\ live[l] = Cardinality(O)
  <2>1. live[l] = Cardinality(O)
    BY DEF LaneCounts
  <2>2. O \in SUBSET Index
    OBVIOUS
  <2> HIDE DEF O
  <2> QED BY <2>1, <2>2, IndexFinite, FS_Subset, ZenonT(20)
<1>4. Cardinality(1..len[l]) <= live[l]
  <2> HIDE DEF O
  <2> QED BY <1>2, <1>3, FS_Subset, ZenonT(20)
<1>5. Cardinality(1..len[l]) = len[l]
  BY <1>1, IntervalCardinality
<1> QED BY <1>0, <1>1, <1>4, <1>5 DEF available

\* A removal keeps slots, lookup maps, counters and waiters in agreement.
LEMMA RemovalKeepsOccupancy ==
  ASSUME TypeOK, Occupancy, NEW S \in SUBSET SlotIds, NEW result \in Results \ {"pending"},
         remove_slots(S, result), UNCHANGED <<len, target, nextSeq>>
  PROVE  Occupancy'
<1> USE SlotIdsFact
<1> DEFINE R == Occupied(S)
<1>0. /\ \A s \in SlotIds : s \in R => slot[s].item # None /\ slot'[s].item = None /\ slot'[s].state = "Empty"
      /\ \A s \in SlotIds : s \notin R => slot'[s] = slot[s]
      /\ R \subseteq SlotIds
  BY RemovalFact DEF Occupied
<1> HIDE DEF R
<1>a. \A s \in SlotIds : slot[s].item \in Items \cup {None}
  BY DEF TypeOK
<1>1. SlotShape'
  BY <1>0 DEF Occupancy, SlotShape
<1>2. SeqsIdentifyItems'
  BY <1>0 DEF Occupancy, SeqsIdentifyItems
<1>3. LaneCounts'
  BY RemovalKeepsCounts DEF Occupancy
<1>4. IndexesMatchSlots'
  <2>1. ASSUME NEW id \in TrackedIds, tracked'[id] # None
        PROVE  slot'[tracked'[id]].item = Tracked(id)
    <3>1. tracked'[id] = tracked[id] /\ ~\E s \in R : slot[s].item = Tracked(id)
      BY <2>1 DEF remove_slots, R
    <3>2. slot[tracked[id]].item = Tracked(id) /\ tracked[id] \in SlotIds
      BY <2>1, <3>1 DEF Occupancy, IndexesMatchSlots, TypeOK
    <3> QED BY <1>0, <3>1, <3>2
  <2>2. ASSUME NEW id \in ResponseIds, responses'[id] # None
        PROVE  IsResponse(slot'[responses'[id]].item) /\ slot'[responses'[id]].item.id = id
    <3>1. responses'[id] = responses[id] /\ ~\E s \in R : IsResponse(slot[s].item) /\ slot[s].item.id = id
      BY <2>2 DEF remove_slots, R
    <3>2. /\ IsResponse(slot[responses[id]].item) /\ slot[responses[id]].item.id = id
          /\ responses[id] \in SlotIds
      BY <2>2, <3>1 DEF Occupancy, IndexesMatchSlots, TypeOK
    <3> QED BY <1>0, <3>1, <3>2
  <2>3. ASSUME NEW s \in SlotIds, IsTracked(slot'[s].item)
        PROVE  tracked'[slot'[s].item.id] = s /\ s[1] \in TrackedLanes
    <3>1. s \notin R /\ slot'[s] = slot[s]
      BY <1>0, <2>3, ItemFact
    <3>2. slot[s].item \in Items /\ tracked[slot[s].item.id] = s /\ s[1] \in TrackedLanes
      BY <2>3, <3>1, <1>a, ItemFact DEF Occupancy, IndexesMatchSlots
    <3>3. slot[s].item.id \in TrackedIds /\ slot[s].item = Tracked(slot[s].item.id)
      BY <2>3, <3>1, <3>2, ItemFact
    <3>4. ASSUME NEW r \in R, slot[r].item = Tracked(slot[s].item.id)
          PROVE  FALSE
      <4>1. IsTracked(slot[r].item) /\ slot[r].item.id = slot[s].item.id /\ r \in SlotIds
        BY <1>0, <3>3, <3>4, ItemFact
      <4>2. tracked[slot[r].item.id] = r
        BY <4>1 DEF Occupancy, IndexesMatchSlots
      <4> QED BY <3>1, <3>2, <4>1, <4>2
    <3>5. tracked'[slot[s].item.id] = tracked[slot[s].item.id]
      BY <3>3, <3>4 DEF remove_slots, R
    <3> QED BY <3>1, <3>2, <3>5
  <2>4. ASSUME NEW s \in SlotIds, IsResponse(slot'[s].item)
        PROVE  responses'[slot'[s].item.id] = s /\ s[1] \in ResponseLanes
    <3>1. s \notin R /\ slot'[s] = slot[s]
      BY <1>0, <2>4, ItemFact
    <3>2. slot[s].item \in Items /\ responses[slot[s].item.id] = s /\ s[1] \in ResponseLanes
      BY <2>4, <3>1, <1>a, ItemFact DEF Occupancy, IndexesMatchSlots
    <3>3. slot[s].item.id \in ResponseIds
      BY <2>4, <3>1, <3>2, ItemFact
    <3>4. ASSUME NEW r \in R, IsResponse(slot[r].item), slot[r].item.id = slot[s].item.id
          PROVE  FALSE
      <4>1. r \in SlotIds /\ responses[slot[r].item.id] = r
        BY <1>0, <3>4 DEF Occupancy, IndexesMatchSlots
      <4> QED BY <3>1, <3>2, <3>4, <4>1
    <3>5. responses'[slot[s].item.id] = responses[slot[s].item.id]
      BY <3>3, <3>4 DEF remove_slots, R
    <3> QED BY <3>1, <3>2, <3>5
  <2> QED BY <2>1, <2>2, <2>3, <2>4 DEF IndexesMatchSlots
<1>5. WaiterIffRetained'
  <2> SUFFICES ASSUME NEW q \in DOMAIN outcome
               PROVE  outcome'[q] = "pending" <=> \E s \in SlotIds : IsTracked(slot'[s].item) /\ slot'[s].seq = q
    BY DEF WaiterIffRetained, remove_slots
  <2>1. outcome[q] = "pending" <=> \E s \in SlotIds : IsTracked(slot[s].item) /\ slot[s].seq = q
    BY DEF Occupancy, WaiterIffRetained
  <2>2. CASE \E s \in R : IsTracked(slot[s].item) /\ slot[s].seq = q
    <3>1. outcome'[q] = result
      BY <2>2 DEF remove_slots, R
    <3>2. PICK r \in R : IsTracked(slot[r].item) /\ slot[r].seq = q
      BY <2>2
    <3>3. ASSUME NEW s \in SlotIds, IsTracked(slot'[s].item), slot'[s].seq = q
          PROVE  FALSE
      <4>1. s \notin R /\ slot'[s] = slot[s] /\ slot[s].item # None
        BY <1>0, <3>3, ItemFact
      <4>2. r \in SlotIds /\ slot[r].item # None
        BY <1>0, <3>2
      <4> QED BY <3>2, <3>3, <4>1, <4>2 DEF Occupancy, SeqsIdentifyItems
    <3> QED BY <3>1, <3>3
  <2>3. CASE ~\E s \in R : IsTracked(slot[s].item) /\ slot[s].seq = q
    <3>1. outcome'[q] = outcome[q]
      BY <2>3 DEF remove_slots, R
    <3>2. \A s \in SlotIds : (IsTracked(slot'[s].item) /\ slot'[s].seq = q)
                              <=> (IsTracked(slot[s].item) /\ slot[s].seq = q)
      BY <1>0, <2>3, ItemFact
    <3> QED BY <2>1, <3>1, <3>2
  <2> QED BY <2>2, <2>3
<1> QED BY <1>1, <1>2, <1>3, <1>4, <1>5 DEF Occupancy

\* The slot an allocation takes is vacant: the top of the free list, or a new one.
LEMMA AllocatableFact ==
  ASSUME TypeOK, SlotShape, LaneCounts, NEW l \in Lanes, NEW i \in allocatable(l)
  PROVE  /\ i \in Index /\ i \in Nat /\ i > 0
         /\ slot[<<l, i>>].item = None /\ slot[<<l, i>>].state = "Empty"
         /\ \/ i \in free[l] /\ i <= len[l]
            \/ free[l] = {} /\ i = len[l] + 1
<1> USE SlotIdsFact
<1>1. /\ len[l] \in Nat /\ len[l] <= MaxSlots /\ target[l] \in Nat /\ target[l] <= MaxSlots
      /\ MaxSlots \in Nat
  BY IndexFinite DEF SlotShape, TypeOK
<1>2. \/ i \in free[l]
      \/ free[l] = {} /\ len[l] < target[l] /\ i = len[l] + 1
  BY DEF allocatable
<1>3. free[l] = {j \in 1..len[l] : slot[<<l, j>>].item = None}
  BY ZenonT(20) DEF LaneCounts
<1>4. i \in Nat /\ i > 0 /\ i \in Index
  <2>1. CASE i \in free[l]
    BY <1>1, <1>3, <2>1 DEF Index
  <2>2. CASE free[l] = {} /\ len[l] < target[l] /\ i = len[l] + 1
    BY <1>1, <2>2 DEF Index
  <2> QED BY <1>2, <2>1, <2>2
<1>5. slot[<<l, i>>].item = None
  <2>1. CASE i \in free[l]
    BY <1>3, <2>1
  <2>2. CASE i = len[l] + 1
    <3>1. i > len[l]
      BY <1>1, <2>2
    <3> QED BY <1>4, <3>1 DEF SlotShape
  <2> QED BY <1>2, <2>1, <2>2
<1>6. slot[<<l, i>>].state = "Empty"
  BY <1>4, <1>5 DEF SlotShape
<1>7. \/ i \in free[l] /\ i <= len[l]
      \/ free[l] = {} /\ i = len[l] + 1
  BY <1>1, <1>2, <1>3
<1> QED BY <1>4, <1>5, <1>6, <1>7

\* What an allocation does slot by slot.
LEMMA AllocationFact ==
  ASSUME TypeOK, NEW l \in Lanes, NEW i \in Index, NEW item, NEW d, NEW result,
         allocate(l, i, item, d, result)
  PROVE  /\ slot'[<<l, i>>] = [item |-> item, deadline |-> d, seq |-> nextSeq,
                               state |-> "Ready", callis |-> None]
         /\ \A s \in SlotIds : s # <<l, i>> => slot'[s] = slot[s]
BY SlotIdsFact DEF allocate, TypeOK

\* An allocation adds to live_count what it takes from the free list.
LEMMA AllocationKeepsCounts ==
  ASSUME TypeOK, SlotShape, LaneCounts, NEW l \in Lanes, NEW i \in allocatable(l),
         NEW item \in Items, NEW d, NEW result, allocate(l, i, item, d, result)
  PROVE  LaneCounts'
<1> USE SlotIdsFact
<1> DEFINE O == {j \in Index : slot[<<l, j>>].item # None}
<1>0. /\ i \in Index /\ i \in Nat /\ i > 0 /\ slot[<<l, i>>].item = None
      /\ \/ i \in free[l] /\ i <= len[l]
         \/ free[l] = {} /\ i = len[l] + 1
  BY AllocatableFact
<1>1. \A k \in Lanes, j \in Index :
        slot'[<<k, j>>].item = IF k = l /\ j = i THEN item ELSE slot[<<k, j>>].item
  <2>1. /\ slot'[<<l, i>>] = [item |-> item, deadline |-> d, seq |-> nextSeq,
                              state |-> "Ready", callis |-> None]
        /\ \A s \in SlotIds : s # <<l, i>> => slot'[s] = slot[s]
    BY <1>0, AllocationFact
  <2>2. slot'[<<l, i>>].item = item
    BY <2>1
  <2> TAKE k \in Lanes, j \in Index
  <2>3. CASE k = l /\ j = i
    BY <2>2, <2>3
  <2>4. CASE ~(k = l /\ j = i)
    <3>1. <<k, j>> \in SlotIds /\ <<k, j>> # <<l, i>>
      BY <2>4
    <3> QED BY <2>1, <2>4, <3>1
  <2> QED BY <2>3, <2>4
<1>2. item # None
  BY ItemFact
<1>3. ASSUME NEW k \in Lanes
      PROVE  live'[k] = Cardinality({j \in Index : slot'[<<k, j>>].item # None})
  <2>1. CASE k # l
    <3>1. {j \in Index : slot'[<<k, j>>].item # None} = {j \in Index : slot[<<k, j>>].item # None}
      BY <1>1, <2>1
    <3> QED BY <2>1, <3>1 DEF allocate, LaneCounts, TypeOK
  <2>2. CASE k = l
    <3>1. {j \in Index : slot'[<<l, j>>].item # None} = O \cup {i}
      BY <1>0, <1>1, <1>2
    <3>2. O \in SUBSET Index /\ i \notin O
      BY <1>0
    <3>3. live[l] = Cardinality(O) /\ live[l] \in Nat
      BY DEF LaneCounts, TypeOK
    <3>4. live'[l] = live[l] + 1
      BY DEF allocate, TypeOK
    <3> HIDE DEF O
    <3>5. IsFiniteSet(O)
      BY <3>2, IndexFinite, FS_Subset
    <3>6. Cardinality(O \cup {i}) = Cardinality(O) + 1
      BY <3>2, <3>5, FS_AddElement, ZenonT(20)
    <3> QED BY <2>2, <3>1, <3>3, <3>4, <3>6, ZenonT(20)
  <2> QED BY <2>1, <2>2
<1>4. ASSUME NEW k \in Lanes
      PROVE  free'[k] = {j \in 1..len'[k] : slot'[<<k, j>>].item = None}
  <2>0. len[k] \in Nat /\ len[k] <= MaxSlots /\ 1..len[k] \subseteq Index
    <3>1. len[k] \in Nat /\ len[k] <= MaxSlots
      BY DEF SlotShape, TypeOK
    <3> QED BY <3>1, IndexFinite DEF Index
  <2>a. free[k] = {j \in 1..len[k] : slot[<<k, j>>].item = None}
    BY ZenonT(20) DEF LaneCounts
  <2>1. CASE k # l
    <3>1. free'[k] = free[k] /\ len'[k] = len[k]
      BY <2>1 DEF allocate, TypeOK
    <3> QED BY <1>1, <2>0, <2>a, <2>1, <3>1
  <2>2. CASE k = l /\ i \in free[l] /\ i <= len[l]
    <3>1. free'[k] = free[k] \ {i} /\ len'[k] = len[k]
      BY <1>0, <2>0, <2>2 DEF allocate, TypeOK
    <3> QED BY <1>1, <1>2, <2>0, <2>a, <2>2, <3>1
  <2>3. CASE k = l /\ free[l] = {} /\ i = len[l] + 1
    <3>1. free'[k] = {} /\ len'[k] = i
      BY <1>0, <2>0, <2>3 DEF allocate, TypeOK
    <3>2. \A j \in 1..i : j \in Index /\ slot'[<<k, j>>].item # None
      <4>1. \A j \in 1..len[k] : slot[<<k, j>>].item # None
        BY <2>a, <2>3
      <4>2. \A j \in 1..i : j \in 1..len[k] \/ j = i
        BY <1>0, <2>0, <2>3
      <4> QED BY <1>0, <1>1, <1>2, <2>0, <2>3, <4>1, <4>2
    <3> QED BY <3>1, <3>2
  <2> QED BY <1>0, <2>1, <2>2, <2>3
<1> QED BY <1>3, <1>4 DEF LaneCounts

\* A queue pushed to holds its keys and the new one.
LEMMA AppendKeys ==
  ASSUME NEW T, NEW queue \in Seq(T), NEW key \in T
  PROVE  /\ Append(queue, key) \in Seq(T)
         /\ Range(Append(queue, key)) = Range(queue) \cup {key}
<1>1. /\ Append(queue, key) \in Seq(T) /\ Len(Append(queue, key)) = Len(queue) + 1
      /\ Len(queue) \in Nat
      /\ \A n \in 1..Len(queue) : Append(queue, key)[n] = queue[n]
      /\ Append(queue, key)[Len(queue) + 1] = key
  OBVIOUS
<1>2. DOMAIN Append(queue, key) = 1..(Len(queue) + 1) /\ DOMAIN queue = 1..Len(queue)
  OBVIOUS
<1> DEFINE longer == Append(queue, key)
<1> HIDE DEF longer
<1>3. Range(longer) = Range(queue) \cup {key}
  <2>1. \A n \in 1..(Len(queue) + 1) : n \in 1..Len(queue) \/ n = Len(queue) + 1
    BY <1>1
  <2>2. Range(queue) \cup {key} \subseteq Range(longer)
    BY <1>1, <1>2 DEF Range, longer
  <2>3. Range(longer) \subseteq Range(queue) \cup {key}
    BY <1>1, <1>2, <2>1 DEF Range, longer
  <2> QED BY <2>2, <2>3
<1> QED BY <1>1, <1>3 DEF longer

\* Pushing to the queue of a lane loses no key of any lane.
LEMMA PushBackFact ==
  ASSUME NEW queue \in [Lanes -> Seq(Keys)], NEW l \in Lanes, NEW key \in Keys
  PROVE  /\ [queue EXCEPT ![l] = Append(queue[l], key)] \in [Lanes -> Seq(Keys)]
         /\ \A k \in Lanes : Range(queue[k]) \subseteq Range([queue EXCEPT ![l] = Append(queue[l], key)][k])
         /\ key \in Range([queue EXCEPT ![l] = Append(queue[l], key)][l])
<1> DEFINE pushed == [queue EXCEPT ![l] = Append(queue[l], key)]
<1>1. /\ Append(queue[l], key) \in Seq(Keys)
      /\ Range(Append(queue[l], key)) = Range(queue[l]) \cup {key}
  BY AppendKeys
<1>2. pushed[l] = Append(queue[l], key) /\ \A k \in Lanes : k # l => pushed[k] = queue[k]
  OBVIOUS
<1>3. pushed \in [Lanes -> Seq(Keys)]
  BY <1>1
<1> QED BY <1>1, <1>2, <1>3

-----------------------------------------------------------------------------
(* Queues *)

\* If any key of a queue is current, one of them comes first.
LEMMA FirstCurrentExists ==
  ASSUME NEW l, NEW state, NEW queue \in Seq(Keys), FirstCurrent(l, queue, state) = {}
  PROVE  \A n \in 1..Len(queue) : ~Current(l, queue[n], state)
<1> DEFINE T == {n \in 1..Len(queue) : Current(l, queue[n], state)}
<1> SUFFICES ASSUME T # {} PROVE FALSE
  OBVIOUS
<1>1. Len(queue) \in Nat /\ T \subseteq Nat
  OBVIOUS
<1>2. PICK x \in T : \A y \in T : ~(<<y, x>> \in OpToRel(<, Nat))
  <2> HIDE DEF T
  <2> QED BY <1>1, NatLessThanWellFounded, WFMin, ZenonT(20)
<1>3. \A y \in T : ~(y < x)
  BY <1>1, <1>2, ZenonT(20) DEF OpToRel
<1>4. x \in FirstCurrent(l, queue, state)
  BY <1>1, <1>3 DEF FirstCurrent
<1> QED BY <1>4

\* Popping a queue up to n keeps the keys behind n.
LEMMA DropFirstKeys ==
  ASSUME NEW T, NEW queue \in Seq(T), NEW n \in 1..Len(queue)
  PROVE  /\ DropFirst(queue, n) \in Seq(T)
         /\ \A m \in 1..Len(queue) : m > n => queue[m] \in Range(DropFirst(queue, n))
<1>1. Len(queue) \in Nat
  OBVIOUS
<1>2. /\ DropFirst(queue, n) \in Seq(T)
      /\ Len(DropFirst(queue, n)) = Len(queue) - n
      /\ \A j \in 1..(Len(queue) - n) : DropFirst(queue, n)[j] = queue[n + j]
  BY <1>1 DEF DropFirst
<1>3. ASSUME NEW m \in 1..Len(queue), m > n
      PROVE  queue[m] \in Range(DropFirst(queue, n))
  <2>1. m - n \in 1..(Len(queue) - n) /\ n + (m - n) = m
    BY <1>1, <1>3
  <2>2. DropFirst(queue, n)[m - n] = queue[m] /\ m - n \in DOMAIN DropFirst(queue, n)
    BY <1>1, <1>2, <2>1
  <2> QED BY <2>2 DEF Range
<1> QED BY <1>2, <1>3

\* Every key of a finite set is pushed, behind what was queued.
LEMMA PushAllKeys ==
  ASSUME NEW queue \in [Lanes -> Seq(Keys)], NEW keys, NEW f \in PushAll(queue, keys),
         \A l \in Lanes : IsFiniteSet(keys[l]) /\ keys[l] \subseteq Keys
  PROVE  /\ f \in [Lanes -> Seq(Keys)]
         /\ \A l \in Lanes : Range(queue[l]) \cup keys[l] \subseteq Range(f[l])
<1>1. f = [l \in Lanes |-> f[l]]
  BY DEF PushAll
<1>2. ASSUME NEW l \in Lanes
      PROVE  f[l] \in Seq(Keys) /\ Range(queue[l]) \cup keys[l] \subseteq Range(f[l])
  <2>1. PICK o \in Orders(keys[l]) : f[l] = queue[l] \o o
    BY ZenonT(20) DEF PushAll
  <2> DEFINE K == keys[l]
             n == Cardinality(K)
  <2>2. IsFiniteSet(K) /\ K \subseteq Keys /\ n \in Nat
    BY FS_CardinalityType
  <2>4. o \in Injection(1..n, K)
    BY <2>1 DEF Orders
  <2>3. o \in [1..n -> K]
    BY <2>4 DEF Injection
  <2> HIDE DEF K, n
  <2>5. Cardinality(1..n) = Cardinality(K)
    BY <2>2, IntervalCardinality DEF n
  <2>6. o \in Surjection(1..n, K)
    BY <2>2, <2>4, <2>5, FS_Injection
  <2>7. \A k \in K : \E i \in 1..n : o[i] = k
    BY <2>6 DEF Surjection
  <2>8. o \in Seq(Keys) /\ Len(o) = n
    BY <2>2, <2>3
  <2>9. queue[l] \in Seq(Keys)
    OBVIOUS
  <2>10. /\ queue[l] \o o \in Seq(Keys)
         /\ Len(queue[l] \o o) = Len(queue[l]) + n
         /\ \A i \in 1..(Len(queue[l]) + n) :
              (queue[l] \o o)[i] = IF i <= Len(queue[l]) THEN queue[l][i] ELSE o[i - Len(queue[l])]
    BY <2>8, <2>9
  <2>11. Len(queue[l]) \in Nat /\ DOMAIN queue[l] = 1..Len(queue[l])
         /\ DOMAIN (queue[l] \o o) = 1..(Len(queue[l]) + n)
    BY <2>9, <2>10
  <2>12. ASSUME NEW k \in Range(queue[l]) PROVE k \in Range(queue[l] \o o)
    <3>1. PICK i \in 1..Len(queue[l]) : k = queue[l][i]
      BY <2>11 DEF Range
    <3>2. i \in DOMAIN (queue[l] \o o) /\ (queue[l] \o o)[i] = k
      BY <2>2, <2>10, <2>11, <3>1
    <3> QED BY <3>2 DEF Range
  <2>13. ASSUME NEW k \in K PROVE k \in Range(queue[l] \o o)
    <3>1. PICK i \in 1..n : k = o[i]
      BY <2>7
    <3>2. Len(queue[l]) + i \in DOMAIN (queue[l] \o o) /\ (queue[l] \o o)[Len(queue[l]) + i] = k
      BY <2>2, <2>10, <2>11, <3>1
    <3> QED BY <3>2 DEF Range
  <2> QED BY <2>1, <2>10, <2>12, <2>13 DEF K
<1> QED BY <1>1, <1>2

\* KeysOf(S) has the key of every slot of S in lane l.
LEMMA KeysOfFact ==
  ASSUME TypeOK, NEW S \in SUBSET SlotIds, NEW l \in Lanes
  PROVE  /\ IsFiniteSet(KeysOf(S)[l]) /\ KeysOf(S)[l] \subseteq Keys
         /\ \A i \in Index : <<l, i>> \in S
                             => [index |-> i, seq |-> slot[<<l, i>>].seq] \in KeysOf(S)[l]
<1> USE SlotIdsFact
<1> DEFINE J == {j \in Index : <<l, j>> \in S}
           K == {[index |-> i, seq |-> slot[<<l, i>>].seq] : i \in J}
           f == [i \in J |-> [index |-> i, seq |-> slot[<<l, i>>].seq]]
<1>1. KeysOf(S)[l] = K
  BY DEF KeysOf
<1>2. J \in SUBSET Index
  OBVIOUS
<1>3. f \in Surjection(J, K)
  BY ZenonT(20) DEF Surjection
<1>4. \A i \in J : slot[<<l, i>>].seq \in Nat
  BY DEF TypeOK
<1>5. K \subseteq Keys
  <2>1. \A i \in J : [index |-> i, seq |-> slot[<<l, i>>].seq] \in Keys
    BY <1>2, <1>4 DEF Keys
  <2> QED BY <2>1, ZenonT(20)
<1>6. IsFiniteSet(K)
  <2> HIDE DEF f, J, K
  <2>1. IsFiniteSet(J)
    BY <1>2, IndexFinite, FS_Subset
  <2> QED BY <1>3, <2>1, FS_Surjection
<1> QED BY <1>1, <1>5, <1>6, ZenonT(20)

-----------------------------------------------------------------------------
(* Steps that keep every occupant *)

\* The type facts a relabelling step has to establish.
LEMMA RelabelKeepsIInv ==
  ASSUME IInv, Relabel,
         slot' \in [SlotIds -> [item : Items \cup {None}, deadline : Nat, seq : Nat,
                                state : States, callis : Callis \cup {None}]],
         ready' \in [Lanes -> Seq(Keys)], replay' \in [Lanes -> Seq(Keys)],
         claim' \in [Callis -> Claims \cup {None}],
         UNCHANGED <<deadlines, shutdown, now, reaper>>,
         NoStrandedItem'
  PROVE  IInv'
<1>1. TypeOK'
  BY DEF IInv, TypeOK, Relabel
<1>2. Occupancy'
  BY <1>1, RelabelKeepsOccupancy DEF IInv
<1>3. DeadlineCovered'
  BY ZenonT(20) DEF IInv, DeadlineCovered, Relabel, SameOccupant
<1>4. ShutdownRetainsNoTracked'
  BY DEF IInv, ShutdownRetainsNoTracked, Relabel, SameOccupant
<1> QED BY <1>1, <1>2, <1>3, <1>4 DEF IInv

-----------------------------------------------------------------------------
(* Claims: the queues a claim pops lose only keys that designate no       *)
(* waiting item.                                                           *)

\* claim_next's lane choice: no lane of smaller rank, and none at all when it
\* finds nothing, has an item waiting.
LEMMA NoCurrentNoWaiting ==
  ASSUME IInv, NEW l \in Lanes, NEW i \in Index
  PROVE  /\ ReadyPos(l) = {} => slot[<<l, i>>].state # "Ready"
         /\ ReplayPos(l) = {} => slot[<<l, i>>].state # "ReplayReady"
<1> DEFINE key == [index |-> i, seq |-> slot[<<l, i>>].seq]
<1>0. ready[l] \in Seq(Keys) /\ replay[l] \in Seq(Keys)
  BY DEF IInv, TypeOK
<1>1. key.index = i /\ key.seq = slot[<<l, i>>].seq
  OBVIOUS
<1>2. ASSUME ReadyPos(l) = {}, slot[<<l, i>>].state = "Ready" PROVE FALSE
  <2>1. key \in Range(ready[l])
    BY <1>2 DEF IInv, NoStrandedItem
  <2> HIDE DEF key
  <2>2. PICK n \in 1..Len(ready[l]) : ready[l][n] = key
    BY <1>0, <2>1 DEF Range
  <2>3. Current(l, ready[l][n], "Ready")
    BY <1>1, <1>2, <2>2 DEF Current
  <2> QED BY <1>0, <1>2, <2>3, FirstCurrentExists, ZenonT(30) DEF ReadyPos
<1>3. ASSUME ReplayPos(l) = {}, slot[<<l, i>>].state = "ReplayReady" PROVE FALSE
  <2>1. key \in Range(replay[l]) /\ l \in TrackedLanes
    BY <1>3 DEF IInv, NoStrandedItem
  <2> HIDE DEF key
  <2>2. PICK n \in 1..Len(replay[l]) : replay[l][n] = key
    BY <1>0, <2>1 DEF Range
  <2>3. Current(l, replay[l][n], "ReplayReady")
    BY <1>1, <1>3, <2>2 DEF Current
  <2> QED BY <1>0, <1>3, <2>1, <2>3, FirstCurrentExists, ZenonT(20) DEF ReplayPos
<1> QED BY <1>2, <1>3

\* The lanes before a claimable one are all looked at.
LEMMA EarlierLanes ==
  ASSUME NEW l \in ClaimLane, NEW k \in Lanes, lane_rank(k) < lane_rank(l)
  PROVE  l \in Lanes /\ ReplayPos(k) = {} /\ ReadyPos(k) = {}
<1>1. l \in ClaimLanes /\ ClaimLanes \subseteq Lanes
  BY DEF ClaimLane, ClaimLanes, ResponseLanes, Lanes
<1>2. k \in ClaimLanes
  BY <1>1 DEF ClaimLanes, ResponseLanes, Lanes, lane_rank
<1> QED BY <1>1, <1>2 DEF ClaimLane

\* A pass that finds nothing has seen no current key in any lane it looks at.
LEMMA NoClaimLane ==
  ASSUME ClaimLane = {}, NEW k \in ClaimLanes
  PROVE  ReplayPos(k) = {} /\ ReadyPos(k) = {}
<1> DEFINE E(l) == ReplayPos(l) \cup ReadyPos(l) = {}
<1>1. \A l \in ClaimLanes : E(l) \/ \E j \in ClaimLanes : lane_rank(j) < lane_rank(l) /\ ~E(j)
  BY DEF ClaimLane
<1>2. k \in Lanes /\ ClaimLanes \subseteq Lanes
  BY DEF ClaimLanes, ResponseLanes, Lanes
<1>3. \A j \in Lanes : lane_rank(j) \in 0..3 /\ (lane_rank(j) = 0 <=> j = "A1Ack")
                       /\ (lane_rank(j) = 1 <=> j = "A1Error") /\ (lane_rank(j) = 2 <=> j = "A2")
  BY DEF Lanes, lane_rank
<1> HIDE DEF E
<1>4. "A1Ack" \in ClaimLanes => E("A1Ack")
  BY <1>1, <1>2, <1>3
<1>5. "A1Error" \in ClaimLanes => E("A1Error")
  BY <1>1, <1>2, <1>3, <1>4
<1>6. "A2" \in ClaimLanes => E("A2")
  BY <1>1, <1>2, <1>3, <1>4, <1>5
<1>7. "A3" \in ClaimLanes => E("A3")
  BY <1>1, <1>2, <1>3, <1>4, <1>5, <1>6
<1>8. E(k)
  BY <1>2, <1>4, <1>5, <1>6, <1>7 DEF Lanes
<1> QED BY <1>8 DEF E

\* Taking a key of lane l relabels its slot and records a well-formed claim.
LEMMA TakeFact ==
  ASSUME IInv, NEW c \in Callis, NEW l \in Lanes, NEW key \in Keys, NEW state \in {"Ready", "ReplayReady"},
         Current(l, key, state), Take(c, l, key)
  PROVE  /\ slot' \in [SlotIds -> [item : Items \cup {None}, deadline : Nat, seq : Nat,
                                   state : States, callis : Callis \cup {None}]]
         /\ claim' \in [Callis -> Claims \cup {None}]
         /\ slot'[<<l, key.index>>].state = "Writing"
         /\ \A s \in SlotIds : s # <<l, key.index>> => slot'[s] = slot[s]
         /\ \A s \in SlotIds : SameOccupant(s)
<1> DEFINE s0 == <<l, key.index>>
<1>1. s0 \in SlotIds
  BY SlotIdsFact DEF Keys
<1>2. slot \in [SlotIds -> [item : Items \cup {None}, deadline : Nat, seq : Nat,
                           state : States, callis : Callis \cup {None}]]
  BY DEF IInv, TypeOK
<1>3. slot[s0].state = state
  BY DEF Current
<1>4. slot' = [slot EXCEPT ![s0] = [slot[s0] EXCEPT !.state = "Writing", !.callis = c]]
  BY ZenonT(20) DEF Take
<1>5. claim' = [claim EXCEPT ![c] = [at |-> s0, seq |-> slot[s0].seq, item |-> slot[s0].item,
                                     deadline |-> slot[s0].deadline]]
  BY DEF Take
<1> HIDE DEF s0
<1>6. slot[s0].item \in Items
  BY <1>1, <1>2, <1>3 DEF IInv, Occupancy, SlotShape
<1>7. claim' \in [Callis -> Claims \cup {None}]
  <2>1. [at |-> s0, seq |-> slot[s0].seq, item |-> slot[s0].item, deadline |-> slot[s0].deadline] \in Claims
    BY <1>1, <1>2, <1>6 DEF Claims
  <2>2. claim \in [Callis -> Claims \cup {None}]
    BY DEF IInv, TypeOK
  <2> QED BY <1>5, <2>1, <2>2
<1>8. /\ \A s \in SlotIds : s # s0 => slot'[s] = slot[s]
      /\ slot'[s0] = [slot[s0] EXCEPT !.state = "Writing", !.callis = c]
      /\ slot' = [s \in SlotIds |-> slot'[s]]
  BY <1>1, <1>2, <1>4, ZenonT(20)
<1>9. /\ slot'[s0].state = "Writing" /\ slot'[s0].item = slot[s0].item /\ slot'[s0].seq = slot[s0].seq
      /\ slot'[s0].deadline = slot[s0].deadline
      /\ slot'[s0] \in [item : Items \cup {None}, deadline : Nat, seq : Nat,
                         state : States, callis : Callis \cup {None}]
  BY <1>1, <1>2, <1>8, ZenonT(20) DEF States
<1>10. slot' \in [SlotIds -> [item : Items \cup {None}, deadline : Nat, seq : Nat,
                              state : States, callis : Callis \cup {None}]]
  BY <1>2, <1>8, <1>9, ZenonT(20)
<1>11. ASSUME NEW s \in SlotIds
       PROVE  SameOccupant(s)
  BY <1>3, <1>8, <1>9, ZenonT(20) DEF SameOccupant
<1> QED BY <1>7, <1>8, <1>9, <1>10, <1>11 DEF s0

\* claim_next, with the queues it popped empty on its way.
LEMMA ClaimNextKeepsIInv ==
  ASSUME IInv, NEW c \in Callis, claim_next(c)
  PROVE  IInv'
<1> USE SlotIdsFact
<1>0. ready \in [Lanes -> Seq(Keys)] /\ replay \in [Lanes -> Seq(Keys)] /\ <<>> \in Seq(Keys)
  BY DEF IInv, TypeOK
<1>1. PICK l \in ClaimLane :
        LET earlier == {k \in Lanes : lane_rank(k) < lane_rank(l)} IN
        IF ReplayPos(l) # {}
        THEN \E n \in ReplayPos(l) :
               /\ Take(c, l, replay[l][n])
               /\ replay' = [k \in Lanes |-> IF k \in earlier THEN <<>>
                                             ELSE IF k = l THEN DropFirst(replay[l], n) ELSE replay[k]]
               /\ ready' = [k \in Lanes |-> IF k \in earlier THEN <<>> ELSE ready[k]]
        ELSE \E n \in ReadyPos(l) :
               /\ Take(c, l, ready[l][n])
               /\ replay' = [k \in Lanes |-> IF k \in earlier \cup {l} THEN <<>> ELSE replay[k]]
               /\ ready' = [k \in Lanes |-> IF k \in earlier THEN <<>>
                                            ELSE IF k = l THEN DropFirst(ready[l], n) ELSE ready[k]]
  BY DEF claim_next
<1> DEFINE earlier == {k \in Lanes : lane_rank(k) < lane_rank(l)}
<1>2. l \in Lanes
  BY DEF ClaimLane, ClaimLanes, ResponseLanes, Lanes
<1>3. \A k \in earlier : ReplayPos(k) = {} /\ ReadyPos(k) = {}
  BY EarlierLanes
<1>4. \A k \in earlier, j \in Index : slot[<<k, j>>].state \notin {"Ready", "ReplayReady"}
  BY <1>3, NoCurrentNoWaiting, ZenonT(20)
<1>5. l \notin earlier
  BY <1>2 DEF lane_rank, Lanes
<1>6. UNCHANGED <<len, free, target, live, tracked, responses, deadlines, nextSeq,
                  shutdown, now, reaper, outcome>>
  BY DEF claim_next
<1>7. NoStrandedItem
  BY DEF IInv
<1> HIDE DEF earlier
<1>8. CASE ReplayPos(l) # {}
  <2>1. PICK n \in ReplayPos(l) :
          /\ Take(c, l, replay[l][n])
          /\ replay' = [k \in Lanes |-> IF k \in earlier THEN <<>>
                                        ELSE IF k = l THEN DropFirst(replay[l], n) ELSE replay[k]]
          /\ ready' = [k \in Lanes |-> IF k \in earlier THEN <<>> ELSE ready[k]]
    BY <1>1, <1>8 DEF earlier
  <2>2. /\ n \in 1..Len(replay[l]) /\ Current(l, replay[l][n], "ReplayReady") /\ replay[l][n] \in Keys
        /\ \A m \in 1..(n - 1) : ~Current(l, replay[l][m], "ReplayReady")
    BY <1>0, <1>2 DEF ReplayPos, FirstCurrent
  <2> DEFINE s0 == <<l, replay[l][n].index>>
  <2>3. /\ slot' \in [SlotIds -> [item : Items \cup {None}, deadline : Nat, seq : Nat,
                                   state : States, callis : Callis \cup {None}]]
        /\ claim' \in [Callis -> Claims \cup {None}]
        /\ slot'[s0].state = "Writing"
        /\ \A s \in SlotIds : s # s0 => slot'[s] = slot[s]
        /\ \A s \in SlotIds : SameOccupant(s)
    BY <1>2, <2>1, <2>2, TakeFact
  <2>4. /\ DropFirst(replay[l], n) \in Seq(Keys)
        /\ \A m \in 1..Len(replay[l]) : m > n => replay[l][m] \in Range(DropFirst(replay[l], n))
    BY <1>0, <1>2, <2>2, DropFirstKeys
  <2>5. replay' \in [Lanes -> Seq(Keys)] /\ ready' \in [Lanes -> Seq(Keys)]
    BY <1>0, <2>1, <2>4
  <2>6. Relabel
    BY <1>6, <2>3 DEF Relabel
  <2>7. ASSUME NEW k \in Lanes, NEW j \in Index, slot'[<<k, j>>].state = "Ready"
        PROVE  [index |-> j, seq |-> slot'[<<k, j>>].seq] \in Range(ready'[k])
    <3>1. slot'[<<k, j>>] = slot[<<k, j>>]
      BY <2>3, <2>7
    <3>2. k \notin earlier
      BY <1>4, <2>7, <3>1
    <3> QED BY <1>7, <2>1, <2>7, <3>1, <3>2 DEF NoStrandedItem
  <2>8. ASSUME NEW k \in Lanes, NEW j \in Index, slot'[<<k, j>>].state = "ReplayReady"
        PROVE  k \in TrackedLanes /\ [index |-> j, seq |-> slot'[<<k, j>>].seq] \in Range(replay'[k])
    <3> DEFINE key == [index |-> j, seq |-> slot[<<k, j>>].seq]
    <3>1. slot'[<<k, j>>] = slot[<<k, j>>] /\ <<k, j>> # s0
      BY <2>3, <2>8
    <3>2. k \notin earlier
      BY <1>4, <2>8, <3>1
    <3>3. k \in TrackedLanes /\ key \in Range(replay[k])
      BY <1>7, <2>8, <3>1 DEF NoStrandedItem
    <3>4. CASE k # l
      BY <2>1, <3>1, <3>2, <3>3, <3>4
    <3>5. CASE k = l
      <4>0. key.index = j /\ key.seq = slot[<<k, j>>].seq
        OBVIOUS
      <4> HIDE DEF key
      <4>a. replay[l] \in Seq(Keys) /\ key \in Range(replay[l])
        BY <1>0, <1>2, <3>3, <3>5
      <4>1. PICK m \in 1..Len(replay[l]) : replay[l][m] = key
        BY <4>a DEF Range
      <4>2. Current(l, replay[l][m], "ReplayReady")
        BY <2>8, <3>1, <3>5, <4>0, <4>1, ZenonT(30) DEF Current
      <4>3. m # n
        BY <3>1, <3>5, <4>0, <4>1
      <4>4. m > n
        <5>1. m \notin 1..(n - 1)
          BY <2>2, <4>2
        <5>2. m \in Nat /\ n \in Nat /\ m >= 1
          BY <2>2, <4>1
        <5> QED BY <4>3, <5>1, <5>2
      <4>5. key \in Range(replay'[k])
        BY <1>5, <2>1, <2>4, <3>5, <4>1, <4>4
      <4> QED BY <3>1, <3>3, <4>5 DEF key
    <3> QED BY <3>4, <3>5
  <2>9. NoStrandedItem'
    BY <2>7, <2>8, ZenonT(20) DEF NoStrandedItem
  <2> QED BY <1>6, <2>3, <2>5, <2>6, <2>9, RelabelKeepsIInv, ZenonT(30)
<1>9. CASE ReplayPos(l) = {}
  <2>1. PICK n \in ReadyPos(l) :
          /\ Take(c, l, ready[l][n])
          /\ replay' = [k \in Lanes |-> IF k \in earlier \cup {l} THEN <<>> ELSE replay[k]]
          /\ ready' = [k \in Lanes |-> IF k \in earlier THEN <<>>
                                       ELSE IF k = l THEN DropFirst(ready[l], n) ELSE ready[k]]
    BY <1>1, <1>9 DEF earlier
  <2>2. /\ n \in 1..Len(ready[l]) /\ Current(l, ready[l][n], "Ready") /\ ready[l][n] \in Keys
        /\ \A m \in 1..(n - 1) : ~Current(l, ready[l][m], "Ready")
    BY <1>0, <1>2 DEF ReadyPos, FirstCurrent
  <2> DEFINE s0 == <<l, ready[l][n].index>>
  <2>3. /\ slot' \in [SlotIds -> [item : Items \cup {None}, deadline : Nat, seq : Nat,
                                   state : States, callis : Callis \cup {None}]]
        /\ claim' \in [Callis -> Claims \cup {None}]
        /\ slot'[s0].state = "Writing"
        /\ \A s \in SlotIds : s # s0 => slot'[s] = slot[s]
        /\ \A s \in SlotIds : SameOccupant(s)
    BY <1>2, <2>1, <2>2, TakeFact
  <2>4. /\ DropFirst(ready[l], n) \in Seq(Keys)
        /\ \A m \in 1..Len(ready[l]) : m > n => ready[l][m] \in Range(DropFirst(ready[l], n))
    BY <1>0, <1>2, <2>2, DropFirstKeys
  <2>5. replay' \in [Lanes -> Seq(Keys)] /\ ready' \in [Lanes -> Seq(Keys)]
    BY <1>0, <2>1, <2>4, ZenonT(30)
  <2>6. Relabel
    BY <1>6, <2>3 DEF Relabel
  <2>7. ASSUME NEW k \in Lanes, NEW j \in Index, slot'[<<k, j>>].state = "ReplayReady"
        PROVE  k \in TrackedLanes /\ [index |-> j, seq |-> slot'[<<k, j>>].seq] \in Range(replay'[k])
    <3>1. slot'[<<k, j>>] = slot[<<k, j>>]
      BY <2>3, <2>7
    <3>2. k \notin earlier /\ k # l
      BY <1>2, <1>4, <1>9, <2>7, <3>1, NoCurrentNoWaiting, ZenonT(30)
    <3> QED BY <1>7, <2>1, <2>7, <3>1, <3>2, ZenonT(30) DEF NoStrandedItem
  <2>8. ASSUME NEW k \in Lanes, NEW j \in Index, slot'[<<k, j>>].state = "Ready"
        PROVE  [index |-> j, seq |-> slot'[<<k, j>>].seq] \in Range(ready'[k])
    <3> DEFINE key == [index |-> j, seq |-> slot[<<k, j>>].seq]
    <3>1. slot'[<<k, j>>] = slot[<<k, j>>] /\ <<k, j>> # s0
      BY <2>3, <2>8
    <3>2. k \notin earlier
      BY <1>4, <2>8, <3>1
    <3>3. key \in Range(ready[k])
      BY <1>7, <2>8, <3>1 DEF NoStrandedItem
    <3>4. CASE k # l
      BY <2>1, <3>1, <3>2, <3>3, <3>4
    <3>5. CASE k = l
      <4>0. key.index = j /\ key.seq = slot[<<k, j>>].seq
        OBVIOUS
      <4> HIDE DEF key
      <4>a. ready[l] \in Seq(Keys) /\ key \in Range(ready[l])
        BY <1>0, <1>2, <3>3, <3>5, ZenonT(30)
      <4>1. PICK m \in 1..Len(ready[l]) : ready[l][m] = key
        BY <4>a DEF Range
      <4>2. Current(l, ready[l][m], "Ready")
        BY <2>8, <3>1, <3>5, <4>0, <4>1, ZenonT(30) DEF Current
      <4>3. m # n
        BY <3>1, <3>5, <4>0, <4>1
      <4>4. m > n
        <5>1. m \notin 1..(n - 1)
          BY <2>2, <4>2
        <5>2. m \in Nat /\ n \in Nat /\ m >= 1
          BY <2>2, <4>1
        <5> QED BY <4>3, <5>1, <5>2
      <4>5. key \in Range(ready'[k])
        BY <1>5, <2>1, <2>4, <3>5, <4>1, <4>4
      <4> QED BY <3>1, <4>5 DEF key
    <3> QED BY <3>4, <3>5
  <2>9. NoStrandedItem'
    BY <2>7, <2>8, ZenonT(20) DEF NoStrandedItem
  <2> QED BY <1>6, <2>3, <2>5, <2>6, <2>9, RelabelKeepsIInv, ZenonT(30)
<1> QED BY <1>8, <1>9

\* A claim_next that returns None.
LEMMA ClaimNoneKeepsIInv ==
  ASSUME IInv, NEW c \in Callis, claim_none(c)
  PROVE  IInv'
<1> USE SlotIdsFact
<1>0. ready \in [Lanes -> Seq(Keys)] /\ replay \in [Lanes -> Seq(Keys)] /\ <<>> \in Seq(Keys)
      /\ claim \in [Callis -> Claims \cup {None}]
      /\ slot \in [SlotIds -> [item : Items \cup {None}, deadline : Nat, seq : Nat,
                               state : States, callis : Callis \cup {None}]]
  BY DEF IInv, TypeOK
<1>1. UNCHANGED <<slot, len, free, target, live, tracked, responses, deadlines, nextSeq,
                  shutdown, now, reaper, claim, outcome>> /\ ClaimLane = {}
  BY DEF claim_none
<1>2. /\ ready' = [l \in Lanes |-> IF l \in ClaimLanes THEN <<>> ELSE ready[l]]
      /\ replay' = [l \in Lanes |-> IF l \in ClaimLanes THEN <<>> ELSE replay[l]]
  BY DEF claim_none
<1>3. ready' \in [Lanes -> Seq(Keys)] /\ replay' \in [Lanes -> Seq(Keys)]
  BY <1>0, <1>2
<1>4. Relabel
  BY <1>1 DEF Relabel, SameOccupant
<1>5. NoStrandedItem'
  <2> SUFFICES ASSUME NEW l \in Lanes, NEW i \in Index
               PROVE  LET key == [index |-> i, seq |-> slot[<<l, i>>].seq] IN
                      /\ slot[<<l, i>>].state = "Ready" => key \in Range(ready'[l])
                      /\ slot[<<l, i>>].state = "ReplayReady" => l \in TrackedLanes /\ key \in Range(replay'[l])
    BY <1>1, ZenonT(20) DEF NoStrandedItem
  <2>1. CASE l \in ClaimLanes
    BY <1>1, <2>1, NoClaimLane, NoCurrentNoWaiting
  <2>2. CASE l \notin ClaimLanes
    BY <1>2, <2>2 DEF IInv, NoStrandedItem
  <2> QED BY <2>1, <2>2
<1> QED BY <1>0, <1>1, <1>3, <1>4, <1>5, RelabelKeepsIInv, ZenonT(30)

-----------------------------------------------------------------------------
(* Steps that remove items *)

\* A removal of any set of slots, if the heap still covers what is left.
LEMMA RemovalKeepsIInv ==
  ASSUME IInv, NEW S \in SUBSET SlotIds, NEW result \in Results \ {"pending"},
         remove_slots(S, result), UNCHANGED <<len, ready, replay, target, nextSeq, now>>,
         claim' \in [Callis -> Claims \cup {None}], deadlines' \subseteq DeadlineKeys,
         reaper' \in {"idle", "due"}, shutdown' \in BOOLEAN,
         DeadlineCovered', ShutdownRetainsNoTracked'
  PROVE  IInv'
<1> USE SlotIdsFact
<1>0. TypeOK /\ Occupancy /\ NoStrandedItem /\ SlotShape /\ LaneCounts
  BY DEF IInv, Occupancy
<1>1. Occupancy'
  BY <1>0, RemovalKeepsOccupancy
<1>2. live' \in [Lanes -> Nat] /\ free' \in [Lanes -> SUBSET Index]
  BY <1>0, RemovalKeepsCounts
<1>3. \A s \in SlotIds :
        /\ s \in Occupied(S) => /\ slot'[s].item = None /\ slot'[s].state = "Empty"
                                /\ slot'[s].seq \in Nat /\ slot'[s].callis = None
                                /\ slot'[s].deadline = slot[s].deadline
        /\ s \notin Occupied(S) => slot'[s] = slot[s]
  BY <1>0, RemovalFact
<1>4. slot' \in [SlotIds -> [item : Items \cup {None}, deadline : Nat, seq : Nat,
                             state : States, callis : Callis \cup {None}]]
  <2>1. slot \in [SlotIds -> [item : Items \cup {None}, deadline : Nat, seq : Nat,
                             state : States, callis : Callis \cup {None}]]
    BY <1>0, ZenonT(30) DEF TypeOK
  <2>2. slot' = [s \in SlotIds |->
                   IF s \in Occupied(S)
                   THEN [item |-> None, deadline |-> slot[s].deadline, seq |-> slot[s].seq + 1,
                         state |-> "Empty", callis |-> None]
                   ELSE slot[s]]
    BY DEF remove_slots
  <2>3. "Empty" \in States
    BY ZenonT(30) DEF States
  <2> QED BY <2>1, <2>2, <2>3
<1>5. /\ tracked' \in [TrackedIds -> SlotIds \cup {None}]
      /\ responses' \in [ResponseIds -> SlotIds \cup {None}]
  BY <1>0, ZenonT(30) DEF TypeOK, remove_slots
<1>6. outcome' \in [1..(nextSeq' - 1) -> Results]
  BY <1>0 DEF TypeOK, remove_slots
<1>7. TypeOK'
  <2>1. /\ len' \in [Lanes -> Nat] /\ ready' \in [Lanes -> Seq(Keys)] /\ replay' \in [Lanes -> Seq(Keys)]
        /\ target' \in [Lanes -> Nat] /\ nextSeq' \in Nat \ {0} /\ now' \in Nat
    BY <1>0 DEF TypeOK
  <2> QED BY <1>2, <1>4, <1>5, <1>6, <2>1, ZenonT(30) DEF TypeOK
<1>8. NoStrandedItem'
  <2> SUFFICES ASSUME NEW l \in Lanes, NEW i \in Index
               PROVE  LET key == [index |-> i, seq |-> slot'[<<l, i>>].seq] IN
                      /\ slot'[<<l, i>>].state = "Ready" => key \in Range(ready[l])
                      /\ slot'[<<l, i>>].state = "ReplayReady" => l \in TrackedLanes /\ key \in Range(replay[l])
    BY ZenonT(20) DEF NoStrandedItem
  <2>1. CASE <<l, i>> \in Occupied(S)
    BY <1>3, <2>1, ZenonT(30)
  <2>2. CASE <<l, i>> \notin Occupied(S)
    BY <1>0, <1>3, <2>2, SMTT(30) DEF NoStrandedItem
  <2> QED BY <2>1, <2>2
<1> QED BY <1>1, <1>7, <1>8 DEF IInv

\* A removal that leaves the deadline heap alone, during shutdown or not.
LEMMA RemovalKeepsCover ==
  ASSUME IInv, NEW S \in SUBSET SlotIds, NEW result, remove_slots(S, result)
  PROVE  /\ deadlines' = deadlines => DeadlineCovered'
         /\ shutdown' = shutdown => ShutdownRetainsNoTracked'
<1>1. \A s \in SlotIds :
        /\ s \in Occupied(S) => slot'[s].item = None
        /\ s \notin Occupied(S) => slot'[s] = slot[s]
  BY RemovalFact DEF IInv
<1> QED BY <1>1, ItemFact, ZenonT(30) DEF IInv, DeadlineCovered, ShutdownRetainsNoTracked

\* A removal that leaves queues and heap alone.
LEMMA VacateKeepsIInv ==
  ASSUME IInv, NEW S \in SUBSET SlotIds, NEW result \in Results \ {"pending"},
         vacate(S, result), shutdown' \in BOOLEAN, ShutdownRetainsNoTracked'
  PROVE  IInv'
<1>1. remove_slots(S, result) /\ UNCHANGED <<len, ready, replay, target, deadlines, nextSeq, now, reaper, claim>>
  BY DEF vacate
<1>2. DeadlineCovered'
  BY <1>1, RemovalKeepsCover
<1>3. /\ claim' \in [Callis -> Claims \cup {None}] /\ deadlines' \subseteq DeadlineKeys
      /\ reaper' \in {"idle", "due"}
  BY <1>1 DEF IInv, TypeOK
<1> QED BY <1>1, <1>2, <1>3, RemovalKeepsIInv

\* The lookup maps lead to slots.
LEMMA LookupSlots ==
  ASSUME IInv
  PROVE  TrackedSlots \in SUBSET SlotIds /\ ResponseSlots \in SUBSET SlotIds
BY DEF IInv, TypeOK, TrackedSlots, ResponseSlots

\* ack, fail_one, fail_all, fail_non_a1 and drop_responses.
LEMMA CompletionsKeepIInv ==
  ASSUME IInv,
         \/ \E id \in TrackedIds : ack(id) \/ fail_one(id)
         \/ fail_all \/ fail_non_a1 \/ drop_responses
  PROVE  IInv'
<1>1. ASSUME NEW S \in SUBSET SlotIds, NEW result \in Results \ {"pending"},
             vacate(S, result), UNCHANGED shutdown
      PROVE  IInv'
  <2>1. shutdown' \in BOOLEAN
    BY <1>1 DEF IInv, TypeOK
  <2>2. ShutdownRetainsNoTracked'
    BY <1>1, RemovalKeepsCover DEF vacate
  <2> QED BY <1>1, <2>1, <2>2, VacateKeepsIInv
<1>2. ASSUME NEW id \in TrackedIds, ack(id) \/ fail_one(id)
      PROVE  IInv'
  <2>1. {tracked[id]} \in SUBSET SlotIds
    BY <1>2 DEF IInv, TypeOK, ack, fail_one
  <2> QED BY <1>1, <1>2, <2>1 DEF ack, fail_one, Results
<1>3. ASSUME fail_all PROVE IInv'
  BY <1>1, <1>3, LookupSlots DEF fail_all, Results
<1>4. ASSUME fail_non_a1 PROVE IInv'
  <2>1. {s \in TrackedSlots : s[1] \notin ResponseLanes} \in SUBSET SlotIds
    BY LookupSlots
  <2> QED BY <1>1, <1>4, <2>1 DEF fail_non_a1, Results
<1>5. ASSUME drop_responses PROVE IInv'
  BY <1>1, <1>5, LookupSlots DEF drop_responses, Results
<1> QED BY <1>2, <1>3, <1>4, <1>5

\* begin_shutdown fails every tracked message.
LEMMA BeginShutdownKeepsIInv ==
  ASSUME IInv, begin_shutdown
  PROVE  IInv'
<1> DEFINE S == {s \in TrackedSlots : s[1] \notin ResponseLanes}
<1>1. S \in SUBSET SlotIds /\ vacate(S, "Err") /\ shutdown' = TRUE
  BY LookupSlots DEF begin_shutdown
<1>2. ASSUME NEW s \in SlotIds, IsTracked(slot'[s].item) PROVE FALSE
  <2>1. \A r \in SlotIds : (r \in Occupied(S) => slot'[r].item = None) /\ (r \notin Occupied(S) => slot'[r] = slot[r])
    <3> HIDE DEF S
    <3> QED BY <1>1, RemovalFact, ZenonT(30) DEF vacate, IInv
  <2>2. s \notin Occupied(S) /\ slot'[s] = slot[s]
    BY <1>2, <2>1, ItemFact, ZenonT(30)
  <2>3. /\ tracked[slot[s].item.id] = s /\ s[1] \in TrackedLanes /\ slot[s].item \in Items
        /\ slot[s].item.id \in TrackedIds /\ slot[s].item # None
    <3>1. TypeOK /\ Occupancy /\ IndexesMatchSlots
      BY Zenon DEF IInv, Occupancy
    <3>2. IsTracked(slot[s].item) /\ slot[s].item # None
      BY <1>2, <2>2, ItemFact, Zenon
    <3> QED BY ONLY <1>2, <3>1, <3>2, ItemFact DEF IndexesMatchSlots, TypeOK
  <2>4. s \in TrackedSlots
    BY <2>3, ConstantsAssumption DEF TrackedSlots
  <2>5. s \in S
    BY <2>3, <2>4 DEF TrackedLanes, ResponseLanes
  <2> QED BY <2>2, <2>3, <2>5, SMTT(30) DEF Occupied
<1>3. ShutdownRetainsNoTracked'
  BY <1>2 DEF ShutdownRetainsNoTracked
<1> HIDE DEF S
<1> QED BY <1>1, <1>3, VacateKeepsIInv DEF Results

\* A due key that is live names an occupied slot, and an occupied slot that is
\* not removed keeps its key because that key is not due.
LEMMA ExpireDueKeepsIInv ==
  ASSUME IInv, expire_due
  PROVE  IInv'
<1> DEFINE due == {k \in deadlines : k.deadline <= now}
           S == {k.at : k \in {j \in due : Live(j)}}
<1>0. TypeOK /\ SlotShape /\ DeadlineCovered
  BY DEF IInv, Occupancy
<1>1. /\ remove_slots(S, "Err") /\ deadlines' = deadlines \ due /\ reaper' = "idle"
      /\ UNCHANGED <<len, ready, replay, target, nextSeq, shutdown, now, claim>>
  BY DEF expire_due
<1>2. \A k \in deadlines : k.at \in SlotIds
  BY <1>0 DEF TypeOK, DeadlineKeys
<1>3. S \in SUBSET SlotIds
  BY <1>2
<1>4. ASSUME NEW s \in SlotIds, slot'[s].item # None
      PROVE  [deadline |-> slot'[s].deadline, at |-> s, seq |-> slot'[s].seq] \in deadlines'
  <2> DEFINE key == [deadline |-> slot[s].deadline, at |-> s, seq |-> slot[s].seq]
  <2>1. /\ s \in S => slot'[s].item = None
        /\ s \in Occupied(S) => slot'[s].item = None
        /\ s \notin Occupied(S) => slot'[s] = slot[s]
    <3> HIDE DEF S
    <3> QED BY <1>0, <1>1, <1>3, RemovalFact
  <2>2. s \notin S /\ slot'[s] = slot[s]
    BY <1>4, <2>1
  <2>3. key \in deadlines
    BY <1>0, <1>4, <2>2, ZenonT(30) DEF DeadlineCovered
  <2>4. Live(key)
    BY <1>0, <1>4, <2>2 DEF Live, SlotShape
  <2>5. key.at = s /\ key.deadline = slot[s].deadline
    OBVIOUS
  <2>6. key \notin due
    <3> HIDE DEF key
    <3> QED BY <2>2, <2>3, <2>4, <2>5
  <2> QED BY <1>1, <2>2, <2>3, <2>6, ZenonT(30)
<1> HIDE DEF S, due
<1>5. DeadlineCovered'
  BY <1>4 DEF DeadlineCovered
<1>6. ShutdownRetainsNoTracked'
  BY <1>1, <1>3, RemovalKeepsCover
<1>7. /\ claim' \in [Callis -> Claims \cup {None}] /\ deadlines' \subseteq DeadlineKeys
      /\ reaper' \in {"idle", "due"} /\ shutdown' \in BOOLEAN
  BY <1>0, <1>1 DEF TypeOK
<1> QED BY <1>1, <1>3, <1>5, <1>6, <1>7, RemovalKeepsIInv DEF Results

\* next_deadline only pops keys above the first live one.
LEMMA NextDeadlineKeepsIInv ==
  ASSUME IInv, next_deadline
  PROVE  IInv'
<1>1. /\ deadlines' = {k \in deadlines : \E j \in deadlines : Live(j) /\ (j = k \/ Before(j, k))}
      /\ reaper' \in {"idle", "due"}
      /\ UNCHANGED <<storeVars, shutdown, now, claim>>
  BY DEF next_deadline
<1>2. TypeOK'
  BY <1>1, SMTT(30) DEF IInv, TypeOK, storeVars
<1>3. Relabel
  BY <1>1, ZenonT(30) DEF Relabel, SameOccupant, storeVars
<1>4. Occupancy'
  BY <1>2, <1>3, RelabelKeepsOccupancy, SMTT(20) DEF IInv
<1>5. NoStrandedItem' /\ ShutdownRetainsNoTracked'
  BY <1>1, ZenonT(30) DEF IInv, NoStrandedItem, ShutdownRetainsNoTracked, storeVars
<1>6. ASSUME NEW s \in SlotIds, slot[s].item # None
      PROVE  [deadline |-> slot[s].deadline, at |-> s, seq |-> slot[s].seq] \in deadlines'
  <2> DEFINE key == [deadline |-> slot[s].deadline, at |-> s, seq |-> slot[s].seq]
  <2>1. key \in deadlines
    BY <1>6, ZenonT(30) DEF IInv, DeadlineCovered
  <2>2. Live(key)
    BY <1>6 DEF Live, IInv, Occupancy, SlotShape
  <2> HIDE DEF key
  <2>3. key \in deadlines'
    BY <1>1, <2>1, <2>2
  <2> QED BY <2>3 DEF key
<1>7. DeadlineCovered'
  BY <1>1, <1>6, ZenonT(30) DEF DeadlineCovered, storeVars
<1> QED BY <1>2, <1>4, <1>5, <1>7 DEF IInv

\* The clock.
LEMMA TickKeepsIInv ==
  ASSUME IInv, Tick
  PROVE  IInv'
<1>1. TypeOK'
  BY SMTT(30) DEF Tick, IInv, TypeOK, storeVars
<1>2. Relabel /\ UNCHANGED <<slot, ready, replay, deadlines, shutdown>>
  BY ZenonT(30) DEF Tick, Relabel, SameOccupant, storeVars
<1>3. Occupancy'
  BY <1>1, <1>2, RelabelKeepsOccupancy DEF IInv
<1> QED BY <1>1, <1>2, <1>3, ZenonT(30) DEF IInv, NoStrandedItem, DeadlineCovered, ShutdownRetainsNoTracked

-----------------------------------------------------------------------------
(* Write results and replay marking *)

SlotRecords == [item : Items \cup {None}, deadline : Nat, seq : Nat,
                state : States, callis : Callis \cup {None}]

\* How one slot is relabelled: Ready again, or in another live state.
Again(r) == [r EXCEPT !.state = "Ready", !.callis = None]
Marked(r, st) == [r EXCEPT !.state = st]

\* Marked and Again change the state of a slot record and not its occupant.
LEMMA RecordUpdates ==
  ASSUME NEW r \in SlotRecords, NEW st \in States
  PROVE  /\ Marked(r, st) \in SlotRecords
         /\ Marked(r, st).item = r.item /\ Marked(r, st).seq = r.seq
         /\ Marked(r, st).deadline = r.deadline /\ Marked(r, st).state = st
         /\ Again(r) \in SlotRecords
         /\ Again(r).item = r.item /\ Again(r).seq = r.seq
         /\ Again(r).deadline = r.deadline /\ Again(r).state = "Ready"
BY ZenonT(20) DEF SlotRecords, Marked, Again, States

\* A slot that is marked or made ready again keeps its occupant.
LEMMA RelabelledSlot ==
  ASSUME slot \in [SlotIds -> SlotRecords], NEW s \in SlotIds, slot[s].state # "Empty",
         \/ slot'[s] = Again(slot[s])
         \/ \E st \in States \ {"Empty"} : slot'[s] = Marked(slot[s], st)
  PROVE  slot'[s] \in SlotRecords /\ SameOccupant(s)
<1>1. slot[s] \in SlotRecords /\ "Ready" \in States
  BY DEF States
<1>2. CASE slot'[s] = Again(slot[s])
  BY <1>1, <1>2, RecordUpdates, ZenonT(30) DEF SameOccupant
<1>3. ASSUME NEW st \in States \ {"Empty"}, slot'[s] = Marked(slot[s], st)
      PROVE  slot'[s] \in SlotRecords /\ SameOccupant(s)
  <2>1. /\ Marked(slot[s], st) \in SlotRecords
        /\ Marked(slot[s], st).item = slot[s].item /\ Marked(slot[s], st).seq = slot[s].seq
        /\ Marked(slot[s], st).deadline = slot[s].deadline /\ Marked(slot[s], st).state = st
    BY <1>1, RecordUpdates, ZenonT(30)
  <2> QED BY <1>3, <2>1 DEF SameOccupant
<1> QED BY <1>2, <1>3

\* Items that wait again have their key queued.
LEMMA RequeueKeepsIInv ==
  ASSUME IInv, slot' \in [SlotIds -> SlotRecords], \A s \in SlotIds : SameOccupant(s),
         ready' \in [Lanes -> Seq(Keys)], replay' \in [Lanes -> Seq(Keys)],
         \A l \in Lanes : Range(ready[l]) \subseteq Range(ready'[l])
                          /\ Range(replay[l]) \subseteq Range(replay'[l]),
         \A l \in Lanes, i \in Index :
           LET key == [index |-> i, seq |-> slot[<<l, i>>].seq] IN
           \/ slot'[<<l, i>>] = slot[<<l, i>>]
           \/ slot'[<<l, i>>].state = "Ready" /\ key \in Range(ready'[l])
           \/ slot'[<<l, i>>].state = "ReplayReady" /\ l \in TrackedLanes /\ key \in Range(replay'[l])
           \/ slot'[<<l, i>>].state \notin {"Ready", "ReplayReady"},
         claim' \in [Callis -> Claims \cup {None}],
         UNCHANGED <<len, free, target, live, tracked, responses, deadlines, nextSeq,
                     shutdown, now, reaper, outcome>>
  PROVE  IInv'
<1> USE SlotIdsFact
<1>1. slot' \in [SlotIds -> [item : Items \cup {None}, deadline : Nat, seq : Nat,
                             state : States, callis : Callis \cup {None}]]
  BY DEF SlotRecords
<1>2. Relabel
  BY ZenonT(30) DEF Relabel
<1>3. NoStrandedItem'
  <2> SUFFICES ASSUME NEW l \in Lanes, NEW i \in Index
               PROVE  LET key == [index |-> i, seq |-> slot'[<<l, i>>].seq] IN
                      /\ slot'[<<l, i>>].state = "Ready" => key \in Range(ready'[l])
                      /\ slot'[<<l, i>>].state = "ReplayReady" => l \in TrackedLanes /\ key \in Range(replay'[l])
    BY ZenonT(20) DEF NoStrandedItem
  <2>1. slot'[<<l, i>>].seq = slot[<<l, i>>].seq
    BY ZenonT(30) DEF SameOccupant
  <2>2. CASE slot'[<<l, i>>] = slot[<<l, i>>]
    BY <2>1, <2>2, ZenonT(30) DEF IInv, NoStrandedItem
  <2>3. CASE slot'[<<l, i>>] # slot[<<l, i>>]
    BY <2>1, <2>3, ZenonT(30)
  <2> QED BY <2>2, <2>3
<1> QED BY <1>1, <1>2, <1>3, RelabelKeepsIInv, ZenonT(30)

\* Messages are in the tracked lanes and responses in the response lanes.
LEMMA TrackedLaneFact ==
  ASSUME IInv, NEW s \in SlotIds
  PROVE  /\ IsTracked(slot[s].item) => s[1] \in TrackedLanes /\ slot[s].state # "Empty"
         /\ IsResponse(slot[s].item) => s[1] \in ResponseLanes /\ slot[s].state # "Empty"
BY ItemFact, ZenonT(30) DEF IInv, Occupancy, IndexesMatchSlots, SlotShape

\* The slot a write result applies to, and how it is relabelled.
LEMMA WriteResult ==
  ASSUME IInv, NEW c \in Callis, Owns(c), NEW st \in States \ {"Empty"},
         \/ slot' = [slot EXCEPT ![claim[c].at].state = "Ready", ![claim[c].at].callis = None]
         \/ slot' = [slot EXCEPT ![claim[c].at].state = st]
  PROVE  /\ slot' \in [SlotIds -> SlotRecords] /\ \A s \in SlotIds : SameOccupant(s)
         /\ \A s \in SlotIds : s # claim[c].at => slot'[s] = slot[s]
         /\ slot'[claim[c].at].state \in {"Ready", st}
         /\ slot' = [slot EXCEPT ![claim[c].at].state = st] => slot'[claim[c].at].state = st
<1> DEFINE at == claim[c].at
<1>1. slot \in [SlotIds -> SlotRecords] /\ claim[c] \in Claims
  BY DEF IInv, TypeOK, SlotRecords, Owns
<1>2. at \in SlotIds /\ slot[at].state # "Empty" /\ slot[at] \in SlotRecords
  BY <1>1 DEF Claims, Owns
<1> HIDE DEF at
<1>3. CASE slot' = [slot EXCEPT ![at].state = "Ready", ![at].callis = None]
  <2>1. slot'[at] = Again(slot[at]) /\ \A s \in SlotIds : s # at => slot'[s] = slot[s]
    BY <1>1, <1>2, <1>3 DEF Again
  <2>2. slot'[at] \in SlotRecords /\ SameOccupant(at) /\ slot'[at].state = "Ready"
    BY <1>1, <1>2, <2>1, RelabelledSlot, RecordUpdates
  <2>3. slot' = [s \in SlotIds |-> slot'[s]]
    BY <1>1, <1>3, ZenonT(20)
  <2>4. slot' \in [SlotIds -> SlotRecords] /\ \A s \in SlotIds : SameOccupant(s)
    BY <1>1, <2>1, <2>2, <2>3, ZenonT(30) DEF SameOccupant
  <2>5. slot' = [slot EXCEPT ![at].state = st] => slot'[at].state = st
    BY <1>1, <1>2
  <2> QED BY <2>1, <2>2, <2>4, <2>5 DEF at
<1>4. CASE slot' = [slot EXCEPT ![at].state = st]
  <2>1. slot'[at] = Marked(slot[at], st) /\ \A s \in SlotIds : s # at => slot'[s] = slot[s]
    BY <1>1, <1>2, <1>4 DEF Marked
  <2>2. slot'[at] \in SlotRecords /\ SameOccupant(at) /\ slot'[at].state = st
    <3>1. Marked(slot[at], st).state = st
      BY <1>2, RecordUpdates
    <3>2. slot'[at] \in SlotRecords /\ SameOccupant(at)
      BY <1>1, <1>2, <2>1, RelabelledSlot
    <3> QED BY <2>1, <3>1, <3>2
  <2>3. slot' = [s \in SlotIds |-> slot'[s]]
    BY <1>1, <1>4, ZenonT(20)
  <2>4. slot' \in [SlotIds -> SlotRecords] /\ \A s \in SlotIds : SameOccupant(s)
    BY <1>1, <2>1, <2>2, <2>3 DEF SameOccupant
  <2> QED BY <2>1, <2>2, <2>4 DEF at
<1> QED BY <1>3, <1>4 DEF at

\* A failed write puts its item back, unless its slot has moved on.
LEMMA CompleteWriteErrKeepsIInv ==
  ASSUME IInv, NEW c \in Callis, complete_write_err(c)
  PROVE  IInv'
<1> USE SlotIdsFact
<1> DEFINE at == claim[c].at
           key == [index |-> at[2], seq |-> claim[c].seq]
<1>0. /\ claim[c] \in Claims /\ claim' \in [Callis -> Claims \cup {None}]
      /\ ready \in [Lanes -> Seq(Keys)] /\ replay \in [Lanes -> Seq(Keys)]
      /\ slot \in [SlotIds -> SlotRecords]
      /\ UNCHANGED <<len, free, target, live, tracked, responses, deadlines, nextSeq,
                     shutdown, now, reaper, outcome>>
  BY DEF IInv, TypeOK, complete_write_err, SlotRecords
<1>1. at \in SlotIds /\ at[1] \in Lanes /\ at[2] \in Index /\ at = <<at[1], at[2]>> /\ key \in Keys
  BY <1>0 DEF Claims, Keys
<1>2. \/ /\ Owns(c) /\ IsResponse(claim[c].item)
         /\ slot' = [slot EXCEPT ![at].state = "Ready", ![at].callis = None]
         /\ ready' = [ready EXCEPT ![at[1]] = Append(@, key)] /\ replay' = replay
      \/ /\ Owns(c) /\ IsTracked(claim[c].item)
         /\ slot' = [slot EXCEPT ![at].state = "ReplayReady"]
         /\ replay' = [replay EXCEPT ![at[1]] = Append(@, key)] /\ ready' = ready
      \/ ~Owns(c) /\ UNCHANGED <<slot, ready, replay>>
  BY ZenonT(20) DEF complete_write_err, push_back
<1>5. ASSUME NEW l \in Lanes, NEW i \in Index, <<l, i>> = at, Owns(c)
      PROVE  [index |-> i, seq |-> slot[<<l, i>>].seq] = key /\ l = at[1]
  BY <1>1, <1>5, ZenonT(30) DEF Owns
<1>6. CASE /\ Owns(c) /\ IsResponse(claim[c].item)
           /\ slot' = [slot EXCEPT ![at].state = "Ready", ![at].callis = None]
           /\ ready' = [ready EXCEPT ![at[1]] = Append(@, key)] /\ replay' = replay
  <2>0. "Ready" \in States \ {"Empty"}
    BY DEF States
  <2>1. /\ slot' \in [SlotIds -> SlotRecords] /\ \A s \in SlotIds : SameOccupant(s)
        /\ \A s \in SlotIds : s # at => slot'[s] = slot[s]
        /\ slot'[at].state \in {"Ready", "Ready"}
    BY <1>6, <2>0, WriteResult, ZenonT(20)
  <2> HIDE DEF key, at
  <2>2. /\ ready' \in [Lanes -> Seq(Keys)]
        /\ \A k \in Lanes : Range(ready[k]) \subseteq Range(ready'[k])
        /\ key \in Range(ready'[at[1]])
    <3>1. ready' = [ready EXCEPT ![at[1]] = Append(ready[at[1]], key)] /\ ready \in [Lanes -> Seq(Keys)]
      BY <1>0, <1>6
    <3>2. at[1] \in Lanes /\ key \in Keys
      BY <1>1
    <3>3. /\ [ready EXCEPT ![at[1]] = Append(ready[at[1]], key)] \in [Lanes -> Seq(Keys)]
          /\ \A k \in Lanes : Range(ready[k]) \subseteq Range([ready EXCEPT ![at[1]] = Append(ready[at[1]], key)][k])
          /\ key \in Range([ready EXCEPT ![at[1]] = Append(ready[at[1]], key)][at[1]])
      BY <3>1, <3>2, PushBackFact, ZenonT(20)
    <3> QED BY <3>1, <3>3, Zenon
  <2>3. /\ \A l \in Lanes : Range(ready[l]) \subseteq Range(ready'[l]) /\ Range(replay[l]) \subseteq Range(replay'[l])
        /\ replay' \in [Lanes -> Seq(Keys)]
    BY <1>0, <1>6, <2>2
  <2>4. ASSUME NEW l \in Lanes, NEW i \in Index
        PROVE  \/ slot'[<<l, i>>] = slot[<<l, i>>]
               \/ slot'[<<l, i>>].state = "Ready" /\ [index |-> i, seq |-> slot[<<l, i>>].seq] \in Range(ready'[l])
    BY <1>5, <1>6, <2>1, <2>2, ZenonT(30)
  <2> QED BY <1>0, <2>1, <2>2, <2>3, <2>4, RequeueKeepsIInv, ZenonT(30)
<1>7. CASE /\ Owns(c) /\ IsTracked(claim[c].item) /\ slot' = [slot EXCEPT ![at].state = "ReplayReady"]
           /\ replay' = [replay EXCEPT ![at[1]] = Append(@, key)] /\ ready' = ready
  <2>0. "ReplayReady" \in States \ {"Empty"}
    BY DEF States
  <2>1. /\ slot' \in [SlotIds -> SlotRecords] /\ \A s \in SlotIds : SameOccupant(s)
        /\ \A s \in SlotIds : s # at => slot'[s] = slot[s]
        /\ slot'[at].state = "ReplayReady"
    BY <1>7, <2>0, WriteResult, ZenonT(20)
  <2>a. at[1] \in TrackedLanes
    BY <1>1, <1>7, TrackedLaneFact, ZenonT(30) DEF Owns
  <2> HIDE DEF key, at
  <2>2. /\ replay' \in [Lanes -> Seq(Keys)]
        /\ \A k \in Lanes : Range(replay[k]) \subseteq Range(replay'[k])
        /\ key \in Range(replay'[at[1]])
    <3>1. replay' = [replay EXCEPT ![at[1]] = Append(replay[at[1]], key)] /\ replay \in [Lanes -> Seq(Keys)]
      BY <1>0, <1>7, ZenonT(30)
    <3>2. at[1] \in Lanes /\ key \in Keys
      BY <1>1
    <3>3. /\ [replay EXCEPT ![at[1]] = Append(replay[at[1]], key)] \in [Lanes -> Seq(Keys)]
          /\ \A k \in Lanes : Range(replay[k]) \subseteq Range([replay EXCEPT ![at[1]] = Append(replay[at[1]], key)][k])
          /\ key \in Range([replay EXCEPT ![at[1]] = Append(replay[at[1]], key)][at[1]])
      BY <3>1, <3>2, PushBackFact, ZenonT(20)
    <3> QED BY <3>1, <3>3, Zenon
  <2>3. /\ \A l \in Lanes : Range(ready[l]) \subseteq Range(ready'[l]) /\ Range(replay[l]) \subseteq Range(replay'[l])
        /\ ready' \in [Lanes -> Seq(Keys)]
    BY <1>0, <1>7, <2>2, ZenonT(30)
  <2>4. ASSUME NEW l \in Lanes, NEW i \in Index
        PROVE  \/ slot'[<<l, i>>] = slot[<<l, i>>]
               \/ /\ slot'[<<l, i>>].state = "ReplayReady" /\ l \in TrackedLanes
                  /\ [index |-> i, seq |-> slot[<<l, i>>].seq] \in Range(replay'[l])
    BY <1>5, <1>7, <2>1, <2>2, <2>a, ZenonT(30)
  <2> QED BY <1>0, <2>1, <2>2, <2>3, <2>4, RequeueKeepsIInv
<1>8. CASE UNCHANGED <<slot, ready, replay>>
  <2>1. \A s \in SlotIds : SameOccupant(s)
    BY <1>8 DEF SameOccupant
  <2> HIDE DEF key, at
  <2> QED BY <1>0, <1>8, <2>1, RequeueKeepsIInv
<1> QED BY <1>2, <1>6, <1>7, <1>8, ZenonT(20)

\* A write that succeeded, of a message, of a response or of an item that is gone.
LEMMA CompleteWriteOkKeepsIInv ==
  ASSUME IInv, NEW c \in Callis, complete_write_ok(c)
  PROVE  IInv'
<1> USE SlotIdsFact
<1> DEFINE at == claim[c].at
<1>0. /\ claim[c] \in Claims /\ claim' \in [Callis -> Claims \cup {None}]
      /\ ready \in [Lanes -> Seq(Keys)] /\ replay \in [Lanes -> Seq(Keys)]
      /\ slot \in [SlotIds -> SlotRecords] /\ deadlines \subseteq DeadlineKeys
      /\ reaper \in {"idle", "due"} /\ shutdown \in BOOLEAN
  BY DEF IInv, TypeOK, complete_write_ok, SlotRecords
<1>1. at \in SlotIds
  BY <1>0 DEF Claims
<1>2. CASE /\ remove_slots({at}, "none")
           /\ UNCHANGED <<len, ready, replay, target, deadlines, nextSeq, shutdown, now, reaper>>
  <2>1. {at} \in SUBSET SlotIds /\ "none" \in Results \ {"pending"}
    BY <1>1 DEF Results
  <2>2. DeadlineCovered' /\ ShutdownRetainsNoTracked'
    BY <1>2, <2>1, RemovalKeepsCover
  <2>3. deadlines' \subseteq DeadlineKeys /\ reaper' \in {"idle", "due"} /\ shutdown' \in BOOLEAN
    BY <1>0, <1>2
  <2> HIDE DEF at
  <2> QED BY <1>0, <1>2, <2>1, <2>2, <2>3, RemovalKeepsIInv, ZenonT(20)
<1>3. CASE /\ Owns(c) /\ slot' = [slot EXCEPT ![at].state = "Inflight"]
           /\ UNCHANGED <<len, free, ready, replay, target, live, tracked, responses, deadlines,
                          nextSeq, shutdown, now, reaper, outcome>>
  <2>0. "Inflight" \in States \ {"Empty"}
    BY DEF States
  <2>1. /\ slot' \in [SlotIds -> SlotRecords] /\ \A s \in SlotIds : SameOccupant(s)
        /\ \A s \in SlotIds : s # at => slot'[s] = slot[s]
        /\ slot'[at].state = "Inflight"
    BY <1>3, <2>0, WriteResult, ZenonT(20)
  <2> HIDE DEF at
  <2>2. ASSUME NEW l \in Lanes, NEW i \in Index
        PROVE  \/ slot'[<<l, i>>] = slot[<<l, i>>]
               \/ slot'[<<l, i>>].state \notin {"Ready", "ReplayReady"}
    BY <2>1, ZenonT(30)
  <2> QED BY <1>0, <1>3, <2>1, <2>2, RequeueKeepsIInv
<1>4. CASE UNCHANGED <<storeVars, deadlines, shutdown, now, reaper>>
  <2>1. \A s \in SlotIds : SameOccupant(s)
    BY <1>4 DEF SameOccupant, storeVars
  <2>2. UNCHANGED <<slot, len, free, ready, replay, target, live, tracked, responses, deadlines,
                    nextSeq, shutdown, now, reaper, outcome>>
    BY <1>4, ZenonT(30) DEF storeVars
  <2> HIDE DEF at
  <2> QED BY <1>0, <2>1, <2>2, RequeueKeepsIInv
<1> QED BY <1>2, <1>3, <1>4 DEF complete_write_ok

\* Both replay markings: slots of A become Ready again, those of B ReplayReady.
LEMMA MarkKeepsIInv ==
  ASSUME IInv, NEW A \in SUBSET SlotIds, NEW B \in SUBSET SlotIds,
         \A s \in A \cup B : slot[s].state # "Empty", \A s \in B : s[1] \in TrackedLanes,
         \A s \in SlotIds : slot'[s] = IF s \in A THEN Again(slot[s])
                                       ELSE IF s \in B THEN Marked(slot[s], "ReplayReady") ELSE slot[s],
         slot' = [s \in SlotIds |-> slot'[s]],
         ready' \in PushAll(ready, KeysOf(A)) \/ (A = {} /\ ready' = ready),
         replay' \in PushAll(replay, KeysOf(B)),
         UNCHANGED <<len, free, target, live, tracked, responses, deadlines, nextSeq,
                     shutdown, now, reaper, claim, outcome>>
  PROVE  IInv'
<1> USE SlotIdsFact
<1>0. /\ TypeOK /\ ready \in [Lanes -> Seq(Keys)] /\ replay \in [Lanes -> Seq(Keys)]
      /\ slot \in [SlotIds -> SlotRecords] /\ claim' \in [Callis -> Claims \cup {None}]
  BY DEF IInv, TypeOK, SlotRecords
<1>1. "ReplayReady" \in States /\ "Ready" \in States
  BY DEF States
<1>2. ASSUME NEW s \in SlotIds
      PROVE  slot'[s] \in SlotRecords /\ SameOccupant(s)
  <2>1. CASE s \in A
    BY <1>0, <2>1, RelabelledSlot, ZenonT(30)
  <2>2. CASE s \notin A /\ s \in B
    BY <1>0, <1>1, <2>2, RelabelledSlot, ZenonT(30)
  <2>3. CASE s \notin A \cup B
    BY <1>0, <2>3 DEF SameOccupant
  <2> QED BY <2>1, <2>2, <2>3, ZenonT(30)
<1>3. slot' \in [SlotIds -> SlotRecords]
  BY <1>2
<1>4. \A l \in Lanes : /\ IsFiniteSet(KeysOf(A)[l]) /\ KeysOf(A)[l] \subseteq Keys
                       /\ IsFiniteSet(KeysOf(B)[l]) /\ KeysOf(B)[l] \subseteq Keys
  BY <1>0, KeysOfFact, ZenonT(20)
<1>5. /\ replay' \in [Lanes -> Seq(Keys)]
      /\ \A l \in Lanes : Range(replay[l]) \cup KeysOf(B)[l] \subseteq Range(replay'[l])
  BY <1>0, <1>4, PushAllKeys, ZenonT(20)
<1>6. /\ ready' \in [Lanes -> Seq(Keys)]
      /\ \A l \in Lanes : Range(ready[l]) \subseteq Range(ready'[l])
      /\ A # {} => \A l \in Lanes : KeysOf(A)[l] \subseteq Range(ready'[l])
  <2>1. CASE ready' \in PushAll(ready, KeysOf(A))
    <3>1. /\ ready' \in [Lanes -> Seq(Keys)]
          /\ \A l \in Lanes : Range(ready[l]) \cup KeysOf(A)[l] \subseteq Range(ready'[l])
      BY <1>0, <1>4, <2>1, PushAllKeys, ZenonT(20)
    <3> QED BY <3>1
  <2>2. CASE A = {} /\ ready' = ready
    BY <1>0, <2>2, ZenonT(30)
  <2> QED BY <2>1, <2>2, ZenonT(20)
<1>7. ASSUME NEW l \in Lanes, NEW i \in Index
      PROVE  LET key == [index |-> i, seq |-> slot[<<l, i>>].seq] IN
             \/ slot'[<<l, i>>] = slot[<<l, i>>]
             \/ slot'[<<l, i>>].state = "Ready" /\ key \in Range(ready'[l])
             \/ slot'[<<l, i>>].state = "ReplayReady" /\ l \in TrackedLanes /\ key \in Range(replay'[l])
             \/ slot'[<<l, i>>].state \notin {"Ready", "ReplayReady"}
  <2> DEFINE key == [index |-> i, seq |-> slot[<<l, i>>].seq]
  <2>0. /\ slot[<<l, i>>] \in SlotRecords
        /\ <<l, i>> \in A => key \in KeysOf(A)[l]
        /\ <<l, i>> \in B => key \in KeysOf(B)[l]
    BY <1>0, KeysOfFact, ZenonT(20)
  <2> HIDE DEF key
  <2>1. CASE <<l, i>> \in A
    <3>1. slot'[<<l, i>>] = Again(slot[<<l, i>>])
      BY <2>1, ZenonT(30)
    <3>2. slot'[<<l, i>>].state = "Ready"
      BY <1>1, <2>0, <3>1, RecordUpdates, ZenonT(30)
    <3> QED BY <1>6, <2>0, <2>1, <3>2, ZenonT(30) DEF key
  <2>2. CASE <<l, i>> \notin A /\ <<l, i>> \in B
    <3>1. slot'[<<l, i>>] = Marked(slot[<<l, i>>], "ReplayReady")
      BY <2>2
    <3>2. slot'[<<l, i>>].state = "ReplayReady"
      BY <1>1, <2>0, <3>1, RecordUpdates, SMTT(20)
    <3> QED BY <1>5, <2>0, <2>2, <3>2, ZenonT(30) DEF key
  <2>3. CASE <<l, i>> \notin A \cup B
    BY <2>3
  <2> QED BY <2>1, <2>2, <2>3
<1>8. \A l \in Lanes : Range(ready[l]) \subseteq Range(ready'[l]) /\ Range(replay[l]) \subseteq Range(replay'[l])
  BY <1>5, <1>6, ZenonT(30)
<1> QED BY <1>0, <1>2, <1>3, <1>5, <1>6, <1>7, <1>8, RequeueKeepsIInv, ZenonT(30)

\* The sweep of a callis that was lost.
LEMMA MarkCallisKeepsIInv ==
  ASSUME IInv, NEW c \in Callis, mark_callis_replay_ready(c)
  PROVE  IInv'
<1> DEFINE swept == {s \in SlotIds : s[1] \in SweptLanes /\ slot[s].callis = c}
           A == {s \in swept : slot[s].state = "Writing" /\ IsResponse(slot[s].item)}
           B == {s \in swept : slot[s].state \in {"Writing", "Inflight"} /\ IsTracked(slot[s].item)}
<1>1. /\ slot' = [s \in SlotIds |-> IF s \in A THEN Again(slot[s])
                                    ELSE IF s \in B THEN Marked(slot[s], "ReplayReady") ELSE slot[s]]
      /\ ready' \in PushAll(ready, KeysOf(A)) /\ replay' \in PushAll(replay, KeysOf(B))
      /\ UNCHANGED <<len, free, target, live, tracked, responses, deadlines, nextSeq,
                     shutdown, now, reaper, claim, outcome>>
  BY ZenonT(20) DEF mark_callis_replay_ready, Again, Marked
<1>2. A \in SUBSET SlotIds /\ B \in SUBSET SlotIds /\ \A s \in A \cup B : slot[s].state # "Empty"
  BY ZenonT(30)
<1>3. \A s \in B : s[1] \in TrackedLanes
  BY TrackedLaneFact
<1> HIDE DEF A, B
<1>4. /\ slot' = [s \in SlotIds |-> slot'[s]]
      /\ \A s \in SlotIds : slot'[s] = IF s \in A THEN Again(slot[s])
                                       ELSE IF s \in B THEN Marked(slot[s], "ReplayReady") ELSE slot[s]
  BY <1>1, ZenonT(30)
<1> QED BY <1>1, <1>2, <1>3, <1>4, MarkKeepsIInv, ZenonT(30)

\* The messages a resumed session asks for again.
LEMMA MarkTrackedKeepsIInv ==
  ASSUME IInv, NEW ids \in SUBSET TrackedIds, mark_tracked_replay_ready(ids)
  PROVE  IInv'
<1> DEFINE B == {s \in {tracked[id] : id \in ids} \ {None} :
                   slot[s].state \in {"Writing", "Inflight", "ReplayReady"} /\ IsTracked(slot[s].item)}
           A == {}
<1>1. /\ slot' = [s \in SlotIds |-> IF s \in B THEN Marked(slot[s], "ReplayReady") ELSE slot[s]]
      /\ ready' = ready /\ replay' \in PushAll(replay, KeysOf(B))
      /\ UNCHANGED <<len, free, target, live, tracked, responses, deadlines, nextSeq,
                     shutdown, now, reaper, claim, outcome>>
  BY DEF mark_tracked_replay_ready, Marked
<1>2. \A id \in TrackedIds : tracked[id] \in SlotIds \cup {None}
  BY ZenonT(30) DEF IInv, TypeOK
<1>3. A \in SUBSET SlotIds /\ B \in SUBSET SlotIds /\ \A s \in A \cup B : slot[s].state # "Empty"
  BY <1>2, ZenonT(30)
<1>4. \A s \in B : s[1] \in TrackedLanes
  BY <1>3, TrackedLaneFact, ZenonT(30)
<1>5. /\ slot' = [s \in SlotIds |-> slot'[s]]
      /\ \A s \in SlotIds : slot'[s] = IF s \in A THEN Again(slot[s])
                                       ELSE IF s \in B THEN Marked(slot[s], "ReplayReady") ELSE slot[s]
  <2> HIDE DEF B
  <2> QED BY <1>1
<1>6. A = {}
  OBVIOUS
<1> HIDE DEF A, B
<1> QED BY <1>1, <1>3, <1>4, <1>5, <1>6, MarkKeepsIInv, ZenonT(30)
=============================================================================
