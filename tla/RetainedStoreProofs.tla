------------------------ MODULE RetainedStoreProofs -------------------------
(***************************************************************************)
(* The theorems about RetainedStore, for any number of messages, responses,*)
(* transmitters, capacities and deadlines: insertions and resizing keep the*)
(* invariant, hence every step does; and the store implements SendPromise. *)
(***************************************************************************)
EXTENDS RetainedStorePromise, RetainedStoreLemmas

-----------------------------------------------------------------------------
(* Insertion and resizing *)

\* What the lookup maps of the store name: a slot, holding the item of that identifier.
LEMMA LookupFact ==
  ASSUME TypeOK, IndexesMatchSlots
  PROVE  /\ \A id \in TrackedIds : tracked[id] # None =>
               tracked[id] \in SlotIds /\ slot[tracked[id]].item = Tracked(id)
         /\ \A id \in ResponseIds : responses[id] # None =>
               /\ responses[id] \in SlotIds
               /\ IsResponse(slot[responses[id]].item) /\ slot[responses[id]].item.id = id
<1>1. tracked \in [TrackedIds -> SlotIds \cup {None}] /\ responses \in [ResponseIds -> SlotIds \cup {None}]
  BY Zenon DEF TypeOK
<1>2. /\ \A id \in TrackedIds : tracked[id] # None => slot[tracked[id]].item = Tracked(id)
      /\ \A id \in ResponseIds : responses[id] # None =>
            IsResponse(slot[responses[id]].item) /\ slot[responses[id]].item.id = id
  BY Zenon DEF IndexesMatchSlots
<1>3. ASSUME NEW id \in TrackedIds, tracked[id] # None
      PROVE  tracked[id] \in SlotIds
  BY ONLY <1>1, <1>3, Zenon
<1>4. ASSUME NEW id \in ResponseIds, responses[id] # None
      PROVE  responses[id] \in SlotIds
  BY ONLY <1>1, <1>4, Zenon
<1> QED BY ONLY <1>2, <1>3, <1>4, Zenon

\* An allocation that records the item in the lookup map of its kind.
LEMMA AllocationKeepsIInv ==
  ASSUME IInv, NEW l \in Lanes, NEW i \in allocatable(l), NEW item \in Items, NEW d \in Nat,
         NEW result \in Results, allocate(l, i, item, d, result), ~shutdown,
         UNCHANGED <<replay, target, shutdown, now, reaper, claim>>,
         \/ /\ IsTracked(item) /\ tracked[item.id] = None /\ l \in TrackedLanes /\ result = "pending"
            /\ tracked' = [tracked EXCEPT ![item.id] = <<l, i>>] /\ responses' = responses
         \/ /\ IsResponse(item) /\ responses[item.id] = None /\ l \in ResponseLanes /\ result = "none"
            /\ responses' = [responses EXCEPT ![item.id] = <<l, i>>] /\ tracked' = tracked
  PROVE  IInv'
<1> DEFINE s0 == <<l, i>>
<1> USE SlotIdsFact
<1>0. /\ TypeOK /\ SlotShape /\ SeqsIdentifyItems /\ LaneCounts /\ IndexesMatchSlots
      /\ WaiterIffRetained /\ NoStrandedItem /\ DeadlineCovered /\ ShutdownRetainsNoTracked
  BY DEF IInv, Occupancy
<1>1. /\ i \in Index /\ i \in Nat /\ i > 0 /\ slot[s0].item = None /\ slot[s0].state = "Empty"
      /\ (i <= len[l] \/ i = len[l] + 1)
      /\ s0 \in SlotIds
  BY <1>0, AllocatableFact
<1>2. /\ slot'[s0] = [item |-> item, deadline |-> d, seq |-> nextSeq, state |-> "Ready", callis |-> None]
      /\ \A s \in SlotIds : s # s0 => slot'[s] = slot[s]
  BY <1>0, <1>1, AllocationFact
<1>3. slot'[s0].item = item /\ slot'[s0].deadline = d /\ slot'[s0].seq = nextSeq /\ slot'[s0].state = "Ready"
  BY <1>2
<1>4. nextSeq \in Nat \ {0} /\ nextSeq' = nextSeq + 1
  BY <1>0 DEF TypeOK, allocate, next_seq
<1>5. item # None /\ item \in Items
  BY ItemFact
<1>6. \A s \in SlotIds : slot[s].item \in Items \cup {None} /\ slot[s].seq \in Nat
  BY <1>0, ZenonT(20) DEF TypeOK
<1> HIDE DEF s0
<1>10. TypeOK'
  <2>1. slot' \in [SlotIds -> [item : Items \cup {None}, deadline : Nat, seq : Nat,
                               state : States, callis : Callis \cup {None}]]
    <3>1. slot'[s0] \in [item : Items \cup {None}, deadline : Nat, seq : Nat,
                         state : States, callis : Callis \cup {None}]
      BY <1>2, <1>4 DEF States
    <3>2. slot' = [s \in SlotIds |-> slot'[s]]
      BY <1>0, ZenonT(20) DEF allocate, TypeOK
    <3> QED BY <1>0, <1>2, <3>1, <3>2, ZenonT(20) DEF TypeOK
  <2>2. len' \in [Lanes -> Nat] /\ free' \in [Lanes -> SUBSET Index] /\ live' \in [Lanes -> Nat]
    <3>1. len \in [Lanes -> Nat] /\ free \in [Lanes -> SUBSET Index] /\ live \in [Lanes -> Nat]
      BY <1>0 DEF TypeOK
    <3>2. len' \in [Lanes -> Nat]
      BY <1>1, <3>1 DEF allocate
    <3>3. free' \in [Lanes -> SUBSET Index]
      BY <3>1 DEF allocate
    <3>4. live' \in [Lanes -> Nat]
      BY <3>1 DEF allocate
    <3> QED BY <3>2, <3>3, <3>4
  <2>3. ready' \in [Lanes -> Seq(Keys)]
    <3>1. [index |-> i, seq |-> nextSeq] \in Keys
      BY <1>1, <1>4 DEF Keys
    <3> QED BY <1>0, <3>1, AppendKeys DEF allocate, TypeOK, push_back
  <2>4. tracked' \in [TrackedIds -> SlotIds \cup {None}] /\ responses' \in [ResponseIds -> SlotIds \cup {None}]
    BY <1>0, <1>1, ZenonT(20) DEF TypeOK, s0
  <2>5. deadlines' \subseteq DeadlineKeys
    BY <1>0, <1>1, <1>4, SMTT(20) DEF allocate, TypeOK, DeadlineKeys, s0
  <2>6. outcome' \in [1..(nextSeq' - 1) -> Results]
    <3>1. \A q \in 1..nextSeq : q = nextSeq \/ q \in 1..(nextSeq - 1)
      BY <1>4
    <3>2. nextSeq' - 1 = nextSeq
      BY <1>4
    <3>3. outcome \in [1..(nextSeq - 1) -> Results]
      BY <1>0 DEF TypeOK
    <3>4. outcome' = [q \in 1..nextSeq |-> IF q = nextSeq THEN result ELSE outcome[q]]
      BY DEF allocate
    <3>5. outcome' \in [1..nextSeq -> Results]
      BY <3>1, <3>3, <3>4
    <3> QED BY <3>2, <3>5
  <2>7. nextSeq' \in Nat \ {0}
    BY <1>4
  <2>8. /\ replay' \in [Lanes -> Seq(Keys)] /\ target' \in [Lanes -> Nat] /\ shutdown' \in BOOLEAN
        /\ now' \in Nat /\ reaper' \in {"idle", "due"} /\ claim' \in [Callis -> Claims \cup {None}]
    BY <1>0 DEF TypeOK
  <2> QED BY <2>7, <2>8, <2>1, <2>2, <2>3, <2>4, <2>5, <2>6, SMTT(20) DEF TypeOK
<1>11. SlotShape'
  <2>1. \A s \in SlotIds : slot'[s].item = None <=> slot'[s].state = "Empty"
    BY <1>0, <1>2, <1>3, <1>5, ZenonT(30) DEF SlotShape
  <2>2. /\ \A k \in Lanes : len'[k] = (IF k = l THEN IF i > len[l] THEN i ELSE len[l] ELSE len[k])
        /\ \A k \in Lanes : len[k] \in Nat /\ len[k] <= MaxSlots /\ target'[k] <= MaxSlots
    BY <1>0, <1>1 DEF allocate, TypeOK, SlotShape
  <2>3. i <= MaxSlots
    BY <1>1, IndexFinite DEF Index
  <2>4. ASSUME NEW k \in Lanes, NEW j \in Index, j > len'[k]
        PROVE  slot'[<<k, j>>].item = None
    <3>1. j > len[k] /\ <<k, j>> # s0
      BY <1>1, <2>2, <2>4, IndexFinite, SMTT(20) DEF s0
    <3> QED BY <1>0, <1>2, <3>1 DEF SlotShape
  <2> QED BY <2>1, <2>2, <2>3, <2>4 DEF SlotShape
<1>12. SeqsIdentifyItems'
  <2>1. \A s \in SlotIds : slot[s].item # None => slot[s].seq \in 1..(nextSeq - 1)
    BY <1>0 DEF SeqsIdentifyItems
  <2>2. \A s \in SlotIds : s # s0 /\ slot'[s].item # None
                             => slot'[s].seq \in 1..(nextSeq - 1) /\ slot'[s].seq # nextSeq
    BY <1>2, <1>4, <2>1
  <2>3. \A s \in SlotIds : slot'[s].item # None => slot'[s].seq \in 1..(nextSeq' - 1)
    BY <1>3, <1>4, <2>2
  <2> QED BY <1>0, <1>2, <1>3, <2>2, <2>3 DEF SeqsIdentifyItems
<1>13. LaneCounts'
  BY <1>0, AllocationKeepsCounts
<1>14. IndexesMatchSlots'
  <2>1. CASE IsTracked(item)
    <3>0. item.id \in TrackedIds /\ item = Tracked(item.id) /\ ~IsResponse(item)
      BY <2>1, ItemFact
    <3>1. /\ tracked[item.id] = None /\ l \in TrackedLanes
          /\ tracked' = [tracked EXCEPT ![item.id] = s0] /\ responses' = responses
      BY <3>0 DEF s0
    <3>2. ASSUME NEW id \in TrackedIds, tracked'[id] # None
          PROVE  slot'[tracked'[id]].item = Tracked(id)
      <4>1. CASE id = item.id
        BY <1>0, <1>3, <3>0, <3>1, <4>1, SMTT(20) DEF TypeOK
      <4>2. CASE id # item.id
        <5>1. tracked'[id] = tracked[id] /\ tracked[id] \in SlotIds /\ slot[tracked[id]].item = Tracked(id)
          BY <1>0, <3>1, <3>2, <4>2, SMTT(20) DEF TypeOK, IndexesMatchSlots
        <5>2. tracked[id] # s0
          BY <1>1, <5>1, ItemFact
        <5> QED BY <1>2, <5>1, <5>2, ZenonT(30)
      <4> QED BY <4>1, <4>2
    <3>3. ASSUME NEW id \in ResponseIds, responses'[id] # None
          PROVE  IsResponse(slot'[responses'[id]].item) /\ slot'[responses'[id]].item.id = id
      <4>1. /\ responses[id] \in SlotIds /\ IsResponse(slot[responses[id]].item)
            /\ slot[responses[id]].item.id = id
        BY <1>0, <3>1, <3>3, ZenonT(30) DEF TypeOK, IndexesMatchSlots
      <4>2. responses[id] # s0
        BY <1>1, <4>1, ItemFact
      <4> QED BY <1>2, <3>1, <4>1, <4>2, ZenonT(30)
    <3>4. ASSUME NEW s \in SlotIds, IsTracked(slot'[s].item)
          PROVE  tracked'[slot'[s].item.id] = s /\ s[1] \in TrackedLanes
      <4>1. CASE s = s0
        BY <1>0, <1>3, <3>0, <3>1, <4>1, ZenonT(20) DEF TypeOK, s0
      <4>2. CASE s # s0
        <5>1. slot'[s] = slot[s] /\ tracked[slot[s].item.id] = s /\ s[1] \in TrackedLanes
          BY <1>0, <1>2, <3>4, <4>2, SMTT(20) DEF IndexesMatchSlots
        <5>2. slot[s].item \in Items
          BY <1>6, <3>4, <5>1, ItemFact, ZenonT(30)
        <5>3. slot[s].item.id \in TrackedIds /\ s # None
          BY <3>4, <5>1, <5>2, ItemFact, ConstantsAssumption, SMTT(20)
        <5>4. slot[s].item.id # item.id
          BY <3>1, <5>1, <5>3, ZenonT(30)
        <5> QED BY <1>0, <3>1, <5>1, <5>3, <5>4, ZenonT(30) DEF TypeOK
      <4> QED BY <4>1, <4>2
    <3>5. ASSUME NEW s \in SlotIds, IsResponse(slot'[s].item)
          PROVE  responses'[slot'[s].item.id] = s /\ s[1] \in ResponseLanes
      <4>1. s # s0
        BY <1>3, <3>0, <3>5
      <4> QED BY <1>0, <1>2, <3>1, <3>5, <4>1, SMTT(20) DEF IndexesMatchSlots
    <3> QED BY <3>2, <3>3, <3>4, <3>5 DEF IndexesMatchSlots
  <2>2. CASE IsResponse(item)
    <3>0. item.id \in ResponseIds /\ ~IsTracked(item)
      BY <2>2, ItemFact
    <3>1. /\ responses[item.id] = None /\ l \in ResponseLanes
          /\ responses' = [responses EXCEPT ![item.id] = s0] /\ tracked' = tracked
      BY <3>0 DEF s0
    <3>2. ASSUME NEW id \in ResponseIds, responses'[id] # None
          PROVE  IsResponse(slot'[responses'[id]].item) /\ slot'[responses'[id]].item.id = id
      <4>1. CASE id = item.id
        BY <1>0, <1>3, <2>2, <3>0, <3>1, <4>1, ZenonT(30) DEF TypeOK
      <4>2. CASE id # item.id
        <5>1. /\ responses'[id] = responses[id] /\ responses[id] \in SlotIds
              /\ IsResponse(slot[responses[id]].item) /\ slot[responses[id]].item.id = id
          <6>1. item.id \in ResponseIds /\ responses \in [ResponseIds -> SlotIds \cup {None}]
            BY <1>0, <3>0, Zenon DEF TypeOK
          <6>2. responses'[id] = responses[id]
            BY ONLY <6>1, <3>1, <4>2, id \in ResponseIds, Zenon
          <6> QED BY <1>0, <3>2, <6>2, LookupFact, Zenon
        <5>2. responses[id] # s0
          BY <1>1, <5>1, ItemFact
        <5> QED BY <1>2, <5>1, <5>2, ZenonT(30)
      <4> QED BY <4>1, <4>2
    <3>3. ASSUME NEW id \in TrackedIds, tracked'[id] # None
          PROVE  slot'[tracked'[id]].item = Tracked(id)
      <4>1. tracked[id] \in SlotIds /\ slot[tracked[id]].item = Tracked(id)
        BY <1>0, <3>1, <3>3, LookupFact, Zenon
      <4>2. tracked[id] # s0
        BY <1>1, <4>1, ItemFact
      <4> QED BY <1>2, <3>1, <4>1, <4>2, ZenonT(30)
    <3>4. ASSUME NEW s \in SlotIds, IsResponse(slot'[s].item)
          PROVE  responses'[slot'[s].item.id] = s /\ s[1] \in ResponseLanes
      <4>1. CASE s = s0
        BY <1>0, <1>3, <3>0, <3>1, <4>1, ZenonT(20) DEF TypeOK, s0
      <4>2. CASE s # s0
        <5>1. slot'[s] = slot[s] /\ responses[slot[s].item.id] = s /\ s[1] \in ResponseLanes
          BY <1>0, <1>2, <3>4, <4>2, ZenonT(30) DEF IndexesMatchSlots
        <5>2. slot[s].item \in Items
          BY <1>6, <3>4, <5>1, ItemFact, ZenonT(30)
        <5>3. slot[s].item.id \in ResponseIds /\ s # None
          BY <3>4, <5>1, <5>2, ItemFact, ConstantsAssumption, ZenonT(30)
        <5>4. slot[s].item.id # item.id
          BY <3>1, <5>1, <5>3, ZenonT(30)
        <5> QED BY <1>0, <3>1, <5>1, <5>3, <5>4, ZenonT(30) DEF TypeOK
      <4> QED BY <4>1, <4>2
    <3>5. ASSUME NEW s \in SlotIds, IsTracked(slot'[s].item)
          PROVE  tracked'[slot'[s].item.id] = s /\ s[1] \in TrackedLanes
      <4>1. s # s0
        BY <1>3, <3>0, <3>5
      <4> QED BY <1>0, <1>2, <3>1, <3>5, <4>1, ZenonT(30) DEF IndexesMatchSlots
    <3> QED BY <3>2, <3>3, <3>4, <3>5 DEF IndexesMatchSlots
  <2> QED BY <2>1, <2>2, ItemFact
<1>15. WaiterIffRetained'
  <2>1. IsTracked(item) <=> result = "pending"
    BY ItemFact
  <2>2. DOMAIN outcome' = 1..nextSeq /\ DOMAIN outcome = 1..(nextSeq - 1)
    BY <1>0 DEF allocate, TypeOK
  <2> SUFFICES ASSUME NEW q \in 1..nextSeq
               PROVE  outcome'[q] = "pending" <=> \E s \in SlotIds : IsTracked(slot'[s].item) /\ slot'[s].seq = q
    BY <2>2 DEF WaiterIffRetained
  <2>3. outcome'[q] = IF q = nextSeq THEN result ELSE outcome[q]
    BY DEF allocate
  <2>4. CASE q = nextSeq
    <3>1. ASSUME NEW s \in SlotIds, slot'[s].item # None, slot'[s].seq = nextSeq
          PROVE  s = s0
      BY <1>1, <1>3, <1>5, <1>12, <3>1, ZenonT(30) DEF SeqsIdentifyItems
    <3>2. (\E s \in SlotIds : IsTracked(slot'[s].item) /\ slot'[s].seq = q) <=> IsTracked(item)
      BY <1>1, <1>3, <2>4, <3>1, ItemFact, ZenonT(30)
    <3> QED BY <2>1, <2>3, <2>4, <3>2, ZenonT(30)
  <2>5. CASE q # nextSeq
    <3>1. q \in DOMAIN outcome
      BY <1>4, <2>2, <2>5, SMTT(20)
    <3>2. \A s \in SlotIds : IsTracked(slot'[s].item) /\ slot'[s].seq = q
                              <=> IsTracked(slot[s].item) /\ slot[s].seq = q
      BY <1>1, <1>2, <1>3, <2>5, ItemFact, ZenonT(30)
    <3> QED BY <1>0, <2>3, <2>5, <3>1, <3>2, ZenonT(30) DEF WaiterIffRetained
  <2> QED BY <2>4, <2>5
<1>16. NoStrandedItem'
  <2> SUFFICES ASSUME NEW k \in Lanes, NEW j \in Index
               PROVE  LET key == [index |-> j, seq |-> slot'[<<k, j>>].seq] IN
                      /\ slot'[<<k, j>>].state = "Ready" => key \in Range(ready'[k])
                      /\ slot'[<<k, j>>].state = "ReplayReady" => k \in TrackedLanes /\ key \in Range(replay'[k])
    BY ZenonT(20) DEF NoStrandedItem
  <2>1. /\ Range(ready'[l]) = Range(ready[l]) \cup {[index |-> i, seq |-> nextSeq]}
        /\ k # l => ready'[k] = ready[k]
    <3>1. [index |-> i, seq |-> nextSeq] \in Keys /\ ready[l] \in Seq(Keys)
      BY <1>0, <1>1, <1>4, ZenonT(20) DEF Keys, TypeOK
    <3>2. ready' = [ready EXCEPT ![l] = Append(@, [index |-> i, seq |-> nextSeq])]
      BY DEF allocate, push_back
    <3> QED BY <1>0, <3>1, <3>2, AppendKeys, SMTT(20) DEF TypeOK
  <2>2. CASE <<k, j>> = s0
    BY <1>3, <2>1, <2>2 DEF s0
  <2>3. CASE <<k, j>> # s0
    <3>1. slot'[<<k, j>>] = slot[<<k, j>>]
      BY <1>2, <2>3
    <3>2. Range(ready[k]) \subseteq Range(ready'[k])
      BY <2>1
    <3> QED BY <1>0, <3>1, <3>2 DEF NoStrandedItem
  <2> QED BY <2>2, <2>3
<1>17. DeadlineCovered'
  <2>1. deadlines' = deadlines \cup {[deadline |-> d, at |-> s0, seq |-> nextSeq]}
    BY DEF allocate, s0
  <2> SUFFICES ASSUME NEW s \in SlotIds, slot'[s].item # None
               PROVE  [deadline |-> slot'[s].deadline, at |-> s, seq |-> slot'[s].seq] \in deadlines'
    BY DEF DeadlineCovered
  <2>2. CASE s = s0
    BY <1>3, <2>1, <2>2
  <2>3. CASE s # s0
    BY <1>0, <1>2, <2>1, <2>3 DEF DeadlineCovered
  <2> QED BY <2>2, <2>3
<1>18. ShutdownRetainsNoTracked'
  BY DEF ShutdownRetainsNoTracked
<1> QED BY <1>10, <1>11, <1>12, <1>13, <1>14, <1>15, <1>16, <1>17, <1>18, ZenonT(30) DEF IInv, Occupancy

\* set_capacities, growing or shrinking the lanes.
LEMMA SetCapacitiesKeepsIInv ==
  ASSUME IInv, NEW q \in QueueSizes, set_capacities(q)
  PROVE  IInv'
<1> USE SlotIdsFact
<1> DEFINE cap == RetainedCapacities(q)
<1>0. /\ TypeOK /\ SlotShape /\ SeqsIdentifyItems /\ LaneCounts /\ IndexesMatchSlots
      /\ WaiterIffRetained /\ NoStrandedItem /\ DeadlineCovered /\ ShutdownRetainsNoTracked
  BY DEF IInv, Occupancy
<1>1. cap \in [Lanes -> Nat] /\ \A l \in Lanes : cap[l] <= MaxSlots
  BY CapacitiesFact
<1>2. /\ len' = [l \in Lanes |-> IF cap[l] > len[l] THEN cap[l] ELSE len[l]]
      /\ free' = [l \in Lanes |-> free[l] \cup (len[l] + 1)..cap[l]]
      /\ target' = cap
      /\ slot' = slot /\ ready' = ready /\ replay' = replay /\ live' = live
      /\ tracked' = tracked /\ responses' = responses /\ deadlines' = deadlines
      /\ nextSeq' = nextSeq /\ shutdown' = shutdown /\ now' = now /\ reaper' = reaper
      /\ claim' = claim /\ outcome' = outcome
  BY DEF set_capacities
<1> HIDE DEF cap
<1>3. len \in [Lanes -> Nat] /\ free \in [Lanes -> SUBSET Index] /\ MaxSlots \in Nat
  BY <1>0, IndexFinite DEF TypeOK
<1>4. /\ len' \in [Lanes -> Nat] /\ free' \in [Lanes -> SUBSET Index] /\ target' \in [Lanes -> Nat]
  BY <1>1, <1>2, <1>3 DEF Index
<1>5. TypeOK'
  BY <1>0, <1>2, <1>4 DEF TypeOK
<1>6. SlotShape'
  BY <1>0, <1>1, <1>2, <1>3 DEF SlotShape, Index
<1>7. ASSUME NEW l \in Lanes
      PROVE  free'[l] = {i \in 1..len'[l] : slot'[<<l, i>>].item = None}
  <2>1. free[l] = {i \in 1..len[l] : slot[<<l, i>>].item = None}
    BY <1>0, ZenonT(20) DEF LaneCounts
  <2>2. \A i \in Index : i > len[l] => slot[<<l, i>>].item = None
    BY <1>0 DEF SlotShape
  <2>3. /\ len[l] \in Nat /\ cap[l] \in Nat /\ cap[l] <= MaxSlots
        /\ len'[l] = (IF cap[l] > len[l] THEN cap[l] ELSE len[l])
        /\ free'[l] = free[l] \cup (len[l] + 1)..cap[l]
    BY <1>1, <1>2, <1>3
  <2>4. (len[l] + 1)..cap[l] \subseteq Index
    BY <2>3, <1>3 DEF Index
  <2>5. \A i \in (len[l] + 1)..cap[l] : slot[<<l, i>>].item = None
    BY <2>2, <2>3, <2>4
  <2>6. 1..len'[l] = 1..len[l] \cup (len[l] + 1)..cap[l]
    BY <2>3
  <2> QED BY ONLY <2>1, <2>3, <2>5, <2>6, <1>2
<1>8. LaneCounts'
  <2>1. ASSUME NEW l \in Lanes
        PROVE  live'[l] = Cardinality({i \in Index : slot'[<<l, i>>].item # None})
    <3>1. live[l] = Cardinality({i \in Index : slot[<<l, i>>].item # None})
      BY <1>0, Zenon DEF LaneCounts
    <3>2. slot' = slot /\ live' = live
      BY <1>2
    <3> QED BY ONLY <3>1, <3>2, Zenon
  <2> QED BY ONLY <1>7, <2>1, Zenon DEF LaneCounts
<1>9. /\ SeqsIdentifyItems' /\ IndexesMatchSlots' /\ WaiterIffRetained' /\ NoStrandedItem'
      /\ DeadlineCovered' /\ ShutdownRetainsNoTracked'
  BY <1>0, <1>2 DEF SeqsIdentifyItems, IndexesMatchSlots, WaiterIffRetained, NoStrandedItem,
                    DeadlineCovered, ShutdownRetainsNoTracked
<1> QED BY <1>5, <1>6, <1>8, <1>9 DEF IInv, Occupancy

\* insert_ack and insert_error.
LEMMA InsertResponseKeepsIInv ==
  ASSUME IInv, NEW kind \in {"Ack", "Error"}, NEW l \in ResponseLanes, NEW id \in ResponseIds,
         NEW d \in Nat, insert_response(kind, l, id, d)
  PROVE  IInv'
<1> USE SlotIdsFact
<1> DEFINE item == [kind |-> kind, id |-> id]
<1>0. /\ TypeOK /\ SlotShape /\ SeqsIdentifyItems /\ LaneCounts /\ IndexesMatchSlots
      /\ WaiterIffRetained /\ NoStrandedItem /\ DeadlineCovered /\ ShutdownRetainsNoTracked
  BY DEF IInv, Occupancy
<1>1. l \in Lanes /\ item \in Items /\ item.id = id /\ item.kind # "Tracked"
  BY DEF ResponseLanes, Lanes, Items
<1>2. IsResponse(item)
  BY <1>1, ConstantsAssumption DEF IsResponse
<1>3. ~shutdown /\ responses[id] = None
  BY <1>0 DEF insert_response, contains_response
<1>4. ASSUME NEW i \in allocatable(l), allocate(l, i, item, d, "none"),
             responses' = [responses EXCEPT ![id] = <<l, i>>],
             UNCHANGED <<replay, target, tracked, shutdown, now, reaper, claim>>
      PROVE  IInv'
  <2>1. "none" \in Results
    BY DEF Results
  <2> HIDE DEF item
  <2>2. /\ IsResponse(item) /\ responses[item.id] = None /\ l \in ResponseLanes
        /\ responses' = [responses EXCEPT ![item.id] = <<l, i>>] /\ tracked' = tracked
    BY <1>1, <1>2, <1>3, <1>4
  <2>3. UNCHANGED <<replay, target, shutdown, now, reaper, claim>>
    BY <1>4
  <2> QED BY <1>1, <1>3, <1>4, <2>1, <2>2, <2>3, AllocationKeepsIInv, ZenonT(20)
<1>5. ASSUME nextSeq' = next_seq,
             outcome' = [p \in 1..nextSeq |-> IF p = nextSeq THEN "none" ELSE outcome[p]],
             UNCHANGED <<slot, len, free, ready, replay, target, live, tracked, responses,
                         deadlines, shutdown, now, reaper, claim>>
      PROVE  IInv'
  <2>0. /\ nextSeq \in Nat \ {0} /\ outcome \in [1..(nextSeq - 1) -> Results] /\ nextSeq' = nextSeq + 1
        /\ "none" \in Results
    BY <1>0, <1>5 DEF TypeOK, next_seq, Results
  <2>1. outcome' \in [1..(nextSeq' - 1) -> Results]
    BY <1>5, <2>0
  <2>2. nextSeq' \in Nat \ {0}
    BY <2>0
  <2>3. TypeOK'
    BY <1>0, <1>5, <2>1, <2>2, ZenonT(30) DEF TypeOK
  <2>4. SlotShape' /\ LaneCounts' /\ IndexesMatchSlots' /\ NoStrandedItem'
    <3>1. SlotShape' /\ LaneCounts'
      BY <1>0, <1>5 DEF SlotShape, LaneCounts
    <3>2. IndexesMatchSlots' /\ NoStrandedItem'
      BY <1>0, <1>5 DEF IndexesMatchSlots, NoStrandedItem
    <3> QED BY <3>1, <3>2
  <2>5. SeqsIdentifyItems'
    BY <1>0, <1>5, <2>0 DEF SeqsIdentifyItems
  <2>6. WaiterIffRetained'
    <3> SUFFICES ASSUME NEW p \in DOMAIN outcome'
                 PROVE  outcome'[p] = "pending"
                          <=> \E s \in SlotIds : IsTracked(slot'[s].item) /\ slot'[s].seq = p
      BY DEF WaiterIffRetained
    <3>1. p \in 1..nextSeq /\ outcome'[p] = IF p = nextSeq THEN "none" ELSE outcome[p]
      BY <1>5
    <3>2. slot' = slot
      BY <1>5
    <3>3. CASE p = nextSeq
      <4>1. \A s \in SlotIds : slot[s].item # None => slot[s].seq # p
        BY <1>0, <2>0, <3>3 DEF SeqsIdentifyItems
      <4> QED BY <3>1, <3>2, <3>3, <4>1 DEF IsTracked
    <3>4. CASE p # nextSeq
      <4>1. p \in DOMAIN outcome
        BY <2>0, <3>1, <3>4
      <4> QED BY <1>0, <3>1, <3>2, <3>4, <4>1, SMTT(20) DEF WaiterIffRetained
    <3> QED BY <3>3, <3>4
  <2>7. DeadlineCovered' /\ ShutdownRetainsNoTracked'
    BY <1>0, <1>5 DEF DeadlineCovered, ShutdownRetainsNoTracked
  <2> QED BY <2>3, <2>4, <2>5, <2>6, <2>7, ZenonT(30) DEF IInv, Occupancy
<1> QED BY <1>4, <1>5 DEF insert_response

\* insert_tracked.
LEMMA InsertTrackedKeepsIInv ==
  ASSUME IInv, NEW id \in TrackedIds, NEW d \in Nat, insert_tracked(id, d)
  PROVE  IInv'
<1> DEFINE l == tracked_lane(id)
           item == Tracked(id)
<1>1. /\ l \in Lanes /\ l \in TrackedLanes
  BY DEF tracked_lane, Lanes, TrackedLanes
<1>2. item \in Items /\ IsTracked(item) /\ item.id = id
  BY ItemFact
<1>3. ~shutdown /\ tracked[id] = None /\ "pending" \in Results
  BY DEF insert_tracked, contains_tracked, Results
<1>4. PICK i \in allocatable(l) :
          /\ allocate(l, i, item, d, "pending")
          /\ tracked' = [tracked EXCEPT ![id] = <<l, i>>]
  BY ZenonT(20) DEF insert_tracked
<1>5. responses' = responses /\ UNCHANGED <<replay, target, shutdown, now, reaper, claim>>
  BY DEF insert_tracked
<1> HIDE DEF l, item
<1>6. /\ IsTracked(item) /\ tracked[item.id] = None
      /\ tracked' = [tracked EXCEPT ![item.id] = <<l, i>>]
  BY <1>2, <1>3, <1>4
<1> QED BY <1>1, <1>2, <1>3, <1>4, <1>5, <1>6, AllocationKeepsIInv, ZenonT(20)

\* The empty store.
LEMMA InitEstablishesIInv == Init => IInv
<1> USE SlotIdsFact
<1> SUFFICES ASSUME Init PROVE IInv
  OBVIOUS
<1>1. PICK q \in QueueSizes :
    /\ slot = [s \in SlotIds |-> EmptySlot]
    /\ len = RetainedCapacities(q)
    /\ free = [l \in Lanes |-> 1..RetainedCapacities(q)[l]]
    /\ target = RetainedCapacities(q)
  BY DEF Init
<1>2. /\ ready = [l \in Lanes |-> <<>>] /\ replay = [l \in Lanes |-> <<>>]
      /\ live = [l \in Lanes |-> 0]
      /\ tracked = [id \in TrackedIds |-> None] /\ responses = [id \in ResponseIds |-> None]
      /\ deadlines = {} /\ nextSeq = 1 /\ shutdown = FALSE /\ now = 0 /\ reaper = "idle"
      /\ claim = [c \in Callis |-> None] /\ outcome = <<>>
  BY DEF Init
<1> DEFINE cap == RetainedCapacities(q)
<1>3. cap \in [Lanes -> Nat] /\ (\A l \in Lanes : cap[l] <= MaxSlots) /\ MaxSlots \in Nat
  BY CapacitiesFact, IndexFinite
<1> HIDE DEF cap
<1>4. EmptySlot \in SlotRecords /\ EmptySlot.item = None /\ EmptySlot.state = "Empty" /\ EmptySlot.seq = 0
  BY DEF SlotRecords, EmptySlot, States
<1>5. slot \in [SlotIds -> SlotRecords] /\ \A s \in SlotIds : slot[s] = EmptySlot
  BY <1>1, <1>4
<1>6. len = cap /\ free = [l \in Lanes |-> 1..cap[l]] /\ target = cap
  BY <1>1 DEF cap
<1>7. /\ len \in [Lanes -> Nat] /\ free \in [Lanes -> SUBSET Index] /\ target \in [Lanes -> Nat]
  BY <1>3, <1>6 DEF Index
<1>81. ready \in [Lanes -> Seq(Keys)] /\ replay \in [Lanes -> Seq(Keys)] /\ live \in [Lanes -> Nat]
  <2>1. <<>> \in Seq(Keys)
    OBVIOUS
  <2> QED BY <1>2, <2>1
<1>82. deadlines \subseteq DeadlineKeys /\ nextSeq \in Nat \ {0} /\ now \in Nat
  BY <1>2
<1>83. shutdown \in BOOLEAN
  BY <1>2, ZenonT(20)
<1>84. reaper \in {"idle", "due"}
  BY <1>2
<1>8. /\ tracked \in [TrackedIds -> SlotIds \cup {None}]
      /\ responses \in [ResponseIds -> SlotIds \cup {None}]
      /\ claim \in [Callis -> Claims \cup {None}]
  BY <1>2
<1>9. outcome \in [1..(nextSeq - 1) -> Results]
  BY <1>2
<1>10. TypeOK
  BY <1>5, <1>7, <1>8, <1>81, <1>82, <1>83, <1>84, <1>9, ZenonT(30) DEF TypeOK, SlotRecords
<1>11. \A s \in SlotIds : slot[s].item = None /\ slot[s].state = "Empty"
  BY <1>4, <1>5
<1>12. SlotShape
  BY <1>3, <1>6, <1>11 DEF SlotShape
<1>13. LaneCounts
  <2> SUFFICES ASSUME NEW l \in Lanes
               PROVE  /\ live[l] = Cardinality({i \in Index : slot[<<l, i>>].item # None})
                      /\ free[l] = {i \in 1..len[l] : slot[<<l, i>>].item = None}
    BY DEF LaneCounts
  <2>1. {i \in Index : slot[<<l, i>>].item # None} = {}
    BY <1>11
  <2>2. live[l] = 0 /\ free[l] = 1..len[l]
    BY <1>2, <1>6
  <2>3. 1..len[l] \subseteq Index
    BY <1>3, <1>6 DEF Index
  <2>4. free[l] = {i \in 1..len[l] : slot[<<l, i>>].item = None}
    BY <1>11, <2>2, <2>3
  <2> QED BY <2>1, <2>2, <2>4, FS_EmptySet, ZenonT(20)
<1>14. SeqsIdentifyItems /\ IndexesMatchSlots
  BY <1>2, <1>11, ItemFact DEF SeqsIdentifyItems, IndexesMatchSlots
<1>15. WaiterIffRetained
  BY <1>2, <1>11 DEF WaiterIffRetained
<1>16. NoStrandedItem /\ DeadlineCovered /\ ShutdownRetainsNoTracked
  BY <1>2, <1>11 DEF NoStrandedItem, DeadlineCovered, ShutdownRetainsNoTracked
<1> QED BY <1>10, <1>12, <1>13, <1>14, <1>15, <1>16, ZenonT(30) DEF IInv, Occupancy

-----------------------------------------------------------------------------
(* Theorems *)

\* Every critical section of the store mutex, every clock tick and every
\* stuttering step preserves the inductive invariant.
LEMMA NextKeepsIInv == IInv /\ [Next]_vars => IInv'
<1> SUFFICES ASSUME IInv, [Next]_vars PROVE IInv'
  OBVIOUS
<1>0. now \in Nat /\ SendTimeout \in Nat /\ ResponseTTL \in Nat
  BY ConstantsAssumption DEF IInv, TypeOK
<1>1. ASSUME NEW q \in QueueSizes, set_capacities(q) PROVE IInv'
  BY <1>1, SetCapacitiesKeepsIInv
<1>2. ASSUME NEW id \in ResponseIds, insert_ack(id) \/ insert_error(id) PROVE IInv'
  <2>1. now + ResponseTTL \in Nat
    BY <1>0
  <2>2. "A1Ack" \in ResponseLanes /\ "A1Error" \in ResponseLanes
    BY DEF ResponseLanes
  <2>3. CASE insert_ack(id)
    BY <2>1, <2>2, <2>3, InsertResponseKeepsIInv DEF insert_ack
  <2>4. CASE insert_error(id)
    BY <2>1, <2>2, <2>4, InsertResponseKeepsIInv DEF insert_error
  <2> QED BY <1>2, <2>3, <2>4
<1>3. ASSUME NEW id \in TrackedIds, NEW d \in 0..(now + SendTimeout), insert_tracked(id, d) PROVE IInv'
  <2>1. d \in Nat
    BY <1>0
  <2> QED BY <1>3, <2>1, InsertTrackedKeepsIInv
<1>4. ASSUME NEW c \in Callis, \/ claim_next(c) \/ claim_none(c)
                               \/ complete_write_ok(c) \/ complete_write_err(c)
                               \/ mark_callis_replay_ready(c)
      PROVE  IInv'
  BY <1>4, ClaimNextKeepsIInv, ClaimNoneKeepsIInv, CompleteWriteOkKeepsIInv, SMTT(20),
     CompleteWriteErrKeepsIInv, MarkCallisKeepsIInv
<1>5. ASSUME NEW id \in TrackedIds, ack(id) \/ fail_one(id) PROVE IInv'
  BY <1>5, CompletionsKeepIInv
<1>6. ASSUME fail_all \/ fail_non_a1 \/ begin_shutdown \/ drop_responses PROVE IInv'
  BY <1>6, CompletionsKeepIInv, BeginShutdownKeepsIInv
<1>7. ASSUME NEW ids \in SUBSET TrackedIds, mark_tracked_replay_ready(ids) PROVE IInv'
  BY <1>7, MarkTrackedKeepsIInv
<1>8. ASSUME next_deadline \/ expire_due \/ Tick PROVE IInv'
  BY <1>8, NextDeadlineKeepsIInv, ExpireDueKeepsIInv, TickKeepsIInv
<1>9. ASSUME UNCHANGED vars PROVE IInv'
  <2>1. Relabel
    BY <1>9 DEF Relabel, SameOccupant, vars
  <2>2. NoStrandedItem'
    BY <1>9, ZenonT(20) DEF IInv, NoStrandedItem, vars
  <2>3. /\ slot' \in [SlotIds -> [item : Items \cup {None}, deadline : Nat, seq : Nat,
                                  state : States, callis : Callis \cup {None}]]
        /\ ready' \in [Lanes -> Seq(Keys)] /\ replay' \in [Lanes -> Seq(Keys)]
        /\ claim' \in [Callis -> Claims \cup {None}]
        /\ UNCHANGED <<deadlines, shutdown, now, reaper>>
    BY <1>9 DEF IInv, TypeOK, vars
  <2> QED BY <2>1, <2>2, <2>3, RelabelKeepsIInv
<1>10. ASSUME DispatchManager PROVE IInv'
  BY <1>1, <1>2, <1>3, <1>4, <1>5, <1>6, <1>7, <1>10, ZenonT(30) DEF DispatchManager
<1>11. ASSUME NEW c \in Callis, Transmitter(c) PROVE IInv'
  BY <1>4, <1>11 DEF Transmitter
<1> QED BY <1>8, <1>9, <1>10, <1>11 DEF Next

\* The inductive invariant holds in every state the store reaches, whatever the
\* interleaving of admissions, transmitters, ACKs, teardown sweeps, resizes, the
\* reaper and shutdown.
THEOREM StoreInvariant == Spec => []IInv
<1>1. Init => IInv
  BY InitEstablishesIInv
<1>2. IInv /\ [Next]_vars => IInv'
  BY NextKeepsIInv
<1> QED BY <1>1, <1>2, PTL DEF Spec

\* Every variable of the store keeps its type.
THEOREM TypeCorrect == Spec => []TypeOK
<1>1. IInv => TypeOK
  BY DEF IInv
<1> QED BY <1>1, StoreInvariant, PTL

\* No waiting item is ever without a queue key claim_next would pop for it.
THEOREM NothingStranded == Spec => []NoStrandedItem
<1>1. IInv => NoStrandedItem
  BY DEF IInv
<1> QED BY <1>1, StoreInvariant, PTL

\* live_count and the free list agree with the slots under every resize, so the
\* unreachable!() of insert_tracked is unreachable.
THEOREM AccountingExact == Spec => []SlotAccounting
<1>1. IInv => SlotAccounting
  BY AvailableAllocatable DEF IInv, Occupancy
<1> QED BY <1>1, StoreInvariant, PTL

\* The lookup maps by peer_msg_id and the slots describe each other.
THEOREM IndexesExact == Spec => []IndexesMatchSlots
<1>1. IInv => IndexesMatchSlots
  BY DEF IInv, Occupancy
<1> QED BY <1>1, StoreInvariant, PTL

\* Sequence numbers identify retained items, which is what protects a reused slot
\* from the keys and write completions of its earlier occupants.
THEOREM SeqsUnique == Spec => []SeqsIdentifyItems
<1>1. IInv => SeqsIdentifyItems
  BY DEF IInv, Occupancy
<1> QED BY <1>1, StoreInvariant, PTL

\* A completion sender is unresolved exactly while its message is retained.
THEOREM NoLostCompletion == Spec => []WaiterIffRetained
<1>1. IInv => WaiterIffRetained
  BY DEF IInv, Occupancy
<1> QED BY <1>1, StoreInvariant, PTL

\* The reaper's heap covers every retained item.
THEOREM ReaperCoversAll == Spec => []DeadlineCovered
<1>1. IInv => DeadlineCovered
  BY DEF IInv
<1> QED BY <1>1, StoreInvariant, PTL

\* begin_shutdown leaves no completion-bearing message, and none is admitted later.
THEOREM ShutdownDrainsTracked == Spec => []ShutdownRetainsNoTracked
<1>1. IInv => ShutdownRetainsNoTracked
  BY DEF IInv
<1> QED BY <1>1, StoreInvariant, PTL

-----------------------------------------------------------------------------
(* What a step may never do                                                *)

\* Only the transmitter of a callis takes a claim for it, and only its write
\* result gives the claim back.
LEMMA ClaimSteps ==
  ASSUME IInv, [Next]_vars, NEW c \in Callis
  PROVE  \/ claim'[c] = claim[c]
         \/ claim[c] = None /\ claim_next(c)
         \/ claim[c] # None /\ (complete_write_ok(c) \/ complete_write_err(c))
<1>0. claim \in [Callis -> Claims \cup {None}]
  BY DEF IInv, TypeOK
<1>1. ASSUME NEW d \in Callis, claim_next(d), d # c PROVE claim'[c] = claim[c]
  <2>1. \E l \in ClaimLane : \E key : Take(d, l, key)
    BY <1>1, ZenonT(20) DEF claim_next
  <2>2. \E x : claim' = [claim EXCEPT ![d] = x]
    BY <2>1, Zenon DEF Take
  <2> QED BY <1>0, <1>1, <2>2
<1>2. ASSUME NEW d \in Callis, complete_write_ok(d) \/ complete_write_err(d), d # c
      PROVE  claim'[c] = claim[c]
  <2>1. claim' = [claim EXCEPT ![d] = None]
    BY <1>2, Zenon DEF complete_write_ok, complete_write_err
  <2> QED BY <1>0, <1>2, <2>1
<1>3. ASSUME NEW d \in Callis, claim_none(d) \/ mark_callis_replay_ready(d)
      PROVE  claim' = claim
  BY <1>3, Zenon DEF claim_none, mark_callis_replay_ready
<1>4. ASSUME NEW d \in Callis, Transmitter(d)
      PROVE  \/ claim'[c] = claim[c]
             \/ claim_next(c)
             \/ complete_write_ok(c) \/ complete_write_err(c)
  BY <1>1, <1>2, <1>3, <1>4, Zenon DEF Transmitter
<1>5. ASSUME NEW id \in ResponseIds, insert_ack(id) \/ insert_error(id) PROVE claim' = claim
  BY <1>5, Zenon DEF insert_ack, insert_error, insert_response
<1>6. ASSUME NEW id \in TrackedIds, NEW d, insert_tracked(id, d) PROVE claim' = claim
  BY <1>6, Zenon DEF insert_tracked
<1>7. ASSUME \/ \E id \in TrackedIds : ack(id) \/ fail_one(id)
             \/ fail_all \/ fail_non_a1 \/ begin_shutdown \/ drop_responses
      PROVE  claim' = claim
  <2>1. \E S, r : vacate(S, r)
    BY <1>7, Zenon DEF ack, fail_one, fail_all, fail_non_a1, begin_shutdown, drop_responses
  <2> QED BY <2>1, Zenon DEF vacate
<1>8. ASSUME \/ \E ids \in SUBSET TrackedIds : mark_tracked_replay_ready(ids)
             \/ \E q \in QueueSizes : set_capacities(q)
      PROVE  claim' = claim
  BY <1>8, Zenon DEF mark_tracked_replay_ready, set_capacities
<1>9. ASSUME next_deadline \/ expire_due \/ Tick \/ UNCHANGED vars PROVE claim' = claim
  BY <1>9, Zenon DEF next_deadline, expire_due, Tick, vars
<1>10. ASSUME DispatchManager PROVE claim' = claim
  BY <1>3, <1>5, <1>6, <1>7, <1>8, <1>10, Zenon DEF DispatchManager
<1>11. \/ claim'[c] = claim[c]
       \/ claim_next(c)
       \/ complete_write_ok(c) \/ complete_write_err(c)
  BY <1>4, <1>9, <1>10, Zenon DEF Next
<1>12. claim_next(c) => claim[c] = None
  BY Zenon DEF claim_next
<1>13. complete_write_ok(c) \/ complete_write_err(c) => claim[c] # None
  BY Zenon DEF complete_write_ok, complete_write_err
<1> QED BY <1>11, <1>12, <1>13, Zenon

\* The write result of c touches the slot c claimed, and only while c owns it.
LEMMA WriteResultTouches ==
  ASSUME IInv, NEW c \in Callis, complete_write_ok(c) \/ complete_write_err(c),
         NEW s \in SlotIds, slot'[s] # slot[s]
  PROVE  s = claim[c].at /\ slot[s].seq = claim[c].seq /\ slot[s].callis = c
<1>0. slot \in [SlotIds -> [item : Items \cup {None}, deadline : Nat, seq : Nat,
                            state : States, callis : Callis \cup {None}]]
  BY DEF IInv, TypeOK
<1>1. \/ slot' = slot
      \/ Owns(c) /\ \/ remove_slots({claim[c].at}, "none")
                    \/ slot' = [slot EXCEPT ![claim[c].at].state = "Inflight"]
                    \/ slot' = [slot EXCEPT ![claim[c].at].state = "ReplayReady"]
                    \/ slot' = [slot EXCEPT ![claim[c].at].state = "Ready", ![claim[c].at].callis = None]
  BY Zenon DEF complete_write_ok, complete_write_err, storeVars
<1>2. Owns(c)
  BY <1>1
<1>3. s = claim[c].at
  <2>1. CASE remove_slots({claim[c].at}, "none")
    <3>1. \A t \in SlotIds : t # claim[c].at => slot'[t] = slot[t]
      BY <2>1 DEF remove_slots, Occupied
    <3> QED BY <3>1
  <2>2. CASE slot' = [slot EXCEPT ![claim[c].at].state = "Inflight"]
    BY <1>0, <2>2
  <2>3. CASE slot' = [slot EXCEPT ![claim[c].at].state = "ReplayReady"]
    BY <1>0, <2>3
  <2>4. CASE slot' = [slot EXCEPT ![claim[c].at].state = "Ready", ![claim[c].at].callis = None]
    BY <1>0, <2>4
  <2> QED BY <1>1, <2>1, <2>2, <2>3, <2>4
<1> QED BY <1>2, <1>3 DEF Owns

\* A write result that comes after its slot was vacated, swept or given to another
\* message changes nothing.
THEOREM StaleResultsIgnored == Spec => StaleCompletionIgnored
<1> DEFINE A == \A c \in Callis : claim[c] # None /\ claim'[c] = None =>
                  \A s \in SlotIds : slot'[s] # slot[s] =>
                    s = claim[c].at /\ slot[s].seq = claim[c].seq /\ slot[s].callis = c
<1>1. IInv /\ [Next]_vars => [A]_vars
  <2> SUFFICES ASSUME IInv, [Next]_vars, NEW c \in Callis, claim[c] # None, claim'[c] = None,
                      NEW s \in SlotIds, slot'[s] # slot[s]
               PROVE  s = claim[c].at /\ slot[s].seq = claim[c].seq /\ slot[s].callis = c
    BY Zenon
  <2>1. complete_write_ok(c) \/ complete_write_err(c)
    BY ClaimSteps, Zenon
  <2> QED BY <2>1, WriteResultTouches, Zenon
<1> HIDE DEF A
<1>2. Spec => [][A]_vars
  BY <1>1, StoreInvariant, PTL DEF Spec
<1> QED BY <1>2 DEF A, StaleCompletionIgnored

\* A claim comes from the first lane that has an item waiting, and takes a replay
\* before anything else of its lane.
LEMMA ClaimIsFirst ==
  ASSUME IInv, NEW c \in Callis, claim_next(c)
  PROVE  LET s == claim'[c].at IN
         /\ \A l \in Lanes : lane_rank(l) < lane_rank(s[1]) => Dispatchable(l) = {}
         /\ slot[s].state = "Ready" => \A t \in Dispatchable(s[1]) : slot[t].state = "Ready"
<1>0. /\ claim \in [Callis -> Claims \cup {None}]
      /\ ready \in [Lanes -> Seq(Keys)] /\ replay \in [Lanes -> Seq(Keys)]
  BY DEF IInv, TypeOK
<1>1. PICK l \in ClaimLane :
        \/ \E n \in ReplayPos(l) : Take(c, l, replay[l][n])
        \/ ReplayPos(l) = {} /\ \E n \in ReadyPos(l) : Take(c, l, ready[l][n])
  BY ZenonT(20) DEF claim_next
<1>2. l \in Lanes
  BY DEF ClaimLane, ClaimLanes, ResponseLanes, Lanes
<1>3. PICK key : /\ claim'[c].at = <<l, key.index>>
                 /\ \/ slot[<<l, key.index>>].state = "ReplayReady"
                    \/ ReplayPos(l) = {}
  <2>1. ASSUME NEW key, Take(c, l, key) PROVE claim'[c].at = <<l, key.index>>
    <3>1. claim' = [claim EXCEPT ![c] = [at |-> <<l, key.index>>, seq |-> slot[<<l, key.index>>].seq,
                                         item |-> slot[<<l, key.index>>].item,
                                         deadline |-> slot[<<l, key.index>>].deadline]]
      BY <2>1 DEF Take
    <3> QED BY <1>0, <3>1
  <2>2. ASSUME NEW n \in ReplayPos(l) PROVE slot[<<l, replay[l][n].index>>].state = "ReplayReady"
    BY <2>2 DEF ReplayPos, FirstCurrent, Current
  <2> QED BY <1>1, <2>1, <2>2, Zenon
<1>4. claim'[c].at[1] = l
  BY <1>3
<1>5. ASSUME NEW k \in Lanes, lane_rank(k) < lane_rank(l), NEW t \in Dispatchable(k) PROVE FALSE
  <2>1. ReplayPos(k) = {} /\ ReadyPos(k) = {}
    BY <1>5, EarlierLanes
  <2>2. PICK i \in Index : t = <<k, i>>
    BY <1>5, SlotIdsFact DEF Dispatchable, SlotIds
  <2> QED BY <1>5, <2>1, <2>2, NoCurrentNoWaiting DEF Dispatchable
<1>6. ASSUME slot[claim'[c].at].state = "Ready", NEW t \in Dispatchable(l)
      PROVE  slot[t].state = "Ready"
  <2>1. ReplayPos(l) = {}
    BY <1>3, <1>6
  <2>2. PICK i \in Index : t = <<l, i>>
    BY <1>6, SlotIdsFact DEF Dispatchable, SlotIds
  <2> QED BY <1>2, <1>6, <2>1, <2>2, NoCurrentNoWaiting, ZenonT(30) DEF Dispatchable
<1> QED BY <1>4, <1>5, <1>6

\* Claims follow strict priority, however many stale keys the queues hold.
THEOREM PriorityStrict == Spec => StrictPriority
<1> DEFINE A == \A c \in Callis : claim[c] = None /\ claim'[c] # None =>
                  LET s == claim'[c].at IN
                  /\ \A l \in Lanes : lane_rank(l) < lane_rank(s[1]) => Dispatchable(l) = {}
                  /\ slot[s].state = "Ready" =>
                       \A t \in Dispatchable(s[1]) : slot[t].state = "Ready"
<1>1. IInv /\ [Next]_vars => [A]_vars
  <2>1. ASSUME IInv, [Next]_vars, NEW c \in Callis, claim[c] = None, claim'[c] # None
        PROVE  claim_next(c)
    BY <2>1, ClaimSteps, Zenon
  <2> QED BY <2>1, ClaimIsFirst, Zenon
<1> HIDE DEF A
<1>2. Spec => [][A]_vars
  BY <1>1, StoreInvariant, PTL DEF Spec
<1> QED BY <1>2 DEF A, StrictPriority

-----------------------------------------------------------------------------
(* The store implements SendPromise: an action that only relabels slots    *)
(* is a stuttering step, a removal resolves the waiters of the slots it    *)
(* vacates, an allocation issues a number.                                 *)

\* What the refinement mapping says about the message that is retained under id.
LEMMA WaitingFact ==
  ASSUME IInv, NEW id \in TrackedIds
  PROVE  /\ tracked[id] = None => Waiting[id] = 0
         /\ tracked[id] # None => /\ tracked[id] \in SlotIds
                                  /\ slot[tracked[id]].item = Tracked(id)
                                  /\ IsTracked(slot[tracked[id]].item)
                                  /\ Waiting[id] = slot[tracked[id]].seq
                                  /\ Waiting[id] # 0
<1>1. CASE tracked[id] = None
  BY <1>1 DEF Waiting
<1>2. CASE tracked[id] # None
  <2>1. tracked[id] \in SlotIds /\ slot[tracked[id]].item = Tracked(id)
    BY <1>2, LookupFact, Zenon DEF IInv, Occupancy
  <2>2. slot[tracked[id]].item # None /\ IsTracked(slot[tracked[id]].item)
    BY <2>1, ItemFact
  <2>3. slot[tracked[id]].seq \in 1..(nextSeq - 1) /\ nextSeq \in Nat
    BY <2>1, <2>2, ZenonT(30) DEF IInv, TypeOK, Occupancy, SeqsIdentifyItems
  <2> QED BY <1>2, <2>1, <2>2, <2>3 DEF Waiting
<1> QED BY <1>1, <1>2

\* A step that keeps the sequence number of every slot is invisible to senders.
LEMMA RelabelIsInvisible ==
  ASSUME IInv, \A s \in SlotIds : slot'[s].seq = slot[s].seq,
         UNCHANGED <<tracked, outcome, nextSeq, shutdown>>
  PROVE  UNCHANGED Promise!vars
<1>1. \A id \in TrackedIds : tracked[id] # None => tracked[id] \in SlotIds
  BY DEF IInv, TypeOK
<1>2. Waiting' = Waiting
  BY <1>1 DEF Waiting
<1> QED BY <1>2, ZenonT(30) DEF Promise!vars

\* The removal of the items of S resolves the senders of the messages in S, and
\* nobody else.
LEMMA RemovalResolves ==
  ASSUME IInv, NEW S \in SUBSET SlotIds, NEW result, remove_slots(S, result),
         nextSeq' = nextSeq,
         NEW ids \in SUBSET TrackedIds,
         \A id \in TrackedIds : id \in ids <=> tracked[id] \in S
  PROVE  ids \subseteq Promise!Waiting /\ Promise!Resolve(ids, result)
<1>0. TypeOK /\ IndexesMatchSlots /\ None \notin SlotIds
  BY ConstantsAssumption DEF IInv, Occupancy
<1>1. \A id \in ids : tracked[id] # None /\ tracked[id] \in S
  BY <1>0
<1>2. ids \subseteq Promise!Waiting
  BY <1>1, WaitingFact DEF Promise!Waiting
<1>3. ASSUME NEW id \in TrackedIds
      PROVE  id \in ids <=> \E s \in Occupied(S) : slot[s].item = Tracked(id)
  <2>1. ASSUME id \in ids PROVE \E s \in Occupied(S) : slot[s].item = Tracked(id)
    <3>1. tracked[id] \in S /\ slot[tracked[id]].item = Tracked(id) /\ slot[tracked[id]].item # None
      BY <1>1, <2>1, WaitingFact DEF IsTracked
    <3> QED BY <3>1 DEF Occupied
  <2>2. ASSUME NEW s \in Occupied(S), slot[s].item = Tracked(id) PROVE id \in ids
    <3>1. s \in S /\ IsTracked(slot[s].item) /\ slot[s].item.id = id
      BY <2>2, ItemFact, ZenonT(30) DEF Occupied
    <3>2. tracked[id] = s
      BY <1>0, <3>1 DEF IndexesMatchSlots
    <3> QED BY <3>1, <3>2
  <2> QED BY <2>1, <2>2
<1>4. ASSUME NEW q
      PROVE  (\E s \in Occupied(S) : IsTracked(slot[s].item) /\ slot[s].seq = q)
               <=> \E id \in ids : Waiting[id] = q
  <2>1. ASSUME NEW s \in Occupied(S), IsTracked(slot[s].item), slot[s].seq = q
        PROVE  \E id \in ids : Waiting[id] = q
    <3>1. s \in S /\ slot[s].item \in Items
      BY <1>0, <2>1, ItemFact, ZenonT(30) DEF Occupied, TypeOK
    <3>2. slot[s].item.id \in TrackedIds /\ tracked[slot[s].item.id] = s
      BY <1>0, <2>1, <3>1, ItemFact, ZenonT(30) DEF IndexesMatchSlots
    <3>3. slot[s].item.id \in ids /\ Waiting[slot[s].item.id] = q
      BY <1>0, <2>1, <3>1, <3>2, WaitingFact, ZenonT(30)
    <3> QED BY <3>3
  <2>2. ASSUME NEW id \in ids, Waiting[id] = q
        PROVE  \E s \in Occupied(S) : IsTracked(slot[s].item) /\ slot[s].seq = q
    <3>1. /\ tracked[id] \in S /\ IsTracked(slot[tracked[id]].item)
          /\ slot[tracked[id]].seq = q
      BY <1>1, <2>2, WaitingFact, SMTT(30)
    <3> QED BY <3>1 DEF Occupied, IsTracked
  <2> QED BY <2>1, <2>2
<1>5. outcome' = [q \in DOMAIN outcome |-> IF \E id \in ids : Waiting[id] = q THEN result ELSE outcome[q]]
  BY <1>4, ZenonT(30) DEF remove_slots
<1>6. ASSUME NEW id \in TrackedIds
      PROVE  Waiting'[id] = IF id \in ids THEN 0 ELSE Waiting[id]
  <2>1. tracked'[id] = IF id \in ids THEN None ELSE tracked[id]
    BY <1>3 DEF remove_slots
  <2>2. Waiting'[id] = IF tracked'[id] = None THEN 0 ELSE slot'[tracked'[id]].seq
    BY DEF Waiting
  <2>3. CASE id \notin ids /\ tracked[id] # None
    <3>1. tracked[id] \in SlotIds /\ tracked[id] \notin Occupied(S) /\ Waiting[id] = slot[tracked[id]].seq
      BY <2>3, WaitingFact, ZenonT(30) DEF Occupied
    <3>2. slot'[tracked[id]] = slot[tracked[id]]
      BY <1>0, <3>1, RemovalFact
    <3> QED BY <2>1, <2>2, <2>3, <3>1, <3>2, ZenonT(30)
  <2> QED BY <2>1, <2>2, <2>3, WaitingFact, ZenonT(30)
<1>7. Waiting' = [id \in TrackedIds |-> IF id \in ids THEN 0 ELSE Waiting[id]]
  BY <1>6 DEF Waiting
<1> QED BY <1>2, <1>5, <1>7 DEF Promise!Resolve

\* The ids whose messages are retained in the slots of S.
IdsIn(S) == {id \in TrackedIds : tracked[id] \in S}

\* A removal that resolves with Err is a failure of the senders it meets; one
\* that meets no tracked item is invisible.
LEMMA RemovalFails ==
  ASSUME IInv, NEW S \in SUBSET SlotIds, NEW result, remove_slots(S, result),
         UNCHANGED <<nextSeq, shutdown>>,
         result = "Err" \/ \A id \in TrackedIds : tracked[id] \notin S
  PROVE  [Promise!Next]_(Promise!vars)
<1>1. IdsIn(S) \in SUBSET TrackedIds /\ \A id \in TrackedIds : id \in IdsIn(S) <=> tracked[id] \in S
  BY DEF IdsIn
<1>2. IdsIn(S) \subseteq Promise!Waiting /\ Promise!Resolve(IdsIn(S), result)
  BY <1>1, RemovalResolves
<1>3. CASE result = "Err"
  <2>1. Promise!fail(IdsIn(S))
    BY <1>2, <1>3 DEF Promise!fail
  <2> QED BY <1>1, <2>1 DEF Promise!Next
<1>4. CASE \A id \in TrackedIds : tracked[id] \notin S
  <2>1. IdsIn(S) = {}
    BY <1>4 DEF IdsIn
  <2>2. Waiting' = Waiting
    BY <1>2, <2>1, ZenonT(30) DEF Promise!Resolve, Waiting
  <2>3. outcome' = outcome
    BY <1>2, <2>1, ZenonT(30) DEF Promise!Resolve, IInv, TypeOK
  <2> QED BY <2>2, <2>3 DEF Promise!vars
<1> QED BY <1>3, <1>4

\* Response slots hold no tracked item.
LEMMA ResponsesAreNotTracked ==
  ASSUME IInv, NEW s \in SlotIds, IsResponse(slot[s].item), NEW id \in TrackedIds
  PROVE  tracked[id] # s
BY WaitingFact, ItemFact, ConstantsAssumption DEF IInv, TypeOK, IsTracked, IsResponse

-----------------------------------------------------------------------------
(* One lemma per kind of action *)

\* Claims, failed writes and the sweep of a callis relabel slots.
LEMMA RelabellingActions ==
  ASSUME IInv, NEW c \in Callis,
         \/ claim_next(c) \/ claim_none(c) \/ complete_write_err(c)
         \/ mark_callis_replay_ready(c)
  PROVE  UNCHANGED Promise!vars
<1>0. slot \in [SlotIds -> [item : Items \cup {None}, deadline : Nat, seq : Nat,
                            state : States, callis : Callis \cup {None}]]
  BY SMTT(30) DEF IInv, TypeOK
<1>1. UNCHANGED <<tracked, outcome, nextSeq, shutdown>>
  BY ZenonT(30) DEF claim_next, claim_none, complete_write_err, mark_callis_replay_ready
<1>2. CASE claim_next(c)
  <2>1. \E l \in ClaimLane : \E key : Take(c, l, key)
    BY <1>2, ZenonT(20) DEF claim_next
  <2>2. ASSUME NEW l, NEW key, Take(c, l, key), NEW s \in SlotIds
        PROVE  slot'[s].seq = slot[s].seq
    <3>1. slot' = [slot EXCEPT ![<<l, key.index>>].state = "Writing",
                               ![<<l, key.index>>].callis = c]
      BY <2>2, ZenonT(30) DEF Take
    <3> QED BY <1>0, <3>1
  <2> QED BY <1>1, <2>1, <2>2, RelabelIsInvisible
<1>3. CASE claim_none(c)
  BY <1>1, <1>3, RelabelIsInvisible, ZenonT(30) DEF claim_none
<1>4. CASE complete_write_err(c)
  <2>1. \/ slot' = slot
        \/ slot' = [slot EXCEPT ![claim[c].at].state = "ReplayReady"]
        \/ slot' = [slot EXCEPT ![claim[c].at].state = "Ready", ![claim[c].at].callis = None]
    BY <1>4, Zenon DEF complete_write_err
  <2>2. \A s \in SlotIds : slot'[s].seq = slot[s].seq
    BY <1>0, <2>1, SMTT(30)
  <2> QED BY <1>1, <2>2, RelabelIsInvisible
<1>5. CASE mark_callis_replay_ready(c)
  <2>1. \A s \in SlotIds : slot'[s].seq = slot[s].seq
    BY <1>0, <1>5, ZenonT(30) DEF mark_callis_replay_ready
  <2> QED BY <1>1, <2>1, RelabelIsInvisible
<1> QED BY <1>2, <1>3, <1>4, <1>5, ZenonT(30)

\* A written response leaves the store unseen; a written message stays.
LEMMA CompleteWriteOkIsInvisible ==
  ASSUME IInv, NEW c \in Callis, complete_write_ok(c)
  PROVE  [Promise!Next]_(Promise!vars)
<1>0. slot \in [SlotIds -> [item : Items \cup {None}, deadline : Nat, seq : Nat,
                            state : States, callis : Callis \cup {None}]]
  BY DEF IInv, TypeOK
<1>1. claim[c] # None /\ claim[c].at \in SlotIds /\ nextSeq' = nextSeq /\ shutdown' = shutdown
  BY DEF complete_write_ok, IInv, TypeOK, Claims, storeVars
<1>2. CASE Owns(c) /\ IsResponse(claim[c].item) /\ remove_slots({claim[c].at}, "none")
  <2>1. IsResponse(slot[claim[c].at].item)
    BY <1>2 DEF Owns
  <2>2. \A id \in TrackedIds : tracked[id] \notin {claim[c].at}
    BY <1>1, <2>1, ResponsesAreNotTracked
  <2>3. {claim[c].at} \in SUBSET SlotIds
    BY <1>1
  <2> QED BY <1>1, <1>2, <2>2, <2>3, RemovalFails, ZenonT(30)
<1>3. CASE /\ slot' = [slot EXCEPT ![claim[c].at].state = "Inflight"]
           /\ UNCHANGED <<tracked, outcome>>
  <2>1. \A s \in SlotIds : slot'[s].seq = slot[s].seq
    BY <1>0, <1>3
  <2> QED BY <1>1, <1>3, <2>1, RelabelIsInvisible
<1>4. CASE UNCHANGED storeVars
  BY <1>1, <1>4, RelabelIsInvisible DEF storeVars
<1> QED BY <1>2, <1>3, <1>4 DEF complete_write_ok

\* An ACK answers the one sender it names.
LEMMA AckAnswersItsSender ==
  ASSUME IInv, NEW id \in TrackedIds, ack(id)
  PROVE  Promise!handle_ack(id)
<1>1. /\ tracked[id] # None /\ remove_slots({tracked[id]}, "Ok")
      /\ UNCHANGED <<nextSeq, shutdown>>
  BY DEF ack, vacate
<1>2. \A j \in TrackedIds : j \in {id} <=> tracked[j] \in {tracked[id]}
  <2>1. \A j \in TrackedIds : tracked[j] = tracked[id] => Tracked(j) = Tracked(id)
    BY <1>1, WaitingFact, ZenonT(30)
  <2> QED BY <2>1, ZenonT(30) DEF Tracked
<1>3. {tracked[id]} \in SUBSET SlotIds /\ {id} \in SUBSET TrackedIds
  BY <1>1, WaitingFact
<1>4. {id} \subseteq Promise!Waiting /\ Promise!Resolve({id}, "Ok")
  BY <1>1, <1>2, <1>3, RemovalResolves
<1> QED BY <1>1, <1>4 DEF Promise!handle_ack

\* The failures: one message, all of them, the expired ones, dropped responses.
LEMMA FailuresFail ==
  ASSUME IInv,
         \/ \E id \in TrackedIds : fail_one(id)
         \/ fail_all \/ fail_non_a1 \/ drop_responses \/ expire_due
  PROVE  [Promise!Next]_(Promise!vars)
<1>1. ASSUME NEW id \in TrackedIds, fail_one(id) PROVE [Promise!Next]_(Promise!vars)
  <2>1. {tracked[id]} \in SUBSET SlotIds
    BY <1>1, WaitingFact DEF fail_one
  <2> QED BY <1>1, <2>1, RemovalFails, ZenonT(30) DEF fail_one, vacate
<1>2. ASSUME fail_all PROVE [Promise!Next]_(Promise!vars)
  BY <1>2, LookupSlots, RemovalFails, ZenonT(30) DEF fail_all, vacate
<1>3. ASSUME fail_non_a1 PROVE [Promise!Next]_(Promise!vars)
  <2>1. {s \in TrackedSlots : s[1] \notin ResponseLanes} \in SUBSET SlotIds
    BY LookupSlots
  <2> QED BY <1>3, <2>1, RemovalFails DEF fail_non_a1, vacate
<1>4. ASSUME drop_responses PROVE [Promise!Next]_(Promise!vars)
  <2>1. ASSUME NEW id \in TrackedIds, tracked[id] \in ResponseSlots PROVE FALSE
    <3>1. PICK r \in ResponseIds : responses[r] = tracked[id] /\ responses[r] # None
      BY <2>1, ZenonT(30) DEF ResponseSlots
    <3>2. responses[r] \in SlotIds /\ IsResponse(slot[responses[r]].item)
      BY <3>1, ZenonT(30) DEF IInv, TypeOK, Occupancy, IndexesMatchSlots
    <3> QED BY <3>1, <3>2, ResponsesAreNotTracked
  <2> QED BY <1>4, <2>1, LookupSlots, RemovalFails, ZenonT(30) DEF drop_responses, vacate
<1>5. ASSUME expire_due PROVE [Promise!Next]_(Promise!vars)
  <2> DEFINE S == {k.at : k \in {j \in {h \in deadlines : h.deadline <= now} : Live(j)}}
  <2>1. S \in SUBSET SlotIds
    BY DEF IInv, TypeOK, DeadlineKeys
  <2>2. remove_slots(S, "Err") /\ UNCHANGED <<nextSeq, shutdown>>
    BY <1>5 DEF expire_due
  <2> HIDE DEF S
  <2> QED BY <2>1, <2>2, RemovalFails, ZenonT(30)
<1> QED BY <1>1, <1>2, <1>3, <1>4, <1>5, ZenonT(30)

\* Shutdown answers everybody who waits.
LEMMA ShutdownCloses ==
  ASSUME IInv, begin_shutdown
  PROVE  Promise!close
<1> DEFINE S == {s \in TrackedSlots : s[1] \notin ResponseLanes}
<1>1. /\ S \in SUBSET SlotIds /\ remove_slots(S, "Err")
      /\ ~shutdown /\ shutdown' = TRUE /\ nextSeq' = nextSeq
  BY LookupSlots, ZenonT(30) DEF begin_shutdown, vacate
<1>2. ASSUME NEW id \in TrackedIds PROVE id \in Promise!Waiting <=> tracked[id] \in S
  <2>1. tracked[id] \in S => tracked[id] # None
    BY <1>1, ConstantsAssumption
  <2>2. ASSUME tracked[id] # None PROVE tracked[id] \in S
    <3>1. tracked[id] \in SlotIds /\ IsTracked(slot[tracked[id]].item)
      BY <2>2, WaitingFact
    <3>2. tracked[id][1] \in TrackedLanes
      BY <3>1, TrackedLaneFact
    <3> QED BY <2>2, <3>2, ZenonT(30) DEF TrackedSlots, TrackedLanes, ResponseLanes
  <2> QED BY <2>1, <2>2, WaitingFact, ZenonT(30) DEF Promise!Waiting
<1>3. Promise!Waiting \in SUBSET TrackedIds
  BY DEF Promise!Waiting
<1> HIDE DEF S
<1>4. Promise!Resolve(Promise!Waiting, "Err")
  BY <1>1, <1>2, <1>3, RemovalResolves, ZenonT(30)
<1> QED BY <1>1, <1>4 DEF Promise!close

\* A free slot is nobody's, so an allocation moves no sender's number.
LEMMA AllocationKeepsOthers ==
  ASSUME IInv, NEW l \in Lanes, NEW i \in allocatable(l), NEW item, NEW d, NEW result,
         allocate(l, i, item, d, result), NEW id \in TrackedIds, tracked'[id] = tracked[id]
  PROVE  Waiting'[id] = Waiting[id]
<1>1. i \in Index /\ slot[<<l, i>>].item = None
  BY AllocatableFact, ZenonT(30) DEF IInv, Occupancy
<1>2. CASE tracked[id] # None
  <2>1. tracked[id] \in SlotIds /\ tracked[id] # <<l, i>>
    BY <1>1, <1>2, WaitingFact, ItemFact, SMTT(30)
  <2>2. slot'[tracked[id]] = slot[tracked[id]]
    BY <1>1, <2>1, AllocationFact, ZenonT(30) DEF IInv
  <2> QED BY <1>2, <2>2, ZenonT(30) DEF Waiting
<1>3. CASE tracked[id] = None
  BY <1>3 DEF Waiting
<1> QED BY <1>2, <1>3, ZenonT(30)

\* insert_tracked admits the message under the next number.
LEMMA InsertTrackedAdmits ==
  ASSUME IInv, NEW id \in TrackedIds, NEW d \in Nat, insert_tracked(id, d)
  PROVE  Promise!create_outgoing(id)
<1>1. ~shutdown /\ shutdown' = shutdown /\ tracked[id] = None
  BY DEF insert_tracked, contains_tracked
<1>2. tracked_lane(id) \in Lanes
  BY DEF tracked_lane, Lanes
<1>3. PICK i \in allocatable(tracked_lane(id)) :
          /\ allocate(tracked_lane(id), i, Tracked(id), d, "pending")
          /\ tracked' = [tracked EXCEPT ![id] = <<tracked_lane(id), i>>]
  BY ZenonT(20) DEF insert_tracked
<1>4. tracked \in [TrackedIds -> SlotIds \cup {None}] /\ i \in Index
  BY <1>2, <1>3, AllocatableFact, ZenonT(30) DEF IInv, TypeOK, Occupancy
<1>5. \A j \in TrackedIds : j # id => Waiting'[j] = Waiting[j]
  <2>1. \A j \in TrackedIds : j # id => tracked'[j] = tracked[j]
    BY <1>3, <1>4, ZenonT(30)
  <2> QED BY <1>2, <1>3, <2>1, AllocationKeepsOthers, ZenonT(30)
<1>6. Waiting'[id] = nextSeq
  <2>1. tracked'[id] = <<tracked_lane(id), i>> /\ <<tracked_lane(id), i>> \in SlotIds
    <3>1. tracked' = [tracked EXCEPT ![id] = <<tracked_lane(id), i>>]
      BY <1>3, Zenon
    <3> QED BY ONLY <1>2, <1>4, <3>1, id \in TrackedIds, SlotIdsFact, ZenonT(20)
  <2>2. slot'[<<tracked_lane(id), i>>]
          = [item |-> Tracked(id), deadline |-> d, seq |-> nextSeq, state |-> "Ready", callis |-> None]
    <3>1. TypeOK /\ allocate(tracked_lane(id), i, Tracked(id), d, "pending")
      BY <1>3, Zenon DEF IInv
    <3> QED BY ONLY <1>2, <1>4, <3>1, AllocationFact, SMTT(30)
  <2> QED BY <2>1, <2>2, ConstantsAssumption DEF Waiting
<1>7. Waiting' = [Waiting EXCEPT ![id] = nextSeq]
  BY <1>5, <1>6, ZenonT(30) DEF Waiting
<1>8. Waiting[id] = 0
  BY <1>1, ZenonT(30) DEF Waiting
<1>9. Promise!Issue("pending")
  BY <1>3 DEF allocate, next_seq, Promise!Issue
<1> QED BY <1>1, <1>7, <1>8, <1>9, ZenonT(30) DEF Promise!create_outgoing

\* insert_ack and insert_error use up a number nobody waits on.
LEMMA InsertResponseIssues ==
  ASSUME IInv, NEW kind, NEW l \in ResponseLanes, NEW id, NEW d, insert_response(kind, l, id, d)
  PROVE  Promise!send_response
<1>1. ~shutdown /\ UNCHANGED <<shutdown, tracked>>
  BY DEF insert_response
<1>2. l \in Lanes
  BY DEF ResponseLanes, Lanes
<1>3. ASSUME NEW i \in allocatable(l), allocate(l, i, [kind |-> kind, id |-> id], d, "none")
      PROVE  Promise!send_response
  <2>1. \A j \in TrackedIds : Waiting'[j] = Waiting[j]
    BY <1>1, <1>2, <1>3, AllocationKeepsOthers, ZenonT(30)
  <2>2. Waiting' = Waiting
    BY <2>1, ZenonT(30) DEF Waiting
  <2>3. Promise!Issue("none")
    BY <1>3, SMTT(30) DEF allocate, next_seq, Promise!Issue
  <2> QED BY <1>1, <2>2, <2>3, SMTT(30) DEF Promise!send_response
<1>4. ASSUME slot' = slot, nextSeq' = next_seq,
             outcome' = [q \in 1..nextSeq |-> IF q = nextSeq THEN "none" ELSE outcome[q]]
      PROVE  Promise!send_response
  BY <1>1, <1>4, ZenonT(30) DEF Waiting, next_seq, Promise!Issue, Promise!send_response
<1> QED BY <1>3, <1>4 DEF insert_response

-----------------------------------------------------------------------------

\* The empty store has no sender waiting.
LEMMA InitMapsToInit == Init => Promise!Init
<1> SUFFICES ASSUME Init PROVE Promise!Init
  OBVIOUS
<1>1. Waiting = [id \in TrackedIds |-> 0]
  BY DEF Init, Waiting
<1> QED BY <1>1 DEF Init, Promise!Init

\* Every step of the store is a step of the promise or invisible to senders.
LEMMA NextMapsToNext == IInv /\ [Next]_vars => [Promise!Next]_(Promise!vars)
<1> SUFFICES ASSUME IInv, [Next]_vars PROVE [Promise!Next]_(Promise!vars)
  OBVIOUS
<1>0. now \in Nat /\ SendTimeout \in Nat
  BY ConstantsAssumption DEF IInv, TypeOK
<1>1. ASSUME \/ \E q \in QueueSizes : set_capacities(q)
             \/ next_deadline \/ Tick \/ UNCHANGED vars
      PROVE  [Promise!Next]_(Promise!vars)
  <2>1. UNCHANGED <<slot, tracked, outcome, nextSeq, shutdown>>
    BY <1>1 DEF set_capacities, next_deadline, Tick, storeVars, vars
  <2> QED BY <2>1, RelabelIsInvisible, ZenonT(30)
<1>2. ASSUME NEW id \in ResponseIds, insert_ack(id) \/ insert_error(id)
      PROVE  [Promise!Next]_(Promise!vars)
  <2>1. Promise!send_response
    BY <1>2, InsertResponseIssues DEF insert_ack, insert_error, ResponseLanes
  <2> QED BY <2>1 DEF Promise!Next
<1>3. ASSUME NEW id \in TrackedIds, NEW d \in 0..(now + SendTimeout), insert_tracked(id, d)
      PROVE  [Promise!Next]_(Promise!vars)
  <2>1. d \in Nat
    BY <1>0
  <2>2. Promise!create_outgoing(id)
    BY <1>3, <2>1, InsertTrackedAdmits
  <2> QED BY <2>2 DEF Promise!Next
<1>4. ASSUME NEW c \in Callis, \/ claim_next(c) \/ claim_none(c) \/ complete_write_err(c)
                               \/ mark_callis_replay_ready(c)
      PROVE  [Promise!Next]_(Promise!vars)
  BY <1>4, RelabellingActions
<1>5. ASSUME NEW c \in Callis, complete_write_ok(c) PROVE [Promise!Next]_(Promise!vars)
  BY <1>5, CompleteWriteOkIsInvisible
<1>6. ASSUME NEW id \in TrackedIds, ack(id) PROVE [Promise!Next]_(Promise!vars)
  BY <1>6, AckAnswersItsSender DEF Promise!Next
<1>7. ASSUME \/ \E id \in TrackedIds : fail_one(id)
             \/ fail_all \/ fail_non_a1 \/ drop_responses \/ expire_due
      PROVE  [Promise!Next]_(Promise!vars)
  BY <1>7, FailuresFail
<1>8. ASSUME begin_shutdown PROVE [Promise!Next]_(Promise!vars)
  BY <1>8, ShutdownCloses DEF Promise!Next
<1>9. ASSUME NEW ids \in SUBSET TrackedIds, mark_tracked_replay_ready(ids)
      PROVE  [Promise!Next]_(Promise!vars)
  <2>1. UNCHANGED <<tracked, outcome, nextSeq, shutdown>>
    BY <1>9 DEF mark_tracked_replay_ready
  <2>2. \A s \in SlotIds : slot'[s].seq = slot[s].seq
    BY <1>9 DEF mark_tracked_replay_ready, IInv, TypeOK
  <2> QED BY <2>1, <2>2, RelabelIsInvisible
<1>10. ASSUME NEW c \in Callis, mark_callis_replay_ready(c) \/ Transmitter(c)
       PROVE  [Promise!Next]_(Promise!vars)
  BY <1>4, <1>5, <1>10 DEF Transmitter
<1>11. ASSUME DispatchManager PROVE [Promise!Next]_(Promise!vars)
  BY <1>1, <1>2, <1>3, <1>6, <1>7, <1>8, <1>9, <1>10, <1>11, ZenonT(30) DEF DispatchManager
<1> QED BY <1>1, <1>7, <1>10, <1>11 DEF Next

\* The store keeps the promise: for every number of slots, messages, callis and
\* every timing, what a sender observes is a behaviour of SendPromise.
THEOREM StoreKeepsPromise == Spec => SendersPromise
<1>1. Init => Promise!Init
  BY InitMapsToInit
<1>2. IInv /\ [Next]_vars => [Promise!Next]_(Promise!vars)
  BY NextMapsToNext
<1> QED BY <1>1, <1>2, StoreInvariant, PTL DEF Spec, SendersPromise, Promise!Spec
=============================================================================
