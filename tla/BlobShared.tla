----------------------------- MODULE BlobShared -----------------------------
(***************************************************************************)
(* What the blob streams of a domus share: the BlobBufferTracker of the    *)
(* transport (transport/mod.rs), which counts the reservations of both     *)
(* directions over all peers, and what a stream sees of the peer: whether  *)
(* the pool holds a blob callis and whether the peer state task is gone.   *)
(***************************************************************************)
EXTENDS Integers, FiniteSets, Sequences

CONSTANTS
  Cap,       \* reservations that fit in blob_inbound_buffer_bytes, blob_outbound_buffer_bytes
  Workloads  \* bounds: how many receivers, sends and local deliveries a behaviour starts,
             \* how many readers admit one id at a time, whether the remote may start a
             \* fresh session, how often fail_all_streams runs and whether the peer state
             \* task may end

Sides == {"in", "out"}

ASSUME SharedAssumption ==
  /\ Cap \in [Sides -> Nat \ {0}]
  /\ Workloads \subseteq [receivers : Nat, readers : Nat, sends : Nat, locals : Nat,
                     fresh : BOOLEAN, sweeps : Nat, ends : BOOLEAN]

VARIABLES
  used,     \* outbound_used and inbound_used, in reservations
  pool,     \* whether BlobCallisPool.order is non-empty
  ended,    \* the peer state task is gone, its channel closed
  workload  \* the bounds of this behaviour

\* Every variable has its type, and neither cap is exceeded.
SharedTypeOK ==
  /\ \A side \in Sides : used[side] \in 0..Cap[side]
  /\ pool \in BOOLEAN /\ ended \in BOOLEAN /\ workload \in Workloads

SharedInit ==
  /\ used = [side \in Sides |-> 0]
  /\ pool = FALSE /\ ended = FALSE
  /\ workload \in Workloads

\* The compare-exchange loop: one more reservation, if it fits.
try_reserve_side(side) ==
  /\ used[side] < Cap[side]
  /\ used' = [used EXCEPT ![side] = @ + 1]

\* n reservations are given back; the counter saturates at zero.
release_side(side, n) ==
  used' = [used EXCEPT ![side] = IF @ < n THEN 0 ELSE @ - n]
=============================================================================
