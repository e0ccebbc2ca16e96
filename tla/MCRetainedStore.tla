-------------------------- MODULE MCRetainedStore --------------------------
(***************************************************************************)
(* RetainedStore for TLC: a completion-bearing message m3 and a response   *)
(* r1 to a message of the remote, two admissions altogether, compete for   *)
(* the transmitters of two callis while the lanes grow from one slot to    *)
(* two and shrink back.                                                    *)
(***************************************************************************)
EXTENDS RetainedStorePromise

CONSTANTS m3, c1, c2, r1

MCTier == [id \in TrackedIds |-> "A3"]
=============================================================================
