--------------------------- MODULE MCBlobStreams ---------------------------
(***************************************************************************)
(* BlobStreams for TLC: a blob request that may arrive on two callis, two  *)
(* sends and a local delivery, in the combinations of MCWorkloads.         *)
(***************************************************************************)
EXTENDS BlobStreams, TLC

CONSTANTS a, c1, c2

Load(r, n, s, l, f, w, e) ==
  [receivers |-> r, readers |-> n, sends |-> s, locals |-> l, fresh |-> f, sweeps |-> w, ends |-> e]
MCWorkloads == {Load(2, 2, 0, 0, TRUE, 0, FALSE),   \* two requests, at a time or in turn
                Load(2, 1, 0, 0, FALSE, 1, FALSE),  \* two requests in turn, and a sweep
                Load(1, 1, 0, 1, TRUE, 1, TRUE),    \* a fresh session and its sweep
                Load(0, 0, 2, 1, FALSE, 1, TRUE)}   \* sends and a local delivery
MCCap == [side \in {"in", "out"} |-> 2]
Symmetry == Permutations({c1, c2})
=============================================================================
