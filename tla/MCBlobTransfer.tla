---------------------------- MODULE MCBlobTransfer ----------------------------
(* BlobTransfer for TLC. *)
EXTENDS BlobTransfer, TLC

CONSTANTS k1, k2

\* Callis ids are stamped and compared for equality, never ordered.
Symmetry == Permutations(Callis)

Load(bytes, ids, together, losses, faults) ==
    [bytes |-> bytes, ids |-> ids, together |-> together, losses |-> losses, faults |-> faults]

\* Four chunks over callis that follow one another.
Successive == Load(4, 5, FALSE, 1, {})

\* Two chunks over two callis at once; one or both are lost.
Parallel == {Load(2, 3, TRUE, 1, {}), Load(1, 3, TRUE, 2, {})}

\* Three chunks over one callis, with everything else that may go wrong.
Impatient == Load(3, 3, FALSE, 0, Faults)

MCWorkloads == Parallel \cup {Successive, Impatient}
QuietWorkloads == {Load(2, 3, TRUE, 0, {})}
ImpatientWorkloads == {Impatient}
=============================================================================
