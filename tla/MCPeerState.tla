----------------------------- MODULE MCPeerState -----------------------------
(* PeerState for TLC: few callis, in the combinations of MCWorkloads. *)
EXTENDS PeerState

CONSTANTS p1, p2, b1

Load(ids, retains, disconnects) ==
    [ids |-> ids, retains |-> retains, disconnects |-> disconnects]

\* Two primary callis under a sender; one that is disconnected; a primary and a
\* blob callis, both disconnected.
MCWorkloads ==
    {Load({p1, p2}, TRUE, FALSE), Load({p1}, TRUE, TRUE), Load({p1, b1}, FALSE, TRUE)}

\* Only primary callis.
PrimaryWorkloads == {Load({p1, p2}, TRUE, FALSE)}
=============================================================================
