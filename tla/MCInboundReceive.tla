-------------------------- MODULE MCInboundReceive --------------------------
(***************************************************************************)
(* InboundReceive for TLC: two callis and one message id; deliveries of    *)
(* other ids reach the history through other_delivered.                    *)
(***************************************************************************)
EXTENDS InboundReceive

CONSTANTS a, c1, c2
=============================================================================
