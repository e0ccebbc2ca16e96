------------------------ MODULE RetainedStorePromise ------------------------
(***************************************************************************)
(* RetainedStore implements SendPromise: lanes, slot reuse, claims of      *)
(* several transmitters, replay marking and expiry are invisible to a      *)
(* sender, who sees one result.                                            *)
(***************************************************************************)
EXTENDS RetainedStore

\* The number a sender of id waits on is the sequence number of the slot that
\* tracked points at.
Waiting == [id \in TrackedIds |-> IF tracked[id] = None THEN 0 ELSE slot[tracked[id]].seq]

Promise == INSTANCE SendPromise
             WITH waiting <- Waiting, result <- outcome, issued <- nextSeq, closed <- shutdown

\* Every behaviour of the store is one the senders were promised: a result is
\* given once and never changes, Ok only by an ACK that names the message, an id
\* is admitted once at a time, and shutdown answers every waiter.
SendersPromise == Promise!Spec
=============================================================================
