------------------------------- MODULE MCOutbox -------------------------------
(***************************************************************************)
(* Instance of Outbox for TLC: two overlapping runs of processPending and  *)
(* one of retryFailed over two events.                                     *)
(***************************************************************************)
EXTENDS Outbox

CONSTANTS w1, w2, r1

MCWorkers == {w1, w2}
MCRetriers == {r1}
=============================================================================
