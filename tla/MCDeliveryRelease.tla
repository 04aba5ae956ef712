-------------------------- MODULE MCDeliveryRelease --------------------------
(***************************************************************************)
(* Instance of QrScan, and of the DeliveryRelease it extends, for TLC: one *)
(* escrow, two handlers and at most one code.                               *)
(***************************************************************************)
EXTENDS QrScan, TLC

CONSTANTS e1, h1, h2, q1

MCEscrows == {e1}
MCPrice == [e \in {e1} |-> 3]
MCCommission == [e \in {e1} |-> 1]
MCSingle == [e \in {e1} |-> << >>]
MCHandlers == {h1, h2}
MCSymmetry == Permutations(MCHandlers)
MCCodes == {q1}
MCNoCodes == {}
=============================================================================
