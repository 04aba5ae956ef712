--------------------------- MODULE MCEscrowService ---------------------------
(***************************************************************************)
(* Instance of EscrowService for TLC: an escrow with two milestones and a  *)
(* single payment, drawn on one deposit, and two handlers.                 *)
(***************************************************************************)
EXTENDS EscrowService

CONSTANTS e1, e2, h1, h2

MCEscrows == {e1, e2}
MCPrice == [e \in {e1, e2} |-> IF e = e1 THEN 3 ELSE 2]
MCShares == [e \in {e1, e2} |-> IF e = e1 THEN <<1, 1>> ELSE << >>]
MCHandlers == {h1, h2}
=============================================================================
