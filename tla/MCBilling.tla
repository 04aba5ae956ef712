------------------------------ MODULE MCBilling ------------------------------
(***************************************************************************)
(* Instance of Billing for TLC: two requests at a time beside two replicas *)
(* of the renewal job; two failures lead to the grace period.              *)
(***************************************************************************)
EXTENDS Billing, TLC

CONSTANTS h1, h2, k1, k2

MCHandlers == {h1, h2}
MCCrons == {k1, k2}
MCSymmetry == {p @@ q : p \in Permutations({h1, h2}), q \in Permutations({k1, k2})}
=============================================================================
