---------------------------- MODULE MCWithdrawal ----------------------------
(***************************************************************************)
(* Instance of Withdrawal for TLC: two handlers, two requests, amounts of  *)
(* one and two, a wallet that covers two.                                  *)
(***************************************************************************)
EXTENDS Withdrawal, TLC

CONSTANTS q1, q2, h1, h2

MCRequests == {q1, q2}
MCHandlers == {h1, h2}
MCAmounts == {1, 2}
MCSymmetry == {p @@ r : p \in Permutations({q1, q2}), r \in Permutations({h1, h2})}
=============================================================================
