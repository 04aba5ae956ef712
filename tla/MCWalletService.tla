--------------------------- MODULE MCWalletService ---------------------------
(***************************************************************************)
(* Instance of WalletService for TLC: one wallet, so that every handler    *)
(* contends for it, and requests that cover the six operations, a key      *)
(* shared by two requests and a request without a key.                     *)
(***************************************************************************)
EXTENDS WalletService

CONSTANTS u1, k1, k2, k3, h1, h2

Ask(op, amount, key) == [op |-> op, user |-> u1, amount |-> amount, key |-> key]

MCRequests ==
  { Ask("credit", 2, k1), Ask("debit", 1, k2), Ask("lock", 2, NoKey),
    Ask("release", 1, k3), Ask("confirm", 1, k2), Ask("commission", 1, NoKey) }

MCUsers == {u1}
MCKeys == {k1, k2, k3}
MCHandlers == {h1, h2}
=============================================================================
