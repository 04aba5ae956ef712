---------------------------- MODULE MCLoadBooking ----------------------------
(***************************************************************************)
(* Instance of LoadBooking for TLC: two carriers with a bid each, two      *)
(* handlers.  The handlers are interchangeable, and so are the carriers    *)
(* together with their bids.                                               *)
(***************************************************************************)
EXTENDS LoadBooking, TLC

CONSTANTS c1, c2, b1, b2, h1, h2

MCCarriers == {c1, c2}
MCBids == {b1, b2}
MCBidOf == (b1 :> c1) @@ (b2 :> c2)
MCHandlers == {h1, h2}

Same == [x \in {c1, c2, b1, b2} |-> x]
Swapped == (c1 :> c2) @@ (c2 :> c1) @@ (b1 :> b2) @@ (b2 :> b1)
MCSymmetry == {p @@ q : p \in Permutations({h1, h2}), q \in {Same, Swapped}}
=============================================================================
