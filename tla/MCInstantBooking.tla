--------------------------- MODULE MCInstantBooking ---------------------------
(***************************************************************************)
(* Instance of InstantBooking for TLC: two carriers, two requests at a     *)
(* time and one run of the job.                                            *)
(***************************************************************************)
EXTENDS InstantBooking

CONSTANTS c1, c2, r1, r2, s1

MCCarriers == {c1, c2}
MCRequests == {r1, r2}
MCSweepers == {s1}
=============================================================================
