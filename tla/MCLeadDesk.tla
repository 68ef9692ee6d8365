---------------------------- MODULE MCLeadDesk ----------------------------
(* A lead with two requests in flight, for TLC.                            *)
EXTENDS LeadDesk, TLC

CONSTANTS r1, r2

RequestSymmetry == Permutations({r1, r2})
=============================================================================
