--------------------------- MODULE MCLenderFiles ---------------------------
(***************************************************************************)
(* A small LeadFiling for TLC: a lead with two lenders and two users at    *)
(* its grid; an Admitverse lead with three applications at two             *)
(* universities, a program or none, two statuses of which the second is an *)
(* offer.  The reports read what is filed and have their constants here.   *)
(***************************************************************************)
EXTENDS RevenueReports, LeadFiling, TLC

CONSTANTS u1, u2, l1, axis, pnb, leeds, york, msc, m1, q1, q2, p1, p2

TwoRates == axis :> 2 @@ pnb :> 1
NoSource == l1 :> Unattributed
AboutAxis == m1 :> <<l1, axis>>
ThisMonth == l1 :> 1

Symmetric == Permutations({u1, u2})
=============================================================================
