------------------------- MODULE MCCommissionLedger -------------------------
(* Small instances of CommissionLedger for TLC.                            *)
EXTENDS CommissionLedger, TLC

CONSTANTS u1, u2

UserSymmetry == Permutations({u1, u2})

\* With a tax of a half: 2 paise on 1 + 3, of which neither release's share is whole.
TwoReleases == <<1, 3>>

\* All of it in money, and half of it withheld as TDS.
PaidAndWithheld == {<<5, 0>>, <<3, 3>>}

\* What was received, with a new tax and commission.
SomeEdits == {[received |-> 1, gst |-> 2, commission |-> 2]}
=============================================================================
