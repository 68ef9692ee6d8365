--------------------------- MODULE MCCampaignDialer -------------------------
(* Small instances of CampaignDialer for TLC. *)
EXTENDS CampaignDialer, TLC

CONSTANTS r1, r2

RowSymmetry == Permutations({r1, r2})
=============================================================================
