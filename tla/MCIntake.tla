------------------------------ MODULE MCIntake ------------------------------
(***************************************************************************)
(* A small Intake for TLC.  The queue: two events for this tenant, one of   *)
(* them without a number, and a user who may enter the other's.  The       *)
(* entries: one person, four contacts; two requests that overlap, two      *)
(* connections, one submission, files of at most two rows.                 *)
(***************************************************************************)
EXTENDS Intake, TLC

CONSTANTS e1, e2, w1, w2, p1, p2, r1, r2, c1, c2

OneWithout == (e1 :> Blank) @@ (e2 :> p1)
NoAddress == (e1 :> Blank) @@ (e2 :> Blank)
BothHere == (e1 :> "fmc") @@ (e2 :> "fmc")
EnteredHere == {<<"fmc", p1>>}

Symmetric == Permutations({w1, w2}) \cup Permutations({r1, r2}) \cup Permutations({c1, c2})
=============================================================================
