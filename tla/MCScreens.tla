------------------------------ MODULE MCScreens ------------------------------
(***************************************************************************)
(* Small Screens for TLC.                                                  *)
(***************************************************************************)
EXTENDS Screens, TLC

CONSTANTS u1, c1, p1, p2, l1, l2, axis, unicred, meta

-----------------------------------------------------------------------------
(* Boards: two leads of one import, a counsellor, a campaign.              *)

OneImport == 1 :> 1 @@ 2 :> 1
OneAmount == 1 :> 5 @@ 2 :> 0
OneSourceEach == 1 :> "meta" @@ 2 :> "none"
EarlyLate == 1 :> 0 @@ 2 :> 1

All(u) == [user |-> u, board |-> "both", segment |-> "all", among |-> {1, 2}, campaigns |-> {},
           sort |-> "created_desc", limit |-> 1]
AiBoard == [All(Admin) EXCEPT !.board = "ai", !.limit = 2]

TheAsked ==
    {All(Admin), AiBoard, [All(u1) EXCEPT !.segment = "normal", !.sort = "loan_desc"],
     [All(Admin) EXCEPT !.campaigns = {c1}, !.sort = "loan_asc", !.among = {2}]}
TheKept == {AiBoard}

\* One well-formed, one whose ranges overlap.
TheDeals ==
    {<<[from |-> 1, to |-> 1, agent |-> u1], [from |-> 2, to |-> 2, agent |-> Admin]>>,
     <<[from |-> 1, to |-> 2, agent |-> u1], [from |-> 2, to |-> 2, agent |-> Admin]>>}

-----------------------------------------------------------------------------
(* The book: two leads, two lenders of which the second fronts others and  *)
(* has no rate, and two tranches of the tracker: one on that lender, its   *)
(* date recovered, and one without a date, paid in part.  What is earned   *)
(* and what it is approved for come to half paise.                         *)

Recovered ==
    [file |-> <<l2, unicred>>, no |-> 1, amount |-> 60, day |-> 10, guessed |-> TRUE,
     rate |-> 3, earns |-> TRUE, commission |-> 23, gst |-> 0, received |-> Null,
     paidOn |-> 0, writtenOff |-> FALSE, billed |-> FALSE, automatic |-> FALSE]
Undated ==
    [Recovered EXCEPT !.file = <<l1, axis>>, !.day = 0, !.guessed = FALSE, !.received = 1]
TheTracker == {Recovered, Undated}

AxisAlone == axis :> 3 @@ unicred :> Null
OneFromMeta == l1 :> meta @@ l2 :> Unattributed
OneExpected == l1 :> 1 @@ l2 :> Null

TheFilters ==
    {Everything,
     [Everything EXCEPT !.lenders = {axis}, !.sources = {meta}, !.from = 50, !.to = 100]}
TheWatched == {Everything}

-----------------------------------------------------------------------------
Symmetric == Permutations({p1, p2})
=============================================================================
