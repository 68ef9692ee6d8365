------------------------------- MODULE Screens -------------------------------
(***************************************************************************)
(* The screens side by side: the reports on the commission book, with the  *)
(* dashboard's answers, and the boards and reports on leads.  They share   *)
(* no state here but the processes that serve them, so a behaviour         *)
(* is one of one of them, chosen at the start; the variables of the other  *)
(* stay at their start.                                                    *)
(***************************************************************************)
EXTENDS DashboardCache

-----------------------------------------------------------------------------
(* The boards, with their constants and their variables.                   *)

CONSTANTS Ids, Born, Counsellors, Admin, Unassigned, BoardStages, ShortStages, WonStage,
          Stamped, NoAnswer, Campaigns, Amount, LeadSource, DueDate, Limits, Asked, Kept,
          Deals, Orders, DealStages, BoardTTL, DayLength, MaxTick, MaxEdits, MaxCached, MaxOpen

VARIABLES row, callback, moves, remarks, now, cache, load, deal, left, edits

boardsState == <<row, callback, moves, remarks, now, cache, load, deal, left, edits>>

Boards == INSTANCE LeadBoards WITH
    Nobody <- Unassigned, Processes <- Servers, Source <- LeadSource, TTL <- BoardTTL,
    MaxTime <- MaxTick, MaxWrites <- MaxEdits, writes <- edits

ASSUME BoardsConstants == Boards!BoardsAssumption

-----------------------------------------------------------------------------
VARIABLE screen

ScreensInit ==
    /\ screen \in {"boards", "book"}
    /\ DashboardInit /\ Boards!Init
    /\ screen = "book" => \A i \in Ids : row[i].ai

ScreensNext ==
    /\ UNCHANGED screen
    /\ \/ screen = "boards" /\ Boards!Next /\ UNCHANGED <<vars, dashboardState>>
       \/ screen = "book" /\ DashboardNext /\ UNCHANGED boardsState

ScreensVars == <<screen, vars, dashboardState, boardsState>>

ScreensSpec == ScreensInit /\ [][ScreensNext]_ScreensVars

-----------------------------------------------------------------------------
(* The properties, each of the part it is about.                           *)

\* Boards and reports are about the rows, which a request that only reads leaves alone:
\* rows that are met with one under way are met without, and are looked at there.
Quiet == load = Boards!Idle /\ deal = Boards!Idle /\ cache = Boards!Empty

\* LeadBoards!BoardIsWhole: the pages of a column are the list, each lead once.
BoardsWhole == screen = "boards" /\ Quiet => Boards!BoardIsWhole

\* LeadBoards!ReportsAgree: the reports on leads and the boards tell one story.
LeadReportsAgree == screen = "boards" /\ Quiet => Boards!ReportsAgree

\* LeadBoards!LeavesItsBoard: a cached board does not show a lead that was moved off it.
CacheFollowsMoves == Boards!LeavesItsBoard

\* LeadBoards!FreeOnesOnly: a distribution of the unassigned takes no lead from anybody
\* who had it when it began.
DealsFreeOnesOnly == Boards!FreeOnesOnly

\* DashboardCache!AnswersAgree and RevenueReports!SummaryAgrees: no two screens show two
\* figures for one thing, the dashboard's kept answers included from a minute after the
\* last change.
OneFigure ==
    screen = "book" => /\ \A f \in ToLookAt : AnswersAgree(f)
                       /\ ToLookAt # {} => SummaryAgrees

\* DashboardCache!AnswersHaveRows: the rows behind a figure come to that figure, likewise.
RowsBehindFigures == screen = "book" => \A f \in ToLookAt : AnswersHaveRows(f)
=============================================================================
