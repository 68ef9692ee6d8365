----------------------------- MODULE LeadFiling -----------------------------
(***************************************************************************)
(* What a lead is filed under: its lenders, for an Admitverse lead its     *)
(* university applications, and to which lenders its file was shown.  The  *)
(* three share no state here, so a behaviour is one of one of them, chosen *)
(* at the start; the variables of the others stay at their start.  Of the  *)
(* shares either the bot is looked at, at one moment and without caches,   *)
(* or the caches of the list of lenders, without the bot.                  *)
(***************************************************************************)
EXTENDS LenderFiles

-----------------------------------------------------------------------------
(* The applications, with their constants and their variables.             *)

CONSTANTS Universities, Programs, NoProgram, Picked, MaxRows, MaxRequests

VARIABLES apps, shown, req, overtaken, clock, requests

appsState == <<apps, shown, req, overtaken, clock, requests>>

Apps == INSTANCE Applications

ASSUME AppsConstants == Apps!ConstantsAssumption

-----------------------------------------------------------------------------
(* The shares, with theirs.                                                *)

CONSTANTS Default, Nobody, Times, MessageIds, NoId, About, Requests, Processes, TTL, MaxTime,
          MaxWrites, MaxLoads

VARIABLES file, lines, listed, known, loading, request, time, stored, changed, writes, loads

sharesState ==
    <<file, lines, listed, known, loading, request, time, stored, changed, writes, loads>>

Shares == INSTANCE BankShares WITH Names <- Lenders, now <- time

ASSUME SharesConstants == Shares!ConstantsAssumption

-----------------------------------------------------------------------------
VARIABLE which

FilingInit ==
    /\ which \in {"grid", "applications", "threads", "lists"}
    /\ Init /\ Apps!Init /\ Shares!Init
    /\ which \in {"grid", "applications"} => \A n \in Lenders : listed[n] = "active"

FilingNext ==
    /\ UNCHANGED which
    /\ \/ which = "grid" /\ Next /\ UNCHANGED <<appsState, sharesState>>
       \/ which = "applications" /\ Apps!Next /\ UNCHANGED <<vars, sharesState>>
       \/ which = "threads" /\ UNCHANGED <<time, loads, vars, appsState>> /\ Shares!Next
       \/ which = "lists" /\ UNCHANGED <<request, vars, appsState>> /\ Shares!Next

FilingVars == <<which, vars, appsState, sharesState>>

FilingSpec == FilingInit /\ [][FilingNext]_FilingVars

\* LenderFiles!PrimaryIsBest and its like for applications: the lead shows its furthest
\* lender and its furthest application, and has an application twice only as twins that
\* name no program.
FilesShown ==
    /\ PrimaryIsBest
    /\ Apps!TypeOK /\ Apps!LeadShowsFurthest /\ Apps!TwinsAreNameless

OfShares == which \in {"threads", "lists"}

\* BankShares!ThreadsRight: one line for a message, in the conversation it is about.
ConversationsRight == OfShares => Shares!TypeOK /\ Shares!ThreadsRight

\* BankShares!ListIsCurrent: a process is wrong about a lender for a minute at most.
ListsCurrent == OfShares => Shares!ListIsCurrent
=============================================================================
