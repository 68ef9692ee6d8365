--------------------------- MODULE CampaignDialer ---------------------------
(***************************************************************************)
(* The AI auto-dialer: one campaign, its campaign_leads rows, the worker   *)
(* that dials them (workers/campaign_worker.py), the requests that change  *)
(* the campaign (services/campaign_service.py) and the reports with which  *)
(* the voice endpoints tell the worker that a call ended.                  *)
(*                                                                         *)
(* The worker is one coroutine (max_instances = 1 and the _running flag),  *)
(* so its cycle is a program counter; every other actor may run at each of *)
(* its awaits.  What the worker read before an await and uses after it is  *)
(* kept in variables of its own: limit, allowed, stuck, batch.             *)
(*                                                                         *)
(* How the webhooks of one call turn into reports is CallTeardown's        *)
(* subject; here a report is any verdict about a call that was placed.     *)
(***************************************************************************)
EXTENDS Integers, FiniteSets, Functions

CONSTANTS
    Rows,           \* the leads that may be enrolled: one campaign_leads row each
    NoRow,          \* not one of them
    SlotLimits,     \* the values campaign.max_concurrent_calls may be given
    RetryLimits,    \* the values campaign.max_retries may be given
    Ceiling,        \* the largest of them
    CallCap,        \* settings.max_concurrent_calls of the voice engine
    Boards,         \* where leads are before they are enrolled
    MaxReports,     \* bound: reports produced per call
    MaxInFlight,    \* bound: reports and their handlers under way at once
    MaxOther,       \* bound: entries of the manager held by other calls
    MaxMoves,       \* bound: board moves and deletions of leads
    MaxCrashes,     \* bound: restarts of the process
    MaxFaults       \* bound: exceptions inside a dispatch

\* Leads that are not deleted: on a board, or without a phone number.
Alive == {"ai", "normal", "phoneless"}

ASSUME ConstantsAssumption ==
    /\ IsFiniteSet(Rows) /\ NoRow \notin Rows
    /\ SlotLimits \subseteq Nat /\ SlotLimits # {}
    /\ Ceiling \in Nat /\ Ceiling >= 1
    /\ RetryLimits \subseteq 1..Ceiling /\ RetryLimits # {}
    /\ Boards \subseteq Alive /\ Boards # {}
    /\ CallCap \in Nat /\ MaxOther \in Nat /\ MaxReports \in Nat /\ MaxInFlight \in Nat
    /\ MaxMoves \in Nat /\ MaxCrashes \in Nat /\ MaxFaults \in Nat

Calls == Rows \X (1..Ceiling)   \* a call is its row and the attempt's number
NoCall == 0

CampaignStatus == {"draft", "active", "paused", "completed", "stopped"}
RowStatus == {"none", "pending", "calling", "completed", "failed"}

VARIABLES
    campaign,    \* campaigns.status
    maxRetries,  \* campaigns.max_retries
    concurrent,  \* campaigns.max_concurrent_calls
    clStatus,    \* campaign_leads.status; "none": not enrolled
    attempts,    \* campaign_leads.attempt_count
    lastCall,    \* attempt number of campaign_leads.last_call_id, or NoCall
    nextRetry,   \* campaign_leads.next_retry_at: NULL, in a minute, in hours, past
    lead,        \* leads.pipeline; or "phoneless"; or "deleted"
    line,        \* the carrier's side of each call: "none", "live", "over"
    states,      \* calls that have an entry in the CallStateManager
    overdue,     \* calls dispatched more than five minutes ago
    otherCalls,  \* CallStateManager entries of calls placed outside campaigns
    reports,     \* background tasks about to call handle_call_completed
    handling,    \* handle_call_completed coroutines between read and commit
    told,        \* reports produced so far, per call
    pc,          \* where the worker's cycle is
    limit,       \* the worker's copy of max_retries
    allowed,     \* the worker's copy of max_concurrent_calls
    stuck,       \* rows the sweep read as stuck
    batch,       \* status each selected row had when selected, "out" otherwise
    dialing,     \* the row being dispatched, or NoRow
    callsMade,   \* campaigns.calls_made
    moves, crashes, faults                      \* bound counters

rowVars == <<clStatus, attempts, lastCall, nextRetry>>
callVars == <<line, states, overdue, otherCalls>>
reportVars == <<reports, handling, told>>
campaignVars == <<maxRetries, concurrent>>
workerVars == <<pc, limit, allowed, stuck, batch, dialing>>
boundVars == <<moves, crashes, faults>>
vars == <<campaign, campaignVars, rowVars, lead, callVars, reportVars,
          workerVars, callsMade, boundVars>>

Report == [call : Calls, ok : BOOLEAN]
Handling == [call : Calls, ok : BOOLEAN, seen : RowStatus]

TypeOK ==
    /\ campaign \in CampaignStatus
    /\ maxRetries \in RetryLimits /\ concurrent \in SlotLimits
    /\ clStatus \in [Rows -> RowStatus]
    /\ attempts \in [Rows -> 0..Ceiling]
    /\ lastCall \in [Rows -> 0..Ceiling]
    /\ nextRetry \in [Rows -> {"null", "soon", "gap", "due"}]
    /\ lead \in [Rows -> Alive \cup {"deleted"}]
    /\ line \in [Calls -> {"none", "live", "over"}]
    /\ states \subseteq Calls
    /\ overdue \subseteq Calls
    /\ otherCalls \in 0..MaxOther
    /\ reports \subseteq Report
    /\ handling \subseteq Handling
    /\ told \in [Calls -> 0..MaxReports]
    /\ pc \in {"idle", "sweep", "select", "dispatch", "dial"}
    /\ limit \in RetryLimits /\ allowed \in SlotLimits
    /\ stuck \subseteq Rows
    /\ batch \in [Rows -> {"out", "pending", "failed"}]
    /\ dialing \in Rows \cup {NoRow}
    /\ callsMade \in Nat
    /\ moves \in 0..MaxMoves /\ crashes \in 0..MaxCrashes /\ faults \in 0..MaxFaults

Calling == {r \in Rows : clStatus[r] = "calling"}
InBatch == {r \in Rows : batch[r] # "out"}
NoBatch == [r \in Rows |-> "out"]

\* A campaign is created as a draft; its leads come from both boards, and some have no phone.
Init ==
    /\ campaign = "draft"
    /\ maxRetries \in RetryLimits /\ concurrent \in SlotLimits
    /\ clStatus = [r \in Rows |-> "none"]
    /\ attempts = [r \in Rows |-> 0]
    /\ lastCall = [r \in Rows |-> NoCall]
    /\ nextRetry = [r \in Rows |-> "null"]
    /\ lead \in [Rows -> Boards]
    /\ line = [c \in Calls |-> "none"]
    /\ states = {} /\ overdue = {} /\ otherCalls = 0
    /\ reports = {} /\ handling = {} /\ told = [c \in Calls |-> 0]
    /\ pc = "idle" /\ limit = maxRetries /\ allowed = concurrent /\ stuck = {}
    /\ batch = NoBatch /\ dialing = NoRow
    /\ callsMade = 0
    /\ moves = 0 /\ crashes = 0 /\ faults = 0

-----------------------------------------------------------------------------
(* Requests on the campaign.                                               *)

HasPhone(r) == lead[r] \in {"ai", "normal"}

\* POST /campaigns/{id}/assign-leads: enrols the lead, which may have no phone, and
\* puts it on the AI board.
AssignLead(r) ==
    /\ clStatus[r] = "none" /\ lead[r] # "deleted"
    /\ clStatus' = [clStatus EXCEPT ![r] = "pending"]
    /\ lead' = [lead EXCEPT ![r] = IF HasPhone(r) THEN "ai" ELSE @]
    /\ UNCHANGED <<campaign, campaignVars, attempts, lastCall, nextRetry, callVars,
                   reportVars, workerVars, callsMade, boundVars>>

\* Filter-driven enrolment: skips leads without a phone, and leaves the board alone.
AssignLeadBulk(r) ==
    /\ clStatus[r] = "none" /\ HasPhone(r)
    /\ clStatus' = [clStatus EXCEPT ![r] = "pending"]
    /\ UNCHANGED <<campaign, campaignVars, attempts, lastCall, nextRetry, lead, callVars,
                   reportVars, workerVars, callsMade, boundVars>>

Dialable(r) == clStatus[r] \in {"pending", "failed"} /\ HasPhone(r)

StartCampaign ==
    /\ campaign \in {"draft", "paused"}
    /\ \E r \in Rows : Dialable(r)
    /\ campaign' = "active"
    /\ UNCHANGED <<campaignVars, rowVars, lead, callVars, reportVars, workerVars,
                   callsMade, boundVars>>

PauseCampaign ==
    /\ campaign = "active"
    /\ campaign' = "paused"
    /\ UNCHANGED <<campaignVars, rowVars, lead, callVars, reportVars, workerVars,
                   callsMade, boundVars>>

StopCampaign ==
    /\ campaign' = "stopped"
    /\ UNCHANGED <<campaignVars, rowVars, lead, callVars, reportVars, workerVars,
                   callsMade, boundVars>>

\* PATCH of an inactive campaign; rows may be calling all the same.
UpdateCampaign ==
    /\ campaign # "active"
    /\ maxRetries' \in RetryLimits /\ concurrent' \in SlotLimits
    /\ UNCHANGED <<campaign, rowVars, lead, callVars, reportVars, workerVars,
                   callsMade, boundVars>>

-----------------------------------------------------------------------------
(* The worker's cycle.                                                     *)

\* Variants, for mutation testing: any calling row; only rows whose call is tracked.
OverdueAtAnyAge(r) == lastCall[r] # NoCall

\* The row's last call was dispatched more than five minutes ago.
Overdue(r) == lastCall[r] # NoCall /\ <<r, lastCall[r]>> \in overdue

\* The cycle reads the active campaign, checks the hours and reads the rows
\* that have been calling for more than five minutes.
BeginCycle ==
    /\ pc = "idle" /\ campaign = "active"
    /\ pc' = "sweep"
    /\ limit' = maxRetries /\ allowed' = concurrent
    /\ stuck' = {r \in Calling : Overdue(r)}
    /\ UNCHANGED <<campaign, campaignVars, rowVars, lead, callVars, reportVars,
                   batch, dialing, callsMade, boundVars>>

\* Their recovery: failed, and a retry in a minute while attempts are left.
RecoverStuck ==
    /\ pc = "sweep"
    /\ clStatus' = [r \in Rows |-> IF r \in stuck THEN "failed" ELSE clStatus[r]]
    /\ nextRetry' = [r \in Rows |-> IF r \in stuck /\ attempts[r] < limit
                                    THEN "soon" ELSE nextRetry[r]]
    /\ pc' = "select" /\ stuck' = {}
    /\ UNCHANGED <<campaign, campaignVars, attempts, lastCall, lead, callVars, reportVars,
                   limit, allowed, batch, dialing, callsMade, boundVars>>

\* Variant: the in-memory count that the count in the database replaced.
SlotsByState == allowed - Cardinality(states)

Slots == allowed - Cardinality(Calling)

Eligible(r) ==
    /\ lead[r] = "ai"
    /\ \/ clStatus[r] = "pending"
       \/ /\ clStatus[r] = "failed"
          /\ attempts[r] < limit
          /\ nextRetry[r] \in {"null", "due"}

NoSlots ==
    /\ pc = "select" /\ Slots <= 0
    /\ pc' = "idle"
    /\ UNCHANGED <<campaign, campaignVars, rowVars, lead, callVars, reportVars,
                   limit, allowed, stuck, batch, dialing, callsMade, boundVars>>

\* The agent is missing, inactive or deleted, or the campaign has no creator:
\* which of these holds is outside this module.  The write does not look at the
\* campaign's present status.
PauseForMissingAgent ==
    /\ pc = "select" /\ Slots > 0
    /\ campaign' = "paused"
    /\ pc' = "idle"
    /\ UNCHANGED <<campaignVars, rowVars, lead, callVars, reportVars,
                   limit, allowed, stuck, batch, dialing, callsMade, boundVars>>

\* As many eligible rows as there are slots; their priority order is abstracted
\* to any choice.
SelectBatch ==
    /\ pc = "select" /\ Slots > 0
    /\ \E chosen \in SUBSET {r \in Rows : Eligible(r)} :
          /\ chosen # {}
          /\ Cardinality(chosen) <= Slots
          /\ \/ Cardinality(chosen) = Slots
             \/ chosen = {r \in Rows : Eligible(r)}
          /\ batch' = [r \in Rows |-> IF r \in chosen THEN clStatus[r] ELSE "out"]
    /\ pc' = "dispatch"
    /\ UNCHANGED <<campaign, campaignVars, rowVars, lead, callVars, reportVars,
                   limit, allowed, stuck, dialing, callsMade, boundVars>>

\* Variants: calls under way are forgotten; failed rows never count as done.
NothingLeftButCalls ==
    \A r \in Rows : /\ clStatus[r] # "pending"
                    /\ clStatus[r] = "failed" => attempts[r] >= limit

NothingLeft ==
    \A r \in Rows : /\ clStatus[r] \notin {"pending", "calling"}
                    /\ clStatus[r] = "failed" => attempts[r] >= limit

CheckCompletion ==
    /\ pc = "select" /\ Slots > 0
    /\ \A r \in Rows : ~Eligible(r)
    /\ campaign' = IF NothingLeft THEN "completed" ELSE campaign
    /\ pc' = "idle"
    /\ UNCHANGED <<campaignVars, rowVars, lead, callVars, reportVars,
                   limit, allowed, stuck, batch, dialing, callsMade, boundVars>>

\* Dispatch re-reads the lead and gives the row up if it cannot be called.  The row object
\* dates from the selection: a status equal to the one it had is not written.
DispatchUnavailable(r) ==
    /\ pc = "dispatch" /\ r \in InBatch /\ ~HasPhone(r)
    /\ clStatus' = [clStatus EXCEPT ![r] = IF batch[r] = "failed" THEN @ ELSE "failed"]
    /\ batch' = [batch EXCEPT ![r] = "out"]
    /\ UNCHANGED <<campaign, campaignVars, attempts, lastCall, nextRetry, lead, callVars,
                   reportVars, pc, limit, allowed, stuck, dialing, callsMade, boundVars>>

\* The commit that marks the row calling, before anything is dialled.
DispatchCommit(r) ==
    /\ pc = "dispatch" /\ r \in InBatch /\ HasPhone(r)
    /\ clStatus' = [clStatus EXCEPT ![r] = "calling"]
    /\ attempts' = [attempts EXCEPT ![r] = @ + 1]
    /\ lastCall' = [lastCall EXCEPT ![r] = attempts[r] + 1]
    /\ dialing' = r
    /\ batch' = [batch EXCEPT ![r] = "out"]
    /\ callsMade' = callsMade + 1
    /\ pc' = "dial"
    /\ UNCHANGED <<campaign, campaignVars, nextRetry, lead, callVars, reportVars,
                   limit, allowed, stuck, boundVars>>

\* The call the worker has committed and is about to dial.
DialingCall == <<dialing, attempts[dialing]>>

CapReached == Cardinality(states) + otherCalls >= CallCap

\* calls_made goes down by one, never below zero.  Variant: it is not given back.
RefundForgotten(n) == n
Refund(n) == IF n > 0 THEN n - 1 ELSE 0

\* The call state manager is full: the dispatch is taken back.
DispatchRewind ==
    /\ pc = "dial" /\ CapReached
    /\ LET r == dialing IN
          /\ clStatus' = [clStatus EXCEPT ![r] = "pending"]
          /\ attempts' = [attempts EXCEPT ![r] = @ - 1]
          /\ lastCall' = [lastCall EXCEPT ![r] = NoCall]
    /\ callsMade' = Refund(callsMade)
    /\ dialing' = NoRow /\ pc' = "dispatch"
    /\ overdue' = overdue \ {DialingCall}
    /\ UNCHANGED <<campaign, campaignVars, nextRetry, lead, line, states, otherCalls,
                   reportVars, limit, allowed, stuck, batch, boundVars>>

\* The retry a failed row gets: after retry_gap_hours, while attempts are left.
RetryLater(r, n, max) == IF n < max THEN [nextRetry EXCEPT ![r] = "gap"] ELSE nextRetry

\* Plivo refuses the call: failed, with a retry, and the state entry removed.
DialRefused ==
    /\ pc = "dial" /\ ~CapReached
    /\ LET r == dialing IN
          /\ clStatus' = [clStatus EXCEPT ![r] = "failed"]
          /\ nextRetry' = RetryLater(r, attempts[r], limit)
    /\ dialing' = NoRow /\ pc' = "dispatch"
    /\ UNCHANGED <<campaign, campaignVars, attempts, lastCall, lead, callVars, reportVars,
                   limit, allowed, stuck, batch, callsMade, boundVars>>

\* Plivo accepts it: the phone rings and the entry stays.
DialPlaced ==
    /\ pc = "dial" /\ ~CapReached
    /\ line' = [line EXCEPT ![DialingCall] = "live"]
    /\ states' = states \cup {DialingCall}
    /\ dialing' = NoRow /\ pc' = "dispatch"
    /\ UNCHANGED <<campaign, campaignVars, rowVars, lead, overdue, otherCalls, reportVars,
                   limit, allowed, stuck, batch, callsMade, boundVars>>

\* An exception after the calling commit and before the dial: the compensation
\* marks the row failed, and the loop goes on.
DispatchFaultCompensated ==
    /\ pc = "dial" /\ faults < MaxFaults
    /\ LET r == dialing IN
          /\ clStatus' = [clStatus EXCEPT ![r] = "failed"]
          /\ nextRetry' = [nextRetry EXCEPT ![r] = IF attempts[r] < limit
                                                   THEN "gap" ELSE "null"]
    /\ dialing' = NoRow /\ pc' = "dispatch"
    /\ faults' = faults + 1
    /\ UNCHANGED <<campaign, campaignVars, attempts, lastCall, lead, callVars, reportVars,
                   limit, allowed, stuck, batch, callsMade, moves, crashes>>

\* The commit after the dial fails.  The rollback expires the session's objects,
\* so the compensation and the dispatches after it fail too: the row stays
\* calling, whether or not the phone rings, and the cycle is over.
DispatchFaultStranded ==
    /\ pc = "dial" /\ faults < MaxFaults
    /\ IF CapReached
       THEN UNCHANGED <<line, states>>
       ELSE /\ line' \in {line, [line EXCEPT ![DialingCall] = "live"]}
            /\ states' = states \cup {DialingCall}
    /\ dialing' = NoRow /\ batch' = NoBatch /\ pc' = "idle"
    /\ faults' = faults + 1
    /\ UNCHANGED <<campaign, campaignVars, rowVars, lead, overdue, otherCalls, reportVars,
                   limit, allowed, stuck, callsMade, moves, crashes>>

\* The calling commit itself fails: nothing is stored, nothing is dialled, and the
\* rest of the batch fails on the expired objects.
DispatchFaultAborted ==
    /\ pc = "dispatch" /\ InBatch # {} /\ faults < MaxFaults
    /\ batch' = NoBatch /\ pc' = "idle"
    /\ faults' = faults + 1
    /\ UNCHANGED <<campaign, campaignVars, rowVars, lead, callVars, reportVars,
                   limit, allowed, stuck, dialing, callsMade, moves, crashes>>

EndCycle ==
    /\ pc = "dispatch" /\ InBatch = {}
    /\ pc' = "idle"
    /\ UNCHANGED <<campaign, campaignVars, rowVars, lead, callVars, reportVars,
                   limit, allowed, stuck, batch, dialing, callsMade, boundVars>>

-----------------------------------------------------------------------------
(* Calls and the reports about them.                                       *)

\* The other side hangs up, does not answer, or the time limit passes.
LineEnds(c) ==
    /\ line[c] = "live"
    /\ line' = [line EXCEPT ![c] = "over"]
    /\ UNCHANGED <<campaign, campaignVars, rowVars, lead, states, overdue, otherCalls,
                   reportVars, workerVars, callsMade, boundVars>>

MayReport(c) ==
    /\ told[c] < MaxReports
    /\ Cardinality(reports) + Cardinality(handling) < MaxInFlight

\* Plivo's hangup webhook: drops the entry and schedules a report.
HangupWebhook(c, ok) ==
    /\ line[c] = "over" /\ MayReport(c)
    /\ states' = states \ {c}
    /\ reports' = reports \cup {[call |-> c, ok |-> ok]}
    /\ told' = [told EXCEPT ![c] = @ + 1]
    /\ UNCHANGED <<campaign, campaignVars, rowVars, lead, line, overdue, otherCalls,
                   handling, workerVars, callsMade, boundVars>>

\* A user ends the call: Plivo may refuse to hang up, and only a call with a
\* transcript is reported.
EndCall(c) ==
    /\ line[c] = "live" /\ c \in states
    /\ line' \in {line, [line EXCEPT ![c] = "over"]}
    /\ states' = states \ {c}
    /\ \/ UNCHANGED <<reports, told>>
       \/ /\ MayReport(c)
          /\ \E ok \in BOOLEAN : reports' = reports \cup {[call |-> c, ok |-> ok]}
          /\ told' = [told EXCEPT ![c] = @ + 1]
    /\ UNCHANGED <<campaign, campaignVars, rowVars, lead, overdue, otherCalls,
                   handling, workerVars, callsMade, boundVars>>

\* handle_call_completed looks the row up by last_call_id; a report about a
\* call that is no longer the row's last one is dropped.
TakeReport(m) ==
    /\ m \in reports
    /\ reports' = reports \ {m}
    /\ LET r == m.call[1] IN
          handling' = IF lastCall[r] = m.call[2]
                      THEN handling \cup {[call |-> m.call, ok |-> m.ok, seen |-> clStatus[r]]}
                      ELSE handling
    /\ UNCHANGED <<campaign, campaignVars, rowVars, lead, callVars, told,
                   workerVars, callsMade, boundVars>>

\* ... and commits what it decided, over whatever the row says by now; a status
\* equal to the one it read is not written.
ApplyReport(h) ==
    /\ h \in handling
    /\ handling' = handling \ {h}
    /\ LET r == h.call[1]
           verdict == IF h.ok THEN "completed" ELSE "failed" IN
          /\ clStatus' = [clStatus EXCEPT ![r] = IF h.seen = verdict THEN @ ELSE verdict]
          /\ nextRetry' = IF h.ok THEN nextRetry ELSE RetryLater(r, h.call[2], maxRetries)
    /\ UNCHANGED <<campaign, campaignVars, attempts, lastCall, lead, callVars, reports, told,
                   workerVars, callsMade, boundVars>>

-----------------------------------------------------------------------------
(* Everything else that runs beside them.                                  *)

\* A counsellor takes the lead over, or hands it back.  (What board a lead without a
\* phone is on matters only once it has one: it gets it with the phone.)
MoveLead(r) ==
    /\ moves < MaxMoves /\ HasPhone(r)
    /\ lead' = [lead EXCEPT ![r] = IF @ = "ai" THEN "normal" ELSE "ai"]
    /\ moves' = moves + 1
    /\ UNCHANGED <<campaign, campaignVars, rowVars, callVars, reportVars, workerVars,
                   callsMade, crashes, faults>>

\* PUT /leads/{id} clears the phone, or enters one.
EditPhone(r) ==
    /\ moves < MaxMoves /\ lead[r] # "deleted"
    /\ \E b \in IF HasPhone(r) THEN {"phoneless"} ELSE {"ai", "normal"} :
          lead' = [lead EXCEPT ![r] = b]
    /\ moves' = moves + 1
    /\ UNCHANGED <<campaign, campaignVars, rowVars, callVars, reportVars, workerVars,
                   callsMade, crashes, faults>>

DeleteLead(r) ==
    /\ moves < MaxMoves /\ lead[r] # "deleted"
    /\ lead' = [lead EXCEPT ![r] = "deleted"]
    /\ moves' = moves + 1
    /\ UNCHANGED <<campaign, campaignVars, rowVars, callVars, reportVars, workerVars,
                   callsMade, crashes, faults>>

\* Five minutes pass since the row's call was dispatched.
BecomeOverdue(r) ==
    /\ r \in Calling /\ <<r, lastCall[r]>> \in Calls \ overdue
    /\ overdue' = overdue \cup {<<r, lastCall[r]>>}
    /\ UNCHANGED <<campaign, campaignVars, rowVars, lead, line, states, otherCalls,
                   reportVars, workerVars, callsMade, boundVars>>

\* next_retry_at passes.  A retry gap is at least an hour, a call at most ten minutes
\* (time_limit) and dialling it seconds: when a gap has passed no call of the row is
\* live, or about to be.
RetryComesDue(r) ==
    /\ \/ nextRetry[r] = "soon"
       \/ /\ nextRetry[r] = "gap" /\ dialing # r
          /\ \A c \in Calls : c[1] = r => line[c] # "live"
    /\ nextRetry' = [nextRetry EXCEPT ![r] = "due"]
    /\ UNCHANGED <<campaign, campaignVars, clStatus, attempts, lastCall, lead, callVars,
                   reportVars, workerVars, callsMade, boundVars>>

\* /voice/outbound takes an entry of the call state manager, and gives it back.
OutboundCall ==
    /\ ~CapReached /\ otherCalls < MaxOther
    /\ otherCalls' = otherCalls + 1
    /\ UNCHANGED <<campaign, campaignVars, rowVars, lead, line, states, overdue,
                   reportVars, workerVars, callsMade, boundVars>>

OutboundEnds ==
    /\ otherCalls > 0
    /\ otherCalls' = otherCalls - 1
    /\ UNCHANGED <<campaign, campaignVars, rowVars, lead, line, states, overdue,
                   reportVars, workerVars, callsMade, boundVars>>

\* cleanup_stale drops entries older than thirty minutes.
CleanupStale ==
    /\ states \cap overdue # {}
    /\ states' = states \ overdue
    /\ UNCHANGED <<campaign, campaignVars, rowVars, lead, line, overdue, otherCalls,
                   reportVars, workerVars, callsMade, boundVars>>

\* The process restarts: memory and background tasks are lost, calls go on.
Crash ==
    /\ crashes < MaxCrashes
    /\ crashes' = crashes + 1
    /\ states' = {} /\ otherCalls' = 0
    /\ reports' = {} /\ handling' = {}
    /\ pc' = "idle" /\ stuck' = {} /\ batch' = NoBatch /\ dialing' = NoRow
    /\ UNCHANGED <<campaign, campaignVars, rowVars, lead, line, overdue, told, limit,
                   allowed, callsMade, moves, faults>>

-----------------------------------------------------------------------------
WorkerStep ==
    \/ BeginCycle \/ RecoverStuck \/ NoSlots \/ PauseForMissingAgent
    \/ SelectBatch \/ CheckCompletion \/ EndCycle
    \/ \E r \in Rows : DispatchUnavailable(r) \/ DispatchCommit(r)
    \/ DispatchRewind \/ DialRefused \/ DialPlaced
    \/ DispatchFaultCompensated \/ DispatchFaultStranded \/ DispatchFaultAborted

RequestStep ==
    \/ \E r \in Rows : AssignLead(r) \/ AssignLeadBulk(r) \/ MoveLead(r)
                    \/ EditPhone(r) \/ DeleteLead(r)
    \/ StartCampaign \/ PauseCampaign \/ StopCampaign \/ UpdateCampaign
    \/ OutboundCall \/ OutboundEnds

CallStep ==
    \/ \E c \in Calls : \/ LineEnds(c) \/ EndCall(c)
                        \/ \E ok \in BOOLEAN : HangupWebhook(c, ok)
    \/ \E m \in reports : TakeReport(m)
    \/ \E h \in handling : ApplyReport(h)

TimeStep == (\E r \in Rows : BecomeOverdue(r) \/ RetryComesDue(r)) \/ CleanupStale

Next == WorkerStep \/ RequestStep \/ CallStep \/ TimeStep \/ Crash

Spec == Init /\ [][Next]_vars

(***************************************************************************)
(* Fairness.  APScheduler runs the worker every 30 seconds and calling     *)
(* hours recur; clocks advance; Plivo ends a call at its time limit; a     *)
(* background task under way finishes.  Nothing makes a webhook arrive, a  *)
(* user act or a lead move.                                                *)
(***************************************************************************)
FairSpec ==
    /\ Spec
    /\ WF_vars(WorkerStep)
    /\ \A r \in Rows : WF_vars(BecomeOverdue(r)) /\ WF_vars(RetryComesDue(r))
    /\ WF_vars(CleanupStale)
    /\ \A c \in Calls : WF_vars(LineEnds(c))
    /\ \A m \in Report : WF_vars(TakeReport(m))
    /\ \A h \in Handling : WF_vars(ApplyReport(h))

-----------------------------------------------------------------------------
(* Safety.                                                                 *)

\* A row starts calling only within the limit that the cycle read, although the slots
\* are counted once and the batch is dispatched afterwards.  (Who pauses the campaign
\* and lowers the limit finds more rows calling than it, until they end; who does it
\* while a batch is dispatched finds the rest of that batch dialled.)
SlotBound ==
    [][Calling' \ Calling # {} => Cardinality(Calling') <= allowed]_vars

\* The voice engine never holds more call states than its cap, whoever places
\* the calls.
CallCapHeld == Cardinality(states) + otherCalls <= CallCap

\* calls_made stays the number of dials charged to the rows, through rewinds,
\* faults and restarts.
MadeCountsAttempts == callsMade = SumFunctionOnSet(attempts, Rows)

\* When a lead has two calls live at once, the older one was dispatched more than
\* five minutes ago: nothing but the sweep dials a lead that is on the phone.
\* (For a fixed max_retries: raising it makes a failed row eligible at once.)
SecondCallOnlyAfterFiveMinutes ==
    \A c, d \in Calls :
        c[1] = d[1] /\ c[2] < d[2] /\ line[c] = "live" /\ line[d] = "live"
            => c \in overdue

\* A campaign is never marked completed, nor stays so, with a row calling.
NoCallingWhenCompleted == campaign = "completed" => Calling = {}

\* No call is placed to a lead on the counsellors' board, unless it was moved there
\* (or deleted) by a user: the selection skips such leads, the dispatch does not.
NormalNeverDialled ==
    [][\A c \in Calls : line[c] = "none" /\ line'[c] = "live" /\ moves = 0
                            => lead[c[1]] = "ai"]_vars

-----------------------------------------------------------------------------
(* Liveness, under FairSpec.                                               *)


\* A row that counts as work left, of a lead that no cycle selects: deleted, without a
\* phone, or on the counsellors' board.
OutOfReach(r) ==
    /\ lead[r] # "ai"
    /\ clStatus[r] = "pending" \/ (clStatus[r] = "failed" /\ attempts[r] < maxRetries)


-----------------------------------------------------------------------------
(* What the documentation says and the code does not do.                   *)

\* "If a lead has been calling for >5 min, the call failed silently": so a row is
\* never dialled while a call of its own is still live.
OneLiveCallPerRow ==
    \A c, d \in Calls :
        c[1] = d[1] /\ line[c] = "live" /\ line[d] = "live" => c = d

\* "draft -> active -> paused -> stopped lifecycle": nothing follows a stop.
StopIsFinal == [][campaign = "stopped" => campaign' = "stopped"]_vars
=============================================================================
