---------------------------- MODULE CallTeardown ----------------------------
(***************************************************************************)
(* One campaign call from the dial to the counters of its campaign: the    *)
(* in-memory state of the call, its call_attempts row, the webhooks with   *)
(* which Plivo says that it was answered and that it ended, the button     *)
(* with which a user ends it (api/v1/voice.py), the background tasks they  *)
(* start, and what those do to the campaign (workers/campaign_worker.py).  *)
(*                                                                         *)
(* Each handler is a coroutine: what it read before an await and uses      *)
(* afterwards is kept in hanging and ending.  The row is the only attempt  *)
(* of its lead here; sweeps and further attempts are CampaignDialer's.     *)
(***************************************************************************)
EXTENDS Integers

CONSTANTS
    MaxHangups,   \* bound: deliveries of the hangup webhook
    MaxEnds,      \* bound: times a user ends the call
    MaxCrashes,   \* bound: restarts of the process
    MaxFaults     \* bound: database or LLM errors in a handler

ConstantsAssumption ==
    MaxHangups \in Nat /\ MaxEnds \in Nat /\ MaxCrashes \in Nat /\ MaxFaults \in Nat

VARIABLES
    line,         \* the carrier's side: "ringing", "talking", "over"
    answered,     \* it was picked up
    age,          \* seconds since the dial: up to ten are "short", more are "long"
    held,         \* the CallStateManager has a state for it
    spoke,        \* that state's transcript has a turn
    status,       \* call_attempts.call_status
    duration,     \* call_attempts.call_duration_seconds, as age, or NULL
    ringWrite,    \* the worker is about to write "ringing"
    answerWrite,  \* the answer webhook's task is about to write "connected"
    hanging,      \* the hangup handler under way, or Idle
    ending,       \* the end-call handler under way, or Idle
    summaries,    \* _save_summary_background tasks waiting for the LLM
    successes,    \* reports of a success on their way to handle_call_completed
    failures,     \* reports of a failure on their way there
    row,          \* campaign_leads.status
    connected,    \* campaigns.calls_connected
    failed,       \* campaigns.calls_failed
    hangups, ends, crashes, faults     \* bound counters

callVars == <<line, answered, age>>
stateVars == <<held, spoke>>
attemptVars == <<status, duration>>
writeVars == <<ringWrite, answerWrite>>
reportVars == <<successes, failures>>
taskVars == <<writeVars, summaries, reportVars>>
handlerVars == <<hanging, ending>>
campaignVars == <<row, connected, failed>>
boundVars == <<hangups, ends, crashes, faults>>
vars == <<callVars, stateVars, attemptVars, taskVars, handlerVars, campaignVars, boundVars>>

Idle == [at |-> "idle", with |-> FALSE, old |-> "", seen |-> ""]
CallStatus == {"initiated", "ringing", "connected", "ended"}
Durations == {"null", "short", "long"}

\* A handler's place, whether it found the state, and the row it read.
Handler == [at : {"read", "asked"}, with : BOOLEAN, old : CallStatus, seen : Durations]

CallTypes ==
    /\ line \in {"ringing", "talking", "over"}
    /\ answered \in BOOLEAN /\ age \in {"short", "long"}
    /\ held \in BOOLEAN /\ spoke \in BOOLEAN

AttemptTypes ==
    /\ status \in CallStatus /\ duration \in Durations
    /\ ringWrite \in BOOLEAN /\ answerWrite \in BOOLEAN

HandlerTypes == hanging \in Handler \cup {Idle} /\ ending \in Handler \cup {Idle}

CountTypes ==
    /\ summaries \in Nat /\ successes \in Nat /\ failures \in Nat
    /\ row \in {"calling", "completed", "failed"}
    /\ connected \in Nat /\ failed \in Nat

BoundTypes ==
    /\ hangups \in 0..MaxHangups /\ ends \in 0..MaxEnds
    /\ crashes \in 0..MaxCrashes /\ faults \in 0..MaxFaults

TypeOK == CallTypes /\ AttemptTypes /\ HandlerTypes /\ CountTypes /\ BoundTypes

\* Plivo has accepted the call, the worker has not stored that yet.
Init ==
    /\ line = "ringing" /\ answered = FALSE /\ age = "short"
    /\ held = TRUE /\ spoke = FALSE
    /\ status = "initiated" /\ duration = "null"
    /\ ringWrite = TRUE /\ answerWrite = FALSE
    /\ hanging = Idle /\ ending = Idle
    /\ summaries = 0 /\ successes = 0 /\ failures = 0
    /\ row = "calling" /\ connected = 0 /\ failed = 0
    /\ hangups = 0 /\ ends = 0 /\ crashes = 0 /\ faults = 0

-----------------------------------------------------------------------------
(* The call.                                                               *)

\* The worker's commit after make_call returned.
RingWritten ==
    /\ ringWrite
    /\ ringWrite' = FALSE /\ status' = "ringing"
    /\ UNCHANGED <<callVars, stateVars, duration, answerWrite, summaries, reportVars,
                   handlerVars, campaignVars, boundVars>>

\* The callee picks up: the answer webhook starts a task for the status.
Answer ==
    /\ line = "ringing"
    /\ line' = "talking" /\ answered' = TRUE
    /\ answerWrite' = TRUE
    /\ UNCHANGED <<age, stateVars, attemptVars, ringWrite, summaries, reportVars,
                   handlerVars, campaignVars, boundVars>>

\* That task does not look at the status it overwrites.
AnswerWritten ==
    /\ answerWrite
    /\ answerWrite' = FALSE /\ status' = "connected"
    /\ UNCHANGED <<callVars, stateVars, duration, ringWrite, summaries, reportVars,
                   handlerVars, campaignVars, boundVars>>

\* A turn of the conversation: the stream needs the call's state.
Turn ==
    /\ line = "talking" /\ held
    /\ spoke' = TRUE
    /\ UNCHANGED <<callVars, held, attemptVars, taskVars, handlerVars, campaignVars, boundVars>>

\* Ten seconds have passed since the state was made, before the dial.
TenSeconds ==
    /\ age = "short"
    /\ age' = "long"
    /\ UNCHANGED <<line, answered, stateVars, attemptVars, taskVars, handlerVars,
                   campaignVars, boundVars>>

LineEnds ==
    /\ line # "over"
    /\ line' = "over"
    /\ UNCHANGED <<answered, age, stateVars, attemptVars, taskVars, handlerVars,
                   campaignVars, boundVars>>

-----------------------------------------------------------------------------
(* The end of the call.                                                    *)

Reading(at, with) == [at |-> at, with |-> with, old |-> status, seen |-> duration]

\* Both handlers store the end of the call, and its duration if they had its state.
StoreEnd(h) ==
    /\ status' = IF h.old = "ended" THEN status ELSE "ended"
    /\ duration' = IF h.with THEN age ELSE duration

Release(h) == held' = (held /\ ~h.with)

\* Variants: the report is forgotten; it is made in both cases.
ReportsNever(h) == FALSE
ReportsAlways(h) == TRUE

\* A call without a transcript has no summary task to report it.
Reports(h) == ~(h.with /\ spoke)

Summarises(h) == h.with /\ spoke

\* A call longer than ten seconds is a success.
IsSuccess(seconds) == seconds = "long"

\* n reports of a call of that length are on their way to the campaign.
Reported(n, seconds) ==
    /\ successes' = successes + IF IsSuccess(seconds) THEN n ELSE 0
    /\ failures' = failures + IF IsSuccess(seconds) THEN 0 ELSE n

\* The hangup webhook arrives: the handler looks for the state and reads the row.
HangupBegins ==
    /\ line = "over" /\ hanging = Idle /\ hangups < MaxHangups
    /\ hanging' = Reading("read", held)
    /\ hangups' = hangups + 1
    /\ UNCHANGED <<callVars, stateVars, attemptVars, taskVars, ending, campaignVars,
                   ends, crashes, faults>>

\* It commits the end of the call, then starts the summary or the report: the
\* report of a call without a state goes by the duration that was read.
HangupEnds ==
    /\ hanging # Idle
    /\ StoreEnd(hanging) /\ Release(hanging)
    /\ hanging' = Idle
    /\ summaries' = summaries + IF Summarises(hanging) THEN 1 ELSE 0
    /\ Reported(IF Reports(hanging) THEN 1 ELSE 0, IF hanging.with THEN age ELSE hanging.seen)
    /\ UNCHANGED <<callVars, spoke, writeVars, ending, campaignVars, boundVars>>

\* A database error is caught, but the code after it reads the row: it goes on only
\* for a call with a transcript.
HangupFails ==
    /\ hanging # Idle /\ faults < MaxFaults
    /\ hanging' = Idle /\ faults' = faults + 1
    /\ IF Summarises(hanging)
       THEN summaries' = summaries + 1 /\ Release(hanging)
       ELSE UNCHANGED <<summaries, held>>
    /\ UNCHANGED <<callVars, spoke, attemptVars, writeVars, reportVars, ending,
                   campaignVars, hangups, ends, crashes>>

\* A user presses the end button of a call that is not ended: the row is read ...
EndBegins ==
    /\ status # "ended" /\ ending = Idle /\ ends < MaxEnds
    /\ ending' = Reading("read", FALSE)
    /\ ends' = ends + 1
    /\ UNCHANGED <<callVars, stateVars, attemptVars, taskVars, hanging, campaignVars,
                   hangups, crashes, faults>>

\* ... Plivo hangs up, or fails to, and the handler looks for the state ...
EndAsked ==
    /\ ending.at = "read"
    /\ line' \in {line, "over"}
    /\ ending' = [ending EXCEPT !.at = "asked", !.with = held]
    /\ UNCHANGED <<answered, age, stateVars, attemptVars, taskVars, hanging, campaignVars,
                   boundVars>>

\* ... and stores the end; a summary is its only report.
EndCommits ==
    /\ ending.at = "asked"
    /\ StoreEnd(ending) /\ Release(ending)
    /\ ending' = Idle
    /\ summaries' = summaries + IF Summarises(ending) THEN 1 ELSE 0
    /\ UNCHANGED <<callVars, spoke, writeVars, reportVars, hanging, campaignVars,
                   boundVars>>

EndFails ==
    /\ ending # Idle /\ faults < MaxFaults
    /\ ending' = Idle /\ faults' = faults + 1
    /\ UNCHANGED <<callVars, stateVars, attemptVars, taskVars, hanging, campaignVars,
                   hangups, ends, crashes>>

-----------------------------------------------------------------------------
(* The background tasks.                                                   *)

\* The analysis is there: the task reads the row and goes by its status and duration.
SummaryReads ==
    /\ summaries > 0
    /\ summaries' = summaries - 1
    /\ Reported(1, IF status = "ended" THEN duration ELSE "null")
    /\ UNCHANGED <<callVars, stateVars, attemptVars, writeVars, handlerVars,
                   campaignVars, boundVars>>

\* An error in the task is caught and ends it, without a report.
SummaryFails ==
    /\ summaries > 0 /\ faults < MaxFaults
    /\ summaries' = summaries - 1 /\ faults' = faults + 1
    /\ UNCHANGED <<callVars, stateVars, attemptVars, writeVars, reportVars,
                   handlerVars, campaignVars, hangups, ends, crashes>>

\* handle_call_completed: the row takes the verdict and a counter goes up, whatever
\* the row says already.
ReportSuccess ==
    /\ successes > 0 /\ successes' = successes - 1
    /\ row' = "completed" /\ connected' = connected + 1
    /\ UNCHANGED <<callVars, stateVars, attemptVars, writeVars, summaries,
                   failures, handlerVars, failed, boundVars>>

ReportFailure ==
    /\ failures > 0 /\ failures' = failures - 1
    /\ row' = "failed" /\ failed' = failed + 1
    /\ UNCHANGED <<callVars, stateVars, attemptVars, writeVars, summaries,
                   successes, handlerVars, connected, boundVars>>

\* The report fails in the database: caught.
ReportFails ==
    /\ faults < MaxFaults /\ faults' = faults + 1
    /\ \/ successes > 0 /\ successes' = successes - 1 /\ UNCHANGED failures
       \/ failures > 0 /\ failures' = failures - 1 /\ UNCHANGED successes
    /\ UNCHANGED <<callVars, stateVars, attemptVars, writeVars, summaries,
                   handlerVars, campaignVars, hangups, ends, crashes>>

-----------------------------------------------------------------------------
\* Variant: only a state whose call is known to have ended is dropped.
IsStaleIfEnded == held /\ status = "ended"

\* A state older than half an hour, which no call lives to be.
IsStale == held /\ age = "long" /\ line = "over"

CleanupStale ==
    /\ IsStale
    /\ held' = FALSE
    /\ UNCHANGED <<callVars, spoke, attemptVars, taskVars, handlerVars, campaignVars, boundVars>>

\* The process restarts: memory, handlers and background tasks are lost.
Crash ==
    /\ crashes < MaxCrashes
    /\ crashes' = crashes + 1
    /\ held' = FALSE /\ hanging' = Idle /\ ending' = Idle
    /\ ringWrite' = FALSE /\ answerWrite' = FALSE
    /\ summaries' = 0 /\ successes' = 0 /\ failures' = 0
    /\ UNCHANGED <<callVars, spoke, attemptVars, campaignVars, hangups, ends, faults>>

HandlerStep == HangupEnds \/ HangupFails \/ EndAsked \/ EndCommits \/ EndFails

TaskStep ==
    \/ RingWritten \/ AnswerWritten \/ SummaryReads \/ SummaryFails
    \/ ReportSuccess \/ ReportFailure \/ ReportFails

CallStep == Answer \/ Turn \/ TenSeconds \/ LineEnds

Next ==
    \/ CallStep \/ HangupBegins \/ EndBegins \/ HandlerStep \/ TaskStep
    \/ CleanupStale \/ Crash

Spec == Init /\ [][Next]_vars

(***************************************************************************)
(* Fairness: handlers and background tasks that are under way finish, time *)
(* passes, Plivo ends every call (time_limit), and the clean-up job runs   *)
(* every ten minutes.  No webhook need arrive and no user need act.        *)
(***************************************************************************)
Fairness ==
    /\ WF_vars(HangupEnds) /\ WF_vars(EndAsked) /\ WF_vars(EndCommits)
    /\ WF_vars(RingWritten) /\ WF_vars(AnswerWritten) /\ WF_vars(SummaryReads)
    /\ WF_vars(ReportSuccess) /\ WF_vars(ReportFailure)
    /\ WF_vars(TenSeconds) /\ WF_vars(LineEnds) /\ WF_vars(CleanupStale)

FairSpec == Spec /\ Fairness

-----------------------------------------------------------------------------
\* Every delivery of the hangup webhook and every press of the end button adds one
\* to the campaign's counters at most, whichever way it goes.
CountsBounded == connected + failed <= hangups + ends

\* The hangup webhook takes the row out of "calling", with or without a transcript,
\* also when a user ended the call first, unless the process fails or restarts.
SettledAfterHangup ==
    (hangups > 0) ~> (row # "calling" \/ faults > 0 \/ crashes > 0)

\* The state of a call does not stay in memory for ever, and occupy a place of the
\* manager, whether or not the webhook arrives.
StateReleased == held ~> ~held

-----------------------------------------------------------------------------
(* What the code says of itself and does not do.                           *)

\* end_call is "the same post-call flow as the Plivo /hangup webhook but initiated by
\* the user instead of Plivo": a call is counted once.
CountedOnce == connected + failed <= 1
=============================================================================
