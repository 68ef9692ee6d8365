------------------------------ MODULE LeadDesk ------------------------------
(***************************************************************************)
(* One lead as the counsellors and the post-call jobs work it: its stage   *)
(* (services/stage_machine.py), its callback date and its tasks            *)
(* (services/task_service.py, workers/scheduler.py), its call attempts     *)
(* (services/call_service.py), its board and its edits                     *)
(* (services/lead_service.py), and the moves an AI call makes              *)
(* (services/post_call_service.py, api/v1/voice.py).                       *)
(*                                                                         *)
(* Every handler reads the lead first and writes, later and without having *)
(* held a lock, what follows from what it read.  The session writes only   *)
(* the columns that differ from the values read.  From its first write to  *)
(* its commit a handler holds the lead's row, so that part is one step.    *)
(* What a move needs beside a stage and a date (a lender, amounts, a       *)
(* reason, the user's right to the lead) is a request that is refused; the *)
(* lender files a move writes are in LenderFiles.                          *)
(***************************************************************************)
EXTENDS Naturals, FiniteSets, FiniteSetsExt, SequencesExt

CONSTANTS
    Brands,       \* the tenants' brands
    Stages,       \* the stages in use
    Requests,     \* handlers that may be in flight at once
    MaxAttempts,  \* settings.max_call_attempts
    Churn,        \* _FMC_DNP_LOST_THRESHOLD, _AV_DNP_LOST_THRESHOLD
    Boards,       \* the boards the lead may have been entered on
    Horizon,      \* bound: the last day
    MaxTasks,     \* bound: tasks of the lead
    MaxRequests   \* bound: requests that read the lead or change a task

FmcStages == {"created", "contacted", "dnp", "qualified", "processing", "logged_in",
              "sanctioned", "pf_paid", "disbursed", "opportunity", "lost"}
AvStages == {"created", "contacted", "dnp_pre_qualified", "connected", "qualified",
             "opportunity", "dnp_post_qualified", "processing", "important",
             "partial_docs_collected", "docs_collected", "application_done",
             "conditional_draft", "ucol", "deposit_paid", "cas_received",
             "visa_applied", "enrolled", "lost"}

ASSUME ConstantsAssumption ==
    /\ Brands \subseteq {"fmc", "admitverse"}
    /\ Stages \subseteq FmcStages \cup AvStages /\ {"created", "contacted", "connected", "lost"} \subseteq Stages
    /\ MaxAttempts \in Nat \ {0} /\ Churn \in Nat \ {0} /\ Horizon \in Nat \ {0}
    /\ Boards \subseteq {"ai", "normal"} /\ MaxTasks \in Nat /\ MaxRequests \in Nat

NoDate == 0
Dates == 1..Horizon
NoRow == [from |-> "none", to |-> "none"]

VARIABLES
    brand,      \* companies.slug
    today,      \* the clock, in days
    lead,       \* the row of leads: its stage, due_date, attempts, board
    tasks,      \* the rows of tasks
    log,        \* the newest row of lead_stage_logs
    calls,      \* rows of call_attempts written by hand
    req,        \* the handlers in flight
    job,        \* the tasks the overdue job has read and not yet written
    disturbed,  \* history: something was written on a read that no longer held,
                \* or a handler died between its two transactions
    served      \* bound counter

vars == <<brand, today, lead, tasks, log, calls, req, job, disturbed, served>>

Leads == [stage : Stages, due : Dates \cup {NoDate}, attempts : Nat,
          board : {"ai", "normal"}]
Tasks == [kind : {"call", "follow_up"}, due : Dates,
          status : {"pending", "in_progress", "overdue", "completed"},
          person : BOOLEAN]   \* history: put down or changed through the task screens

Active == {"pending", "in_progress", "overdue"}
Idle == [at |-> "idle"]
InFlight ==
    [at : {"read", "counted"}, seen : Leads]
    \cup [at : {"rest"}, seen : Leads, given : SUBSET Dates]
    \cup [at : {"sync"}] \cup [at : {"due"}, next : Dates \cup {NoDate}]

TypeOK ==
    /\ brand \in Brands /\ today \in 1..Horizon /\ lead \in Leads
    /\ lead.stage \in (IF brand = "fmc" THEN FmcStages ELSE AvStages)
    /\ tasks \in Seq(Tasks) /\ Len(tasks) <= MaxTasks
    /\ log = NoRow \/ log \in [from : Stages, to : Stages]
    /\ calls \in Nat /\ req \in [Requests -> InFlight \cup {Idle}]
    /\ job \subseteq DOMAIN tasks /\ disturbed \in BOOLEAN /\ served \in 0..MaxRequests

Init ==
    /\ brand \in Brands /\ today = 1
    /\ \E b \in Boards :
           lead = [stage |-> "created", due |-> NoDate, attempts |-> 0, board |-> b]
    /\ tasks = <<>> /\ log = NoRow /\ calls = 0
    /\ req = [r \in Requests |-> Idle] /\ job = {}
    /\ disturbed = FALSE /\ served = 0

-----------------------------------------------------------------------------
(* The tables of core/constants.py.                                        *)

Pipeline == Stages \cap (IF brand = "fmc" THEN FmcStages ELSE AvStages)

Terminal == IF brand = "fmc" THEN {"disbursed", "lost"} ELSE {"enrolled", "lost"}

\* Every stage from an open one, created from a lost FMC lead, nothing else.
Transitions(s) ==
    IF s \notin Terminal THEN Pipeline \ {s}
    ELSE IF brand = "fmc" /\ s = "lost" THEN {"created"} ELSE {}

\* AI_PIPELINE_STAGE_VALUES, the same for both brands.
AiStages == {"created", "contacted", "dnp", "qualified", "lost"}

\* The columns of a board.
Columns(b) == IF b = "ai" THEN AiStages ELSE Pipeline

-----------------------------------------------------------------------------
(* Tasks and the callback date.                                            *)

\* An attribute reaches the row when it is not what was read.
Written(was, new, now) == IF new = was THEN now ELSE new

ActiveCalls(ts) == {i \in DOMAIN ts : ts[i].kind = "call" /\ ts[i].status \in Active}

\* The earliest active CALL task.
NextDue(ts) ==
    IF ActiveCalls(ts) = {} THEN NoDate ELSE Min({ts[i].due : i \in ActiveCalls(ts)})

\* Variant: the date is left alone when callbacks are closed.
AutoCompleteOnly(l, ts) ==
    LET stale == {i \in DOMAIN ts : /\ ts[i].kind = "call" /\ ts[i].due <= today
                                    /\ ts[i].status \in {"pending", "overdue"}}
    IN  [lead |-> l,
         tasks |-> [i \in DOMAIN ts |->
                       IF i \in stale THEN [ts[i] EXCEPT !.status = "completed"] ELSE ts[i]]]

\* auto_complete_stale_call_tasks: past callbacks are closed; if any was, the lead's
\* date becomes that of the earliest left.
AutoComplete(l, ts) ==
    LET stale == {i \in DOMAIN ts : /\ ts[i].kind = "call" /\ ts[i].due <= today
                                    /\ ts[i].status \in {"pending", "overdue"}}
        left == [i \in DOMAIN ts |->
                    IF i \in stale THEN [ts[i] EXCEPT !.status = "completed"] ELSE ts[i]]
    IN  [lead |-> IF stale = {} THEN l ELSE [l EXCEPT !.due = NextDue(left)],
         tasks |-> left]

Task(kind, d) == [kind |-> kind, due |-> d, status |-> "pending", person |-> FALSE]

Twins(d) == {i \in ActiveCalls(tasks) : tasks[i].due = d}

\* The tasks once a callback for d is there.  Two of them already: the look-up
\* raises (scalar_one_or_none), and with it the request.
Ensurable(d) == Cardinality(Twins(d)) <= 1
Ensured(d) == IF Twins(d) = {} THEN Append(tasks, Task("call", d)) ELSE tasks

-----------------------------------------------------------------------------
(* Requests on the lead.                                                   *)

Room == Len(tasks) < MaxTasks
Frame == UNCHANGED <<brand, today, job>>

Goes(r, to) == req' = [req EXCEPT ![r] = to]

\* The request writes what it concluded from seen.
Acted(seen) == disturbed' = (disturbed \/ seen # lead)

ReadLead(r) ==
    /\ req[r] = Idle /\ served < MaxRequests /\ served' = served + 1
    /\ Goes(r, [at |-> "read", seen |-> lead])
    /\ Frame /\ UNCHANGED <<lead, tasks, log, calls, disturbed>>

\* Variant: a lead that is lost gets no row, as in log_call.
CommitUnlogged(r, s, d, ts) ==
    LET seen == req[r].seen
        done == AutoComplete([lead EXCEPT !.stage = s,
                                          !.due = Written(seen.due, d, lead.due)], ts)
    IN  /\ lead' = done.lead /\ tasks' = done.tasks
        /\ log' = IF s = "lost" THEN log ELSE [from |-> seen.stage, to |-> s]
        /\ Acted(seen) /\ Frame /\ UNCHANGED <<calls, served>>

\* A move of the lead to s from what was read, with the tasks as ts: the row, the
\* log row, the closing of past callbacks, one commit.
Commit(r, s, d, ts) ==
    LET seen == req[r].seen
        done == AutoComplete([lead EXCEPT !.stage = s,
                                          !.due = Written(seen.due, d, lead.due)], ts)
    IN  /\ lead' = done.lead /\ tasks' = done.tasks
        /\ log' = [from |-> seen.stage, to |-> s]
        /\ Acted(seen) /\ Frame /\ UNCHANGED <<calls, served>>

\* Variant: any stage of the pipeline may follow any other.
MoveAnywhere(r, s, d) ==
    LET open == s \notin Terminal
    IN  /\ req[r].at = "read" /\ s \in Pipeline
        /\ (open => d # NoDate /\ Ensurable(d) /\ (Room \/ Twins(d) # {}))
        /\ Commit(r, s, IF open THEN d ELSE NoDate,
                  IF open THEN Ensured(d) ELSE tasks)

\* StageMachine.transition.
Move(r, s, d) ==
    LET open == s \notin Terminal
    IN  /\ req[r].at = "read" /\ s \in Transitions(req[r].seen.stage)
        /\ (open => d # NoDate /\ Ensurable(d) /\ (Room \/ Twins(d) # {}))
        /\ Commit(r, s, IF open THEN d ELSE NoDate,
                  IF open THEN Ensured(d) ELSE tasks)

\* POST /leads/{id}/stage.
MoveStage(r) ==
    \E s \in Stages, d \in Dates \cup {NoDate} : Move(r, s, d) /\ Goes(r, Idle)

\* update_lead with a stage: the move commits first; the rest of the edit, with the
\* callback date if the request has one, goes on from the row as it then is.
EditStage(r) ==
    \E s \in Stages, given \in {{}} \cup {{d} : d \in Dates} :
        /\ Move(r, s, IF given = {} THEN NoDate ELSE Min(given))
        /\ Goes(r, [at |-> "rest", seen |-> lead', given |-> given])

\* The rest of update_lead: an AI lead beyond its board's columns is handed over, the
\* callback date is written, a callback is queued when the date is a new one.
EditRest(r) ==
    LET q == req[r]
    IN  /\ q.at \in {"read", "rest"}
        /\ \E given \in IF q.at = "rest" THEN {q.given}
                        ELSE {{}} \cup {{d} : d \in Dates \cup {NoDate}} :
             LET d == IF given = {} THEN q.seen.due ELSE CHOOSE x \in given : TRUE
                 queue == d # NoDate /\ d # q.seen.due
                 over == q.seen.board = "ai" /\ q.seen.stage \notin AiStages
             IN  /\ (queue => Ensurable(d) /\ (Room \/ Twins(d) # {}))
                 /\ lead' = [lead EXCEPT !.due = Written(q.seen.due, d, @),
                                         !.board = IF over THEN "normal" ELSE @]
                 /\ tasks' = IF queue THEN Ensured(d) ELSE tasks
        /\ Goes(r, Idle) /\ Acted(q.seen)
        /\ Frame /\ UNCHANGED <<log, calls, served>>

\* Any refusal: of a move, of a field, of a duplicate; what was committed stays.
Refuse(r) ==
    /\ req[r].at \in {"read", "rest", "counted"} /\ Goes(r, Idle)
    /\ Frame /\ UNCHANGED <<lead, tasks, log, calls, disturbed, served>>

\* move_pipeline.
MoveBoard(r) ==
    LET seen == req[r].seen
        to == IF seen.board = "ai" THEN "normal" ELSE "ai"
    IN  /\ req[r].at = "read" /\ (to = "ai" => seen.stage \in AiStages)
        /\ lead' = [lead EXCEPT !.board = to] /\ Goes(r, Idle) /\ Acted(seen)
        /\ Frame /\ UNCHANGED <<tasks, log, calls, served>>

-----------------------------------------------------------------------------
(* Calls.                                                                  *)

Dispositions == {"dnp", "connected", "busy", "switched_off", "wrong_number", "callback"}

\* log_call with the attempt number n: the stage bumps, the callback is put down
\* without a look for one that is there, no log row is written.
Called(r, disp, d, n, written) ==
    LET seen == req[r].seen
        met == IF seen.stage = "created" THEN "contacted" ELSE seen.stage
        s == IF disp = "dnp" /\ n # 5 /\ n >= MaxAttempts THEN "lost"
             ELSE IF disp = "connected" THEN "connected" ELSE met
        given == IF disp = "dnp" /\ s = "lost" THEN NoDate ELSE d
        row == [lead EXCEPT !.stage = Written(seen.stage, s, @), !.attempts = written,
                            !.due = Written(seen.due, given, @)]
        done == IF s = seen.stage THEN [lead |-> row, tasks |-> tasks]
                ELSE AutoComplete(row, tasks)
    IN  /\ lead' = done.lead
        /\ tasks' = IF disp = "wrong_number" \/ s = "lost" THEN done.tasks
                    ELSE Append(done.tasks, Task("call", d))
        /\ Acted(seen)

\* Variant: the row's count is raised, not set to the number of this call.
LogCallRaised(r) ==
    /\ req[r].at = "read" /\ brand = "admitverse" /\ req[r].seen.stage \notin Terminal
    /\ req[r].seen.attempts < MaxAttempts /\ Room
    /\ \E disp \in Dispositions, d \in Dates :
           Called(r, disp, d, req[r].seen.attempts + 1, lead.attempts)
    /\ calls' = calls + 1 /\ Goes(r, Idle) /\ Frame /\ UNCHANGED <<log, served>>

\* log_call.  It asks for the stages lead or called of an FMC lead: none has them.
LogCall(r) ==
    /\ req[r].at = "read" /\ brand = "admitverse" /\ req[r].seen.stage \notin Terminal
    /\ req[r].seen.attempts < MaxAttempts /\ Room
    /\ \E disp \in Dispositions, d \in Dates :
           Called(r, disp, d, req[r].seen.attempts + 1, req[r].seen.attempts + 1)
    /\ calls' = calls + 1 /\ Goes(r, Idle) /\ Frame /\ UNCHANGED <<log, served>>

\* _pick_auto_target: a call that did not go very well loses the lead.
Promotion(s) ==
    IF brand = "fmc"
    THEN CASE s \in {"created", "dnp"} -> {"contacted"} [] s = "contacted" -> {"qualified"}
           [] OTHER -> {}
    ELSE CASE s = "created" -> {"contacted"} [] s = "contacted" -> {"connected"}
           [] s = "connected" -> {"qualified"} [] OTHER -> {}

\* auto_update_lead_status.
PostCall(r) ==
    LET seen == req[r].seen
    IN  /\ req[r].at = "read" /\ seen.stage \notin Terminal
        /\ \E s \in (Promotion(seen.stage) \cup {"lost"}) \cap Transitions(seen.stage) :
               /\ Commit(r, s, IF s = "lost" THEN NoDate ELSE seen.due, tasks)
               /\ Goes(r, Idle)

\* The count goes up in the database, before the stage is looked at.
CountVoice(r) ==
    /\ req[r].at = "read"
    /\ lead' = [lead EXCEPT !.attempts = @ + 1]
    /\ Goes(r, [at |-> "counted",
                seen |-> [req[r].seen EXCEPT !.attempts = lead.attempts + 1]])
    /\ Frame /\ UNCHANGED <<tasks, log, calls, disturbed, served>>

NoAnswer == IF brand = "fmc" THEN "dnp" ELSE "dnp_pre_qualified"
Advancing == IF brand = "fmc" THEN {"created", "contacted", "dnp"}
             ELSE {"created", "contacted", "connected", "dnp_pre_qualified"}

\* The targets of _fmc_auto_advance and _av_auto_advance: a call nobody answered, a
\* call with a conversation.
Unanswered(seen) ==
    IF seen.stage = NoAnswer /\ seen.attempts >= Churn THEN {"lost"} ELSE {NoAnswer}
Answered == {"lost", "opportunity", "qualified"}
            \cup IF brand = "fmc" THEN {} ELSE {"connected"}

\* The date and the follow-up task that come with a lead won over.
Warm == IF brand = "fmc" THEN {"qualified"} ELSE {"qualified", "opportunity"}

\* _auto_update_lead_stage, for a call without a transcript from the lead just read,
\* for the others after the count.
Advance(r) ==
    LET seen == req[r].seen
        targets == IF req[r].at = "read" THEN Unanswered(seen)
                   ELSE Unanswered(seen) \cup Answered
    IN  /\ req[r].at \in {"read", "counted"} /\ seen.stage \in Advancing
        /\ \E s \in (targets \cap Stages) \ {seen.stage} :
               /\ s \in Warm => Room /\ today < Horizon
               /\ Commit(r, s, IF s \in Warm THEN today + 1 ELSE seen.due,
                         IF s \in Warm THEN Append(tasks, Task("follow_up", today + 1))
                         ELSE tasks)
               /\ Goes(r, Idle)

-----------------------------------------------------------------------------
(* Tasks, the overdue job, the clock.                                      *)

\* create_task: the lead's date is not looked at.
CreateTask ==
    /\ served < MaxRequests /\ served' = served + 1 /\ Room
    /\ \E d \in Dates, k \in {"call", "follow_up"} :
           tasks' = Append(tasks, [Task(k, d) EXCEPT !.person = TRUE])
    /\ Frame /\ UNCHANGED <<lead, log, calls, req, disturbed>>

\* A task changes and is committed; the lead's date follows in a second transaction.
Retask(r, i, t) ==
    /\ req[r] = Idle /\ served < MaxRequests /\ served' = served + 1
    /\ tasks' = [tasks EXCEPT ![i] = t] /\ Goes(r, [at |-> "sync"])
    /\ Frame /\ UNCHANGED <<lead, log, calls, disturbed>>

\* complete_task.
CompleteTask(r) ==
    \E i \in DOMAIN tasks : Retask(r, i, [tasks[i] EXCEPT !.status = "completed"])

\* update_task: completed may not be asked for, anything may be changed of a task
\* that is completed.
UpdateTask(r) ==
    \E i \in DOMAIN tasks :
        LET t == [tasks[i] EXCEPT !.person = TRUE]
        IN  \/ \E s \in {"pending", "in_progress"} : Retask(r, i, [t EXCEPT !.status = s])
            \/ \E d \in Dates : Retask(r, i, [t EXCEPT !.due = d])
            \/ \E k \in {"call", "follow_up"} : Retask(r, i, [t EXCEPT !.kind = k])

\* _sync_lead_due_date_and_invalidate: the query, and the update with its answer.
SyncRead(r) ==
    /\ req[r].at = "sync" /\ Goes(r, [at |-> "due", next |-> NextDue(tasks)])
    /\ Frame /\ UNCHANGED <<lead, tasks, log, calls, disturbed, served>>

SyncWrite(r) ==
    /\ req[r].at = "due" /\ lead' = [lead EXCEPT !.due = req[r].next]
    /\ Goes(r, Idle) /\ disturbed' = (disturbed \/ req[r].next # NextDue(tasks))
    /\ Frame /\ UNCHANGED <<tasks, log, calls, served>>

\* The process dies, or the second transaction fails.
Die(r) ==
    /\ req[r].at \in {"sync", "due"} /\ Goes(r, Idle) /\ disturbed' = TRUE
    /\ Frame /\ UNCHANGED <<lead, tasks, log, calls, served>>

\* Variant: every late task, closed or not.
JobReadAll ==
    /\ job = {} /\ job' = {i \in DOMAIN tasks : tasks[i].due < today}
    /\ UNCHANGED <<brand, today, lead, tasks, log, calls, req, disturbed, served>>

\* check_overdue_tasks: what it selects, and the rows it then writes.
JobRead ==
    /\ job = {}
    /\ job' = {i \in DOMAIN tasks : /\ tasks[i].status \in {"pending", "in_progress"}
                                    /\ tasks[i].due < today}
    /\ UNCHANGED <<brand, today, lead, tasks, log, calls, req, disturbed, served>>

JobWrite ==
    /\ job # {} /\ job' = {}
    /\ tasks' = [i \in DOMAIN tasks |->
                    IF i \in job THEN [tasks[i] EXCEPT !.status = "overdue"] ELSE tasks[i]]
    /\ disturbed' = (disturbed \/ \E i \in job : tasks[i].status = "completed")
    /\ UNCHANGED <<brand, today, lead, log, calls, req, served>>

Tick == /\ today < Horizon /\ today' = today + 1
        /\ UNCHANGED <<brand, lead, tasks, log, calls, req, job, disturbed, served>>

-----------------------------------------------------------------------------
LeadStep(r) ==
    \/ ReadLead(r) \/ MoveStage(r) \/ EditStage(r) \/ EditRest(r) \/ Refuse(r)
    \/ MoveBoard(r) \/ LogCall(r) \/ PostCall(r) \/ CountVoice(r) \/ Advance(r)

TaskStep(r) == CompleteTask(r) \/ UpdateTask(r) \/ SyncRead(r) \/ SyncWrite(r) \/ Die(r)

Next ==
    \/ \E r \in Requests : LeadStep(r) \/ TaskStep(r)
    \/ CreateTask \/ JobRead \/ JobWrite \/ Tick

Spec == Init /\ [][Next]_vars

-----------------------------------------------------------------------------
(* Properties.                                                             *)

\* The newest row of an FMC lead's history ends at the lead's stage, whatever overlaps:
\* the stage and its row are one commit under the lead's row lock, on every path.
LogTellsStage == brand = "fmc" /\ log # NoRow => log.to = lead.stage

\* A handler whose read no longer holds.
Late(r) == req[r].at \in {"read", "rest", "counted"} /\ req[r].seen # lead

\* A stage is left only as the table of transitions says, and the history says from
\* where, unless the step is that of a request whose read no longer held: the one way
\* a closed lead is opened, or a row is wrong.
MoveIsInTable ==
    /\ lead'.stage # lead.stage =>
           \/ lead'.stage \in Transitions(lead.stage)
           \/ \E r \in Requests : Late(r) /\ req'[r] # req[r]
    /\ log' # log =>
           \/ log'.from = lead.stage
           \/ \E r \in Requests : Late(r) /\ req'[r] # req[r]
MovesFollowTable == [][MoveIsInTable]_vars

\* A completed task is active again only because a person reopened it, or because the
\* overdue job had read it, and had read it before it was completed.
FinishedKept ==
    /\ \A i \in job' \ job : tasks[i].status # "completed"
    /\ \A i \in DOMAIN tasks :
           (tasks[i].status = "completed" /\ tasks'[i].status # "completed") =>
               \/ \E r \in Requests : req[r] = Idle /\ req'[r].at = "sync"
               \/ i \in job /\ job' = {}
FinishedStays == [][FinishedKept]_vars

Settled == \A r \in Requests : req[r].at \notin {"sync", "due"}

\* Handlers run one at a time: the callback date an FMC lead shows is that of a task
\* someone still has to do.  (Wrong numbers get a date and no task: Admitverse only.)
DueHasATask ==
    brand = "fmc" /\ ~disturbed /\ Settled /\ lead.due # NoDate =>
        \E i \in DOMAIN tasks : tasks[i].due = lead.due /\ tasks[i].status \in Active

\* Every call logged by hand is in the attempts the lead shows, and they stop at the cap.
CallsCounted == ~disturbed => calls <= lead.attempts /\ calls <= MaxAttempts

-----------------------------------------------------------------------------
(* What comments and docstrings say and the code does not do.              *)

\* A board has a column for every stage its leads can be in.
EveryLeadHasAColumn == lead.stage \in Columns(lead.board)

\* A lost lead has no follow-up date.
LostIsDone == lead.stage = "lost" => lead.due = NoDate

\* Closed leads stay closed.
ClosedIsFinal ==
    [][lead.stage \in Terminal /\ lead'.stage # lead.stage
           => brand = "fmc" /\ lead.stage = "lost" /\ lead'.stage = "created"]_vars
=============================================================================
