------------------------------ MODULE MetaQueue ------------------------------
(***************************************************************************)
(* The queue of Meta Lead Ads webhooks: the endpoint that acknowledges a   *)
(* webhook and stores its events in the background (api/v1/webhooks.py),   *)
(* the retry worker that drains the queue in every server process          *)
(* (workers/meta_retry.py), and the routing of an event to the tenant that *)
(* gets the lead: "fmc" in this database, "av" by a request to another     *)
(* deployment of the same code (services/meta_webhook_service.py).         *)
(*                                                                         *)
(* An event is a leadgen id.  What the Graph API says about it never       *)
(* changes: its phone number and e-mail address, and the tenant its form   *)
(* is routed to.                                                           *)
(***************************************************************************)
EXTENDS Integers, FiniteSets

CONSTANTS
    Events,         \* leadgen ids
    NoEvent,        \* not one of them
    Workers,        \* server processes, each with its scheduler
    Addresses,      \* phone numbers and e-mail addresses
    Blank,          \* the form did not ask for one
    Phone, Email,   \* the number and the address an event carries
    Target,         \* the tenant its form is routed to, "none" when unrouted
    Sourceless,     \* events routed by a row whose source does not exist there
    Entered,        \* <<tenant, contact>> pairs that users type in by hand
    MaxAttempts,    \* _MAX_ATTEMPTS
    BatchSize,      \* _BATCH_SIZE
    MaxDeliveries,  \* bound: webhooks Meta sends
    MaxCrashes,     \* bound: restarts of a process
    MaxFaults       \* bound: database faults and AV outages

Tenants == {"fmc", "av"}

ASSUME ConstantsAssumption ==
    /\ IsFiniteSet(Events) /\ NoEvent \notin Events
    /\ Blank \notin Addresses
    /\ Phone \in [Events -> Addresses \cup {Blank}]
    /\ Email \in [Events -> Addresses \cup {Blank}]
    /\ Target \in [Events -> Tenants \cup {"none"}] /\ Sourceless \subseteq Events
    /\ Entered \subseteq Tenants \X Addresses
    /\ MaxAttempts \in Nat /\ MaxAttempts >= 1
    /\ BatchSize \in Nat /\ BatchSize >= 1
    /\ MaxDeliveries \in Nat /\ MaxCrashes \in Nat /\ MaxFaults \in Nat

VARIABLES
    acked,      \* events of a webhook that was answered with 200
    tasks,      \* background tasks of each process: payloads still to be stored
    status,     \* meta_webhook_events.status; "absent": no row
    attempts,   \* meta_webhook_events.attempts
    due,        \* next_attempt_at has passed
    batch,      \* events a process picked and has not come to yet
    current,    \* the event it is processing, or NoEvent
    step,       \* where it is in _process_one
    avStep,     \* the request for an event at the AV backend
    created,    \* leads made from an event
    people,     \* numbers and addresses of each tenant's live leads
    deliveries, crashes, faults   \* bound counters

queueVars == <<status, attempts, due>>
workerVars == <<batch, current, step>>
leadVars == <<avStep, created, people>>
boundVars == <<deliveries, crashes, faults>>
vars == <<acked, tasks, queueVars, workerVars, leadVars, boundVars>>

EventStatus == {"absent", "pending", "processing", "done", "failed"}

TypeOK ==
    /\ acked \subseteq Events
    /\ tasks \in [Workers -> SUBSET (SUBSET Events)]
    /\ status \in [Events -> EventStatus]
    /\ attempts \in [Events -> 0..MaxAttempts]
    /\ due \in [Events -> BOOLEAN]
    /\ batch \in [Workers -> SUBSET Events]
    /\ current \in [Workers -> Events \cup {NoEvent}]
    /\ step \in [Workers -> {"idle", "loop", "graph", "check", "insert",
                             "wait", "mark", "retry"}]
    /\ avStep \in [Events -> {"none", "received", "checked"}]
    /\ created \in [Events -> Nat]
    /\ people \in [Tenants -> SUBSET Addresses]
    /\ deliveries \in 0..MaxDeliveries
    /\ crashes \in 0..MaxCrashes /\ faults \in 0..MaxFaults

Init ==
    /\ acked = {} /\ tasks = [w \in Workers |-> {}]
    /\ status = [e \in Events |-> "absent"]
    /\ attempts = [e \in Events |-> 0]
    /\ due = [e \in Events |-> FALSE]
    /\ batch = [w \in Workers |-> {}]
    /\ current = [w \in Workers |-> NoEvent]
    /\ step = [w \in Workers |-> "idle"]
    /\ avStep = [e \in Events |-> "none"]
    /\ created = [e \in Events |-> 0]
    /\ people = [t \in Tenants |-> {}]
    /\ deliveries = 0 /\ crashes = 0 /\ faults = 0

-----------------------------------------------------------------------------
(* The endpoint.                                                           *)

\* Meta posts a webhook of one or more events, perhaps again: the answer is 200
\* and the storing is left to a background task.
Deliver(w, payload) ==
    /\ deliveries < MaxDeliveries
    /\ payload # {} /\ payload \notin tasks[w]
    /\ acked' = acked \cup payload
    /\ tasks' = [tasks EXCEPT ![w] = @ \cup {payload}]
    /\ deliveries' = deliveries + 1
    /\ UNCHANGED <<queueVars, workerVars, leadVars, crashes, faults>>

\* Variants: a redelivered event starts over; one entry of a payload is looked at.
FreshOrAgain(payload) == payload
FreshOfOne(payload) ==
    IF payload = {} THEN {} ELSE {CHOOSE e \in payload : TRUE} \cap {e \in Events : status[e] = "absent"}

\* INSERT ... ON CONFLICT (leadgen_id) DO NOTHING.
Fresh(payload) == {e \in payload : status[e] = "absent"}

Enqueue(w, payload) ==
    /\ payload \in tasks[w]
    /\ tasks' = [tasks EXCEPT ![w] = @ \ {payload}]
    /\ LET new == Fresh(payload) IN
          /\ status' = [e \in Events |-> IF e \in new THEN "pending" ELSE status[e]]
          /\ attempts' = [e \in Events |-> IF e \in new THEN 0 ELSE attempts[e]]
          /\ due' = [e \in Events |-> e \in new \/ due[e]]
    /\ UNCHANGED <<acked, workerVars, leadVars, boundVars>>

\* Any exception while storing: rolled back, logged, forgotten.
EnqueueFails(w, payload) ==
    /\ payload \in tasks[w] /\ faults < MaxFaults
    /\ tasks' = [tasks EXCEPT ![w] = @ \ {payload}]
    /\ faults' = faults + 1
    /\ UNCHANGED <<acked, queueVars, workerVars, leadVars, deliveries, crashes>>

-----------------------------------------------------------------------------
(* The retry worker of one process.                                        *)

\* Variants: the status is not looked at; what failed once is not picked again.
PickableAnyway(e) == status[e] \in {"pending", "processing"} /\ due[e]
PickableOnce(e) == status[e] = "pending" /\ due[e] /\ attempts[e] = 0

Pickable(e) == status[e] = "pending" /\ due[e]

\* SELECT ... FOR UPDATE SKIP LOCKED, the update to processing and the commit:
\* one step, for no other worker sees the rows in between.  The order by
\* next_attempt_at is abstracted to any choice.
Pick(w) ==
    /\ step[w] = "idle"
    /\ \E chosen \in SUBSET {e \in Events : Pickable(e)} :
          /\ chosen # {}
          /\ Cardinality(chosen) <= BatchSize
          /\ \/ Cardinality(chosen) = BatchSize
             \/ chosen = {e \in Events : Pickable(e)}
          /\ batch' = [batch EXCEPT ![w] = chosen]
          /\ status' = [e \in Events |-> IF e \in chosen THEN "processing" ELSE status[e]]
    /\ step' = [step EXCEPT ![w] = "loop"]
    /\ UNCHANGED <<acked, tasks, attempts, due, current, leadVars, boundVars>>

Take(w) ==
    /\ step[w] = "loop"
    /\ \E e \in batch[w] :
          /\ batch' = [batch EXCEPT ![w] = @ \ {e}]
          /\ current' = [current EXCEPT ![w] = e]
    /\ step' = [step EXCEPT ![w] = "graph"]
    /\ UNCHANGED <<acked, tasks, queueVars, leadVars, boundVars>>

\* Variant: a cycle comes to one event only.
CycleEndsEarly(w) ==
    /\ step[w] = "loop"
    /\ step' = [step EXCEPT ![w] = "idle"]
    /\ UNCHANGED <<acked, tasks, queueVars, batch, current, leadVars, boundVars>>

CycleEnds(w) ==
    /\ step[w] = "loop" /\ batch[w] = {}
    /\ step' = [step EXCEPT ![w] = "idle"]
    /\ UNCHANGED <<acked, tasks, queueVars, batch, current, leadVars, boundVars>>

Goto(w, next) ==
    /\ step' = [step EXCEPT ![w] = next]
    /\ UNCHANGED <<acked, tasks, queueVars, batch, current, boundVars>>

\* The Graph API does not answer with the lead's data: an exception, so a retry.
GraphFails(w) ==
    /\ step[w] = "graph"
    /\ Goto(w, "retry")
    /\ UNCHANGED leadVars

\* Routed here, to the company of the routing row's source: and there is no such source.
NoCompany(e) == Target[e] = "fmc" /\ e \in Sourceless

\* The data is there, but no routing row says where it goes, or no company gets it: logged,
\* and the lead is dropped.
Unrouted(w) ==
    /\ step[w] = "graph" /\ (Target[current[w]] = "none" \/ NoCompany(current[w]))
    /\ Goto(w, "mark")
    /\ UNCHANGED leadVars

RoutedHere(w) ==
    /\ step[w] = "graph" /\ Target[current[w]] = "fmc" /\ ~NoCompany(current[w])
    /\ Goto(w, "check")
    /\ UNCHANGED leadVars

\* The request is sent to AV.
Forward(w) ==
    /\ step[w] = "graph" /\ Target[current[w]] = "av"
    /\ Goto(w, "wait")
    /\ avStep' = [avStep EXCEPT ![current[w]] = "received"]
    /\ UNCHANGED <<created, people>>

\* AV cannot be reached, or is not configured: logged.
ForwardFails(w) ==
    /\ step[w] = "graph" /\ Target[current[w]] = "av" /\ faults < MaxFaults
    /\ step' = [step EXCEPT ![w] = "mark"]
    /\ faults' = faults + 1
    /\ UNCHANGED <<acked, tasks, queueVars, batch, current, leadVars, deliveries, crashes>>

\* AV answers, with whatever status, or ten seconds pass without an answer.
ForwardReturns(w) ==
    /\ step[w] = "wait"
    /\ Goto(w, "mark")
    /\ UNCHANGED leadVars

\* Variant: the tenants are not kept apart.
TakenAnywhere(t, e) == \E s \in Tenants : Phone[e] \in people[s]

\* A live lead of the tenant has the event's phone number.
Taken(t, e) == Phone[e] \in people[t]

\* The checks before the insert: a lead of this leadgen id, or of this number.
KnownHere(w) ==
    /\ step[w] = "check"
    /\ created[current[w]] > 0 \/ Taken("fmc", current[w])
    /\ Goto(w, "mark")
    /\ UNCHANGED leadVars

NewHere(w) ==
    /\ step[w] = "check"
    /\ created[current[w]] = 0 /\ ~Taken("fmc", current[w])
    /\ Goto(w, "insert")
    /\ UNCHANGED leadVars

\* create_lead, which looks for the number and the address, finds a lead of the tenant.
Reach(e) == {Phone[e], Email[e]} \ {Blank}
Refused(t, e) == Reach(e) \cap people[t] # {}

\* A lead is made from the event, in a transaction of its own.
AddLead(t, e) ==
    /\ created' = [created EXCEPT ![e] = @ + 1]
    /\ people' = [people EXCEPT ![t] = @ \cup Reach(e)]

InsertHere(w) ==
    /\ step[w] = "insert" /\ ~Refused("fmc", current[w])
    /\ AddLead("fmc", current[w])
    /\ Goto(w, "mark")
    /\ UNCHANGED avStep

\* The number appeared since, or the address is another lead's, and create_lead's own
\* check sees it: swallowed.
InsertRefused(w) ==
    /\ step[w] = "insert" /\ Refused("fmc", current[w])
    /\ Goto(w, "mark")
    /\ UNCHANGED leadVars

Abandon(w) ==
    /\ batch' = [batch EXCEPT ![w] = {}]
    /\ current' = [current EXCEPT ![w] = NoEvent]
    /\ step' = [step EXCEPT ![w] = "idle"]

\* ... or it appeared after that check, and the unique index sees it.  The
\* exception is swallowed, but the session is of no use any more: the update to
\* done and the handler's own update raise too, and the cycle is over.
InsertConflicts(w) ==
    /\ step[w] = "insert" /\ Refused("fmc", current[w])
    /\ Abandon(w)
    /\ UNCHANGED <<acked, tasks, queueVars, leadVars, boundVars>>

MarkDone(w) ==
    /\ step[w] = "mark"
    /\ LET e == current[w] IN
          /\ status' = [status EXCEPT ![e] = "done"]
          /\ attempts' = [attempts EXCEPT ![e] = @ + 1]
    /\ current' = [current EXCEPT ![w] = NoEvent]
    /\ step' = [step EXCEPT ![w] = "loop"]
    /\ UNCHANGED <<acked, tasks, due, batch, leadVars, boundVars>>

LastAttempt(n) == n >= MaxAttempts

Retry(w) ==
    /\ step[w] = "retry"
    /\ LET e == current[w]
           n == attempts[e] + 1 IN
          /\ status' = [status EXCEPT ![e] = IF LastAttempt(n) THEN "failed" ELSE "pending"]
          /\ attempts' = [attempts EXCEPT ![e] = n]
          /\ due' = [due EXCEPT ![e] = FALSE]
    /\ current' = [current EXCEPT ![w] = NoEvent]
    /\ step' = [step EXCEPT ![w] = "loop"]
    /\ UNCHANGED <<acked, tasks, batch, leadVars, boundVars>>

\* A statement of _process_one fails in the database: so does the update of its
\* exception handler, and the rest of the batch is left where it is.
DatabaseFault(w) ==
    /\ step[w] # "idle" /\ faults < MaxFaults
    /\ Abandon(w)
    /\ faults' = faults + 1
    /\ UNCHANGED <<acked, tasks, queueVars, leadVars, deliveries, crashes>>

-----------------------------------------------------------------------------
(* The AV deployment, users, the clock, restarts.                          *)

AvKnown(e) ==
    /\ avStep[e] = "received"
    /\ created[e] > 0 \/ Taken("av", e)
    /\ avStep' = [avStep EXCEPT ![e] = "none"]
    /\ UNCHANGED <<acked, tasks, queueVars, workerVars, created, people, boundVars>>

AvNew(e) ==
    /\ avStep[e] = "received"
    /\ created[e] = 0 /\ ~Taken("av", e)
    /\ avStep' = [avStep EXCEPT ![e] = "checked"]
    /\ UNCHANGED <<acked, tasks, queueVars, workerVars, created, people, boundVars>>

\* The insert, unless create_lead's check or the index finds the number or the address, or
\* the source named is not one of AV's: an error, for which the gateway only has a log.
AvInsert(e) ==
    /\ avStep[e] = "checked"
    /\ IF e \in Sourceless \/ Refused("av", e) THEN UNCHANGED <<created, people>>
       ELSE AddLead("av", e)
    /\ avStep' = [avStep EXCEPT ![e] = "none"]
    /\ UNCHANGED <<acked, tasks, queueVars, workerVars, boundVars>>

\* AV answers 500, or goes down with the request.
AvFails(e) ==
    /\ avStep[e] # "none" /\ faults < MaxFaults
    /\ avStep' = [avStep EXCEPT ![e] = "none"]
    /\ faults' = faults + 1
    /\ UNCHANGED <<acked, tasks, queueVars, workerVars, created, people, deliveries, crashes>>

\* A user enters a lead with the number or the address.
EnterLead(t, p) ==
    /\ <<t, p>> \in Entered /\ p \notin people[t]
    /\ people' = [people EXCEPT ![t] = @ \cup {p}]
    /\ UNCHANGED <<acked, tasks, queueVars, workerVars, avStep, created, boundVars>>

\* The backoff passes.
BecomeDue(e) ==
    /\ status[e] = "pending" /\ ~due[e]
    /\ due' = [due EXCEPT ![e] = TRUE]
    /\ UNCHANGED <<acked, tasks, status, attempts, workerVars, leadVars, boundVars>>

\* A process restarts: its background tasks and its place in the cycle are lost.
Crash(w) ==
    /\ crashes < MaxCrashes
    /\ crashes' = crashes + 1
    /\ tasks' = [tasks EXCEPT ![w] = {}]
    /\ Abandon(w)
    /\ UNCHANGED <<acked, queueVars, leadVars, deliveries, faults>>

-----------------------------------------------------------------------------
EndpointStep(w) ==
    \E payload \in SUBSET Events :
        Deliver(w, payload) \/ Enqueue(w, payload) \/ EnqueueFails(w, payload)

WorkerStep(w) ==
    \/ Pick(w) \/ Take(w) \/ CycleEnds(w)
    \/ GraphFails(w) \/ Unrouted(w) \/ RoutedHere(w) \/ Forward(w)
    \/ ForwardFails(w) \/ ForwardReturns(w)
    \/ KnownHere(w) \/ NewHere(w) \/ InsertHere(w) \/ InsertRefused(w)
    \/ InsertConflicts(w) \/ MarkDone(w) \/ Retry(w) \/ DatabaseFault(w)

AvStep == \E e \in Events : AvKnown(e) \/ AvNew(e) \/ AvInsert(e) \/ AvFails(e)

Next ==
    \/ \E w \in Workers : EndpointStep(w) \/ WorkerStep(w) \/ Crash(w)
    \/ AvStep
    \/ \E t \in Tenants, p \in Addresses : EnterLead(t, p)
    \/ \E e \in Events : BecomeDue(e)

Spec == Init /\ [][Next]_vars

(***************************************************************************)
(* Fairness: background tasks run, the scheduler starts a cycle every      *)
(* twenty seconds and a cycle goes on to its end, a backoff passes, and AV *)
(* finishes the requests it received.  Neither Meta nor a user has to act. *)
(***************************************************************************)
FairSpec ==
    /\ Spec
    /\ \A w \in Workers :
          /\ WF_vars(WorkerStep(w))
          /\ \A payload \in SUBSET Events : WF_vars(Enqueue(w, payload))
    /\ \A e \in Events : /\ WF_vars(BecomeDue(e))
                         /\ WF_vars(AvKnown(e) \/ AvNew(e) \/ AvInsert(e))

-----------------------------------------------------------------------------
(* Safety.                                                                 *)

\* What a process has in its hands: the batch it has not come to, and the event
\* it is working on.
Held(w) == batch[w] \cup ({current[w]} \ {NoEvent})

\* "Safe to run on multiple workers": no event is in the hands of two processes,
\* and what is in a process's hands is marked processing.
ExclusiveProcessing ==
    /\ \A v, w \in Workers : v # w => Held(v) \cap Held(w) = {}
    /\ \A w \in Workers : \A e \in Held(w) : status[e] = "processing"

\* However often Meta delivers it, and although the checks for a known lead and
\* the insert are separate transactions, an event makes one lead at most.
OneLeadPerEvent == \A e \in Events : created[e] <= 1

\* An event that is done or failed stays so: redelivery does not revive it.
SettledStays ==
    [][\A e \in Events : status[e] \in {"done", "failed"} => status'[e] = status[e]]_vars

\* No event is attempted more than MaxAttempts times, and it fails only then.
GivesUpAtMaxAttempts ==
    \A e \in Events :
        /\ status[e] = "failed" => attempts[e] = MaxAttempts
        /\ status[e] \in {"pending", "processing"} => attempts[e] < MaxAttempts

-----------------------------------------------------------------------------
(* Liveness, under FairSpec, as far as no fault and no restart intervenes.  *)

Faulty == faults > 0 \/ crashes > 0

\* A process left the event behind: nobody works on it, and nobody picks it again.
Stranded(e) == status[e] = "processing" /\ \A w \in Workers : e \notin Held(w)

\* Every event whose webhook was answered with 200 is eventually done or failed for good:
\* it is stored, picked, and tried again until it succeeds or its attempts are used up.
\* Without a fault only a conflict on the unique index, with a lead that came in since,
\* strands it.
AckedIsSettled ==
    \A e \in Events :
        (e \in acked) ~> \/ status[e] \in {"done", "failed"} \/ Faulty
                        \/ (Stranded(e) /\ people["fmc"] # {})

\* A lead was made of it, or the tenant has one with its number or its address.
HasLead(e) == created[e] > 0 \/ Refused(Target[e], e)

\* "A Meta lead is never dropped": an event that is done, and was routed, has its person
\* among the tenant's leads, whatever faults and restarts came in between.  It may not
\* when the source of its routing row is missing, and when AV was down for a request the
\* gateway sends once.
DoneReachesTenant ==
    \A e \in Events :
        Target[e] # "none" /\ e \notin Sourceless =>
            ((status[e] = "done") ~> (HasLead(e) \/ (Target[e] = "av" /\ faults > 0)))

-----------------------------------------------------------------------------
(* What docstrings say and the code does not do.                           *)

\* "Survives ... restart-during-processing": what a worker picked does not stay in
\* processing.  After a restart, or a conflict on a unique index, it does.
PickedIsResolved ==
    \A e \in Events : (status[e] = "processing") ~> (status[e] # "processing" \/ faults > 0)
=============================================================================
