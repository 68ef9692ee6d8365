---------------------------- MODULE IntakeProofs ----------------------------
(***************************************************************************)
(* Where leads come from, for any workers, requests, files and posts.  The *)
(* queue first: who holds an event and what was made of it.  Then the      *)
(* entries: what a look-up ruled out is ruled out until contacts are       *)
(* written, one import is at work under the lock, and the leads made of a  *)
(* submission are the one it names and those about to be named.            *)
(***************************************************************************)
EXTENDS Intake, FiniteSetTheorems, TLAPS

-----------------------------------------------------------------------------
(* The queue: what is always true of a process and what it has in hand.    *)

\* Where a process is tells what it has in its hands.
Places ==
    \A w \in Workers :
        /\ current[w] = NoEvent <=> step[w] \in {"idle", "loop"}
        /\ step[w] = "idle" => batch[w] = {}
        /\ current[w] \notin batch[w]

Shape == Queue!TypeOK /\ Places /\ Queue!ExclusiveProcessing /\ Queue!GivesUpAtMaxAttempts

\* Nothing is queued, nothing is in anybody's hands.
LEMMA ShapeInit == Queue!Init => Shape
  BY QueueConstants
  DEF Queue!ConstantsAssumption, Queue!Init, Shape, Queue!TypeOK, Places,
      Queue!ExclusiveProcessing,
      Queue!GivesUpAtMaxAttempts, Queue!Held, Queue!EventStatus, Queue!Tenants

\* The endpoint adds pending events; nobody holds an event without a row.
LEMMA ShapeEndpoint ==
    ASSUME Shape, NEW w \in Workers, Queue!EndpointStep(w)
    PROVE  Shape'
<1> USE QueueConstants DEF Queue!ConstantsAssumption, Shape, Queue!TypeOK, Places,
                           Queue!ExclusiveProcessing,
        Queue!GivesUpAtMaxAttempts, Queue!Held, Queue!EventStatus, Queue!queueVars,
        Queue!workerVars, Queue!leadVars, Queue!boundVars
<1>1. PICK payload \in SUBSET Events :
         Queue!Deliver(w, payload) \/ Queue!Enqueue(w, payload) \/ Queue!EnqueueFails(w, payload)
  BY DEF Queue!EndpointStep
<1>2. CASE Queue!Deliver(w, payload)
  BY <1>2 DEF Queue!Deliver
<1>3. CASE Queue!Enqueue(w, payload)
  BY <1>3 DEF Queue!Enqueue, Queue!Fresh
<1>4. CASE Queue!EnqueueFails(w, payload)
  BY <1>4 DEF Queue!EnqueueFails
<1> QED
  BY <1>1, <1>2, <1>3, <1>4

\* A process that picks takes pending events, which nobody holds.
LEMMA ShapePick ==
    ASSUME Shape, NEW w \in Workers, Queue!Pick(w)
    PROVE  Shape'
<1> USE QueueConstants DEF Queue!ConstantsAssumption, Shape, Queue!TypeOK, Queue!EventStatus,
        Queue!queueVars, Queue!workerVars, Queue!leadVars, Queue!boundVars
<1>1. PICK chosen \in SUBSET {e \in Events : Queue!Pickable(e)} :
         /\ batch' = [batch EXCEPT ![w] = chosen]
         /\ status' = [e \in Events |-> IF e \in chosen THEN "processing" ELSE status[e]]
  BY DEF Queue!Pick
<1>2. \A e \in chosen : e \in Events /\ status[e] = "pending"
  BY <1>1 DEF Queue!Pickable
<1>3. Queue!TypeOK'
  BY <1>1, <1>2 DEF Queue!Pick
<1>4. Places'
  BY <1>1, <1>2 DEF Queue!Pick, Places
<1>5. \A v \in Workers : Queue!Held(v)' = IF v = w THEN chosen ELSE Queue!Held(v)
  BY <1>1 DEF Queue!Pick, Places, Queue!Held
<1>6. Queue!ExclusiveProcessing'
  <2>1. \A v \in Workers : Queue!Held(v) \subseteq Events /\ Queue!Held(v) \cap chosen = {}
    BY <1>2 DEF Queue!ExclusiveProcessing, Queue!Held
  <2>2. \A u, v \in Workers : u # v => Queue!Held(u)' \cap Queue!Held(v)' = {}
    BY <1>5, <2>1 DEF Queue!ExclusiveProcessing
  <2>3. \A v \in Workers : \A e \in Queue!Held(v)' : status'[e] = "processing"
    BY <1>1, <1>5, <2>1 DEF Queue!ExclusiveProcessing
  <2> QED
    BY <2>2, <2>3 DEF Queue!ExclusiveProcessing, Queue!Held
<1>7. Queue!GivesUpAtMaxAttempts'
  BY <1>1, <1>2 DEF Queue!Pick, Queue!GivesUpAtMaxAttempts
<1> QED
  BY <1>3, <1>4, <1>6, <1>7

\* A lead is known by a number and an address.
LEMMA Reached ==
    ASSUME NEW e \in Events
    PROVE  Queue!Reach(e) \subseteq Addresses
  BY QueueConstants DEF Queue!ConstantsAssumption, Queue!Reach

\* Everything else a process does moves an event on, or lets go of it.
LEMMA ShapeWorker ==
    ASSUME Shape, NEW w \in Workers, Queue!WorkerStep(w)
    PROVE  Shape'
<1> USE QueueConstants DEF Queue!ConstantsAssumption, Shape, Queue!TypeOK, Places,
                           Queue!ExclusiveProcessing,
        Queue!GivesUpAtMaxAttempts, Queue!Held, Queue!EventStatus, Queue!queueVars,
        Queue!workerVars, Queue!leadVars, Queue!boundVars
<1>1. CASE Queue!Pick(w)
  BY <1>1, ShapePick
<1>2. CASE Queue!Take(w)
  BY <1>2 DEF Queue!Take
<1>3. CASE Queue!CycleEnds(w)
  BY <1>3 DEF Queue!CycleEnds
<1>4. CASE \/ Queue!GraphFails(w) \/ Queue!Unrouted(w) \/ Queue!RoutedHere(w)
           \/ Queue!ForwardReturns(w)
           \/ Queue!KnownHere(w) \/ Queue!NewHere(w) \/ Queue!InsertRefused(w)
  BY <1>4, SMTT(60) DEF Queue!GraphFails, Queue!Unrouted, Queue!RoutedHere, Queue!ForwardReturns,
              Queue!KnownHere, Queue!NewHere,
              Queue!InsertRefused, Queue!Goto
<1>5. CASE Queue!Forward(w)
  BY <1>5 DEF Queue!Forward, Queue!Goto
<1>6. CASE Queue!ForwardFails(w)
  BY <1>6 DEF Queue!ForwardFails
<1>7. CASE Queue!InsertHere(w)
  <2>1. current[w] \in Events
    BY <1>7 DEF Queue!InsertHere
  <2>2. Queue!Reach(current[w]) \subseteq Addresses
    BY <2>1, Reached
  <2> QED
    BY <1>7, <2>1, <2>2 DEF Queue!InsertHere, Queue!Goto, Queue!AddLead, Queue!Tenants
<1>8. CASE Queue!InsertConflicts(w)
  BY <1>8 DEF Queue!InsertConflicts, Queue!Abandon
<1>9. CASE Queue!MarkDone(w)
  BY <1>9 DEF Queue!MarkDone
<1>10. CASE Queue!Retry(w)
  <2>1. current[w] \in Events /\ status[current[w]] = "processing"
    BY <1>10 DEF Queue!Retry
  <2>2. /\ attempts[current[w]] + 1 \in 0..MaxAttempts
        /\ attempts[current[w]] + 1 >= MaxAttempts => attempts[current[w]] + 1 = MaxAttempts
    BY <2>1, SMTT(60)
  <2> QED
    BY <1>10, <2>1, <2>2 DEF Queue!Retry, Queue!LastAttempt
<1>11. CASE Queue!DatabaseFault(w)
  BY <1>11 DEF Queue!DatabaseFault, Queue!Abandon
<1> QED
  BY <1>1, <1>2, <1>3, <1>4, <1>5, <1>6, <1>7, <1>8, <1>9, <1>10, <1>11 DEF Queue!WorkerStep

\* Neither AV nor users, the clock or a restart put anything into a process's hands.
LEMMA ShapeOthers ==
    ASSUME Shape,
           \/ \E w \in Workers : Queue!Crash(w)
           \/ Queue!AvStep
           \/ \E t \in Queue!Tenants, p \in Addresses : Queue!EnterLead(t, p)
           \/ \E e \in Events : Queue!BecomeDue(e)
    PROVE  Shape'
<1> USE QueueConstants DEF Queue!ConstantsAssumption, Shape, Queue!TypeOK, Places,
                           Queue!ExclusiveProcessing,
        Queue!GivesUpAtMaxAttempts, Queue!Held, Queue!EventStatus, Queue!queueVars,
        Queue!workerVars, Queue!leadVars, Queue!boundVars
<1>1. CASE \E w \in Workers : Queue!Crash(w)
  BY <1>1 DEF Queue!Crash, Queue!Abandon
<1>2. CASE Queue!AvStep
  <2>1. PICK e \in Events :
           Queue!AvKnown(e) \/ Queue!AvNew(e) \/ Queue!AvInsert(e) \/ Queue!AvFails(e)
    BY <1>2 DEF Queue!AvStep
  <2>2. CASE Queue!AvKnown(e) \/ Queue!AvNew(e) \/ Queue!AvFails(e)
    BY <2>2 DEF Queue!AvKnown, Queue!AvNew, Queue!AvFails
  <2>3. CASE Queue!AvInsert(e)
    BY <2>3, Reached DEF Queue!AvInsert, Queue!AddLead, Queue!Tenants
  <2> QED
    BY <2>1, <2>2, <2>3
<1>3. CASE \E t \in Queue!Tenants, p \in Addresses : Queue!EnterLead(t, p)
  BY <1>3 DEF Queue!EnterLead
<1>4. CASE \E e \in Events : Queue!BecomeDue(e)
  BY <1>4 DEF Queue!BecomeDue
<1> QED
  BY <1>1, <1>2, <1>3, <1>4

\* So every step keeps the shape.
LEMMA ShapeStep == Shape /\ [Queue!Next]_(Queue!vars) => Shape'
<1> SUFFICES ASSUME Shape, [Queue!Next]_(Queue!vars) PROVE Shape'
  OBVIOUS
<1>1. CASE UNCHANGED Queue!vars
  BY <1>1 DEF Queue!vars, Shape, Queue!TypeOK, Places, Queue!ExclusiveProcessing,
              Queue!GivesUpAtMaxAttempts, Queue!Held,
     Queue!queueVars, Queue!workerVars, Queue!leadVars, Queue!boundVars
<1>2. CASE Queue!Next
  BY <1>2, ShapeEndpoint, ShapeWorker, ShapeOthers DEF Queue!Next
<1> QED
  BY <1>1, <1>2

\* And every reachable state has it.
LEMMA ShapeAlways == Queue!Spec => []Shape
  BY ShapeInit, ShapeStep, PTL DEF Queue!Spec

-----------------------------------------------------------------------------
\* Every variable keeps its type; in particular no event is attempted more than
\* MaxAttempts times.
THEOREM QueueTypeCorrect == Queue!Spec => []Queue!TypeOK
  BY ShapeAlways, PTL DEF Shape

\* "Safe to run on multiple workers": no two processes ever work on one event.
THEOREM Exclusive == Queue!Spec => []Queue!ExclusiveProcessing
  BY ShapeAlways, PTL DEF Shape

\* An event is given up exactly when its attempts are used up.
THEOREM AttemptsUsedUp == Queue!Spec => []Queue!GivesUpAtMaxAttempts
  BY ShapeAlways, PTL DEF Shape

-----------------------------------------------------------------------------
(* Once a lead was made from an event, or is being made at AV, nobody is   *)
(* going to make another: the event is in nobody's batch, the process that *)
(* holds it has only the update to done left, and it is not pending.       *)

Used(e) == created[e] > 0 \/ avStep[e] # "none"

MadeOnce ==
    \A e \in Events :
        /\ created[e] <= 1
        /\ avStep[e] # "none" => created[e] = 0
        /\ Used(e) => /\ status[e] \in {"processing", "done"}
                      /\ \A w \in Workers : /\ e \notin batch[w]
                                            /\ current[w] = e => step[w] \in {"wait", "mark"}

\* No lead has been made.
LEMMA MadeInit == Queue!Init => MadeOnce
  BY QueueConstants DEF Queue!ConstantsAssumption, Queue!Init, MadeOnce, Used

\* A process makes a lead only of an event that is unused.
LEMMA MadeWorker ==
    ASSUME Shape, MadeOnce, NEW w \in Workers, Queue!WorkerStep(w)
    PROVE  MadeOnce'
<1> USE QueueConstants DEF Queue!ConstantsAssumption, Shape, Queue!TypeOK, Places,
                           Queue!ExclusiveProcessing,
        MadeOnce, Used, Queue!Held, Queue!EventStatus, Queue!queueVars,
        Queue!workerVars, Queue!leadVars, Queue!boundVars
<1>1. CASE Queue!Pick(w)
  BY <1>1 DEF Queue!Pick, Queue!Pickable
<1>2. CASE Queue!Take(w)
  BY <1>2 DEF Queue!Take
<1>3. CASE Queue!CycleEnds(w)
  BY <1>3 DEF Queue!CycleEnds
<1>4. CASE \/ Queue!GraphFails(w) \/ Queue!Unrouted(w) \/ Queue!RoutedHere(w)
           \/ Queue!ForwardReturns(w)
           \/ Queue!KnownHere(w) \/ Queue!NewHere(w) \/ Queue!InsertRefused(w)
  BY <1>4 DEF Queue!GraphFails, Queue!Unrouted, Queue!RoutedHere, Queue!ForwardReturns,
              Queue!KnownHere, Queue!NewHere,
              Queue!InsertRefused, Queue!Goto
<1>5. CASE Queue!Forward(w)
  BY <1>5 DEF Queue!Forward, Queue!Goto
<1>6. CASE Queue!ForwardFails(w)
  BY <1>6 DEF Queue!ForwardFails
<1>7. CASE Queue!InsertHere(w)
  BY <1>7 DEF Queue!InsertHere, Queue!Goto, Queue!AddLead
<1>8. CASE Queue!InsertConflicts(w)
  BY <1>8 DEF Queue!InsertConflicts, Queue!Abandon
<1>9. CASE Queue!MarkDone(w)
  BY <1>9 DEF Queue!MarkDone
<1>10. CASE Queue!Retry(w)
  BY <1>10 DEF Queue!Retry
<1>11. CASE Queue!DatabaseFault(w)
  BY <1>11 DEF Queue!DatabaseFault, Queue!Abandon
<1> QED
  BY <1>1, <1>2, <1>3, <1>4, <1>5, <1>6, <1>7, <1>8, <1>9, <1>10, <1>11 DEF Queue!WorkerStep

\* Every step keeps it; AV makes a lead of a request once, and forgets the request.
LEMMA MadeStep == Shape /\ MadeOnce /\ [Queue!Next]_(Queue!vars) => MadeOnce'
<1> SUFFICES ASSUME Shape, MadeOnce, [Queue!Next]_(Queue!vars) PROVE MadeOnce'
  OBVIOUS
<1> USE QueueConstants DEF Queue!ConstantsAssumption, Shape, Queue!TypeOK, MadeOnce, Used,
                           Queue!EventStatus,
        Queue!queueVars, Queue!workerVars, Queue!leadVars, Queue!boundVars
<1>1. CASE UNCHANGED Queue!vars
  BY <1>1 DEF Queue!vars
<1>2. CASE \E w \in Workers : Queue!WorkerStep(w)
  BY <1>2, MadeWorker
<1>3. CASE \E w \in Workers : Queue!EndpointStep(w)
  <2>1. PICK w \in Workers, payload \in SUBSET Events :
           \/ Queue!Deliver(w, payload) \/ Queue!Enqueue(w, payload)
           \/ Queue!EnqueueFails(w, payload)
    BY <1>3 DEF Queue!EndpointStep
  <2> QED
    BY <2>1 DEF Queue!Deliver, Queue!Enqueue, Queue!EnqueueFails, Queue!Fresh
<1>4. CASE Queue!AvStep
  <2>1. PICK e \in Events :
           Queue!AvKnown(e) \/ Queue!AvNew(e) \/ Queue!AvInsert(e) \/ Queue!AvFails(e)
    BY <1>4 DEF Queue!AvStep
  <2>2. CASE Queue!AvKnown(e) \/ Queue!AvNew(e) \/ Queue!AvFails(e)
    BY <2>2 DEF Queue!AvKnown, Queue!AvNew, Queue!AvFails
  <2>3. CASE Queue!AvInsert(e)
    BY <2>3 DEF Queue!AvInsert, Queue!AddLead
  <2> QED
    BY <2>1, <2>2, <2>3
<1>5. CASE \E w \in Workers : Queue!Crash(w)
  BY <1>5 DEF Queue!Crash, Queue!Abandon
<1>6. CASE \E t \in Queue!Tenants, p \in Addresses : Queue!EnterLead(t, p)
  BY <1>6 DEF Queue!EnterLead
<1>7. CASE \E e \in Events : Queue!BecomeDue(e)
  BY <1>7 DEF Queue!BecomeDue
<1> QED
  BY <1>1, <1>2, <1>3, <1>4, <1>5, <1>6, <1>7 DEF Queue!Next

\* However often it is delivered, whatever faults and restarts come in between, an
\* event makes one lead at most.
THEOREM OneLead == Queue!Spec => []OneLeadPerEvent
<1>1. MadeOnce => OneLeadPerEvent
  BY DEF MadeOnce, OneLeadPerEvent, Queue!OneLeadPerEvent
<1> QED
  BY <1>1, MadeInit, MadeStep, ShapeAlways, PTL DEF Queue!Spec

-----------------------------------------------------------------------------
\* Only a process that holds an event changes the status of its row, once it has
\* one that is not pending.
LEMMA SettledStep ==
    ASSUME Shape, Queue!Next
    PROVE  \A e \in Events : status[e] \in {"done", "failed"} => status'[e] = status[e]
<1> USE QueueConstants DEF Queue!ConstantsAssumption, Shape, Queue!TypeOK, Places,
                           Queue!ExclusiveProcessing,
        Queue!Held, Queue!EventStatus, Queue!queueVars, Queue!workerVars, Queue!leadVars,
        Queue!boundVars
<1>1. CASE \E w \in Workers : Queue!WorkerStep(w)
  <2>1. PICK w \in Workers : Queue!WorkerStep(w)
    BY <1>1
  <2>2. CASE Queue!Pick(w)
    BY <2>2 DEF Queue!Pick, Queue!Pickable
  <2>3. CASE Queue!MarkDone(w) \/ Queue!Retry(w)
    BY <2>3 DEF Queue!MarkDone, Queue!Retry
  <2>4. CASE status' = status
    BY <2>4
  <2> QED
    BY <2>1, <2>2, <2>3, <2>4
    DEF Queue!WorkerStep, Queue!Take, Queue!CycleEnds, Queue!GraphFails, Queue!Unrouted,
        Queue!RoutedHere, Queue!Forward, Queue!ForwardFails,
        Queue!ForwardReturns, Queue!KnownHere, Queue!NewHere, Queue!InsertHere,
        Queue!InsertRefused, Queue!InsertConflicts,
        Queue!DatabaseFault, Queue!Abandon, Queue!Goto
<1>2. CASE \E w \in Workers : Queue!EndpointStep(w)
  <2>1. PICK w \in Workers, payload \in SUBSET Events :
           \/ Queue!Deliver(w, payload) \/ Queue!Enqueue(w, payload)
           \/ Queue!EnqueueFails(w, payload)
    BY <1>2 DEF Queue!EndpointStep
  <2> QED
    BY <2>1 DEF Queue!Deliver, Queue!Enqueue, Queue!EnqueueFails, Queue!Fresh
<1>3. CASE \/ \E w \in Workers : Queue!Crash(w)
           \/ Queue!AvStep
           \/ \E t \in Queue!Tenants, p \in Addresses : Queue!EnterLead(t, p)
           \/ \E e \in Events : Queue!BecomeDue(e)
  BY <1>3 DEF Queue!Crash, Queue!AvStep, Queue!AvKnown, Queue!AvNew, Queue!AvInsert,
              Queue!AvFails, Queue!EnterLead, Queue!BecomeDue
<1> QED
  BY <1>1, <1>2, <1>3 DEF Queue!Next

\* A redelivered webhook, a late worker, a restart: nothing revives an event that
\* is done or failed.
THEOREM SettledForGood == Queue!Spec => Queue!SettledStays
<1>1. Shape /\ [Queue!Next]_(Queue!vars)
        => [\A e \in Events : status[e] \in {"done", "failed"}
                => status'[e] = status[e]]_(Queue!vars)
  BY SettledStep DEF Queue!vars
<1> QED
  BY <1>1, ShapeAlways, PTL DEF Queue!Spec, Queue!SettledStays

-----------------------------------------------------------------------------
(* The entries: what is always true of a request in flight.                *)

Inserting ==
    [at : {"insert"}, batch : SUBSET Contacts, via : {"form", "import", "upload"},
     form : Submissions \cup {NoForm}, seen : Posts \cup {Absent},
     on : Connections \cup {NoConnection}, late : BOOLEAN]
Editing == [at : {"edit"}, lead : 1..MaxLeads, contact : Contacts, late : BOOLEAN]
Importing == [at : {"lock", "look"}, file : SUBSET Contacts, on : Connections]
Unlocking == [at : {"unlock"}, on : Connections]
Reviewing == [at : {"review"}, form : Submissions, seen : Posts, to : Posts]

\* What a conversion or a review has read could still be decided on.
Open(f, seen) == seen \in Posts /\ seen.status # "converted" /\ inbox[f] \in Posts

\* A number in a spelling that has a key: every spelling of it is found by it.
Keyed(c) == c.kind = "phone" /\ ~Keyless(c)

\* A batch is as its look-up left it.  What the look-up of a form or an import ruled out
\* is ruled out until contacts are written; and nobody but this import imports.
InsertFine(q) ==
    /\ IsFiniteSet(q.batch)
    /\ q.via = "form" => \A c, d \in q.batch : c = d
    /\ q.via = "import" => q.on \in Connections /\ q.form = NoForm
    /\ q.form # NoForm => q.via = "form" /\ q.batch # {} /\ Open(q.form, q.seen)
    /\ ~q.late =>
          \A c \in q.batch :
              q.via = "form" \/ (q.via = "import" /\ Keyed(c)) => ~Known(c, Live)
    /\ q.via = "import" =>
          \A c \in q.batch : Keyed(c) =>
              \A i \in Live : leads[i].via = "import" => ~Same(leads[i].contact, c)

EditFine(q) ==
    /\ q.lead \in DOMAIN leads
    /\ ~q.late => ~Known(q.contact, Live \ {q.lead})

Fine(q) ==
    \/ q = Idle
    \/ q \in Inserting /\ InsertFine(q)
    \/ q \in Editing /\ EditFine(q)
    \/ q \in Importing /\ IsFiniteSet(q.file)
    \/ q \in Unlocking
    \/ /\ q \in Reviewing /\ Open(q.form, q.seen)
       /\ q.to.lead \in {0} \cup DOMAIN leads

Requested == DOMAIN req = Requests /\ \A r \in Requests : Fine(req[r])

\* Imports are on connections of their own; those that look and insert hold the lock.
Imports(q) == q.at \in {"lock", "look", "unlock"} \/ (q.at = "insert" /\ q.via = "import")
Holds(q) == q.at = "look" \/ (q.at = "insert" /\ q.via = "import")

LockedOnce ==
    /\ locked \in [Connections -> Nat]
    /\ \A c, d \in Connections : locked[c] > 0 /\ locked[d] > 0 => c = d
    /\ \A r, s \in Requests :
           Imports(req[r]) /\ Imports(req[s]) /\ req[r].on = req[s].on => r = s
    /\ \A r \in Requests : Holds(req[r]) => locked[req[r].on] > 0

\* The leads made of a submission are the one it names and those about to be named.
Converts(q, f) == q.at = "review" /\ q.form = f /\ q.to.status = "converted"

Named(f, i) ==
    \/ inbox[f].status = "converted" /\ inbox[f].lead = i
    \/ \E r \in Requests : Converts(req[r], f) /\ req[r].to.lead = i

Told == ~crossed => \A f \in Submissions : \A i : i \in MadeOf(f) <=> Named(f, i)

Kept ==
    /\ leads \in Seq(Leads) /\ Len(leads) <= MaxLeads
    /\ inbox \in [Submissions -> Posts \cup {Absent}]
    /\ \A f \in Submissions : inbox[f] = Absent \/ inbox[f].lead \in {0} \cup DOMAIN leads
    /\ crossed \in BOOLEAN /\ served \in 0..MaxRequests

EntryInv ==
    /\ Kept /\ Requested /\ LockedOnce /\ Told
    /\ OnePersonOneLead /\ ImportsSeeEachOther

\* Where a request is tells what it carries.
LEMMA Kinds ==
    ASSUME NEW q, Fine(q)
    PROVE  /\ q.at \in {"idle", "insert", "edit", "lock", "look", "unlock", "review"}
           /\ q.at = "idle" => q = Idle
           /\ q.at = "insert" => q \in Inserting /\ InsertFine(q)
           /\ q.at = "edit" => q \in Editing /\ EditFine(q)
           /\ q.at \in {"lock", "look"} => q \in Importing /\ IsFiniteSet(q.file)
           /\ q.at = "unlock" => q \in Unlocking
           /\ q.at = "review" => /\ q \in Reviewing /\ Open(q.form, q.seen)
                                 /\ q.to.lead \in {0} \cup DOMAIN leads
<1>1. Idle.at = "idle"
  BY DEF Idle
<1>2. /\ q \in Inserting => q.at = "insert"
      /\ q \in Editing => q.at = "edit"
      /\ q \in Importing => q.at \in {"lock", "look"}
      /\ q \in Unlocking => q.at = "unlock"
      /\ q \in Reviewing => q.at = "review"
  BY DEF Inserting, Editing, Importing, Unlocking, Reviewing
<1> QED
  BY <1>1, <1>2 DEF Fine

\* Somebody is known to fewer when there are fewer.
LEMMA FewerKnown ==
    ASSUME NEW S, NEW T, S \subseteq T, NEW c, ~Known(c, T)
    PROVE  ~Known(c, S)
  BY DEF Known

\* A request goes on, and no row changes.
LEMMA GoesOn ==
    ASSUME Requested, NEW r \in Requests, NEW to, Goes(r, to), Fine(to),
           UNCHANGED <<leads, inbox>>
    PROVE  Requested' /\ req'[r] = to /\ \A s \in Requests \ {r} : req'[s] = req[s]
<1>1. DOMAIN req' = Requests /\ req'[r] = to /\ \A s \in Requests \ {r} : req'[s] = req[s]
  BY DEF Goes, Requested
<1>2. \A q : Fine(q)' <=> Fine(q)
  BY DEF Fine, InsertFine, EditFine, Open, Known, Live
<1>3. \A s \in Requests : Fine(req'[s])
  BY <1>1 DEF Requested
<1>4. ASSUME NEW s \in Requests PROVE Fine(req[s])'
  <2>1. PICK q : q = req'[s]
    OBVIOUS
  <2>2. Fine(q)'
    BY <1>2, <1>3, <2>1
  <2> QED
    BY <2>1, <2>2 DEF Fine, InsertFine, EditFine, Open, Known, Live
<1> QED
  BY <1>1, <1>4 DEF Requested

-----------------------------------------------------------------------------
(* What moves of one request leave as it was.                              *)

\* The lock stays with who has it when a request goes on from one import's place to
\* the next on its connection, or on a connection that is spare.
LEMMA LockStays ==
    ASSUME LockedOnce, NEW r \in Requests, UNCHANGED locked,
           \A s \in Requests \ {r} : /\ Imports(req'[s]) <=> Imports(req[s])
                                     /\ Holds(req'[s]) <=> Holds(req[s])
                                     /\ Imports(req[s]) => req'[s].on = req[s].on,
           Imports(req'[r]) => \/ Imports(req[r]) /\ req'[r].on = req[r].on
                               \/ \A s \in Requests \ {r} :
                                      Imports(req[s]) => req[s].on # req'[r].on,
           Holds(req'[r]) => Holds(req[r]) /\ req'[r].on = req[r].on
    PROVE  LockedOnce'
<1>1. \A q : Holds(q) => Imports(q)
  BY DEF Holds, Imports
<1>2. ASSUME NEW s \in Requests, NEW q \in Requests, Imports(req'[s]), Imports(req'[q]),
             req'[s].on = req'[q].on
      PROVE  s = q
  <2>1. CASE s # r /\ q # r
    BY <1>2, <2>1 DEF LockedOnce
  <2>2. CASE s = r \/ q = r
    BY <1>2, <2>2 DEF LockedOnce
  <2> QED
    BY <2>1, <2>2
<1>3. \A s \in Requests : Holds(req'[s]) => locked'[req'[s].on] > 0
  BY <1>1 DEF LockedOnce
<1> QED
  BY <1>2, <1>3 DEF LockedOnce, Holds, Imports

\* Who has the lock is one; others wait.
LEMMA OneHolds ==
    ASSUME LockedOnce, Requested, NEW r \in Requests, NEW s \in Requests,
           Holds(req[r]), Holds(req[s])
    PROVE  r = s
<1>1. \A q \in Requests : Holds(req[q]) => Imports(req[q]) /\ req[q].on \in Connections
  BY Kinds DEF Requested, Holds, Imports, InsertFine, Importing
<1>2. req[r].on = req[s].on
  BY <1>1 DEF LockedOnce
<1> QED
  BY <1>1, <1>2 DEF LockedOnce

\* Told stays when no conversion comes, goes or is cut off.
LEMMA ToldStays ==
    ASSUME Told, crossed \in BOOLEAN,
           \A f \in Submissions : /\ MadeOf(f)' = MadeOf(f)
                                  /\ inbox'[f].status = "converted" <=> inbox[f].status = "converted"
                                  /\ inbox[f].status = "converted" => inbox'[f].lead = inbox[f].lead,
           \A f \in Submissions, s \in Requests :
               /\ Converts(req'[s], f) <=> Converts(req[s], f)
               /\ Converts(req[s], f) => req'[s].to.lead = req[s].to.lead,
           crossed \/ crossed' => crossed'
    PROVE  Told'
<1>1. ASSUME NEW f \in Submissions, NEW i PROVE Named(f, i)' <=> Named(f, i)
  BY DEF Named, Converts
<1>2. CASE crossed'
  BY <1>2 DEF Told
<1>3. CASE ~crossed'
  <2>1. ~crossed
    BY <1>3
  <2>2. \A f \in Submissions : \A i : (i \in MadeOf(f))' <=> Named(f, i)'
    BY <1>1, <2>1 DEF Told
  <2> QED
    BY <2>2 DEF Told
<1> QED
  BY <1>2, <1>3

\* The rows are what they were.
LEMMA RowsStay ==
    ASSUME UNCHANGED leads
    PROVE  /\ OnePersonOneLead' <=> OnePersonOneLead
           /\ ImportsSeeEachOther' <=> ImportsSeeEachOther
           /\ \A f : MadeOf(f)' = MadeOf(f)
  BY DEF OnePersonOneLead, ImportsSeeEachOther, Live, Twins, Same, Together, Overlooked, MadeOf

\* Everything but the lock, for a request that only goes on.
LEMMA OnlyGoes ==
    ASSUME EntryInv, NEW r \in Requests, NEW to, Goes(r, to), UNCHANGED <<leads, inbox, crossed>>,
           Fine(to), served' \in 0..MaxRequests,
           req[r].at # "review" \/ req[r].to.status # "converted",
           to.at # "review" \/ to.to.status # "converted"
    PROVE  /\ Kept' /\ Requested' /\ Told' /\ OnePersonOneLead' /\ ImportsSeeEachOther'
           /\ req'[r] = to /\ \A s \in Requests \ {r} : req'[s] = req[s]
<1>1. Requested' /\ req'[r] = to /\ \A s \in Requests \ {r} : req'[s] = req[s]
  BY GoesOn DEF EntryInv
<1>2. Kept'
  BY DEF EntryInv, Kept
<1>3. OnePersonOneLead' /\ ImportsSeeEachOther' /\ \A f : MadeOf(f)' = MadeOf(f)
  BY RowsStay DEF EntryInv
<1>4. \A f \in Submissions, s \in Requests :
         /\ Converts(req'[s], f) <=> Converts(req[s], f)
         /\ Converts(req[s], f) => req'[s].to.lead = req[s].to.lead
  BY <1>1 DEF Converts
<1>5. Told'
  <2>1. crossed \in BOOLEAN /\ (crossed \/ crossed' => crossed')
    BY DEF EntryInv, Kept
  <2> QED
    BY <1>3, <1>4, <2>1, ToldStays DEF EntryInv
<1> QED
  BY <1>1, <1>2, <1>3, <1>5

\* ... and for one that is no import and becomes none.
LEMMA NoImport ==
    ASSUME EntryInv, NEW r \in Requests, NEW to, Goes(r, to),
           UNCHANGED <<leads, inbox, locked, crossed>>,
           Fine(to), served' \in 0..MaxRequests,
           req[r].at # "review" \/ req[r].to.status # "converted",
           to.at # "review" \/ to.to.status # "converted", ~Imports(to)
    PROVE  EntryInv'
<1>1. /\ Kept' /\ Requested' /\ Told' /\ OnePersonOneLead' /\ ImportsSeeEachOther'
      /\ req'[r] = to /\ \A s \in Requests \ {r} : req'[s] = req[s]
  BY OnlyGoes
<1>2. LockedOnce'
  <2>1. ~Imports(req'[r]) /\ ~Holds(req'[r])
    BY <1>1 DEF Imports, Holds
  <2> QED
    BY <1>1, <2>1, LockStays DEF EntryInv
<1> QED
  BY <1>1, <1>2 DEF EntryInv

LEMMA Beginning ==
    ASSUME EntryInv, NEW r \in Requests, Begins(r)
    PROVE  req[r].at = "idle" /\ served' \in 0..MaxRequests
  BY EntryConstants DEF EntryConstants, Begins, Idle, EntryInv, Kept

\* The form's look-up.
LEMMA EnterStep ==
    ASSUME EntryInv, NEW r \in Requests, Enter(r)
    PROVE  EntryInv'
<1>1. PICK c \in Contacts :
         ~Known(c, Live) /\ Goes(r, Batch({c}, "form", NoForm, Absent, NoConnection))
  BY DEF Enter
<1> DEFINE to == Batch({c}, "form", NoForm, Absent, NoConnection)
<1>2. /\ to \in Inserting /\ to.at = "insert" /\ to.batch = {c} /\ to.via = "form"
      /\ to.form = NoForm /\ to.late = FALSE
  BY DEF Batch, Inserting
<1>3. InsertFine(to)
  BY <1>1, <1>2, FS_Singleton DEF InsertFine
<1>4. Fine(to) /\ ~Imports(to) /\ Goes(r, to)
  BY <1>1, <1>2, <1>3 DEF Fine, Imports
<1> HIDE DEF to
<1> QED
  BY <1>2, <1>4, NoImport, Beginning DEF Enter

\* The numbers of a campaign's file that are not there as they are spelt.
LEMMA UploadStep ==
    ASSUME EntryInv, NEW r \in Requests, Upload(r)
    PROVE  EntryInv'
<1>1. PICK F \in Files :
         Goes(r, Batch(F \ {leads[i].contact : i \in Live}, "upload", NoForm, Absent,
                       NoConnection))
  BY DEF Upload
<1> DEFINE new == F \ {leads[i].contact : i \in Live}
           to == Batch(new, "upload", NoForm, Absent, NoConnection)
<1>2. new \subseteq Contacts /\ IsFiniteSet(new)
  <2>1. new \in SUBSET F /\ F \subseteq Contacts /\ IsFiniteSet(F)
    BY DEF Files
  <2> HIDE DEF new
  <2> QED
    BY <2>1, FS_Subset
<1> HIDE DEF new
<1>3. /\ to \in Inserting /\ to.at = "insert" /\ to.batch = new /\ to.via = "upload"
      /\ to.form = NoForm /\ to.late = FALSE
  BY <1>2 DEF Batch, Inserting
<1>4. InsertFine(to)
  BY <1>2, <1>3 DEF InsertFine
<1>5. Fine(to) /\ ~Imports(to) /\ Goes(r, to)
  BY <1>1, <1>3, <1>4 DEF Fine, Imports, new
<1> HIDE DEF to
<1> QED
  BY <1>3, <1>5, NoImport, Beginning DEF Upload

LEMMA EditLookStep ==
    ASSUME EntryInv, NEW r \in Requests, EditLook(r)
    PROVE  EntryInv'
<1>1. PICK i \in Live, c \in Contacts :
         /\ ~Known(c, Live \ {i})
         /\ Goes(r, [at |-> "edit", lead |-> i, contact |-> c, late |-> FALSE])
  BY DEF EditLook
<1> DEFINE to == [at |-> "edit", lead |-> i, contact |-> c, late |-> FALSE]
<1>2. i \in DOMAIN leads /\ i \in 1..MaxLeads
  BY EntryConstants DEF EntryConstants, Live, EntryInv, Kept
<1>3. to \in Editing /\ to.at = "edit" /\ EditFine(to)
  BY <1>1, <1>2 DEF Editing, EditFine
<1>4. Fine(to) /\ ~Imports(to) /\ Goes(r, to)
  BY <1>1, <1>3 DEF Fine, Imports
<1> HIDE DEF to
<1> QED
  BY <1>3, <1>4, NoImport, Beginning DEF EditLook

\* A request that is done, or refused, before it has decided on a conversion.
LEMMA Done ==
    ASSUME EntryInv, NEW r \in Requests, Goes(r, Idle),
           UNCHANGED <<leads, inbox, locked, crossed, served>>,
           req[r].at # "review" \/ req[r].to.status # "converted"
    PROVE  EntryInv'
<1>1. Fine(Idle) /\ ~Imports(Idle) /\ Idle.at # "review" /\ served' \in 0..MaxRequests
  BY DEF Fine, Idle, Imports, EntryInv, Kept
<1> QED
  BY <1>1, NoImport

LEMMA RefuseStep ==
    ASSUME EntryInv, NEW r \in Requests, Refuse(r) \/ ImportFails(r) \/ TimeOut(r)
    PROVE  EntryInv'
  BY Done DEF Refuse, ImportFails, TimeOut

-----------------------------------------------------------------------------
(* The import.                                                             *)

\* A spare connection is no import's.
LEMMA SpareIsNobodys ==
    ASSUME Requested, NEW c, Spare(c), NEW s \in Requests, Imports(req[s])
    PROVE  req[s].on # c
  BY DEF Spare, Imports

LEMMA ImportBeginsStep ==
    ASSUME EntryInv, NEW r \in Requests, ImportBegins(r)
    PROVE  EntryInv'
<1>1. PICK F \in Files, c \in Connections :
         Spare(c) /\ Goes(r, [at |-> "lock", file |-> F, on |-> c])
  BY DEF ImportBegins
<1> DEFINE to == [at |-> "lock", file |-> F, on |-> c]
<1>2. to \in Importing /\ IsFiniteSet(to.file) /\ to.at = "lock" /\ to.on = c
  BY DEF Importing, Files
<1>3. Fine(to) /\ Goes(r, to) /\ ~Holds(to)
  BY <1>1, <1>2 DEF Fine, Holds
<1> HIDE DEF to
<1>4. /\ req[r].at = "idle" /\ served' \in 0..MaxRequests
      /\ UNCHANGED <<leads, inbox, locked, crossed>>
  BY Beginning DEF ImportBegins
<1>5. /\ Kept' /\ Requested' /\ Told' /\ OnePersonOneLead' /\ ImportsSeeEachOther'
      /\ req'[r] = to /\ \A s \in Requests \ {r} : req'[s] = req[s]
  BY <1>2, <1>3, <1>4, OnlyGoes
<1>6. LockedOnce'
  <2>1. \A s \in Requests \ {r} : Imports(req[s]) => req[s].on # req'[r].on
    BY <1>1, <1>2, <1>5, SpareIsNobodys DEF EntryInv
  <2> QED
    BY <1>3, <1>4, <1>5, <2>1, LockStays DEF EntryInv
<1> QED
  BY <1>5, <1>6 DEF EntryInv

LEMMA LockStep ==
    ASSUME EntryInv, NEW r \in Requests, Lock(r)
    PROVE  EntryInv'
<1> DEFINE to == [req[r] EXCEPT !.at = "look"]
           c == req[r].on
<1>1. /\ req[r].at = "lock" /\ req[r] \in Importing /\ IsFiniteSet(req[r].file)
      /\ Goes(r, to) /\ UNCHANGED <<leads, inbox, crossed, served>>
  BY Kinds DEF Lock, EntryInv, Requested
<1>2. /\ to \in Importing /\ to.file = req[r].file /\ to.at = "look"
      /\ to.on = c /\ c \in Connections
  BY <1>1 DEF Importing
<1>3. Fine(to) /\ Goes(r, to)
  BY <1>1, <1>2 DEF Fine
<1>4. \A d \in Connections \ {c} : locked[d] = 0
  BY DEF Lock
<1>5. locked' = [locked EXCEPT ![c] = @ + 1]
  BY DEF Lock
<1> HIDE DEF to, c
<1>6. /\ Kept' /\ Requested' /\ Told' /\ OnePersonOneLead' /\ ImportsSeeEachOther'
      /\ req'[r] = to /\ \A s \in Requests \ {r} : req'[s] = req[s]
  BY <1>1, <1>2, <1>3, OnlyGoes DEF EntryInv, Kept
<1>7. LockedOnce'
  <2>1. /\ locked' \in [Connections -> Nat] /\ locked'[c] > 0
        /\ \A d \in Connections \ {c} : locked'[d] = 0
    BY <1>2, <1>4, <1>5 DEF EntryInv, LockedOnce
  <2>2. \A s \in Requests \ {r} : Holds(req[s]) => Imports(req[s]) /\ locked[req[s].on] > 0
    BY DEF EntryInv, LockedOnce, Holds, Imports
  <2>3. \A s \in Requests : /\ Imports(req'[s]) <=> Imports(req[s])
                            /\ Imports(req[s]) => req'[s].on = req[s].on
    BY <1>1, <1>2, <1>6 DEF Imports, c
  <2>4. \A s \in Requests \ {r} : Holds(req'[s]) => Holds(req[s])
    BY <1>6 DEF Holds
  <2>5. ASSUME NEW s \in Requests, Holds(req'[s]) PROVE locked'[req'[s].on] > 0
    <3>1. CASE s = r
      BY <1>2, <1>6, <2>1, <3>1
    <3>2. CASE s # r
      <4>1. Imports(req[s]) /\ locked[req[s].on] > 0 /\ req[s].on \in Connections
        <5>1. Holds(req[s]) /\ Fine(req[s])
          BY <2>4, <2>5, <3>2 DEF EntryInv, Requested
        <5>2. req[s].on \in Connections
          BY <5>1, Kinds DEF Holds, InsertFine, Importing
        <5> QED
          BY <2>2, <3>2, <5>1, <5>2
      <4>2. req[s].on = c
        BY <1>4, <4>1
      <4> QED
        BY <2>1, <2>3, <4>1, <4>2
    <3> QED
      BY <3>1, <3>2
  <2>6. \A d, e \in Connections : locked'[d] > 0 /\ locked'[e] > 0 => d = e
    BY <2>1
  <2>7. \A s, q \in Requests :
            Imports(req'[s]) /\ Imports(req'[q]) /\ req'[s].on = req'[q].on => s = q
    BY <2>3 DEF EntryInv, LockedOnce
  <2> QED
    BY <2>1, <2>5, <2>6, <2>7 DEF LockedOnce, Imports, Holds
<1> QED
  BY <1>6, <1>7 DEF EntryInv

\* What it does not find by number nobody has; its own kind is not at work.
LEMMA ImportLookStep ==
    ASSUME EntryInv, NEW r \in Requests, ImportLook(r)
    PROVE  EntryInv'
<1> DEFINE new == {c \in req[r].file : ~ImportKnows(c, req[r].file)}
           to == Batch(new, "import", NoForm, Absent, req[r].on)
<1>1. /\ req[r].at = "look" /\ req[r] \in Importing /\ IsFiniteSet(req[r].file)
      /\ Goes(r, to) /\ UNCHANGED <<leads, inbox, locked, crossed, served>>
  BY Kinds DEF ImportLook, EntryInv, Requested
<1>2. new \subseteq Contacts /\ IsFiniteSet(new)
  <2>1. new \in SUBSET req[r].file /\ req[r].file \subseteq Contacts
    BY <1>1 DEF Importing
  <2> HIDE DEF new
  <2> QED
    BY <1>1, <2>1, FS_Subset
<1>3. \A c \in new : Keyed(c) => ~Known(c, Live)
  BY DEF ImportKnows, Keyed
<1> HIDE DEF new
<1>4. /\ to \in Inserting /\ to.at = "insert" /\ to.batch = new /\ to.via = "import"
      /\ to.form = NoForm /\ to.late = FALSE /\ to.on = req[r].on /\ to.on \in Connections
  BY <1>1, <1>2 DEF Batch, Inserting, Importing
<1>5. InsertFine(to)
  <2>1. \A c \in new, i \in Live : Keyed(c) => ~Same(leads[i].contact, c)
    BY <1>3 DEF Known, Keyed
  <2> QED
    BY <1>2, <1>3, <1>4, <2>1 DEF InsertFine
<1>6. Fine(to) /\ Goes(r, to)
  BY <1>1, <1>4, <1>5 DEF Fine
<1> HIDE DEF to
<1>7. /\ Kept' /\ Requested' /\ Told' /\ OnePersonOneLead' /\ ImportsSeeEachOther'
      /\ req'[r] = to /\ \A s \in Requests \ {r} : req'[s] = req[s]
  BY <1>1, <1>4, <1>6, OnlyGoes DEF EntryInv, Kept
<1>8. LockedOnce'
  <2>1. Holds(req[r]) /\ Imports(req[r])
    BY <1>1 DEF Holds, Imports
  <2> QED
    BY <1>1, <1>4, <1>7, <2>1, LockStays DEF EntryInv
<1> QED
  BY <1>7, <1>8 DEF EntryInv

LEMMA ImportNothingStep ==
    ASSUME EntryInv, NEW r \in Requests, ImportNothing(r)
    PROVE  EntryInv'
<1> DEFINE to == [at |-> "unlock", on |-> req[r].on]
<1>1. /\ req[r].at = "look" /\ req[r] \in Importing
      /\ Goes(r, to) /\ UNCHANGED <<leads, inbox, locked, crossed, served>>
  BY Kinds DEF ImportNothing, EntryInv, Requested
<1>2. Fine(to) /\ to.at = "unlock" /\ to.on = req[r].on /\ ~Holds(to)
  BY <1>1 DEF Fine, Importing, Unlocking, Holds
<1> HIDE DEF to
<1>3. /\ Kept' /\ Requested' /\ Told' /\ OnePersonOneLead' /\ ImportsSeeEachOther'
      /\ req'[r] = to /\ \A s \in Requests \ {r} : req'[s] = req[s]
  BY <1>1, <1>2, OnlyGoes DEF EntryInv, Kept
<1>4. LockedOnce'
  <2>1. Imports(req[r])
    BY <1>1 DEF Imports
  <2> QED
    BY <1>1, <1>2, <1>3, <2>1, LockStays DEF EntryInv
<1> QED
  BY <1>3, <1>4 DEF EntryInv

\* The lock of a connection nobody looks or inserts on goes down.
LEMMA LockLowered ==
    ASSUME LockedOnce, NEW c \in Connections, NEW n \in Nat, n <= locked[c],
           locked' = [locked EXCEPT ![c] = n],
           \A s \in Requests : /\ Imports(req'[s]) => Imports(req[s]) /\ req'[s].on = req[s].on
                               /\ Holds(req'[s]) => Holds(req[s]) /\ req[s].on # c
    PROVE  LockedOnce'
<1>1. /\ locked' \in [Connections -> Nat]
      /\ \A d \in Connections : locked'[d] > 0 => locked[d] > 0
      /\ \A d : d # c => locked'[d] = locked[d]
  BY DEF LockedOnce
<1>2. \A s \in Requests : Holds(req'[s]) => Imports(req'[s])
  BY DEF Holds, Imports
<1>3. \A s \in Requests : Holds(req'[s]) => locked'[req'[s].on] > 0
  BY <1>1, <1>2 DEF LockedOnce
<1>4. \A d, e \in Connections : locked'[d] > 0 /\ locked'[e] > 0 => d = e
  BY <1>1 DEF LockedOnce
<1>5. \A s, q \in Requests :
          Imports(req'[s]) /\ Imports(req'[q]) /\ req'[s].on = req'[q].on => s = q
  BY DEF LockedOnce
<1> QED
  BY <1>1, <1>3, <1>4, <1>5 DEF LockedOnce, Imports, Holds

LEMMA UnlockStep ==
    ASSUME EntryInv, NEW r \in Requests, Unlock(r)
    PROVE  EntryInv'
<1> DEFINE c == req[r].on
           n == IF locked[c] = 0 THEN 0 ELSE locked[c] - 1
<1>1. /\ req[r].at = "unlock" /\ req[r] \in Unlocking
      /\ Goes(r, Idle) /\ UNCHANGED <<leads, inbox, crossed, served>>
  BY Kinds DEF Unlock, EntryInv, Requested
<1>2. Fine(Idle) /\ Idle.at = "idle"
  BY DEF Fine, Idle
<1>3. /\ Kept' /\ Requested' /\ Told' /\ OnePersonOneLead' /\ ImportsSeeEachOther'
      /\ req'[r] = Idle /\ \A s \in Requests \ {r} : req'[s] = req[s]
  BY <1>1, <1>2, OnlyGoes DEF EntryInv, Kept
<1>4. LockedOnce'
  <2>1. c \in Connections /\ locked[c] \in Nat
    BY <1>1 DEF Unlocking, EntryInv, LockedOnce
  <2>2. n \in Nat /\ n <= locked[c]
    BY <2>1
  <2>3. locked' = [locked EXCEPT ![c] = n]
    BY DEF Unlock
  <2> HIDE DEF n
  <2>4. ~Imports(req'[r]) /\ ~Holds(req'[r]) /\ Imports(req[r])
    BY <1>1, <1>2, <1>3 DEF Imports, Holds
  <2>5. \A s \in Requests \ {r} : Holds(req[s]) => req[s].on # c
    <3>1. \A s \in Requests : Holds(req[s]) => Imports(req[s])
      BY DEF Holds, Imports
    <3> QED
      BY <2>4, <3>1 DEF EntryInv, LockedOnce
  <2>6. \A s \in Requests : /\ Imports(req'[s]) => Imports(req[s]) /\ req'[s].on = req[s].on
                            /\ Holds(req'[s]) => Holds(req[s]) /\ req[s].on # c
    BY <1>3, <2>4, <2>5
  <2> HIDE DEF c
  <2> QED
    BY <2>1, <2>2, <2>3, <2>6, LockLowered DEF EntryInv
<1> QED
  BY <1>3, <1>4 DEF EntryInv

\* Steps that leave the requests and the rows as they are.
LEMMA RequestsStay ==
    ASSUME EntryInv, UNCHANGED <<leads, req, crossed, served, inbox>>
    PROVE  /\ Kept' /\ Requested' /\ Told' /\ OnePersonOneLead' /\ ImportsSeeEachOther'
<1>1. Kept'
  BY DEF EntryInv, Kept
<1>2. Requested'
  BY DEF EntryInv, Requested, Fine, InsertFine, EditFine, Open, Known, Live
<1>3. OnePersonOneLead' /\ ImportsSeeEachOther' /\ \A f : MadeOf(f)' = MadeOf(f)
  BY RowsStay DEF EntryInv
<1>4. Told'
  <2>1. crossed \in BOOLEAN /\ (crossed \/ crossed' => crossed')
    BY DEF EntryInv, Kept
  <2> QED
    BY <1>3, <2>1, ToldStays DEF EntryInv
<1> QED
  BY <1>1, <1>2, <1>3, <1>4

LEMMA RecycleStep ==
    ASSUME EntryInv, NEW c \in Connections, Recycle(c)
    PROVE  EntryInv'
<1>1. UNCHANGED <<leads, inbox, req, crossed, served>> /\ locked' = [locked EXCEPT ![c] = 0]
  BY DEF Recycle
<1>2. \A s \in Requests : Imports(req[s]) => req[s].on # c
  BY SpareIsNobodys DEF Recycle, EntryInv
<1>3. \A s \in Requests : Holds(req[s]) => Imports(req[s])
  BY DEF Holds, Imports
<1>4. locked[c] \in Nat
  BY DEF EntryInv, LockedOnce
<1>5. LockedOnce'
  <2>1. 0 <= locked[c]
    BY <1>4
  <2> QED
    BY <1>1, <1>2, <1>3, <2>1, LockLowered DEF EntryInv
<1> QED
  BY <1>1, <1>5, RequestsStay DEF EntryInv

-----------------------------------------------------------------------------
(* The inbox, and deletion.                                                *)

\* What is true of a request stays true while no contact is written.
LEMMA FineStays ==
    ASSUME NEW q, Fine(q), DOMAIN leads \subseteq DOMAIN leads',
           \A i \in Live' : /\ i \in Live /\ leads'[i].contact = leads[i].contact
                            /\ leads'[i].via = leads[i].via,
           \A f \in Submissions : inbox[f] \in Posts => inbox'[f] \in Posts
    PROVE  Fine(q)'
<1>2. CASE q = Idle \/ q \in Unlocking \/ (q \in Importing /\ IsFiniteSet(q.file))
  BY <1>2 DEF Fine
<1>3. CASE q \in Inserting /\ InsertFine(q)
  <2>1. q.form # NoForm => Open(q.form, q.seen)'
    BY <1>3 DEF Inserting, InsertFine, Open
  <2>2. \A c : ~Known(c, Live) => ~Known(c, Live)'
    BY DEF Known, Same
  <2>3. InsertFine(q)'
    BY <1>3, <2>1, <2>2 DEF InsertFine, Same
  <2> QED
    BY <1>3, <2>3 DEF Fine
<1>4. CASE q \in Editing /\ EditFine(q)
  <2>1. ~q.late => ~Known(q.contact, Live \ {q.lead})'
    BY <1>4 DEF EditFine, Known, Same
  <2> QED
    BY <1>4, <2>1 DEF Fine, EditFine
<1>5. CASE q \in Reviewing /\ Open(q.form, q.seen) /\ q.to.lead \in {0} \cup DOMAIN leads
  <2>1. Open(q.form, q.seen)'
    BY <1>5 DEF Reviewing, Open
  <2> QED
    BY <1>5, <2>1 DEF Fine
<1> QED
  BY <1>2, <1>3, <1>4, <1>5 DEF Fine

LEMMA PostsAreNot ==
    /\ Absent \notin Posts /\ Absent.status = "absent"
    /\ \A p \in Posts : p.status # "absent"
  BY DEF Absent, Posts

\* Only a live lead is matched.
LEMMA MatchesAreLive ==
    ASSUME EntryInv, NEW c
    PROVE  Matches(c) \subseteq DOMAIN leads /\ DOMAIN leads \subseteq 1..MaxLeads
<1>1. DOMAIN leads = 1..Len(leads) /\ Len(leads) \in Nat /\ Len(leads) <= MaxLeads
  BY DEF EntryInv, Kept
<1> QED
  BY <1>1, EntryConstants DEF EntryConstants, Matches, Live

LEMMA PostStep ==
    ASSUME EntryInv, NEW f \in Submissions, Post(f)
    PROVE  EntryInv'
<1> PICK c \in Website :
        \E m \in IF Matches(c) = {} THEN {0} ELSE Matches(c) :
            inbox' = [inbox EXCEPT ![f] = [status |-> "new", lead |-> m, contact |-> c]]
  BY DEF Post
<1>1. PICK m \in IF Matches(c) = {} THEN {0} ELSE Matches(c) :
          inbox' = [inbox EXCEPT ![f] = [status |-> "new", lead |-> m, contact |-> c]]
  OBVIOUS
<1> DEFINE post == [status |-> "new", lead |-> m, contact |-> c]
<1>2. inbox[f] = Absent /\ UNCHANGED <<leads, locked, req, crossed, served>>
  BY DEF Post
<1>3. m \in {0} \cup DOMAIN leads /\ m \in 0..MaxLeads
  <2>1. m = 0 \/ m \in Matches(c)
    BY <1>1
  <2>2. m = 0 \/ (m \in DOMAIN leads /\ m \in 1..MaxLeads)
    BY <2>1, MatchesAreLive
  <2> QED
    BY <2>2, EntryConstants DEF EntryConstants
<1>4. post \in Posts /\ post.status = "new" /\ post.lead = m
  BY <1>3 DEF Posts, Website
<1> HIDE DEF post
<1>5. /\ inbox' \in [Submissions -> Posts \cup {Absent}]
      /\ inbox'[f] = post /\ \A g \in Submissions \ {f} : inbox'[g] = inbox[g]
  BY <1>1, <1>4 DEF EntryInv, Kept, post
<1>6. Kept'
  BY <1>2, <1>3, <1>4, <1>5 DEF EntryInv, Kept
<1>7. Requested'
  <2>1. \A q : Fine(q) => Fine(q)'
    <3>1. \A g \in Submissions : inbox[g] \in Posts => inbox'[g] \in Posts
      BY <1>2, <1>4, <1>5, PostsAreNot
    <3>2. Live' = Live /\ UNCHANGED leads
      BY <1>2 DEF Live
    <3> QED
      BY <3>1, <3>2, FineStays
  <2>2. \A s \in Requests : Fine(req[s])'
    <3> SUFFICES ASSUME NEW s \in Requests PROVE Fine(req[s])'
      OBVIOUS
    <3>1. PICK q : q = req[s]
      OBVIOUS
    <3>2. Fine(q)'
      BY <2>1, <3>1 DEF EntryInv, Requested
    <3>3. req'[s] = q
      BY <1>2, <3>1
    <3> QED
      BY <3>2, <3>3 DEF Fine, InsertFine, EditFine, Open, Known, Live
  <2> QED
    BY <1>2, <2>2 DEF EntryInv, Requested
<1>8. OnePersonOneLead' /\ ImportsSeeEachOther' /\ \A g : MadeOf(g)' = MadeOf(g)
  BY <1>2, RowsStay DEF EntryInv
<1>9. Told'
  <2>1. crossed \in BOOLEAN /\ (crossed \/ crossed' => crossed')
    BY <1>2 DEF EntryInv, Kept
  <2>2. \A g \in Submissions :
            /\ inbox'[g].status = "converted" <=> inbox[g].status = "converted"
            /\ inbox[g].status = "converted" => inbox'[g].lead = inbox[g].lead
    BY <1>2, <1>4, <1>5, PostsAreNot
  <2> QED
    BY <1>2, <1>8, <2>1, <2>2, ToldStays DEF EntryInv
<1>10. LockedOnce'
  BY <1>2 DEF EntryInv, LockedOnce, Imports, Holds
<1> QED
  BY <1>6, <1>7, <1>8, <1>9, <1>10 DEF EntryInv

\* What is decided: a duplicate of a lead there is, or the batch of one to be made.
LEMMA ConvertStep ==
    ASSUME EntryInv, NEW r \in Requests, Convert(r)
    PROVE  EntryInv'
<1>1. PICK f \in Submissions, c \in Website :
         /\ inbox[f].status \notin {"absent", "converted"}
         /\ \/ \E m \in Matches(c) : Review(r, f, "duplicate", m)
            \/ ~Known(c, Live) /\ Goes(r, Batch({c}, "form", f, inbox[f], NoConnection))
  BY DEF Convert
<1>2. inbox[f] \in Posts /\ Open(f, inbox[f])
  BY <1>1, PostsAreNot DEF EntryInv, Kept, Open
<1>3. /\ req[r].at = "idle" /\ served' \in 0..MaxRequests
      /\ UNCHANGED <<leads, inbox, locked, crossed>>
  BY Beginning DEF Convert
<1>4. CASE \E m \in Matches(c) : Review(r, f, "duplicate", m)
  <2>1. PICK m \in Matches(c) : Review(r, f, "duplicate", m)
    BY <1>4
  <2> DEFINE decided == [inbox[f] EXCEPT !.status = "duplicate", !.lead = m]
             to == [at |-> "review", form |-> f, seen |-> inbox[f], to |-> decided]
  <2>2. m \in DOMAIN leads /\ m \in 1..MaxLeads
    BY MatchesAreLive
  <2>3. decided \in Posts /\ decided.status = "duplicate" /\ decided.lead = m
    <3>1. m \in 0..MaxLeads
      BY <2>2
    <3> QED
      BY <1>2, <3>1 DEF Posts
  <2>4. Goes(r, to)
    BY <2>1 DEF Review
  <2> HIDE DEF decided
  <2>5. /\ to \in Reviewing /\ to.at = "review" /\ to.form = f /\ to.seen = inbox[f]
        /\ to.to = decided
    BY <1>2, <2>3 DEF Reviewing
  <2>6. Fine(to) /\ ~Imports(to)
    BY <1>2, <2>2, <2>3, <2>5 DEF Fine, Imports
  <2> HIDE DEF to
  <2> QED
    BY <1>3, <2>3, <2>4, <2>5, <2>6, NoImport
<1>5. CASE ~Known(c, Live) /\ Goes(r, Batch({c}, "form", f, inbox[f], NoConnection))
  <2> DEFINE to == Batch({c}, "form", f, inbox[f], NoConnection)
  <2>1. /\ to \in Inserting /\ to.at = "insert" /\ to.batch = {c} /\ to.via = "form"
        /\ to.form = f /\ to.late = FALSE /\ to.seen = inbox[f]
    BY <1>2 DEF Batch, Inserting, Website
  <2>2. InsertFine(to)
    BY <1>2, <1>5, <2>1, FS_Singleton DEF InsertFine
  <2>3. Fine(to) /\ ~Imports(to) /\ Goes(r, to)
    BY <1>5, <2>1, <2>2 DEF Fine, Imports
  <2> HIDE DEF to
  <2> QED
    BY <1>3, <2>1, <2>3, NoImport
<1> QED
  BY <1>1, <1>4, <1>5

LEMMA TriageStep ==
    ASSUME EntryInv, NEW r \in Requests, Triage(r)
    PROVE  EntryInv'
<1>1. PICK f \in Submissions, s \in {"spam", "new"} :
         /\ inbox[f].status \notin {"absent", "converted"}
         /\ Review(r, f, s, inbox[f].lead)
  BY DEF Triage
<1>2. inbox[f] \in Posts /\ Open(f, inbox[f])
  BY <1>1, PostsAreNot DEF EntryInv, Kept, Open
<1>3. /\ req[r].at = "idle" /\ served' \in 0..MaxRequests
      /\ UNCHANGED <<leads, inbox, locked, crossed>>
  BY Beginning DEF Triage
<1> DEFINE decided == [inbox[f] EXCEPT !.status = s, !.lead = inbox[f].lead]
           to == [at |-> "review", form |-> f, seen |-> inbox[f], to |-> decided]
<1>4. decided \in Posts /\ decided.status = s /\ decided.lead = inbox[f].lead
  BY <1>2 DEF Posts
<1>5. Goes(r, to)
  BY <1>1 DEF Review
<1>6. inbox[f].lead \in {0} \cup DOMAIN leads
  BY <1>2, PostsAreNot DEF EntryInv, Kept
<1> HIDE DEF decided
<1>7. /\ to \in Reviewing /\ to.at = "review" /\ to.form = f /\ to.seen = inbox[f]
      /\ to.to = decided
  BY <1>2, <1>4 DEF Reviewing
<1>8. Fine(to) /\ ~Imports(to)
  BY <1>2, <1>4, <1>6, <1>7 DEF Fine, Imports
<1> HIDE DEF to
<1> QED
  BY <1>3, <1>4, <1>5, <1>7, <1>8, NoImport

\* The lead was made and the submission does not say so: set apart from here on.
LEMMA CutOffStep ==
    ASSUME EntryInv, NEW r \in Requests, CutOff(r)
    PROVE  EntryInv'
<1>1. /\ req[r].at = "review" /\ Goes(r, Idle) /\ crossed' = TRUE
      /\ UNCHANGED <<leads, inbox, locked, served>>
  BY DEF CutOff
<1>2. Fine(Idle) /\ ~Imports(Idle) /\ ~Holds(Idle)
  BY DEF Fine, Idle, Imports, Holds
<1>3. Requested' /\ req'[r] = Idle /\ \A s \in Requests \ {r} : req'[s] = req[s]
  BY <1>1, <1>2, GoesOn DEF EntryInv
<1>4. Kept' /\ Told'
  BY <1>1 DEF EntryInv, Kept, Told
<1>5. OnePersonOneLead' /\ ImportsSeeEachOther'
  BY <1>1, RowsStay DEF EntryInv
<1>6. LockedOnce'
  BY <1>1, <1>2, <1>3, LockStays DEF EntryInv
<1> QED
  BY <1>3, <1>4, <1>5, <1>6 DEF EntryInv

\* A review that had read what is still there says what it decided; any other is
\* set apart.
LEMMA ReviewWriteStep ==
    ASSUME EntryInv, NEW r \in Requests, ReviewWrite(r)
    PROVE  EntryInv'
<1> DEFINE q == req[r]
           f == req[r].form
           now == inbox[f]
           said == [now EXCEPT !.status = IF q.to.status = q.seen.status THEN @ ELSE q.to.status,
                               !.lead = IF q.to.lead = q.seen.lead THEN @ ELSE q.to.lead]
<1>1. /\ q.at = "review" /\ inbox' = [inbox EXCEPT ![f] = said]
      /\ crossed' = (crossed \/ q.seen # now)
      /\ Goes(r, Idle) /\ UNCHANGED <<leads, locked, served>>
  <2>1. q.at = "review" /\ Goes(r, Idle) /\ UNCHANGED <<leads, locked, served>>
    BY DEF ReviewWrite
  <2>2. crossed' = (crossed \/ q.seen # now)
    BY DEF ReviewWrite
  <2>3. inbox' = [inbox EXCEPT ![f] = said]
    BY DEF ReviewWrite
  <2> QED
    BY <2>1, <2>2, <2>3
<1>2. /\ q \in Reviewing /\ f \in Submissions /\ now \in Posts
      /\ q.seen \in Posts /\ q.to \in Posts
      /\ q.seen.status # "converted" /\ q.to.lead \in {0} \cup DOMAIN leads
      /\ now.lead \in {0} \cup DOMAIN leads
  <2>1. q \in Reviewing /\ Open(q.form, q.seen) /\ q.to.lead \in {0} \cup DOMAIN leads
    BY <1>1, Kinds DEF EntryInv, Requested
  <2>2. f \in Submissions /\ now \in Posts
    BY <2>1 DEF Reviewing, Open
  <2> QED
    BY <2>1, <2>2, PostsAreNot DEF Reviewing, Open, EntryInv, Kept
<1>3. /\ said \in Posts
      /\ said.status = IF q.to.status = q.seen.status THEN now.status ELSE q.to.status
      /\ said.lead = IF q.to.lead = q.seen.lead THEN now.lead ELSE q.to.lead
  <2> DEFINE s == IF q.to.status = q.seen.status THEN now.status ELSE q.to.status
             i == IF q.to.lead = q.seen.lead THEN now.lead ELSE q.to.lead
  <2>1. said = [now EXCEPT !.status = s, !.lead = i]
    OBVIOUS
  <2>2. s \in {"new", "converted", "duplicate", "spam"} /\ i \in 0..MaxLeads
    BY <1>2 DEF Posts
  <2> HIDE DEF s, i, said
  <2>3. said \in Posts /\ said.status = s /\ said.lead = i
    BY <1>2, <2>1, <2>2 DEF Posts
  <2> QED
    BY <2>3 DEF s, i
<1> HIDE DEF said
<1>4. /\ inbox' \in [Submissions -> Posts \cup {Absent}]
      /\ inbox'[f] = said /\ \A g \in Submissions \ {f} : inbox'[g] = inbox[g]
  BY <1>1, <1>2, <1>3 DEF EntryInv, Kept
<1>5. Kept'
  <2>1. said.lead \in {0} \cup DOMAIN leads
    BY <1>2, <1>3
  <2>2. crossed' \in BOOLEAN
    BY <1>1 DEF EntryInv, Kept
  <2> QED
    BY <1>1, <1>4, <2>1, <2>2 DEF EntryInv, Kept
<1>6. DOMAIN req' = Requests /\ req'[r] = Idle /\ \A s \in Requests \ {r} : req'[s] = req[s]
  BY <1>1 DEF Goes, EntryInv, Requested
<1>7. Requested'
  <2>1. \A p : Fine(p) => Fine(p)'
    <3>1. \A g \in Submissions : inbox[g] \in Posts => inbox'[g] \in Posts
      BY <1>3, <1>4
    <3>2. Live' = Live /\ UNCHANGED leads
      BY <1>1 DEF Live
    <3> QED
      BY <3>1, <3>2, FineStays
  <2>2. ASSUME NEW s \in Requests PROVE Fine(req[s])'
    <3>1. PICK p : p = req'[s]
      OBVIOUS
    <3>2. Fine(p)
      <4>1. Fine(Idle)
        BY DEF Fine
      <4> QED
        BY <1>6, <3>1, <4>1 DEF EntryInv, Requested
    <3>3. Fine(p)'
      BY <2>1, <3>2
    <3> QED
      BY <3>1, <3>3 DEF Fine, InsertFine, EditFine, Open, Known, Live
  <2> QED
    BY <1>6, <2>2 DEF Requested
<1>8. OnePersonOneLead' /\ ImportsSeeEachOther' /\ \A g : MadeOf(g)' = MadeOf(g)
  BY <1>1, RowsStay DEF EntryInv
<1>9. LockedOnce'
  <2>1. ~Imports(Idle) /\ ~Holds(Idle)
    BY DEF Idle, Imports, Holds
  <2> QED
    BY <1>1, <1>6, <2>1, LockStays DEF EntryInv
<1>10. Told'
  <2>1. CASE crossed'
    BY <2>1 DEF Told
  <2>2. CASE ~crossed'
    <3>1. ~crossed /\ q.seen = now
      BY <1>1, <2>2 DEF EntryInv, Kept
    <3>2. now.status # "converted" /\ said.status = q.to.status /\ said.lead = q.to.lead
      BY <1>2, <1>3, <3>1
    <3>3. \A g \in Submissions : \A i : Named(g, i)' <=> Named(g, i)
      <4> SUFFICES ASSUME NEW g \in Submissions, NEW i PROVE Named(g, i)' <=> Named(g, i)
        OBVIOUS
      <4>1. \A s \in Requests \ {r} : Converts(req'[s], g) <=> Converts(req[s], g)
        BY <1>6
      <4>2. ~Converts(req'[r], g)
        BY <1>6 DEF Converts, Idle
      <4>3. CASE g # f
        <5>1. ~Converts(req[r], g)
          BY <4>3 DEF Converts
        <5> QED
          BY <1>4, <1>6, <4>1, <4>2, <4>3, <5>1 DEF Named, Converts
      <4>4. CASE g = f
        <5>1. Converts(req[r], g) <=> said.status = "converted"
          BY <1>1, <3>2, <4>4 DEF Converts
        <5> QED
          BY <1>4, <1>6, <3>2, <4>1, <4>2, <4>4, <5>1 DEF Named, Converts
      <4> QED
        BY <4>3, <4>4
    <3>4. \A g \in Submissions : \A i : (i \in MadeOf(g))' <=> Named(g, i)'
      BY <1>8, <3>1, <3>3 DEF EntryInv, Told
    <3> QED
      BY <3>4 DEF Told
  <2> QED
    BY <2>1, <2>2
<1> QED
  BY <1>5, <1>7, <1>8, <1>9, <1>10 DEF EntryInv

-----------------------------------------------------------------------------
(* The writes of contacts.                                                 *)

\* Nothing happened to the requests.
LEMMA RequestedStays ==
    ASSUME Requested, UNCHANGED req, \A q : Fine(q) => Fine(q)'
    PROVE  Requested'
<1> SUFFICES ASSUME NEW s \in Requests PROVE Fine(req[s])'
  BY DEF Requested
<1>1. PICK q : q = req[s]
  OBVIOUS
<1>2. Fine(q)'
  BY <1>1 DEF Requested
<1>3. req'[s] = q
  BY <1>1
<1> QED
  BY <1>2, <1>3 DEF Fine, InsertFine, EditFine, Open, Known, Live

\* The contact of a deleted lead is free.
LEMMA DeleteStep ==
    ASSUME EntryInv, Delete
    PROVE  EntryInv'
<1>1. PICK i \in Live : leads' = [leads EXCEPT ![i].live = FALSE]
  BY DEF Delete
<1>2. served < MaxRequests /\ served' = served + 1 /\ UNCHANGED <<inbox, locked, req, crossed>>
  BY DEF Delete
<1>3. leads \in Seq(Leads) /\ i \in DOMAIN leads /\ leads[i] \in Leads
  BY DEF Live, EntryInv, Kept
<1> DEFINE row == [leads[i] EXCEPT !.live = FALSE]
<1>4. /\ row \in Leads /\ row.live = FALSE /\ row.contact = leads[i].contact
      /\ row.via = leads[i].via /\ row.form = leads[i].form
  BY <1>3 DEF Leads
<1>5. leads' = [leads EXCEPT ![i] = row]
  BY <1>1
<1> HIDE DEF row
<1>6. /\ leads' \in Seq(Leads) /\ Len(leads') = Len(leads) /\ DOMAIN leads' = DOMAIN leads
      /\ leads'[i] = row /\ \A k \in DOMAIN leads \ {i} : leads'[k] = leads[k]
  BY <1>3, <1>4, <1>5
<1>7. \A k \in Live' : k \in Live /\ leads'[k] = leads[k]
  BY <1>4, <1>6 DEF Live
<1>8. Kept'
  <2>1. served' \in 0..MaxRequests
    BY <1>2, EntryConstants DEF EntryConstants, EntryInv, Kept
  <2> QED
    BY <1>2, <1>6, <2>1 DEF EntryInv, Kept
<1>9. Requested'
  <2>1. \A q : Fine(q) => Fine(q)'
    BY <1>2, <1>6, <1>7, FineStays
  <2> QED
    BY <1>2, <2>1, RequestedStays DEF EntryInv
<1>10. OnePersonOneLead' /\ ImportsSeeEachOther'
  BY <1>7 DEF EntryInv, OnePersonOneLead, ImportsSeeEachOther, Twins, Together, Overlooked
<1>11. Told'
  <2>1. \A f \in Submissions : MadeOf(f)' = MadeOf(f)
    BY <1>4, <1>6 DEF MadeOf
  <2>2. crossed \in BOOLEAN /\ (crossed \/ crossed' => crossed')
    BY <1>2 DEF EntryInv, Kept
  <2> QED
    BY <1>2, <2>1, <2>2, ToldStays DEF EntryInv
<1>12. LockedOnce'
  BY <1>2 DEF EntryInv, LockedOnce, Imports, Holds
<1> QED
  BY <1>8, <1>9, <1>10, <1>11, <1>12 DEF EntryInv

\* What another request is after contacts were written.
Overtaken(q) == IF q.at \in {"insert", "edit"} THEN [q EXCEPT !.late = TRUE] ELSE q

LEMMA Overtakes ==
    ASSUME NEW q, Fine(q)
    PROVE  LET p == Overtaken(q)
           IN  /\ Imports(p) <=> Imports(q)
               /\ Holds(p) <=> Holds(q)
               /\ Imports(q) => p.on = q.on
               /\ \A f : Converts(p, f) <=> Converts(q, f)
               /\ \A f : Converts(q, f) => p.to.lead = q.to.lead
<1>1. CASE q.at = "insert"
  <2>1. q \in Inserting
    BY <1>1, Kinds
  <2> QED
    BY <1>1, <2>1 DEF Overtaken, Inserting, Imports, Holds, Converts
<1>2. CASE q.at = "edit"
  <2>1. q \in Editing
    BY <1>2, Kinds
  <2> QED
    BY <1>2, <2>1 DEF Overtaken, Editing, Imports, Holds, Converts
<1>3. CASE q.at \notin {"insert", "edit"}
  BY <1>3 DEF Overtaken
<1> QED
  BY <1>1, <1>2, <1>3

\* It is still fine: of its look-up nothing is left, but an import's lock is.
LEMMA OvertakenIsFine ==
    ASSUME NEW q, Fine(q), UNCHANGED inbox, DOMAIN leads \subseteq DOMAIN leads',
           \/ ~Holds(q)
           \/ \A i \in Live' : leads'[i].via = "import" =>
                  i \in Live /\ leads[i].via = "import" /\ leads'[i].contact = leads[i].contact,
           NEW p, p = Overtaken(q)
    PROVE  Fine(p)'
<1>1. CASE q \in Inserting /\ InsertFine(q)
  <2>1. /\ p \in Inserting /\ p.late = TRUE /\ p.batch = q.batch /\ p.via = q.via
        /\ p.on = q.on /\ p.form = q.form /\ p.seen = q.seen
    BY <1>1 DEF Overtaken, Inserting
  <2>2. p.form # NoForm => p.via = "form" /\ p.batch # {} /\ Open(p.form, p.seen)'
    BY <1>1, <2>1 DEF InsertFine, Open
  <2>3. p.via = "import" =>
            \A c \in p.batch : Keyed(c) =>
                \A i \in Live' : leads'[i].via = "import" => ~Same(leads'[i].contact, c)
    <3>1. q.via = "import" => Holds(q)
      BY <1>1 DEF Holds, Inserting
    <3> QED
      BY <1>1, <2>1, <3>1 DEF InsertFine
  <2>4. IsFiniteSet(p.batch) /\ (p.via = "form" => \A c, d \in p.batch : c = d)
    BY <1>1, <2>1 DEF InsertFine
  <2>5. p.via = "import" => p.on \in Connections /\ p.form = NoForm
    BY <1>1, <2>1 DEF InsertFine
  <2>6. InsertFine(p)'
    BY <2>1, <2>2, <2>3, <2>4, <2>5 DEF InsertFine, Same
  <2> QED
    BY <2>1, <2>6 DEF Fine
<1>2. CASE q \in Editing /\ EditFine(q)
  <2>1. p \in Editing /\ p.late = TRUE /\ p.lead = q.lead
    BY <1>2 DEF Overtaken, Editing
  <2>2. EditFine(p)'
    BY <1>2, <2>1 DEF EditFine
  <2> QED
    BY <2>1, <2>2 DEF Fine
<1>3. CASE q = Idle \/ q \in Unlocking \/ (q \in Importing /\ IsFiniteSet(q.file))
  <2>1. q.at \notin {"insert", "edit"}
    BY <1>3 DEF Idle, Unlocking, Importing
  <2>2. p = q
    BY <2>1 DEF Overtaken
  <2> QED
    BY <1>3, <2>2 DEF Fine
<1>4. CASE q \in Reviewing /\ Open(q.form, q.seen) /\ q.to.lead \in {0} \cup DOMAIN leads
  <2>1. p = q
    BY <1>4 DEF Overtaken, Reviewing
  <2>2. Open(p.form, p.seen)'
    BY <1>4, <2>1 DEF Open
  <2> QED
    BY <1>4, <2>1, <2>2 DEF Fine
<1> QED
  BY <1>1, <1>2, <1>3, <1>4 DEF Fine

\* A request writes contacts and goes on; the others are overtaken.
LEMMA WrittenRequests ==
    ASSUME Requested, NEW r \in Requests, NEW to, Written(r, to), UNCHANGED inbox,
           DOMAIN leads \subseteq DOMAIN leads', Fine(to)',
           \A s \in Requests \ {r} :
               \/ ~Holds(req[s])
               \/ \A i \in Live' : leads'[i].via = "import" =>
                      i \in Live /\ leads[i].via = "import" /\ leads'[i].contact = leads[i].contact
    PROVE  /\ Requested' /\ req'[r] = to
           /\ \A s \in Requests \ {r} :
                  /\ Imports(req'[s]) <=> Imports(req[s])
                  /\ Holds(req'[s]) <=> Holds(req[s])
                  /\ Imports(req[s]) => req'[s].on = req[s].on
                  /\ \A f : Converts(req'[s], f) <=> Converts(req[s], f)
                  /\ \A f : Converts(req[s], f) => req'[s].to.lead = req[s].to.lead
<1>1. DOMAIN req' = Requests /\ req'[r] = to
  BY DEF Written
<1>2. \A s \in Requests \ {r} : req'[s] = Overtaken(req[s])
  BY DEF Written, Overtaken
<1>3. ASSUME NEW s \in Requests PROVE Fine(req[s])'
  <2>1. CASE s = r
    <3>1. to = req'[s]
      BY <1>1, <2>1
    <3> QED
      BY <3>1 DEF Fine, InsertFine, EditFine, Open, Known, Live
  <2>2. CASE s # r
    <3>1. PICK q : q = req[s]
      OBVIOUS
    <3>2. PICK p : p = req'[s]
      OBVIOUS
    <3>3. Fine(q) /\ p = Overtaken(q)
      BY <1>2, <2>2, <3>1, <3>2 DEF Requested
    <3>4. \/ ~Holds(q)
          \/ \A i \in Live' : leads'[i].via = "import" =>
                 i \in Live /\ leads[i].via = "import" /\ leads'[i].contact = leads[i].contact
      BY <2>2, <3>1
    <3>5. Fine(p)'
      BY <3>3, <3>4, OvertakenIsFine
    <3> QED
      BY <3>2, <3>5 DEF Fine, InsertFine, EditFine, Open, Known, Live
  <2> QED
    BY <2>1, <2>2
<1>4. Requested'
  BY <1>1, <1>3 DEF Requested
<1> QED
  BY <1>1, <1>2, <1>4, Overtakes DEF Requested

\* A number has one spelling without a key.
LEMMA SpellingsDiffer ==
    ASSUME NEW c \in Contacts, NEW d \in Contacts, Same(c, d), Keyless(d), c # d
    PROVE  ~Keyless(c)
<1>1. c.kind = "phone" /\ c.who = d.who /\ d.spelt = "other"
  BY DEF Same, Keyless
<1>2. c = [kind |-> c.kind, who |-> c.who, spelt |-> c.spelt]
      /\ d = [kind |-> d.kind, who |-> d.who, spelt |-> d.spelt]
  BY DEF Contacts
<1>3. c.spelt # "other"
  BY <1>1, <1>2 DEF Same
<1> QED
  BY <1>3 DEF Keyless

\* The edit of a contact: what its look-up ruled out is ruled out, or it is late.
LEMMA EditWriteStep ==
    ASSUME EntryInv, NEW r \in Requests, EditWrite(r)
    PROVE  EntryInv'
<1> DEFINE q == req[r]
           l == req[r].lead
           row == [leads[l] EXCEPT !.contact = q.contact, !.via = "edit", !.late = q.late]
<1>1. /\ q.at = "edit" /\ leads' = [leads EXCEPT ![l] = row]
      /\ Written(r, Idle) /\ UNCHANGED <<inbox, locked, crossed, served>>
  BY DEF EditWrite
<1>2. q \in Editing /\ EditFine(q)
  BY <1>1, Kinds DEF EntryInv, Requested
<1>3. leads \in Seq(Leads) /\ l \in DOMAIN leads /\ leads[l] \in Leads
  BY <1>2 DEF EditFine, EntryInv, Kept
<1>4. /\ row \in Leads /\ row.live = leads[l].live /\ row.contact = q.contact
      /\ row.via = "edit" /\ row.late = q.late /\ row.form = leads[l].form
      /\ row.batch = leads[l].batch
  BY <1>2, <1>3 DEF Leads, Editing
<1> HIDE DEF row
<1>5. /\ leads' \in Seq(Leads) /\ Len(leads') = Len(leads) /\ DOMAIN leads' = DOMAIN leads
      /\ leads'[l] = row /\ \A k \in DOMAIN leads \ {l} : leads'[k] = leads[k]
  BY <1>1, <1>3, <1>4
<1>6. Live' = Live /\ Live \subseteq DOMAIN leads
  BY <1>4, <1>5 DEF Live
<1>7. Kept'
  BY <1>1, <1>5 DEF EntryInv, Kept
<1>8. Fine(Idle)' /\ ~Imports(Idle) /\ ~Holds(Idle) /\ \A f : ~Converts(Idle, f)
  BY DEF Fine, Idle, Imports, Holds, Converts
<1>9. \A i \in Live' : leads'[i].via = "import" =>
          i \in Live /\ leads[i].via = "import" /\ leads'[i].contact = leads[i].contact
  BY <1>4, <1>5, <1>6
<1>10. /\ Requested' /\ req'[r] = Idle
       /\ \A s \in Requests \ {r} :
              /\ Imports(req'[s]) <=> Imports(req[s])
              /\ Holds(req'[s]) <=> Holds(req[s])
              /\ Imports(req[s]) => req'[s].on = req[s].on
              /\ \A f : Converts(req'[s], f) <=> Converts(req[s], f)
              /\ \A f : Converts(req[s], f) => req'[s].to.lead = req[s].to.lead
  BY <1>1, <1>5, <1>8, <1>9, WrittenRequests DEF EntryInv
<1>11. LockedOnce'
  BY <1>1, <1>8, <1>10, LockStays DEF EntryInv
<1>12. Told'
  <2>1. \A f \in Submissions : MadeOf(f)' = MadeOf(f)
    BY <1>4, <1>5 DEF MadeOf
  <2>2. \A f \in Submissions, s \in Requests :
            /\ Converts(req'[s], f) <=> Converts(req[s], f)
            /\ Converts(req[s], f) => req'[s].to.lead = req[s].to.lead
    <3>1. \A f \in Submissions : ~Converts(req[r], f) /\ ~Converts(req'[r], f)
      BY <1>1, <1>8, <1>10 DEF Converts
    <3> QED
      BY <1>10, <3>1
  <2>3. crossed \in BOOLEAN /\ (crossed \/ crossed' => crossed')
    BY <1>1 DEF EntryInv, Kept
  <2> QED
    BY <1>1, <2>1, <2>2, <2>3, ToldStays DEF EntryInv
<1>13. ImportsSeeEachOther'
  <2>1. \A i, k \in Live' : leads'[i].via = "import" /\ leads'[k].via = "import" =>
            leads'[i] = leads[i] /\ leads'[k] = leads[k]
    BY <1>4, <1>5, <1>6
  <2> QED
    BY <1>6, <2>1 DEF EntryInv, ImportsSeeEachOther, Twins, Together, Overlooked
<1>14. OnePersonOneLead'
  <2> SUFFICES ASSUME NEW i \in Live, NEW k \in Live, Twins(i, k)'
               PROVE  \/ leads'[i].late \/ leads'[k].late \/ Together(i, k)'
                      \/ Overlooked(i, k)' \/ Overlooked(k, i)'
                      \/ "upload" \in {leads'[i].via, leads'[k].via}
    BY <1>6 DEF OnePersonOneLead
  <2>1. CASE i # l /\ k # l
    <3>1. leads'[i] = leads[i] /\ leads'[k] = leads[k]
      BY <1>5, <1>6, <2>1
    <3> QED
      BY <3>1 DEF EntryInv, OnePersonOneLead, Twins, Together, Overlooked
  <2>2. CASE i = l \/ k = l
    <3>1. i # k /\ Same(leads'[i].contact, leads'[k].contact)
      BY DEF Twins
    <3>2. PICK j \in Live \ {l} : j \in {i, k} /\ Same(leads[j].contact, q.contact)
      BY <1>4, <1>5, <1>6, <2>2, <3>1 DEF Same
    <3>3. CASE Keyless(q.contact) /\ leads[j].contact # q.contact
      <4>1. leads'[j] = leads[j] /\ leads[j].contact \in Contacts /\ q.contact \in Contacts
        <5>1. j \in DOMAIN leads \ {l} /\ leads[j] \in Leads
          BY <1>3, <1>6, <3>2
        <5> QED
          BY <1>2, <1>5, <5>1 DEF Editing, Leads
      <4>2. ~Keyless(leads[j].contact)
        BY <3>2, <3>3, <4>1, SpellingsDiffer
      <4>3. leads'[l].via = "edit" /\ leads'[l].contact = q.contact
        BY <1>4, <1>5
      <4>4. ASSUME NEW m, m = l PROVE Overlooked(m, j)'
        BY <3>3, <4>1, <4>2, <4>3, <4>4 DEF Overlooked, Keyless
      <4>5. CASE j = k
        <5>1. i = l
          BY <2>2, <3>2, <4>5
        <5> QED
          BY <4>4, <4>5, <5>1
      <4>6. CASE j = i
        <5>1. k = l
          BY <2>2, <3>2, <4>6
        <5> QED
          BY <4>4, <4>6, <5>1
      <4> QED
        BY <3>2, <4>5, <4>6
    <3>4. CASE Keyless(q.contact) => leads[j].contact = q.contact
      <4>1. Known(q.contact, Live \ {l})
        BY <3>2, <3>4 DEF Known
      <4>2. q.late
        BY <1>2, <4>1 DEF EditFine
      <4> QED
        BY <1>4, <1>5, <2>2, <4>2
    <3> QED
      BY <3>3, <3>4
  <2> QED
    BY <2>1, <2>2
<1> QED
  BY <1>7, <1>10, <1>11, <1>12, <1>13, <1>14 DEF EntryInv

\* The contacts of a batch can be listed, each once.
LEMMA Listing ==
    ASSUME NEW S \in SUBSET Contacts, IsFiniteSet(S)
    PROVE  LET order == SetToSeq(S)
           IN  /\ order \in Seq(Contacts)
               /\ \A k \in DOMAIN order : order[k] \in S
               /\ \A c \in S : \E k \in DOMAIN order : order[k] = c
               /\ \A k, m \in DOMAIN order : order[k] = order[m] => k = m
<1> DEFINE n == Cardinality(S)
           order == SetToSeq(S)
<1>1. n \in Nat /\ ExistsBijection(1..n, S)
  BY FS_CardinalityType
<1>2. order \in [1..n -> S] /\ IsInjective(order)
  <2>1. \E g \in [1..n -> S] : IsInjective(g)
    BY <1>1 DEF ExistsBijection, Bijection, Injection, IsInjective
  <2> QED
    BY <2>1 DEF SetToSeq
<1> HIDE DEF order
<1>3. order \in Surjection(1..n, S)
  <2>1. order \in Injection(1..n, S)
    BY <1>2 DEF Injection
  <2>2. Cardinality(1..n) = Cardinality(S)
    <3>1. Cardinality(1..n) = IF 1 > n THEN 0 ELSE n - 1 + 1
      BY <1>1, FS_Interval
    <3> QED
      BY <1>1, <3>1
  <2> HIDE DEF n
  <2> QED
    BY <2>1, <2>2, FS_Injection
<1> HIDE DEF n
<1>4. order \in Seq(Contacts) /\ DOMAIN order = 1..n
  BY <1>1, <1>2
<1>5. \A k, m \in DOMAIN order : order[k] = order[m] => k = m
  BY <1>2 DEF IsInjective
<1>6. \A c \in S : \E k \in DOMAIN order : order[k] = c
  BY <1>3, <1>4 DEF Surjection
<1>7. \A k \in DOMAIN order : order[k] \in S
  BY <1>2
<1> QED
  BY <1>4, <1>5, <1>6, <1>7 DEF order

\* A sequence after another.
LEMMA After ==
    ASSUME NEW S, NEW s \in Seq(S), NEW t \in Seq(S)
    PROVE  /\ s \o t \in Seq(S) /\ Len(s \o t) = Len(s) + Len(t)
           /\ \A i \in 1..(Len(s) + Len(t)) :
                  (s \o t)[i] = IF i <= Len(s) THEN s[i] ELSE t[i - Len(s)]
  OBVIOUS

\* The rows an insert adds: one for each contact of the batch, after those there are.
Added(q, N) ==
    /\ leads' \in Seq(Leads) /\ Len(leads') <= MaxLeads
    /\ DOMAIN leads \subseteq DOMAIN leads'
    /\ \A i \in DOMAIN leads : leads'[i] = leads[i]
    /\ \A i \in N : /\ leads'[i].contact \in q.batch /\ leads'[i].live = TRUE
                    /\ leads'[i].via = q.via /\ leads'[i].form = q.form
                    /\ leads'[i].batch = Len(leads) /\ leads'[i].late = q.late
    /\ \A i, k \in N : leads'[i].contact = leads'[k].contact => i = k
    /\ q.form # NoForm => N = {Len(leads) + 1}

LEMMA NewRows ==
    ASSUME EntryInv, NEW r \in Requests, Insert(r), NEW q, q = req[r],
           NEW N, N = DOMAIN leads' \ DOMAIN leads
    PROVE  Added(q, N)
<1> DEFINE order == SetToSeq(q.batch)
           L == Len(leads)
           rows == [k \in DOMAIN order |->
                       [contact |-> order[k], live |-> TRUE, via |-> q.via, form |-> q.form,
                        batch |-> L, late |-> q.late]]
<1>1. q.at = "insert" /\ L + Len(rows) <= MaxLeads /\ leads' = leads \o rows
  BY DEF Insert
<1>2. q \in Inserting /\ InsertFine(q) /\ q.batch \in SUBSET Contacts /\ IsFiniteSet(q.batch)
  <2>1. q \in Inserting /\ InsertFine(q)
    BY <1>1, Kinds DEF EntryInv, Requested
  <2> QED
    BY <2>1 DEF Inserting, InsertFine
<1>3. /\ order \in Seq(Contacts)
      /\ \A k \in DOMAIN order : order[k] \in q.batch
      /\ \A c \in q.batch : \E k \in DOMAIN order : order[k] = c
      /\ \A k, m \in DOMAIN order : order[k] = order[m] => k = m
  BY <1>2, Listing
<1> HIDE DEF order
<1>4. /\ leads \in Seq(Leads) /\ DOMAIN leads = 1..L
      /\ L \in Nat /\ L <= MaxLeads /\ MaxLeads \in Nat
  BY EntryConstants DEF EntryConstants, EntryInv, Kept
<1> DEFINE n == Len(order)
<1>5. n \in Nat /\ DOMAIN order = 1..n
  BY <1>3
<1>6. /\ DOMAIN rows = 1..n
      /\ \A k \in 1..n : /\ rows[k].contact = order[k] /\ rows[k].live = TRUE
                         /\ rows[k].via = q.via /\ rows[k].form = q.form
                         /\ rows[k].batch = L /\ rows[k].late = q.late
      /\ \A k \in 1..n : rows[k] \in Leads
  <2>1. \A k \in 1..n : order[k] \in Contacts
    BY <1>3, <1>5
  <2>2. /\ q.via \in {"form", "import", "upload"}
        /\ q.form \in Submissions \cup {NoForm} /\ q.late \in BOOLEAN
    BY <1>2 DEF Inserting
  <2>3. L \in 0..MaxLeads
    BY <1>4
  <2> HIDE DEF L, n
  <2> QED
    BY <1>5, <2>1, <2>2, <2>3 DEF Leads
<1> HIDE DEF n
<1>7. rows \in Seq(Leads) /\ Len(rows) = n
  <2> HIDE DEF rows
  <2>1. rows \in [1..n -> Leads]
    <3>1. rows = [k \in 1..n |-> rows[k]]
      BY <1>5, <1>6 DEF rows
    <3> QED
      BY <1>6, <3>1
  <2> QED
    BY <1>5, <2>1
<1> HIDE DEF rows
<1>8. /\ leads' \in Seq(Leads) /\ Len(leads') = L + n /\ DOMAIN leads' = 1..(L + n)
      /\ \A i \in 1..L : leads'[i] = leads[i]
      /\ \A i \in (L + 1)..(L + n) : leads'[i] = rows[i - L]
  <2>1. leads' \in Seq(Leads) /\ Len(leads') = Len(leads) + Len(rows)
    BY <1>1, <1>4, <1>7, After
  <2>2. DOMAIN leads' = 1..(L + n) /\ Len(leads') = L + n
    BY <1>4, <1>5, <1>7, <2>1
  <2>3. \A i \in 1..(Len(leads) + Len(rows)) :
            leads'[i] = IF i <= Len(leads) THEN leads[i] ELSE rows[i - Len(leads)]
    BY <1>1, <1>4, <1>7, After
  <2>4. \A i \in 1..(L + n) : leads'[i] = IF i <= L THEN leads[i] ELSE rows[i - L]
    BY <1>7, <2>3
  <2> HIDE DEF L
  <2>5. \A i \in 1..L : i \in 1..(L + n) /\ i <= L
    BY <1>4, <1>5
  <2>6. \A i \in (L + 1)..(L + n) : i \in 1..(L + n) /\ ~(i <= L)
    BY <1>4, <1>5
  <2> QED
    BY <2>1, <2>2, <2>4, <2>5, <2>6
<1> HIDE DEF L
<1>9. N = (L + 1)..(L + n)
  BY <1>4, <1>5, <1>8
<1>10. \A i \in N : i - L \in 1..n /\ leads'[i] = rows[i - L]
  BY <1>4, <1>5, <1>8, <1>9
<1>11. \A i \in N : /\ leads'[i].contact \in q.batch /\ leads'[i].live = TRUE
                    /\ leads'[i].via = q.via /\ leads'[i].form = q.form
                    /\ leads'[i].batch = L /\ leads'[i].late = q.late
  BY <1>3, <1>5, <1>6, <1>10
<1>12. \A i, k \in N : leads'[i].contact = leads'[k].contact => i = k
  <2> SUFFICES ASSUME NEW i \in N, NEW k \in N, leads'[i].contact = leads'[k].contact
               PROVE  i = k
    OBVIOUS
  <2>1. i - L \in 1..n /\ k - L \in 1..n /\ order[i - L] = order[k - L]
    BY <1>6, <1>10
  <2>2. i - L = k - L
    BY <1>3, <1>5, <2>1
  <2>3. i \in Int /\ k \in Int
    BY <1>4, <1>5, <1>9
  <2> QED
    BY <1>4, <2>2, <2>3
<1>13. q.form # NoForm => N = {L + 1}
  <2> SUFFICES ASSUME q.form # NoForm PROVE N = {L + 1}
    OBVIOUS
  <2>1. q.batch # {} /\ \A c, d \in q.batch : c = d
    BY <1>2 DEF InsertFine
  <2>2. 1 \in 1..n /\ \A k \in 1..n : k = 1
    <3>1. \A k, m \in 1..n : order[k] = order[m]
      BY <1>3, <1>5, <2>1
    <3>2. \A k, m \in 1..n : k = m
      BY <1>3, <1>5, <3>1
    <3>3. \E k : k \in 1..n
      BY <1>3, <1>5, <2>1
    <3>4. 1 \in 1..n
      BY <1>5, <3>3
    <3> QED
      BY <3>2, <3>4
  <2>3. n = 1
    BY <1>5, <2>2
  <2> QED
    BY <1>4, <1>9, <2>3
<1>14. Len(leads') <= MaxLeads /\ DOMAIN leads \subseteq DOMAIN leads' /\ L = Len(leads)
  BY <1>1, <1>4, <1>5, <1>7, <1>8 DEF L
<1> QED
  BY <1>4, <1>8, <1>11, <1>12, <1>13, <1>14 DEF Added

\* What an insert that is not late adds has no twin, and what an import adds is no number
\* an import brought, late or not: unless its spelling has no key, and the other's has.
LEMMA NoTwinBefore ==
    ASSUME EntryInv, NEW r \in Requests, Insert(r), NEW q, q = req[r],
           NEW c \in q.batch, NEW i \in Live, Same(leads[i].contact, c)
    PROVE  \/ Keyless(c) /\ ~Keyless(leads[i].contact)
           \/ /\ q.late \/ q.via = "upload"
              /\ ~(q.via = "import" /\ leads[i].via = "import")
<1>1. q \in Inserting /\ InsertFine(q)
  <2>1. q.at = "insert"
    BY DEF Insert
  <2> QED
    BY <2>1, Kinds DEF EntryInv, Requested
<1>2. ~Clashes(leads[i].contact, c)
  BY DEF Insert, Refused
<1>3. c \in Contacts /\ c.kind \in {"phone", "email"} /\ leads[i].contact.kind = c.kind
  BY <1>1 DEF Inserting, Contacts, Same
<1>4. c.kind = "phone"
  BY <1>2, <1>3 DEF Clashes
<1>5. leads[i].contact # c
  BY <1>2 DEF Clashes, Same
<1>6. CASE Keyless(c)
  <2>1. leads \in Seq(Leads) /\ i \in DOMAIN leads
    BY DEF Live, EntryInv, Kept
  <2>2. leads[i] \in Leads
    BY <2>1
  <2>3. leads[i].contact \in Contacts
    BY <2>2 DEF Leads
  <2> QED
    BY <1>3, <1>5, <1>6, <2>3, SpellingsDiffer
<1>7. CASE ~Keyless(c)
  <2>1. Known(c, Live) /\ Keyed(c)
    BY <1>4, <1>7 DEF Known, Keyed
  <2>2. q.late \/ q.via = "upload"
    BY <1>1, <2>1 DEF InsertFine, Inserting
  <2>3. ~(q.via = "import" /\ leads[i].via = "import")
    BY <1>1, <2>1 DEF InsertFine
  <2> QED
    BY <2>2, <2>3
<1> QED
  BY <1>6, <1>7

\* Where a request is after its insert.
Went(q, to) ==
    \/ q.form = NoForm /\ q.via # "import" /\ to = Idle
    \/ /\ q.form # NoForm
       /\ to = [at |-> "review", form |-> q.form, seen |-> q.seen,
                to |-> [q.seen EXCEPT !.status = "converted", !.lead = Len(leads) + 1]]
    \/ q.via = "import" /\ \E c \in Connections :
           (c = q.on \/ Spare(c)) /\ to = [at |-> "unlock", on |-> c]

\* An insert's rows, and the review or the unlock that follows it.
LEMMA InsertStep ==
    ASSUME EntryInv, NEW r \in Requests, Insert(r)
    PROVE  EntryInv'
<1> PICK q : q = req[r]
  OBVIOUS
<1> PICK N : N = DOMAIN leads' \ DOMAIN leads
  OBVIOUS
<1>1. q.at = "insert" /\ UNCHANGED <<inbox, locked, crossed, served>>
  BY DEF Insert
<1>2. q \in Inserting /\ InsertFine(q)
  BY <1>1, Kinds DEF EntryInv, Requested
<1>3. PICK to : Written(r, to) /\ Went(q, to)
  BY DEF Insert, Went
<1>4. /\ leads' \in Seq(Leads) /\ Len(leads') <= MaxLeads
      /\ DOMAIN leads \subseteq DOMAIN leads'
      /\ \A i \in DOMAIN leads : leads'[i] = leads[i]
      /\ \A i \in N : /\ leads'[i].contact \in q.batch /\ leads'[i].live = TRUE
                      /\ leads'[i].via = q.via /\ leads'[i].form = q.form
                      /\ leads'[i].batch = Len(leads) /\ leads'[i].late = q.late
      /\ \A i, k \in N : leads'[i].contact = leads'[k].contact => i = k
      /\ q.form # NoForm => N = {Len(leads) + 1}
  <2>1. Added(q, N)
    BY NewRows
  <2> QED
    BY <2>1 DEF Added
<1>5. DOMAIN leads' = DOMAIN leads \cup N /\ Live' = Live \cup N /\ Live \subseteq DOMAIN leads
  BY <1>4 DEF Live
<1>6. Kept'
  BY <1>1, <1>4 DEF EntryInv, Kept
<1>7. q.form # NoForm =>
          /\ to.at = "review" /\ to.form = q.form /\ to.to.status = "converted"
          /\ to.to.lead = Len(leads) + 1 /\ to \in Reviewing /\ Open(to.form, to.seen)'
          /\ to.to.lead \in DOMAIN leads'
  <2> SUFFICES ASSUME q.form # NoForm
               PROVE  /\ to.at = "review" /\ to.form = q.form /\ to.to.status = "converted"
                      /\ to.to.lead = Len(leads) + 1 /\ to \in Reviewing
                      /\ Open(to.form, to.seen)' /\ to.to.lead \in DOMAIN leads'
    OBVIOUS
  <2> DEFINE i == Len(leads) + 1
             convert == [q.seen EXCEPT !.status = "converted", !.lead = i]
  <2>1. q.via = "form" /\ Open(q.form, q.seen) /\ q.form \in Submissions
    BY <1>2 DEF InsertFine, Inserting
  <2>2. i \in DOMAIN leads' /\ i \in 0..MaxLeads
    <3>1. i \in DOMAIN leads'
      BY <1>4, <1>5
    <3>2. DOMAIN leads' = 1..Len(leads') /\ Len(leads') \in Nat /\ Len(leads') <= MaxLeads
      BY <1>4
    <3> QED
      BY <3>1, <3>2, EntryConstants DEF EntryConstants
  <2>3. to = [at |-> "review", form |-> q.form, seen |-> q.seen, to |-> convert]
    BY <1>3, <2>1 DEF Went
  <2> HIDE DEF i
  <2>4. convert \in Posts /\ convert.status = "converted" /\ convert.lead = i
    BY <2>1, <2>2 DEF Open, Posts
  <2> HIDE DEF convert
  <2>5. /\ to.at = "review" /\ to.form = q.form /\ to.seen = q.seen /\ to.to = convert
        /\ to \in Reviewing
    BY <2>1, <2>3, <2>4 DEF Open, Reviewing
  <2>6. Open(to.form, to.seen)'
    BY <1>1, <2>1, <2>5 DEF Open
  <2> QED
    BY <2>2, <2>4, <2>5, <2>6 DEF i
<1>8. ~Holds(to) /\ Fine(to)'
  <2>1. CASE to = Idle
    BY <2>1 DEF Fine, Idle, Holds
  <2>2. CASE q.form # NoForm
    BY <1>7, <2>2 DEF Fine, Holds
  <2>3. CASE \E c \in Connections : to = [at |-> "unlock", on |-> c]
    <3>1. to \in Unlocking /\ to.at = "unlock"
      BY <2>3 DEF Unlocking
    <3> QED
      BY <3>1 DEF Fine, Holds
  <2> QED
    BY <1>3, <2>1, <2>2, <2>3 DEF Went
<1>9. ASSUME NEW s \in Requests \ {r}
      PROVE  \/ ~Holds(req[s])
             \/ \A i \in Live' : leads'[i].via = "import" =>
                    i \in Live /\ leads[i].via = "import" /\ leads'[i].contact = leads[i].contact
  <2>1. CASE q.via = "import"
    <3>1. Holds(req[r])
      BY <1>1, <2>1 DEF Holds
    <3> QED
      BY <3>1, OneHolds DEF EntryInv
  <2>2. CASE q.via # "import"
    BY <1>4, <1>5, <2>2
  <2> QED
    BY <2>1, <2>2
<1>10. /\ Requested' /\ req'[r] = to
       /\ \A s \in Requests \ {r} :
              /\ Imports(req'[s]) <=> Imports(req[s])
              /\ Holds(req'[s]) <=> Holds(req[s])
              /\ Imports(req[s]) => req'[s].on = req[s].on
              /\ \A f : Converts(req'[s], f) <=> Converts(req[s], f)
              /\ \A f : Converts(req[s], f) => req'[s].to.lead = req[s].to.lead
  BY <1>1, <1>3, <1>4, <1>8, <1>9, WrittenRequests DEF EntryInv
<1>11. LockedOnce'
  <2>1. Imports(to) => \/ Imports(req[r]) /\ to.on = req[r].on
                       \/ \A s \in Requests \ {r} : Imports(req[s]) => req[s].on # to.on
    <3>1. CASE to = Idle
      BY <3>1 DEF Idle, Imports
    <3>2. CASE q.form # NoForm
      BY <1>7, <3>2 DEF Imports
    <3>3. CASE q.via = "import" /\ \E c \in Connections :
                   (c = q.on \/ Spare(c)) /\ to = [at |-> "unlock", on |-> c]
      <4>1. PICK c \in Connections : (c = q.on \/ Spare(c)) /\ to = [at |-> "unlock", on |-> c]
        BY <3>3
      <4>2. to.on = c /\ Imports(req[r])
        BY <1>1, <3>3, <4>1 DEF Imports
      <4> QED
        BY <4>1, <4>2, SpareIsNobodys DEF EntryInv
    <3> QED
      BY <1>3, <3>1, <3>2, <3>3 DEF Went
  <2> QED
    BY <1>1, <1>8, <1>10, <2>1, LockStays DEF EntryInv
<1>12. Told'
  <2>1. CASE crossed'
    BY <2>1 DEF Told
  <2>2. CASE ~crossed'
    <3> SUFFICES ASSUME NEW f \in Submissions, NEW i
                 PROVE  (i \in MadeOf(f))' <=> Named(f, i)'
      BY DEF Told
    <3>1. i \in MadeOf(f) <=> Named(f, i)
      BY <1>1, <2>2 DEF EntryInv, Told
    <3>2. ~Converts(req[r], f)
      BY <1>1 DEF Converts
    <3>3. Converts(req'[r], f) <=> q.form = f
      <4>1. f # NoForm
        BY EntryConstants DEF EntryConstants
      <4>2. q.form = NoForm => to.at # "review"
        BY <1>3 DEF Went, Idle
      <4> QED
        BY <1>7, <1>10, <4>1, <4>2 DEF Converts
    <3>4. (i \in MadeOf(f))' <=> (i \in MadeOf(f) \/ (q.form = f /\ i \in N))
      BY <1>4, <1>5 DEF MadeOf
    <3>5. Named(f, i)' <=> (Named(f, i) \/ (q.form = f /\ to.to.lead = i))
      <4>1. \A s \in Requests :
                Converts(req'[s], f) <=> (Converts(req[s], f) \/ (s = r /\ q.form = f))
        BY <1>10, <3>2, <3>3
      <4>2. \A s \in Requests : Converts(req[s], f) => req'[s].to.lead = req[s].to.lead
        BY <1>10, <3>2
      <4>3. (\E s \in Requests : Converts(req'[s], f) /\ req'[s].to.lead = i) <=>
                \/ \E s \in Requests : Converts(req[s], f) /\ req[s].to.lead = i
                \/ q.form = f /\ to.to.lead = i
        BY <1>10, <4>1, <4>2
      <4> QED
        BY <1>1, <4>3 DEF Named, Converts
    <3>6. q.form = f => (i \in N <=> to.to.lead = i)
      <4>1. f # NoForm
        BY EntryConstants DEF EntryConstants
      <4> QED
        BY <1>4, <1>7, <4>1
    <3> QED
      BY <3>1, <3>4, <3>5, <3>6
  <2> QED
    BY <2>1, <2>2
<1>13. ASSUME NEW i \in Live', NEW k \in Live', Twins(i, k)'
       PROVE  \/ /\ i \in Live /\ k \in Live /\ Twins(i, k)
                 /\ Overlooked(i, k) => Overlooked(i, k)'
                 /\ Overlooked(k, i) => Overlooked(k, i)'
              \/ i \in N /\ k \in Live /\ Same(leads[k].contact, leads'[i].contact)
              \/ i \in Live /\ k \in N /\ Same(leads[i].contact, leads'[k].contact)
              \/ i \in N /\ k \in N /\ i # k
  BY <1>4, <1>5, <1>13 DEF Twins, Same, Overlooked
<1>14. ASSUME NEW i \in N, NEW k \in Live, Keyless(leads'[i].contact), ~Keyless(leads[k].contact)
       PROVE  Overlooked(i, k)'
  <2>1. DOMAIN leads = 1..Len(leads) /\ Len(leads) \in Nat
    BY DEF EntryInv, Kept
  <2>2. DOMAIN leads' = 1..Len(leads') /\ Len(leads') \in Nat
    BY <1>4
  <2>3. k \in 1..Len(leads) /\ i \in 1..Len(leads') /\ i \notin 1..Len(leads)
    BY <1>5, <2>1, <2>2
  <2>4. k < i
    BY <2>1, <2>2, <2>3
  <2>5. leads'[k] = leads[k]
    BY <1>4, <1>5
  <2> QED
    BY <1>14, <2>4, <2>5 DEF Overlooked
<1>15. ImportsSeeEachOther'
  <2> SUFFICES ASSUME NEW i \in Live', NEW k \in Live', Twins(i, k)',
                      leads'[i].via = "import", leads'[k].via = "import"
               PROVE  Together(i, k)' \/ Overlooked(i, k)' \/ Overlooked(k, i)'
    BY DEF ImportsSeeEachOther
  <2>1. CASE /\ i \in Live /\ k \in Live /\ Twins(i, k)
             /\ Overlooked(i, k) => Overlooked(i, k)'
             /\ Overlooked(k, i) => Overlooked(k, i)'
    BY <1>4, <1>5, <2>1 DEF EntryInv, ImportsSeeEachOther, Together
  <2>2. CASE i \in N /\ k \in Live /\ Same(leads[k].contact, leads'[i].contact)
    <3>1. leads'[i].contact \in q.batch /\ q.via = "import" /\ leads[k].via = "import"
      BY <1>4, <1>5, <2>2
    <3> QED
      BY <1>14, <2>2, <3>1, NoTwinBefore
  <2>3. CASE i \in Live /\ k \in N /\ Same(leads[i].contact, leads'[k].contact)
    <3>1. leads'[k].contact \in q.batch /\ q.via = "import" /\ leads[i].via = "import"
      BY <1>4, <1>5, <2>3
    <3> QED
      BY <1>14, <2>3, <3>1, NoTwinBefore
  <2>4. CASE i \in N /\ k \in N
    BY <1>4, <2>4 DEF Together
  <2> QED
    BY <1>13, <2>1, <2>2, <2>3, <2>4
<1>16. OnePersonOneLead'
  <2> SUFFICES ASSUME NEW i \in Live', NEW k \in Live', Twins(i, k)'
               PROVE  \/ leads'[i].late \/ leads'[k].late \/ Together(i, k)'
                      \/ Overlooked(i, k)' \/ Overlooked(k, i)'
                      \/ "upload" \in {leads'[i].via, leads'[k].via}
    BY DEF OnePersonOneLead
  <2>1. CASE /\ i \in Live /\ k \in Live /\ Twins(i, k)
             /\ Overlooked(i, k) => Overlooked(i, k)'
             /\ Overlooked(k, i) => Overlooked(k, i)'
    <3>1. leads'[i] = leads[i] /\ leads'[k] = leads[k]
      BY <1>4, <1>5, <2>1
    <3> QED
      BY <2>1, <3>1 DEF EntryInv, OnePersonOneLead, Together
  <2>2. CASE i \in N /\ k \in Live /\ Same(leads[k].contact, leads'[i].contact)
    BY <1>4, <1>14, <2>2, NoTwinBefore, ZenonT(60)
  <2>3. CASE i \in Live /\ k \in N /\ Same(leads[i].contact, leads'[k].contact)
    BY <1>4, <1>14, <2>3, NoTwinBefore, ZenonT(60)
  <2>4. CASE i \in N /\ k \in N /\ i # k
    <3>1. q.via # "form"
      BY <1>2, <1>4, <2>4 DEF InsertFine
    <3>2. q.via \in {"import", "upload"}
      BY <1>2, <3>1 DEF Inserting
    <3> QED
      BY <1>4, <2>4, <3>2 DEF Together
  <2> QED
    BY <1>13, <2>1, <2>2, <2>3, <2>4
<1> QED
  BY <1>6, <1>10, <1>11, <1>12, <1>15, <1>16 DEF EntryInv

-----------------------------------------------------------------------------
(* The invariant and what it says.                                         *)

LEMMA InitEntry ==
    ASSUME Init
    PROVE  EntryInv
<1>1. /\ leads = <<>> /\ inbox = [f \in Submissions |-> Absent]
      /\ locked = [c \in Connections |-> 0] /\ req = [r \in Requests |-> Idle]
      /\ crossed = FALSE /\ served = 0
  BY DEF Init
<1>2. Kept
  <2>1. leads \in Seq(Leads) /\ Len(leads) = 0
    BY <1>1
  <2>2. inbox \in [Submissions -> Posts \cup {Absent}] /\ \A f \in Submissions : inbox[f] = Absent
    BY <1>1
  <2>3. crossed \in BOOLEAN
    BY <1>1
  <2>4. served \in 0..MaxRequests /\ 0 <= MaxLeads
    BY <1>1, EntryConstants DEF EntryConstants
  <2> QED
    BY <2>1, <2>2, <2>3, <2>4 DEF Kept
<1>3. Requested
  BY <1>1 DEF Requested, Fine
<1>4. LockedOnce
  <2>1. ~Imports(Idle) /\ ~Holds(Idle)
    BY DEF Idle, Imports, Holds
  <2>2. \A r \in Requests : ~Imports(req[r]) /\ ~Holds(req[r])
    BY <1>1, <2>1
  <2> QED
    BY <1>1, <2>2 DEF LockedOnce
<1>5. Told
  <2> SUFFICES ASSUME NEW f \in Submissions, NEW i PROVE i \notin MadeOf(f) /\ ~Named(f, i)
    BY DEF Told
  <2>1. i \notin MadeOf(f)
    BY <1>1 DEF MadeOf
  <2>2. ~Named(f, i)
    BY <1>1 DEF Named, Converts, Idle, Absent
  <2> QED
    BY <2>1, <2>2
<1>6. OnePersonOneLead /\ ImportsSeeEachOther
  BY <1>1 DEF OnePersonOneLead, ImportsSeeEachOther, Live
<1> QED
  BY <1>2, <1>3, <1>4, <1>5, <1>6 DEF EntryInv

LEMMA NextEntry ==
    ASSUME EntryInv, [Next]_vars
    PROVE  EntryInv'
<1>1. CASE UNCHANGED vars
  <2>1. UNCHANGED <<leads, req, crossed, served, inbox>> /\ UNCHANGED locked
    BY <1>1 DEF vars
  <2>2. LockedOnce'
    BY <2>1 DEF EntryInv, LockedOnce, Imports, Holds
  <2> QED
    BY <2>1, <2>2, RequestsStay DEF EntryInv
<1>2. CASE Delete
  BY <1>2, DeleteStep
<1>3. ASSUME NEW c \in Connections, Recycle(c) PROVE EntryInv'
  BY <1>3, RecycleStep
<1>4. ASSUME NEW f \in Submissions, Post(f) PROVE EntryInv'
  BY <1>4, PostStep
<1>5. ASSUME NEW r \in Requests, Enter(r) \/ Upload(r) \/ Convert(r) PROVE EntryInv'
  BY <1>5, EnterStep, UploadStep, ConvertStep
<1>6. ASSUME NEW r \in Requests, Insert(r) PROVE EntryInv'
  BY <1>6, InsertStep
<1>7. ASSUME NEW r \in Requests, EditLook(r) \/ EditWrite(r) PROVE EntryInv'
  BY <1>7, EditLookStep, EditWriteStep
<1>8. ASSUME NEW r \in Requests, Refuse(r) \/ ImportFails(r) \/ TimeOut(r) PROVE EntryInv'
  BY <1>8, RefuseStep
<1>9. ASSUME NEW r \in Requests,
             ImportBegins(r) \/ Lock(r) \/ ImportLook(r) \/ ImportNothing(r) \/ Unlock(r)
      PROVE  EntryInv'
  BY <1>9, ImportBeginsStep, LockStep, ImportLookStep, ImportNothingStep, UnlockStep
<1>10. ASSUME NEW r \in Requests, Triage(r) \/ ReviewWrite(r) \/ CutOff(r) PROVE EntryInv'
  BY <1>10, TriageStep, ReviewWriteStep, CutOffStep
<1> QED
  BY <1>1, <1>2, <1>3, <1>4, <1>5, <1>6, <1>7, <1>8, <1>9, <1>10 DEF Next

\* The invariant of the entries.
THEOREM EntryInvariant == Spec => []EntryInv
<1>1. Init => EntryInv
  BY InitEntry
<1>2. EntryInv /\ [Next]_vars => EntryInv'
  BY NextEntry
<1> QED
  BY <1>1, <1>2, PTL DEF Spec

\* One person is one live lead (lead_service.py, csv_import_service.py, campaigns.py),
\* whatever interleaves: two that are there came of contacts written between a look-up
\* and its write, of a spelling without a key after one with a key, of a campaign's file,
\* or of one import's file.
THEOREM OnePerson == Spec => []OnePersonOneLead
<1>1. EntryInv => OnePersonOneLead
  BY DEF EntryInv
<1> QED
  BY <1>1, EntryInvariant, PTL

\* Two imports never enter one person's number twice (csv_import_service.py): between
\* the look-up and the insert of one, its lock keeps every other from both.  A spelling
\* without a key, in the later file, is not looked for by its number.
THEOREM ImportsTakeTurns == Spec => []ImportsSeeEachOther
<1>1. EntryInv => ImportsSeeEachOther
  BY DEF EntryInv
<1> QED
  BY <1>1, EntryInvariant, PTL

\* The website's inbox and the leads agree (website_submission_service.py): while one
\* at a time reviews, a submission is converted exactly when a lead was made of it.
THEOREM InboxAlwaysAgrees == Spec => []InboxAgrees
<1>1. EntryInv => InboxAgrees
  <2> SUFFICES ASSUME EntryInv, ~crossed, NEW f \in Submissions,
                      ~\E r \in Requests : Converts(req[r], f)
               PROVE  IF inbox[f].status = "converted" THEN MadeOf(f) = {inbox[f].lead}
                      ELSE MadeOf(f) = {}
    BY DEF InboxAgrees, Converts
  <2>1. \A i : i \in MadeOf(f) <=> inbox[f].status = "converted" /\ inbox[f].lead = i
    BY DEF EntryInv, Told, Named
  <2> QED
    BY <2>1
<1> QED
  BY <1>1, EntryInvariant, PTL

\* req is a function, whatever a request was given.
LEMMA Function ==
    ASSUME EntryInv, req = [s \in Requests |-> req[s]], [Next]_vars
    PROVE  req' = [s \in Requests |-> req'[s]]
<1>1. CASE UNCHANGED vars
  BY <1>1 DEF vars
<1>2. \A r \in Requests : \A to : Goes(r, to) => req' = [s \in Requests |-> req'[s]]
  BY DEF Goes
<1>3. \A r \in Requests : \A to : Written(r, to) => req' = [s \in Requests |-> req'[s]]
  BY DEF Written
<1>4. CASE UNCHANGED req
  BY <1>4
<1>5. CASE \E r \in Requests : \E to : Goes(r, to)
  BY <1>2, <1>5
<1>6. CASE \E r \in Requests : \E to : Written(r, to)
  BY <1>3, <1>6
<1>7. CASE Next
  <2>1. CASE Delete \/ (\E c \in Connections : Recycle(c)) \/ (\E f \in Submissions : Post(f))
    BY <1>4, <2>1 DEF Delete, Recycle, Post
  <2>2. ASSUME NEW r \in Requests, Insert(r) \/ EditWrite(r)
        PROVE  \E to : Written(r, to)
    BY <2>2 DEF Insert, EditWrite
  <2>3. ASSUME NEW r \in Requests, Enter(r) \/ Upload(r) \/ EditLook(r) \/ Refuse(r)
        PROVE  \E to : Goes(r, to)
    BY <2>3 DEF Enter, Upload, EditLook, Refuse
  <2>4. ASSUME NEW r \in Requests,
               \/ ImportBegins(r) \/ Lock(r) \/ ImportLook(r) \/ ImportNothing(r)
               \/ ImportFails(r) \/ Unlock(r) \/ TimeOut(r)
        PROVE  \E to : Goes(r, to)
    BY <2>4 DEF ImportBegins, Lock, ImportLook, ImportNothing, ImportFails, Unlock, TimeOut
  <2>5. ASSUME NEW r \in Requests, Convert(r) \/ Triage(r) \/ ReviewWrite(r) \/ CutOff(r)
        PROVE  \E to : Goes(r, to)
    BY <2>5 DEF Convert, Triage, Review, ReviewWrite, CutOff
  <2> QED
    BY <1>5, <1>6, <1>7, <2>1, <2>2, <2>3, <2>4, <2>5 DEF Next
<1> QED
  BY <1>1, <1>7

\* Types, and one connection at most has the lock.
LEMMA EntryTyped ==
    ASSUME EntryInv, req = [s \in Requests |-> req[s]]
    PROVE  TypeOK
<1>1. \A q : Fine(q) => q \in InFlight \cup {Idle}
  BY DEF Fine, InFlight, Inserting, Editing, Importing, Unlocking, Reviewing
<1>2. req \in [Requests -> InFlight \cup {Idle}]
  <2>1. \A s \in Requests : req[s] \in InFlight \cup {Idle}
    BY <1>1 DEF EntryInv, Requested
  <2> QED
    BY <2>1
<1>3. Cardinality({c \in Connections : locked[c] > 0}) <= 1
  <2> DEFINE S == {c \in Connections : locked[c] > 0}
  <2>1. \A c, d \in S : c = d
    BY DEF EntryInv, LockedOnce
  <2> HIDE DEF S
  <2>2. Cardinality(S) <= 1
    <3>1. CASE S = {}
      BY <3>1, FS_EmptySet
    <3>2. CASE S # {}
      <4>1. PICK c : S = {c}
        BY <2>1, <3>2
      <4> QED
        BY <4>1, FS_Singleton
    <3> QED
      BY <3>1, <3>2
  <2> QED
    BY <2>2 DEF S
<1>4. \A c \in Connections : locked[c] \in Nat
  BY DEF EntryInv, LockedOnce
<1>5. \A f \in Submissions : inbox[f] = Absent
          \/ (inbox[f] \in Posts /\ inbox[f].lead \in {0} \cup DOMAIN leads)
  BY DEF EntryInv, Kept
<1> QED
  BY <1>2, <1>3, <1>4, <1>5 DEF TypeOK, EntryInv, Kept

\* The entries' state is well-typed, and the lock is of one connection at a time.
THEOREM EntryTypeCorrect == Spec => []TypeOK
<1> DEFINE F == req = [s \in Requests |-> req[s]]
<1>1. Init => F
  BY DEF Init
<1>2. EntryInv /\ F /\ [Next]_vars => F'
  BY Function
<1>3. EntryInv /\ F => TypeOK
  BY EntryTyped
<1> QED
  BY <1>1, <1>2, <1>3, EntryInvariant, PTL DEF Spec

-----------------------------------------------------------------------------
(* Both: a behaviour of Intake is one of the entries and one of the queue. *)

LEMMA IntakeIsBoth == IntakeSpec => Spec /\ Queue!Spec
<1>1. IntakeInit => Init /\ Queue!Init
  BY DEF IntakeInit
<1>2. [IntakeNext]_IntakeVars => [Next]_vars /\ [Queue!Next]_(Queue!vars)
  <2>1. UNCHANGED IntakeVars => UNCHANGED vars /\ UNCHANGED queueState
    BY DEF IntakeVars
  <2>2. UNCHANGED queueState => UNCHANGED Queue!vars
    BY DEF queueState, Queue!vars, Queue!queueVars, Queue!workerVars, Queue!leadVars,
           Queue!boundVars
  <2>3. IntakeNext => [Next]_vars /\ (Queue!Next \/ UNCHANGED queueState)
    BY DEF IntakeNext
  <2> QED
    BY <2>1, <2>2, <2>3
<1> QED
  BY <1>1, <1>2, PTL DEF IntakeSpec, Spec, Queue!Spec

\* Wherever leads come from: what the queue promises of an event and the entries of a
\* person, a file and a submission holds of the two as they are checked together.
THEOREM IntakeHolds ==
    IntakeSpec => [](OneLeadPerEvent /\ OnePersonOneLead /\ ImportsSeeEachOther /\ InboxAgrees)
  BY IntakeIsBoth, OneLead, OnePerson, ImportsTakeTurns, InboxAlwaysAgrees, PTL
=============================================================================
