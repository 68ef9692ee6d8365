---------------------------- MODULE Applications ----------------------------
(***************************************************************************)
(* The university applications of one Admitverse lead, and the furthest of *)
(* them that the lead shows (services/lead_service.py).                    *)
(*                                                                         *)
(* A request reads the lead and the application it is about, writes the    *)
(* row in its transaction, reads the rows it can then see, and commits row *)
(* and lead together: others commit in between.  Of the lead, and of an    *)
(* application, a column is written that differs from what was read.       *)
(***************************************************************************)
EXTENDS Integers

CONSTANTS
    Users,         \* users with a request each
    Universities,
    Programs,      \* names of programs,
    NoProgram,     \* and NULL
    Picked,        \* the statuses users pick
    MaxRows,       \* bound: applications
    MaxRequests    \* bound: requests

\* APPLICATION_STATUS_PRIORITY.
Priority ==
    [enrolled |-> 10, visa_approved |-> 9, visa_applied |-> 8, cas_received |-> 7,
     deposit_paid |-> 6, unconditional_offer |-> 5, conditional_offer |-> 4,
     offer_received |-> 3, shortlisted |-> 2, applied |-> 1, rejected |-> 0, withdrawn |-> 0]

Statuses == DOMAIN Priority
OfferStatuses == {s \in Statuses : Priority[s] >= Priority["offer_received"]}

\* Of the constants: pages pick statuses there are, and bounds are numbers.
ConstantsAssumption ==
    /\ NoProgram \notin Programs /\ Picked \subseteq Statuses
    /\ MaxRows \in Nat /\ MaxRequests \in Nat

VARIABLES
    apps,      \* the rows of lead_applications, by id
    shown,     \* primary_university and application_status of the lead
    req,       \* a user's request
    overtaken, \* history: the last to commit had another commit since it began
    clock,     \* of created_at and updated_at
    requests   \* bound counter

vars == <<apps, shown, req, overtaken, clock, requests>>

\* late: history, another request committed while this row was being added.
Rows == [university : Universities, program : Programs \cup {NoProgram}, status : Statuses,
         offer : BOOLEAN, updated : Nat, late : BOOLEAN]

Nothing == [university |-> "none", status |-> "none"]
Shown == {Nothing} \cup [university : Universities \cup {"none"}, status : Statuses \cup {"none"}]

Gone == [university |-> "gone"]
Idle == [at |-> "idle"]

\* was: the row as it was read; to: as it is to be; read, and write: the lead's columns.
InFlight ==
    [at : {"begun", "flushed"}, id : 1..MaxRows, was : Rows \cup {Gone}, to : Rows \cup {Gone},
     read : Shown, write : Shown, disturbed : BOOLEAN]

TypeOK ==
    /\ apps \in [1..MaxRows -> Rows \cup {Gone}] /\ shown \in Shown
    /\ req \in [Users -> InFlight \cup {Idle}] /\ overtaken \in BOOLEAN
    /\ clock \in Nat /\ requests \in 0..MaxRequests

Init ==
    /\ apps = [i \in 1..MaxRows |-> Gone] /\ shown = Nothing
    /\ req = [u \in Users |-> Idle] /\ overtaken = FALSE /\ clock = 0 /\ requests = 0

-----------------------------------------------------------------------------
(* What is shown of a set of rows.                                         *)

There(rows) == {i \in DOMAIN rows : rows[i] # Gone}

\* Further, or as far and touched later.
Beats(r, q) ==
    \/ Priority[r.status] > Priority[q.status]
    \/ Priority[r.status] = Priority[q.status] /\ r.updated >= q.updated

\* _resync_primary_application.
Best(rows) ==
    LET S == {rows[i] : i \in There(rows)}
        best == CHOOSE r \in S : \A q \in S : Beats(r, q)
    IN  IF S = {} THEN Nothing ELSE [university |-> best.university, status |-> best.status]

\* Before another on the lead's card: further, or as far and older.
Ahead(rows, i, k) ==
    \/ Priority[rows[i].status] > Priority[rows[k].status]
    \/ Priority[rows[i].status] = Priority[rows[k].status] /\ i < k

\* The applications on the lead's card, two at most: at most one is before them.
OnCard(rows) ==
    {i \in There(rows) :
        \A k, m \in There(rows) : Ahead(rows, k, i) /\ Ahead(rows, m, i) => k = m}

-----------------------------------------------------------------------------
(* A request, up to the flush.                                             *)

Same(r, university, program) == r # Gone /\ r.university = university /\ r.program = program

Begins(u, id, to) ==
    /\ req[u] = Idle /\ requests < MaxRequests /\ requests' = requests + 1 /\ clock' = clock + 1
    /\ req' = [req EXCEPT ![u] = [at |-> "begun", id |-> id, was |-> apps[id], to |-> to,
                                  read |-> shown, write |-> shown, disturbed |-> FALSE]]
    /\ UNCHANGED <<apps, shown, overtaken>>

\* Ids are given in turn.
NextId == {i \in 1..MaxRows : /\ apps[i] = Gone
                              /\ \A u \in Users : req[u] = Idle \/ req[u].id # i
                              /\ \A k \in 1..i - 1 : \/ apps[k] # Gone
                                                     \/ \E u \in Users : req[u] # Idle /\ req[u].id = k}

\* add_application, of one the lead does not have.
AddApplication(u) ==
    \E id \in NextId, n \in Universities, p \in Programs \cup {NoProgram}, s \in Picked :
        /\ \A i \in 1..MaxRows : ~Same(apps[i], n, p)
        /\ Begins(u, id, [university |-> n, program |-> p, status |-> s, offer |-> FALSE,
                          updated |-> clock + 1, late |-> FALSE])

\* update_application_entry: the status first, then what that status allows.
UpdateApplication(u) ==
    \E id \in There(apps) :
        \E s \in Picked \cup {apps[id].status}, p \in Programs \cup {apps[id].program},
           offer \in {apps[id].offer, TRUE} :
            /\ offer # apps[id].offer => s \in OfferStatuses
            /\ Begins(u, id, [apps[id] EXCEPT !.status = s, !.program = p, !.offer = offer])

\* delete_application_entry.
DeleteApplication(u) == \E id \in There(apps) : Begins(u, id, Gone)

-----------------------------------------------------------------------------
(* The flush and the commit.                                               *)

\* Columns that differ from what was read are written; of a row added or gone, all.
Merged(q, now) ==
    IF q.was = Gone \/ q.to = Gone \/ now = Gone THEN q.to
    ELSE [now EXCEPT !.status = IF q.to.status = q.was.status THEN @ ELSE q.to.status,
                     !.program = IF q.to.program = q.was.program THEN @ ELSE q.to.program,
                     !.offer = IF q.to.offer = q.was.offer THEN @ ELSE q.to.offer,
                     !.updated = q.to.updated]

\* uniq_lead_apps_lead_uni_program, which does not see NULL.
Taken(id, r) ==
    /\ r # Gone /\ r.program # NoProgram
    /\ \/ \E i \in 1..MaxRows \ {id} : Same(apps[i], r.university, r.program)
       \/ \E v \in Users : /\ req[v] # Idle /\ req[v].at = "flushed" /\ req[v].id # id
                           /\ Same(req[v].to, r.university, r.program)

\* Another transaction has written the row and is not over.
Locked(u, id) == \E v \in Users \ {u} : req[v] # Idle /\ req[v].at = "flushed" /\ req[v].id = id

\* Variant: the rows as they were before the flush.
SeenBefore(id, r) == apps
\* The rows a transaction sees after it has written its own.
Seen(id, r) == [apps EXCEPT ![id] = r]

Flush(u) ==
    LET q == req[u]
        to == IF q.was = Gone \/ q.to = Gone THEN q.to ELSE [q.to EXCEPT !.updated = clock + 1]
    IN  /\ q # Idle /\ q.at = "begun"
        /\ ~Locked(u, q.id) /\ ~Taken(q.id, to)
        /\ q.was # Gone /\ q.to # Gone => apps[q.id] # Gone
        /\ req' = [req EXCEPT ![u] =
                [q EXCEPT !.at = "flushed", !.to = to, !.write = Best(Seen(q.id, to))]]
        /\ clock' = clock + 1 /\ UNCHANGED <<apps, shown, overtaken, requests>>

\* Whoever is in flight has read too early.
Commit(u) ==
    LET q == req[u]
        row == Merged(q, apps[q.id])
    IN  /\ q # Idle /\ q.at = "flushed"
        /\ apps' = [apps EXCEPT ![q.id] = IF q.was = Gone /\ row # Gone
                                          THEN [row EXCEPT !.late = q.disturbed] ELSE row]
        /\ shown' = [university |-> IF q.write.university = q.read.university
                                    THEN shown.university ELSE q.write.university,
                     status |-> IF q.write.status = q.read.status
                                THEN shown.status ELSE q.write.status]
        /\ overtaken' = q.disturbed
        /\ req' = [v \in Users |-> IF v = u THEN Idle
                                   ELSE IF req[v] = Idle THEN Idle
                                   ELSE [req[v] EXCEPT !.disturbed = TRUE]]
        /\ UNCHANGED <<clock, requests>>

\* A refusal, a unique index, a row that is gone, a request cut off.
Rollback(u) ==
    /\ req[u] # Idle /\ req' = [req EXCEPT ![u] = Idle]
    /\ UNCHANGED <<apps, shown, overtaken, clock, requests>>

-----------------------------------------------------------------------------
Next ==
    \E u \in Users :
        \/ AddApplication(u) \/ UpdateApplication(u) \/ DeleteApplication(u)
        \/ Flush(u) \/ Commit(u) \/ Rollback(u)

Spec == Init /\ [][Next]_vars

-----------------------------------------------------------------------------
(* Properties.                                                             *)

\* The lead shows the application that is furthest, and as far as the first on its card,
\* unless the request that committed last had another commit come between: the next one
\* that has not puts it right.
LeadShowsFurthest ==
    ~overtaken =>
        /\ shown = Best(apps)
        /\ There(apps) # {} =>
               \E i \in OnCard(apps) :
                   /\ \A k \in OnCard(apps) \ {i} : Ahead(apps, i, k)
                   /\ Priority[apps[i].status] = Priority[shown.status]

\* A lead has an application twice only when neither names a program, and one of them was
\* added while another request committed.
TwinsAreNameless ==
    \A i, k \in There(apps) :
        i # k /\ Same(apps[i], apps[k].university, apps[k].program) =>
            apps[i].program = NoProgram /\ (apps[i].late \/ apps[k].late)

-----------------------------------------------------------------------------
(* What docstrings say and the code does not do.                           *)

\* "a lead can't have the same (university, program) twice (DB unique backstops the
\* check)": not when program is NULL.
ApplicationsDiffer ==
    \A i, k \in There(apps) : i # k => ~Same(apps[i], apps[k].university, apps[k].program)
=============================================================================
