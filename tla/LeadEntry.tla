----------------------------- MODULE LeadEntry -----------------------------
(***************************************************************************)
(* The ways a person becomes a lead: the form and its callers and the edit *)
(* of a contact (services/lead_service.py), the CSV import                 *)
(* (services/csv_import_service.py), the upload of a campaign              *)
(* (api/v1/campaigns.py) and the inbox of the website                      *)
(* (services/website_submission_service.py).  Each looks for the contact   *)
(* first and inserts later; the unique indexes decide at the insert.       *)
(*                                                                         *)
(* A lead is known by one contact, a phone number or an e-mail address, in *)
(* one of two spellings that normalisation does not make equal: a number   *)
(* with stray digits before its last ten, which has no phone_dedupe_key;   *)
(* another case.  The numbers rows get are in Numbering; its lock is why   *)
(* an insert and its commit are one step here.                             *)
(***************************************************************************)
EXTENDS Naturals, FiniteSets, FiniteSetsExt, SequencesExt

CONSTANTS
    People,       \* who may be entered
    Requests,     \* requests that may be in flight at once
    Connections,  \* the connections of the pool that imports get
    Submissions,  \* external_id of the website's posts
    MaxFile,      \* bound: rows of a file
    MaxLeads,     \* bound: leads
    MaxRequests   \* bound: requests that read or delete

NoForm == "no submission"
NoConnection == "no connection"

ASSUME EntryConstants ==
    /\ NoForm \notin Submissions /\ NoConnection \notin Connections
    /\ MaxFile \in Nat /\ MaxLeads \in Nat /\ MaxRequests \in Nat

Contacts == [kind : {"phone", "email"}, who : People, spelt : {"plain", "other"}]

VARIABLES
    leads,    \* the rows of leads
    inbox,    \* the rows of website_submissions
    locked,   \* how often each connection holds the advisory lock of imports
    req,      \* the requests in flight
    crossed,  \* history: a submission was written by two requests at once, or a
              \* conversion was cut off between its two commits
    served    \* bound counter

vars == <<leads, inbox, locked, req, crossed, served>>

\* form: custom_fields.website_submission_id.  History: via, how the row got its
\* contact; batch, the rows there were before its insert; late, whether contacts were
\* written between its look-up and its write.
Leads == [contact : Contacts, live : BOOLEAN, via : {"form", "import", "upload", "edit"},
          form : Submissions \cup {NoForm}, batch : 0..MaxLeads, late : BOOLEAN]

Absent == [status |-> "absent"]
Posts == [status : {"new", "converted", "duplicate", "spam"}, lead : 0..MaxLeads,
          contact : Contacts]

Idle == [at |-> "idle"]
InFlight ==
    [at : {"insert"}, batch : SUBSET Contacts, via : {"form", "import", "upload"},
     form : Submissions \cup {NoForm}, seen : Posts \cup {Absent},
     on : Connections \cup {NoConnection}, late : BOOLEAN]
    \cup [at : {"edit"}, lead : 1..MaxLeads, contact : Contacts, late : BOOLEAN]
    \cup [at : {"lock", "look"}, file : SUBSET Contacts, on : Connections]
    \cup [at : {"unlock"}, on : Connections]
    \cup [at : {"review"}, form : Submissions, seen : Posts, to : Posts]

TypeOK ==
    /\ leads \in Seq(Leads) /\ Len(leads) <= MaxLeads
    /\ \A f \in Submissions : inbox[f] = Absent
           \/ (inbox[f] \in Posts /\ inbox[f].lead \in {0} \cup DOMAIN leads)
    /\ \A c \in Connections : locked[c] \in Nat
    /\ Cardinality({c \in Connections : locked[c] > 0}) <= 1
    /\ req \in [Requests -> InFlight \cup {Idle}]
    /\ crossed \in BOOLEAN /\ served \in 0..MaxRequests

Init ==
    /\ leads = <<>> /\ inbox = [f \in Submissions |-> Absent]
    /\ locked = [c \in Connections |-> 0] /\ req = [r \in Requests |-> Idle]
    /\ crossed = FALSE /\ served = 0

-----------------------------------------------------------------------------
(* Contacts: what the look-ups and what the indexes call the same.         *)

Live == {i \in DOMAIN leads : leads[i].live}

\* One person's number, one person's address.
Same(c, d) == c.kind = d.kind /\ c.who = d.who

Keyless(c) == c.kind = "phone" /\ c.spelt = "other"

\* phone_match_clause, lower(email): a number finds those with its last ten digits; one
\* that has no key finds only its own spelling.
Known(c, S) ==
    \E i \in S : Same(leads[i].contact, c) /\ (Keyless(c) => leads[i].contact = c)

\* uniq_leads_phone_active compares strings, uniq_leads_email_active in lower case.
Clashes(c, d) == Same(c, d) /\ (c.kind = "phone" => c.spelt = d.spelt)
Refused(c, S) == \E i \in S : Clashes(leads[i].contact, c)

\* Variant: the stored strings are compared.
ImportKnowsExact(c, F) == \E i \in Live : leads[i].contact = c

\* What an import of a file finds: numbers by their last ten digits, and addresses as they
\* are spelt.  A stored number whose digits are those of a row is taken for that row's, and
\* hides another row that is spelt exactly like it.
ImportKnows(c, F) ==
    /\ IF c.kind = "phone" THEN Known(c, Live) ELSE \E i \in Live : leads[i].contact = c
    /\ Keyless(c) => [c EXCEPT !.spelt = "plain"] \notin F

\* What the inbox finds: numbers as they are spelt, addresses in any case.
Matches(c) == {i \in Live : Clashes(leads[i].contact, c)}

-----------------------------------------------------------------------------
(* The form, the upload of a campaign, the edit, the deletion.             *)

Goes(r, to) == req' = [req EXCEPT ![r] = to]

\* The request has written contacts: who looked before is late.
Written(r, to) ==
    req' = [q \in Requests |->
               IF q = r THEN to
               ELSE IF req[q].at \in {"insert", "edit"} THEN [req[q] EXCEPT !.late = TRUE]
               ELSE req[q]]

Begins(r) == req[r] = Idle /\ served < MaxRequests /\ served' = served + 1

Batch(F, via, form, seen, c) ==
    [at |-> "insert", batch |-> F, via |-> via, form |-> form, seen |-> seen, on |-> c,
     late |-> FALSE]

Files == {F \in SUBSET Contacts : F # {} /\ IsFiniteSet(F) /\ Cardinality(F) <= MaxFile}

\* create_lead, up to the insert.
Enter(r) ==
    /\ Begins(r)
    /\ \E c \in Contacts :
           ~Known(c, Live) /\ Goes(r, Batch({c}, "form", NoForm, Absent, NoConnection))
    /\ UNCHANGED <<leads, inbox, locked, crossed>>

\* upload_csv of a campaign: numbers as they are stored; those there are skipped.
Upload(r) ==
    /\ Begins(r)
    /\ \E F \in Files :
           LET new == F \ {leads[i].contact : i \in Live}
           IN  /\ (\A c \in F : c.kind = "phone") /\ new # {}
               /\ Goes(r, Batch(new, "upload", NoForm, Absent, NoConnection))
    /\ UNCHANGED <<leads, inbox, locked, crossed>>

\* A connection no import is on.
Spare(c) == \A q \in Requests : req[q].at \in {"insert", "lock", "look", "unlock"} => req[q].on # c

\* The insert of a batch, and its commit.  A conversion goes on to its submission, an
\* import to its unlock, on the connection the session gets after the commit.
Insert(r) ==
    LET q == req[r]
        order == SetToSeq(q.batch)
        rows == [k \in DOMAIN order |->
                    [contact |-> order[k], live |-> TRUE, via |-> q.via, form |-> q.form,
                     batch |-> Len(leads), late |-> q.late]]
        convert == [q.seen EXCEPT !.status = "converted", !.lead = Len(leads) + 1]
    IN  /\ q.at = "insert" /\ Len(leads) + Len(rows) <= MaxLeads
        /\ \A c \in q.batch :
               ~Refused(c, Live) /\ \A d \in q.batch \ {c} : ~Clashes(c, d)
        /\ leads' = leads \o rows
        /\ \/ q.form = NoForm /\ q.via # "import" /\ Written(r, Idle)
           \/ /\ q.form # NoForm
              /\ Written(r, [at |-> "review", form |-> q.form, seen |-> q.seen,
                             to |-> convert])
           \/ /\ q.via = "import"
              /\ \E c \in Connections :
                     (c = q.on \/ Spare(c)) /\ Written(r, [at |-> "unlock", on |-> c])
        /\ UNCHANGED <<inbox, locked, crossed, served>>

\* update_lead with a contact.
EditLook(r) ==
    /\ Begins(r)
    /\ \E i \in Live, c \in Contacts :
           /\ ~Known(c, Live \ {i})
           /\ Goes(r, [at |-> "edit", lead |-> i, contact |-> c, late |-> FALSE])
    /\ UNCHANGED <<leads, inbox, locked, crossed>>

EditWrite(r) ==
    LET q == req[r]
    IN  /\ q.at = "edit"
        /\ (q.lead \in Live => ~Refused(q.contact, Live \ {q.lead}))
        /\ leads' = [leads EXCEPT ![q.lead] =
                        [@ EXCEPT !.contact = q.contact, !.via = "edit", !.late = q.late]]
        /\ Written(r, Idle) /\ UNCHANGED <<inbox, locked, crossed, served>>

\* delete_lead.
Delete ==
    /\ served < MaxRequests /\ served' = served + 1
    /\ \E i \in Live : leads' = [leads EXCEPT ![i].live = FALSE]
    /\ UNCHANGED <<inbox, locked, req, crossed>>

\* A refusal, an index in the way, a crash: the transaction is rolled back.
Refuse(r) ==
    /\ \/ req[r].at = "insert" /\ req[r].via # "import"
       \/ req[r].at = "edit"
       \/ req[r].at = "review" /\ req[r].to.status # "converted"
    /\ Goes(r, Idle) /\ UNCHANGED <<leads, inbox, locked, crossed, served>>

-----------------------------------------------------------------------------
(* The CSV import, under an advisory lock that belongs to a connection.    *)

\* The import is marked processing and committed; the session gets a connection.
ImportBegins(r) ==
    /\ Begins(r)
    /\ \E F \in Files, c \in Connections :
           Spare(c) /\ Goes(r, [at |-> "lock", file |-> F, on |-> c])
    /\ UNCHANGED <<leads, inbox, locked, crossed>>

\* Variant: nothing is waited for.
LockAtOnce(r) ==
    /\ req[r].at = "lock" /\ locked' = [locked EXCEPT ![req[r].on] = @ + 1]
    /\ Goes(r, [req[r] EXCEPT !.at = "look"])
    /\ UNCHANGED <<leads, inbox, crossed, served>>

\* pg_advisory_lock: no other connection has it; its own may, and counts.
Lock(r) ==
    /\ req[r].at = "lock" /\ \A c \in Connections \ {req[r].on} : locked[c] = 0
    /\ locked' = [locked EXCEPT ![req[r].on] = @ + 1]
    /\ Goes(r, [req[r] EXCEPT !.at = "look"])
    /\ UNCHANGED <<leads, inbox, crossed, served>>

\* The rows that are not duplicates.  Of one file, only equal strings are.
ImportLook(r) ==
    LET new == {c \in req[r].file : ~ImportKnows(c, req[r].file)}
    IN  /\ req[r].at = "look" /\ new # {}
        /\ Goes(r, Batch(new, "import", NoForm, Absent, req[r].on))
        /\ UNCHANGED <<leads, inbox, locked, crossed, served>>

\* Nothing to insert, or a file that is refused.
ImportNothing(r) ==
    /\ req[r].at = "look" /\ Goes(r, [at |-> "unlock", on |-> req[r].on])
    /\ UNCHANGED <<leads, inbox, locked, crossed, served>>

\* The database refuses a row: the unlock in the finally is refused as well.
ImportFails(r) ==
    /\ req[r].at = "insert" /\ req[r].via = "import" /\ Goes(r, Idle)
    /\ UNCHANGED <<leads, inbox, locked, crossed, served>>

\* pg_advisory_unlock: of a connection that has no lock, a warning.
Unlock(r) ==
    /\ req[r].at = "unlock" /\ Goes(r, Idle)
    /\ locked' = [locked EXCEPT ![req[r].on] = IF @ = 0 THEN 0 ELSE @ - 1]
    /\ UNCHANGED <<leads, inbox, crossed, served>>

\* command_timeout, while waiting for the lock.
TimeOut(r) ==
    /\ req[r].at = "lock" /\ Goes(r, Idle)
    /\ UNCHANGED <<leads, inbox, locked, crossed, served>>

\* pool_recycle: a connection of five minutes is closed, and its locks with it.
Recycle(c) ==
    /\ Spare(c) /\ locked[c] > 0 /\ locked' = [locked EXCEPT ![c] = 0]
    /\ UNCHANGED <<leads, inbox, req, crossed, served>>

-----------------------------------------------------------------------------
(* The website's inbox.                                                    *)

\* The website writes addresses in lower case.
Website == {c \in Contacts : c.kind = "email" => c.spelt = "plain"}

\* ingest.  A second post of the same external_id gets the row there is: before the
\* insert or, when two come at once, after the index refused one.
Post(f) ==
    /\ inbox[f] = Absent
    /\ \E c \in Website :
           \E m \in IF Matches(c) = {} THEN {0} ELSE Matches(c) :
               inbox' = [inbox EXCEPT ![f] = [status |-> "new", lead |-> m, contact |-> c]]
    /\ UNCHANGED <<leads, locked, req, crossed, served>>

Review(r, f, status, lead) ==
    Goes(r, [at |-> "review", form |-> f, seen |-> inbox[f],
             to |-> [inbox[f] EXCEPT !.status = status, !.lead = lead]])

\* convert, with the contact of the submission or one put in its place: a lead the inbox
\* finds makes it a duplicate; one only create_lead finds is an error.
Convert(r) ==
    /\ Begins(r)
    /\ \E f \in Submissions, c \in Website :
           /\ inbox[f].status \notin {"absent", "converted"}
           /\ \/ \E m \in Matches(c) : Review(r, f, "duplicate", m)
              \/ ~Known(c, Live) /\ Goes(r, Batch({c}, "form", f, inbox[f], NoConnection))
    /\ UNCHANGED <<leads, inbox, locked, crossed>>

\* Variant: any submission.
TriageAny(r) ==
    /\ Begins(r)
    /\ \E f \in Submissions, status \in {"spam", "new"} :
           /\ inbox[f].status # "absent"
           /\ Review(r, f, status, inbox[f].lead)
    /\ UNCHANGED <<leads, inbox, locked, crossed>>

\* mark_spam, reopen.
Triage(r) ==
    /\ Begins(r)
    /\ \E f \in Submissions, status \in {"spam", "new"} :
           /\ inbox[f].status \notin {"absent", "converted"}
           /\ Review(r, f, status, inbox[f].lead)
    /\ UNCHANGED <<leads, inbox, locked, crossed>>

\* The commit of what was decided: the columns that differ from what was read.
ReviewWrite(r) ==
    LET q == req[r]
        now == inbox[q.form]
    IN  /\ q.at = "review"
        /\ inbox' = [inbox EXCEPT ![q.form] =
                [now EXCEPT !.status = IF q.to.status = q.seen.status THEN @ ELSE q.to.status,
                            !.lead = IF q.to.lead = q.seen.lead THEN @ ELSE q.to.lead]]
        /\ crossed' = (crossed \/ q.seen # now)
        /\ Goes(r, Idle) /\ UNCHANGED <<leads, locked, served>>

\* The lead is there, the submission does not say so.
CutOff(r) ==
    /\ req[r].at = "review" /\ req[r].to.status = "converted" /\ Goes(r, Idle)
    /\ crossed' = TRUE /\ UNCHANGED <<leads, inbox, locked, served>>

-----------------------------------------------------------------------------
Next ==
    \/ \E r \in Requests :
           \/ Enter(r) \/ Upload(r) \/ Insert(r) \/ EditLook(r) \/ EditWrite(r) \/ Refuse(r)
           \/ ImportBegins(r) \/ Lock(r) \/ ImportLook(r) \/ ImportNothing(r)
           \/ ImportFails(r) \/ Unlock(r) \/ TimeOut(r)
           \/ Convert(r) \/ Triage(r) \/ ReviewWrite(r) \/ CutOff(r)
    \/ Delete
    \/ \E c \in Connections : Recycle(c)
    \/ \E f \in Submissions : Post(f)

Spec == Init /\ [][Next]_vars

-----------------------------------------------------------------------------
(* Properties.                                                             *)

Twins(i, k) == i # k /\ Same(leads[i].contact, leads[k].contact)

\* Two rows of one file.
Together(i, k) ==
    leads[i].via = "import" /\ leads[k].via = "import" /\ leads[i].batch = leads[k].batch

\* Row i got its number in a spelling without a key, and not before row k had it in one with
\* a key: the look-up did not find it.  (An edit may have been before.)
Overlooked(i, k) ==
    /\ Keyless(leads[i].contact) /\ ~Keyless(leads[k].contact)
    /\ k < i \/ leads[i].via = "edit"

\* One person is one live lead, by whichever of its ways they came in, unless contacts
\* were written between a look-up and its write, the later one has no key, a campaign's
\* file brought the number in another spelling, or one import's file had it twice.
OnePersonOneLead ==
    \A i, k \in Live : Twins(i, k) =>
        \/ leads[i].late \/ leads[k].late \/ Together(i, k)
        \/ Overlooked(i, k) \/ Overlooked(k, i)
        \/ "upload" \in {leads[i].via, leads[k].via}

\* Two imports never enter one person's number twice, however they overlap and on
\* whatever connections their locks were left, unless the later file has it in a spelling
\* without a key.
ImportsSeeEachOther ==
    \A i, k \in Live :
        Twins(i, k) /\ leads[i].via = "import" /\ leads[k].via = "import"
            => Together(i, k) \/ Overlooked(i, k) \/ Overlooked(k, i)

MadeOf(f) == {i \in DOMAIN leads : leads[i].form = f}

\* Reviewed by one at a time, a submission says converted when it has become a lead,
\* names that lead, and becomes no other, through spam, reopening and refusals.
InboxAgrees ==
    ~crossed =>
        \A f \in Submissions :
            \/ \E r \in Requests : req[r].at = "review" /\ req[r].form = f
                                   /\ req[r].to.status = "converted"
            \/ IF inbox[f].status = "converted" THEN MadeOf(f) = {inbox[f].lead}
               ELSE MadeOf(f) = {}

\* The advisory lock is there only while an import is.
LockReleased ==
    \A c \in Connections : locked[c] > 0 =>
        \E r \in Requests :
            \/ req[r].at \in {"look", "unlock"}
            \/ req[r].at = "insert" /\ req[r].via = "import"
=============================================================================
