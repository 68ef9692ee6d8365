---------------------------- MODULE LenderFiles ----------------------------
(***************************************************************************)
(* The lender files of the leads (lead_banks: one per lead and lender) and *)
(* the tranches a lender has released on them (bank_disbursements), as     *)
(* written by the bank grid (services/lead_service.py), by the moves of a  *)
(* lead to pf_paid, sanctioned and disbursed (services/stage_machine.py)   *)
(* and by the disbursement screens (services/commission_service.py).       *)
(*                                                                         *)
(* A grid request reads the lead's files and writes what follows from what *)
(* it read; another request may commit in between.  A move writes the lead *)
(* before it reads the files, so moves of one lead follow one another.     *)
(* What the lender pays and what is billed follow in CommissionLedger; here *)
(* they are edits of a tranche.  Money is in paise; a rate is in units of  *)
(* which RateUnit are the whole: Numeric(5,2) percent, hundredths of them. *)
(***************************************************************************)
EXTENDS Integers, FiniteSets, FiniteSetsExt, SequencesExt

CONSTANTS
    Users,        \* users with a request each
    Leads, Lenders,
    Rate,         \* banks.commission_rate of a lender, Null for none
    Amounts,      \* amounts released
    Sanctions,    \* amounts approved
    Days,         \* dates of a release and of a receipt
    Today,
    RateUnit,     \* 10000
    Offered,      \* bank_status values a user picks when adding a lender
    Legacy,       \* tranches loaded from the revenue tracker
    Payments,     \* amounts a lender pays
    Agreed,       \* commissions typed over the formula
    TaxPercent,   \* the GST a bill adds
    MaxChanges,   \* bound: requests that write
    NoFile, NoLender

Null == -1
Files == Leads \X Lenders
Statuses == {"applied", "docs_reviewed", "under_review", "loan_login",
             "sanctioned", "pf_paid", "disbursed", "lost"}
Live == {"sanctioned", "pf_paid", "disbursed"}
Stages == {"created", "logged_in", "sanctioned", "pf_paid", "disbursed", "lost"}

Tranches ==
    [file : Files, no : Nat, amount : Nat, day : Nat, guessed : BOOLEAN, rate : Nat,
     earns : BOOLEAN, commission : Nat, gst : Nat, received : Nat \cup {Null},
     paidOn : Nat, writtenOff : BOOLEAN, billed : BOOLEAN, automatic : BOOLEAN]

ASSUME ConstantsAssumption ==
    /\ Rate \in [Lenders -> Nat \cup {Null}]
    /\ Amounts \subseteq Nat \ {0} /\ Sanctions \subseteq Nat \ {0}
    /\ Days \subseteq Nat \ {0} /\ Today \in Nat /\ RateUnit \in Nat \ {0} /\ Payments \subseteq Nat /\ Agreed \subseteq Nat
    /\ TaxPercent \in Nat /\ Offered \subseteq Statuses /\ MaxChanges \in Nat
    /\ NoFile \notin Statuses /\ NoLender \notin Lenders \cup Leads
    /\ IsFiniteSet(Lenders)
    /\ IsFiniteSet(Legacy) /\ Legacy \subseteq Tranches
    /\ \A t \in Legacy : ~t.automatic /\ t.day <= Today
    /\ \A t, q \in Legacy : t.file = q.file /\ t.no = q.no => t = q

VARIABLES
    stage,     \* leads.current_stage
    deleted,   \* the leads soft-deleted
    primary,   \* leads.bank_name
    status,    \* lead_banks.bank_status of each file, NoFile without a row
    loan,      \* lead_banks.loan_amount
    rate,      \* lead_banks.commission_rate, the snapshot
    touched,   \* the lenders of each lead in the order of updated_at
    tranches,  \* the rows of bank_disbursements
    at,        \* the lead a user's grid request is about, NoLender when idle
    seen,      \* what it has read of that lead
    raced,     \* history: leads two requests held at once
    changes    \* bound counter

leadVars == <<stage, deleted, primary>>
fileVars == <<status, loan, rate, touched>>
requestVars == <<at, seen>>
vars == <<leadVars, fileVars, tranches, requestVars, raced, changes>>

TypeOK ==
    /\ stage \in [Leads -> Stages] /\ deleted \subseteq Leads
    /\ primary \in [Leads -> Lenders \cup {NoLender}]
    /\ status \in [Files -> Statuses \cup {NoFile}]
    /\ loan \in [Files -> Nat \cup {Null}] /\ rate \in [Files -> Nat \cup {Null}]
    /\ \A l \in Leads : ToSet(touched[l]) = {b \in Lenders : status[<<l, b>>] # NoFile}
    /\ tranches \subseteq Tranches
    /\ \A t, q \in tranches : t.file = q.file /\ t.no = q.no => t = q
    /\ at \in [Users -> Leads \cup {NoLender}]
    /\ raced \subseteq Leads /\ changes \in 0..MaxChanges

\* has_disbursement.
HasTranche(f) == \E t \in tranches : t.file = f

Unread == [files |-> [b \in Lenders |-> NoFile], paid |-> {}, primary |-> NoLender]

\* A book as the import left it: the leads are early, their files say disbursed.
Init ==
    /\ stage = [l \in Leads |-> "created"] /\ deleted = {}
    /\ tranches = Legacy
    /\ status = [f \in Files |-> IF HasTranche(f) THEN "disbursed" ELSE NoFile]
    /\ loan = [f \in Files |-> Null]
    /\ rate = [f \in Files |-> IF HasTranche(f) THEN Rate[f[2]] ELSE Null]
    /\ touched = [l \in Leads |-> SetToSeq({b \in Lenders : HasTranche(<<l, b>>)})]
    /\ primary = [l \in Leads |-> IF touched[l] = <<>> THEN NoLender ELSE Last(touched[l])]
    /\ at = [u \in Users |-> NoLender] /\ seen = [u \in Users |-> Unread]
    /\ raced = {} /\ changes = 0

-----------------------------------------------------------------------------
(* The primary lender of a lead.                                           *)

\* _BANK_STATUS_PRIORITY.
Priority ==
    [disbursed |-> 7, pf_paid |-> 6, sanctioned |-> 5, loan_login |-> 4,
     under_review |-> 3, docs_reviewed |-> 2, applied |-> 1, lost |-> 0]

\* The furthest file of those there are, the one touched last of those as far.
Best(files, order) ==
    LET there == {i \in DOMAIN order : files[order[i]] # NoFile}
        top == Max({Priority[files[order[i]]] : i \in there})
    IN  IF there = {} THEN NoLender
        ELSE order[Max({i \in there : Priority[files[order[i]]] = top})]

FilesOf(l) == [b \in Lenders |-> status[<<l, b>>]]

\* The order without b, which it has once at the most.
Without(order, b) ==
    IF b \notin ToSet(order) THEN order
    ELSE LET p == CHOOSE i \in DOMAIN order : order[i] = b
         IN  [i \in 1..(Len(order) - 1) |-> order[IF i < p THEN i ELSE i + 1]]

Touch(l, b) == Append(Without(touched[l], b), b)

\* Variant: the lead's lender is set once, and not lowered or changed.
ResyncOnce(l, files, order, was) ==
    LET best == Best(files, order)
    IN  primary' = [primary EXCEPT ![l] = IF was = NoLender THEN best ELSE @]

\* _resync_primary_bank, from files: every file the request can see.  The lead is
\* written when the outcome is not what was read.
Resync(l, files, order, was) ==
    LET best == Best(files, order)
    IN  primary' = [primary EXCEPT ![l] = IF best = was THEN @ ELSE best]

Holders(l) == {u \in Users : at[u] = l}

\* A request that is not in hand changes l: those that are have read too early.
Disturbs(l) == raced' = IF Holders(l) = {} THEN raced ELSE raced \cup {l}

Changes == changes < MaxChanges /\ changes' = changes + 1

-----------------------------------------------------------------------------
(* Tranches.                                                               *)

TranchesOf(f) == {t \in tranches : t.file = f}

Total(S) == SumFunctionOnSet([t \in S |-> t.amount], S)

NextNo(f) == Max({0} \cup {t.no : t \in TranchesOf(f)}) + 1

\* Variant: a tranche is measured against the sanction alone.
WithinSanctionAlone(ceiling, others, amount) == ceiling = Null \/ amount <= ceiling

\* _assert_within_sanction: others is what the file's other tranches come to.
WithinSanction(ceiling, others, amount) == ceiling = Null \/ others + amount <= ceiling

\* Variant: what is past the paisa is dropped.
RoundedDown(n, unit) == n \div unit

\* _round2: to the nearest, a half up.
HalfUp(n, unit) == (2 * n + unit) \div (2 * unit)

\* compute_commission.
Earned(amount, r, earns) == IF earns THEN HalfUp(amount * r, RateUnit) ELSE 0

Booked(f, amount, day, automatic) ==
    [file |-> f, no |-> NextNo(f), amount |-> amount, day |-> day, guessed |-> FALSE,
     rate |-> Rate[f[2]], earns |-> TRUE,
     commission |-> Earned(amount, Rate[f[2]], TRUE), gst |-> 0,
     received |-> Null, paidOn |-> 0, writtenOff |-> FALSE, billed |-> FALSE,
     automatic |-> automatic]

\* Variant: on a file without an amount nothing is booked.
BooksIfPriced(f, amount, day, ceiling, automatic) ==
    /\ day <= Today /\ Rate[f[2]] # Null
    /\ WithinSanction(ceiling, Total(TranchesOf(f)), amount)
    /\ tranches' = IF ceiling = Null THEN tranches
                   ELSE tranches \cup {Booked(f, amount, day, automatic)}

\* record_disbursement: refused in the future, without a rate, or past the sanction.
Books(f, amount, day, ceiling, automatic) ==
    /\ day <= Today /\ Rate[f[2]] # Null
    /\ WithinSanction(ceiling, Total(TranchesOf(f)), amount)
    /\ tranches' = tranches \cup {Booked(f, amount, day, automatic)}

\* add_disbursement: a tranche typed by hand, on a file of any status.
AddTranche(f) ==
    /\ status[f] # NoFile /\ Changes
    /\ \E amount \in Amounts, day \in Days : Books(f, amount, day, loan[f], FALSE)
    /\ Disturbs(f[1])
    /\ UNCHANGED <<leadVars, fileVars, requestVars>>

Becomes(t, new) == tranches' = (tranches \ {t}) \cup {new}

\* update: another amount, held against the file's other tranches.
Retype(t) ==
    \E amount \in Amounts :
       /\ WithinSanction(loan[t.file], Total(TranchesOf(t.file) \ {t}), amount)
       /\ Becomes(t, [t EXCEPT !.amount = amount,
                               !.commission = Earned(amount, t.rate, t.earns)])

Toggle(t) ==
    Becomes(t, [t EXCEPT !.earns = ~t.earns,
                         !.commission = Earned(t.amount, t.rate, ~t.earns)])

Negotiate(t) == t.earns /\ \E c \in Agreed : Becomes(t, [t EXCEPT !.commission = c])

\* What arrived and when; 0 is no date.  Not before the release it pays; in the future
\* if it is typed so.
Settle(t) ==
    \E paid \in Payments, day \in Days \cup {0} :
       /\ day = 0 \/ day >= t.day
       /\ Becomes(t, [t EXCEPT !.received = paid, !.paidOn = day])

\* A date that has come in the place of another, or of none.  That it was a guess stays.
Redate(t) ==
    \E day \in Days \cup {0} :
       /\ day <= Today /\ (t.paidOn = 0 \/ t.paidOn >= day)
       /\ Becomes(t, [t EXCEPT !.day = day])

WriteOff(t) == Becomes(t, [t EXCEPT !.writtenOff = TRUE])

\* raise_invoice, for this tranche.
Bill(t) ==
    /\ ~t.billed /\ ~t.writtenOff /\ t.earns /\ t.commission > 0
    /\ Becomes(t, [t EXCEPT !.billed = TRUE, !.gst = HalfUp(t.commission * TaxPercent, 100)])

EditTranche(t) ==
    /\ Changes
    /\ \/ Retype(t) \/ Toggle(t) \/ Negotiate(t) \/ Settle(t)
       \/ Redate(t) \/ WriteOff(t) \/ Bill(t)
    /\ Disturbs(t.file[1])
    /\ UNCHANGED <<leadVars, fileVars, requestVars>>

\* delete: not once it is billed.  The file keeps its status.
DeleteTranche(t) ==
    /\ ~t.billed /\ Changes
    /\ tranches' = tranches \ {t}
    /\ Disturbs(t.file[1])
    /\ UNCHANGED <<leadVars, fileVars, requestVars>>

-----------------------------------------------------------------------------
(* The bank grid.                                                          *)

\* A request about lead l reads its files.  (What it reads again before it commits it
\* may read newer than this; a lead two requests hold at once is set apart.)
Reads(u, l) ==
    /\ at[u] = NoLender /\ l \notin deleted
    /\ at' = [at EXCEPT ![u] = l]
    /\ seen' = [seen EXCEPT ![u] = [files |-> FilesOf(l), primary |-> primary[l],
                                    paid |-> {b \in Lenders : HasTranche(<<l, b>>)}]]
    /\ Disturbs(l)
    /\ UNCHANGED <<leadVars, fileVars, tranches, changes>>

Ends(u) ==
    /\ at' = [at EXCEPT ![u] = NoLender]
    /\ seen' = [seen EXCEPT ![u] = Unread]

\* The request leaves file b at s and looks for the best file again.
Leaves(u, b, s) ==
    LET l == at[u] IN
    /\ status' = [status EXCEPT ![<<l, b>>] = s]
    /\ touched' = [touched EXCEPT ![l] = IF s = NoFile THEN Without(@, b) ELSE Touch(l, b)]
    /\ Resync(l, [seen[u].files EXCEPT ![b] = s], touched'[l], seen[u].primary)
    /\ Ends(u)
    /\ UNCHANGED <<stage, deleted, raced>>

\* add_bank, and record_bank_share for a lender the lead was not sent to: the file is
\* new to the request and, by the unique index, to the table.
AddFile(u, b) ==
    /\ at[u] # NoLender /\ Changes
    /\ seen[u].files[b] = NoFile /\ status[<<at[u], b>>] = NoFile
    /\ \E s \in Offered : Leaves(u, b, s)
    /\ UNCHANGED <<loan, rate, tranches>>

\* Variant: the first tranche is booked whenever the status is set to disbursed.
BooksFirstAlways(u, b, s) == s = "disbursed" /\ seen[u].files[b] # "disbursed"

\* A save that is to book the file's first tranche.
BooksFirst(u, b, s) ==
    s = "disbursed" /\ seen[u].files[b] # "disbursed" /\ b \notin seen[u].paid

\* update_bank_entry: status s and, or, the amount approved.
SaveFile(u, b, s) ==
    LET f == <<at[u], b>> IN
    /\ at[u] # NoLender /\ Changes
    /\ seen[u].files[b] # NoFile /\ status[f] # NoFile
    /\ s = "lost" => seen[u].files[b] = "lost" \/ b \notin seen[u].paid
    /\ \E approved \in Sanctions \cup {Null} :
          /\ approved # Null => s \in Live
          /\ loan' = [loan EXCEPT ![f] = IF approved = Null THEN @ ELSE approved]
          /\ s \in {"sanctioned", "pf_paid"} => loan'[f] # Null
    /\ rate' = [rate EXCEPT ![f] = IF s \in Live /\ @ = Null THEN Rate[b] ELSE @]
    /\ IF BooksFirst(u, b, s)
       THEN \E amount \in Amounts, day \in Days : Books(f, amount, day, loan'[f], TRUE)
       ELSE UNCHANGED tranches
    /\ Leaves(u, b, s)

\* delete_bank_entry.  The tranches of a file that goes would be left without one: the
\* ORM blanks their lead_bank_id, which may not be null, and the request fails.
DeleteFile(u, b) ==
    LET f == <<at[u], b>> IN
    /\ at[u] # NoLender /\ Changes
    /\ seen[u].files[b] # NoFile /\ status[f] # NoFile /\ ~HasTranche(f)
    /\ loan' = [loan EXCEPT ![f] = Null] /\ rate' = [rate EXCEPT ![f] = Null]
    /\ Leaves(u, b, NoFile)
    /\ UNCHANGED tranches

\* A check refuses the request, or it is cut off.
Refused(u) ==
    /\ at[u] # NoLender /\ Ends(u)
    /\ UNCHANGED <<leadVars, fileVars, tranches, raced, changes>>

-----------------------------------------------------------------------------
(* Moves of a lead.                                                        *)

\* transition's table: on from anywhere, out of lost only to the first stage.
MayMove(l, target) ==
    /\ l \notin deleted /\ stage[l] \notin {target, "disbursed"}
    /\ stage[l] = "lost" => target = "created"

MoveTo(l, target) ==
    /\ MayMove(l, target) /\ Changes
    /\ target \in {"created", "logged_in", "lost"}
    /\ stage' = [stage EXCEPT ![l] = target]
    /\ UNCHANGED <<deleted, primary, fileVars, tranches, requestVars, raced>>

\* A move to pf_paid or sanctioned names the lender and the amount it approved, one to
\* disbursed what it released, booked when the file has no tranche.  The file is made
\* when the lead was not shared with that lender.
MoveWith(l, b, target) ==
    LET f == <<l, b>> IN
    /\ MayMove(l, target) /\ target \in Live /\ Changes
    /\ stage' = [stage EXCEPT ![l] = target]
    /\ status' = [status EXCEPT ![f] = target]
    /\ touched' = [touched EXCEPT ![l] = Touch(l, b)]
    /\ IF target = "disbursed" THEN UNCHANGED loan
       ELSE \E approved \in Sanctions : loan' = [loan EXCEPT ![f] = approved]
    /\ rate' = [rate EXCEPT ![f] = IF target # "pf_paid" /\ @ = Null THEN Rate[b] ELSE @]
    /\ IF target = "disbursed" /\ ~HasTranche(f)
       THEN \E amount \in Amounts, day \in Days : Books(f, amount, day, loan[f], TRUE)
       ELSE UNCHANGED tranches
    /\ Resync(l, [FilesOf(l) EXCEPT ![b] = target], touched'[l], primary[l])
    /\ Disturbs(l)
    /\ UNCHANGED <<deleted, requestVars>>

\* delete_lead: the lead is hidden; its files and tranches stay.
DeleteLead(l) ==
    /\ l \notin deleted /\ Changes
    /\ deleted' = deleted \cup {l}
    /\ UNCHANGED <<stage, primary, fileVars, tranches, requestVars, raced>>

GridStep(u) ==
    \/ \E l \in Leads : Reads(u, l)
    \/ \E b \in Lenders : AddFile(u, b) \/ DeleteFile(u, b)
    \/ \E b \in Lenders, s \in Statuses : SaveFile(u, b, s)
    \/ Refused(u)

TrancheStep ==
    \/ \E f \in Files : AddTranche(f)
    \/ \E t \in tranches : EditTranche(t) \/ DeleteTranche(t)

LeadStep ==
    \/ \E l \in Leads, s \in Stages : MoveTo(l, s)
    \/ \E l \in Leads, b \in Lenders, s \in Stages : MoveWith(l, b, s)
    \/ \E l \in Leads : DeleteLead(l)

Next == TrancheStep \/ LeadStep \/ \E u \in Users : GridStep(u)

Spec == Init /\ [][Next]_vars

-----------------------------------------------------------------------------
(* Properties.  A lead whose files two requests held at once is set apart: *)
(* nothing protects it.                                                    *)

\* The lender shown on the lead is the one whose file is furthest, whatever was added,
\* saved, moved or deleted.
PrimaryIsBest ==
    \A l \in Leads \ raced : primary[l] = Best(FilesOf(l), touched[l])

\* "Each of those must not invent another tranche": a file's first tranche is booked
\* of itself once, by the grid or by the move.
FirstTrancheOnce ==
    \A f \in Files :
        f[1] \notin raced => Cardinality({t \in TranchesOf(f) : t.automatic}) <= 1

\* "A lender cannot release more than it approved": whatever adds to what a file has
\* released leaves it within the amount approved by then.
ReleasedWithinSanction ==
    \A f \in Files :
        f[1] \notin raced' /\ Total(TranchesOf(f))' > Total(TranchesOf(f))
            => loan'[f] = Null \/ Total(TranchesOf(f))' <= loan'[f]

\* "The money and the stage must land together or not at all": a lead that gets to
\* disbursed has a file that says so, with a tranche, as its primary lender.
MoneyWithStage ==
    \A l \in Leads \ raced' :
        stage'[l] = "disbursed" /\ stage[l] # "disbursed"
            => \E b \in Lenders : /\ status'[<<l, b>>] = "disbursed"
                                  /\ HasTranche(<<l, b>>)'
                                  /\ primary'[l] = b

\* Money is booked with the stage it belongs to, within what was approved.
MoneyMovesRight == [][ReleasedWithinSanction /\ MoneyWithStage]_vars
=============================================================================
