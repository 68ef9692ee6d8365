-------------------------- MODULE CommissionLedger --------------------------
(***************************************************************************)
(* The commission ledger (services/commission_service.py) and the bills    *)
(* raised from it (services/invoice_service.py): one lender's releases,    *)
(* the invoices that list them, the link from a release to its invoice,    *)
(* and the money received.                                                 *)
(*                                                                         *)
(* A request reads without locks and writes what follows from what it      *)
(* read, one or two commits later; other requests run in between.  at,     *)
(* bill, rows and seen are what a user's request has in hand.  A column is *)
(* written only where its value differs from the one that was read.  Money *)
(* is in paise.  unlink_invoice is not here: it wants a draft, and no      *)
(* invoice ever is one, so it always refuses.                              *)
(***************************************************************************)
EXTENDS Integers, FiniteSets, Functions

CONSTANTS
    Users,        \* administrators with a request each
    NumReleases,  \* the lender's releases
    Commission,   \* commission_amount of each, as it is recorded
    TaxRate,      \* invoice_settings.default_tax_rate, in percent
    Receipts,     \* what a lender pays: an amount and the TDS it withheld
    Itemised,     \* what a lender who itemises puts on one release
    Edits,        \* what an administrator types: a value for some of the columns
    MaxBills,     \* bound: invoices issued
    MaxPayments,  \* bound: payments and corrections
    MaxChanges,   \* bound: voids, invoices marked paid, deletions
    MaxFaults     \* bound: requests that fail between two steps

Releases == 1..NumReleases
Bills == 1..MaxBills
NoBill == 0
Columns == {"commission", "gst", "received", "tds"}

ASSUME ConstantsAssumption ==
    /\ NumReleases \in Nat /\ MaxBills \in Nat
    /\ Commission \in [Releases -> Nat \ {0}]
    /\ TaxRate \in Nat /\ Itemised \subseteq Int
    /\ Receipts \subseteq (Nat \X Nat) \ {<<0, 0>>}
    /\ MaxPayments \in Nat /\ MaxChanges \in Nat /\ MaxFaults \in Nat

ASSUME EditsAssumption ==
    \A e \in Edits : DOMAIN e \subseteq Columns /\ \A c \in DOMAIN e : e[c] \in Nat

VARIABLES
    present,   \* the releases whose row exists
    link,      \* bank_disbursements.invoice_id
    commission, gst, received, tds,  \* commission_amount, gst_amount, amount_received
               \* and tds_deducted of bank_disbursements, NULL being 0
    status,    \* invoices.status; "none": not issued
    lines,     \* the releases whose commission the invoice's lines bill
    total_tax, \* invoices.total_tax
    at,        \* where each user's request is
    bill,      \* the invoice it is about
    rows,      \* the releases it has read
    seen,      \* their columns when read
    booked, deducted,  \* history: what payments and corrections put on each release
    retaxed,   \* history: releases whose tax was typed since they were billed
    raced,     \* history: releases two requests held at once, or one left half-way
    payments, changes, faults                           \* bound counters

moneyVars == <<commission, gst, received, tds, booked, deducted, retaxed>>
billVars == <<status, lines, total_tax>>
boundVars == <<payments, changes, faults>>
readVars == <<bill, rows, seen>>
vars == <<present, link, moneyVars, billVars, at, readVars, raced, boundVars>>

LinkTypes ==
    /\ present \subseteq Releases
    /\ link \in [Releases -> Bills \cup {NoBill}]
    /\ status \in [Bills -> {"none", "issued", "paid", "void"}]
    /\ lines \in [Bills -> SUBSET Releases]
    /\ raced \subseteq Releases

RequestTypes ==
    /\ at \in [Users -> {"idle", "raise", "link", "pay", "settle", "correct",
                         "void", "paid", "delete"}]
    /\ bill \in [Users -> Bills \cup {NoBill}]
    /\ rows \in [Users -> SUBSET Releases]

MoneyTypes ==
    /\ commission \in [Releases -> Nat]
    /\ gst \in [Releases -> Int] /\ total_tax \in [Bills -> Int]
    /\ received \in [Releases -> Int] /\ tds \in [Releases -> Int]
    /\ booked \in [Releases -> Int] /\ deducted \in [Releases -> Int]
    /\ retaxed \subseteq Releases
    /\ seen \in [Users -> [commission : [Releases -> Nat], gst : [Releases -> Int],
                           received : [Releases -> Int], tds : [Releases -> Int]]]
    /\ payments \in 0..MaxPayments /\ changes \in 0..MaxChanges /\ faults \in 0..MaxFaults

TypeOK == LinkTypes /\ RequestTypes /\ MoneyTypes

\* A column of the releases S.
ColumnOf(column, S) == [r \in Releases |-> IF r \in S THEN column[r] ELSE 0]

Ledger(S) ==
    [commission |-> ColumnOf(commission, S), gst |-> ColumnOf(gst, S),
     received |-> ColumnOf(received, S), tds |-> ColumnOf(tds, S)]

Nothing == [r \in Releases |-> 0]
NothingSeen == [commission |-> Nothing, gst |-> Nothing, received |-> Nothing, tds |-> Nothing]

\* The releases of one lender, recorded and not billed.
Init ==
    /\ present = Releases /\ link = [r \in Releases |-> NoBill]
    /\ commission = Commission /\ gst = Nothing /\ received = Nothing /\ tds = Nothing
    /\ status = [b \in Bills |-> "none"] /\ lines = [b \in Bills |-> {}]
    /\ total_tax = [b \in Bills |-> 0]
    /\ at = [u \in Users |-> "idle"] /\ bill = [u \in Users |-> NoBill]
    /\ rows = [u \in Users |-> {}] /\ seen = [u \in Users |-> NothingSeen]
    /\ booked = Nothing /\ deducted = Nothing /\ retaxed = {} /\ raced = {}
    /\ payments = 0 /\ changes = 0 /\ faults = 0

-----------------------------------------------------------------------------
(* Arithmetic.                                                             *)

Abs(n) == IF n < 0 THEN -n ELSE n

\* _round2: n/d to the nearest paisa, halves away from zero.
HalfUp(n, d) ==
    LET nearest == (2 * Abs(n) + Abs(d)) \div (2 * Abs(d))
    IN  IF (n < 0) = (d < 0) THEN nearest ELSE -nearest

Sum(f, S) == SumFunctionOnSet(f, S)

\* The tax of a lender in another state; in FMC's own the halves are rounded one by one.
Tax(subtotal) == HalfUp(subtotal * TaxRate, 100)

\* The part of total that falls to r when S shares it by the weights w: rounded, but
\* the last of S takes what the others leave.  (A payment's share is taken to 28 digits
\* before it is rounded, so an exact half may go the other way.)
Part(total, w, S, last, r) ==
    LET Share(q) == IF Sum(w, S) = 0 THEN 0 ELSE HalfUp(total * w[q], Sum(w, S))
        Rest == S \ {last}
    IN  IF r # last THEN Share(r) ELSE total - Sum([q \in Rest |-> Share(q)], Rest)

TotalDue(m, r) == m.commission[r] + m.gst[r]
TotalSettled(m, r) == m.received[r] + m.tds[r]

\* Still owed on this row.  Never negative.
Shortfall(m, r) ==
    IF TotalDue(m, r) > TotalSettled(m, r) THEN TotalDue(m, r) - TotalSettled(m, r) ELSE 0

Owed(m) == [r \in Releases |-> Shortfall(m, r)]

\* Variant: shares of the bill, the first version the docstring speaks of.
WeightsBySize(m, S) == [r \in Releases |-> IF r \in S THEN TotalDue(m, r) ELSE 0]

\* By what each release still owes, or by its size when nothing is owed.
Weights(m, S) ==
    [r \in Releases |-> IF r \notin S THEN 0
                        ELSE IF Sum(Owed(m), S) > 0 THEN Owed(m)[r] ELSE TotalDue(m, r)]

-----------------------------------------------------------------------------
(* Requests.                                                               *)

Others(u) == UNION {rows[v] : v \in Users \ {u}}

\* User u's request has read the releases S.
Takes(u, S) ==
    /\ rows' = [rows EXCEPT ![u] = S]
    /\ seen' = [seen EXCEPT ![u] = Ledger(S)]
    /\ raced' = raced \cup (S \cap Others(u))

Ends(u) ==
    /\ at' = [at EXCEPT ![u] = "idle"]
    /\ bill' = [bill EXCEPT ![u] = NoBill]
    /\ rows' = [rows EXCEPT ![u] = {}]
    /\ seen' = [seen EXCEPT ![u] = NothingSeen]

Goto(u, place) == at[u] = "idle" /\ at' = [at EXCEPT ![u] = place]

\* What a column holds after new is assigned to a row that was read with old: the same
\* value is not written.  (0 stands for NULL as well, over which a 0 is written.)
Stored(old, new, now) == IF new = old /\ new # 0 THEN now ELSE new

\* Variant: whether a release is billed already is not looked at.
BillableAnyway(r) == r \in present
Billable(r) == r \in present /\ link[r] = NoBill /\ commission[r] > 0

\* raise_invoice checks the releases it was given ...
RaiseReads(u) ==
    /\ Goto(u, "raise")
    /\ \E S \in SUBSET Releases :
          /\ S # {} /\ \A r \in S : Billable(r)
          /\ Takes(u, S)
    /\ UNCHANGED <<present, link, moneyVars, billVars, bill, boundVars>>

\* ... InvoiceService.create issues the next invoice, on the lines as they were read, in
\* a transaction of its own ...
RaiseIssues(u) ==
    /\ at[u] = "raise"
    /\ \E b \in Bills :
          /\ status[b] = "none"
          /\ \A c \in Bills : c < b => status[c] # "none"
          /\ status' = [status EXCEPT ![b] = "issued"]
          /\ lines' = [lines EXCEPT ![b] = rows[u]]
          /\ total_tax' = [total_tax EXCEPT ![b] = Tax(Sum(seen[u].commission, rows[u]))]
          /\ bill' = [bill EXCEPT ![u] = b]
    /\ at' = [at EXCEPT ![u] = "link"]
    /\ UNCHANGED <<present, link, moneyVars, rows, seen, raced, boundVars>>

\* Variant: all that is unbilled by now is linked, whether it is on the bill or not.
LinkedByAll(u) == {r \in present : link[r] = NoBill}

\* The rows a request writes: those it read and that are still there.
LinkedBy(u) == rows[u] \cap present

\* Variants: of the tax each release takes its rounded share, the last as well.
TaxShareRounded(u, last, r) ==
    HalfUp(total_tax[bill[u]] * seen[u].commission[r], Sum(seen[u].commission, rows[u]))

TaxShare(u, last, r) == Part(total_tax[bill[u]], seen[u].commission, rows[u], last, r)

\* ... and, when the PDF is there or has failed, the releases are linked to it, in
\* the order they were ticked.  A row that is gone by then is found out by the
\* number of rows updated when it is updated alone, and not within a batch.
RaiseLinks(u) ==
    /\ at[u] = "link"
    /\ rows[u] \subseteq present \/ Cardinality(rows[u]) > 1
    /\ link' = [r \in Releases |-> IF r \in LinkedBy(u) THEN bill[u] ELSE link[r]]
    /\ \E last \in rows[u] :
          gst' = [r \in Releases |->
                     IF r \in LinkedBy(u)
                     THEN Stored(seen[u].gst[r], TaxShare(u, last, r), gst[r]) ELSE gst[r]]
    /\ retaxed' = retaxed \ LinkedBy(u)
    /\ Ends(u)
    /\ UNCHANGED <<present, commission, received, tds, booked, deducted, billVars, raced,
                   boundVars>>

\* A row that is gone: the whole update is rolled back.
RaiseLosesRow(u) ==
    /\ at[u] = "link" /\ ~(rows[u] \subseteq present)
    /\ raced' = raced \cup rows[u]
    /\ Ends(u)
    /\ UNCHANGED <<present, link, moneyVars, billVars, boundVars>>

-----------------------------------------------------------------------------
(* Money.                                                                  *)

\* record_invoice_payment looks at the invoice ...
PayBegins(u) ==
    /\ Goto(u, "pay")
    /\ \E b \in Bills : status[b] \in {"issued", "paid"} /\ bill' = [bill EXCEPT ![u] = b]
    /\ UNCHANGED <<present, link, moneyVars, billVars, rows, seen, raced, boundVars>>

BilledBy(b) == {r \in present : link[r] = b}

\* ... reads its releases, with what they are billed and have received ...
PayReads(u) ==
    /\ at[u] = "pay" /\ BilledBy(bill[u]) # {}
    /\ at' = [at EXCEPT ![u] = "settle"]
    /\ Takes(u, BilledBy(bill[u]))
    /\ UNCHANGED <<present, link, moneyVars, billVars, bill, boundVars>>

PayFindsNothing(u) ==
    /\ at[u] = "pay" /\ BilledBy(bill[u]) = {}
    /\ Ends(u)
    /\ UNCHANGED <<present, link, moneyVars, billVars, raced, boundVars>>

\* Variant: the payment replaces what was there.
PaidInstead(old, part) == part

PaidOnTop(old, part) == old + part

\* ... and adds the parts a of the amount and t of the TDS to what it read.
Books(u, a, t) ==
    LET paid == rows[u] \cap present
        Added(column, old, part) ==
            [r \in Releases |-> IF r \in paid
                                THEN Stored(old[r], PaidOnTop(old[r], part[r]), column[r])
                                ELSE column[r]]
        Told(history, part) ==
            [r \in Releases |-> IF r \in paid THEN history[r] + part[r] ELSE history[r]]
    IN  /\ at[u] = "settle" /\ payments < MaxPayments
        /\ payments' = payments + 1
        /\ received' = Added(received, seen[u].received, a)
        /\ tds' = Added(tds, seen[u].tds, t)
        /\ booked' = Told(booked, a)
        /\ deducted' = Told(deducted, t)
        /\ Ends(u)
        /\ UNCHANGED <<present, link, commission, gst, retaxed, billVars, raced, changes,
                       faults>>

\* The parts of total, by what the releases of u's payment owed when read.
Parts(u, total, last) ==
    [r \in rows[u] |-> Part(total, Weights(seen[u], rows[u]), rows[u], last, r)]

\* The amount and the TDS are spread each on its own, over the releases in the order of
\* their disbursement, which an edit may change.
PayShared(u, amount, withheld) ==
    \E last \in rows[u] : Books(u, Parts(u, amount, last), Parts(u, withheld, last))

\* Or the lender has itemised the amount, which the sum of its items rounds to; each
\* release takes its share of the TDS, and of an amount of nothing none.
PayItemised(u, amount, withheld) ==
    \E split \in [rows[u] -> Itemised] :
        /\ 2 * Abs(Sum(split, rows[u]) - amount) <= Cardinality(rows[u])
        /\ Books(u, split, [r \in rows[u] |-> IF amount = 0 THEN 0
                                               ELSE HalfUp(withheld * split[r], amount)])

PayWrites(u) ==
    \E receipt \in Receipts :
        PayShared(u, receipt[1], receipt[2]) \/ PayItemised(u, receipt[1], receipt[2])

\* update: an administrator edits one release, billed or not.
CorrectReads(u) ==
    /\ Goto(u, "correct")
    /\ \E r \in present : Takes(u, {r})
    /\ UNCHANGED <<present, link, moneyVars, billVars, bill, boundVars>>

Typed(e, c, old, now) == IF c \in DOMAIN e THEN Stored(old, e[c], now) ELSE now
Value(e, c, now) == IF c \in DOMAIN e THEN e[c] ELSE now

CorrectWrites(u) ==
    /\ at[u] = "correct" /\ payments < MaxPayments
    /\ payments' = payments + 1
    /\ \E r \in rows[u] \cap present, e \in Edits :
          /\ commission' = [commission EXCEPT
                ![r] = Typed(e, "commission", seen[u].commission[r], commission[r])]
          /\ gst' = [gst EXCEPT ![r] = Typed(e, "gst", seen[u].gst[r], gst[r])]
          /\ received' = [received EXCEPT
                ![r] = Typed(e, "received", seen[u].received[r], received[r])]
          /\ tds' = [tds EXCEPT ![r] = Typed(e, "tds", seen[u].tds[r], tds[r])]
          /\ booked' = [booked EXCEPT ![r] = Value(e, "received", booked[r])]
          /\ deducted' = [deducted EXCEPT ![r] = Value(e, "tds", deducted[r])]
          /\ retaxed' = IF "gst" \in DOMAIN e THEN retaxed \cup {r} ELSE retaxed
    /\ Ends(u)
    /\ UNCHANGED <<present, link, billVars, raced, changes, faults>>

-----------------------------------------------------------------------------
(* Invoices and rows that go.                                              *)

Changes == changes < MaxChanges /\ changes' = changes + 1

\* update_status: the invoice is read ...
VoidReads(u) ==
    /\ Goto(u, "void") /\ Changes
    /\ \E b \in Bills : status[b] \in {"issued", "paid"} /\ bill' = [bill EXCEPT ![u] = b]
    /\ UNCHANGED <<present, link, moneyVars, billVars, rows, seen, raced, payments, faults>>

\* ... and void; the releases stay linked to it.
VoidWrites(u) ==
    /\ at[u] = "void"
    /\ status' = [status EXCEPT ![bill[u]] = "void"]
    /\ Ends(u)
    /\ UNCHANGED <<present, link, moneyVars, lines, total_tax, raced, boundVars>>

\* Paid is set by hand only on an invoice without releases.
PaidReads(u) ==
    /\ Goto(u, "paid") /\ Changes
    /\ \E b \in Bills : /\ status[b] = "issued" /\ BilledBy(b) = {}
                        /\ bill' = [bill EXCEPT ![u] = b]
    /\ UNCHANGED <<present, link, moneyVars, billVars, rows, seen, raced, payments, faults>>

PaidWrites(u) ==
    /\ at[u] = "paid"
    /\ status' = [status EXCEPT ![bill[u]] = "paid"]
    /\ Ends(u)
    /\ UNCHANGED <<present, link, moneyVars, lines, total_tax, raced, boundVars>>

\* Variant: a billed release may be deleted.
DeletableAnyway(r) == r \in present
Deletable(r) == r \in present /\ link[r] = NoBill

DeleteReads(u) ==
    /\ Goto(u, "delete") /\ Changes
    /\ \E r \in Releases : Deletable(r) /\ Takes(u, {r})
    /\ UNCHANGED <<present, link, moneyVars, billVars, bill, payments, faults>>

DeleteWrites(u) ==
    /\ at[u] = "delete"
    /\ present' = present \ rows[u]
    /\ link' = [r \in Releases |-> IF r \in rows[u] THEN NoBill ELSE link[r]]
    /\ Ends(u)
    /\ UNCHANGED <<moneyVars, billVars, raced, boundVars>>

\* The request dies between two of its steps.
RequestFails(u) ==
    /\ at[u] # "idle" /\ faults < MaxFaults
    /\ faults' = faults + 1
    /\ raced' = IF at[u] = "link" THEN raced \cup rows[u] ELSE raced
    /\ Ends(u)
    /\ UNCHANGED <<present, link, moneyVars, billVars, payments, changes>>

BillingStep(u) ==
    RaiseReads(u) \/ RaiseIssues(u) \/ RaiseLinks(u) \/ RaiseLosesRow(u)

MoneyStep(u) ==
    \/ PayBegins(u) \/ PayReads(u) \/ PayFindsNothing(u) \/ PayWrites(u)
    \/ CorrectReads(u) \/ CorrectWrites(u)

OtherStep(u) ==
    \/ VoidReads(u) \/ VoidWrites(u) \/ PaidReads(u) \/ PaidWrites(u)
    \/ DeleteReads(u) \/ DeleteWrites(u) \/ RequestFails(u)

Next == \E u \in Users : BillingStep(u) \/ MoneyStep(u) \/ OtherStep(u)

Spec == Init /\ [][Next]_vars

-----------------------------------------------------------------------------
(* Properties.  The releases two requests held at the same time, or that a *)
(* request left half-way, are set apart: nothing protects them.            *)

Alone == Releases \ raced

\* A release that is linked to an invoice is on its lines, also when raises, deletions
\* and failures overlap.
LinkedIsListed ==
    \A r \in present : link[r] # NoBill => status[link[r]] # "none" /\ r \in lines[link[r]]

Raising(b) == \E u \in Users : at[u] = "link" /\ bill[u] = b

\* "An invoice pointing at nothing is worse than a wrong row": what an invoice bills is
\* there and linked to it, once the request that raised it is over.
ListedIsLinked ==
    \A b \in Bills : \A r \in lines[b] \cap Alone :
        Raising(b) \/ (r \in present /\ link[r] = b)

\* A release is billed once, however many requests run: also after its invoice is void.
BilledOnce == \A b, c \in Bills : lines[b] \cap lines[c] \cap Alone # {} => b = c

\* Releases and invoices say the same of each other: what is linked is listed, what is
\* listed is linked and there, and no release is on two invoices.
LinksAgree == LinkedIsListed /\ ListedIsLinked /\ BilledOnce

\* "Additive": a release has received, and has had withheld, what payments and
\* corrections booked on it.
NothingLost ==
    \A r \in present \cap Alone : received[r] = booked[r] /\ tds[r] = deducted[r]

\* The shares of an invoice's tax kept on its releases are its tax, to the paisa, until an
\* administrator types the share of one.
TaxAddsUp ==
    \A b \in Bills :
        lines[b] # {} /\ lines[b] \subseteq Alone \ retaxed /\ ~Raising(b)
            => Sum(gst, lines[b]) = total_tax[b]

\* "A payment of the outstanding amount clears it": to the paisa when it is all money or
\* all TDS; when it is both, each is rounded, and every release but the last may leave
\* the last a paisa short.
Outstanding(b) == Sum(Owed(Ledger(Releases)), BilledBy(b))

PaymentClears ==
    [][\A u \in Users, b \in Bills, receipt \in Receipts :
          ( /\ at[u] = "settle" /\ bill[u] = b /\ payments' # payments
            /\ rows[u] = BilledBy(b) /\ rows[u] \subseteq Alone
            /\ receipt[1] + receipt[2] = Outstanding(b)
            /\ PayShared(u, receipt[1], receipt[2]) )
          => Outstanding(b)' <= IF 0 \in {receipt[1], receipt[2]} THEN 0
                                ELSE Cardinality(rows[u]) - 1]_vars

-----------------------------------------------------------------------------
(* What the code says of itself and does not do.                           *)

\* "Void the invoice before deleting it", says the refusal to delete a release on an
\* invoice: once the invoice is void no release is on it.
VoidFrees == \A r \in present : link[r] # NoBill => status[link[r]] # "void"
=============================================================================
