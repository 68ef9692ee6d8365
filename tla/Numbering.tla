------------------------------ MODULE Numbering ------------------------------
(***************************************************************************)
(* The numbers of leads (reserve_serial_numbers, services/lead_service.py) *)
(* and of invoices (_reserve_invoice_number, services/invoice_service.py): *)
(* a counter row per series, raised by INSERT ... ON CONFLICT DO UPDATE in *)
(* the transaction that inserts the numbered rows.                         *)
(*                                                                         *)
(* The statement takes the counter's row lock, which stays until commit or *)
(* rollback; what it reads of the rows it reads in the snapshot it began   *)
(* with, before it waited for the lock.  A rollback takes the raise back.  *)
(* A number that is in use is refused by the unique index.  The counter    *)
(* is 0 when there is no row.  One tenant, one financial year.             *)
(***************************************************************************)
EXTENDS Naturals, FiniteSetsExt

CONSTANTS
    Writers,    \* transactions that may be open at once
    Start,      \* invoice_settings.invoice_start_number
    MaxBlock,   \* bound: rows of an import
    MaxNumber   \* bound: the highest number

ASSUME NumberingAssumption ==
    /\ Start \in Nat \ {0} /\ MaxBlock \in Nat \ {0} /\ MaxNumber \in Nat \ {0}

Series == {"leads", "invoices"}
Numbers == 1..MaxNumber

VARIABLES
    counter,  \* next_serial, next_number
    numbered, \* serial_no of the leads, sequence_number of the invoices
    tx        \* the open transactions

numberingVars == <<counter, numbered, tx>>

\* An open transaction: the highest row its statement saw, the first of its numbers.
\* bypassed: history: a row was inserted past the function since the statement began.
Transactions ==
    [at : {"closed", "waiting", "holding"}, series : Series, count : 1..MaxBlock,
     seen : 0..MaxNumber, first : Numbers, bypassed : BOOLEAN]

Closed == [at |-> "closed", series |-> "leads", count |-> 1, seen |-> 0, first |-> 1,
           bypassed |-> FALSE]

Of(s, w) == tx[w].at # "closed" /\ tx[w].series = s
Holds(s, w) == tx[w].at = "holding" /\ tx[w].series = s

\* The counter's lock has one holder, and the counter stays between its bounds.
NumberingTypeOK ==
    /\ counter \in [Series -> 0..MaxNumber + 1] /\ numbered \in [Series -> SUBSET Numbers]
    /\ tx \in [Writers -> Transactions]
    /\ \A w \in Writers : tx[w].at = "holding" => tx[w].first + tx[w].count - 1 <= MaxNumber
    /\ \A v, w \in Writers, s \in Series : Holds(s, v) /\ Holds(s, w) => v = w

NumberingInit ==
    /\ counter = [s \in Series |-> 0] /\ numbered = [s \in Series |-> {}]
    /\ tx = [w \in Writers |-> Closed]

-----------------------------------------------------------------------------
\* max of the rows of the series, 0 for none.
Highest(s) == IF numbered[s] = {} THEN 0 ELSE Max(numbered[s])

Counts(s) == IF s = "leads" THEN 1..MaxBlock ELSE {1}

\* The statement begins.  A batch is numbered by one statement.
Reserve(w, s) ==
    /\ tx[w].at = "closed"
    /\ \E n \in Counts(s) :
           tx' = [tx EXCEPT ![w] = [Closed EXCEPT !.at = "waiting", !.series = s,
                                                  !.count = n, !.seen = Highest(s)]]
    /\ UNCHANGED <<counter, numbered>>

\* VALUES (...) of the two statements: the first lead follows the rows there are, the
\* first invoice of a year gets the number of the settings, whatever rows there are.
FirstOf(s, seen) == IF s = "leads" THEN seen + 1 ELSE Start

\* Variant: no GREATEST: the counter alone, once there is one.
NumberUnclamped(s, seen) == IF counter[s] = 0 THEN FirstOf(s, seen) ELSE counter[s]

\* The number the statement returns: GREATEST(counter, max + 1) on conflict.
Number(s, seen) ==
    IF counter[s] = 0 THEN FirstOf(s, seen)
    ELSE IF counter[s] > seen + 1 THEN counter[s] ELSE seen + 1

\* Variant: the counter is raised in a transaction of its own.
GrantApart(w) ==
    LET t == tx[w]
        n == Number(t.series, t.seen)
    IN  /\ t.at = "waiting" /\ n + t.count - 1 <= MaxNumber
        /\ tx' = [tx EXCEPT ![w] = [t EXCEPT !.at = "holding", !.first = n, !.seen = 0]]
        /\ counter' = [counter EXCEPT ![t.series] = n + t.count]
        /\ UNCHANGED numbered

\* The lock is free: the statement raises the counter, for this transaction.
Grant(w) ==
    LET t == tx[w]
        n == Number(t.series, t.seen)
    IN  /\ t.at = "waiting" /\ \A v \in Writers : ~Holds(t.series, v)
        /\ n + t.count - 1 <= MaxNumber
        /\ tx' = [tx EXCEPT ![w] = [t EXCEPT !.at = "holding", !.first = n, !.seen = 0]]
        /\ UNCHANGED <<counter, numbered>>

Block(t) == t.first..(t.first + t.count - 1)

\* The rows are inserted with their numbers and the transaction commits.
Commit(w) ==
    LET t == tx[w]
    IN  /\ t.at = "holding" /\ Block(t) \cap numbered[t.series] = {}
        /\ counter' = [counter EXCEPT ![t.series] = t.first + t.count]
        /\ numbered' = [numbered EXCEPT ![t.series] = @ \cup Block(t)]
        /\ tx' = [tx EXCEPT ![w] = Closed]

\* A number in use, any other error, a crash: the raise is rolled back as well.
Rollback(w) ==
    /\ tx[w].at # "closed" /\ tx' = [tx EXCEPT ![w] = Closed] /\ UNCHANGED <<counter, numbered>>

\* A migration, a script, the table editor.
Bypass(s) ==
    /\ \E n \in Numbers \ numbered[s] : numbered' = [numbered EXCEPT ![s] = @ \cup {n}]
    /\ tx' = [w \in Writers |->
                 IF Of(s, w) THEN [tx[w] EXCEPT !.bypassed = TRUE] ELSE tx[w]]
    /\ UNCHANGED counter

NumberingNext ==
    \/ \E w \in Writers :
           (\E s \in Series : Reserve(w, s)) \/ Grant(w) \/ Commit(w) \/ Rollback(w)
    \/ \E s \in Series : Bypass(s)

NumberingSpec == NumberingInit /\ [][NumberingNext]_numberingVars

-----------------------------------------------------------------------------
(* Properties.                                                             *)

\* The insert will find its numbers free.
Clear(w) == Block(tx[w]) \cap numbered[tx[w].series] = {}

\* A number is refused only if a row was put in past the function after the statement
\* began: no collision repeats, whatever was inserted before.  For an invoice that
\* holds once the year has its counter.
FreshNumber ==
    \A w \in Writers :
        tx[w].at = "holding" /\ ~tx[w].bypassed
        /\ (tx[w].series = "leads" \/ counter["invoices"] # 0) => Clear(w)

\* The same for the invoices, as the function's comment says it, from the first on.
InvoiceNumberFresh ==
    \A w \in Writers : Holds("invoices", w) /\ ~tx[w].bypassed => Clear(w)

\* The series as their readers know them.
LastGiven(s) == IF counter[s] = 0 THEN 0 ELSE counter[s] - 1

LeadNumbers ==
    INSTANCE NumberSeries WITH taken <- numbered["leads"], last <- LastGiven("leads")

InvoiceNumbers ==
    INSTANCE NumberSeries WITH taken <- numbered["invoices"], last <- LastGiven("invoices")

\* Leads and invoices are numbered in the order in which they are committed, batches
\* without a gap, and no number is given twice.
SeriesKept == LeadNumbers!Spec /\ InvoiceNumbers!Spec
=============================================================================
