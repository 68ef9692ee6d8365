--------------------------- MODULE RevenueReports ---------------------------
(***************************************************************************)
(* The reports over the commission book: the loan intelligence dashboard   *)
(* (services/commission_analytics_service.py), the reconciliation report,  *)
(* the lenders' summary and the theoretical revenue                        *)
(* (services/commission_service.py).  Each is a query; here each is an     *)
(* operator over the state of LenderFiles, whose steps change the book.    *)
(*                                                                         *)
(* What a lender paid and the TDS it kept are one amount.  Percentages,    *)
(* names, pages and the sort for display are left out, and so are the      *)
(* payouts to connectors.  The date of the day is fixed.  A rate on an     *)
(* amount is in parts of a paisa, RateUnit of them, until it is rounded.   *)
(*                                                                         *)
(* Two figures that are compared may come from two requests.  Those of the *)
(* dashboard come as its answer, which DashboardCache may have kept; every *)
(* other is read when it is asked for.                                     *)
(***************************************************************************)
EXTENDS LenderFiles

CONSTANTS
    Source,        \* leads.lead_source_id of a lead
    Unattributed,  \* no source
    Closing,       \* leads.expected_closure_month, a month or Null
    Aggregators,   \* lenders that front others: they have no rate
    Billable,      \* lenders with a GSTIN
    MonthsShown,   \* the months of the trend
    MaterialFloor, \* _MATERIAL_FLOOR
    NetPercent,    \* invoice_settings.net_theoretical_factor
    Filters        \* the filter sets in use

ASSUME ReportAssumption ==
    /\ IsFiniteSet(Leads) /\ Closing \in [Leads -> Nat \cup {Null}] /\ Aggregators \subseteq Lenders
    /\ Billable \subseteq Lenders /\ \A t \in Legacy : ~t.earns => t.commission = 0
    /\ MonthsShown \in Nat /\ MaterialFloor \in Nat /\ NetPercent \in Nat

Confirmed == {"pf_paid", "disbursed"}
Drawn == {"logged_in", "sanctioned", "pf_paid", "disbursed"}

-----------------------------------------------------------------------------
(* Rows and their derived figures.                                         *)

OrZero(x) == IF x = Null THEN 0 ELSE x

SumOf(w) == SumFunctionOnSet(w, DOMAIN w)

Due(t) == t.commission + t.gst
Settled(t) == OrZero(t.received)
Short(t) == IF Due(t) > Settled(t) THEN Due(t) - Settled(t) ELSE 0

\* The hybrid status; settlement comes before billing.
StatusOf(t) ==
    CASE t.writtenOff -> "written_off"
      [] ~t.writtenOff /\ t.received = Null /\ t.billed -> "billed"
      [] ~t.writtenOff /\ t.received = Null /\ ~t.billed -> "to_bill"
      [] OTHER -> IF Settled(t) + 1 < Due(t) THEN "short_paid" ELSE "paid"

\* Short beyond rounding: by more than the floor and by more than two percent.
MateriallyShort(t) ==
    Settled(t) > 0 /\ Short(t) > MaterialFloor /\ 50 * Short(t) > Due(t)

\* What every panel sums over its tranches.
Money(S) ==
    [tranches |-> Cardinality(S),
     disbursed |-> SumOf([t \in S |-> t.amount]),
     earned |-> SumOf([t \in S |-> Due(t)]),
     collected |-> SumOf([t \in S |-> Settled(t)]),
     outstanding |-> SumOf([t \in S |-> Short(t)]),
     commission |-> SumOf([t \in S |-> t.commission]),
     gst |-> SumOf([t \in S |-> t.gst])]

-----------------------------------------------------------------------------
(* The filter, the same for every panel.                                   *)

\* The leads a panel may see: not those deleted.
Scope(f) == {l \in Leads \ deleted : f.sources = {} \/ Source[l] \in f.sources}

Releases(f) ==
    {t \in tranches :
        /\ t.file[1] \in Scope(f)
        /\ f.lenders = {} \/ t.file[2] \in f.lenders
        /\ f.from = 0 \/ t.day >= f.from
        /\ f.to = 0 \/ (t.day # 0 /\ t.day <= f.to)}

\* A file has no date of its own: the dates of the filter do not apply.
FilesIn(f, statuses) ==
    {g \in Files : /\ status[g] \in statuses /\ g[1] \in Scope(f)
                   /\ f.lenders = {} \/ g[2] \in f.lenders}

Approved(S) == SumOf([g \in S |-> OrZero(loan[g])])
Unpriced(S) == {g \in S : loan[g] = Null}

\* _drawn_subq: what the filter's tranches of a file come to.
DrawnOn(f, g) == Money({t \in Releases(f) : t.file = g}).disbursed

-----------------------------------------------------------------------------
(* The overview panels.                                                    *)

Funnel(f) ==
    LET live == FilesIn(f, Live)
        confirmed == FilesIn(f, Confirmed)
    IN  [money |-> Money(Releases(f)),
         sanctioned |-> Approved(live), files |-> Cardinality(live),
         unpriced |-> Cardinality(Unpriced(live)),
         confirmed |-> Approved(confirmed), confirmedFiles |-> Cardinality(confirmed),
         confirmedUnpriced |-> Cardinality(Unpriced(confirmed))]

\* Never negative; a file without an amount has nothing still to come.
Remaining(f, g) ==
    IF loan[g] = Null \/ loan[g] < DrawnOn(f, g) THEN 0 ELSE loan[g] - DrawnOn(f, g)

\* Variant: those without a rate and those without an amount, one after the other.
ExcludedTwice(S) ==
    Cardinality({g \in S : rate[g] = Null}) + Cardinality(Unpriced(S))

\* files_excluded: distinct files missing either.
Excluded(S) == Cardinality({g \in S : rate[g] = Null} \cup Unpriced(S))

PipelineAhead(f) ==
    LET files == FilesIn(f, Confirmed)
    IN  [files |-> Cardinality(files), sanctioned |-> Approved(files),
         drawn |-> SumOf([g \in files |-> DrawnOn(f, g)]),
         drawnUnpriced |-> SumOf([g \in Unpriced(files) |-> DrawnOn(f, g)]),
         undrawn |-> SumOf([g \in files |-> Remaining(f, g)]),
         future |-> SumOf([g \in files |-> Remaining(f, g) * OrZero(rate[g])]),
         missingRate |-> Cardinality({g \in files : rate[g] = Null}),
         missingSanction |-> Cardinality(Unpriced(files)),
         excluded |-> Excluded(files)]

Month(day) == (day - 1) \div 30

MonthKeys(f) ==
    {Month(t.day) : t \in {t \in Releases(f) : t.day # 0}}
    \cup {Month(t.paidOn) : t \in {t \in Releases(f) : t.paidOn # 0}}

\* Earned by the month of the release, collected by the month of the receipt, which may be
\* to come; the last so many months that have either.
Monthly(f) ==
    LET dated == {t \in Releases(f) : t.day # 0}
        paid == {t \in Releases(f) : t.paidOn # 0}
        keys == MonthKeys(f)
    IN  [m \in {k \in keys : Cardinality({j \in keys : j > k}) < MonthsShown} |->
            [money |-> Money({t \in dated : Month(t.day) = m}),
             collected |-> Money({t \in paid : Month(t.paidOn) = m}).collected]]

ByLender(f) ==
    [b \in {t.file[2] : t \in Releases(f)} |-> Money({t \in Releases(f) : t.file[2] = b})]

Buckets == {"0_30", "31_60", "61_90", "over_90", "no_date"}

Bucket(t) ==
    LET age == Today - t.day IN
    CASE t.day = 0 -> "no_date"
      [] t.day # 0 /\ age <= 30 -> "0_30"
      [] t.day # 0 /\ age \in 31..60 -> "31_60"
      [] t.day # 0 /\ age \in 61..90 -> "61_90"
      [] OTHER -> "over_90"

\* Variant: what has no date has no age.
ChasedDated(f) == {t \in Releases(f) : Short(t) > 0 /\ ~t.writtenOff /\ t.day # 0}

\* What is written off does not age.
Chased(f) == {t \in Releases(f) : Short(t) > 0 /\ ~t.writtenOff}

Ageing(f) == [b \in Buckets |-> Money({t \in Chased(f) : Bucket(t) = b})]

\* The lender of a file has no price of its own.
NoPrice(b) == b \in Aggregators \/ Rate[b] = Null

DataQuality(f) ==
    LET rows == Releases(f)
        live == FilesIn(f, Live)
    IN  [no_disbursement_date |-> Cardinality({t \in rows : t.day = 0}),
         no_receipt_date |-> Cardinality({t \in rows : t.received # Null /\ t.paidOn = 0}),
         awaiting |-> Cardinality({t \in rows : Settled(t) = 0 /\ Due(t) > 0}),
         short |-> Cardinality({t \in rows : Settled(t) > 0 /\ Short(t) > 0}),
         materially_short |-> Cardinality({t \in rows : MateriallyShort(t)}),
         written_off |-> Cardinality({t \in rows : t.writtenOff}),
         earning_nothing |-> Cardinality({t \in rows : ~t.earns}),
         estimated_disbursement_date |-> Cardinality({t \in rows : t.guessed}),
         live |-> Cardinality(live),
         no_sanctioned_amount |-> Cardinality(Unpriced(live)),
         cannot_be_priced |-> Cardinality({g \in live : NoPrice(g[2])}),
         on_aggregator |-> Cardinality({g \in live : g[2] \in Aggregators})]

\* dashboard, a payload: its first three panels and its last three, a query each.
TopPanels(f) ==
    [funnel |-> Funnel(f), ahead |-> PipelineAhead(f), monthly |-> Monthly(f)]

BottomPanels(f) ==
    [lenders |-> ByLender(f), ageing |-> Ageing(f), quality |-> DataQuality(f)]

Panels(f) == [top |-> TopPanels(f), bottom |-> BottomPanels(f)]

-----------------------------------------------------------------------------
(* Pipeline, sources and forecast: read when they are asked for.           *)

ReleasesOf(f, S) == {t \in Releases(f) : t.file[1] \in S}
FilesAmong(f, statuses, S) == {g \in FilesIn(f, statuses) : g[1] \in S}

\* What a set of leads comes to: their live files and their tranches.
Standing(f, S) ==
    [leads |-> Cardinality(S), sanctioned |-> Approved(FilesAmong(f, Live, S)),
     money |-> Money(ReleasesOf(f, S))]

\* Variant: the four stages alone.
StageOfDrawn(l) == IF stage[l] \in Drawn THEN stage[l] ELSE "none"

\* Every stage the funnel does not draw is in one bucket.
StageBucket(l) == IF stage[l] \in Drawn THEN stage[l] ELSE "other"

StageFunnel(f) ==
    [s \in Drawn \cup {"other"} |-> Standing(f, {l \in Scope(f) : StageBucket(l) = s})]

\* What is earned and what is to come, both without the tax.
RevenueBridge(f) ==
    [booked |-> Money(Releases(f)).commission, bookedGst |-> Money(Releases(f)).gst,
     unlockable |-> PipelineAhead(f).future]

\* Confirmed files with money to come, worth chasing.
Opportunities(f) ==
    {g \in FilesIn(f, Confirmed) :
        loan[g] # Null /\ rate[g] # Null /\ loan[g] > DrawnOn(f, g)}

Worth(f, g) == (loan[g] - DrawnOn(f, g)) * rate[g]

\* By the source of the lead, for those that have released; one of them is no source.
BySource(f) ==
    [s \in {Source[t.file[1]] : t \in Releases(f)} |->
        LET rows == {t \in Releases(f) : Source[t.file[1]] = s}
        IN  [students |-> Cardinality({t.file[1] : t \in rows}), money |-> Money(rows)]]

Closed(m, today) == m < Month(today)

ByExpectedMonth(f) ==
    LET due(m) == {l \in Scope(f) : Closing[l] = m}
        pending(m) == LET st == Standing(f, due(m)) IN
                      IF st.sanctioned > st.money.disbursed
                      THEN st.sanctioned - st.money.disbursed ELSE 0
        months == {Closing[l] : l \in Scope(f)} \ {Null}
    IN  [months |-> [m \in months |-> [standing |-> Standing(f, due(m)),
                                       pending |-> pending(m)]],
         without |-> Cardinality({l \in due(Null) : FilesAmong(f, Live, {l}) # {}}),
         slipped |-> {m \in months : Closed(m, Today) /\ pending(m) > 0}]

\* Earned and on no bill, by lender.
ReadyToBill(f) ==
    LET rows == {t \in Releases(f) : /\ ~t.billed /\ ~t.writtenOff
                                     /\ t.earns /\ t.commission > 0}
    IN  [b \in {t.file[2] : t \in rows} |->
            [money |-> Money({t \in rows : t.file[2] = b}), canInvoice |-> b \in Billable]]

-----------------------------------------------------------------------------
(* The exception register and the drill-down.                              *)

FileCodes == {"on_aggregator", "no_sanctioned_amount"}
TrancheCodes == {"no_disbursement_date", "no_receipt_date", "materially_short",
                 "estimated_disbursement_date"}

FileTrips(code, g) ==
    \/ code = "on_aggregator" /\ g[2] \in Aggregators
    \/ code = "no_sanctioned_amount" /\ loan[g] = Null
    \/ code = "cannot_be_priced" /\ NoPrice(g[2])

TrancheTrips(code, t) ==
    \/ code = "no_disbursement_date" /\ t.day = 0
    \/ code = "no_receipt_date" /\ t.received # Null /\ t.paidOn = 0
    \/ code = "materially_short" /\ MateriallyShort(t)
    \/ code = "estimated_disbursement_date" /\ t.guessed

\* Variant: a row of the register for a tranche, named by the first rule it trips.
TrancheRowsFirst(f) ==
    {x \in TrancheCodes \X Releases(f) :
        /\ TrancheTrips(x[1], x[2])
        /\ x[2].day = 0 => x[1] = "no_disbursement_date"}

\* A tranche that trips two rules is two rows.
TrancheRows(f) ==
    {x \in TrancheCodes \X Releases(f) : TrancheTrips(x[1], x[2])}

\* The register: every problem with its record.
Exceptions(f) ==
    {x \in FileCodes \X FilesIn(f, Live) : FileTrips(x[1], x[2])}
    \cup TrancheRows(f)
    \cup {<<"money_on_prestage", l>> :
             l \in {t.file[1] : t \in {q \in Releases(f) : stage[q.file[1]] \notin Drawn}}}

ByCode(f, code) == Cardinality({x \in Exceptions(f) : x[1] = code})

\* What a segment narrows the tranches, the files and the leads to.
SegmentTranches(segment, value, t) ==
    CASE segment = "lender" -> t.file[2] = value
      [] segment = "ageing_bucket" -> Short(t) > 0 /\ ~t.writtenOff /\ Bucket(t) = value
      [] segment = "exception" /\ value \in TrancheCodes -> TrancheTrips(value, t)
      [] OTHER -> TRUE

StepStatuses(value) ==
    CASE value = "sanctioned" -> Live [] value = "confirmed" -> Confirmed
      [] OTHER -> {"disbursed"}

SegmentFiles(segment, value, g) ==
    CASE segment = "lender" -> g[2] = value
      [] segment = "funnel_step" -> status[g] \in StepStatuses(value)
      [] segment = "exception" /\ value \notin TrancheCodes -> FileTrips(value, g)
      [] OTHER -> TRUE

SegmentLead(segment, value, f, l) ==
    LET rows == {t \in ReleasesOf(f, {l}) : SegmentTranches(segment, value, t)}
        files == {g \in FilesAmong(f, Statuses, {l}) : SegmentFiles(segment, value, g)}
    IN  CASE segment = "stage" -> StageBucket(l) = value
          [] segment = "source" -> Source[l] = value /\ rows # {}
          [] segment = "funnel_step" -> files # {}
          [] segment = "exception" /\ value \notin TrancheCodes ->
                \E g \in files : status[g] \in Live
          [] OTHER -> rows # {}

\* Variant: the rows carry all the money of their leads, as they did before.
DrilldownWhole(f, segment, value) ==
    LET leads == {l \in Scope(f) : SegmentLead(segment, value, f, l)} IN
    [total |-> Cardinality(leads), sanctioned |-> Approved(FilesAmong(f, Live, leads)),
     money |-> Money(ReleasesOf(f, leads))]

\* The leads of a segment and, on their rows, the money of the same slice.
Drilldown(f, segment, value) ==
    LET leads == {l \in Scope(f) : SegmentLead(segment, value, f, l)} IN
    [total |-> Cardinality(leads),
     sanctioned |-> Approved({g \in FilesAmong(f, Live, leads) :
                                 SegmentFiles(segment, value, g)}),
     money |-> Money({t \in ReleasesOf(f, leads) : SegmentTranches(segment, value, t)})]

-----------------------------------------------------------------------------
(* The older reports, over the whole book.                                 *)

Everything == [lenders |-> {}, sources |-> {}, from |-> 0, to |-> 0]

\* reconciliation's totals, by status; what is owed is what was billed less what came.
Totals(statuses) ==
    LET m == Money({t \in Releases(Everything) : StatusOf(t) \in statuses})
    IN  [money |-> m, outstanding |-> m.earned - m.collected]

Priced(S) == {g \in S : loan[g] # Null /\ rate[g] # Null}

\* The rate of a file on what was approved, in parts of a paisa.
Gross(g) == loan[g] * rate[g]

\* gross_theoretical: rounded for each file, and added up; a file without an amount, or
\* without a rate, is counted and not summed.
GrossTheoretical(lenders) ==
    LET files == {g \in FilesIn(Everything, Confirmed) : g[2] \in lenders}
        priced == Priced(files)
    IN  [files |-> Cardinality(files), counted |-> Cardinality(priced),
         missingAmount |-> Cardinality(Unpriced(files)),
         missingRate |-> Cardinality(files \ (Unpriced(files) \cup priced)),
         sanctioned |-> Approved(files),
         revenue |-> SumOf([g \in priced |-> HalfUp(Gross(g), RateUnit)])]

\* The summary's own: added up for the lender, and rounded.
TheoreticalOf(b) ==
    LET priced == Priced({g \in FilesIn(Everything, Confirmed) : g[2] = b})
    IN  HalfUp(SumOf([g \in priced |-> Gross(g)]), RateUnit)

SummaryRow(b) ==
    LET rows == {t \in Releases(Everything) : t.file[2] = b} IN
    [money |-> Money(rows), outstanding |-> Money(rows).earned - Money(rows).collected,
     unbilled |-> Cardinality({t \in rows : ~t.billed}), theoretical |-> TheoreticalOf(b)]

\* Variant: the lenders that have released.
SummaryReleased == [b \in {t.file[2] : t \in Releases(Everything)} |-> SummaryRow(b)]

\* By lender, those that have approved and not released included.
Summary ==
    [b \in {t.file[2] : t \in Releases(Everything)}
           \cup {g[2] : g \in FilesIn(Everything, Confirmed)} |-> SummaryRow(b)]

\* What is earned on what was released, the tranches of deleted leads included.
RevenueVsTheoretical ==
    LET theoretical == GrossTheoretical(Lenders).revenue
        earned == SumOf([t \in tranches |-> t.commission])
    IN  [net |-> HalfUp(theoretical * NetPercent, 100),
         disbursed |-> SumOf([t \in tranches |-> t.amount]),
         revenue |-> earned, gap |-> theoretical - earned]

-----------------------------------------------------------------------------
(* Properties.                                                             *)

\* A figure of each part of a panel, added up.
Over(F, Figure(_)) == SumOf([k \in DOMAIN F |-> Figure(F[k])])

\* Two panels that show what is owed show the same: the dashboard's funnel, lenders and
\* ageing with what was written off, the sources and the stages.
OutstandingAgrees(f, d) ==
    LET owed == d.top.funnel.money.outstanding
        gone == SumOf([t \in {t \in Releases(f) : t.writtenOff} |-> Short(t)])
    IN  /\ Over(d.bottom.lenders, LAMBDA m : m.outstanding) = owed
        /\ Over(d.bottom.ageing, LAMBDA m : m.outstanding) + gone = owed
        /\ Over(BySource(f), LAMBDA r : r.money.outstanding) = owed
        /\ Over(StageFunnel(f), LAMBDA r : r.money.outstanding) = owed

\* "A funnel that does not sum to the book is a funnel people stop believing": stages,
\* sources, lenders and months, past and expected, hold every rupee once, but for the months'
\* undated ones and for a trend of more months than are shown.
PanelsSumToBook(f, d) ==
    LET book == d.top.funnel
        undated == Money({t \in Releases(f) : t.day = 0})
        expected == ByExpectedMonth(f).months
        dateless == {l \in Scope(f) : Closing[l] = Null}
    IN  /\ Over(StageFunnel(f), LAMBDA r : r.money.disbursed) = book.money.disbursed
        /\ Over(StageFunnel(f), LAMBDA r : r.sanctioned) = book.sanctioned
        /\ Over(StageFunnel(f), LAMBDA r : r.leads) = Cardinality(Scope(f))
        /\ Over(BySource(f), LAMBDA r : r.money.commission) = book.money.commission
        /\ Over(d.bottom.lenders, LAMBDA m : m.disbursed) = book.money.disbursed
        /\ Cardinality(MonthKeys(f)) <= MonthsShown =>
              Over(d.top.monthly, LAMBDA r : r.money.earned) + undated.earned
                = book.money.earned
        /\ RevenueBridge(f).booked + RevenueBridge(f).bookedGst = book.money.earned
        /\ Over(expected, LAMBDA r : r.standing.money.disbursed)
           + Money(ReleasesOf(f, dateless)).disbursed = book.money.disbursed
        /\ Over(expected, LAMBDA r : r.standing.leads) + Cardinality(dateless)
           = Cardinality(Scope(f))

\* "The row count MUST equal the number its segment advertised, and so must the money on
\* the rows": for stages, lenders, sources, ages, the funnel's two heads and the
\* exceptions that are about tranches.
DrilldownAgrees(f, d) ==
    /\ \A s \in DOMAIN StageFunnel(f) :
          LET rows == Drilldown(f, "stage", s) IN
          StageFunnel(f)[s] = [leads |-> rows.total, sanctioned |-> rows.sanctioned,
                               money |-> rows.money]
    /\ \A b \in DOMAIN d.bottom.lenders :
          Drilldown(f, "lender", b).money = d.bottom.lenders[b]
    /\ \A s \in DOMAIN BySource(f) :
          LET rows == Drilldown(f, "source", s) IN
          BySource(f)[s] = [students |-> rows.total, money |-> rows.money]
    /\ \A k \in Buckets : Drilldown(f, "ageing_bucket", k).money = d.bottom.ageing[k]
    /\ Drilldown(f, "funnel_step", "sanctioned").sanctioned = d.top.funnel.sanctioned
    /\ Drilldown(f, "funnel_step", "confirmed").sanctioned = d.top.funnel.confirmed
    /\ \A c \in TrancheCodes : Drilldown(f, "exception", c).money.tranches = ByCode(f, c)

\* The register and the counters, "the pair most likely to be compared", agree.
RegisterAgrees(f, d) ==
    \A code \in FileCodes \cup TrancheCodes : ByCode(f, code) = d.bottom.quality[code]

Covered == Priced(FilesIn(Everything, Confirmed))

\* A sum of this many roundings, and what was rounded: within a half for each.
WithinHalves(rounded, whole, unit, n) ==
    /\ 2 * (unit * rounded) <= 2 * whole + unit * n
    /\ 2 * whole <= 2 * (unit * rounded) + unit * n

\* The forecast, the opportunities it is made of and the theoretical revenue agree on
\* which files they leave out; unfiltered, the forecast and what was drawn of the files
\* it covers make up the theoretical revenue, half a paisa for each file apart, unless a
\* file is drawn past its amount.
ForecastAgrees(f, d) ==
    LET ahead == d.top.ahead  whole == GrossTheoretical(Lenders) IN
    /\ SumOf([g \in Opportunities(f) |-> Worth(f, g)]) = ahead.future
    /\ RevenueBridge(f).unlockable = ahead.future
    /\ ahead.drawn <= d.top.funnel.money.disbursed
    /\ f = Everything =>
          /\ whole.files - whole.counted = ahead.excluded
          /\ (\A g \in Covered : DrawnOn(f, g) <= loan[g]) =>
                WithinHalves(whole.revenue,
                             ahead.future + SumOf([g \in Covered |-> DrawnOn(f, g) * rate[g]]),
                             RateUnit, whole.counted)

\* "The same formula": what the lenders' summary says is owed is what the report's
\* totals say, its theoretical revenue is the whole one, half a paisa for each file and
\* each lender apart, and what is ready to bill is all that the totals have still to bill,
\* of lenders whose tranches are not all billed.
SummaryAgrees ==
    LET all == {"written_off", "billed", "to_bill", "short_paid", "paid"}
        ready == ReadyToBill(Everything)
        whole == GrossTheoretical(Lenders)
    IN
    /\ Totals({"to_bill"}).money.commission <= Over(ready, LAMBDA r : r.money.commission)
    /\ \A b \in DOMAIN ready : ready[b].money.tranches <= Summary[b].unbilled
    /\ Over(Summary, LAMBDA r : r.outstanding) = Totals(all).outstanding
    /\ WithinHalves(Over(Summary, LAMBDA r : r.theoretical), whole.revenue, 1,
                    whole.counted + Cardinality(DOMAIN Summary))
    /\ SumOf([s \in all |-> Totals({s}).outstanding]) = Totals(all).outstanding

\* Two screens do not show two figures for one thing: what is owed, the panels against the
\* book's totals, the forecast against the opportunities and the theory.
FiguresAgree(f, d) == OutstandingAgrees(f, d) /\ PanelsSumToBook(f, d) /\ ForecastAgrees(f, d)

\* Whoever follows a figure to its rows finds rows that come to that figure.
RowsAgree(f, d) == DrilldownAgrees(f, d) /\ RegisterAgrees(f, d)

-----------------------------------------------------------------------------
(* What the code says of itself and does not do.                           *)

\* "`revenue` here is the same figure the reconciliation report calls commission_total
\* ... so the two screens cannot disagree."
RevenueAgrees ==
    RevenueVsTheoretical.revenue
        = Totals({"written_off", "billed", "to_bill", "short_paid", "paid"}).money.commission
=============================================================================
