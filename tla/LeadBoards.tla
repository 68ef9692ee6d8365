----------------------------- MODULE LeadBoards -----------------------------
(***************************************************************************)
(* The leads of one tenant as its screens show them: the list and the      *)
(* boards with their cache (services/lead_service.py), who is given which  *)
(* lead (assignment, reassignment, distribution), and the reports on       *)
(* people and stages (services/report_service.py).                         *)
(*                                                                         *)
(* A screen is a query, here an operator over the rows.  A board is two    *)
(* queries with other requests in between, and its answer is kept for a    *)
(* while in the memory of one of the processes; a distribution reads the   *)
(* list of leads and deals it out later.  What moves a lead between stages is in   *)
(* LeadDesk; here a move is one step that closes the lead's callback.      *)
(* Text searches and the filters on one column of the row are one filter,  *)
(* on a set of leads.                                                      *)
(***************************************************************************)
EXTENDS Integers, Sequences, FiniteSets, FiniteSetsExt, Functions

CONSTANTS
    Ids,         \* leads
    Born,        \* leads.created_at: those of one transaction have one
    Counsellors, \* users of a role that sees its own leads only
    Admin,       \* a user who sees them all
    Nobody,      \* no user
    BoardStages, \* the stages of the brand
    ShortStages, \* those the AI board has columns for
    WonStage,    \* _BRAND_WON_STAGE
    Stamped,     \* those that set won_time
    NoAnswer,    \* the stages of leads who did not pick up
    Campaigns,
    Amount,      \* leads.loan_amount_lakh, 0 for NULL
    Source,      \* leads.lead_source_id
    DueDate,     \* the due_date of a lead's callback
    Limits,      \* per_stage_limit
    Processes,   \* the workers that serve requests
    Asked,       \* the requests for a board
    Kept,        \* those that go through the cache
    Deals,       \* the distributions asked for: sequences of ranges,
    Orders,      \* order_by
    DealStages,  \* and stage, "any" for none
    TTL,         \* _KANBAN_CACHE_TTL_S, in ticks of the clock
    DayLength,   \* ticks of a day
    MaxTime,     \* bound: the last tick
    MaxWrites,   \* bound: writes
    MaxCached,   \* bound: answers in the caches
    MaxOpen      \* bound: requests between two of their statements

Boards == {"ai", "normal", "both"}
Segments == {"all", "unassigned", "counsellor", "pre_counsellor", "campaign", "normal"}
Sorts == {"created_desc", "loan_asc", "loan_desc"}

\* What a board is asked for.
Views ==
    [user : Counsellors \cup {Admin}, board : Boards, segment : Segments,
     among : SUBSET Ids, campaigns : SUBSET Campaigns, sort : Sorts, limit : Limits]

\* Of the constants: what is asked for there is, bounds are numbers.
BoardsAssumption ==
    /\ Ids \subseteq Nat \ {0} /\ IsFiniteSet(Ids) /\ IsFiniteSet(Campaigns)
    /\ IsFiniteSet(Counsellors) /\ Admin \notin Counsellors /\ Nobody \notin Counsellors \cup {Admin}
    /\ ShortStages \subseteq BoardStages /\ {WonStage, "created", "lost"} \subseteq BoardStages
    /\ WonStage \notin {"created", "lost"} /\ {"all", "any"} \cap BoardStages = {}
    /\ NoAnswer \subseteq BoardStages /\ Stamped \subseteq BoardStages
    /\ Amount \in [Ids -> Nat] /\ DueDate \in [Ids -> Nat] /\ DOMAIN Source = Ids
    /\ Born \in [Ids -> Nat]
    /\ Limits \subseteq Nat \ {0} /\ Asked \subseteq Views /\ Kept \subseteq Asked
    /\ \A d \in Deals : d \in Seq([from : Nat \ {0}, to : Nat, agent : Counsellors \cup {Admin}])
    /\ Orders \subseteq {"created_at_asc", "created_at_desc"} /\ DealStages \subseteq BoardStages \cup {"any"}
    /\ TTL \in Nat /\ DayLength \in Nat \ {0} /\ MaxTime \in Nat /\ MaxWrites \in Nat
    /\ MaxCached \in Nat /\ MaxOpen \in Nat

VARIABLES
    row,      \* the rows of leads
    callback, \* the callback task of a lead
    moves,    \* the rows of lead_stage_logs
    remarks,  \* the rows of lead_remarks
    now,      \* the clock
    cache,    \* _kanban_cache of each process
    load,     \* a board being computed
    deal,     \* a distribution that has read its list
    left,     \* history: when a lead changed boards and a process kept its cache
    writes    \* bound counter

desk == <<row, callback, moves, remarks, left>>
boardVars == <<cache, load>>
vars == <<desk, boardVars, deal, now, writes>>

People == Counsellors \cup {Admin}
Rows == [stage : BoardStages, agent : People \cup {Nobody}, pre : People \cup {Nobody},
         deleted : BOOLEAN, ai : BOOLEAN, in : SUBSET Campaigns]
Callbacks == [owner : People, status : {"pending", "in_progress", "overdue", "completed"},
              updated : 0..MaxTime, completed : -1..MaxTime]
\* A move's note: none, a user's, or the AI's mark.
Notes == {"none", "user", "auto"}
Never == -1
Idle == [at |-> "idle"]

TypeOK ==
    /\ row \in [Ids -> Rows] /\ callback \in [Ids -> Callbacks]
    /\ moves \subseteq [by : People, lead : Ids, to : BoardStages, time : 0..MaxTime, note : Notes]
    /\ remarks \subseteq [by : People, lead : Ids, time : 0..MaxTime]
    /\ now \in 0..MaxTime /\ writes \in 0..MaxWrites
    /\ DOMAIN cache \subseteq Processes \X Kept
    /\ left \in [Processes -> [Ids -> Never..MaxTime]]

Empty == [v \in {} |-> 0]

\* Leads as they are entered: on either board, nobody's, a callback for the admin.
Init ==
    /\ row \in [Ids -> {[stage |-> "created", agent |-> Nobody, pre |-> Nobody,
                         deleted |-> FALSE, ai |-> b, in |-> {}] : b \in BOOLEAN}]
    /\ callback = [i \in Ids |-> [owner |-> Admin, status |-> "pending", updated |-> 0,
                                  completed |-> Never]]
    /\ moves = {} /\ remarks = {} /\ now = 0 /\ cache = Empty /\ load = Idle /\ deal = Idle
    /\ left = [p \in Processes |-> [i \in Ids |-> Never]] /\ writes = 0

-----------------------------------------------------------------------------
(* Who sees what.                                                          *)

Live == {i \in Ids : ~row[i].deleted}

\* A restricted user: the leads where they are the counsellor or the pre-counsellor.
Sees(u, i) == u \notin Counsellors \/ u \in {row[i].agent, row[i].pre}

\* A lead that was ever in a campaign is the AI agent's.
InSegment(segment, i) ==
    CASE segment = "unassigned" -> row[i].agent = Nobody /\ row[i].pre = Nobody /\ row[i].in = {}
      [] segment = "counsellor" -> row[i].agent # Nobody
      [] segment = "pre_counsellor" -> row[i].pre # Nobody
      [] segment = "campaign" -> row[i].in # {}
      [] segment = "normal" -> row[i].in = {}
      [] OTHER -> TRUE

\* _apply_kanban_filters, on top of the visibility gate.
Filtered(v) == {i \in Live : Sees(v.user, i) /\ i \in v.among /\ InSegment(v.segment, i)}

\* list_leads, with a stage; it has no board.
Listed(v, s) ==
    {i \in Filtered(v) : row[i].stage = s /\ (v.campaigns # {} => row[i].in \cap v.campaigns # {})}

\* search_leads.
Found(u, among) == {i \in Live \cap among : Sees(u, i)}

-----------------------------------------------------------------------------
(* A board: columns, cards, headers.                                       *)

SumOf(w) == SumFunctionOnSet(w, DOMAIN w)

OnBoard(board, i) == board = "both" \/ row[i].ai = (board = "ai")

\* ORDER BY: newest first, oldest first, or by amount with NULL at the end.
Before(sort, i, k) ==
    CASE sort = "loan_asc" /\ Amount[i] # Amount[k] ->
             Amount[k] = 0 \/ (Amount[i] # 0 /\ Amount[i] < Amount[k])
      [] sort = "loan_desc" /\ Amount[i] # Amount[k] -> Amount[i] > Amount[k]
      [] sort = "created_at_asc" -> Born[i] < Born[k]
      [] OTHER -> Born[i] > Born[k]

Tied(sort, i, k) == ~Before(sort, i, k) /\ ~Before(sort, k, i)

\* Leads that tie come in an order the query happens to have: the turn of each.
Turns == {t \in [Ids -> Ids] : \A i, k \in Ids : t[i] = t[k] => i = k}

Precedes(sort, turn, i, k) == Before(sort, i, k) \/ (Tied(sort, i, k) /\ turn[i] < turn[k])

\* The join with campaign_leads gives a lead once for each campaign that was asked for.
Copies(v, i) == IF v.campaigns = {} THEN 1 ELSE Cardinality(row[i].in \cap v.campaigns)

\* What row_number() numbers within a stage: the copies of these leads.
Column(v, s) == {i \in Filtered(v) : row[i].stage = s /\ OnBoard(v.board, i)}

Ahead(v, s, turn, i) ==
    SumOf([k \in {k \in Column(v, s) : Precedes(v.sort, turn, k, i)} |-> Copies(v, k)])

\* The numbers it gives a lead.
RowNumbers(v, s, turn, i) ==
    LET ahead == Ahead(v, s, turn, i) IN (ahead + 1)..(ahead + Copies(v, i))

\* Variant: the row the last page ended with begins the next one.
CardsFrom(v, s, turn, offset) ==
    {x \in (offset..(offset + v.limit)) \X Column(v, s) : x[1] \in RowNumbers(v, s, turn, x[2])}

\* The cards of a column from offset on, each with its number: rn > offset,
\* rn <= offset + per_stage_limit.
Cards(v, s, turn, offset) ==
    {x \in ((offset + 1)..(offset + v.limit)) \X Column(v, s) :
        x[1] \in RowNumbers(v, s, turn, x[2])}

\* counts_by_stage.
Header(v, s) == SumOf([i \in Column(v, s) |-> Copies(v, i)])

\* The badge of a card: a task in progress is not on it.
TaskBadge(i) == Cardinality({k \in {i} : callback[k].status \in {"pending", "overdue"}})

Noted(i) == {m \in moves : m.lead = i /\ m.note # "none"}

\* list_remarks.
Feed(u, i) == {x \in remarks : x.lead = i /\ i \in Live /\ Sees(u, i)}

\* Variant: the notes of moves are left out.
LatestRemark(i) ==
    LET said == Max({Never} \cup {x.time : x \in {y \in remarks : y.lead = i}})
    IN  [from |-> IF said = Never THEN "none" ELSE "remark", time |-> said]

\* Of the last remark and the last note of a move the later one, the remark if neither is.
LatestNote(i) ==
    LET said == Max({Never} \cup {x.time : x \in {y \in remarks : y.lead = i}})
        noted == Max({Never} \cup {m.time : m \in Noted(i)})
    IN  IF noted > said THEN [from |-> "move", time |-> noted]
        ELSE [from |-> IF said = Never THEN "none" ELSE "remark", time |-> said]

\* _enrich_cards.
Card(i) ==
    [agent |-> row[i].agent, pre |-> row[i].pre, tasks |-> TaskBadge(i),
     notes |-> Cardinality(Noted(i)), latest |-> LatestNote(i)]

\* get_stages_for_pipeline.
Columns(board) == IF board = "ai" THEN ShortStages ELSE BoardStages

\* A page is asked for in one column, which is on the board.
Valid(v, only, offset) ==
    /\ offset # 0 => only # "all"
    /\ only # "all" => only \in Columns(v.board)

Answer(v, only, turn, offset) ==
    [s \in (IF only = "all" THEN Columns(v.board) ELSE {only}) |-> Cards(v, s, turn, offset)]

\* Answers that may still be given from a cache.  (Variant: their age is not looked at.)
ServableAlways == DOMAIN cache
Servable == {k \in DOMAIN cache : now <= cache[k].until}

-----------------------------------------------------------------------------
(* The reports.  A restricted user's are those of their own leads.         *)

\* For the dashboard and its like, only the counsellor's: not the pre-counsellor's.
Reported(u) == {i \in Live : u \in Counsellors => row[i].agent = u}

ByStage(S) == [s \in BoardStages |-> Cardinality({i \in S : row[i].stage = s})]

\* The two figures a conversion rate is made of.
Closed(stages) == [won |-> stages[WonStage], lost |-> stages["lost"]]

TasksOf(u) == {i \in Ids : u \in Counsellors => callback[i].owner = u}
WithStatus(S, statuses) == Cardinality({i \in S : callback[i].status \in statuses})

Dashboard(u) ==
    [total |-> Cardinality(Reported(u)), stages |-> ByStage(Reported(u)),
     pending |-> WithStatus(TasksOf(u), {"pending", "in_progress"}),
     overdue |-> WithStatus(TasksOf(u), {"overdue"}),
     closed |-> Closed(ByStage(Reported(u)))]

PipelineReport(u) == [total |-> Cardinality(Reported(u)), stages |-> ByStage(Reported(u))]

\* agents_summary: a counsellor's line.
AgentRow(u) ==
    LET mine == {i \in Live : row[i].agent = u}
        tasks == {i \in Ids : callback[i].owner = u}
    IN  [total |-> Cardinality(mine), stages |-> ByStage(mine), tasks |-> Cardinality(tasks),
         completed |-> WithStatus(tasks, {"completed"}),
         overdue |-> WithStatus(tasks, {"overdue"}), closed |-> Closed(ByStage(mine))]

\* agent_detail: of oneself, unless one sees all.
AgentDetail(asking, u) == IF asking \in Counsellors /\ asking # u THEN {} ELSE {AgentRow(u)}

\* sources: one that has no lead is there, with nothing.
SourceRow(u, source) ==
    LET S == {i \in Reported(u) : Source[i] = source}
    IN  [total |-> Cardinality(S), closed |-> Closed(ByStage(S))]

Compliance(u) ==
    [total |-> Cardinality(TasksOf(u)), completed |-> WithStatus(TasksOf(u), {"completed"}),
     overdue |-> WithStatus(TasksOf(u), {"overdue"}),
     pending |-> WithStatus(TasksOf(u), {"pending", "in_progress"})]

\* Variant: a lead counts once for each side the user is on.
UserRowTwice(u) ==
    [total |-> Cardinality({i \in Live : row[i].agent = u})
               + Cardinality({i \in Live : row[i].pre = u}),
     stages |-> ByStage({i \in Live : u \in {row[i].agent, row[i].pre}})]

\* user_pipeline_stats: counsellor or pre-counsellor, a lead counts once.
UserRow(u) ==
    LET mine == {i \in Live : u \in {row[i].agent, row[i].pre}}
    IN  [total |-> Cardinality(mine), stages |-> ByStage(mine)]

AiRow == ByStage({i \in Live : row[i].in # {}})
CompanyTotals == ByStage(Live)

\* Late, whether or not the overdue job has come by.
UserOverdue(u) ==
    Cardinality({i \in Live : /\ callback[i].owner = u /\ callback[i].status # "completed"
                              /\ DueDate[i] < now})

Day(time) == time \div DayLength
EndOfDay(day) == (day + 1) * DayLength - 1

\* The lists of tasks: today's and the badge are one's own, the others a manager's too.
TodayTasks(u) ==
    {i \in Ids : /\ callback[i].owner = u /\ callback[i].status \in {"pending", "in_progress"}
                 /\ DueDate[i] <= EndOfDay(Day(now))}
LateTasks(u) == {i \in TasksOf(u) : callback[i].status # "completed" /\ DueDate[i] < now}
DoneToday(u) == {i \in TasksOf(u) : callback[i].status = "completed" /\ Day(callback[i].completed) = Day(now)}
Actionable(u) ==
    {i \in Ids : /\ callback[i].owner = u /\ callback[i].status \in {"pending", "overdue"}
                 /\ DueDate[i] <= EndOfDay(Day(now))}

\* The tasks of a lead its user sees.
TasksOfLead(u, i) == IF i \in Live /\ Sees(u, i) THEN {i} ELSE {}

\* trends: won_time is set by the first move to a stage that stamps it, lost_time by the
\* last to lost, and stays when the lead comes back.
WonTimes(i) == {m.time : m \in {x \in moves : x.lead = i /\ x.to \in Stamped}}
LostTimes(i) == {m.time : m \in {x \in moves : x.lead = i /\ x.to = "lost"}}
Trends(u, day) ==
    [won |-> Cardinality({i \in Reported(u) : WonTimes(i) # {} /\ Day(Min(WonTimes(i))) = day}),
     lost |-> Cardinality({i \in Reported(u) : LostTimes(i) # {} /\ Day(Max(LostTimes(i))) = day})]

\* Variant: the day has a beginning and no end.
MovesSince(u, day) == {m \in moves : m.by = u /\ Day(m.time) >= day}
MovesOn(u, day) == {m \in moves : m.by = u /\ Day(m.time) = day}

\* _compute_user_day_metrics: the moves, and the calls they and the callbacks of leads
\* who do not pick up now let one guess.
DayMetrics(u, day) ==
    LET mine == MovesOn(u, day)
        silent(i) == callback[i].owner = u /\ row[i].stage \in NoAnswer
        finished == {i \in Ids : /\ silent(i) /\ callback[i].status = "completed"
                                 /\ Day(callback[i].completed) = day}
        touched == {i \in Ids : silent(i) /\ Day(callback[i].updated) = day}
    IN  [transitions |-> Cardinality(mine),
         won |-> Cardinality({m \in mine : m.to = WonStage}),
         lost |-> Cardinality({m \in mine : m.to = "lost"}),
         completed |-> Cardinality({i \in Ids : /\ callback[i].owner = u
                                                /\ callback[i].status = "completed"
                                                /\ Day(callback[i].completed) = day}),
         implied |-> Cardinality({m.lead : m \in {x \in mine : x.note # "auto"}}
                                 \cup finished \cup touched)]

\* _resolve_target_user.
MayAsk(asking, u) == asking = u \/ asking \notin Counsellors

\* daily_activity: the day, and by how much it is more than the day before.
DailyActivity(asking, u, day) ==
    LET metrics == DayMetrics(u, day)
        before == DayMetrics(u, day - 1)
    IN  IF MayAsk(asking, u)
        THEN {[metrics |-> metrics, deltas |-> [k \in DOMAIN metrics |-> metrics[k] - before[k]]]}
        ELSE {}

\* daily_activity_range: the oldest first.
ActivityRange(asking, u, days) ==
    IF MayAsk(asking, u) THEN [n \in 1..days |-> DayMetrics(u, Day(now) - days + n)] ELSE <<>>

-----------------------------------------------------------------------------
(* Requests that write.                                                    *)

Write == writes < MaxWrites /\ writes' = writes + 1

Opens == Cardinality({x \in {"load", "deal"} : IF x = "load" THEN load # Idle ELSE deal # Idle}) < MaxOpen

\* A board that is being computed may have seen the rows as they were.
Overtaken == load' = IF load = Idle THEN Idle ELSE [load EXCEPT !.overtaken = TRUE]

\* invalidate_kanban_cache_for_company, in the process of the request.
Invalidate(p) == cache' = [k \in {x \in DOMAIN cache : x[1] # p} |-> cache[k]]

\* Lead i changes boards, and these processes keep what they have in their caches.
Leaves(i, keeping) ==
    left' = [p \in Processes |-> IF p \in keeping THEN [left[p] EXCEPT ![i] = now] ELSE left[p]]

\* A transition; the callback is closed when it was due, and the cache dropped with it.
Move(p, u, i, s, note) ==
    /\ Write /\ i \in Live /\ Sees(u, i) /\ s # row[i].stage
    /\ row' = [row EXCEPT ![i].stage = s]
    /\ moves' = moves \cup {[by |-> u, lead |-> i, to |-> s, time |-> now, note |-> note]}
    /\ IF callback[i].status \in {"pending", "overdue"} /\ DueDate[i] <= now
       THEN /\ callback' = [callback EXCEPT ![i].status = "completed", ![i].updated = now,
                                           ![i].completed = now]
            /\ Invalidate(p)
       ELSE UNCHANGED <<callback, cache>>
    /\ UNCHANGED <<load, remarks, deal, left, now>>

\* add_remark.
AddRemark(u, i) ==
    /\ Write /\ i \in Live /\ Sees(u, i)
    /\ remarks' = remarks \cup {[by |-> u, lead |-> i, time |-> now]}
    /\ UNCHANGED <<row, callback, moves, left, boardVars, deal, now>>

\* Variant: the cache is left alone.
HandOverQuietly(p, u, i) ==
    /\ Write /\ i \in Live /\ Sees(u, i)
    /\ row[i].ai \/ row[i].stage \in ShortStages
    /\ row' = [row EXCEPT ![i].ai = ~@]
    /\ Overtaken /\ Leaves(i, Processes \ {p})
    /\ UNCHANGED <<callback, moves, remarks, cache, deal, now>>

\* move_pipeline: the process that serves it drops its own cache, the others keep theirs.
HandOver(p, u, i) ==
    /\ Write /\ i \in Live /\ Sees(u, i)
    /\ row[i].ai \/ row[i].stage \in ShortStages
    /\ row' = [row EXCEPT ![i].ai = ~@]
    /\ Overtaken /\ Invalidate(p) /\ Leaves(i, Processes \ {p})
    /\ UNCHANGED <<callback, moves, remarks, deal, now>>

\* update_lead, of a lead the AI board has no column for.
EditOver(u, i) ==
    /\ Write /\ i \in Live /\ Sees(u, i)
    /\ row[i].ai /\ row[i].stage \notin ShortStages
    /\ row' = [row EXCEPT ![i].ai = FALSE]
    /\ Overtaken /\ Leaves(i, Processes)
    /\ UNCHANGED <<callback, moves, remarks, cache, deal, now>>

Changed(new) == row' = new /\ UNCHANGED <<callback, moves, remarks, left, boardVars, deal, now>>

Delete(i) == Write /\ i \in Live /\ Changed([row EXCEPT ![i].deleted = TRUE])

Enroll(i, c) == Write /\ i \in Live /\ Changed([row EXCEPT ![i].in = @ \cup {c}])

\* assign_lead.
AssignLead(i, u) == Write /\ i \in Live /\ Changed([row EXCEPT ![i].agent = u])

\* reassign_lead: either side or both, perhaps cleared.
ReassignLead(i) ==
    /\ Write /\ i \in Live
    /\ \E agent, pre \in People \cup {Nobody} : Changed([row EXCEPT ![i].agent = agent, ![i].pre = pre])

\* bulk_assign.
BulkAssign(S, u) ==
    /\ Write
    /\ Changed([i \in Ids |-> IF i \in S \cap Live THEN [row[i] EXCEPT !.agent = u] ELSE row[i]])

\* The task screens: a callback is done, or changed and open again.
TouchTask(p, i) ==
    /\ Write
    /\ \E status \in {"completed", "in_progress"} :
           callback' = [callback EXCEPT ![i].status = status, ![i].updated = now,
                            ![i].completed = IF status = "completed" THEN now ELSE @]
    /\ Invalidate(p)
    /\ UNCHANGED <<row, moves, remarks, left, load, deal, now>>

\* check_overdue_tasks.
MarkOverdue ==
    /\ Write
    /\ callback' = [i \in Ids |-> IF callback[i].status \in {"pending", "in_progress"} /\ DueDate[i] < now
                                  THEN [callback[i] EXCEPT !.status = "overdue", !.updated = now]
                                  ELSE callback[i]]
    /\ UNCHANGED <<row, moves, remarks, left, boardVars, deal, now>>

-----------------------------------------------------------------------------
(* Distribution by position.                                               *)

\* The ranges are well-formed and disjoint.
WellFormed(ranges) ==
    /\ ranges # <<>>
    /\ \A n \in DOMAIN ranges : ranges[n].from <= ranges[n].to
    /\ \A n, m \in DOMAIN ranges :
           n # m => ranges[n].to < ranges[m].from \/ ranges[m].to < ranges[n].from

\* Variant: the leads that have a counsellor are dealt out too.
EligibleAll(free, s) == {i \in Live : s \in {"any", row[i].stage}}
Eligible(free, s) ==
    {i \in Live : (free => row[i].agent = Nobody) /\ s \in {"any", row[i].stage}}

DealRead ==
    /\ deal = Idle /\ Opens /\ writes < MaxWrites
    /\ \E ranges \in Deals, free \in BOOLEAN, s \in DealStages, order \in Orders, turn \in Turns :
        /\ WellFormed(ranges)
        /\ deal' = [at |-> "read", ranges |-> ranges, free |-> free, order |-> order, turn |-> turn,
                    ids |-> Eligible(free, s), owners |-> [i \in Ids |-> row[i].agent]]
    /\ UNCHANGED <<desk, boardVars, now, writes>>

\* Where a lead is in all_ids.
Position(i) == Cardinality({k \in deal.ids : Precedes(deal.order, deal.turn, k, i)}) + 1

\* One UPDATE for each range, one commit.
DealWrite ==
    /\ deal # Idle /\ Write /\ deal' = Idle
    /\ row' = [i \in Ids |->
          LET hits == {n \in DOMAIN deal.ranges :
                         Position(i) \in deal.ranges[n].from..deal.ranges[n].to}
          IN  IF i \in Live \cap deal.ids /\ hits # {}
              THEN [row[i] EXCEPT !.agent = deal.ranges[CHOOSE n \in hits : TRUE].agent]
              ELSE row[i]]
    /\ UNCHANGED <<callback, moves, remarks, left, boardVars, now>>

-----------------------------------------------------------------------------
(* list_leads_by_stage, and time.                                          *)

\* Nothing in the cache of the process: the query for the cards.
LoadCards(p, v) ==
    /\ load = Idle /\ Opens /\ <<p, v>> \notin Servable
    /\ Cardinality(DOMAIN cache \ {<<p, v>>}) < MaxCached
    /\ \E turn \in Turns :
          load' = [at |-> "cards", process |-> p, view |-> v, overtaken |-> FALSE,
                   cards |-> [s \in Columns(v.board) |-> Cards(v, s, turn, 0)]]
    /\ cache' = [k \in DOMAIN cache \ {<<p, v>>} |-> cache[k]]
    /\ UNCHANGED <<desk, deal, now, writes>>

\* The query for the headers, and the answer is kept.
LoadHeaders ==
    /\ load # Idle /\ load' = Idle
    /\ LET v == load.view
           entry == [cards |-> load.cards, until |-> now + TTL, overtaken |-> load.overtaken,
                     headers |-> [s \in Columns(v.board) |-> Header(v, s)]]
       IN  cache' = [k \in DOMAIN cache \cup {<<load.process, v>>} |->
                        IF k = <<load.process, v>> THEN entry ELSE cache[k]]
    /\ UNCHANGED <<desk, deal, now, writes>>

Tick == /\ now < MaxTime /\ now' = now + 1
        /\ UNCHANGED <<desk, boardVars, deal, writes>>

-----------------------------------------------------------------------------
LeadWrite(i) ==
    \/ \E p \in Processes, u \in People :
          HandOver(p, u, i) \/ (\E s \in BoardStages, note \in Notes : Move(p, u, i, s, note))
    \/ \E u \in People : AddRemark(u, i) \/ EditOver(u, i) \/ AssignLead(i, u)
    \/ \E c \in Campaigns : Enroll(i, c)
    \/ \E p \in Processes : TouchTask(p, i)
    \/ Delete(i) \/ ReassignLead(i)

Next ==
    \/ \E i \in Ids : LeadWrite(i)
    \/ \E S \in SUBSET Ids, u \in Counsellors : BulkAssign(S, u)
    \/ MarkOverdue \/ DealRead \/ DealWrite
    \/ \E p \in Processes, v \in Kept : LoadCards(p, v)
    \/ LoadHeaders \/ Tick

Spec == Init /\ [][Next]_vars

-----------------------------------------------------------------------------
(* Properties.                                                             *)

\* The pages of a column, each of their cards with the number of its page; every page is a
\* query of its own, with its own turns.
Pages(v, s, turns) ==
    UNION {{n} \X Answer(v, s, turns[n], (n - 1) * v.limit)[s] :
               n \in {m \in 1..Cardinality(Ids) : Valid(v, s, (m - 1) * v.limit)}}

\* The leads of the list that are to be in a column.
InColumn(v, s) == {i \in Listed(v, s) : OnBoard(v.board, i)}

\* No page ends among the leads that tie with i.
Apart(v, s, i) ==
    LET ahead == Cardinality({k \in InColumn(v, s) : Before(v.sort, k, i)})
        tied == Cardinality({k \in InColumn(v, s) : Tied(v.sort, k, i)})
    IN  \A n \in 1..Cardinality(Ids) : n * v.limit <= ahead \/ n * v.limit >= ahead + tied

\* "Show more" until there is no more: the pages of a column hold the numbers from one to
\* what its header says, each once, and only leads that the list has in that stage, on that
\* board; no lead is on a page twice, and one is on exactly one page unless it ties with
\* the leads on both sides of a page's end.  (Those, of one import, may be on two or on
\* none: each page is a query that orders them anew.)
\* (One campaign at the most: a lead in two that are both asked for is there twice.)
BoardIsWhole ==
    \A v \in Asked : Cardinality(v.campaigns) <= 1 =>
        \A s \in Columns(v.board), turns \in [1..Cardinality(Ids) -> Turns] :
            LET pages == Pages(v, s, turns) IN
            /\ {x[2][1] : x \in pages} = 1..Header(v, s)
            /\ \A x, y \in pages : x[2][1] = y[2][1] => x = y
            /\ \A x, y \in pages : x[1] = y[1] /\ x[2][2] = y[2][2] => x = y
            /\ {x[2][2] : x \in pages} \subseteq InColumn(v, s)
            /\ \A i \in InColumn(v, s) : Apart(v, s, i) =>
                  \E x \in pages : {y \in pages : y[2][2] = i} = {x}

Whole(u) ==
    [user |-> u, board |-> "both", segment |-> "all", among |-> Ids, campaigns |-> {},
     sort |-> "created_desc", limit |-> Max(Limits)]

\* A user's row is their board, a counsellor's dashboard is their line in the team's,
\* shared leads are the whole difference between the rows and the company.
LeadsAgree ==
    /\ \A u \in Counsellors :
          /\ UserRow(u).stages = [s \in BoardStages |-> Header(Whole(u), s)]
          /\ UserRow(u).total = Cardinality(Found(u, Ids))
          /\ \A mine \in AgentDetail(u, u) :
                mine.stages = Dashboard(u).stages /\ mine.overdue = Dashboard(u).overdue
    /\ PipelineReport(Admin).stages = [s \in BoardStages |-> Header(Whole(Admin), s)]
    /\ SumOf([u \in People |-> UserRow(u).total])
       + Cardinality({i \in Live : row[i].agent = Nobody /\ row[i].pre = Nobody})
       = PipelineReport(Admin).total
         + Cardinality({i \in Live : /\ Nobody \notin {row[i].agent, row[i].pre}
                                     /\ row[i].agent # row[i].pre})
    /\ CompanyTotals = Dashboard(Admin).stages
    /\ \E ai \in {AiRow} : \A s \in BoardStages : ai[s] <= CompanyTotals[s]
    /\ SumOf([x \in {Source[i] : i \in Ids} |-> SourceRow(Admin, x).total])
       = Dashboard(Admin).total

\* No task is in two figures of one report, what the overdue job marked is late, the
\* badge and the lists of today and of what is late are of the same tasks.
TasksAgree ==
    /\ \A u \in People : LET c == Compliance(u) IN
          /\ c.total = c.completed + c.overdue + c.pending
          /\ c.pending = Dashboard(u).pending
          /\ WithStatus({i \in Live : callback[i].owner = u}, {"overdue"}) <= UserOverdue(u)
          /\ Cardinality(TodayTasks(u) \cup {i \in LateTasks(u) : callback[i].owner = u})
             = Cardinality(Actionable(u)) + WithStatus(TodayTasks(u), {"in_progress"})
    /\ SumOf([i \in Live |-> TaskBadge(i)]) <= Dashboard(Admin).pending + Dashboard(Admin).overdue
    /\ SumOf([u \in People |-> DayMetrics(u, Day(now)).completed])
       = Cardinality(DoneToday(Admin))

DaysSoFar == 0..Day(now)

\* A move is in one day of one user, the changes from day to day add up to the day, and
\* the trends hold every lead that is lost or won, and no loss that is in nobody's day.
DaysAgree ==
    LET lost == SumOf([d \in DaysSoFar |-> Trends(Admin, d).lost])
        range(u) == ActivityRange(Admin, u, Day(now) + 1)
        done(u) == SumOf([n \in DOMAIN range(u) |-> range(u)[n].transitions])
        risen(u, d) == SumOf([a \in DailyActivity(u, u, d) |-> a.deltas.transitions])
    IN  /\ SumOf([u \in People |-> done(u)]) = Cardinality(moves)
        /\ \A u \in People :
              SumOf([d \in DaysSoFar |-> risen(u, d)]) = DayMetrics(u, Day(now)).transitions
        /\ PipelineReport(Admin).stages["lost"] <= lost
        /\ lost <= SumOf([x \in People \X DaysSoFar |-> DayMetrics(x[1], x[2]).lost])
        /\ WonStage \in Stamped =>
              PipelineReport(Admin).stages[WonStage]
              <= SumOf([d \in DaysSoFar |-> Trends(Admin, d).won])

\* A card has a last note exactly when its lead has remarks or moves with one, and none
\* of the remarks its users read is newer; no task on it is missing from the lead.
CardsAgree ==
    \A u \in People, i \in Live : Sees(u, i) =>
        /\ (Card(i).latest.from = "none") <=> (Card(i).notes = 0 /\ Feed(u, i) = {})
        /\ \A x \in Feed(u, i) : x.time <= Card(i).latest.time
        /\ Card(i).tasks <= Cardinality(TasksOfLead(u, i))

\* The reports and the boards tell one story.
ReportsAgree == LeadsAgree /\ TasksAgree /\ DaysAgree /\ CardsAgree

\* A distribution of the unassigned takes no lead from a counsellor who had it when the
\* list was read.  (One who got it since loses it: the list is not read again.)
DealsFreeOnes ==
    (deal # Idle /\ deal' = Idle /\ deal.free) =>
        \A i \in Ids : row'[i].agent = row[i].agent \/ deal.owners[i] = Nobody
FreeOnesOnly == [][DealsFreeOnes]_vars

\* A process shows a lead on a board that it has left only if the answer was being computed
\* as the lead left, or for the time to live after an edit took it away, or a move that
\* another process served; after a move of its own it does not.
LeavesItsBoard ==
    \A k \in Servable : ~cache[k].overtaken =>
        \A s \in DOMAIN cache[k].cards : \A x \in cache[k].cards[s] :
            LET since == left[k[1]][x[2]] IN
            OnBoard(k[2].board, x[2]) \/ (since # Never /\ now <= since + TTL)

-----------------------------------------------------------------------------
(* What comments and docstrings say and the code does not do.              *)

\* "same semantics as /by-stage": a list and a board of the same filters.
BoardAgreesWithList ==
    \A v \in Asked, s \in BoardStages :
        v.board = "both" => Header(v, s) = Cardinality(Listed(v, s))

\* "mirror to won_time so existing reports/widgets keep working": in a brand whose winning
\* stage does not stamp it, the trends never show a win.
TrendsShowWins ==
    PipelineReport(Admin).stages[WonStage] <= SumOf([d \in DaysSoFar |-> Trends(Admin, d).won])
=============================================================================
