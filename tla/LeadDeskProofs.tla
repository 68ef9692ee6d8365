--------------------------- MODULE LeadDeskProofs ---------------------------
(***************************************************************************)
(* What LeadDesk promises, for any number of requests, days and tasks.     *)
(*                                                                         *)
(* The argument: every step of a request has the Shape below, whether      *)
(* its read still holds or not; the types and the four properties follow   *)
(* from the shape.                                                         *)
(***************************************************************************)
EXTENDS LeadDesk, WellFoundedInduction, TLAPS

\* The stages of the lead's brand.
Own == Stages \cap (IF brand = "fmc" THEN FmcStages ELSE AvStages)

\* TypeOK, but for the bounds of what nothing depends on.
Typed ==
    /\ brand \in Brands /\ today \in 1..Horizon
    /\ lead \in Leads /\ lead.stage \in Own
    /\ tasks \in Seq(Tasks) /\ Len(tasks) <= MaxTasks
    /\ log = NoRow \/ log \in [from : Stages, to : Stages]
    /\ calls \in Nat /\ req \in [Requests -> InFlight \cup {Idle}]
    /\ job \subseteq DOMAIN tasks /\ disturbed \in BOOLEAN /\ served \in 0..MaxRequests

\* What a request that is at some place carries.
LEMMA Carried ==
    ASSUME NEW q \in InFlight \cup {Idle}
    PROVE  /\ q.at \in {"read", "counted"} => q.seen \in Leads
           /\ q.at = "rest" => q.seen \in Leads /\ q.given \in SUBSET Dates
           /\ q.at = "due" => q.next \in Dates \cup {NoDate}
<1>1. CASE q \in [at : {"read", "counted"}, seen : Leads]
  BY <1>1
<1>2. CASE q \in [at : {"rest"}, seen : Leads, given : SUBSET Dates]
  BY <1>2
<1>3. CASE q \in [at : {"sync"}]
  BY <1>3
<1>4. CASE q \in [at : {"due"}, next : Dates \cup {NoDate}]
  BY <1>4
<1>5. CASE q = Idle
  BY <1>5 DEF Idle
<1> QED
  BY <1>1, <1>2, <1>3, <1>4, <1>5 DEF InFlight

\* Some numbers have a least one.
LEMMA LeastIsThere ==
    ASSUME NEW S \in SUBSET Nat, S # {}
    PROVE  Min(S) \in S
<1>1. PICK u \in S : \A v \in S : ~ (<<v, u>> \in OpToRel(<, Nat))
  BY NatLessThanWellFounded, WFMin
<1>2. \A v \in S : u <= v
  <2>1. SUFFICES ASSUME NEW v \in S, v < u PROVE FALSE
    OBVIOUS
  <2>2. <<v, u>> \in OpToRel(<, Nat)
    BY <2>1 DEF OpToRel
  <2> QED
    BY <1>1, <2>2
<1> QED
  BY <1>2 DEF Min

\* The earliest callback is a date.
LEMMA NextDueIsDate ==
    ASSUME NEW ts \in Seq(Tasks)
    PROVE  NextDue(ts) \in Dates \cup {NoDate}
<1>1. CASE ActiveCalls(ts) = {}
  BY <1>1 DEF NextDue
<1>2. CASE ActiveCalls(ts) # {}
  <2> DEFINE S == {ts[i].due : i \in ActiveCalls(ts)}
  <2>0. \A i \in ActiveCalls(ts) : ts[i].due \in Dates
    <3>1. SUFFICES ASSUME NEW i \in DOMAIN ts PROVE ts[i].due \in Dates
      BY DEF ActiveCalls
    <3>2. ts[i] \in Tasks
      OBVIOUS
    <3> QED
      BY <3>2 DEF Tasks
  <2>1. S \subseteq Dates /\ S # {}
    BY <1>2, <2>0
  <2> HIDE DEF S
  <2>2. S \subseteq Nat
    BY <2>1, ConstantsAssumption DEF Dates, ConstantsAssumption
  <2>3. Min(S) \in S
    BY <2>1, <2>2, LeastIsThere
  <2>4. NextDue(ts) = Min(S)
    BY <1>2 DEF NextDue, S
  <2> QED
    BY <2>1, <2>3, <2>4
<1> QED
  BY <1>1, <1>2

\* No task is lost, and none that is completed is made active.
Keeps(old, new) ==
    /\ new \in Seq(Tasks) /\ Len(old) <= Len(new) /\ Len(new) <= Len(old) + 1
    /\ \A i \in DOMAIN old : old[i].status = "completed" => new[i].status = "completed"

\* Closing callbacks leaves the stage, the attempts and the board, and keeps the tasks.
LEMMA AutoCompleted ==
    ASSUME NEW l \in Leads, NEW ts \in Seq(Tasks)
    PROVE  LET done == AutoComplete(l, ts)
           IN  /\ done.lead \in Leads
               /\ done.lead.stage = l.stage /\ done.lead.attempts = l.attempts
               /\ Keeps(ts, done.tasks) /\ Len(done.tasks) = Len(ts)
<1> DEFINE stale == {i \in DOMAIN ts : /\ ts[i].kind = "call" /\ ts[i].due <= today
                                       /\ ts[i].status \in {"pending", "overdue"}}
           left == [i \in DOMAIN ts |->
                       IF i \in stale THEN [ts[i] EXCEPT !.status = "completed"] ELSE ts[i]]
           dated == [l EXCEPT !.due = NextDue(left)]
<1>1. AutoComplete(l, ts) = [lead |-> IF stale = {} THEN l ELSE dated, tasks |-> left]
  BY DEF AutoComplete
<1>2. \A i \in DOMAIN ts :
         left[i] \in Tasks /\ (ts[i].status = "completed" => left[i].status = "completed")
  <2>1. TAKE i \in DOMAIN ts
  <2>2. ts[i] \in Tasks
    OBVIOUS
  <2> QED
    BY <2>2 DEF Tasks
<1>3. DOMAIN ts = 1..Len(ts) /\ Len(ts) \in Nat
  OBVIOUS
<1>4. left \in [1..Len(ts) -> Tasks]
  BY <1>2, <1>3
<1>5. left \in Seq(Tasks) /\ Len(left) = Len(ts)
  <2> HIDE DEF left
  <2> QED BY <1>3, <1>4
<1>6. dated \in Leads /\ dated.stage = l.stage /\ dated.attempts = l.attempts
  <2>1. NextDue(left) \in Dates \cup {NoDate}
    BY <1>5, NextDueIsDate
  <2> HIDE DEF left
  <2> QED
    BY <2>1 DEF Leads
<1> HIDE DEF left, dated, stale
<1> QED
  BY <1>1, <1>2, <1>5, <1>6 DEF Keeps

\* A task more.
LEMMA Appended ==
    ASSUME NEW ts \in Seq(Tasks), NEW t \in Tasks
    PROVE  Keeps(ts, Append(ts, t)) /\ Len(Append(ts, t)) = Len(ts) + 1
<1>1. /\ Append(ts, t) \in Seq(Tasks) /\ Len(Append(ts, t)) = Len(ts) + 1
      /\ \A i \in DOMAIN ts : Append(ts, t)[i] = ts[i]
  OBVIOUS
<1> QED
  BY <1>1 DEF Keeps

\* A task as the code puts it down is a task.
LEMMA TaskIsTask ==
    ASSUME NEW d \in Dates, NEW k \in {"call", "follow_up"}
    PROVE  Task(k, d) \in Tasks
BY DEF Task, Tasks

\* The tasks with the callback that was asked for.
LEMMA EnsuredKeeps ==
    ASSUME Typed, NEW d \in Dates, Room \/ Twins(d) # {}
    PROVE  Keeps(tasks, Ensured(d)) /\ Len(Ensured(d)) <= MaxTasks
<1>1. tasks \in Seq(Tasks) /\ Len(tasks) \in Nat /\ Len(tasks) <= MaxTasks /\ MaxTasks \in Nat
  BY ConstantsAssumption DEF Typed, ConstantsAssumption
<1>2. CASE Twins(d) = {}
  <2>1. Ensured(d) = Append(tasks, Task("call", d))
    BY <1>2 DEF Ensured
  <2> QED
    BY <1>1, <1>2, <2>1, TaskIsTask, Appended DEF Room
<1>3. CASE Twins(d) # {}
  BY <1>1, <1>3 DEF Ensured, Keeps
<1> QED
  BY <1>2, <1>3

\* What is kept twice is kept.
LEMMA KeepsOn ==
    ASSUME NEW a \in Seq(Tasks), NEW b, NEW c, Keeps(a, b), Keeps(b, c), Len(c) = Len(b)
    PROVE  Keeps(a, c)
<1>1. /\ b \in Seq(Tasks) /\ c \in Seq(Tasks)
      /\ DOMAIN a = 1..Len(a) /\ DOMAIN b = 1..Len(b)
      /\ Len(a) \in Nat /\ Len(b) \in Nat /\ Len(a) <= Len(b)
  BY DEF Keeps
<1>2. \A i \in DOMAIN a : i \in DOMAIN b
  BY <1>1
<1> QED
  BY <1>1, <1>2 DEF Keeps

\* The effect of a commit, whether what was read still holds or not.
LEMMA Committed ==
    ASSUME Typed, NEW r \in Requests, NEW STATE s, NEW STATE d, NEW STATE ts,
           s \in Own, d \in Dates \cup {NoDate}, ts \in Seq(Tasks), Commit(r, s, d, ts)
    PROVE  /\ lead' \in Leads /\ lead'.stage = s /\ lead'.attempts = lead.attempts
           /\ Keeps(ts, tasks') /\ Len(tasks') = Len(ts)
           /\ log' = [from |-> req[r].seen.stage, to |-> s]
           /\ disturbed' = (disturbed \/ req[r].seen # lead)
           /\ UNCHANGED <<brand, today, job, calls, served>>
<1> DEFINE row == [lead EXCEPT !.stage = s, !.due = Written(req[r].seen.due, d, lead.due)]
<1>1. row \in Leads /\ row.stage = s /\ row.attempts = lead.attempts
  BY DEF Typed, Leads, Own, Written
<1>2. /\ lead' = AutoComplete(row, ts).lead /\ tasks' = AutoComplete(row, ts).tasks
      /\ log' = [from |-> req[r].seen.stage, to |-> s]
      /\ disturbed' = (disturbed \/ req[r].seen # lead)
      /\ UNCHANGED <<brand, today, job, calls, served>>
  BY DEF Commit, Acted, Frame
<1> HIDE DEF row
<1> QED
  BY <1>1, <1>2, AutoCompleted

-----------------------------------------------------------------------------
(* The shape of a request's step.                                          *)

\* The stage and the history: left alone; moved by the table from what was read; or, in
\* a call of an Admitverse lead, the stage alone.
StageShape(r) ==
    \/ lead'.stage = lead.stage /\ log' = log
    \/ /\ req[r].at \in {"read", "counted"} /\ req'[r] # req[r]
       /\ log' = [from |-> req[r].seen.stage, to |-> lead'.stage]
       /\ lead'.stage \in Transitions(req[r].seen.stage)
    \/ /\ req[r].at = "read" /\ req'[r] # req[r] /\ brand # "fmc" /\ log' = log
       /\ req[r].seen = lead => lead'.stage = lead.stage \/ lead'.stage \in Transitions(lead.stage)

\* The calls: none, and the attempts do not fall; or one more, below the cap, of which
\* the attempts are told if what was read still holds.
CallShape(r) ==
    \/ calls' = calls /\ lead.attempts <= lead'.attempts
    \/ /\ calls' = calls + 1
       /\ disturbed' \/ (lead.attempts < MaxAttempts /\ lead'.attempts = lead.attempts + 1)

Shape(r) ==
    /\ UNCHANGED <<brand, today, job>>
    /\ lead' \in Leads /\ lead'.stage \in Own
    /\ Keeps(tasks, tasks') /\ Len(tasks') <= MaxTasks
    /\ req' = [req EXCEPT ![r] = req'[r]] /\ req'[r] \in InFlight \cup {Idle}
    /\ disturbed' \in BOOLEAN /\ (disturbed => disturbed') /\ served' \in 0..MaxRequests
    /\ StageShape(r) /\ CallShape(r)

\* A stage that may follow is one of the brand's.
LEMMA TransitionsOwn ==
    ASSUME NEW u, NEW s \in Transitions(u)
    PROVE  s \in Own
BY ConstantsAssumption DEF Transitions, Pipeline, Own, ConstantsAssumption, FmcStages, AvStages

\* Somewhere a request can be.
LEMMA Places ==
    /\ Idle \in InFlight \cup {Idle}
    /\ \A l \in Leads : [at |-> "read", seen |-> l] \in InFlight
    /\ \A l \in Leads : [at |-> "counted", seen |-> l] \in InFlight
    /\ \A l \in Leads, g \in SUBSET Dates : [at |-> "rest", seen |-> l, given |-> g] \in InFlight
    /\ [at |-> "sync"] \in InFlight
    /\ \A d \in Dates \cup {NoDate} : [at |-> "due", next |-> d] \in InFlight
BY DEF InFlight

\* Going somewhere.
LEMMA Gone ==
    ASSUME Typed, NEW r \in Requests, NEW STATE x, Goes(r, x), x \in InFlight \cup {Idle}
    PROVE  /\ req' = [req EXCEPT ![r] = req'[r]] /\ req'[r] = x
           /\ req'[r] \in InFlight \cup {Idle}
BY DEF Typed, Goes

\* A commit that moves the lead by the table has the shape.
LEMMA CommitShape ==
    ASSUME Typed, NEW r \in Requests, NEW STATE s, NEW STATE d, NEW STATE ts,
           req[r].at \in {"read", "counted"},
           s \in Transitions(req[r].seen.stage), d \in Dates \cup {NoDate},
           Keeps(tasks, ts), Len(ts) <= MaxTasks, Commit(r, s, d, ts),
           req' = [req EXCEPT ![r] = req'[r]], req'[r] \in InFlight \cup {Idle},
           req'[r].at \in {"idle", "rest"}
    PROVE  Shape(r) /\ lead' \in Leads
<1>1. s \in Own /\ ts \in Seq(Tasks) /\ tasks \in Seq(Tasks)
  BY TransitionsOwn DEF Keeps, Typed
<1>2. /\ lead' \in Leads /\ lead'.stage = s /\ lead'.attempts = lead.attempts
      /\ Keeps(ts, tasks') /\ Len(tasks') = Len(ts)
      /\ log' = [from |-> req[r].seen.stage, to |-> s]
      /\ disturbed' = (disturbed \/ req[r].seen # lead)
      /\ UNCHANGED <<brand, today, job, calls, served>>
  BY <1>1, Committed
<1>3. Keeps(tasks, tasks') /\ Len(tasks') <= MaxTasks
  BY <1>1, <1>2, KeepsOn
<1>4. StageShape(r)
  BY <1>2 DEF StageShape
<1>5. CallShape(r)
  BY <1>2 DEF CallShape, Typed, Leads
<1>6. disturbed' \in BOOLEAN /\ (disturbed => disturbed')
  BY <1>2 DEF Typed
<1>7. served' \in 0..MaxRequests
  BY <1>2 DEF Typed
<1> QED
  BY <1>1, <1>2, <1>3, <1>4, <1>5, <1>6, <1>7 DEF Shape

\* StageMachine.transition, wherever the request goes from it.
LEMMA MoveShape ==
    ASSUME Typed, NEW r \in Requests, NEW s \in Stages, NEW d \in Dates \cup {NoDate},
           Move(r, s, d),
           req' = [req EXCEPT ![r] = req'[r]], req'[r].at \in {"idle", "rest"},
           lead' \in Leads => req'[r] \in InFlight \cup {Idle}
    PROVE  Shape(r)
<1> DEFINE open == s \notin Terminal
           e == IF open THEN d ELSE NoDate
           ts == IF open THEN Ensured(d) ELSE tasks
<1>1. /\ req[r].at = "read" /\ s \in Transitions(req[r].seen.stage)
      /\ open => d # NoDate /\ (Room \/ Twins(d) # {})
      /\ Commit(r, s, e, ts)
  BY DEF Move
<1>2. e \in Dates \cup {NoDate}
  OBVIOUS
<1>3. Keeps(tasks, ts) /\ Len(ts) <= MaxTasks
  <2>1. CASE open
    BY <1>1, <2>1, EnsuredKeeps
  <2>2. CASE ~open
    BY <2>2 DEF Keeps, Typed
  <2> QED
    BY <2>1, <2>2
<1>4. s \in Own /\ ts \in Seq(Tasks)
  BY <1>1, <1>3, TransitionsOwn DEF Keeps
<1> HIDE DEF e, ts
<1>5. lead' \in Leads
  BY <1>1, <1>2, <1>4, Committed
<1> QED
  BY <1>1, <1>2, <1>3, <1>5, CommitShape

\* POST /leads/{id}/stage.
LEMMA MoveStageShape ==
    ASSUME Typed, NEW r \in Requests, MoveStage(r)
    PROVE  Shape(r)
<1>1. PICK s \in Stages, d \in Dates \cup {NoDate} : Move(r, s, d) /\ Goes(r, Idle)
  BY DEF MoveStage
<1>2. /\ req' = [req EXCEPT ![r] = req'[r]] /\ req'[r] = Idle
      /\ req'[r] \in InFlight \cup {Idle}
  BY <1>1, Gone
<1>3. req'[r].at \in {"idle", "rest"}
  BY <1>2 DEF Idle
<1> QED
  BY <1>1, <1>2, <1>3, MoveShape

\* The move of an edit.
LEMMA EditStageShape ==
    ASSUME Typed, NEW r \in Requests, EditStage(r)
    PROVE  Shape(r)
<1>1. PICK s \in Stages, given \in {{}} \cup {{d} : d \in Dates} :
          /\ Move(r, s, IF given = {} THEN NoDate ELSE Min(given))
          /\ Goes(r, [at |-> "rest", seen |-> lead', given |-> given])
  BY DEF EditStage
<1>2. (IF given = {} THEN NoDate ELSE Min(given)) \in Dates \cup {NoDate}
  <2>1. CASE given = {}
    BY <2>1
  <2>2. CASE given # {}
    <3>1. given \subseteq Dates /\ given \subseteq Nat
      BY ConstantsAssumption DEF Dates, ConstantsAssumption
    <3>2. Min(given) \in given
      BY <2>2, <3>1, LeastIsThere
    <3> QED
      BY <2>2, <3>1, <3>2
  <2> QED
    BY <2>1, <2>2
<1>3. /\ req' = [req EXCEPT ![r] = req'[r]]
      /\ req'[r] = [at |-> "rest", seen |-> lead', given |-> given]
  BY <1>1 DEF Goes, Typed
<1>4. req'[r].at = "rest"
  BY <1>3
<1>5. lead' \in Leads => req'[r] \in InFlight \cup {Idle}
  BY <1>3, Places
<1> QED
  BY <1>1, <1>2, <1>3, <1>4, <1>5, MoveShape

\* The rest of an edit.
LEMMA EditRestShape ==
    ASSUME Typed, NEW r \in Requests, EditRest(r)
    PROVE  Shape(r)
<1> DEFINE q == req[r]
<1>1. /\ q \in InFlight \cup {Idle} /\ q.at \in {"read", "rest"} /\ q.seen \in Leads
      /\ q.at = "rest" => q.given \in SUBSET Dates
  BY Carried DEF EditRest, Typed
<1>2. PICK given \in IF q.at = "rest" THEN {q.given}
                     ELSE {{}} \cup {{d} : d \in Dates \cup {NoDate}} :
          LET d == IF given = {} THEN q.seen.due ELSE CHOOSE x \in given : TRUE
              queue == d # NoDate /\ d # q.seen.due
              over == q.seen.board = "ai" /\ q.seen.stage \notin AiStages
          IN  /\ (queue => Ensurable(d) /\ (Room \/ Twins(d) # {}))
              /\ lead' = [lead EXCEPT !.due = Written(q.seen.due, d, @),
                                      !.board = IF over THEN "normal" ELSE @]
              /\ tasks' = IF queue THEN Ensured(d) ELSE tasks
  BY DEF EditRest
<1> DEFINE d == IF given = {} THEN q.seen.due ELSE CHOOSE x \in given : TRUE
           queue == d # NoDate /\ d # q.seen.due
<1>3. d \in Dates \cup {NoDate}
  <2>1. given \subseteq Dates \cup {NoDate}
    BY <1>1, <1>2
  <2>2. q.seen.due \in Dates \cup {NoDate}
    BY <1>1 DEF Leads
  <2> QED
    BY <2>1, <2>2
<1>4. /\ queue => Room \/ Twins(d) # {}
      /\ tasks' = IF queue THEN Ensured(d) ELSE tasks
      /\ \E e \in Dates \cup {NoDate}, b \in {"ai", "normal"} :
             lead' = [lead EXCEPT !.due = e, !.board = b]
  <2>1. Written(q.seen.due, d, lead.due) \in Dates \cup {NoDate}
    BY <1>3 DEF Written, Typed, Leads
  <2>2. lead.board \in {"ai", "normal"}
    BY DEF Typed, Leads
  <2> QED
    BY <1>2, <2>1, <2>2
<1> HIDE DEF d
<1>5. Keeps(tasks, tasks') /\ Len(tasks') <= MaxTasks
  <2>1. CASE queue
    BY <1>3, <1>4, <2>1, EnsuredKeeps
  <2>2. CASE ~queue
    BY <1>4, <2>2 DEF Keeps, Typed
  <2> QED
    BY <2>1, <2>2
<1>6. /\ lead' \in Leads /\ lead'.stage = lead.stage /\ lead'.attempts = lead.attempts
  BY <1>4 DEF Typed, Leads
<1>7. /\ Goes(r, Idle) /\ disturbed' = (disturbed \/ q.seen # lead)
      /\ UNCHANGED <<brand, today, job, log, calls, served>>
  BY DEF EditRest, Acted, Frame
<1>8. req' = [req EXCEPT ![r] = req'[r]] /\ req'[r] \in InFlight \cup {Idle}
  BY <1>7, Gone
<1>9. StageShape(r) /\ CallShape(r)
  BY <1>6, <1>7 DEF StageShape, CallShape, Typed, Leads
<1>10. lead'.stage \in Own
  BY <1>6 DEF Typed
<1>11. disturbed' \in BOOLEAN /\ (disturbed => disturbed') /\ served' \in 0..MaxRequests
  BY <1>7 DEF Typed
<1> QED
  BY <1>5, <1>6, <1>7, <1>8, <1>9, <1>10, <1>11 DEF Shape

\* Steps that leave the stage, the tasks and the calls alone.
LEMMA QuietShape ==
    ASSUME Typed, NEW r \in Requests,
           UNCHANGED <<brand, today, job, tasks, log, calls>>,
           lead' \in Leads, lead'.stage = lead.stage, lead.attempts <= lead'.attempts,
           req' = [req EXCEPT ![r] = req'[r]], req'[r] \in InFlight \cup {Idle},
           disturbed' \in BOOLEAN, disturbed => disturbed', served' \in 0..MaxRequests
    PROVE  Shape(r)
<1>1. Keeps(tasks, tasks') /\ Len(tasks') <= MaxTasks
  BY DEF Keeps, Typed
<1>2. lead'.stage \in Own
  BY DEF Typed
<1> QED
  BY <1>1, <1>2 DEF Shape, StageShape, CallShape

\* A lead that is read, a refusal, a change of board, a count.
LEMMA OtherShape ==
    ASSUME Typed, NEW r \in Requests,
           ReadLead(r) \/ Refuse(r) \/ MoveBoard(r) \/ CountVoice(r)
    PROVE  Shape(r)
<1>0. /\ lead \in Leads /\ lead.attempts \in Nat /\ disturbed \in BOOLEAN
      /\ served \in 0..MaxRequests /\ MaxRequests \in Nat
      /\ req[r] \in InFlight \cup {Idle}
  BY ConstantsAssumption DEF Typed, Leads, ConstantsAssumption
<1>1. CASE ReadLead(r)
  <2>1. /\ req' = [req EXCEPT ![r] = req'[r]] /\ req'[r] \in InFlight \cup {Idle}
    BY <1>0, <1>1, Gone, Places DEF ReadLead
  <2>2. served' \in 0..MaxRequests
    BY <1>0, <1>1 DEF ReadLead
  <2> QED
    BY <1>0, <1>1, <2>1, <2>2, QuietShape DEF ReadLead, Frame
<1>2. CASE Refuse(r)
  <2>1. /\ req' = [req EXCEPT ![r] = req'[r]] /\ req'[r] \in InFlight \cup {Idle}
    BY <1>2, Gone DEF Refuse
  <2> QED
    BY <1>0, <1>2, <2>1, QuietShape DEF Refuse, Frame
<1>3. CASE MoveBoard(r)
  <2>1. /\ req' = [req EXCEPT ![r] = req'[r]] /\ req'[r] \in InFlight \cup {Idle}
    BY <1>3, Gone DEF MoveBoard
  <2>2. \E b \in {"ai", "normal"} : lead' = [lead EXCEPT !.board = b]
    BY <1>3 DEF MoveBoard
  <2>3. lead' \in Leads /\ lead'.stage = lead.stage /\ lead'.attempts = lead.attempts
    BY <1>0, <2>2 DEF Leads
  <2>4. disturbed' \in BOOLEAN /\ (disturbed => disturbed')
    BY <1>0, <1>3 DEF MoveBoard, Acted
  <2> QED
    BY <1>0, <1>3, <2>1, <2>3, <2>4, QuietShape DEF MoveBoard, Frame
<1>4. CASE CountVoice(r)
  <2>1. req[r].seen \in Leads
    BY <1>0, <1>4, Carried DEF CountVoice
  <2>2. [req[r].seen EXCEPT !.attempts = lead.attempts + 1] \in Leads
    BY <1>0, <2>1 DEF Leads
  <2>3. /\ req' = [req EXCEPT ![r] = req'[r]] /\ req'[r] \in InFlight \cup {Idle}
    <3> DEFINE x == [at |-> "counted",
                     seen |-> [req[r].seen EXCEPT !.attempts = lead.attempts + 1]]
    <3>1. x \in InFlight \cup {Idle} /\ Goes(r, x)
      BY <1>4, <2>2, Places DEF CountVoice
    <3> HIDE DEF x
    <3> QED
      BY <3>1, Gone
  <2>4. lead' = [lead EXCEPT !.attempts = lead.attempts + 1]
    BY <1>4 DEF CountVoice
  <2>5. lead' \in Leads /\ lead'.stage = lead.stage /\ lead.attempts <= lead'.attempts
    BY <1>0, <2>4 DEF Leads
  <2> QED
    BY <1>0, <1>4, <2>3, <2>5, QuietShape DEF CountVoice, Frame
<1> QED
  BY <1>1, <1>2, <1>3, <1>4

\* auto_update_lead_status.
LEMMA PostCallShape ==
    ASSUME Typed, NEW r \in Requests, PostCall(r)
    PROVE  Shape(r)
<1>1. PICK s \in (Promotion(req[r].seen.stage) \cup {"lost"}) \cap Transitions(req[r].seen.stage) :
          /\ Commit(r, s, IF s = "lost" THEN NoDate ELSE req[r].seen.due, tasks)
          /\ Goes(r, Idle)
  BY DEF PostCall
<1>2. req[r].at = "read" /\ req[r].seen \in Leads
  BY Carried DEF PostCall, Typed
<1>3. (IF s = "lost" THEN NoDate ELSE req[r].seen.due) \in Dates \cup {NoDate}
  BY <1>2 DEF Leads
<1>4. /\ req' = [req EXCEPT ![r] = req'[r]] /\ req'[r] = Idle
      /\ req'[r] \in InFlight \cup {Idle}
  BY <1>1, Gone
<1>5. Keeps(tasks, tasks) /\ Len(tasks) <= MaxTasks
  BY DEF Keeps, Typed
<1>6. req'[r].at \in {"idle", "rest"}
  BY <1>4 DEF Idle
<1> QED
  BY <1>1, <1>2, <1>3, <1>4, <1>5, <1>6, CommitShape

\* The targets after a call are moves of the table.
LEMMA AdvanceByTable ==
    ASSUME NEW r, NEW s \in Stages \ {req[r].seen.stage}, req[r].seen.stage \in Advancing,
           s \in Unanswered(req[r].seen) \cup Answered
    PROVE  s \in Transitions(req[r].seen.stage)
<1>1. CASE brand = "fmc"
  BY <1>1 DEF Advancing, Unanswered, Answered, NoAnswer, Transitions, Terminal, Pipeline, FmcStages
<1>2. CASE brand # "fmc"
  BY <1>2 DEF Advancing, Unanswered, Answered, NoAnswer, Transitions, Terminal, Pipeline, AvStages
<1> QED
  BY <1>1, <1>2

\* _auto_update_lead_stage.
LEMMA AdvanceShape ==
    ASSUME Typed, NEW r \in Requests, Advance(r)
    PROVE  Shape(r)
<1> DEFINE seen == req[r].seen
           targets == IF req[r].at = "read" THEN Unanswered(seen)
                      ELSE Unanswered(seen) \cup Answered
           d(s) == IF s \in Warm THEN today + 1 ELSE seen.due
           ts(s) == IF s \in Warm THEN Append(tasks, Task("follow_up", today + 1)) ELSE tasks
<1>1. PICK s \in (targets \cap Stages) \ {seen.stage} :
          /\ s \in Warm => Room /\ today < Horizon
          /\ Commit(r, s, d(s), ts(s)) /\ Goes(r, Idle)
  BY DEF Advance
<1>2. req[r].at \in {"read", "counted"} /\ seen \in Leads /\ seen.stage \in Advancing
  BY Carried DEF Advance, Typed
<1>3. s \in Transitions(seen.stage)
  BY <1>1, <1>2, AdvanceByTable
<1>4. s \in Warm => today + 1 \in Dates
  BY <1>1, ConstantsAssumption DEF Typed, Dates, ConstantsAssumption
<1>5. d(s) \in Dates \cup {NoDate}
  BY <1>2, <1>4 DEF Leads
<1>6. Keeps(tasks, ts(s)) /\ Len(ts(s)) <= MaxTasks
  <2>1. CASE s \in Warm
    <3>1. Task("follow_up", today + 1) \in Tasks
      BY <1>4, <2>1, TaskIsTask
    <3>2. tasks \in Seq(Tasks) /\ Len(tasks) < MaxTasks /\ MaxTasks \in Nat
      BY <1>1, <2>1, ConstantsAssumption DEF Typed, Room, ConstantsAssumption
    <3> QED
      BY <2>1, <3>1, <3>2, Appended
  <2>2. CASE s \notin Warm
    BY <2>2 DEF Keeps, Typed
  <2> QED
    BY <2>1, <2>2
<1>7. /\ req' = [req EXCEPT ![r] = req'[r]] /\ req'[r] = Idle
      /\ req'[r] \in InFlight \cup {Idle}
  BY <1>1, Gone
<1>8. req'[r].at \in {"idle", "rest"}
  BY <1>7 DEF Idle
<1> HIDE DEF d, ts, targets
<1> QED
  BY <1>1, <1>2, <1>3, <1>5, <1>6, <1>7, <1>8, CommitShape

\* log_call.
LEMMA LogCallShape ==
    ASSUME Typed, NEW r \in Requests, LogCall(r)
    PROVE  Shape(r)
<1> DEFINE seen == req[r].seen
           n == seen.attempts + 1
           met == IF seen.stage = "created" THEN "contacted" ELSE seen.stage
           s(disp) == IF disp = "dnp" /\ n # 5 /\ n >= MaxAttempts THEN "lost"
                      ELSE IF disp = "connected" THEN "connected" ELSE met
           given(disp, d) == IF disp = "dnp" /\ s(disp) = "lost" THEN NoDate ELSE d
           row(disp, d) == [lead EXCEPT !.stage = Written(seen.stage, s(disp), lead.stage),
                                        !.attempts = n,
                                        !.due = Written(seen.due, given(disp, d), lead.due)]
           done(disp, d) == IF s(disp) = seen.stage
                            THEN [lead |-> row(disp, d), tasks |-> tasks]
                            ELSE AutoComplete(row(disp, d), tasks)
<1>1. PICK disp \in Dispositions, d \in Dates : Called(r, disp, d, n, n)
  BY DEF LogCall
<1>2. /\ lead' = done(disp, d).lead
      /\ tasks' = IF disp = "wrong_number" \/ s(disp) = "lost" THEN done(disp, d).tasks
                  ELSE Append(done(disp, d).tasks, Task("call", d))
      /\ disturbed' = (disturbed \/ seen # lead)
  BY <1>1 DEF Called, Acted
<1>3. /\ req[r].at = "read" /\ brand = "admitverse" /\ seen \in Leads
      /\ seen.stage \notin Terminal /\ seen.attempts < MaxAttempts /\ Room
      /\ calls' = calls + 1 /\ Goes(r, Idle)
      /\ UNCHANGED <<brand, today, job, log, served>>
  BY Carried DEF LogCall, Typed, Frame
<1>4. /\ lead \in Leads /\ lead.stage \in Own /\ tasks \in Seq(Tasks) /\ Len(tasks) \in Nat
      /\ Len(tasks) < MaxTasks /\ MaxTasks \in Nat /\ MaxAttempts \in Nat
      /\ seen.attempts \in Nat /\ n \in Nat
  BY <1>3, ConstantsAssumption DEF Typed, Room, Leads, ConstantsAssumption
<1>5. /\ {"contacted", "connected", "lost"} \subseteq Own
      /\ \A u \in {"contacted", "connected", "lost"} :
             u # seen.stage => u \in Transitions(seen.stage)
  BY <1>3, ConstantsAssumption
     DEF Own, Transitions, Pipeline, AvStages, ConstantsAssumption
<1>6. s(disp) = seen.stage \/ s(disp) \in {"contacted", "connected", "lost"}
  OBVIOUS
<1> DEFINE stage == Written(seen.stage, s(disp), lead.stage)
<1>7. /\ stage \in Own /\ stage \in Stages
      /\ seen = lead => stage = lead.stage \/ stage \in Transitions(lead.stage)
  BY <1>4, <1>5, <1>6 DEF Written, Own
<1>8. Written(seen.due, given(disp, d), lead.due) \in Dates \cup {NoDate}
  BY <1>4 DEF Written, Leads
<1>9. /\ row(disp, d) \in Leads /\ row(disp, d).stage = stage
      /\ row(disp, d).attempts = n
  <2> HIDE DEF given, s, n
  <2> QED
    BY <1>4, <1>7, <1>8 DEF Leads
<1> HIDE DEF row, stage
<1>10. /\ done(disp, d).lead \in Leads /\ done(disp, d).lead.stage = stage
       /\ done(disp, d).lead.attempts = n
       /\ Keeps(tasks, done(disp, d).tasks) /\ Len(done(disp, d).tasks) = Len(tasks)
  <2>1. CASE s(disp) = seen.stage
    BY <1>4, <1>9, <2>1 DEF Keeps
  <2>2. CASE s(disp) # seen.stage
    BY <1>4, <1>9, <2>2, AutoCompleted
  <2> QED
    BY <2>1, <2>2
<1> HIDE DEF done
<1>11. Keeps(tasks, tasks') /\ Len(tasks') <= MaxTasks
  <2>0. Task("call", d) \in Tasks
    BY TaskIsTask
  <2>1. CASE tasks' = done(disp, d).tasks
    BY <1>4, <1>10, <2>1
  <2>2. CASE tasks' = Append(done(disp, d).tasks, Task("call", d))
    <3> DEFINE ts == done(disp, d).tasks
    <3>1. ts \in Seq(Tasks) /\ DOMAIN ts = DOMAIN tasks
      BY <1>4, <1>10 DEF Keeps
    <3> HIDE DEF ts
    <3>2. Keeps(ts, Append(ts, Task("call", d))) /\ Len(Append(ts, Task("call", d))) = Len(ts) + 1
      BY <2>0, <3>1, Appended
    <3>3. \A i \in DOMAIN tasks : tasks[i].status = "completed" => tasks'[i].status = "completed"
      BY <1>10, <2>2, <3>1, <3>2 DEF Keeps, ts
    <3> QED
      BY <1>4, <1>10, <2>2, <3>2, <3>3 DEF Keeps, ts
  <2> QED
    BY <1>2, <2>1, <2>2
<1>12. /\ req' = [req EXCEPT ![r] = req'[r]] /\ req'[r] = Idle
       /\ req'[r] \in InFlight \cup {Idle}
  BY <1>3, Gone
<1>13. req'[r] # req[r]
  BY <1>3, <1>12 DEF Idle
<1>14. StageShape(r)
  BY <1>2, <1>3, <1>7, <1>10, <1>13 DEF StageShape
<1>15. CallShape(r)
  <2>1. disturbed' \/ seen = lead
    BY <1>2
  <2>2. lead'.attempts = n
    BY <1>2, <1>10
  <2> QED
    BY <1>3, <2>1, <2>2 DEF CallShape
<1>16. disturbed' \in BOOLEAN /\ (disturbed => disturbed')
  BY <1>2 DEF Typed
<1>17. lead' \in Leads /\ lead'.stage \in Own /\ served' \in 0..MaxRequests
  BY <1>2, <1>3, <1>7, <1>10 DEF Typed
<1> QED
  BY <1>3, <1>11, <1>12, <1>14, <1>15, <1>16, <1>17 DEF Shape

\* Every step of a request on the lead.
LEMMA LeadStepShape ==
    ASSUME Typed, NEW r \in Requests, LeadStep(r)
    PROVE  Shape(r)
BY MoveStageShape, EditStageShape, EditRestShape, OtherShape, LogCallShape, PostCallShape,
   AdvanceShape DEF LeadStep

-----------------------------------------------------------------------------
(* The task screens, the job, the clock.                                   *)

\* A step that is none of a request on the lead leaves its stage, its attempts and its
\* calls, and forgets no disturbance.
AsideShape ==
    /\ UNCHANGED <<brand, log, calls>>
    /\ lead'.stage = lead.stage /\ lead'.attempts = lead.attempts
    /\ disturbed => disturbed'

\* A completed task is opened by a person, or by the job that had read it.
DoneShape ==
    \A i \in DOMAIN tasks :
        (tasks[i].status = "completed" /\ tasks'[i].status # "completed") =>
            \/ \E r \in Requests : req[r] = Idle /\ req'[r].at = "sync"
            \/ i \in job /\ job' = {}

\* A task that changes.
LEMMA RetaskShape ==
    ASSUME Typed, NEW r \in Requests, NEW i \in DOMAIN tasks, NEW STATE t, t \in Tasks,
           Retask(r, i, t)
    PROVE  Typed' /\ AsideShape /\ DoneShape /\ job' = job
<1>1. /\ req[r] = Idle /\ served < MaxRequests /\ served' = served + 1
      /\ tasks' = [tasks EXCEPT ![i] = t]
      /\ UNCHANGED <<brand, today, job, lead, log, calls, disturbed>>
      /\ Goes(r, [at |-> "sync"])
  BY DEF Retask, Frame
<1>2. /\ tasks \in Seq(Tasks) /\ served \in 0..MaxRequests /\ MaxRequests \in Nat
      /\ Len(tasks) <= MaxTasks
  BY ConstantsAssumption DEF Typed, ConstantsAssumption
<1>3. tasks' \in Seq(Tasks) /\ Len(tasks') = Len(tasks) /\ DOMAIN tasks' = DOMAIN tasks
  BY <1>1, <1>2
<1>4. req' = [req EXCEPT ![r] = [at |-> "sync"]] /\ [at |-> "sync"] \in InFlight
  BY <1>1, Places DEF Goes
<1>5. req' \in [Requests -> InFlight \cup {Idle}] /\ req'[r].at = "sync"
  BY <1>4 DEF Typed
<1>6. served' \in 0..MaxRequests
  BY <1>1, <1>2
<1>7. Typed'
  BY <1>1, <1>2, <1>3, <1>5, <1>6 DEF Typed, Own
<1>8. AsideShape
  BY <1>1 DEF AsideShape
<1>9. DoneShape
  BY <1>1, <1>5 DEF DoneShape
<1> QED
  BY <1>1, <1>7, <1>8, <1>9

\* The task screens.
LEMMA TaskStepShape ==
    ASSUME Typed, NEW r \in Requests, TaskStep(r)
    PROVE  Typed' /\ AsideShape /\ DoneShape /\ job' = job
<1>0. /\ \A i \in DOMAIN tasks : tasks[i] \in Tasks
      /\ lead \in Leads /\ tasks \in Seq(Tasks) /\ req[r] \in InFlight \cup {Idle}
  BY DEF Typed
<1>1. CASE CompleteTask(r)
  <2>1. PICK i \in DOMAIN tasks : Retask(r, i, [tasks[i] EXCEPT !.status = "completed"])
    BY <1>1 DEF CompleteTask
  <2>2. [tasks[i] EXCEPT !.status = "completed"] \in Tasks
    BY <1>0 DEF Tasks
  <2> QED
    BY <2>1, <2>2, RetaskShape
<1>2. CASE UpdateTask(r)
  <2>1. PICK i \in DOMAIN tasks :
           LET t == [tasks[i] EXCEPT !.person = TRUE]
           IN  \/ \E s \in {"pending", "in_progress"} : Retask(r, i, [t EXCEPT !.status = s])
               \/ \E d \in Dates : Retask(r, i, [t EXCEPT !.due = d])
               \/ \E k \in {"call", "follow_up"} : Retask(r, i, [t EXCEPT !.kind = k])
    BY <1>2 DEF UpdateTask
  <2> DEFINE t == [tasks[i] EXCEPT !.person = TRUE]
  <2>2. t \in Tasks
    BY <1>0 DEF Tasks
  <2> HIDE DEF t
  <2>3. /\ \A s \in {"pending", "in_progress"} : [t EXCEPT !.status = s] \in Tasks
        /\ \A d \in Dates : [t EXCEPT !.due = d] \in Tasks
        /\ \A k \in {"call", "follow_up"} : [t EXCEPT !.kind = k] \in Tasks
    BY <2>2 DEF Tasks
  <2>4. \/ \E s \in {"pending", "in_progress"} : Retask(r, i, [t EXCEPT !.status = s])
        \/ \E d \in Dates : Retask(r, i, [t EXCEPT !.due = d])
        \/ \E k \in {"call", "follow_up"} : Retask(r, i, [t EXCEPT !.kind = k])
    BY <2>1 DEF t
  <2>5. CASE \E s \in {"pending", "in_progress"} : Retask(r, i, [t EXCEPT !.status = s])
    BY <2>3, <2>5, RetaskShape
  <2>6. CASE \E d \in Dates : Retask(r, i, [t EXCEPT !.due = d])
    BY <2>3, <2>6, RetaskShape
  <2>7. CASE \E k \in {"call", "follow_up"} : Retask(r, i, [t EXCEPT !.kind = k])
    BY <2>3, <2>7, RetaskShape
  <2> QED
    BY <2>4, <2>5, <2>6, <2>7
<1>3. CASE SyncRead(r)
  <2>1. [at |-> "due", next |-> NextDue(tasks)] \in InFlight
    BY <1>0, NextDueIsDate, Places
  <2>2. req' \in [Requests -> InFlight \cup {Idle}]
    BY <1>3, <2>1 DEF SyncRead, Goes, Typed
  <2>3. UNCHANGED <<brand, today, job, lead, tasks, log, calls, disturbed, served>>
    BY <1>3 DEF SyncRead, Frame
  <2> QED
    BY <2>2, <2>3 DEF Typed, Own, AsideShape, DoneShape
<1>4. CASE SyncWrite(r)
  <2>1. req[r].next \in Dates \cup {NoDate}
    BY <1>0, <1>4, Carried DEF SyncWrite
  <2>2. lead' \in Leads /\ lead'.stage = lead.stage /\ lead'.attempts = lead.attempts
    BY <1>0, <1>4, <2>1 DEF SyncWrite, Leads
  <2>3. req' \in [Requests -> InFlight \cup {Idle}]
    BY <1>4, Places DEF SyncWrite, Goes, Typed
  <2>4. /\ UNCHANGED <<brand, today, job, tasks, log, calls, served>>
        /\ disturbed' \in BOOLEAN /\ (disturbed => disturbed')
    BY <1>4 DEF SyncWrite, Frame, Typed
  <2> QED
    BY <2>2, <2>3, <2>4 DEF Typed, Own, AsideShape, DoneShape
<1>5. CASE Die(r)
  <2>1. req' \in [Requests -> InFlight \cup {Idle}]
    BY <1>5, Places DEF Die, Goes, Typed
  <2>2. UNCHANGED <<brand, today, job, lead, tasks, log, calls, served>> /\ disturbed' = TRUE
    BY <1>5 DEF Die, Frame
  <2> QED
    BY <2>1, <2>2 DEF Typed, Own, AsideShape, DoneShape
<1> QED
  BY <1>1, <1>2, <1>3, <1>4, <1>5 DEF TaskStep

\* A task put down, the job, the clock.
LEMMA RestShape ==
    ASSUME Typed, CreateTask \/ JobRead \/ JobWrite \/ Tick
    PROVE  /\ Typed' /\ AsideShape /\ DoneShape
           /\ \A i \in job' \ job : tasks[i].status # "completed"
<1>0. /\ \A i \in DOMAIN tasks : tasks[i] \in Tasks
      /\ tasks \in Seq(Tasks) /\ Len(tasks) <= MaxTasks /\ Len(tasks) \in Nat
      /\ job \subseteq DOMAIN tasks /\ DOMAIN tasks = 1..Len(tasks)
      /\ served \in 0..MaxRequests /\ MaxRequests \in Nat /\ MaxTasks \in Nat
      /\ today \in 1..Horizon /\ Horizon \in Nat
  BY ConstantsAssumption DEF Typed, ConstantsAssumption
<1>1. CASE CreateTask
  <2>1. PICK d \in Dates, k \in {"call", "follow_up"} :
            tasks' = Append(tasks, [Task(k, d) EXCEPT !.person = TRUE])
    BY <1>1 DEF CreateTask
  <2>2. [Task(k, d) EXCEPT !.person = TRUE] \in Tasks
    BY TaskIsTask, ZenonT(60) DEF Tasks
  <2>3. Keeps(tasks, tasks') /\ Len(tasks') = Len(tasks) + 1
    BY <1>0, <2>1, <2>2, Appended
  <2>4. /\ UNCHANGED <<brand, today, job, lead, log, calls, req, disturbed>>
        /\ served' = served + 1 /\ served < MaxRequests /\ Len(tasks) < MaxTasks
    BY <1>1 DEF CreateTask, Frame, Room
  <2>5. /\ tasks' \in Seq(Tasks) /\ Len(tasks') <= MaxTasks /\ job \subseteq DOMAIN tasks'
        /\ served' \in 0..MaxRequests
    BY <1>0, <2>3, <2>4 DEF Keeps
  <2>6. Typed' /\ AsideShape
    BY <2>4, <2>5 DEF Typed, Own, AsideShape
  <2>7. DoneShape
    BY <2>3 DEF Keeps, DoneShape
  <2> QED
    BY <2>4, <2>6, <2>7
<1>2. CASE JobRead
  <2>1. UNCHANGED <<brand, today, tasks, lead, log, calls, req, disturbed, served>>
    BY <1>2 DEF JobRead
  <2>2. /\ job' \subseteq DOMAIN tasks
        /\ \A i \in job' : tasks[i].status \in {"pending", "in_progress"}
    BY <1>2 DEF JobRead
  <2> QED
    BY <2>1, <2>2 DEF Typed, Own, AsideShape, DoneShape
<1>3. CASE JobWrite
  <2>1. /\ UNCHANGED <<brand, today, lead, log, calls, req, served>> /\ job' = {}
        /\ disturbed' = (disturbed \/ \E i \in job : tasks[i].status = "completed")
        /\ tasks' = [i \in DOMAIN tasks |->
                       IF i \in job THEN [tasks[i] EXCEPT !.status = "overdue"] ELSE tasks[i]]
    BY <1>3 DEF JobWrite
  <2>2. \A i \in DOMAIN tasks : tasks'[i] \in Tasks
    <3>1. TAKE i \in DOMAIN tasks
    <3>2. tasks[i] \in Tasks
      BY <1>0
    <3> QED
      BY <2>1, <3>2 DEF Tasks
  <2>3. tasks' \in [1..Len(tasks) -> Tasks]
    BY <1>0, <2>1, <2>2
  <2>4. tasks' \in Seq(Tasks) /\ Len(tasks') = Len(tasks)
    BY <1>0, <2>3
  <2>5. Typed'
    <3>1. disturbed' \in BOOLEAN
      BY <2>1 DEF Typed
    <3> QED
      BY <1>0, <2>1, <2>4, <3>1 DEF Typed, Own
  <2>6. AsideShape
    BY <2>1 DEF AsideShape
  <2>7. DoneShape
    BY <2>1 DEF DoneShape
  <2> QED
    BY <2>1, <2>5, <2>6, <2>7
<1>4. CASE Tick
  <2>1. /\ UNCHANGED <<brand, lead, tasks, log, calls, req, job, disturbed, served>>
        /\ today' = today + 1 /\ today < Horizon
    BY <1>4 DEF Tick
  <2>2. today' \in 1..Horizon
    BY <1>0, <2>1
  <2> QED
    BY <2>1, <2>2 DEF Typed, Own, AsideShape, DoneShape
<1> QED
  BY <1>1, <1>2, <1>3, <1>4

-----------------------------------------------------------------------------
(* The steps together.                                                     *)

\* A step of the shape keeps the types, and every completed task.
LEMMA ShapeTyped ==
    ASSUME Typed, NEW r \in Requests, Shape(r)
    PROVE  Typed' /\ DoneShape
<1>1. /\ tasks \in Seq(Tasks) /\ tasks' \in Seq(Tasks) /\ Len(tasks) <= Len(tasks')
      /\ DOMAIN tasks = 1..Len(tasks) /\ DOMAIN tasks' = 1..Len(tasks')
      /\ Len(tasks) \in Nat /\ Len(tasks') \in Nat /\ Len(tasks') <= MaxTasks
  BY DEF Shape, Keeps, Typed
<1>2. job' \subseteq DOMAIN tasks'
  <2>1. DOMAIN tasks \subseteq DOMAIN tasks'
    BY <1>1
  <2> QED
    BY <2>1 DEF Shape, Typed
<1>3. req' \in [Requests -> InFlight \cup {Idle}]
  BY DEF Shape, Typed
<1>4. lead'.stage \in Own' /\ lead' \in Leads /\ lead'.stage \in Stages
  BY DEF Shape, Own
<1>5. log' = NoRow \/ log' \in [from : Stages, to : Stages]
  <2>1. CASE log' = log
    BY <2>1 DEF Typed
  <2>2. CASE /\ req[r].at \in {"read", "counted"}
             /\ log' = [from |-> req[r].seen.stage, to |-> lead'.stage]
    <3>1. req[r].seen \in Leads
      BY <2>2, Carried DEF Typed
    <3> QED
      BY <1>4, <2>2, <3>1 DEF Leads
  <2> QED
    BY <2>1, <2>2 DEF Shape, StageShape
<1>6. calls' \in Nat
  BY DEF Shape, CallShape, Typed
<1>7. brand' \in Brands /\ today' \in 1..Horizon /\ disturbed' \in BOOLEAN /\ served' \in 0..MaxRequests
  BY DEF Shape, Typed
<1>8. DoneShape
  BY DEF DoneShape, Shape, Keeps
<1> QED
  BY <1>1, <1>2, <1>3, <1>4, <1>5, <1>6, <1>7, <1>8 DEF Typed

\* Every step has one of the two shapes, or changes nothing.
LEMMA Steps ==
    ASSUME Typed, [Next]_vars
    PROVE  /\ Typed' /\ FinishedKept
           /\ \/ \E r \in Requests : Shape(r)
              \/ AsideShape
<1>1. CASE \E r \in Requests : LeadStep(r)
  <2>1. PICK r \in Requests : Shape(r)
    BY <1>1, LeadStepShape
  <2>2. job' = job
    BY <2>1 DEF Shape
  <2> QED
    BY <2>1, <2>2, ShapeTyped DEF FinishedKept, DoneShape
<1>2. CASE \E r \in Requests : TaskStep(r)
  BY <1>2, TaskStepShape DEF FinishedKept, DoneShape
<1>3. CASE CreateTask \/ JobRead \/ JobWrite \/ Tick
  BY <1>3, RestShape DEF FinishedKept, DoneShape
<1>4. CASE UNCHANGED vars
  BY <1>4 DEF vars, Typed, Own, FinishedKept, AsideShape
<1> QED
  BY <1>1, <1>2, <1>3, <1>4 DEF Next

\* The lead as it is entered.
LEMMA InitTyped ==
    ASSUME Init
    PROVE  Typed
<1>1. PICK b \in Boards : lead = [stage |-> "created", due |-> NoDate, attempts |-> 0, board |-> b]
  BY DEF Init
<1>2. "created" \in Own /\ "created" \in Stages /\ b \in {"ai", "normal"} /\ 1 \in 1..Horizon
  BY ConstantsAssumption DEF ConstantsAssumption, Own, FmcStages, AvStages
<1>3. lead \in Leads /\ lead.stage \in Own
  BY <1>1, <1>2 DEF Leads
<1>4. tasks \in Seq(Tasks) /\ Len(tasks) <= MaxTasks
  BY ConstantsAssumption DEF Init, ConstantsAssumption
<1>5. req \in [Requests -> InFlight \cup {Idle}] /\ served \in 0..MaxRequests
  BY Places, ConstantsAssumption DEF Init, ConstantsAssumption
<1> QED
  BY <1>2, <1>3, <1>4, <1>5 DEF Init, Typed

\* The types hold in every state.
LEMMA AlwaysTyped == Spec => []Typed
<1>1. Init => Typed
  BY InitTyped
<1>2. Typed /\ [Next]_vars => Typed'
  BY Steps
<1> QED
  BY <1>1, <1>2, PTL DEF Spec

\* Every variable keeps its type: a lead has a stage of its brand and a date within the
\* horizon, a request in flight carries what its next step needs.
THEOREM TypeCorrect == Spec => []TypeOK
<1>1. Typed => TypeOK
  BY DEF Typed, TypeOK, Own
<1> QED
  BY <1>1, AlwaysTyped, PTL

\* The newest row of an FMC lead's history ends at the lead's stage, however many
\* requests overlap.
THEOREM HistoryIsCurrent == Spec => []LogTellsStage
<1>1. Init => LogTellsStage
  BY DEF Init, LogTellsStage
<1>2. Typed /\ LogTellsStage /\ [Next]_vars => LogTellsStage'
  <2>1. SUFFICES ASSUME Typed, LogTellsStage, [Next]_vars PROVE LogTellsStage'
    OBVIOUS
  <2>2. CASE \E r \in Requests : Shape(r)
    BY <2>1, <2>2 DEF Shape, StageShape, LogTellsStage
  <2>3. CASE AsideShape
    BY <2>1, <2>3 DEF AsideShape, LogTellsStage
  <2> QED
    BY <2>1, <2>2, <2>3, Steps
<1> QED
  BY <1>1, <1>2, AlwaysTyped, PTL DEF Spec

\* A stage is left as the table says and the history says from where, but for a request
\* whose read no longer held.
THEOREM TableIsFollowed == Spec => MovesFollowTable
<1>1. Typed /\ [Next]_vars => [MoveIsInTable]_vars
  <2>1. SUFFICES ASSUME Typed, [Next]_vars PROVE MoveIsInTable
    OBVIOUS
  <2>2. CASE \E r \in Requests : Shape(r)
    <3>1. PICK r \in Requests : Shape(r)
      BY <2>2
    <3>2. CASE lead'.stage = lead.stage /\ log' = log
      BY <3>2 DEF MoveIsInTable
    <3>3. CASE /\ req[r].at \in {"read", "counted"} /\ req'[r] # req[r]
               /\ log' = [from |-> req[r].seen.stage, to |-> lead'.stage]
               /\ lead'.stage \in Transitions(req[r].seen.stage)
      BY <3>3 DEF MoveIsInTable, Late
    <3>4. CASE /\ req[r].at = "read" /\ req'[r] # req[r] /\ brand # "fmc" /\ log' = log
               /\ req[r].seen = lead =>
                      lead'.stage = lead.stage \/ lead'.stage \in Transitions(lead.stage)
      BY <3>4 DEF MoveIsInTable, Late
    <3> QED
      BY <3>1, <3>2, <3>3, <3>4 DEF Shape, StageShape
  <2>3. CASE AsideShape
    BY <2>3 DEF AsideShape, MoveIsInTable
  <2> QED
    BY <2>1, <2>2, <2>3, Steps
<1> QED
  BY <1>1, AlwaysTyped, PTL DEF Spec, MovesFollowTable

\* A completed task is active again only because a person reopened it, or because the
\* overdue job had read it before it was completed.
THEOREM CompletedIsKept == Spec => FinishedStays
<1>1. Typed /\ [Next]_vars => [FinishedKept]_vars
  BY Steps
<1> QED
  BY <1>1, AlwaysTyped, PTL DEF Spec, FinishedStays

\* While handlers do not overlap, every call logged by hand is in the lead's attempts,
\* and no more are logged than the cap allows.
THEOREM EveryCallCounted == Spec => []CallsCounted
<1>1. Init => CallsCounted
  BY ConstantsAssumption DEF Init, CallsCounted, ConstantsAssumption
<1>2. Typed /\ CallsCounted /\ [Next]_vars => CallsCounted'
  <2>1. SUFFICES ASSUME Typed, CallsCounted, [Next]_vars PROVE CallsCounted'
    OBVIOUS
  <2>2. /\ Typed' /\ calls \in Nat /\ lead.attempts \in Nat /\ lead'.attempts \in Nat
        /\ MaxAttempts \in Nat
    BY <2>1, Steps, ConstantsAssumption DEF Typed, Leads, ConstantsAssumption
  <2>3. CASE \E r \in Requests : Shape(r)
    <3>1. PICK r \in Requests : Shape(r)
      BY <2>3
    <3>2. CallShape(r) /\ (disturbed => disturbed')
      BY <3>1 DEF Shape
    <3> QED
      BY <2>1, <2>2, <3>2 DEF CallShape, CallsCounted
  <2>4. CASE AsideShape
    BY <2>1, <2>4 DEF AsideShape, CallsCounted
  <2> QED
    BY <2>1, <2>3, <2>4, Steps
<1> QED
  BY <1>1, <1>2, AlwaysTyped, PTL DEF Spec

-----------------------------------------------------------------------------
(* The callback date.  Every handler that leaves the lead a date leaves it  *)
(* a task for that day; closing callbacks moves the date to the earliest    *)
(* one left.                                                                *)

\* Somebody has a task on day d.
Backed(d, ts) == \E i \in DOMAIN ts : ts[i].due = d /\ ts[i].status \in Active

DueBacked == lead.due # NoDate => Backed(lead.due, tasks)

\* The earliest callback is a task that someone has.
LEMMA NextDueBacked ==
    ASSUME NEW ts \in Seq(Tasks), NextDue(ts) # NoDate
    PROVE  Backed(NextDue(ts), ts)
<1> DEFINE S == {ts[i].due : i \in ActiveCalls(ts)}
<1>1. ActiveCalls(ts) # {} /\ NextDue(ts) = Min(S)
  BY DEF NextDue
<1>2. \A i \in ActiveCalls(ts) : ts[i] \in Tasks
  BY DEF ActiveCalls
<1>3. S # {} /\ S \in SUBSET Nat
  BY <1>1, <1>2, ConstantsAssumption DEF Tasks, Dates, ConstantsAssumption
<1>4. \A x \in S : \E i \in ActiveCalls(ts) : ts[i].due = x
  OBVIOUS
<1> HIDE DEF S
<1>5. Min(S) \in S
  BY <1>3, LeastIsThere
<1> QED
  BY <1>1, <1>4, <1>5 DEF Backed, ActiveCalls

\* A date that has a task keeps it when one more is put down.
LEMMA AppendedBacked ==
    ASSUME NEW ts \in Seq(Tasks), NEW t, NEW d, Backed(d, ts)
    PROVE  Backed(d, Append(ts, t))
<1>1. /\ DOMAIN ts \subseteq DOMAIN Append(ts, t)
      /\ \A i \in DOMAIN ts : Append(ts, t)[i] = ts[i]
  OBVIOUS
<1> QED
  BY <1>1 DEF Backed

\* The task put down backs its own date.
LEMMA NewTaskBacked ==
    ASSUME NEW ts \in Seq(Tasks), NEW k, NEW d
    PROVE  Backed(d, Append(ts, Task(k, d)))
<1>1. /\ Len(ts) + 1 \in DOMAIN Append(ts, Task(k, d))
      /\ Append(ts, Task(k, d))[Len(ts) + 1] = Task(k, d)
  OBVIOUS
<1>2. Task(k, d).due = d /\ Task(k, d).status \in Active
  BY DEF Task, Active
<1> QED
  BY <1>1, <1>2 DEF Backed

\* So does a callback that is ensured.
LEMMA EnsuredBacked ==
    ASSUME Typed, NEW d PROVE Backed(d, Ensured(d))
<1>1. CASE Twins(d) = {}
  BY <1>1, NewTaskBacked DEF Ensured, Typed
<1>2. CASE Twins(d) # {}
  BY <1>2 DEF Ensured, Twins, ActiveCalls, Backed
<1> QED
  BY <1>1, <1>2

\* A task that is not closed as a past callback is still there; when one is, the date
\* is that of the earliest left.
LEMMA AutoBacked ==
    ASSUME NEW l \in Leads, NEW ts \in Seq(Tasks), l.due # NoDate => Backed(l.due, ts)
    PROVE  LET done == AutoComplete(l, ts)
           IN  done.lead.due # NoDate => Backed(done.lead.due, done.tasks)
<1> DEFINE stale == {i \in DOMAIN ts : /\ ts[i].kind = "call" /\ ts[i].due <= today
                                       /\ ts[i].status \in {"pending", "overdue"}}
           left == [i \in DOMAIN ts |->
                       IF i \in stale THEN [ts[i] EXCEPT !.status = "completed"] ELSE ts[i]]
           dated == [l EXCEPT !.due = NextDue(left)]
<1>1. AutoComplete(l, ts) = [lead |-> IF stale = {} THEN l ELSE dated, tasks |-> left]
  BY DEF AutoComplete
<1>2. left \in Seq(Tasks)
  <2>1. Keeps(ts, AutoComplete(l, ts).tasks)
    BY AutoCompleted
  <2> HIDE DEF left, stale, dated
  <2> QED
    BY <1>1, <2>1 DEF Keeps
<1>3. CASE stale = {}
  <2>1. \A i \in DOMAIN ts : left[i] = ts[i]
    BY <1>3
  <2>2. DOMAIN left = DOMAIN ts
    OBVIOUS
  <2> HIDE DEF left, stale
  <2> QED
    BY <1>1, <1>3, <2>1, <2>2 DEF Backed
<1>4. CASE stale # {}
  <2>1. dated.due = NextDue(left)
    BY DEF Leads
  <2> HIDE DEF left, stale, dated
  <2> QED
    BY <1>1, <1>2, <1>4, <2>1, NextDueBacked
<1> QED
  BY <1>3, <1>4

\* A commit whose read still held leaves the date backed if the one it was given is.
LEMMA CommitBacked ==
    ASSUME Typed, NEW r \in Requests, NEW STATE s, NEW STATE d, NEW STATE ts,
           s \in Own, d \in Dates \cup {NoDate}, ts \in Seq(Tasks), Commit(r, s, d, ts),
           req[r].seen.due = lead.due, d # NoDate => Backed(d, ts)
    PROVE  DueBacked'
<1> DEFINE row == [lead EXCEPT !.stage = s, !.due = Written(req[r].seen.due, d, lead.due)]
<1>1. row \in Leads /\ row.due = d
  BY DEF Typed, Leads, Own, Written
<1>2. lead' = AutoComplete(row, ts).lead /\ tasks' = AutoComplete(row, ts).tasks
  BY DEF Commit
<1> HIDE DEF row
<1> QED
  BY <1>1, <1>2, AutoBacked DEF DueBacked, Backed

\* StageMachine.transition.
LEMMA MoveBacked ==
    ASSUME Typed, NEW r \in Requests, NEW s \in Stages, NEW d \in Dates \cup {NoDate},
           Move(r, s, d), ~disturbed'
    PROVE  DueBacked'
<1> DEFINE open == s \notin Terminal
           e == IF open THEN d ELSE NoDate
           ts == IF open THEN Ensured(d) ELSE tasks
<1>1. /\ req[r].at = "read" /\ s \in Transitions(req[r].seen.stage)
      /\ open => d # NoDate /\ (Room \/ Twins(d) # {})
      /\ Commit(r, s, e, ts)
  BY DEF Move
<1>2. e \in Dates \cup {NoDate}
  OBVIOUS
<1>3. s \in Own
  BY <1>1, TransitionsOwn
<1>4. ts \in Seq(Tasks)
  BY <1>1, EnsuredKeeps DEF Keeps, Typed
<1>5. e # NoDate => Backed(e, ts)
  BY EnsuredBacked
<1> HIDE DEF e, ts
<1>6. req[r].seen = lead
  BY <1>1 DEF Commit, Acted
<1> QED
  BY <1>1, <1>2, <1>3, <1>4, <1>5, <1>6, CommitBacked

\* The rest of an edit.
LEMMA EditRestBacked ==
    ASSUME Typed, DueBacked, NEW r \in Requests, EditRest(r), ~disturbed'
    PROVE  DueBacked'
<1> DEFINE q == req[r]
<1>1. q.seen = lead
  BY DEF EditRest, Acted
<1>2. PICK given \in IF q.at = "rest" THEN {q.given}
                     ELSE {{}} \cup {{d} : d \in Dates \cup {NoDate}} :
          LET d == IF given = {} THEN q.seen.due ELSE CHOOSE x \in given : TRUE
              queue == d # NoDate /\ d # q.seen.due
              over == q.seen.board = "ai" /\ q.seen.stage \notin AiStages
          IN  /\ (queue => Ensurable(d) /\ (Room \/ Twins(d) # {}))
              /\ lead' = [lead EXCEPT !.due = Written(q.seen.due, d, @),
                                      !.board = IF over THEN "normal" ELSE @]
              /\ tasks' = IF queue THEN Ensured(d) ELSE tasks
  BY DEF EditRest
<1> DEFINE d == IF given = {} THEN q.seen.due ELSE CHOOSE x \in given : TRUE
           queue == d # NoDate /\ d # lead.due
<1>3. /\ lead'.due = d
      /\ tasks' = IF queue THEN Ensured(d) ELSE tasks
  BY <1>1, <1>2 DEF Typed, Leads, Written
<1> HIDE DEF d
<1>4. CASE queue
  BY <1>3, <1>4, EnsuredBacked DEF DueBacked, Backed
<1>5. CASE ~queue
  BY <1>3, <1>5 DEF DueBacked, Backed
<1> QED
  BY <1>4, <1>5

\* auto_update_lead_status keeps the date it read.
LEMMA PostCallBacked ==
    ASSUME Typed, DueBacked, NEW r \in Requests, PostCall(r), ~disturbed'
    PROVE  DueBacked'
<1> DEFINE seen == req[r].seen
<1>1. PICK s \in Transitions(seen.stage) :
           Commit(r, s, IF s = "lost" THEN NoDate ELSE seen.due, tasks)
  BY DEF PostCall
<1>2. seen = lead
  BY <1>1 DEF Commit, Acted
<1> DEFINE d == IF s = "lost" THEN NoDate ELSE seen.due
<1>3. s \in Own /\ d \in Dates \cup {NoDate} /\ tasks \in Seq(Tasks)
  BY <1>2, TransitionsOwn DEF Typed, Leads
<1>4. d # NoDate => Backed(d, tasks)
  BY <1>2 DEF DueBacked
<1> HIDE DEF d
<1>5. Commit(r, s, d, tasks)
  BY <1>1 DEF d
<1> QED
  BY <1>2, <1>3, <1>4, <1>5, CommitBacked

\* _auto_update_lead_stage keeps it too, or puts down a follow-up for tomorrow.
LEMMA AdvanceBacked ==
    ASSUME Typed, DueBacked, NEW r \in Requests, Advance(r), ~disturbed'
    PROVE  DueBacked'
<1> DEFINE seen == req[r].seen
<1>1. PICK s \in Stages \ {seen.stage} :
         /\ s \in Unanswered(seen) \cup Answered
         /\ s \in Warm => Room /\ today < Horizon
         /\ Commit(r, s, IF s \in Warm THEN today + 1 ELSE seen.due,
                   IF s \in Warm THEN Append(tasks, Task("follow_up", today + 1)) ELSE tasks)
  BY DEF Advance
<1>2. seen = lead /\ seen.stage \in Advancing
  BY <1>1 DEF Commit, Acted, Advance
<1> DEFINE d == IF s \in Warm THEN today + 1 ELSE seen.due
           ts == IF s \in Warm THEN Append(tasks, Task("follow_up", today + 1)) ELSE tasks
<1>3. s \in Own
  BY <1>1, <1>2, AdvanceByTable, TransitionsOwn
<1>4. d \in Dates \cup {NoDate}
  BY <1>1, <1>2, ConstantsAssumption DEF Typed, Leads, Dates, ConstantsAssumption
<1>5. ts \in Seq(Tasks)
  <2>1. s \in Warm => today + 1 \in Dates
    BY <1>1, ConstantsAssumption DEF Typed, Dates, ConstantsAssumption
  <2> QED
    BY <2>1, TaskIsTask, Appended DEF Keeps, Typed
<1>6. d # NoDate => Backed(d, ts)
  <2>1. CASE s \in Warm
    BY <2>1, NewTaskBacked DEF Typed
  <2>2. CASE s \notin Warm
    BY <1>2, <2>2 DEF DueBacked
  <2> QED
    BY <2>1, <2>2
<1> HIDE DEF d, ts
<1>7. Commit(r, s, d, ts)
  BY <1>1 DEF d, ts
<1> QED
  BY <1>2, <1>3, <1>4, <1>5, <1>6, <1>7, CommitBacked

\* A request on an FMC lead whose read still held leaves the date backed.
LEMMA LeadStepBacked ==
    ASSUME Typed, DueBacked, brand = "fmc", NEW r \in Requests, LeadStep(r), ~disturbed'
    PROVE  DueBacked'
<1>1. CASE ReadLead(r) \/ Refuse(r)
  BY <1>1 DEF ReadLead, Refuse, DueBacked, Backed
<1>2. CASE MoveStage(r)
  BY <1>2, MoveBacked DEF MoveStage
<1>3. CASE EditStage(r)
  <2>1. PICK s \in Stages, given \in {{}} \cup {{d} : d \in Dates} :
          Move(r, s, IF given = {} THEN NoDate ELSE Min(given))
    BY <1>3 DEF EditStage
  <2>2. (IF given = {} THEN NoDate ELSE Min(given)) \in Dates \cup {NoDate}
    <3>1. CASE given = {}
      BY <3>1
    <3>2. CASE given # {}
      <4>1. given \subseteq Dates /\ given \in SUBSET Nat
        BY ConstantsAssumption DEF Dates, ConstantsAssumption
      <4>2. Min(given) \in given
        BY <3>2, <4>1, LeastIsThere
      <4> QED
        BY <3>2, <4>1, <4>2
    <3> QED
      BY <3>1, <3>2
  <2> QED
    BY <2>1, <2>2, MoveBacked
<1>4. CASE EditRest(r)
  BY <1>4, EditRestBacked
<1>5. CASE MoveBoard(r) \/ CountVoice(r)
  BY <1>5 DEF MoveBoard, CountVoice, DueBacked, Backed, Typed, Leads
<1>6. CASE LogCall(r)
  BY <1>6 DEF LogCall
<1>7. CASE PostCall(r)
  BY <1>7, PostCallBacked
<1>8. CASE Advance(r)
  BY <1>8, AdvanceBacked
<1> QED
  BY <1>1, <1>2, <1>3, <1>4, <1>5, <1>6, <1>7, <1>8 DEF LeadStep

\* A request on the lead leaves the tasks' requests where they are.
LEMMA LeadStepSettles ==
    ASSUME Typed, NEW r \in Requests, LeadStep(r), Settled'
    PROVE  Settled /\ (disturbed => disturbed')
<1>1. req[r].at \notin {"sync", "due"}
  <2>1. CASE ReadLead(r)
    BY <2>1 DEF ReadLead, Idle
  <2>2. CASE MoveStage(r)
    BY <2>2 DEF MoveStage, Move
  <2>3. CASE EditStage(r)
    BY <2>3 DEF EditStage, Move
  <2>4. CASE EditRest(r)
    <3>1. req[r].at \in {"read", "rest"}
      BY <2>4 DEF EditRest
    <3> QED
      BY <3>1
  <2>5. CASE Refuse(r)
    BY <2>5 DEF Refuse
  <2>6. CASE MoveBoard(r) \/ LogCall(r) \/ PostCall(r) \/ CountVoice(r)
    BY <2>6 DEF MoveBoard, LogCall, PostCall, CountVoice
  <2>7. CASE Advance(r)
    BY <2>7 DEF Advance
  <2> QED
    BY <2>1, <2>2, <2>3, <2>4, <2>5, <2>6, <2>7 DEF LeadStep
<1>2. Shape(r)
  BY LeadStepShape
<1>3. \A q \in Requests \ {r} : req'[q] = req[q]
  BY <1>2 DEF Shape, Typed
<1> QED
  BY <1>1, <1>2, <1>3 DEF Settled, Shape

\* The task screens leave it to the second transaction, which writes the earliest
\* callback of the tasks as they are.
LEMMA TaskStepBacked ==
    ASSUME Typed, NEW r \in Requests, TaskStep(r), ~disturbed', Settled'
    PROVE  DueBacked'
<1>1. ASSUME NEW i, NEW t, Retask(r, i, t) PROVE FALSE
  BY <1>1 DEF Retask, Goes, Settled, Typed
<1>2. CASE SyncRead(r)
  BY <1>2 DEF SyncRead, Goes, Settled, Typed
<1>3. CASE SyncWrite(r)
  <2>1. lead' = [lead EXCEPT !.due = NextDue(tasks)] /\ tasks' = tasks /\ tasks \in Seq(Tasks)
    BY <1>3 DEF SyncWrite, Typed
  <2>2. lead'.due = NextDue(tasks)
    BY <2>1 DEF Typed, Leads
  <2> QED
    BY <2>1, <2>2, NextDueBacked DEF DueBacked, Backed
<1>4. CASE Die(r)
  BY <1>4 DEF Die
<1>5. CASE CompleteTask(r)
  BY <1>1, <1>5 DEF CompleteTask
<1>6. CASE UpdateTask(r)
  <2>1. PICK i \in DOMAIN tasks :
           LET t == [tasks[i] EXCEPT !.person = TRUE]
           IN  \/ \E s \in {"pending", "in_progress"} : Retask(r, i, [t EXCEPT !.status = s])
               \/ \E d \in Dates : Retask(r, i, [t EXCEPT !.due = d])
               \/ \E k \in {"call", "follow_up"} : Retask(r, i, [t EXCEPT !.kind = k])
    BY <1>6 DEF UpdateTask
  <2> QED
    BY <1>1, <2>1
<1> QED
  BY <1>2, <1>3, <1>4, <1>5, <1>6 DEF TaskStep

\* A task put down, the overdue job and the clock take no task away.
LEMMA RestBacked ==
    ASSUME Typed, DueBacked, CreateTask \/ JobRead \/ JobWrite \/ Tick, ~disturbed'
    PROVE  DueBacked'
<1>1. CASE CreateTask
  <2>1. PICK t : tasks' = Append(tasks, t) /\ lead' = lead
    BY <1>1 DEF CreateTask
  <2>2. lead.due # NoDate => Backed(lead.due, Append(tasks, t))
    BY AppendedBacked DEF DueBacked, Typed
  <2> QED
    BY <2>1, <2>2 DEF DueBacked, Backed
<1>2. CASE JobRead \/ Tick
  BY <1>2 DEF JobRead, Tick, DueBacked, Backed
<1>3. CASE JobWrite
  <2>1. /\ lead' = lead /\ DOMAIN tasks' = DOMAIN tasks
        /\ \A i \in DOMAIN tasks :
              tasks'[i] = IF i \in job THEN [tasks[i] EXCEPT !.status = "overdue"] ELSE tasks[i]
    BY <1>3 DEF JobWrite
  <2>2. \A i \in DOMAIN tasks :
           /\ tasks'[i].due = tasks[i].due
           /\ tasks[i].status \in Active => tasks'[i].status \in Active
    <3>1. \A i \in DOMAIN tasks : tasks[i] \in Tasks
      BY DEF Typed
    <3> QED
      BY <2>1, <3>1 DEF Tasks, Active
  <2> QED
    BY <2>1, <2>2 DEF DueBacked, Backed
<1> QED
  BY <1>1, <1>2, <1>3

\* While handlers do not overlap and none dies, the callback date an FMC lead shows is
\* that of a task someone still has to do: for any number of requests, tasks and days.
THEOREM DateHasItsTask == Spec => []DueHasATask
<1>1. Init => DueHasATask
  BY DEF Init, DueHasATask, NoDate
<1>2. Typed /\ DueHasATask /\ [Next]_vars => DueHasATask'
  <2> SUFFICES ASSUME Typed, DueHasATask, [Next]_vars, brand' = "fmc", ~disturbed', Settled'
               PROVE  DueBacked'
    BY DEF DueHasATask, DueBacked, Backed
  <2>1. brand = "fmc" /\ (disturbed => disturbed')
    BY Steps DEF Shape, AsideShape, vars
  <2>2. Settled => DueBacked
    BY <2>1 DEF DueHasATask, DueBacked, Backed
  <2>3. ASSUME NEW r \in Requests, LeadStep(r) PROVE DueBacked'
    BY <2>1, <2>2, <2>3, LeadStepSettles, LeadStepBacked
  <2>4. ASSUME NEW r \in Requests, TaskStep(r) PROVE DueBacked'
    BY <2>4, TaskStepBacked
  <2>5. CASE CreateTask \/ JobRead \/ JobWrite \/ Tick
    <3>1. Settled
      BY <2>5 DEF CreateTask, JobRead, JobWrite, Tick, Frame, Settled
    <3> QED
      BY <2>2, <2>5, <3>1, RestBacked
  <2>6. CASE UNCHANGED vars
    BY <2>2, <2>6 DEF vars, Settled, DueBacked, Backed
  <2> QED
    BY <2>3, <2>4, <2>5, <2>6 DEF Next
<1> QED
  BY <1>1, <1>2, AlwaysTyped, PTL DEF Spec
=============================================================================
