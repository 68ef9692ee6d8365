---------------------------- MODULE ScreensProofs ----------------------------
(***************************************************************************)
(* What Screens promises, for any leads, users, boards, files, tranches    *)
(* and steps.                                                              *)
(*                                                                         *)
(* Of the boards: a page holds the rows with its numbers, so it is enough  *)
(* that row_number() numbers the leads of a column from one on, each once, *)
(* and that the numbers of leads that tie stay together, in whatever order *)
(* a query has them.  The caches are an invariant of their own: what they  *)
(* hold, and what a board that is being computed holds already, shows      *)
(* leads that are on the board, or that were taken off it by a request     *)
(* that left the cache alone.                                              *)
(*                                                                         *)
(* Of the book: a panel is a sum over a set of tranches or of files, and   *)
(* its segments cut that set into parts.  That a tranche is of a day that  *)
(* has come has to be kept by every step that books or edits one.  A sum   *)
(* of rounded figures is the rounded sum but for a half each.  The kept    *)
(* answers of the dashboard are an invariant of their own: they are what   *)
(* would be read now, or of before the last change and not kept for long.  *)
(*                                                                         *)
(* Of the reports on leads: two counts are of the same leads, callbacks    *)
(* or moves. What they need besides the types is that a callback marked    *)
(* overdue is late, that no move is of a day to come, and that the log     *)
(* has the move that brought a lead to its stage.                          *)
(***************************************************************************)
EXTENDS Screens, LenderFilesProofs

-----------------------------------------------------------------------------
(* The boards: what the rows and the requests are.                         *)

\* The cards of the columns of a board.
Answers == UNION {[S -> SUBSET (Nat \X Ids)] : S \in SUBSET BoardStages}

Loads == [at : {"cards"}, process : Servers, view : Kept, overtaken : BOOLEAN, cards : Answers]

DealsRead == [at : {"read"}, ranges : Deals, free : BOOLEAN, order : Orders, turn : Boards!Turns,
              ids : SUBSET Ids, owners : [Ids -> Boards!People \cup {Unassigned}]]

MoveRows == [by : Boards!People, lead : Ids, to : BoardStages, time : 0..MaxTick,
             note : Boards!Notes]
RemarkRows == [by : Boards!People, lead : Ids, time : 0..MaxTick]

RowsTyped == row \in [Ids -> Boards!Rows] /\ callback \in [Ids -> Boards!Callbacks]

LogsTyped ==
    /\ moves \subseteq MoveRows /\ IsFiniteSet(moves)
    /\ remarks \subseteq RemarkRows /\ IsFiniteSet(remarks)

ClockTyped == now \in 0..MaxTick /\ left \in [Servers -> [Ids -> Boards!Never..MaxTick]]

RequestsBegun ==
    /\ load \in Loads \cup {Boards!Idle} /\ deal \in DealsRead \cup {Boards!Idle}

-----------------------------------------------------------------------------
(* Constants.                                                              *)

\* The operators of the library are those of the boards.
LEMMA SameCounts ==
    /\ \A S : Boards!IsFiniteSet(S) <=> IsFiniteSet(S)
    /\ \A S : Boards!Cardinality(S) = Cardinality(S)
  BY DEF Boards!IsFiniteSet, IsFiniteSet, Boards!Cardinality, Cardinality

\* Nor is a sum another.
LEMMA SameSums ==
    \A w, S : Boards!SumFunctionOnSet(w, S) = SumFunctionOnSet(w, S)
  BY DEF Boards!SumFunctionOnSet, SumFunctionOnSet, Boards!FoldFunctionOnSet, FoldFunctionOnSet,
         Boards!MapThenFoldSet, MapThenFoldSet

\* What the boards are given, in the names they have here.
LEMMA TheBoards ==
    /\ Ids \subseteq Nat \ {0} /\ IsFiniteSet(Ids) /\ IsFiniteSet(Campaigns) /\ IsFiniteSet(Counsellors)
    /\ Admin \notin Counsellors /\ Unassigned \notin Boards!People
    /\ ShortStages \subseteq BoardStages /\ {WonStage, "created", "lost"} \subseteq BoardStages
    /\ BoardTTL \in Nat /\ MaxTick \in Nat /\ DayLength \in Nat \ {0}
    /\ Kept \subseteq Boards!Views /\ Asked \subseteq Boards!Views /\ Kept \subseteq Asked
    /\ DueDate \in [Ids -> Nat] /\ Amount \in [Ids -> Nat] /\ Born \in [Ids -> Nat]
    /\ \A d \in Deals : d \in Seq([from : Nat \ {0}, to : Nat, agent : Boards!People])
  BY BoardsConstants, SameCounts DEF Boards!BoardsAssumption, Boards!People

-----------------------------------------------------------------------------
(* A board in the cache.                                                   *)

\* Nothing that is under way, and not overtaken, shows a lead that is not on its board.
LoadCurrent ==
    load # Boards!Idle =>
        (~load.overtaken =>
            \A s \in DOMAIN load.cards : \A x \in load.cards[s] :
                Boards!OnBoard(load.view.board, x[2]))

\* A lead on a card in the cache of a process has left its board only by a write that let
\* the process keep it, since when the time to live of the answer has not begun anew.
Lingers(k, i) ==
    \/ Boards!OnBoard(k[2].board, i)
    \/ left[k[1]][i] # Boards!Never /\ cache[k].until <= left[k[1]][i] + BoardTTL

EntryCurrent(k) ==
    ~cache[k].overtaken =>
        \A s \in DOMAIN cache[k].cards : \A x \in cache[k].cards[s] : Lingers(k, x[2])

CacheShape ==
    /\ DOMAIN cache \subseteq Servers \X Kept
    /\ \A k \in DOMAIN cache : /\ cache[k].cards \in Answers
                               /\ cache[k].until \in Nat /\ cache[k].until <= now + BoardTTL

CacheInv ==
    /\ ClockTyped /\ RequestsBegun /\ RowsTyped /\ LogsTyped
    /\ LoadCurrent /\ CacheShape /\ \A k \in DOMAIN cache : EntryCurrent(k)

\* The leads on a card are leads.
LEMMA CardsAreLeads ==
    ASSUME NEW a \in Answers
    PROVE  \A s \in DOMAIN a : \A x \in a[s] : x \in Nat \X Ids /\ x[2] \in Ids
  BY DEF Answers

\* What a callback and a row become where a request sets two or three of their columns.
LEMMA ColumnsSet ==
    /\ \A c \in Boards!Callbacks, status_1 \in {"completed", "in_progress"}, at_1 \in 0..MaxTick,
          done \in -1..MaxTick :
          [c EXCEPT !.status = status_1, !.updated = at_1, !.completed = done] \in Boards!Callbacks
    /\ \A r \in Boards!Rows : \A agent, pre \in Boards!People \cup {Unassigned} :
          [r EXCEPT !.agent = agent, !.pre = pre] \in Boards!Rows
<1>1. \A c \in Boards!Callbacks, status_1 \in {"completed", "in_progress"}, at_1 \in 0..MaxTick,
         done \in -1..MaxTick :
         [c EXCEPT !.status = status_1, !.updated = at_1, !.completed = done] \in Boards!Callbacks
  BY DEF Boards!Callbacks
<1>2. \A r \in Boards!Rows : \A agent, pre \in Boards!People \cup {Unassigned} :
         [r EXCEPT !.agent = agent, !.pre = pre] \in Boards!Rows
  BY DEF Boards!Rows
<1> QED
  BY <1>1, <1>2

\* Who leaves a board leaves it now.
LEMMA LeavingKeepsTypes ==
    ASSUME ClockTyped, NEW i \in Ids, NEW keeping, Boards!Leaves(i, keeping), now \in -1..MaxTick
    PROVE  left' \in [Servers -> [Ids -> Boards!Never..MaxTick]]
<1> DEFINE N == Boards!Never..MaxTick
<1>1. now \in N /\ left \in [Servers -> [Ids -> N]]
  BY DEF ClockTyped, Boards!Never
<1>2. left' = [p \in Servers |-> IF p \in keeping THEN [left[p] EXCEPT ![i] = now] ELSE left[p]]
  BY DEF Boards!Leaves
<1> HIDE DEF N
<1>3. \A p \in Servers : left[p] \in [Ids -> N] /\ [left[p] EXCEPT ![i] = now] \in [Ids -> N]
  BY <1>1
<1>4. left' \in [Servers -> [Ids -> N]]
  BY <1>2, <1>3
<1> QED
  BY <1>4 DEF N

\* How the rows, the logs and the callbacks keep their types, whatever is written.
LEMMA TypesKept ==
    ASSUME RowsTyped, LogsTyped, ClockTyped, RequestsBegun, Boards!Next
    PROVE  RowsTyped' /\ LogsTyped' /\ ClockTyped'
<1> USE DEF RowsTyped, LogsTyped, ClockTyped
<1>c. /\ BoardTTL \in Nat /\ MaxTick \in Nat /\ {"created", "lost"} \subseteq BoardStages
      /\ now \in 0..MaxTick /\ \A i \in Ids : row[i] \in Boards!Rows /\ callback[i] \in Boards!Callbacks
  BY TheBoards
<1>d. now \in -1..MaxTick
  BY <1>c
<1>1. ASSUME NEW i \in Ids, NEW u \in Boards!People, NEW s \in BoardStages, NEW note \in Boards!Notes,
             NEW p \in Servers, Boards!Move(p, u, i, s, note)
      PROVE  RowsTyped' /\ LogsTyped' /\ ClockTyped'
  <2>1. row' \in [Ids -> Boards!Rows]
    BY <1>1, <1>c DEF Boards!Move, Boards!Rows
  <2>2. callback' \in [Ids -> Boards!Callbacks]
    <3>1. CASE callback' = [callback EXCEPT ![i].status = "completed", ![i].updated = now,
                                            ![i].completed = now]
      <4>1. callback' = [callback EXCEPT ![i] = [callback[i] EXCEPT !.status = "completed",
                                                   !.updated = now, !.completed = now]]
        BY <3>1
      <4>2. [callback[i] EXCEPT !.status = "completed", !.updated = now, !.completed = now]
                \in Boards!Callbacks
        BY <1>1, <1>c, <1>d, ColumnsSet
      <4> QED
        BY <4>1, <4>2
    <3> QED
      BY <1>1, <3>1 DEF Boards!Move
  <2>3. moves' \subseteq MoveRows /\ IsFiniteSet(moves')
    <3> DEFINE m == [by |-> u, lead |-> i, to |-> s, time |-> now, note |-> note]
    <3>1. moves' = moves \cup {m}
      BY <1>1 DEF Boards!Move
    <3>2. m \in MoveRows
      BY <1>c DEF MoveRows
    <3> HIDE DEF m
    <3> QED
      BY <3>1, <3>2, FS_AddElement
  <2> QED
    BY <1>1, <2>1, <2>2, <2>3 DEF Boards!Move
<1>2. ASSUME NEW i \in Ids, NEW u \in Boards!People, Boards!AddRemark(u, i)
      PROVE  RowsTyped' /\ LogsTyped' /\ ClockTyped'
  <2> DEFINE m == [by |-> u, lead |-> i, time |-> now]
  <2>1. remarks' = remarks \cup {m}
    BY <1>2 DEF Boards!AddRemark
  <2>2. m \in RemarkRows
    BY <1>c DEF RemarkRows
  <2> HIDE DEF m
  <2>3. remarks' \subseteq RemarkRows /\ IsFiniteSet(remarks')
    BY <2>1, <2>2, FS_AddElement
  <2> QED
    BY <1>2, <2>3 DEF Boards!AddRemark
<1>3. ASSUME NEW i \in Ids, NEW u \in Boards!People, NEW p,
             Boards!HandOver(p, u, i) \/ Boards!EditOver(u, i)
      PROVE  RowsTyped' /\ LogsTyped' /\ ClockTyped'
  <2>1. row' = [row EXCEPT ![i].ai = ~@] \/ row' = [row EXCEPT ![i].ai = FALSE]
    BY <1>3 DEF Boards!HandOver, Boards!EditOver
  <2>2. row[i].ai \in BOOLEAN /\ (~row[i].ai) \in BOOLEAN
    BY <1>c DEF Boards!Rows
  <2>3. row' \in [Ids -> Boards!Rows]
    <3>1. row' = [row EXCEPT ![i].ai = TRUE] \/ row' = [row EXCEPT ![i].ai = FALSE]
      BY <2>1, <2>2
    <3>2. CASE row' = [row EXCEPT ![i].ai = TRUE]
      BY <3>2, <1>c DEF Boards!Rows
    <3>3. CASE row' = [row EXCEPT ![i].ai = FALSE]
      BY <3>3, <1>c DEF Boards!Rows
    <3> QED
      BY <3>1, <3>2, <3>3
  <2>4. left' \in [Servers -> [Ids -> Boards!Never..MaxTick]]
    BY <1>3, <1>d, LeavingKeepsTypes DEF Boards!HandOver, Boards!EditOver
  <2> QED
    BY <1>3, <2>3, <2>4 DEF Boards!HandOver, Boards!EditOver
<1>4. ASSUME row' \in [Ids -> Boards!Rows], UNCHANGED <<callback, moves, remarks, left, now>>
      PROVE  RowsTyped' /\ LogsTyped' /\ ClockTyped'
  BY <1>4
<1>5. ASSUME NEW i \in Ids, Boards!Delete(i)
      PROVE  RowsTyped' /\ LogsTyped' /\ ClockTyped'
  <2>1. row' \in [Ids -> Boards!Rows]
    BY <1>5, <1>c DEF Boards!Delete, Boards!Changed, Boards!Rows
  <2> QED
    BY <1>4, <1>5, <2>1 DEF Boards!Delete, Boards!Changed
<1>6. ASSUME NEW i \in Ids, NEW c \in Campaigns, Boards!Enroll(i, c)
      PROVE  RowsTyped' /\ LogsTyped' /\ ClockTyped'
  <2>1. row' \in [Ids -> Boards!Rows]
    BY <1>6, <1>c DEF Boards!Enroll, Boards!Changed, Boards!Rows
  <2> QED
    BY <1>4, <1>6, <2>1 DEF Boards!Enroll, Boards!Changed
<1>7. ASSUME NEW i \in Ids, NEW u \in Boards!People, Boards!AssignLead(i, u)
      PROVE  RowsTyped' /\ LogsTyped' /\ ClockTyped'
  <2>1. row' \in [Ids -> Boards!Rows]
    BY <1>7, <1>c DEF Boards!AssignLead, Boards!Changed, Boards!Rows
  <2> QED
    BY <1>4, <1>7, <2>1 DEF Boards!AssignLead, Boards!Changed
<1>8. ASSUME NEW i \in Ids, Boards!ReassignLead(i)
      PROVE  RowsTyped' /\ LogsTyped' /\ ClockTyped'
  <2>0. PICK agent \in Boards!People \cup {Unassigned}, pre \in Boards!People \cup {Unassigned} :
           row' = [row EXCEPT ![i].agent = agent, ![i].pre = pre]
    BY <1>8 DEF Boards!ReassignLead, Boards!Changed
  <2>1. row' \in [Ids -> Boards!Rows]
    <3>1. row' = [row EXCEPT ![i] = [row[i] EXCEPT !.agent = agent, !.pre = pre]]
      BY <2>0
    <3>2. [row[i] EXCEPT !.agent = agent, !.pre = pre] \in Boards!Rows
      BY <2>0, <1>8, <1>c, ColumnsSet
    <3> QED
      BY <3>1, <3>2
  <2> QED
    BY <1>4, <1>8, <2>1 DEF Boards!ReassignLead, Boards!Changed
<1>9. ASSUME NEW S \in SUBSET Ids, NEW u \in Counsellors, Boards!BulkAssign(S, u)
      PROVE  RowsTyped' /\ LogsTyped' /\ ClockTyped'
  <2>1. row' = [i \in Ids |-> IF i \in S \cap Boards!Live THEN [row[i] EXCEPT !.agent = u] ELSE row[i]]
    BY <1>9 DEF Boards!BulkAssign, Boards!Changed
  <2>2. \A i \in Ids : [row[i] EXCEPT !.agent = u] \in Boards!Rows
    BY <1>c DEF Boards!Rows, Boards!People
  <2>3. row' \in [Ids -> Boards!Rows]
    BY <2>1, <2>2, <1>c
  <2> QED
    BY <1>4, <1>9, <2>3 DEF Boards!BulkAssign, Boards!Changed
<1>10. ASSUME NEW i \in Ids, NEW p \in Servers, Boards!TouchTask(p, i)
       PROVE  RowsTyped' /\ LogsTyped' /\ ClockTyped'
  <2>0. PICK status_1 \in {"completed", "in_progress"} :
           callback' = [callback EXCEPT ![i].status = status_1, ![i].updated = now,
                            ![i].completed = IF status_1 = "completed" THEN now ELSE @]
    BY <1>10 DEF Boards!TouchTask
  <2>1. callback' \in [Ids -> Boards!Callbacks]
    <3>1. CASE status_1 = "completed"
      <4>1. callback' = [callback EXCEPT ![i] = [callback[i] EXCEPT !.status = "completed",
                                                   !.updated = now, !.completed = now]]
        BY <2>0, <3>1
      <4>2. [callback[i] EXCEPT !.status = "completed", !.updated = now, !.completed = now]
                \in Boards!Callbacks
        BY <1>10, <1>c, <1>d, ColumnsSet
      <4> QED
        BY <4>1, <4>2
    <3>2. CASE status_1 = "in_progress"
      <4>1. callback' = [callback EXCEPT ![i] = [callback[i] EXCEPT !.status = "in_progress",
                             !.updated = now, !.completed = callback[i].completed]]
        BY <2>0, <3>2
      <4>2. callback[i].completed \in -1..MaxTick
        BY <1>10, <1>c DEF Boards!Callbacks
      <4>3. [callback[i] EXCEPT !.status = "in_progress", !.updated = now,
                                !.completed = callback[i].completed] \in Boards!Callbacks
        BY <1>10, <1>c, <4>2, ColumnsSet
      <4> QED
        BY <4>1, <4>3
    <3> QED
      BY <3>1, <3>2
  <2> QED
    BY <1>10, <2>1 DEF Boards!TouchTask
<1>11. ASSUME Boards!MarkOverdue
       PROVE  RowsTyped' /\ LogsTyped' /\ ClockTyped'
  <2>1. \A i \in Ids : [callback[i] EXCEPT !.status = "overdue", !.updated = now] \in Boards!Callbacks
    BY <1>c DEF Boards!Callbacks
  <2>2. callback' \in [Ids -> Boards!Callbacks]
    BY <1>11, <1>c, <2>1 DEF Boards!MarkOverdue
  <2> QED
    BY <1>11, <2>2 DEF Boards!MarkOverdue, Boards!boardVars
<1>12. ASSUME \/ Boards!DealRead \/ Boards!LoadHeaders
              \/ \E p \in Servers, v \in Kept : Boards!LoadCards(p, v)
       PROVE  RowsTyped' /\ LogsTyped' /\ ClockTyped'
  <2>1. UNCHANGED <<row, callback, moves, remarks, left, now>>
    BY <1>12 DEF Boards!DealRead, Boards!LoadHeaders, Boards!LoadCards, Boards!desk
  <2> QED
    BY <2>1
<1>13. ASSUME Boards!DealWrite
       PROVE  RowsTyped' /\ LogsTyped' /\ ClockTyped'
  <2> DEFINE hits(i) == {n \in DOMAIN deal.ranges :
                           Boards!Position(i) \in deal.ranges[n].from..deal.ranges[n].to}
             given(i) == deal.ranges[CHOOSE n \in hits(i) : TRUE].agent
  <2>1. deal.ranges \in Seq([from : Nat \ {0}, to : Nat, agent : Boards!People])
    <3>1. deal \in DealsRead
      BY <1>13 DEF RequestsBegun, Boards!DealWrite
    <3>2. deal.ranges \in Deals
      BY <3>1 DEF DealsRead
    <3> QED
      BY <3>2, TheBoards
  <2>2. \A n \in DOMAIN deal.ranges : deal.ranges[n].agent \in Boards!People
    <3> DEFINE S == [from : Nat \ {0}, to : Nat, agent : Boards!People]
               q == deal.ranges
    <3>1. \A x \in S : x.agent \in Boards!People
      OBVIOUS
    <3>2. q \in Seq(S)
      BY <2>1
    <3> HIDE DEF S, q
    <3>3. \A n \in DOMAIN q : q[n] \in S
      BY <3>2
    <3> QED
      BY <3>1, <3>3 DEF q
  <2>3. \A i \in Ids : hits(i) # {} => given(i) \in Boards!People
    <3> SUFFICES ASSUME NEW i \in Ids, hits(i) # {} PROVE given(i) \in Boards!People
      OBVIOUS
    <3>1. (CHOOSE n \in hits(i) : TRUE) \in hits(i)
      OBVIOUS
    <3> QED
      BY <2>2, <3>1
  <2>4. row' = [i \in Ids |-> IF i \in Boards!Live \cap deal.ids /\ hits(i) # {}
                             THEN [row[i] EXCEPT !.agent = given(i)] ELSE row[i]]
    BY <1>13 DEF Boards!DealWrite
  <2> HIDE DEF hits, given
  <2>5. \A i \in Ids : hits(i) # {} => [row[i] EXCEPT !.agent = given(i)] \in Boards!Rows
    BY <2>3, <1>c DEF Boards!Rows
  <2>6. row' \in [Ids -> Boards!Rows]
    BY <2>4, <2>5, <1>c
  <2> QED
    BY <1>4, <1>13, <2>6 DEF Boards!DealWrite, Boards!boardVars
<1>14. CASE Boards!Tick
  BY <1>14, <1>c DEF Boards!Tick, Boards!desk
<1> QED
  BY <1>1, <1>2, <1>3, <1>5, <1>6, <1>7, <1>8, <1>9, <1>10, <1>11, <1>12, <1>13, <1>14
     DEF Boards!Next, Boards!LeadWrite

-----------------------------------------------------------------------------
(* Steps that leave the boards' rows where they are.                       *)

LoadStays ==
    \/ UNCHANGED load
    \/ /\ load # Boards!Idle
       /\ load' = [load EXCEPT !.overtaken = TRUE]

\* The caches are what they were, or that of a process is dropped.
CachesStay == UNCHANGED cache \/ \E p \in Servers : Boards!Invalidate(p)

\* What leads a board shows does not change, and nothing is put in a cache.
Unmoved ==
    /\ \A i \in Ids : row'[i].ai = row[i].ai
    /\ CachesStay /\ LoadStays /\ UNCHANGED <<left, now>>

\* A cache holds what it held.
LEMMA CachesStayed ==
    ASSUME CachesStay
    PROVE  /\ DOMAIN cache' \subseteq DOMAIN cache
           /\ \A k \in DOMAIN cache' : cache'[k] = cache[k]
  BY DEF CachesStay, Boards!Invalidate

\* A request that was overtaken is the same request.
LEMMA OvertakenLoad ==
    ASSUME NEW q \in Loads
    PROVE  /\ [q EXCEPT !.overtaken = TRUE] \in Loads
           /\ [q EXCEPT !.overtaken = TRUE].overtaken = TRUE
  BY DEF Loads

\* A request stays what it is when the rows change.
LEMMA RequestsStay ==
    ASSUME RequestsBegun, LoadStays, deal' \in {deal, Boards!Idle}
    PROVE  RequestsBegun'
  BY OvertakenLoad DEF RequestsBegun, LoadStays, Loads

\* As long as no lead moves on or off a board, the cache shows what it may show.
LEMMA UnmovedKeeps ==
    ASSUME CacheInv, Unmoved
    PROVE  LoadCurrent' /\ CacheShape' /\ \A k \in DOMAIN cache' : EntryCurrent(k)'
<1>1. ASSUME NEW b, NEW i \in Ids, Boards!OnBoard(b, i) PROVE Boards!OnBoard(b, i)'
  BY <1>1 DEF Unmoved, Boards!OnBoard
<1>2. LoadCurrent'
  <2>1. CASE load' = load
    <3> SUFFICES ASSUME load # Boards!Idle, ~load.overtaken, NEW s \in DOMAIN load.cards,
                        NEW x \in load.cards[s]
                 PROVE  Boards!OnBoard(load.view.board, x[2])'
      BY <2>1 DEF LoadCurrent
    <3>1. load \in Loads
      BY DEF CacheInv, RequestsBegun
    <3>2. x[2] \in Ids
      BY <3>1, CardsAreLeads DEF Loads
    <3>3. Boards!OnBoard(load.view.board, x[2])
      BY DEF CacheInv, LoadCurrent
    <3> HIDE DEF Boards!OnBoard
    <3> QED
      BY <1>1, <2>1, <3>2, <3>3
  <2>2. CASE load # Boards!Idle /\ load' = [load EXCEPT !.overtaken = TRUE]
    <3>1. load \in Loads
      BY <2>2 DEF CacheInv, RequestsBegun
    <3>2. load'.overtaken = TRUE
      BY <2>2, <3>1, OvertakenLoad
    <3> QED
      BY <3>2 DEF LoadCurrent
  <2> QED
    BY <2>1, <2>2 DEF Unmoved, LoadStays
<1>3. /\ DOMAIN cache' \subseteq DOMAIN cache /\ left' = left /\ now' = now
      /\ \A k \in DOMAIN cache' : cache'[k] = cache[k]
  BY CachesStayed DEF Unmoved
<1>4. CacheShape'
  BY <1>3 DEF CacheShape, CacheInv
<1>5. ASSUME NEW k \in DOMAIN cache' PROVE EntryCurrent(k)'
  <2>1. k \in DOMAIN cache /\ cache'[k] = cache[k]
    BY <1>3
  <2>2. SUFFICES ASSUME ~cache[k].overtaken, NEW s \in DOMAIN cache[k].cards,
                        NEW x \in cache[k].cards[s]
                 PROVE  Lingers(k, x[2])'
    BY <2>1 DEF EntryCurrent
  <2>3. x[2] \in Ids
    BY <2>1, <2>2, CardsAreLeads DEF CacheInv, CacheShape
  <2>4. Lingers(k, x[2])
    BY <2>1, <2>2 DEF CacheInv, EntryCurrent
  <2>5. Boards!OnBoard(k[2].board, x[2]) => Boards!OnBoard(k[2].board, x[2])'
    BY <1>1, <2>3
  <2> QED
    BY <1>3, <2>1, <2>4, <2>5 DEF Lingers
<1>6. \A k \in DOMAIN cache' : EntryCurrent(k)'
  BY <1>5 DEF EntryCurrent, Lingers, Boards!OnBoard
<1> QED
  BY <1>2, <1>4, <1>6

-----------------------------------------------------------------------------
(* Every step.                                                             *)

CacheCurrent == LoadCurrent /\ CacheShape /\ \A k \in DOMAIN cache : EntryCurrent(k)

\* The steps that move no lead on or off a board.
LEMMA WritesMoveNothing ==
    ASSUME CacheInv, NEW i \in Ids,
           \/ \E p \in Servers, u \in Boards!People, s \in BoardStages, note \in Boards!Notes :
                 Boards!Move(p, u, i, s, note)
           \/ \E u \in Boards!People : Boards!AddRemark(u, i) \/ Boards!AssignLead(i, u)
           \/ \E c \in Campaigns : Boards!Enroll(i, c)
           \/ \E p \in Servers : Boards!TouchTask(p, i)
           \/ Boards!Delete(i) \/ Boards!ReassignLead(i)
    PROVE  Unmoved /\ RequestsBegun'
<1> USE DEF Unmoved, LoadStays, CachesStay
<1>0. /\ row \in [Ids -> Boards!Rows]
      /\ \A k \in Ids : row[k] \in Boards!Rows
  BY DEF CacheInv, RowsTyped
<1>1. ASSUME NEW p \in Servers, NEW u \in Boards!People, NEW s \in BoardStages,
             NEW note \in Boards!Notes, Boards!Move(p, u, i, s, note)
      PROVE  Unmoved /\ UNCHANGED deal
  <2>1. \A k \in Ids : row'[k].ai = row[k].ai
    BY <1>0, <1>1 DEF Boards!Move, Boards!Rows
  <2> QED
    BY <1>1, <2>1 DEF Boards!Move
<1>2. ASSUME NEW u \in Boards!People, Boards!AddRemark(u, i) PROVE Unmoved /\ UNCHANGED deal
  BY <1>2 DEF Boards!AddRemark, Boards!boardVars
<1>3. ASSUME NEW u \in Boards!People, Boards!AssignLead(i, u) PROVE Unmoved /\ UNCHANGED deal
  <2>1. \A k \in Ids : row'[k].ai = row[k].ai
    BY <1>0, <1>3 DEF Boards!AssignLead, Boards!Changed, Boards!Rows
  <2> QED
    BY <1>3, <2>1 DEF Boards!AssignLead, Boards!Changed, Boards!boardVars
<1>4. ASSUME NEW c \in Campaigns, Boards!Enroll(i, c) PROVE Unmoved /\ UNCHANGED deal
  <2>1. \A k \in Ids : row'[k].ai = row[k].ai
    BY <1>0, <1>4 DEF Boards!Enroll, Boards!Changed, Boards!Rows
  <2> QED
    BY <1>4, <2>1 DEF Boards!Enroll, Boards!Changed, Boards!boardVars
<1>5. ASSUME Boards!Delete(i) PROVE Unmoved /\ UNCHANGED deal
  <2>1. \A k \in Ids : row'[k].ai = row[k].ai
    BY <1>0, <1>5 DEF Boards!Delete, Boards!Changed, Boards!Rows
  <2> QED
    BY <1>5, <2>1 DEF Boards!Delete, Boards!Changed, Boards!boardVars
<1>6. ASSUME Boards!ReassignLead(i) PROVE Unmoved /\ UNCHANGED deal
  <2>0. PICK agent, pre : row' = [row EXCEPT ![i].agent = agent, ![i].pre = pre]
    BY <1>6 DEF Boards!ReassignLead, Boards!Changed
  <2>1. \A k \in Ids : row'[k].ai = row[k].ai
    BY <1>0, <2>0 DEF Boards!Rows
  <2> QED
    BY <1>6, <2>1 DEF Boards!ReassignLead, Boards!Changed, Boards!boardVars
<1>7. ASSUME NEW p \in Servers, Boards!TouchTask(p, i) PROVE Unmoved /\ UNCHANGED deal
  BY <1>7 DEF Boards!TouchTask
<1>8. Unmoved /\ UNCHANGED deal
  BY <1>1, <1>2, <1>3, <1>4, <1>5, <1>6, <1>7
<1>9. RequestsBegun'
  BY <1>8, RequestsStay DEF CacheInv
<1> QED
  BY <1>8, <1>9

\* Nor do the jobs, the bulk requests and the distributions.
LEMMA JobsMoveNothing ==
    ASSUME CacheInv,
           \/ \E S \in SUBSET Ids, u \in Counsellors : Boards!BulkAssign(S, u)
           \/ Boards!MarkOverdue \/ Boards!DealRead \/ Boards!DealWrite
    PROVE  Unmoved /\ RequestsBegun'
<1> USE DEF Unmoved, LoadStays, CachesStay
<1>0. /\ row \in [Ids -> Boards!Rows]
      /\ \A k \in Ids : row[k] \in Boards!Rows
  BY DEF CacheInv, RowsTyped
<1>1. ASSUME NEW S \in SUBSET Ids, NEW u \in Counsellors, Boards!BulkAssign(S, u)
      PROVE  Unmoved /\ UNCHANGED deal
  <2>1. \A k \in Ids : row'[k].ai = row[k].ai
    <3>1. \A k \in Ids : row'[k] = IF k \in S \cap Boards!Live THEN [row[k] EXCEPT !.agent = u] ELSE row[k]
      BY <1>1 DEF Boards!BulkAssign, Boards!Changed
    <3>2. \A k \in Ids : [row[k] EXCEPT !.agent = u].ai = row[k].ai
      BY <1>0 DEF Boards!Rows
    <3> QED
      BY <3>1, <3>2
  <2> QED
    BY <1>1, <2>1 DEF Boards!BulkAssign, Boards!Changed, Boards!boardVars
<1>2. CASE Boards!MarkOverdue
  <2>1. Unmoved /\ UNCHANGED deal
    BY <1>2 DEF Boards!MarkOverdue, Boards!boardVars
  <2> QED
    BY <2>1, RequestsStay DEF CacheInv
<1>3. CASE Boards!DealRead
  <2>1. Unmoved /\ UNCHANGED load
    BY <1>3 DEF Boards!DealRead, Boards!desk, Boards!boardVars
  <2>2. PICK ranges \in Deals, free \in BOOLEAN, s \in DealStages, order \in Orders,
             turn \in Boards!Turns :
           deal' = [at |-> "read", ranges |-> ranges, free |-> free, order |-> order, turn |-> turn,
                    ids |-> Boards!Eligible(free, s), owners |-> [i \in Ids |-> row[i].agent]]
    BY <1>3 DEF Boards!DealRead
  <2>3. Boards!Eligible(free, s) \in SUBSET Ids
    BY DEF Boards!Eligible, Boards!Live
  <2>4. [i \in Ids |-> row[i].agent] \in [Ids -> Boards!People \cup {Unassigned}]
    BY <1>0 DEF Boards!Rows
  <2>5. deal' \in DealsRead
    BY <2>2, <2>3, <2>4 DEF DealsRead
  <2> QED
    BY <2>1, <2>5 DEF CacheInv, RequestsBegun
<1>4. CASE Boards!DealWrite
  <2>1. \A k \in Ids : row'[k].ai = row[k].ai
    <3>1. \A k \in Ids : row'[k] = row[k] \/ \E u : row'[k] = [row[k] EXCEPT !.agent = u]
      BY <1>4 DEF Boards!DealWrite
    <3>2. ASSUME NEW k \in Ids, NEW u PROVE [row[k] EXCEPT !.agent = u].ai = row[k].ai
      BY <1>0 DEF Boards!Rows
    <3> SUFFICES ASSUME NEW k \in Ids PROVE row'[k].ai = row[k].ai
      OBVIOUS
    <3>3. CASE row'[k] # row[k]
      <4>1. PICK u : row'[k] = [row[k] EXCEPT !.agent = u]
        BY <3>1, <3>3
      <4> QED
        BY <4>1, <3>2
    <3> QED
      BY <3>3
  <2>2. Unmoved /\ deal' = Boards!Idle
    BY <1>4, <2>1 DEF Boards!DealWrite, Boards!boardVars
  <2> QED
    BY <2>2, RequestsStay DEF CacheInv
<1>5. ASSUME Unmoved, UNCHANGED deal PROVE RequestsBegun'
  BY <1>5, RequestsStay DEF CacheInv
<1> QED
  BY <1>1, <1>2, <1>3, <1>4, <1>5

\* move_pipeline and update_lead: the processes that keep their caches say when.
LEMMA MovedOver ==
    ASSUME CacheInv, NEW u \in Boards!People, NEW i \in Ids, NEW p,
           Boards!HandOver(p, u, i) \/ Boards!EditOver(u, i)
    PROVE  CacheCurrent' /\ RequestsBegun'
<1>1. LoadStays /\ UNCHANGED <<deal, now>>
  BY DEF Boards!HandOver, Boards!EditOver, Boards!Overtaken, LoadStays
<1>2. RequestsBegun'
  BY <1>1, RequestsStay DEF CacheInv
<1>3. LoadCurrent'
  <2>1. CASE load = Boards!Idle
    BY <2>1 DEF LoadCurrent, Boards!HandOver, Boards!EditOver, Boards!Overtaken
  <2>2. CASE load # Boards!Idle
    <3>1. load \in Loads /\ load' = [load EXCEPT !.overtaken = TRUE]
      BY <2>2 DEF CacheInv, RequestsBegun, Boards!HandOver, Boards!EditOver, Boards!Overtaken
    <3>2. load'.overtaken = TRUE
      BY <3>1, OvertakenLoad
    <3> QED
      BY <3>2 DEF LoadCurrent
  <2> QED
    BY <2>1, <2>2
<1>4. PICK keeping :
         /\ Boards!Leaves(i, keeping)
         /\ DOMAIN cache' \subseteq DOMAIN cache
         /\ \A k \in DOMAIN cache' : k[1] \in keeping /\ cache'[k] = cache[k]
  <2>0. DOMAIN cache \subseteq Servers \X Kept /\ \A k \in Servers \X Kept : k[1] \in Servers
    BY DEF CacheInv, CacheShape
  <2>1. CASE Boards!HandOver(p, u, i)
    <3>1. Boards!Leaves(i, Servers \ {p}) /\ Boards!Invalidate(p)
      BY <2>1 DEF Boards!HandOver
    <3>2. /\ DOMAIN cache' = {k \in DOMAIN cache : k[1] # p}
          /\ \A k \in DOMAIN cache' : cache'[k] = cache[k]
      BY <3>1 DEF Boards!Invalidate
    <3> QED
      BY <2>0, <3>1, <3>2
  <2>2. CASE Boards!EditOver(u, i)
    <3>1. Boards!Leaves(i, Servers) /\ UNCHANGED cache
      BY <2>2 DEF Boards!EditOver
    <3> QED
      BY <2>0, <3>1
  <2> QED
    BY <2>1, <2>2
<1>5. /\ \A k \in Ids : k # i => row'[k] = row[k]
      /\ \A q \in Servers, k \in Ids : k # i => left'[q][k] = left[q][k]
      /\ \A q \in Servers : q \in keeping => left'[q][i] = now
      /\ now \in 0..MaxTick /\ BoardTTL \in Nat /\ MaxTick \in Nat
  <2>1. /\ row \in [Ids -> Boards!Rows] /\ left \in [Servers -> [Ids -> Boards!Never..MaxTick]]
        /\ now \in 0..MaxTick /\ BoardTTL \in Nat /\ MaxTick \in Nat
    BY TheBoards DEF CacheInv, RowsTyped, ClockTyped
  <2>2. \A k \in Ids : k # i => row'[k] = row[k]
    BY <2>1 DEF Boards!HandOver, Boards!EditOver
  <2>3. \A q \in Servers : left'[q] = IF q \in keeping THEN [left[q] EXCEPT ![i] = now] ELSE left[q]
    BY <1>4 DEF Boards!Leaves
  <2>4. \A q \in Servers : left[q] \in [Ids -> Boards!Never..MaxTick]
    BY <2>1
  <2> QED
    BY <2>1, <2>2, <2>3, <2>4
<1>6. CacheShape'
  BY <1>1, <1>4 DEF CacheInv, CacheShape
<1>7. ASSUME NEW k \in DOMAIN cache' PROVE EntryCurrent(k)'
  <2>1. /\ k \in DOMAIN cache /\ cache'[k] = cache[k] /\ k[1] \in keeping /\ k[1] \in Servers
    <3>1. k \in Servers \X Kept
      BY <1>4 DEF CacheInv, CacheShape
    <3> QED
      BY <1>4, <3>1
  <2>2. SUFFICES ASSUME ~cache[k].overtaken, NEW s \in DOMAIN cache[k].cards,
                        NEW x \in cache[k].cards[s]
                 PROVE  Lingers(k, x[2])'
    BY <2>1 DEF EntryCurrent
  <2>3. x[2] \in Ids /\ cache[k].until \in Nat /\ cache[k].until <= now + BoardTTL
    BY <2>1, <2>2, CardsAreLeads DEF CacheInv, CacheShape
  <2>4. Lingers(k, x[2])
    BY <2>1, <2>2 DEF CacheInv, EntryCurrent
  <2>5. CASE x[2] = i
    <3>1. left'[k[1]][i] = now
      BY <1>5, <2>1
    <3>2. now # Boards!Never
      BY <1>5 DEF Boards!Never
    <3> QED
      BY <1>5, <2>1, <2>3, <2>5, <3>1, <3>2 DEF Lingers
  <2>6. CASE x[2] # i
    <3>1. row'[x[2]] = row[x[2]] /\ left'[k[1]][x[2]] = left[k[1]][x[2]]
      BY <1>5, <2>1, <2>3, <2>6
    <3> QED
      BY <2>1, <2>4, <3>1 DEF Lingers, Boards!OnBoard
  <2> QED
    BY <2>5, <2>6
<1>8. \A k \in DOMAIN cache' : EntryCurrent(k)'
  BY <1>7 DEF EntryCurrent, Lingers, Boards!OnBoard
<1> QED
  BY <1>2, <1>3, <1>6, <1>8 DEF CacheCurrent

\* list_leads_by_stage: the cards, then the headers and the cache.
LEMMA LoadsBoard ==
    ASSUME CacheInv, (\E p \in Servers, v \in Kept : Boards!LoadCards(p, v)) \/ Boards!LoadHeaders
    PROVE  CacheCurrent' /\ RequestsBegun'
<1>0. UNCHANGED <<row, left, now, deal>>
  BY DEF Boards!LoadCards, Boards!LoadHeaders, Boards!desk
<1>b. \A b, i : Boards!OnBoard(b, i) => Boards!OnBoard(b, i)'
  BY <1>0 DEF Boards!OnBoard
<1>1. ASSUME NEW p \in Servers, NEW v \in Kept, Boards!LoadCards(p, v)
      PROVE  CacheCurrent' /\ RequestsBegun'
  <2>0. PICK turn \in Boards!Turns :
           load' = [at |-> "cards", process |-> p, view |-> v, overtaken |-> FALSE,
                    cards |-> [s \in Boards!Columns(v.board) |-> Boards!Cards(v, s, turn, 0)]]
    BY <1>1 DEF Boards!LoadCards
  <2> DEFINE cards == [s \in Boards!Columns(v.board) |-> Boards!Cards(v, s, turn, 0)]
             key == <<p, v>>
  <2>1. /\ load' = [at |-> "cards", process |-> p, view |-> v, overtaken |-> FALSE, cards |-> cards]
        /\ cache' = [k \in DOMAIN cache \ {key} |-> cache[k]]
    BY <1>1, <2>0 DEF Boards!LoadCards
  <2>2. /\ \A s \in DOMAIN cards : cards[s] = Boards!Cards(v, s, turn, 0)
        /\ DOMAIN cards \subseteq BoardStages
    BY TheBoards DEF Boards!Columns
  <2>3. v.limit \in Nat
    BY TheBoards, BoardsConstants DEF Boards!BoardsAssumption, Boards!Views
  <2>4. \A s : \A x \in Boards!Cards(v, s, turn, 0) : /\ x \in Nat \X Ids
                                                    /\ Boards!OnBoard(v.board, x[2])
    BY <2>3 DEF Boards!Cards, Boards!Column, Boards!Filtered, Boards!Live
  <2>5. cards \in [DOMAIN cards -> SUBSET (Nat \X Ids)]
    <3>1. \A s \in DOMAIN cards : cards[s] \in SUBSET (Nat \X Ids)
      BY <2>2, <2>4
    <3> QED
      BY <3>1
  <2>5a. \A s \in DOMAIN cards : \A x \in cards[s] : Boards!OnBoard(v.board, x[2])
    BY <2>2, <2>4
  <2> HIDE DEF cards, key
  <2>6. cards \in Answers
    BY <2>2, <2>5 DEF Answers
  <2>7. load' \in Loads
    BY <2>1, <2>6 DEF Loads
  <2>8. LoadCurrent'
    <3>1. \A s \in DOMAIN cards : \A x \in cards[s] : Boards!OnBoard(v.board, x[2])'
      BY <2>5a, <1>b
    <3>2. load'.view = v /\ load'.cards = cards
      BY <2>1
    <3> QED
      BY <3>1, <3>2 DEF LoadCurrent, Boards!OnBoard
  <2>9. /\ DOMAIN cache' = DOMAIN cache \ {key}
        /\ \A k \in DOMAIN cache' : k \in DOMAIN cache /\ cache'[k] = cache[k]
    BY <2>1
  <2>10. CacheShape'
    BY <1>0, <2>9 DEF CacheInv, CacheShape
  <2>11. \A k \in DOMAIN cache' : EntryCurrent(k)'
    BY <1>0, <2>9 DEF CacheInv, EntryCurrent, Lingers, Boards!OnBoard
  <2> QED
    BY <1>0, <2>7, <2>8, <2>10, <2>11 DEF CacheCurrent, CacheInv, RequestsBegun
<1>2. CASE Boards!LoadHeaders
  <2> DEFINE v == load.view
             key == <<load.process, v>>
             entry == [cards |-> load.cards, until |-> now + BoardTTL, overtaken |-> load.overtaken,
                       headers |-> [s \in Boards!Columns(v.board) |-> Boards!Header(v, s)]]
  <2>1. /\ load # Boards!Idle /\ load' = Boards!Idle
        /\ cache' = [k \in DOMAIN cache \cup {key} |-> IF k = key THEN entry ELSE cache[k]]
    BY <1>2 DEF Boards!LoadHeaders
  <2>2. load \in Loads
    BY <2>1 DEF CacheInv, RequestsBegun
  <2>3. key \in Servers \X Kept /\ key[2] = v /\ load.cards \in Answers
    BY <2>2 DEF Loads
  <2>4. /\ entry.cards = load.cards /\ entry.until = now + BoardTTL
        /\ entry.overtaken = load.overtaken
    OBVIOUS
  <2> HIDE DEF entry, key
  <2>5. /\ DOMAIN cache' = DOMAIN cache \cup {key} /\ cache'[key] = entry
        /\ \A k \in DOMAIN cache' : k # key => k \in DOMAIN cache /\ cache'[k] = cache[k]
    BY <2>1
  <2>6. now + BoardTTL \in Nat /\ now + BoardTTL <= now + BoardTTL
    BY TheBoards DEF CacheInv, ClockTyped
  <2>7. CacheShape'
    <3>1. DOMAIN cache' \subseteq Servers \X Kept
      BY <2>3, <2>5 DEF CacheInv, CacheShape
    <3>2. ASSUME NEW k \in DOMAIN cache'
          PROVE  /\ cache'[k].cards \in Answers
                 /\ cache'[k].until \in Nat /\ cache'[k].until <= now' + BoardTTL
      <4>1. CASE k = key
        BY <1>0, <2>3, <2>4, <2>5, <2>6, <4>1
      <4>2. CASE k # key
        BY <1>0, <2>5, <4>2, <3>2 DEF CacheInv, CacheShape
      <4> QED
        BY <4>1, <4>2
    <3> QED
      BY <3>1, <3>2 DEF CacheShape
  <2>8. ASSUME NEW k \in DOMAIN cache' PROVE EntryCurrent(k)'
    <3>1. CASE k = key
      <4>1. SUFFICES ASSUME ~entry.overtaken, NEW s \in DOMAIN entry.cards, NEW x \in entry.cards[s]
                     PROVE  Lingers(k, x[2])'
        BY <2>5, <3>1 DEF EntryCurrent
      <4>2. Boards!OnBoard(k[2].board, x[2])
        BY <2>1, <2>3, <2>4, <3>1, <4>1 DEF CacheInv, LoadCurrent
      <4> QED
        BY <1>b, <4>2 DEF Lingers
    <3>2. CASE k # key
      <4>1. k \in DOMAIN cache /\ cache'[k] = cache[k]
        BY <2>5, <3>2, <2>8
      <4>2. EntryCurrent(k)
        BY <4>1 DEF CacheInv
      <4> QED
        BY <1>0, <4>1, <4>2 DEF EntryCurrent, Lingers, Boards!OnBoard
    <3> QED
      BY <3>1, <3>2
  <2>9. \A k \in DOMAIN cache' : EntryCurrent(k)'
    BY <2>8 DEF EntryCurrent, Lingers, Boards!OnBoard
  <2>10. LoadCurrent' /\ RequestsBegun'
    BY <1>0, <2>1 DEF LoadCurrent, CacheInv, RequestsBegun
  <2> QED
    BY <2>7, <2>9, <2>10 DEF CacheCurrent
<1> QED
  BY <1>1, <1>2

\* A tick, and nothing.
LEMMA TicksOn ==
    ASSUME CacheInv, Boards!Tick \/ UNCHANGED Boards!vars
    PROVE  CacheCurrent' /\ RequestsBegun'
<1>1. UNCHANGED <<row, left, cache, load, deal>> /\ now' \in {now, now + 1}
  BY DEF Boards!Tick, Boards!vars, Boards!desk, Boards!boardVars
<1>2. LoadCurrent' /\ RequestsBegun'
  BY <1>1 DEF CacheInv, LoadCurrent, RequestsBegun, Boards!OnBoard
<1>3. now \in Nat /\ BoardTTL \in Nat
  BY TheBoards DEF CacheInv, ClockTyped
<1>4. CacheShape'
  BY <1>1, <1>3 DEF CacheInv, CacheShape
<1>5. \A k \in DOMAIN cache' : EntryCurrent(k)'
  BY <1>1 DEF CacheInv, EntryCurrent, Lingers, Boards!OnBoard
<1> QED
  BY <1>2, <1>4, <1>5 DEF CacheCurrent

\* At the start there is nothing in the cache.
LEMMA CacheBegins == ASSUME Boards!Init PROVE CacheInv
<1> USE DEF CacheInv
<1>0. /\ MaxTick \in Nat /\ {"created", "lost"} \subseteq BoardStages
  BY TheBoards
<1>1. ClockTyped
  BY <1>0 DEF Boards!Init, ClockTyped, Boards!Never
<1>2. RequestsBegun /\ LoadCurrent
  BY DEF Boards!Init, RequestsBegun, LoadCurrent
<1>3. RowsTyped
  <2>1. \A b \in BOOLEAN : [stage |-> "created", agent |-> Unassigned, pre |-> Unassigned,
                            deleted |-> FALSE, ai |-> b, in |-> {}] \in Boards!Rows
    <3>1. \A b \in {TRUE, FALSE} : [stage |-> "created", agent |-> Unassigned, pre |-> Unassigned,
                            deleted |-> FALSE, ai |-> b, in |-> {}] \in Boards!Rows
      BY <1>0 DEF Boards!Rows
    <3> QED
      BY <3>1
  <2>2. row \in [Ids -> Boards!Rows]
    BY <2>1 DEF Boards!Init
  <2>3. callback \in [Ids -> Boards!Callbacks]
    <3>1. [owner |-> Admin, status |-> "pending", updated |-> 0, completed |-> Boards!Never]
              \in Boards!Callbacks
      BY <1>0 DEF Boards!Callbacks, Boards!Never, Boards!People
    <3> QED
      BY <3>1 DEF Boards!Init
  <2> QED
    BY <2>2, <2>3 DEF RowsTyped
<1>4. LogsTyped
  BY FS_EmptySet DEF LogsTyped, Boards!Init
<1>5. DOMAIN cache = {}
  BY DEF Boards!Init, Boards!Empty
<1> QED
  BY <1>1, <1>2, <1>3, <1>4, <1>5 DEF CacheShape

\* Every step of the boards.
LEMMA CacheStep ==
    ASSUME CacheInv, [Boards!Next]_(Boards!vars)
    PROVE  CacheInv'
<1>1. CacheCurrent' /\ RequestsBegun'
  <2>1. ASSUME Unmoved PROVE CacheCurrent'
    BY <2>1, UnmovedKeeps DEF CacheCurrent
  <2>2. ASSUME NEW i \in Ids, Boards!LeadWrite(i) PROVE CacheCurrent' /\ RequestsBegun'
    BY <2>2, <2>1, WritesMoveNothing, MovedOver DEF Boards!LeadWrite
  <2> QED
    BY <2>1, <2>2, JobsMoveNothing, LoadsBoard, TicksOn DEF Boards!Next
<1>2. RowsTyped' /\ LogsTyped' /\ ClockTyped'
  <2>1. CASE UNCHANGED Boards!vars
    BY <2>1 DEF CacheInv, RowsTyped, LogsTyped, ClockTyped, Boards!vars, Boards!desk
  <2> QED
    BY <2>1, TypesKept DEF CacheInv
<1> QED
  BY <1>1, <1>2 DEF CacheInv, CacheCurrent

\* What the invariant says of an answer that may still be given.
LEMMA CachedIsRight == ASSUME CacheInv PROVE Boards!LeavesItsBoard
<1> SUFFICES ASSUME NEW k \in Boards!Servable, ~cache[k].overtaken,
                    NEW s \in DOMAIN cache[k].cards, NEW x \in cache[k].cards[s]
             PROVE  \/ Boards!OnBoard(k[2].board, x[2])
                    \/ left[k[1]][x[2]] # Boards!Never /\ now <= left[k[1]][x[2]] + BoardTTL
  BY DEF Boards!LeavesItsBoard
<1>1. k \in DOMAIN cache /\ now <= cache[k].until
  BY DEF Boards!Servable
<1>2. Lingers(k, x[2])
  BY <1>1 DEF CacheInv, EntryCurrent
<1>3. /\ now \in Nat /\ cache[k].until \in Nat /\ BoardTTL \in Nat /\ x[2] \in Ids
      /\ MaxTick \in Nat /\ k \in Servers \X Kept
      /\ left \in [Servers -> [Ids -> Boards!Never..MaxTick]]
  BY <1>1, CardsAreLeads, TheBoards DEF CacheInv, CacheShape, ClockTyped
<1>4. left[k[1]][x[2]] \in Int
  <2>1. k[1] \in Servers
    BY <1>3
  <2>2. left[k[1]] \in [Ids -> Boards!Never..MaxTick]
    BY <1>3, <2>1
  <2> QED
    BY <1>3, <2>2 DEF Boards!Never
<1> QED
  BY <1>1, <1>2, <1>3, <1>4 DEF Lingers

-----------------------------------------------------------------------------
(* A distribution.                                                         *)

\* A distribution of the unassigned has read leads that were nobody's.
DealRight ==
    deal # Boards!Idle =>
        (deal.free => \A i \in deal.ids : deal.owners[i] = Unassigned)

\* A distribution takes what its list holds, and only a distribution ends one.
LEMMA DealStep ==
    ASSUME RowsTyped, DealRight, [Boards!Next]_(Boards!vars)
    PROVE  DealRight' /\ [Boards!DealsFreeOnes]_(Boards!vars)
<1>1. CASE UNCHANGED deal
  <2>1. DealRight'
    BY <1>1 DEF DealRight
  <2> QED
    BY <1>1, <2>1 DEF Boards!DealsFreeOnes
<1>2. CASE Boards!DealRead
  <2>1. PICK ranges \in Deals, free \in BOOLEAN, s \in DealStages, order \in Orders,
             turn \in Boards!Turns :
           deal' = [at |-> "read", ranges |-> ranges, free |-> free, order |-> order, turn |-> turn,
                    ids |-> Boards!Eligible(free, s), owners |-> [i \in Ids |-> row[i].agent]]
    BY <1>2 DEF Boards!DealRead
  <2>2. DealRight'
    <3>1. /\ deal'.ids = Boards!Eligible(free, s)
          /\ \A i \in Ids : deal'.owners[i] = row[i].agent
          /\ deal'.free <=> free
      BY <2>1
    <3>2. ASSUME free, NEW i \in Boards!Eligible(free, s)
          PROVE  i \in Ids /\ row[i].agent = Unassigned
      BY <3>2 DEF Boards!Eligible, Boards!Live
    <3> QED
      BY <3>1, <3>2 DEF DealRight
  <2> QED
    BY <1>2, <2>2 DEF Boards!DealsFreeOnes, Boards!DealRead
<1>3. CASE Boards!DealWrite
  <2>1. deal # Boards!Idle /\ deal' = Boards!Idle
    BY <1>3 DEF Boards!DealWrite
  <2>2. \A i \in Ids : i \notin deal.ids => row'[i] = row[i]
    BY <1>3 DEF Boards!DealWrite
  <2> QED
    BY <2>1, <2>2 DEF DealRight, Boards!DealsFreeOnes
<1> HIDE DEF DealRight
<1>4. CASE UNCHANGED Boards!vars
  BY <1>1, <1>4 DEF Boards!vars
<1>5. ASSUME NEW i \in Ids, Boards!LeadWrite(i) PROVE UNCHANGED deal
  BY <1>5 DEF Boards!LeadWrite, Boards!Move, Boards!AddRemark, Boards!HandOver, Boards!EditOver,
              Boards!AssignLead, Boards!Enroll, Boards!Delete, Boards!ReassignLead,
              Boards!TouchTask, Boards!Changed
<1>6. ASSUME NEW S, NEW u, Boards!BulkAssign(S, u) PROVE UNCHANGED deal
  BY <1>6 DEF Boards!BulkAssign, Boards!Changed
<1>7. Boards!MarkOverdue \/ Boards!LoadHeaders \/ Boards!Tick
          \/ (\E p \in Servers, v \in Kept : Boards!LoadCards(p, v)) => UNCHANGED deal
  BY DEF Boards!MarkOverdue, Boards!LoadHeaders, Boards!Tick, Boards!LoadCards
<1> QED
  BY <1>1, <1>2, <1>3, <1>4, <1>5, <1>6, <1>7 DEF Boards!Next

-----------------------------------------------------------------------------
(* The screens side by side.                                               *)

\* A step of the screens is one of the boards, or leaves them alone.
LEMMA BoardsStep ==
    [ScreensNext]_ScreensVars => [Boards!Next]_(Boards!vars)
  BY DEF ScreensNext, ScreensVars, boardsState, Boards!vars, Boards!desk, Boards!boardVars

\* What is in the caches of boards, and what a board that is being computed holds, is of the
\* kept boards, and shows a lead that is not on its board only where the lead was taken away by
\* an edit, or by a move that another process served (list_leads_by_stage with the
\* _kanban_cache of each process, and the requests that drop it).
THEOREM BoardsInvariant == ScreensSpec => []CacheInv
<1>1. ScreensInit => CacheInv
  BY CacheBegins DEF ScreensInit
<1>2. CacheInv /\ [ScreensNext]_ScreensVars => CacheInv'
  BY BoardsStep, CacheStep
<1> QED
  BY <1>1, <1>2, PTL DEF ScreensSpec

\* A board from the cache of a process does not show a lead that move_pipeline took off it in
\* that process; one that update_lead took off it, or move_pipeline in another process, only
\* within the time to live (_KANBAN_CACHE_TTL_S).
THEOREM CacheAlwaysFollows == ScreensSpec => []CacheFollowsMoves
<1>1. CacheInv => CacheFollowsMoves
  BY CachedIsRight DEF CacheFollowsMoves
<1> QED
  BY <1>1, BoardsInvariant, PTL

\* A distribution of the unassigned (distribute_by_range) takes no lead from a counsellor
\* who had it when the list was read.
THEOREM DealsOnlyFreeOnes == ScreensSpec => DealsFreeOnesOnly
<1>1. ScreensInit => DealRight
  BY DEF ScreensInit, Boards!Init, DealRight
<1>2. CacheInv /\ DealRight /\ [ScreensNext]_ScreensVars
          => DealRight' /\ [Boards!DealsFreeOnes]_(Boards!vars)
  BY BoardsStep, DealStep DEF CacheInv
<1> QED
  BY <1>1, <1>2, BoardsInvariant, PTL DEF ScreensSpec, DealsFreeOnesOnly, Boards!FreeOnesOnly

-----------------------------------------------------------------------------
(* The pages of a column.                                                  *)

\* Leads that are not told apart by the order of a column tie: it is a weak order.
LEMMA SortsLeads ==
    ASSUME NEW sort, NEW i \in Ids, NEW k \in Ids, NEW m \in Ids
    PROVE  /\ ~(Boards!Before(sort, i, k) /\ Boards!Before(sort, k, i))
           /\ Boards!Before(sort, i, m) => Boards!Before(sort, i, k) \/ Boards!Before(sort, k, m)
<1>1. /\ Born[i] \in Nat /\ Born[k] \in Nat /\ Born[m] \in Nat
      /\ Amount[i] \in Nat /\ Amount[k] \in Nat /\ Amount[m] \in Nat
  BY TheBoards
<1>2. CASE sort = "loan_asc"
  BY <1>1, <1>2 DEF Boards!Before
<1>3. CASE sort = "loan_desc"
  BY <1>1, <1>3 DEF Boards!Before
<1>4. CASE sort = "created_at_asc"
  BY <1>1, <1>4 DEF Boards!Before
<1>5. CASE sort \notin {"loan_asc", "loan_desc", "created_at_asc"}
  BY <1>1, <1>5 DEF Boards!Before
<1> QED
  BY <1>2, <1>3, <1>4, <1>5

\* With its turns a query has one order: of two leads one precedes the other, and of three
\* that precede one another the first precedes the last.
LEMMA SortsOn ==
    ASSUME NEW sort, NEW turn \in Boards!Turns, NEW i \in Ids, NEW k \in Ids, NEW m \in Ids
    PROVE  /\ ~Boards!Precedes(sort, turn, i, i)
           /\ i # k => Boards!Precedes(sort, turn, i, k) \/ Boards!Precedes(sort, turn, k, i)
           /\ Boards!Precedes(sort, turn, i, k) /\ Boards!Precedes(sort, turn, k, m)
                 => Boards!Precedes(sort, turn, i, m)
<1>1. /\ turn[i] \in Nat /\ turn[k] \in Nat /\ turn[m] \in Nat /\ (turn[i] = turn[k] => i = k)
  <2>1. Ids \subseteq Nat
    BY TheBoards
  <2> QED
    BY <2>1 DEF Boards!Turns
<1>2. ~Boards!Before(sort, i, i)
  BY SortsLeads
<1>3. ~(Boards!Before(sort, i, k) /\ Boards!Before(sort, k, i))
  BY SortsLeads
<1>4. /\ Boards!Before(sort, i, m) => Boards!Before(sort, i, k) \/ Boards!Before(sort, k, m)
      /\ Boards!Before(sort, m, i) => Boards!Before(sort, m, k) \/ Boards!Before(sort, k, i)
      /\ Boards!Before(sort, i, k) => Boards!Before(sort, i, m) \/ Boards!Before(sort, m, k)
      /\ Boards!Before(sort, k, m) => Boards!Before(sort, k, i) \/ Boards!Before(sort, i, m)
      /\ ~(Boards!Before(sort, k, m) /\ Boards!Before(sort, m, k))
  BY SortsLeads
<1> QED
  BY <1>1, <1>2, <1>3, <1>4 DEF Boards!Precedes, Boards!Tied

\* The number of each of these leads, in the order of a query.
InOrder(sort, turn, D) ==
    [i \in D |-> Cardinality({k \in D : Boards!Precedes(sort, turn, k, i)}) + 1]

\* Numbers from one on, each of one lead.
Numbers(r, D) ==
    /\ r \in [D -> 1..Cardinality(D)]
    /\ \A i, k \in D : r[i] = r[k] => i = k
    /\ \A n \in 1..Cardinality(D) : \E i \in D : r[i] = n

\* What stands before each of finitely many leads numbers them from one.
LEMMA NumbersInTurn ==
    ASSUME NEW sort, NEW turn \in Boards!Turns, NEW D \in SUBSET Ids
    PROVE  Numbers(InOrder(sort, turn, D), D)
<1> DEFINE r == InOrder(sort, turn, D)
           before(i) == {k \in D : Boards!Precedes(sort, turn, k, i)}
           n == Cardinality(D)
<1>0. \A i, k \in D : /\ ~Boards!Precedes(sort, turn, i, i)
                      /\ i # k => Boards!Precedes(sort, turn, i, k) \/ Boards!Precedes(sort, turn, k, i)
  BY SortsOn
<1>1. IsFiniteSet(D) /\ n \in Nat
  BY TheBoards, FS_Subset, FS_CardinalityType
<1>2. ASSUME NEW i \in D
      PROVE  /\ IsFiniteSet(before(i)) /\ Cardinality(before(i)) \in Nat
             /\ i \notin before(i) /\ before(i) \subseteq D
  <2>1. IsFiniteSet(before(i))
    BY <1>1, FS_Subset
  <2> QED
    BY <1>0, <2>1, FS_CardinalityType
<1>3. ASSUME NEW i \in D PROVE Cardinality(before(i)) < n
  <2>1. before(i) \cup {i} \subseteq D
    OBVIOUS
  <2>2. Cardinality(before(i) \cup {i}) <= n
    BY <1>1, <2>1, FS_Subset
  <2>3. Cardinality(before(i) \cup {i}) = Cardinality(before(i)) + 1
    BY <1>2, FS_AddElement
  <2> QED
    BY <1>1, <1>2, <2>2, <2>3
<1>4. ASSUME NEW i \in D, NEW k \in D, Boards!Precedes(sort, turn, i, k)
      PROVE  Cardinality(before(i)) < Cardinality(before(k))
  <2>1. before(i) \cup {i} \subseteq before(k)
    BY <1>4, SortsOn
  <2>2. Cardinality(before(i) \cup {i}) <= Cardinality(before(k))
    BY <1>2, <2>1, FS_Subset
  <2>3. Cardinality(before(i) \cup {i}) = Cardinality(before(i)) + 1
    BY <1>2, FS_AddElement
  <2>4. Cardinality(before(i)) \in Nat /\ Cardinality(before(k)) \in Nat
    BY <1>2
  <2> HIDE DEF before
  <2> QED
    BY <2>2, <2>3, <2>4
<1>5. r = [i \in D |-> Cardinality(before(i)) + 1]
  BY DEF InOrder
<1> HIDE DEF before, n, r
<1>6. r \in [D -> 1..n]
  <2>1. \A i \in D : r[i] \in 1..n
    BY <1>1, <1>2, <1>3, <1>5
  <2> QED
    BY <1>5, <2>1
<1>7. \A i, k \in D : r[i] = r[k] => i = k
  BY <1>0, <1>2, <1>4, <1>5
<1>8. r \in Surjection(D, 1..n)
  <2>1. r \in Injection(D, 1..n)
    BY <1>6, <1>7 DEF Injection, IsInjective
  <2>2. Cardinality(1..n) = n /\ IsFiniteSet(1..n)
    BY <1>1, FS_Interval
  <2> QED
    BY <1>1, <2>1, <2>2, FS_Injection DEF n
<1> QED
  BY <1>6, <1>7, <1>8 DEF Surjection, Numbers, n, r

-----------------------------------------------------------------------------
(* The leads that are on a board.                                          *)

\* The leads of a column that the join does not lose: those the list has on the board.
Shown(v, s) == {i \in Boards!Column(v, s) : v.campaigns # {} => row[i].in \cap v.campaigns # {}}

\* A board asked for with one campaign at the most has a lead once or not at all.
LEMMA CopiesOf ==
    ASSUME NEW v \in Asked, Cardinality(v.campaigns) <= 1, NEW s
    PROVE  /\ \A i \in Shown(v, s) : Boards!Copies(v, i) = 1
           /\ \A i \in Boards!Column(v, s) \ Shown(v, s) : Boards!Copies(v, i) = 0
<1>1. v.campaigns \in SUBSET Campaigns
  BY TheBoards DEF Boards!Views
<1>2. IsFiniteSet(v.campaigns)
  BY <1>1, TheBoards, FS_Subset
<1>3. CASE v.campaigns = {}
  BY <1>3 DEF Boards!Copies, Shown
<1>4. CASE v.campaigns # {}
  <2>1. PICK c : v.campaigns = {c}
    <3>1. Cardinality(v.campaigns) \in Nat /\ Cardinality(v.campaigns) # 0
      BY <1>2, <1>4, FS_CardinalityType, FS_EmptySet
    <3>2. PICK c : c \in v.campaigns
      BY <1>4
    <3>3. IsFiniteSet(v.campaigns \ {c}) /\ Cardinality(v.campaigns \ {c}) = Cardinality(v.campaigns) - 1
      BY <1>2, <3>2, FS_RemoveElement
    <3>4. Cardinality(v.campaigns \ {c}) = 0
      BY <3>1, <3>3
    <3>5. v.campaigns \ {c} = {}
      BY <3>3, <3>4, FS_EmptySet
    <3> QED
      BY <3>2, <3>5
  <2>2. \A i : row[i].in \cap v.campaigns # {} => row[i].in \cap v.campaigns = {c}
    BY <2>1
  <2>3. Cardinality({c}) = 1 /\ Cardinality({}) = 0
    BY FS_Singleton, FS_EmptySet
  <2>4. \A i : Boards!Copies(v, i) = Cardinality(row[i].in \cap v.campaigns)
    BY <1>4, SameCounts DEF Boards!Copies
  <2> QED
    BY <1>4, <2>2, <2>3, <2>4 DEF Shown
<1> QED
  BY <1>3, <1>4

\* A sum of copies counts the leads that are shown.
LEMMA CopiesCount ==
    ASSUME NEW v \in Asked, Cardinality(v.campaigns) <= 1, NEW s,
           NEW C \in SUBSET Boards!Column(v, s)
    PROVE  Boards!SumOf([i \in C |-> Boards!Copies(v, i)]) = Cardinality(C \cap Shown(v, s))
<1> DEFINE w == [i \in C |-> Boards!Copies(v, i)]
           T == C \cap Shown(v, s)
<1>1. /\ \A i \in T : w[i] = 1
      /\ \A i \in C \ T : w[i] = 0
      /\ DOMAIN w = C
  BY CopiesOf
<1>2. IsFiniteSet(C) /\ IsFiniteSet(T) /\ T \subseteq C
  <2>1. C \subseteq Ids
    BY DEF Boards!Column, Boards!Filtered, Boards!Live
  <2> QED
    BY <2>1, TheBoards, FS_Subset
<1>3. Boards!SumOf(w) = SumFunctionOnSet(w, C)
  BY <1>1, SameSums DEF Boards!SumOf
<1> HIDE DEF w, T
<1>4. SumFunctionOnSet(w, C) = SumFunctionOnSet(w, T)
  BY <1>1, <1>2, SumOutside
<1>5. SumFunctionOnSet(w, T) = Cardinality(T)
  BY <1>1, <1>2, SumOnes
<1> QED
  BY <1>3, <1>4, <1>5 DEF w, T

\* A header counts the leads of its column.
LEMMA HeaderCounts ==
    ASSUME NEW v \in Asked, Cardinality(v.campaigns) <= 1, NEW s
    PROVE  Boards!Header(v, s) = Cardinality(Shown(v, s))
<1>1. Boards!Column(v, s) \cap Shown(v, s) = Shown(v, s)
  BY DEF Shown
<1> QED
  BY <1>1, CopiesCount DEF Boards!Header

\* The number of a lead's card, in a query with these turns.
CardNumber(v, s, turn) == InOrder(v.sort, turn, Shown(v, s))

\* A lead that is shown once has one number, and who is not shown has none.
LEMMA RowNumbersOf ==
    ASSUME NEW v \in Asked, Cardinality(v.campaigns) <= 1, NEW s, NEW turn,
           NEW i \in Boards!Column(v, s), NEW n \in Nat
    PROVE  n \in Boards!RowNumbers(v, s, turn, i)
              <=> (i \in Shown(v, s) /\ n = CardNumber(v, s, turn)[i])
<1> DEFINE C == {k \in Boards!Column(v, s) : Boards!Precedes(v.sort, turn, k, i)}
           a == Boards!Ahead(v, s, turn, i)
<1>1. a = Cardinality(C \cap Shown(v, s))
  <2>1. C \in SUBSET Boards!Column(v, s)
    OBVIOUS
  <2> HIDE DEF C
  <2>2. Boards!SumOf([k \in C |-> Boards!Copies(v, k)]) = Cardinality(C \cap Shown(v, s))
    BY <2>1, CopiesCount
  <2> QED
    BY <2>2 DEF Boards!Ahead, C
<1>2. C \cap Shown(v, s) = {k \in Shown(v, s) : Boards!Precedes(v.sort, turn, k, i)}
  BY DEF Shown
<1>3. a \in Nat
  <2>1. C \cap Shown(v, s) \subseteq Ids
    BY DEF Boards!Column, Boards!Filtered, Boards!Live
  <2>2. IsFiniteSet(C \cap Shown(v, s))
    BY <2>1, TheBoards, FS_Subset
  <2> QED
    BY <1>1, <2>2, FS_CardinalityType
<1>4. i \in Shown(v, s) => CardNumber(v, s, turn)[i] = a + 1
  BY <1>1, <1>2 DEF CardNumber, InOrder
<1> HIDE DEF C, a
<1>5. Boards!RowNumbers(v, s, turn, i) = (a + 1)..(a + Boards!Copies(v, i))
  BY DEF Boards!RowNumbers, a
<1>6. CASE i \in Shown(v, s)
  <2>1. Boards!Copies(v, i) = 1
    BY <1>6, CopiesOf
  <2> QED
    BY <1>3, <1>4, <1>5, <1>6, <2>1
<1>7. CASE i \notin Shown(v, s)
  <2>1. Boards!Copies(v, i) = 0
    BY <1>7, CopiesOf
  <2> QED
    BY <1>3, <1>5, <1>7, <2>1
<1> QED
  BY <1>6, <1>7

\* Whatever the turns, a lead's number is after those before it, among those that tie.
LEMMA NumberAmongTied ==
    ASSUME NEW v, NEW s, NEW turn \in Boards!Turns, NEW i \in Shown(v, s)
    PROVE  LET ahead == Cardinality({k \in Shown(v, s) : Boards!Before(v.sort, k, i)})
               tied == Cardinality({k \in Shown(v, s) : Boards!Tied(v.sort, k, i)})
           IN  /\ ahead \in Nat /\ tied \in Nat
               /\ CardNumber(v, s, turn)[i] \in (ahead + 1)..(ahead + tied)
<1> DEFINE D == Shown(v, s)
           A == {k \in D : Boards!Before(v.sort, k, i)}
           T == {k \in D : Boards!Tied(v.sort, k, i)}
           U == {k \in T : turn[k] < turn[i]}
           P == {k \in D : Boards!Precedes(v.sort, turn, k, i)}
<1>1. D \subseteq Ids /\ IsFiniteSet(D) /\ i \in Ids
  <2>1. D \subseteq Ids
    BY DEF Shown, Boards!Column, Boards!Filtered, Boards!Live
  <2> QED
    BY <2>1, TheBoards, FS_Subset
<1>2. P = A \cup U /\ A \cap U = {} /\ U \subseteq T \ {i} /\ i \in T
  <2>1. ~Boards!Before(v.sort, i, i) /\ turn[i] \in Nat
    BY <1>1, SortsLeads, TheBoards DEF Boards!Turns
  <2> QED
    BY <2>1 DEF Boards!Precedes, Boards!Tied
<1>3. CardNumber(v, s, turn)[i] = Cardinality(P) + 1
  BY DEF CardNumber, InOrder
<1>4. IsFiniteSet(A) /\ IsFiniteSet(T) /\ IsFiniteSet(U)
  <2>1. A \subseteq D /\ T \subseteq D /\ U \subseteq D
    OBVIOUS
  <2> QED
    BY <1>1, <2>1, FS_Subset
<1> HIDE DEF A, T, U, P, D
<1>5. /\ Cardinality(A) \in Nat /\ Cardinality(T) \in Nat /\ Cardinality(U) \in Nat
  BY <1>4, FS_CardinalityType
<1>6. Cardinality(P) = Cardinality(A) + Cardinality(U)
  <2>1. Cardinality(A \cup U) = Cardinality(A) + Cardinality(U) - Cardinality(A \cap U)
    BY <1>4, FS_Union
  <2>2. Cardinality(A \cap U) = 0
    BY <1>2, FS_EmptySet
  <2> QED
    BY <1>2, <1>5, <2>1, <2>2
<1>7. Cardinality(U) <= Cardinality(T) - 1
  <2>1. IsFiniteSet(T \ {i}) /\ Cardinality(T \ {i}) = Cardinality(T) - 1
    BY <1>2, <1>4, FS_RemoveElement
  <2> QED
    BY <1>2, <2>1, FS_Subset
<1>8. Cardinality(P) + 1 \in (Cardinality(A) + 1)..(Cardinality(A) + Cardinality(T))
  BY <1>5, <1>6, <1>7
<1> QED
  BY <1>3, <1>5, <1>8 DEF A, T, D

\* A number is on one page.
LEMMA PageOf ==
    ASSUME NEW limit \in Nat \ {0}, NEW r \in Nat \ {0}
    PROVE  \E n \in 1..r : r \in ((n - 1) * limit + 1)..((n - 1) * limit + limit)
<1> DEFINE S == {q \in 0..(r - 1) : q * limit < r}
<1>1. IsFiniteSet(S) /\ 0 \in S /\ \A q \in S : q \in Int
  <2>1. S \subseteq 0..(r - 1) /\ IsFiniteSet(0..(r - 1))
    BY FS_Interval
  <2>2. 0 * limit = 0
    OBVIOUS
  <2> QED
    BY <2>1, <2>2, FS_Subset
<1> HIDE DEF S
<1>2. PICK q \in S : \A p \in S : p <= q
  BY <1>1, GreatestMember
<1> USE DEF S
<1>3. q \in 0..(r - 1) /\ q * limit < r /\ q * limit \in Nat
  OBVIOUS
<1>4. (q + 1) * limit = q * limit + limit
  BY <1>3
<1>5. r <= q * limit + limit
  <2>1. CASE q + 1 \in 0..(r - 1)
    <3>1. ~((q + 1) * limit < r)
      <4>1. q + 1 \notin S
        <5> HIDE DEF S
        <5> QED
          BY <1>2, <1>3
      <4> QED
        BY <2>1, <4>1
    <3> QED
      BY <1>3, <1>4, <3>1
  <2>2. CASE q = r - 1
    <3>1. q <= q * limit
      <4>1. q \in Nat /\ limit - 1 \in Nat
        BY <1>3
      <4>2. q * (limit - 1) \in Nat /\ q * limit = q * (limit - 1) + q
        BY <4>1
      <4> QED
        BY <4>1, <4>2
    <3> QED
      BY <1>3, <2>2, <3>1
  <2> QED
    BY <1>3, <2>1, <2>2
<1>6. q + 1 \in 1..r /\ (q + 1) - 1 = q
  BY <1>3
<1>7. r \in (q * limit + 1)..(q * limit + limit)
  BY <1>3, <1>5
<1> QED
  BY <1>6, <1>7

\* And on no other.
LEMMA OnePage ==
    ASSUME NEW limit \in Nat \ {0}, NEW r \in Nat, NEW n \in Nat \ {0}, NEW m \in Nat \ {0},
           r \in ((n - 1) * limit + 1)..((n - 1) * limit + limit),
           r \in ((m - 1) * limit + 1)..((m - 1) * limit + limit)
    PROVE  n = m
<1>1. ASSUME NEW a \in Nat \ {0}, NEW b \in Nat \ {0}, a < b,
             r \in ((a - 1) * limit + 1)..((a - 1) * limit + limit),
             r \in ((b - 1) * limit + 1)..((b - 1) * limit + limit)
      PROVE  FALSE
  <2> DEFINE x == a - 1
             y == b - 1
             d == y - x - 1
  <2>1. x \in Nat /\ y \in Nat /\ d \in Nat /\ y = x + 1 + d
    BY <1>1
  <2>2. r <= x * limit + limit /\ y * limit + 1 <= r
    BY <1>1
  <2> HIDE DEF x, y, d
  <2>3. y * limit = x * limit + limit + d * limit
    BY <2>1
  <2>4. d * limit \in Nat /\ x * limit \in Nat
    BY <2>1
  <2> QED
    BY <2>2, <2>3, <2>4
<1> QED
  BY <1>1

\* What the pages of a column hold: the n-th is a query with turns of its own.
LEMMA PagesOf ==
    ASSUME NEW v \in Asked, Cardinality(v.campaigns) <= 1, NEW s \in Boards!Columns(v.board),
           NEW turns
    PROVE  \A x : x \in Boards!Pages(v, s, turns) <=>
             \E n \in 1..Cardinality(Ids), i \in Shown(v, s) :
                /\ x = <<n, <<CardNumber(v, s, turns[n])[i], i>>>>
                /\ CardNumber(v, s, turns[n])[i]
                      \in ((n - 1) * v.limit + 1)..((n - 1) * v.limit + v.limit)
<1> DEFINE r(n) == CardNumber(v, s, turns[n])
           D == Shown(v, s)
           C == Boards!Column(v, s)
           K == 1..Cardinality(Ids)
           from(n) == (n - 1) * v.limit
           range(n) == (from(n) + 1)..(from(n) + v.limit)
           page(n) == Boards!Cards(v, s, turns[n], from(n))
<1>1. v.limit \in Nat \ {0} /\ s \in BoardStages /\ s # "all" /\ Cardinality(Ids) \in Nat
  <2>1. v.limit \in Nat \ {0}
    BY BoardsConstants DEF Boards!BoardsAssumption, Boards!Views
  <2>2. s \in BoardStages
    BY TheBoards DEF Boards!Columns
  <2>3. "all" \notin BoardStages
    BY BoardsConstants DEF Boards!BoardsAssumption
  <2> QED
    BY <2>1, <2>2, <2>3, TheBoards, FS_CardinalityType
<1>2. \A n \in K : /\ Boards!Valid(v, s, from(n))
                   /\ Boards!Answer(v, s, turns[n], from(n))[s] = page(n)
  BY <1>1 DEF Boards!Valid, Boards!Answer
<1>3. \A x : x \in Boards!Pages(v, s, turns) <=> \E n \in K : x \in {n} \X page(n)
  <2>1. {m \in K : Boards!Valid(v, s, from(m))} = K
    BY <1>2
  <2>2. Boards!Pages(v, s, turns) =
            UNION {{n} \X Boards!Answer(v, s, turns[n], from(n))[s] : n \in K}
    BY <2>1, SameCounts DEF Boards!Pages
  <2> HIDE DEF K, page, from
  <2>3. \A x : x \in Boards!Pages(v, s, turns)
                  <=> \E n \in K : x \in {n} \X Boards!Answer(v, s, turns[n], from(n))[s]
    BY <2>2
  <2> QED
    BY <2>3, <1>2
<1>4. ASSUME NEW n \in K
      PROVE  \A y : y \in page(n) <=> \E i \in D : y = <<r(n)[i], i>> /\ r(n)[i] \in range(n)
  <2>0. n - 1 \in Nat /\ v.limit \in Nat
    BY <1>1
  <2>1. from(n) \in Nat
    BY <2>0
  <2>2. page(n) = {x \in range(n) \X C : x[1] \in Boards!RowNumbers(v, s, turns[n], x[2])}
    BY DEF Boards!Cards
  <2>3. range(n) \subseteq Nat
    <3> HIDE DEF from
    <3> QED
      BY <2>1, <1>1
  <2> HIDE DEF range, page, from, r, D
  <2>4. \A m \in range(n), i \in C :
           m \in Boards!RowNumbers(v, s, turns[n], i) <=> (i \in D /\ m = r(n)[i])
    BY <2>3, RowNumbersOf DEF D, r
  <2>5. D \subseteq C
    BY DEF D, Shown
  <2>6. SUFFICES ASSUME NEW y
                 PROVE  y \in page(n) <=> \E i \in D : y = <<r(n)[i], i>> /\ r(n)[i] \in range(n)
    OBVIOUS
  <2>7. ASSUME y \in page(n)
        PROVE  \E i \in D : y = <<r(n)[i], i>> /\ r(n)[i] \in range(n)
    <3>1. y \in range(n) \X C /\ y[1] \in Boards!RowNumbers(v, s, turns[n], y[2])
      BY <2>2, <2>7
    <3>2. PICK m \in range(n), i \in C : y = <<m, i>>
      BY <3>1
    <3> QED
      BY <2>4, <3>1, <3>2
  <2>8. ASSUME NEW i \in D, y = <<r(n)[i], i>>, r(n)[i] \in range(n)
        PROVE  y \in page(n)
    <3>1. r(n)[i] \in Boards!RowNumbers(v, s, turns[n], i)
      BY <2>4, <2>5, <2>8
    <3> QED
      BY <2>2, <2>5, <2>8, <3>1
  <2> QED
    BY <2>7, <2>8
<1> HIDE DEF page, range, from, r, D, K
<1>5. \A x : x \in Boards!Pages(v, s, turns) <=>
             \E n \in K, i \in D : x = <<n, <<r(n)[i], i>>>> /\ r(n)[i] \in range(n)
  <2> SUFFICES ASSUME NEW x
               PROVE  x \in Boards!Pages(v, s, turns) <=>
                         \E n \in K, i \in D : x = <<n, <<r(n)[i], i>>>> /\ r(n)[i] \in range(n)
    OBVIOUS
  <2>1. ASSUME NEW n \in K, x \in {n} \X page(n)
        PROVE  \E i \in D : x = <<n, <<r(n)[i], i>>>> /\ r(n)[i] \in range(n)
    <3>1. PICK y \in page(n) : x = <<n, y>>
      BY <2>1
    <3>2. PICK i \in D : y = <<r(n)[i], i>> /\ r(n)[i] \in range(n)
      BY <1>4, <3>1
    <3> QED
      BY <3>1, <3>2
  <2>2. ASSUME NEW n \in K, NEW i \in D, x = <<n, <<r(n)[i], i>>>>, r(n)[i] \in range(n)
        PROVE  x \in {n} \X page(n)
    <3>1. <<r(n)[i], i>> \in page(n)
      BY <1>4, <2>2
    <3> QED
      BY <2>2, <3>1
  <2> QED
    BY <1>3, <2>1, <2>2
<1> QED
  BY <1>5 DEF range, from, r, D, K

\* A page that does not end among the leads that tie has all of them or none: where one of
\* their numbers is, all are.
LEMMA TiedOnOnePage ==
    ASSUME NEW limit \in Nat \ {0}, NEW a \in Nat, NEW t \in Nat \ {0}, NEW N \in Nat, a < N,
           \A n \in 1..N : n * limit <= a \/ n * limit >= a + t
    PROVE  \E n \in 1..N :
              \A q \in (a + 1)..(a + t) : q \in ((n - 1) * limit + 1)..((n - 1) * limit + limit)
<1>0. a + 1 \in Nat \ {0}
  OBVIOUS
<1>1. PICK n \in 1..(a + 1) : a + 1 \in ((n - 1) * limit + 1)..((n - 1) * limit + limit)
  BY <1>0, PageOf
<1>2. n \in 1..N
  BY <1>1
<1>3. n * limit = (n - 1) * limit + limit /\ (n - 1) * limit \in Nat
  <2>1. n - 1 \in Nat /\ n = (n - 1) + 1
    BY <1>1
  <2> QED
    BY <2>1
<1>4. n * limit >= a + t
  BY <1>1, <1>2, <1>3
<1> WITNESS n \in 1..N
<1> QED
  BY <1>1, <1>3, <1>4

\* LeadBoards!BoardIsWhole, whatever the rows are.
LEMMA BoardsAreWhole == Boards!BoardIsWhole
<1> SUFFICES ASSUME NEW v \in Asked, Cardinality(v.campaigns) <= 1, NEW s \in Boards!Columns(v.board),
                    NEW turns \in [1..Cardinality(Ids) -> Boards!Turns]
             PROVE  LET pages == Boards!Pages(v, s, turns) IN
                    /\ {x[2][1] : x \in pages} = 1..Boards!Header(v, s)
                    /\ \A x, y \in pages : x[2][1] = y[2][1] => x = y
                    /\ \A x, y \in pages : x[1] = y[1] /\ x[2][2] = y[2][2] => x = y
                    /\ {x[2][2] : x \in pages} \subseteq Boards!InColumn(v, s)
                    /\ \A i \in Boards!InColumn(v, s) : Boards!Apart(v, s, i) =>
                          \E x \in pages : {y \in pages : y[2][2] = i} = {x}
  BY SameCounts DEF Boards!BoardIsWhole
<1> DEFINE r(n) == CardNumber(v, s, turns[n])
           D == Shown(v, s)
           K == 1..Cardinality(Ids)
           range(n) == ((n - 1) * v.limit + 1)..((n - 1) * v.limit + v.limit)
           P == Boards!Pages(v, s, turns)
           ahead(i) == Cardinality({k \in D : Boards!Before(v.sort, k, i)})
           tied(i) == Cardinality({k \in D : Boards!Tied(v.sort, k, i)})
<1>1. v.limit \in Nat \ {0}
  BY BoardsConstants DEF Boards!BoardsAssumption, Boards!Views
<1>2. D \in SUBSET Ids
  BY DEF Shown, Boards!Column, Boards!Filtered, Boards!Live
<1>3. ASSUME NEW n \in K
      PROVE  /\ r(n) \in [D -> 1..Cardinality(D)]
             /\ \A i, k \in D : r(n)[i] = r(n)[k] => i = k
             /\ \A q \in 1..Cardinality(D) : \E i \in D : r(n)[i] = q
  <2>1. turns[n] \in Boards!Turns
    OBVIOUS
  <2>2. Numbers(InOrder(v.sort, turns[n], D), D)
    BY <1>2, <2>1, NumbersInTurn
  <2> QED
    BY <2>2 DEF CardNumber, Numbers
<1>4. Cardinality(D) \in Nat /\ Cardinality(Ids) \in Nat /\ Cardinality(D) <= Cardinality(Ids)
  BY <1>2, TheBoards, FS_Subset, FS_CardinalityType
<1>5. \A x : x \in P <=> \E n \in K, i \in D : x = <<n, <<r(n)[i], i>>>> /\ r(n)[i] \in range(n)
  BY PagesOf
<1>6. D = Boards!InColumn(v, s)
  BY DEF Shown, Boards!Column, Boards!Listed, Boards!InColumn
<1>7. Boards!Header(v, s) = Cardinality(D)
  BY HeaderCounts
<1>8. ASSUME NEW n \in K, NEW i \in D
      PROVE  ahead(i) \in Nat /\ tied(i) \in Nat /\ r(n)[i] \in (ahead(i) + 1)..(ahead(i) + tied(i))
  <2>1. turns[n] \in Boards!Turns
    OBVIOUS
  <2> QED
    BY <2>1, NumberAmongTied
<1>9. ASSUME NEW i \in D, Boards!Apart(v, s, i)
      PROVE  \A n \in K : n * v.limit <= ahead(i) \/ n * v.limit >= ahead(i) + tied(i)
  BY <1>6, <1>9, SameCounts DEF Boards!Apart
<1> HIDE DEF r, D, P, ahead, tied
<1>10. ASSUME NEW x \in P
       PROVE  \E n \in K, i \in D : /\ x = <<n, <<r(n)[i], i>>>> /\ r(n)[i] \in range(n)
                                    /\ x[1] = n /\ x[2][1] = r(n)[i] /\ x[2][2] = i
  BY <1>5, <1>10
<1>11. {x[2][1] : x \in P} = 1..Cardinality(D)
  <2>1. \A x \in P : x[2][1] \in 1..Cardinality(D)
    BY <1>10, <1>3
  <2>2. ASSUME NEW q \in 1..Cardinality(D) PROVE \E x \in P : x[2][1] = q
    <3>0. q \in Nat \ {0}
      BY <1>4, <2>2
    <3>1. PICK n \in 1..q : q \in range(n)
      BY <1>1, <3>0, PageOf
    <3>2. n \in K
      BY <1>4, <2>2, <3>0
    <3>3. PICK i \in D : r(n)[i] = q
      BY <1>3, <3>2
    <3>4. <<n, <<r(n)[i], i>>>> \in P
      BY <1>5, <3>1, <3>2, <3>3
    <3> QED
      BY <3>3, <3>4
  <2> QED
    BY <2>1, <2>2
<1>12. ASSUME NEW x \in P, NEW y \in P, x[2][1] = y[2][1]
       PROVE  x = y
  <2>1. PICK n \in K, i \in D : x = <<n, <<r(n)[i], i>>>> /\ r(n)[i] \in range(n)
                               /\ x[2][1] = r(n)[i] /\ x[2][2] = i
    BY <1>10
  <2>2. PICK m \in K, k \in D : y = <<m, <<r(m)[k], k>>>> /\ r(m)[k] \in range(m)
                               /\ y[2][1] = r(m)[k] /\ y[2][2] = k
    BY <1>10
  <2>0. r(n)[i] \in 1..Cardinality(D)
    BY <1>3
  <2>3. n \in Nat \ {0} /\ m \in Nat \ {0} /\ r(n)[i] \in Nat /\ r(n)[i] = r(m)[k]
    BY <1>4, <1>12, <2>0, <2>1, <2>2
  <2>4. n = m
    BY <1>1, <2>1, <2>2, <2>3, OnePage
  <2>5. i = k
    BY <1>3, <2>3, <2>4
  <2> QED
    BY <2>1, <2>2, <2>4, <2>5
<1>13. ASSUME NEW x \in P, NEW y \in P, x[1] = y[1], x[2][2] = y[2][2]
       PROVE  x = y
  <2>1. PICK n \in K, i \in D : x = <<n, <<r(n)[i], i>>>> /\ x[1] = n /\ x[2][2] = i
    BY <1>10
  <2>2. PICK m \in K, k \in D : y = <<m, <<r(m)[k], k>>>> /\ y[1] = m /\ y[2][2] = k
    BY <1>10
  <2> QED
    BY <1>13, <2>1, <2>2
<1>14. ASSUME NEW i \in D, Boards!Apart(v, s, i)
       PROVE  \E x \in P : {y \in P : y[2][2] = i} = {x}
  <2>1. 1 \in K /\ Cardinality(D) >= 1
    <3>1. IsFiniteSet(D) /\ D # {}
      BY <1>2, TheBoards, FS_Subset
    <3>2. Cardinality(D) # 0
      BY <3>1, FS_EmptySet
    <3> QED
      BY <1>4, <3>2
  <2>2. r(1)[i] \in 1..Cardinality(D)
    BY <1>3, <2>1
  <2>3. /\ ahead(i) \in Nat /\ tied(i) \in Nat \ {0} /\ ahead(i) < Cardinality(Ids)
    BY <1>4, <1>8, <2>1, <2>2
  <2>4. PICK n \in K : \A q \in (ahead(i) + 1)..(ahead(i) + tied(i)) : q \in range(n)
    BY <1>1, <1>4, <1>9, <1>14, <2>3, TiedOnOnePage
  <2>5. r(n)[i] \in range(n)
    BY <1>8, <2>4
  <2> DEFINE x == <<n, <<r(n)[i], i>>>>
  <2>6. x \in P /\ x[2][2] = i
    BY <1>5, <2>5
  <2>7. ASSUME NEW y \in P, y[2][2] = i PROVE y = x
    <3>1. PICK m \in K, k \in D : y = <<m, <<r(m)[k], k>>>> /\ r(m)[k] \in range(m)
                                 /\ y[2][2] = k
      BY <1>10
    <3>2. k = i /\ r(m)[i] \in range(m) /\ r(m)[i] \in range(n)
      BY <1>8, <2>4, <2>7, <3>1
    <3>3. r(m)[i] \in 1..Cardinality(D)
      BY <1>3
    <3>3a. n \in Nat \ {0} /\ m \in Nat \ {0} /\ r(m)[i] \in Nat
      BY <1>4, <3>3
    <3>4. m = n
      BY <1>1, <3>2, <3>3a, OnePage
    <3> QED
      BY <3>1, <3>2, <3>4
  <2> HIDE DEF x
  <2> QED
    BY <2>6, <2>7
<1>15. {x[2][2] : x \in P} \subseteq D
  BY <1>10
<1> QED
  BY <1>6, <1>7, <1>11, <1>12, <1>13, <1>14, <1>15 DEF P

-----------------------------------------------------------------------------
(* The book: the rows behind a figure.                                     *)

BookFinite == IsFiniteSet(tranches) /\ IsFiniteSet(Files)

\* Pairs with one first member are as many as their second members.
LEMMA PairsCount ==
    ASSUME NEW c, NEW T, IsFiniteSet(T)
    PROVE  Cardinality({c} \X T) = Cardinality(T)
<1>1. IsFiniteSet({c}) /\ Cardinality({c}) = 1
  BY FS_Singleton
<1>2. Cardinality({c} \X T) = 1 * Cardinality(T) /\ Cardinality(T) \in Nat
  BY <1>1, FS_Product, FS_CardinalityType
<1> QED
  BY <1>2

\* What a panel is made of is finite.
LEMMA FinitePanels ==
    ASSUME BookFinite, NEW f
    PROVE  IsFiniteSet(Releases(f)) /\ \A S : IsFiniteSet(FilesIn(f, S))
<1>1. Releases(f) \subseteq tranches /\ \A S : FilesIn(f, S) \subseteq Files
  BY DEF Releases, FilesIn
<1> QED
  BY <1>1, FS_Subset DEF BookFinite

-----------------------------------------------------------------------------
(* Each segment's slice is the panel's.                                    *)

\* The stages drawn: the slice of a stage has its leads.
LEMMA StageSlice ==
    ASSUME NEW f, NEW s \in DOMAIN StageFunnel(f)
    PROVE  LET d == Drilldown(f, "stage", s) IN
           StageFunnel(f)[s] = [leads |-> d.total, sanctioned |-> d.sanctioned, money |-> d.money]
<1> DEFINE L == {l \in Scope(f) : StageBucket(l) = s}
           D == Drilldown(f, "stage", s)
<1>1. \A l : SegmentLead("stage", s, f, l) <=> StageBucket(l) = s
  BY DEF SegmentLead
<1>2. {l \in Scope(f) : SegmentLead("stage", s, f, l)} = L
  BY <1>1
<1>3. \A g : SegmentFiles("stage", s, g)
  BY DEF SegmentFiles
<1>4. \A t : SegmentTranches("stage", s, t)
  BY DEF SegmentTranches
<1>5. /\ {g \in FilesAmong(f, Live, L) : SegmentFiles("stage", s, g)} = FilesAmong(f, Live, L)
      /\ {t \in ReleasesOf(f, L) : SegmentTranches("stage", s, t)} = ReleasesOf(f, L)
  BY <1>3, <1>4
<1> HIDE DEF L
<1>6. /\ D.total = Cardinality(L) /\ D.sanctioned = Approved(FilesAmong(f, Live, L))
      /\ D.money = Money(ReleasesOf(f, L))
  BY <1>2, <1>5 DEF Drilldown
<1>7. StageFunnel(f)[s] = Standing(f, L)
  BY DEF StageFunnel, L
<1> HIDE DEF D
<1> QED
  BY <1>6, <1>7 DEF Standing, D

\* The slices that are cut out of the tranches: a lead is in one if it has such a tranche.
LEMMA TrancheSlice ==
    ASSUME NEW f, NEW segment, NEW value,
           segment \in {"lender", "ageing_bucket"} \/ (segment = "exception" /\ value \in TrancheCodes)
    PROVE  Drilldown(f, segment, value).money
               = Money({t \in Releases(f) : SegmentTranches(segment, value, t)})
<1> DEFINE L == {l \in Scope(f) : SegmentLead(segment, value, f, l)}
           T == {t \in Releases(f) : SegmentTranches(segment, value, t)}
<1>1. \A l : SegmentLead(segment, value, f, l)
               <=> {t \in ReleasesOf(f, {l}) : SegmentTranches(segment, value, t)} # {}
  BY DEF SegmentLead
<1>2. \A t \in Releases(f) : t.file[1] \in Scope(f)
  BY DEF Releases
<1>3. \A t \in T : t.file[1] \in L
  BY <1>1, <1>2 DEF ReleasesOf
<1>4. {t \in ReleasesOf(f, L) : SegmentTranches(segment, value, t)} = T
  BY <1>3 DEF ReleasesOf
<1> QED
  BY <1>4 DEF Drilldown

\* The slice of a source has its leads.
LEMMA SourceSlice ==
    ASSUME NEW f, NEW s \in DOMAIN BySource(f)
    PROVE  LET d == Drilldown(f, "source", s) IN
           BySource(f)[s] = [students |-> d.total, money |-> d.money]
<1> DEFINE L == {l \in Scope(f) : SegmentLead("source", s, f, l)}
           T == {t \in Releases(f) : Source[t.file[1]] = s}
           D == Drilldown(f, "source", s)
<1>1. \A t : SegmentTranches("source", s, t)
  BY DEF SegmentTranches
<1>2. \A l : SegmentLead("source", s, f, l) <=> (Source[l] = s /\ ReleasesOf(f, {l}) # {})
  BY <1>1 DEF SegmentLead
<1>3. \A t \in Releases(f) : t.file[1] \in Scope(f)
  BY DEF Releases
<1>4. {t.file[1] : t \in T} = L
  BY <1>2, <1>3 DEF ReleasesOf
<1>5. {t \in ReleasesOf(f, L) : SegmentTranches("source", s, t)} = T
  BY <1>1, <1>2, <1>4 DEF ReleasesOf
<1>6. BySource(f)[s] = [students |-> Cardinality({t.file[1] : t \in T}), money |-> Money(T)]
  BY DEF BySource
<1>7. D.total = Cardinality(L) /\ D.money = Money(T)
  BY <1>5 DEF Drilldown
<1> HIDE DEF D, L, T
<1> QED
  BY <1>4, <1>6, <1>7 DEF D

\* The slice of a step of the funnel has its leads.
LEMMA StepSlice ==
    ASSUME NEW f, NEW value \in {"sanctioned", "confirmed"}
    PROVE  Drilldown(f, "funnel_step", value).sanctioned
               = Approved(FilesIn(f, StepStatuses(value)))
<1> DEFINE L == {l \in Scope(f) : SegmentLead("funnel_step", value, f, l)}
           S == StepStatuses(value)
<1>1. S \subseteq Live /\ S \subseteq Statuses
  BY DEF StepStatuses, Live, Confirmed, Statuses
<1>2. \A g : SegmentFiles("funnel_step", value, g) <=> status[g] \in S
  BY DEF SegmentFiles
<1> HIDE DEF S
<1>3. \A l : SegmentLead("funnel_step", value, f, l)
                <=> \E g \in FilesAmong(f, Statuses, {l}) : status[g] \in S
  BY <1>2 DEF SegmentLead
<1>4. \A g \in FilesIn(f, S) : g[1] \in L
  <2> SUFFICES ASSUME NEW g \in FilesIn(f, S) PROVE g[1] \in L
    OBVIOUS
  <2>1. g[1] \in Scope(f) /\ g \in FilesIn(f, Statuses) /\ status[g] \in S
    BY <1>1 DEF FilesIn
  <2>2. g \in FilesAmong(f, Statuses, {g[1]})
    BY <2>1 DEF FilesAmong
  <2> QED
    BY <1>3, <2>1, <2>2
<1>5. {g \in FilesAmong(f, Live, L) : SegmentFiles("funnel_step", value, g)} = FilesIn(f, S)
  BY <1>1, <1>2, <1>4 DEF FilesAmong, FilesIn
<1> QED
  BY <1>5 DEF Drilldown, S

-----------------------------------------------------------------------------
(* The register and the counters.                                          *)

\* The rows of the register of one code.
LEMMA RegisterOfTranches ==
    ASSUME BookFinite, NEW f, NEW code \in TrancheCodes
    PROVE  ByCode(f, code) = Cardinality({t \in Releases(f) : TrancheTrips(code, t)})
<1> DEFINE T == {t \in Releases(f) : TrancheTrips(code, t)}
<1>1. code \notin FileCodes /\ code # "money_on_prestage"
  BY DEF TrancheCodes, FileCodes
<1>2. {x \in TrancheRows(f) : x[1] = code} = {code} \X T
  BY DEF TrancheRows
<1>3. {x \in Exceptions(f) : x[1] = code} = {x \in TrancheRows(f) : x[1] = code}
  <2>1. \A x \in {y \in FileCodes \X FilesIn(f, Live) : FileTrips(y[1], y[2])} : x[1] # code
    BY <1>1
  <2>2. \A x \in {<<"money_on_prestage", l>> :
             l \in {t.file[1] : t \in {q \in Releases(f) : stage[q.file[1]] \notin Drawn}}} : x[1] # code
    BY <1>1
  <2> QED
    BY <2>1, <2>2 DEF Exceptions
<1>4. IsFiniteSet(T)
  BY FinitePanels, FS_Subset
<1> HIDE DEF T
<1>5. Cardinality({code} \X T) = Cardinality(T)
  BY <1>4, PairsCount
<1> QED
  BY <1>2, <1>3, <1>5 DEF ByCode, T

\* The rows of the register of one code, of the files.
LEMMA RegisterOfFiles ==
    ASSUME BookFinite, NEW f, NEW code \in FileCodes
    PROVE  ByCode(f, code) = Cardinality({g \in FilesIn(f, Live) : FileTrips(code, g)})
<1> DEFINE G == {g \in FilesIn(f, Live) : FileTrips(code, g)}
           R == {y \in FileCodes \X FilesIn(f, Live) : FileTrips(y[1], y[2])}
<1>1. code \notin TrancheCodes /\ code # "money_on_prestage"
  BY DEF TrancheCodes, FileCodes
<1>2. {x \in R : x[1] = code} = {code} \X G
  OBVIOUS
<1>3. {x \in Exceptions(f) : x[1] = code} = {x \in R : x[1] = code}
  <2>1. \A x \in TrancheRows(f) : x[1] # code
    BY <1>1 DEF TrancheRows
  <2>2. \A x \in {<<"money_on_prestage", l>> :
             l \in {t.file[1] : t \in {q \in Releases(f) : stage[q.file[1]] \notin Drawn}}} : x[1] # code
    BY <1>1
  <2> QED
    BY <2>1, <2>2 DEF Exceptions
<1>4. IsFiniteSet(G)
  BY FinitePanels, FS_Subset
<1> HIDE DEF G
<1>5. Cardinality({code} \X G) = Cardinality(G)
  BY <1>4, PairsCount
<1> QED
  BY <1>2, <1>3, <1>5 DEF ByCode, G

\* What the parts of an answer are.
LEMMA PanelsAre ==
    ASSUME NEW f
    PROVE  /\ Panels(f).top.funnel = Funnel(f) /\ Panels(f).top.ahead = PipelineAhead(f)
           /\ Panels(f).top.monthly = Monthly(f)
           /\ Panels(f).bottom.lenders = ByLender(f) /\ Panels(f).bottom.ageing = Ageing(f)
           /\ Panels(f).bottom.quality = DataQuality(f)
<1>1. Panels(f).top = TopPanels(f) /\ Panels(f).bottom = BottomPanels(f)
  BY DEF Panels
<1> QED
  BY <1>1 DEF TopPanels, BottomPanels

\* RevenueReports!RegisterAgrees: the register has as many rows as its counters say.
LEMMA RegisterIsCounted == ASSUME BookFinite, NEW f PROVE RegisterAgrees(f, Panels(f))
<1> SUFFICES ASSUME NEW code \in FileCodes \cup TrancheCodes
             PROVE  ByCode(f, code) = DataQuality(f)[code]
  BY PanelsAre DEF RegisterAgrees
<1> DEFINE R == Releases(f)
           G == FilesIn(f, Live)
<1>1. CASE code = "on_aggregator"
  <2>1. ByCode(f, code) = Cardinality({g \in G : FileTrips(code, g)})
    BY <1>1, RegisterOfFiles DEF FileCodes
  <2>2. {g \in G : FileTrips(code, g)} = {g \in G : g[2] \in Aggregators}
    BY <1>1 DEF FileTrips
  <2>3. DataQuality(f)[code] = Cardinality({g \in G : g[2] \in Aggregators})
    BY <1>1 DEF DataQuality
  <2> QED
    BY <2>1, <2>2, <2>3
<1>2. CASE code = "no_sanctioned_amount"
  <2>1. ByCode(f, code) = Cardinality({g \in G : FileTrips(code, g)})
    BY <1>2, RegisterOfFiles DEF FileCodes
  <2>2. {g \in G : FileTrips(code, g)} = Unpriced(G)
    BY <1>2 DEF FileTrips, Unpriced
  <2>3. DataQuality(f)[code] = Cardinality(Unpriced(G))
    BY <1>2 DEF DataQuality
  <2> QED
    BY <2>1, <2>2, <2>3
<1>3. CASE code = "no_disbursement_date"
  <2>1. ByCode(f, code) = Cardinality({t \in R : TrancheTrips(code, t)})
    BY <1>3, RegisterOfTranches DEF TrancheCodes
  <2>2. {t \in R : TrancheTrips(code, t)} = {t \in R : t.day = 0}
    BY <1>3 DEF TrancheTrips
  <2>3. DataQuality(f)[code] = Cardinality({t \in R : t.day = 0})
    BY <1>3 DEF DataQuality
  <2> QED
    BY <2>1, <2>2, <2>3
<1>4. CASE code = "no_receipt_date"
  <2>1. ByCode(f, code) = Cardinality({t \in R : TrancheTrips(code, t)})
    BY <1>4, RegisterOfTranches DEF TrancheCodes
  <2>2. {t \in R : TrancheTrips(code, t)} = {t \in R : t.received # Null /\ t.paidOn = 0}
    BY <1>4 DEF TrancheTrips
  <2>3. DataQuality(f)[code] = Cardinality({t \in R : t.received # Null /\ t.paidOn = 0})
    BY <1>4 DEF DataQuality
  <2> QED
    BY <2>1, <2>2, <2>3
<1>5. CASE code = "materially_short"
  <2>1. ByCode(f, code) = Cardinality({t \in R : TrancheTrips(code, t)})
    BY <1>5, RegisterOfTranches DEF TrancheCodes
  <2>2. {t \in R : TrancheTrips(code, t)} = {t \in R : MateriallyShort(t)}
    BY <1>5 DEF TrancheTrips
  <2>3. DataQuality(f)[code] = Cardinality({t \in R : MateriallyShort(t)})
    BY <1>5 DEF DataQuality
  <2> QED
    BY <2>1, <2>2, <2>3
<1>6. CASE code = "estimated_disbursement_date"
  <2>1. ByCode(f, code) = Cardinality({t \in R : TrancheTrips(code, t)})
    BY <1>6, RegisterOfTranches DEF TrancheCodes
  <2>2. {t \in R : TrancheTrips(code, t)} = {t \in R : t.guessed}
    BY <1>6 DEF TrancheTrips
  <2>3. DataQuality(f)[code] = Cardinality({t \in R : t.guessed})
    BY <1>6 DEF DataQuality
  <2> QED
    BY <2>1, <2>2, <2>3
<1> QED
  BY <1>1, <1>2, <1>3, <1>4, <1>5, <1>6 DEF FileCodes, TrancheCodes

\* RevenueReports!DrilldownAgrees: the leads behind a segment are those it counts.
LEMMA DrilldownsAgree == ASSUME BookFinite, NEW f PROVE DrilldownAgrees(f, Panels(f))
<1> SUFFICES
        /\ \A s \in DOMAIN StageFunnel(f) :
              LET d == Drilldown(f, "stage", s) IN
              StageFunnel(f)[s] = [leads |-> d.total, sanctioned |-> d.sanctioned,
                                   money |-> d.money]
        /\ \A b \in DOMAIN ByLender(f) : Drilldown(f, "lender", b).money = ByLender(f)[b]
        /\ \A s \in DOMAIN BySource(f) :
              LET d == Drilldown(f, "source", s) IN
              BySource(f)[s] = [students |-> d.total, money |-> d.money]
        /\ \A k \in Buckets : Drilldown(f, "ageing_bucket", k).money = Ageing(f)[k]
        /\ Drilldown(f, "funnel_step", "sanctioned").sanctioned = Funnel(f).sanctioned
        /\ Drilldown(f, "funnel_step", "confirmed").sanctioned = Funnel(f).confirmed
        /\ \A c \in TrancheCodes :
              Drilldown(f, "exception", c).money.tranches = ByCode(f, c)
  BY PanelsAre DEF DrilldownAgrees
<1>1. ASSUME NEW b \in DOMAIN ByLender(f)
      PROVE  Drilldown(f, "lender", b).money = ByLender(f)[b]
  <2>1. {t \in Releases(f) : SegmentTranches("lender", b, t)} = {t \in Releases(f) : t.file[2] = b}
    BY DEF SegmentTranches
  <2>2. ByLender(f)[b] = Money({t \in Releases(f) : t.file[2] = b})
    BY DEF ByLender
  <2> QED
    BY <2>1, <2>2, TrancheSlice
<1>2. ASSUME NEW k \in Buckets
      PROVE  Drilldown(f, "ageing_bucket", k).money = Ageing(f)[k]
  <2>1. {t \in Releases(f) : SegmentTranches("ageing_bucket", k, t)}
            = {t \in Chased(f) : Bucket(t) = k}
    BY DEF SegmentTranches, Chased
  <2>2. Ageing(f)[k] = Money({t \in Chased(f) : Bucket(t) = k})
    BY DEF Ageing
  <2> QED
    BY <2>1, <2>2, TrancheSlice
<1>3. Drilldown(f, "funnel_step", "sanctioned").sanctioned = Funnel(f).sanctioned
  BY StepSlice DEF StepStatuses, Funnel
<1>4. Drilldown(f, "funnel_step", "confirmed").sanctioned = Funnel(f).confirmed
  BY StepSlice DEF StepStatuses, Funnel
<1>5. ASSUME NEW c \in TrancheCodes
      PROVE  Drilldown(f, "exception", c).money.tranches = ByCode(f, c)
  <2> DEFINE T == {t \in Releases(f) : TrancheTrips(c, t)}
  <2>1. {t \in Releases(f) : SegmentTranches("exception", c, t)} = T
    BY DEF SegmentTranches
  <2>2. Drilldown(f, "exception", c).money = Money(T)
    BY <2>1, TrancheSlice
  <2>3. Money(T).tranches = Cardinality(T)
    BY DEF Money
  <2> QED
    BY <2>2, <2>3, RegisterOfTranches
<1> QED
  BY <1>1, <1>2, <1>3, <1>4, <1>5, StageSlice, SourceSlice

-----------------------------------------------------------------------------
(* The figures of a panel.                                                 *)

\* A release is on a day that has come, and it earns only where it is said to.
Past(t) == t.day <= Today /\ (~t.earns => t.commission = 0)

\* The book, as the reports need it.
BookSound ==
    /\ tranches \subseteq Tranches /\ BookFinite /\ IsFiniteSet(Leads)
    /\ loan \in [Files -> Nat \cup {Null}] /\ rate \in [Files -> Nat \cup {Null}]
    /\ \A t \in tranches : Past(t)

\* The sums of a panel.
Columns == {"disbursed", "earned", "collected", "outstanding", "commission", "gst"}

\* What a tranche adds to them.
Figures(t) ==
    [disbursed |-> t.amount, earned |-> Due(t), collected |-> Settled(t),
     outstanding |-> Short(t), commission |-> t.commission, gst |-> t.gst]

\* The figures of a tranche are numbers.
LEMMA FiguresTyped ==
    ASSUME NEW t \in Tranches
    PROVE  /\ \A n \in Columns : Figures(t)[n] \in Nat
           /\ t.commission \in Nat /\ t.gst \in Nat /\ Settled(t) \in Nat /\ Short(t) \in Nat
           /\ t.amount \in Nat /\ t.day \in Nat /\ t.paidOn \in Nat
<1>1. /\ t.amount \in Nat /\ t.commission \in Nat /\ t.gst \in Nat
      /\ t.received \in Nat \cup {Null} /\ t.day \in Nat /\ t.paidOn \in Nat
  BY DEF Tranches
<1>2. Due(t) \in Nat /\ Settled(t) \in Nat
  BY <1>1 DEF Due, Settled, OrZero
<1>3. Short(t) \in Nat
  BY <1>2 DEF Short
<1> QED
  BY <1>1, <1>2, <1>3 DEF Figures, Columns

\* A column of a panel is the sum of what its tranches add to it.
LEMMA MoneyIs ==
    ASSUME NEW S, NEW n \in Columns
    PROVE  Money(S)[n] = SumFunctionOnSet([t \in S |-> Figures(t)[n]], S)
<1>1. CASE n = "disbursed"
  BY <1>1 DEF Money, SumOf, Figures
<1>2. CASE n = "earned"
  BY <1>2 DEF Money, SumOf, Figures
<1>3. CASE n = "collected"
  BY <1>3 DEF Money, SumOf, Figures
<1>4. CASE n = "outstanding"
  BY <1>4 DEF Money, SumOf, Figures
<1>5. CASE n = "commission"
  BY <1>5 DEF Money, SumOf, Figures
<1>6. CASE n = "gst"
  BY <1>6 DEF Money, SumOf, Figures
<1> QED
  BY <1>1, <1>2, <1>3, <1>4, <1>5, <1>6 DEF Columns

\* What a function says of each of a set's members adds up to what its parts say.
LEMMA PartsOf ==
    ASSUME NEW S, IsFiniteSet(S), NEW K, IsFiniteSet(K), NEW p \in [S -> K],
           NEW w, \A x \in S : w[x] \in Int,
           NEW v, \A k \in K : v[k] = SumFunctionOnSet([x \in Piece(S, p, k) |-> w[x]], Piece(S, p, k))
    PROVE  SumFunctionOnSet(v, K) = SumFunctionOnSet(w, S)
<1>1. ASSUME NEW k \in K
      PROVE  v[k] = SumFunctionOnSet(w, Piece(S, p, k))
  <2> DEFINE T == Piece(S, p, k)
             u == [x \in T |-> w[x]]
  <2>1. v[k] = SumFunctionOnSet(u, T)
    BY <1>1
  <2>2. IsFiniteSet(T)
    BY FS_Subset DEF Piece
  <2>3. \A x \in T : u[x] = w[x]
    OBVIOUS
  <2> HIDE DEF T, u
  <2>4. SumFunctionOnSet(u, T) = SumFunctionOnSet(w, T)
    BY <2>2, <2>3, SumSame
  <2> QED
    BY <2>1, <2>4 DEF T
<1> QED
  BY <1>1, SumParts

\* The panel of a set of tranches is that of its parts, added up.
LEMMA MoneyParts ==
    ASSUME NEW S, IsFiniteSet(S), S \subseteq Tranches, NEW K, IsFiniteSet(K),
           NEW p \in [S -> K], NEW n \in Columns,
           NEW v, \A k \in K : v[k] = Money(Piece(S, p, k))[n]
    PROVE  SumFunctionOnSet(v, K) = Money(S)[n]
<1> DEFINE w == [t \in S |-> Figures(t)[n]]
<1>1. \A t \in S : w[t] \in Int
  BY FiguresTyped
<1>2. ASSUME NEW k \in K
      PROVE  v[k] = SumFunctionOnSet([x \in Piece(S, p, k) |-> w[x]], Piece(S, p, k))
  <2> DEFINE T == Piece(S, p, k)
  <2>1. v[k] = SumFunctionOnSet([t \in T |-> Figures(t)[n]], T)
    BY <1>2, MoneyIs
  <2>2. [t \in T |-> Figures(t)[n]] = [x \in T |-> w[x]]
    BY DEF Piece
  <2> QED
    BY <2>1, <2>2
<1>3. Money(S)[n] = SumFunctionOnSet(w, S)
  BY MoneyIs
<1> HIDE DEF w
<1> QED
  BY <1>1, <1>2, <1>3, PartsOf

\* A panel says numbers.
LEMMA MoneyNat ==
    ASSUME NEW S, IsFiniteSet(S), S \subseteq Tranches, NEW n \in Columns
    PROVE  Money(S)[n] \in Nat
<1> DEFINE w == [t \in S |-> Figures(t)[n]]
<1>1. \A t \in S : w[t] \in Nat
  BY FiguresTyped
<1>2. Money(S)[n] = SumFunctionOnSet(w, S)
  BY MoneyIs
<1> HIDE DEF w
<1> QED
  BY <1>1, <1>2, SumNat

\* Panels of two sets without a common tranche.
LEMMA MoneyUnion ==
    ASSUME NEW S, IsFiniteSet(S), S \subseteq Tranches, NEW T, IsFiniteSet(T), T \subseteq Tranches,
           S \cap T = {}, NEW n \in Columns
    PROVE  Money(S \cup T)[n] = Money(S)[n] + Money(T)[n]
<1> DEFINE w == [t \in S \cup T |-> Figures(t)[n]]
           v == [t \in S |-> Figures(t)[n]]
           u == [t \in T |-> Figures(t)[n]]
<1>1. /\ \A t \in S \cup T : w[t] \in Int
      /\ \A t \in S : w[t] = v[t]
      /\ \A t \in T : w[t] = u[t]
  BY FiguresTyped
<1>2. /\ Money(S)[n] = SumFunctionOnSet(v, S) /\ Money(T)[n] = SumFunctionOnSet(u, T)
      /\ Money(S \cup T)[n] = SumFunctionOnSet(w, S \cup T)
  BY MoneyIs
<1> HIDE DEF w, v, u
<1>3. SumFunctionOnSet(w, S \cup T) = SumFunctionOnSet(w, S) + SumFunctionOnSet(w, T)
  BY <1>1, SumUnion
<1>4. SumFunctionOnSet(w, S) = SumFunctionOnSet(v, S) /\ SumFunctionOnSet(w, T) = SumFunctionOnSet(u, T)
  BY <1>1, SumSame
<1> QED
  BY <1>2, <1>3, <1>4

\* Some of the tranches come to no more than all.
LEMMA MoneyOfSome ==
    ASSUME NEW S, IsFiniteSet(S), S \subseteq Tranches, NEW T, T \subseteq S, NEW n \in Columns
    PROVE  Money(T)[n] <= Money(S)[n]
<1>1. /\ IsFiniteSet(T) /\ IsFiniteSet(S \ T) /\ T \subseteq Tranches /\ S \ T \subseteq Tranches
      /\ T \cap (S \ T) = {} /\ T \cup (S \ T) = S
  BY FS_Subset
<1>2. Money(S)[n] = Money(T)[n] + Money(S \ T)[n]
  <2>1. Money(T \cup (S \ T))[n] = Money(T)[n] + Money(S \ T)[n]
    BY <1>1, MoneyUnion
  <2> QED
    BY <1>1, <2>1
<1>3. Money(T)[n] \in Nat /\ Money(S \ T)[n] \in Nat
  BY <1>1, MoneyNat
<1> QED
  BY <1>2, <1>3

\* Tranches that add nothing to a column.
LEMMA MoneyOfRest ==
    ASSUME NEW S, IsFiniteSet(S), S \subseteq Tranches, NEW T, T \subseteq S, NEW n \in Columns,
           \A t \in S \ T : Figures(t)[n] = 0
    PROVE  Money(S)[n] = Money(T)[n]
<1>1. /\ IsFiniteSet(T) /\ IsFiniteSet(S \ T) /\ T \subseteq Tranches /\ S \ T \subseteq Tranches
      /\ T \cap (S \ T) = {} /\ T \cup (S \ T) = S
  BY FS_Subset
<1>2. Money(S)[n] = Money(T)[n] + Money(S \ T)[n]
  <2>1. Money(T \cup (S \ T))[n] = Money(T)[n] + Money(S \ T)[n]
    BY <1>1, MoneyUnion
  <2> QED
    BY <1>1, <2>1
<1> DEFINE w == [t \in S \ T |-> Figures(t)[n]]
<1>3. Money(S \ T)[n] = SumFunctionOnSet(w, S \ T)
  BY MoneyIs
<1>4. \A t \in S \ T : w[t] = 0
  OBVIOUS
<1> HIDE DEF w
<1>5. Money(S \ T)[n] = 0
  BY <1>1, <1>3, <1>4, SumZero
<1>6. Money(T)[n] \in Nat
  BY <1>1, MoneyNat
<1> QED
  BY <1>2, <1>5, <1>6

\* Counts add up.
LEMMA CountParts ==
    ASSUME NEW S, IsFiniteSet(S), NEW K, IsFiniteSet(K), NEW p \in [S -> K],
           NEW v, \A k \in K : v[k] = Cardinality(Piece(S, p, k))
    PROVE  SumFunctionOnSet(v, K) = Cardinality(S)
<1> DEFINE w == [x \in S |-> 1]
<1>1. \A x \in S : w[x] = 1
  OBVIOUS
<1> HIDE DEF w
<1>2. ASSUME NEW k \in K PROVE v[k] = SumFunctionOnSet(w, Piece(S, p, k))
  <2> DEFINE T == Piece(S, p, k)
  <2>1. IsFiniteSet(T) /\ \A x \in T : w[x] = 1
    BY <1>1, FS_Subset DEF Piece
  <2>2. v[k] = Cardinality(T)
    BY <1>2
  <2> HIDE DEF T
  <2>3. SumFunctionOnSet(w, T) = Cardinality(T)
    BY <2>1, SumOnes
  <2> QED
    BY <2>2, <2>3 DEF T
<1>3. SumFunctionOnSet(v, K) = SumFunctionOnSet(w, S)
  BY <1>1, <1>2, SumParts
<1> QED
  BY <1>1, <1>3, SumOnes

\* So do the amounts approved.
LEMMA ApprovedParts ==
    ASSUME BookSound, NEW S, S \subseteq Files, NEW K, IsFiniteSet(K), NEW p \in [S -> K],
           NEW v, \A k \in K : v[k] = Approved(Piece(S, p, k))
    PROVE  SumFunctionOnSet(v, K) = Approved(S)
<1> DEFINE w == [g \in S |-> OrZero(loan[g])]
<1>0. IsFiniteSet(S)
  BY FS_Subset DEF BookSound, BookFinite
<1>1. \A g \in S : w[g] \in Int
  BY DEF BookSound, OrZero
<1>2. ASSUME NEW k \in K
      PROVE  v[k] = SumFunctionOnSet([x \in Piece(S, p, k) |-> w[x]], Piece(S, p, k))
  <2> DEFINE T == Piece(S, p, k)
  <2>1. v[k] = SumFunctionOnSet([g \in T |-> OrZero(loan[g])], T)
    BY <1>2 DEF Approved, SumOf
  <2>2. [g \in T |-> OrZero(loan[g])] = [x \in T |-> w[x]]
    BY DEF Piece
  <2> QED
    BY <2>1, <2>2
<1>3. Approved(S) = SumFunctionOnSet(w, S)
  BY DEF Approved, SumOf
<1> HIDE DEF w
<1> QED
  BY <1>0, <1>1, <1>2, <1>3, PartsOf

-----------------------------------------------------------------------------
(* What is owed.                                                           *)

\* The tranches of a panel are finitely many, of the book, and of files.
LEMMA BookOf ==
    ASSUME BookSound, NEW f
    PROVE  /\ IsFiniteSet(Releases(f)) /\ Releases(f) \subseteq Tranches
           /\ \A t \in Releases(f) : t.file[1] \in Scope(f) /\ Past(t)
           /\ Scope(f) \subseteq Leads /\ IsFiniteSet(Scope(f))
           /\ \A S : FilesIn(f, S) \subseteq Files /\ IsFiniteSet(FilesIn(f, S))
<1>1. /\ Releases(f) \subseteq Tranches
      /\ \A t \in Releases(f) : t.file[1] \in Scope(f) /\ Past(t)
      /\ \A S : FilesIn(f, S) \subseteq Files
  BY DEF Releases, FilesIn, BookSound
<1>2. Scope(f) \subseteq Leads
  BY DEF Scope
<1>3. IsFiniteSet(Leads)
  BY DEF BookSound
<1>4. IsFiniteSet(Scope(f))
  BY <1>2, <1>3, FS_Subset
<1> QED
  BY <1>1, <1>2, <1>4, FinitePanels DEF BookSound

\* The lenders, the sources and the stages of a panel's tranches.
LEMMA LendersSum ==
    ASSUME BookSound, NEW f, NEW n \in Columns
    PROVE  LET K == DOMAIN ByLender(f) IN
           SumFunctionOnSet([b \in K |-> ByLender(f)[b][n]], K) = Money(Releases(f))[n]
<1> DEFINE R == Releases(f)
           p == [t \in R |-> t.file[2]]
           K == {p[t] : t \in R}
           v == [b \in K |-> ByLender(f)[b][n]]
<1>1. IsFiniteSet(R) /\ R \subseteq Tranches
  BY BookOf
<1>2. p \in [R -> K]
  OBVIOUS
<1>3. IsFiniteSet(K)
  BY <1>1, FiniteImage
<1>4. DOMAIN ByLender(f) = K
  BY DEF ByLender
<1>5. ASSUME NEW b \in K PROVE v[b] = Money(Piece(R, p, b))[n]
  <2>1. v[b] = ByLender(f)[b][n]
    BY <1>5
  <2>2. {t \in R : t.file[2] = b} = Piece(R, p, b)
    BY DEF Piece
  <2>3. ByLender(f)[b] = Money({t \in R : t.file[2] = b})
    BY <1>5 DEF ByLender
  <2> QED
    BY <2>1, <2>2, <2>3
<1> HIDE DEF R, p, K
<1>6. SumFunctionOnSet(v, K) = Money(R)[n]
  BY <1>1, <1>2, <1>3, <1>5, MoneyParts
<1> QED
  BY <1>4, <1>6 DEF R

\* The sources of a panel's tranches.
LEMMA SourcesSum ==
    ASSUME BookSound, NEW f, NEW n \in Columns
    PROVE  LET K == DOMAIN BySource(f) IN
           SumFunctionOnSet([s \in K |-> BySource(f)[s].money[n]], K) = Money(Releases(f))[n]
<1> DEFINE R == Releases(f)
           p == [t \in R |-> Source[t.file[1]]]
           K == {p[t] : t \in R}
           v == [s \in K |-> BySource(f)[s].money[n]]
<1>1. IsFiniteSet(R) /\ R \subseteq Tranches
  BY BookOf
<1>2. p \in [R -> K]
  OBVIOUS
<1>3. IsFiniteSet(K)
  BY <1>1, FiniteImage
<1>4. DOMAIN BySource(f) = K
  BY DEF BySource
<1>5. ASSUME NEW s \in K PROVE v[s] = Money(Piece(R, p, s))[n]
  <2>1. v[s] = BySource(f)[s].money[n]
    BY <1>5
  <2>2. {t \in R : Source[t.file[1]] = s} = Piece(R, p, s)
    BY DEF Piece
  <2>3. BySource(f)[s].money = Money({t \in R : Source[t.file[1]] = s})
    BY <1>5 DEF BySource
  <2> QED
    BY <2>1, <2>2, <2>3
<1> HIDE DEF R, p, K
<1>6. SumFunctionOnSet(v, K) = Money(R)[n]
  BY <1>1, <1>2, <1>3, <1>5, MoneyParts
<1> QED
  BY <1>4, <1>6 DEF R

\* The stages drawn and the rest.
Drawers == Drawn \cup {"other"}

\* There are finitely many of them, and every stage is in one.
LEMMA DrawersFinite == IsFiniteSet(Drawers) /\ \A l : StageBucket(l) \in Drawers
<1>1. Drawers = {"logged_in", "sanctioned", "pf_paid", "disbursed", "other"}
  BY DEF Drawers, Drawn
<1>2. IsFiniteSet({"logged_in"} \cup ({"sanctioned"} \cup ({"pf_paid"} \cup ({"disbursed"} \cup {"other"}))))
  BY FS_Singleton, FS_Union
<1>3. \A l : StageBucket(l) \in Drawers
  BY DEF StageBucket, Drawers
<1> QED
  BY <1>1, <1>2, <1>3

\* A drawer's standing: its tranches are a part of the panel's.
LEMMA StagesSum ==
    ASSUME BookSound, NEW f, NEW n \in Columns
    PROVE  LET K == DOMAIN StageFunnel(f) IN
           SumFunctionOnSet([s \in K |-> StageFunnel(f)[s].money[n]], K) = Money(Releases(f))[n]
<1> DEFINE R == Releases(f)
           p == [t \in R |-> StageBucket(t.file[1])]
           v == [s \in Drawers |-> StageFunnel(f)[s].money[n]]
<1>1. IsFiniteSet(R) /\ R \subseteq Tranches /\ \A t \in R : t.file[1] \in Scope(f)
  BY BookOf
<1>2. p \in [R -> Drawers]
  BY DrawersFinite
<1>4. DOMAIN StageFunnel(f) = Drawers
  BY DEF StageFunnel, Drawers
<1>5. ASSUME NEW s \in Drawers PROVE v[s] = Money(Piece(R, p, s))[n]
  <2> DEFINE L == {l \in Scope(f) : StageBucket(l) = s}
  <2>1. v[s] = StageFunnel(f)[s].money[n]
    BY <1>5
  <2>2. ReleasesOf(f, L) = Piece(R, p, s)
    BY <1>1 DEF Piece, ReleasesOf
  <2>3. StageFunnel(f)[s].money = Money(ReleasesOf(f, L))
    BY <1>5 DEF StageFunnel, Standing, Drawers
  <2> QED
    BY <2>1, <2>2, <2>3
<1> HIDE DEF R, p
<1>6. SumFunctionOnSet(v, Drawers) = Money(R)[n]
  BY <1>1, <1>2, DrawersFinite, <1>5, MoneyParts
<1> QED
  BY <1>4, <1>6 DEF R

\* The ages, with what is written off.
LEMMA AgesSum ==
    ASSUME BookSound, NEW f
    PROVE  SumFunctionOnSet([b \in Buckets |-> Ageing(f)[b].outstanding], Buckets)
             + SumOf([t \in {t \in Releases(f) : t.writtenOff} |-> Short(t)])
               = Money(Releases(f)).outstanding
<1> DEFINE R == Releases(f)
           C == Chased(f)
           W == {t \in R : t.writtenOff}
           p == [t \in C |-> Bucket(t)]
           v == [b \in Buckets |-> Ageing(f)[b].outstanding]
<1>0. "outstanding" \in Columns
  BY DEF Columns
<1>1. IsFiniteSet(R) /\ R \subseteq Tranches /\ \A t \in R : Past(t)
  BY BookOf
<1>2. IsFiniteSet(C) /\ C \subseteq Tranches /\ C \subseteq R \ W
  <2>1. C \subseteq R \ W
    BY DEF Chased
  <2> QED
    BY <1>1, <2>1, FS_Subset
<1>3. \A t : Bucket(t) \in Buckets
  BY DEF Bucket, Buckets
<1>4. IsFiniteSet(Buckets)
  <2>1. Buckets = {"0_30"} \cup ({"31_60"} \cup ({"61_90"} \cup ({"over_90"} \cup {"no_date"})))
    BY DEF Buckets
  <2> QED
    BY <2>1, FS_Singleton, FS_Union
<1>5. p \in [C -> Buckets]
  BY <1>3
<1>6. ASSUME NEW b \in Buckets PROVE v[b] = Money(Piece(C, p, b)).outstanding
  <2>1. {t \in C : Bucket(t) = b} = Piece(C, p, b)
    BY DEF Piece
  <2> QED
    BY <2>1 DEF Ageing
<1> HIDE DEF p, C
<1>8. SumFunctionOnSet(v, Buckets) = Money(C).outstanding
  BY <1>0, <1>2, <1>4, <1>5, <1>6, MoneyParts
<1>9. Money(R \ W).outstanding = Money(C).outstanding
  <2>1. IsFiniteSet(R \ W) /\ R \ W \subseteq Tranches
    BY <1>1, FS_Subset
  <2>2. \A t \in (R \ W) \ C : Figures(t).outstanding = 0
    <3>1. \A t \in (R \ W) \ C : ~(Short(t) > 0)
      BY DEF C, Chased
    <3>2. \A t \in R : Short(t) \in Nat
      BY <1>1, FiguresTyped
    <3> QED
      BY <3>1, <3>2 DEF Figures
  <2> HIDE DEF W, R
  <2> QED
    BY <1>0, <1>2, <2>1, <2>2, MoneyOfRest
<1>10. Money(R).outstanding = Money(R \ W).outstanding + Money(W).outstanding
  <2>1. /\ IsFiniteSet(R \ W) /\ R \ W \subseteq Tranches /\ IsFiniteSet(W) /\ W \subseteq Tranches
        /\ (R \ W) \cap W = {} /\ (R \ W) \cup W = R
    BY <1>1, FS_Subset
  <2> HIDE DEF W, R
  <2>2. Money((R \ W) \cup W).outstanding = Money(R \ W).outstanding + Money(W).outstanding
    BY <1>0, <2>1, MoneyUnion
  <2> QED
    BY <2>1, <2>2
<1>11. Money(W).outstanding = SumOf([t \in W |-> Short(t)])
  BY DEF Money
<1> QED
  BY <1>8, <1>9, <1>10, <1>11

\* What is owed is the same on every panel.
LEMMA OwedOnce == ASSUME BookSound, NEW f PROVE OutstandingAgrees(f, Panels(f))
<1> SUFFICES LET owed == Funnel(f).money.outstanding
                 gone == SumOf([t \in {t \in Releases(f) : t.writtenOff} |-> Short(t)])
             IN  /\ Over(ByLender(f), LAMBDA m : m.outstanding) = owed
                 /\ Over(Ageing(f), LAMBDA m : m.outstanding) + gone = owed
                 /\ Over(BySource(f), LAMBDA r : r.money.outstanding) = owed
                 /\ Over(StageFunnel(f), LAMBDA r : r.money.outstanding) = owed
  BY PanelsAre DEF OutstandingAgrees, Over
<1>1. Funnel(f).money.outstanding = Money(Releases(f)).outstanding
  BY DEF Funnel
<1>2. "outstanding" \in Columns
  BY DEF Columns
<1>3. Over(ByLender(f), LAMBDA m : m.outstanding) = Money(Releases(f)).outstanding
  BY <1>2, LendersSum DEF Over, SumOf
<1>4. Over(BySource(f), LAMBDA r : r.money.outstanding) = Money(Releases(f)).outstanding
  BY <1>2, SourcesSum DEF Over, SumOf
<1>5. Over(StageFunnel(f), LAMBDA r : r.money.outstanding) = Money(Releases(f)).outstanding
  BY <1>2, StagesSum DEF Over, SumOf
<1>6. Over(Ageing(f), LAMBDA m : m.outstanding)
        = SumFunctionOnSet([b \in Buckets |-> Ageing(f)[b].outstanding], Buckets)
  <2>1. DOMAIN Ageing(f) = Buckets
    BY DEF Ageing
  <2> QED
    BY <2>1 DEF Over, SumOf
<1> QED
  BY <1>1, <1>3, <1>4, <1>5, <1>6, AgesSum

-----------------------------------------------------------------------------
(* The panels against the book.                                            *)

\* What was approved in the stages is what was approved.
LEMMA StagesApproved ==
    ASSUME BookSound, NEW f
    PROVE  LET K == DOMAIN StageFunnel(f) IN
           SumFunctionOnSet([s \in K |-> StageFunnel(f)[s].sanctioned], K) = Funnel(f).sanctioned
<1> DEFINE S == FilesIn(f, Live)
           p == [g \in S |-> StageBucket(g[1])]
           v == [s \in Drawers |-> StageFunnel(f)[s].sanctioned]
<1>1. S \subseteq Files /\ \A g \in S : g[1] \in Scope(f)
  BY DEF FilesIn
<1>2. p \in [S -> Drawers]
  BY DrawersFinite
<1>3. DOMAIN StageFunnel(f) = Drawers
  BY DEF StageFunnel, Drawers
<1>4. ASSUME NEW s \in Drawers PROVE v[s] = Approved(Piece(S, p, s))
  <2> DEFINE L == {l \in Scope(f) : StageBucket(l) = s}
  <2>1. FilesAmong(f, Live, L) = Piece(S, p, s)
    BY <1>1 DEF Piece, FilesAmong
  <2>2. StageFunnel(f)[s].sanctioned = Approved(FilesAmong(f, Live, L))
    BY <1>4 DEF StageFunnel, Standing, Drawers
  <2> QED
    BY <1>4, <2>1, <2>2
<1>5. Funnel(f).sanctioned = Approved(S)
  BY DEF Funnel
<1> HIDE DEF S, p
<1>6. SumFunctionOnSet(v, Drawers) = Approved(S)
  BY <1>1, <1>2, <1>4, DrawersFinite, ApprovedParts
<1> QED
  BY <1>3, <1>5, <1>6

\* The files of the stages are the files.
LEMMA StagesCount ==
    ASSUME BookSound, NEW f
    PROVE  LET K == DOMAIN StageFunnel(f) IN
           SumFunctionOnSet([s \in K |-> StageFunnel(f)[s].leads], K) = Cardinality(Scope(f))
<1> DEFINE S == Scope(f)
           p == [l \in S |-> StageBucket(l)]
           v == [s \in Drawers |-> StageFunnel(f)[s].leads]
<1>1. IsFiniteSet(S)
  BY BookOf
<1>2. p \in [S -> Drawers]
  BY DrawersFinite
<1>3. DOMAIN StageFunnel(f) = Drawers
  BY DEF StageFunnel, Drawers
<1>4. ASSUME NEW s \in Drawers PROVE v[s] = Cardinality(Piece(S, p, s))
  <2>1. {l \in S : StageBucket(l) = s} = Piece(S, p, s)
    BY DEF Piece
  <2>2. StageFunnel(f)[s].leads = Cardinality({l \in S : StageBucket(l) = s})
    BY <1>4 DEF StageFunnel, Standing, Drawers
  <2> QED
    BY <1>4, <2>1, <2>2
<1> HIDE DEF S, p
<1>5. SumFunctionOnSet(v, Drawers) = Cardinality(S)
  BY <1>1, <1>2, <1>4, DrawersFinite, CountParts
<1> QED
  BY <1>3, <1>5 DEF S

\* No month is left out where there are few enough.
LEMMA MonthsFew ==
    ASSUME NEW keys, IsFiniteSet(keys), keys \subseteq Int, Cardinality(keys) <= MonthsShown,
           NEW k \in keys
    PROVE  Cardinality({j \in keys : j > k}) < MonthsShown
<1> DEFINE later == {j \in keys : j > k}
<1>1. later \subseteq keys \ {k}
  OBVIOUS
<1>2. /\ IsFiniteSet(keys \ {k}) /\ Cardinality(keys \ {k}) = Cardinality(keys) - 1
      /\ Cardinality(keys) \in Nat
  BY FS_RemoveElement, FS_CardinalityType
<1> HIDE DEF later
<1>3. Cardinality(later) <= Cardinality(keys \ {k}) /\ Cardinality(later) \in Nat
  BY <1>1, <1>2, FS_Subset, FS_CardinalityType
<1>4. MonthsShown \in Nat
  BY ReportAssumption DEF ReportAssumption
<1> QED
  BY <1>2, <1>3, <1>4 DEF later

\* The months, with what has no date.
LEMMA MonthsSum ==
    ASSUME BookSound, NEW f, Cardinality(MonthKeys(f)) <= MonthsShown
    PROVE  Over(Monthly(f), LAMBDA r : r.money.earned)
             + Money({t \in Releases(f) : t.day = 0}).earned = Money(Releases(f)).earned
<1> DEFINE R == Releases(f)
           dated == {t \in R : t.day # 0}
           undated == {t \in R : t.day = 0}
           paid == {t \in R : t.paidOn # 0}
           earning == [t \in R |-> Month(t.day)]
           paying == [t \in R |-> Month(t.paidOn)]
           keys == {Month(t.day) : t \in dated} \cup {Month(t.paidOn) : t \in paid}
           p == [t \in dated |-> Month(t.day)]
           v == [m \in keys |-> Monthly(f)[m].money.earned]
<1>0. "earned" \in Columns /\ keys = MonthKeys(f)
  BY DEF Columns, MonthKeys
<1>1. IsFiniteSet(R) /\ R \subseteq Tranches
  BY BookOf
<1>2. /\ IsFiniteSet(dated) /\ IsFiniteSet(undated) /\ IsFiniteSet(paid)
      /\ dated \subseteq Tranches /\ undated \subseteq Tranches
      /\ dated \cap undated = {} /\ dated \cup undated = R
  BY <1>1, FS_Subset
<1>4. keys = {earning[t] : t \in dated} \cup {paying[t] : t \in paid}
  OBVIOUS
<1>5. keys \subseteq Int
  <2>1. \A t \in R : t.day \in Nat /\ t.paidOn \in Nat
    BY <1>1, FiguresTyped
  <2>2. \A t \in R : Month(t.day) \in Int /\ Month(t.paidOn) \in Int
    BY <2>1 DEF Month
  <2> QED
    BY <2>2
<1>6. IsFiniteSet(keys)
  <2> HIDE DEF earning, paying, dated, paid
  <2>1. IsFiniteSet({earning[t] : t \in dated}) /\ IsFiniteSet({paying[t] : t \in paid})
    BY <1>2, FiniteImage
  <2> HIDE DEF keys
  <2> QED
    BY <1>4, <2>1, FS_Union
<1>7. \A k \in keys : Cardinality({j \in keys : j > k}) < MonthsShown
  <2> HIDE DEF keys
  <2> QED
    BY <1>0, <1>5, <1>6, MonthsFew
<1>8. DOMAIN Monthly(f) = keys
  <2>1. {k \in keys : Cardinality({j \in keys : j > k}) < MonthsShown} = keys
    BY <1>7
  <2> QED
    BY <1>0, <2>1 DEF Monthly
<1>9. p \in [dated -> keys]
  OBVIOUS
<1>10. ASSUME NEW m \in keys PROVE v[m] = Money(Piece(dated, p, m)).earned
  <2>1. {t \in dated : Month(t.day) = m} = Piece(dated, p, m)
    BY DEF Piece
  <2>2. m \in DOMAIN Monthly(f)
    BY <1>8
  <2>3. Monthly(f)[m].money = Money({t \in dated : Month(t.day) = m})
    BY <2>2 DEF Monthly
  <2> HIDE DEF p, dated
  <2>4. v[m] = Monthly(f)[m].money.earned
    BY <1>10
  <2> QED
    BY <2>1, <2>3, <2>4
<1>11. Over(Monthly(f), LAMBDA r : r.money.earned) = SumFunctionOnSet(v, keys)
  <2> HIDE DEF keys
  <2> QED
    BY <1>8 DEF Over, SumOf
<1> HIDE DEF p, keys, dated, undated, R
<1>12. SumFunctionOnSet(v, keys) = Money(dated).earned
  BY <1>0, <1>2, <1>6, <1>9, <1>10, MoneyParts
<1>13. Money(dated \cup undated).earned = Money(dated).earned + Money(undated).earned
  BY <1>0, <1>2, MoneyUnion
<1> QED
  BY <1>2, <1>11, <1>12, <1>13 DEF undated, R

\* Commission and tax are what is earned.
LEMMA EarnedOfBoth ==
    ASSUME NEW S, IsFiniteSet(S), S \subseteq Tranches
    PROVE  Money(S).commission + Money(S).gst = Money(S).earned
<1> DEFINE u == [t \in S |-> Figures(t).earned]
           v == [t \in S |-> Figures(t).commission]
           w == [t \in S |-> Figures(t).gst]
<1>1. {"earned", "commission", "gst"} \subseteq Columns
  BY DEF Columns
<1>2. /\ Money(S).earned = SumFunctionOnSet(u, S) /\ Money(S).commission = SumFunctionOnSet(v, S)
      /\ Money(S).gst = SumFunctionOnSet(w, S)
  BY <1>1, MoneyIs
<1>3. \A t \in S : v[t] \in Int /\ w[t] \in Int /\ u[t] = v[t] + w[t]
  <2> SUFFICES ASSUME NEW t \in S
               PROVE  v[t] \in Int /\ w[t] \in Int /\ u[t] = v[t] + w[t]
    OBVIOUS
  <2>1. t.commission \in Nat /\ t.gst \in Nat
    BY FiguresTyped
  <2>2. v[t] = t.commission /\ w[t] = t.gst /\ u[t] = t.commission + t.gst
    BY DEF Figures, Due
  <2> QED
    BY <2>1, <2>2
<1> HIDE DEF u, v, w
<1>4. SumFunctionOnSet(u, S) = SumFunctionOnSet(v, S) + SumFunctionOnSet(w, S)
  BY <1>3, SumPlus
<1> QED
  BY <1>2, <1>4

\* The expected months, with the leads that have none.
LEMMA ExpectedMonths ==
    ASSUME BookSound, NEW f
    PROVE  LET expected == ByExpectedMonth(f).months
               K == {Closing[l] : l \in Scope(f)} \ {Null}
           IN  /\ DOMAIN expected = K /\ IsFiniteSet(K)
               /\ \A m \in K : expected[m].standing = Standing(f, {l \in Scope(f) : Closing[l] = m})
<1> DEFINE P == {Closing[l] : l \in Scope(f)}
<1>1. IsFiniteSet(P)
  BY BookOf, FiniteImage
<1>2. IsFiniteSet(P \ {Null})
  BY <1>1, FS_Subset
<1> QED
  BY <1>2 DEF ByExpectedMonth

\* What is expected by month, and without one, is the opportunities' money.
LEMMA ExpectedSum ==
    ASSUME BookSound, NEW f
    PROVE  LET dateless == {l \in Scope(f) : Closing[l] = Null} IN
           Over(ByExpectedMonth(f).months, LAMBDA r : r.standing.money.disbursed)
             + Money(ReleasesOf(f, dateless)).disbursed = Money(Releases(f)).disbursed
<1> DEFINE R == Releases(f)
           E == ByExpectedMonth(f).months
           K == {Closing[l] : l \in Scope(f)} \ {Null}
           S == {t \in R : Closing[t.file[1]] # Null}
           T == {t \in R : Closing[t.file[1]] = Null}
           p == [t \in S |-> Closing[t.file[1]]]
           v == [m \in K |-> E[m].standing.money.disbursed]
<1>0. "disbursed" \in Columns
  BY DEF Columns
<1>1. IsFiniteSet(R) /\ R \subseteq Tranches /\ \A t \in R : t.file[1] \in Scope(f)
  BY BookOf
<1>2. /\ DOMAIN E = K /\ IsFiniteSet(K)
      /\ \A m \in K : E[m].standing = Standing(f, {l \in Scope(f) : Closing[l] = m})
  BY ExpectedMonths
<1>3. /\ IsFiniteSet(S) /\ IsFiniteSet(T) /\ S \subseteq Tranches /\ T \subseteq Tranches
      /\ S \cap T = {} /\ S \cup T = R
  BY <1>1, FS_Subset
<1>4. p \in [S -> K]
  BY <1>1
<1>5. ReleasesOf(f, {l \in Scope(f) : Closing[l] = Null}) = T
  BY <1>1 DEF ReleasesOf
<1>6. ASSUME NEW m \in K PROVE v[m] = Money(Piece(S, p, m)).disbursed
  <2> DEFINE L == {l \in Scope(f) : Closing[l] = m}
  <2>1. m # Null
    OBVIOUS
  <2>2. ReleasesOf(f, L) = Piece(S, p, m)
    BY <1>1, <2>1 DEF Piece, ReleasesOf
  <2> HIDE DEF E, K, L, p, S
  <2>3. v[m] = E[m].standing.money.disbursed
    BY <1>6
  <2>4. E[m].standing = Standing(f, L)
    BY <1>2, <1>6 DEF L
  <2> QED
    BY <2>2, <2>3, <2>4 DEF Standing
<1> HIDE DEF R, E, K, S, T, p
<1>7. Over(E, LAMBDA r : r.standing.money.disbursed) = SumFunctionOnSet(v, K)
  BY <1>2 DEF Over, SumOf
<1>8. SumFunctionOnSet(v, K) = Money(S).disbursed
  BY <1>0, <1>2, <1>3, <1>4, <1>6, MoneyParts
<1>9. Money(S \cup T).disbursed = Money(S).disbursed + Money(T).disbursed
  BY <1>0, <1>3, MoneyUnion
<1> QED
  BY <1>3, <1>5, <1>7, <1>8, <1>9 DEF E, R

\* And their number.
LEMMA ExpectedCount ==
    ASSUME BookSound, NEW f
    PROVE  LET dateless == {l \in Scope(f) : Closing[l] = Null} IN
           Over(ByExpectedMonth(f).months, LAMBDA r : r.standing.leads)
             + Cardinality(dateless) = Cardinality(Scope(f))
<1> DEFINE E == ByExpectedMonth(f).months
           K == {Closing[l] : l \in Scope(f)} \ {Null}
           S == {l \in Scope(f) : Closing[l] # Null}
           T == {l \in Scope(f) : Closing[l] = Null}
           p == [l \in S |-> Closing[l]]
           v == [m \in K |-> E[m].standing.leads]
<1>1. IsFiniteSet(Scope(f))
  BY BookOf
<1>2. /\ DOMAIN E = K /\ IsFiniteSet(K)
      /\ \A m \in K : E[m].standing = Standing(f, {l \in Scope(f) : Closing[l] = m})
  BY ExpectedMonths
<1>3. IsFiniteSet(S) /\ IsFiniteSet(T) /\ S \cap T = {} /\ S \cup T = Scope(f)
  BY <1>1, FS_Subset
<1>4. p \in [S -> K]
  OBVIOUS
<1>5. ASSUME NEW m \in K PROVE v[m] = Cardinality(Piece(S, p, m))
  <2> DEFINE L == {l \in Scope(f) : Closing[l] = m}
  <2>1. m # Null
    OBVIOUS
  <2>2. L = Piece(S, p, m)
    BY <2>1 DEF Piece
  <2> HIDE DEF E, K, L, p, S
  <2>3. v[m] = E[m].standing.leads
    BY <1>5
  <2>4. E[m].standing = Standing(f, L)
    BY <1>2, <1>5 DEF L
  <2> QED
    BY <2>2, <2>3, <2>4 DEF Standing
<1> HIDE DEF E, K, S, T, p
<1>6. Over(E, LAMBDA r : r.standing.leads) = SumFunctionOnSet(v, K)
  BY <1>2 DEF Over, SumOf
<1>7. SumFunctionOnSet(v, K) = Cardinality(S)
  BY <1>2, <1>3, <1>4, <1>5, CountParts
<1>8. Cardinality(S \cup T) = Cardinality(S) + Cardinality(T) - Cardinality(S \cap T)
  BY <1>3, FS_Union
<1>9. Cardinality({}) = 0 /\ Cardinality(S) \in Nat /\ Cardinality(T) \in Nat
  BY <1>3, FS_EmptySet, FS_CardinalityType
<1>10. Cardinality(Scope(f)) = Cardinality(S) + Cardinality(T)
  <2>1. Cardinality(S \cup T) = Cardinality(Scope(f)) /\ Cardinality(S \cap T) = 0
    BY <1>3, <1>9, Zenon
  <2> QED
    BY <1>8, <1>9, <2>1
<1>11. Over(E, LAMBDA r : r.standing.leads) + Cardinality(T) = Cardinality(Scope(f))
  BY <1>6, <1>7, <1>10
<1> QED
  BY <1>11 DEF E, T

\* The panels hold every rupee once.
LEMMA SumsToBook == ASSUME BookSound, NEW f PROVE PanelsSumToBook(f, Panels(f))
<1> SUFFICES
        LET book == Funnel(f)
            undated == Money({t \in Releases(f) : t.day = 0})
            expected == ByExpectedMonth(f).months
            dateless == {l \in Scope(f) : Closing[l] = Null}
        IN  /\ Over(StageFunnel(f), LAMBDA r : r.money.disbursed) = book.money.disbursed
            /\ Over(StageFunnel(f), LAMBDA r : r.sanctioned) = book.sanctioned
            /\ Over(StageFunnel(f), LAMBDA r : r.leads) = Cardinality(Scope(f))
            /\ Over(BySource(f), LAMBDA r : r.money.commission) = book.money.commission
            /\ Over(ByLender(f), LAMBDA m : m.disbursed) = book.money.disbursed
            /\ Cardinality(MonthKeys(f)) <= MonthsShown =>
                  Over(Monthly(f), LAMBDA r : r.money.earned) + undated.earned
                    = book.money.earned
            /\ RevenueBridge(f).booked + RevenueBridge(f).bookedGst = book.money.earned
            /\ Over(expected, LAMBDA r : r.standing.money.disbursed)
               + Money(ReleasesOf(f, dateless)).disbursed = book.money.disbursed
            /\ Over(expected, LAMBDA r : r.standing.leads) + Cardinality(dateless)
               = Cardinality(Scope(f))
  BY PanelsAre DEF PanelsSumToBook, Over
<1>1. Funnel(f).money = Money(Releases(f))
  BY DEF Funnel
<1>2. "disbursed" \in Columns /\ "commission" \in Columns
  BY DEF Columns
<1>3. Over(StageFunnel(f), LAMBDA r : r.money.disbursed) = Money(Releases(f)).disbursed
  BY <1>2, StagesSum DEF Over, SumOf
<1>4. Over(StageFunnel(f), LAMBDA r : r.sanctioned) = Funnel(f).sanctioned
  BY StagesApproved DEF Over, SumOf
<1>5. Over(StageFunnel(f), LAMBDA r : r.leads) = Cardinality(Scope(f))
  BY StagesCount DEF Over, SumOf
<1>6. Over(BySource(f), LAMBDA r : r.money.commission) = Money(Releases(f)).commission
  BY <1>2, SourcesSum DEF Over, SumOf
<1>7. Over(ByLender(f), LAMBDA m : m.disbursed) = Money(Releases(f)).disbursed
  BY <1>2, LendersSum DEF Over, SumOf
<1>8. RevenueBridge(f).booked + RevenueBridge(f).bookedGst = Money(Releases(f)).earned
  <2>1. /\ RevenueBridge(f).booked = Money(Releases(f)).commission
        /\ RevenueBridge(f).bookedGst = Money(Releases(f)).gst
    BY DEF RevenueBridge
  <2> QED
    BY <2>1, BookOf, EarnedOfBoth
<1> QED
  BY <1>1, <1>3, <1>4, <1>5, <1>6, <1>7, <1>8, MonthsSum, ExpectedSum, ExpectedCount

-----------------------------------------------------------------------------
(* The forecast.                                                           *)

\* Parts that are given by the members of a set count what is in one of them.
LEMMA CountOfParts ==
    ASSUME NEW S, IsFiniteSet(S), NEW T, T \subseteq S
    PROVE  /\ Cardinality(S) = Cardinality(T) + Cardinality(S \ T)
           /\ Cardinality(T) \in Nat /\ Cardinality(S \ T) \in Nat
<1>1. IsFiniteSet(T) /\ IsFiniteSet(S \ T) /\ T \cap (S \ T) = {} /\ T \cup (S \ T) = S
  BY FS_Subset
<1>2. Cardinality(T \cup (S \ T)) = Cardinality(T) + Cardinality(S \ T) - Cardinality(T \cap (S \ T))
  BY <1>1, FS_Union
<1>3. Cardinality({}) = 0 /\ Cardinality(T) \in Nat /\ Cardinality(S \ T) \in Nat
  BY <1>1, FS_EmptySet, FS_CardinalityType
<1>4. /\ Cardinality(T \cup (S \ T)) = Cardinality(S) /\ Cardinality(T \cap (S \ T)) = 0
  BY <1>1, <1>3, Zenon
<1> QED
  BY <1>2, <1>3, <1>4

\* What is left at a rate, and what was drawn at it.
LEMMA Distribute ==
    ASSUME NEW l \in Nat, NEW d \in Nat, NEW r \in Nat
    PROVE  (l - d) * r + d * r = l * r
  OBVIOUS

\* What the figures of a file are.
LEMMA FileFigures ==
    ASSUME BookSound, NEW f, NEW g \in Files
    PROVE  /\ DrawnOn(f, g) \in Nat /\ OrZero(rate[g]) \in Nat
           /\ loan[g] # Null => loan[g] \in Nat
           /\ rate[g] # Null => rate[g] \in Nat /\ OrZero(rate[g]) = rate[g]
           /\ Remaining(f, g) \in Nat /\ Remaining(f, g) * OrZero(rate[g]) \in Nat
<1> DEFINE T == {t \in Releases(f) : t.file = g}
<1>1. IsFiniteSet(T) /\ T \subseteq Tranches
  BY BookOf, FS_Subset
<1>2. "disbursed" \in Columns
  BY DEF Columns
<1>3. Money(T).disbursed \in Nat
  <2> HIDE DEF T
  <2> QED
    BY <1>1, <1>2, MoneyNat
<1>4. DrawnOn(f, g) \in Nat
  BY <1>3 DEF DrawnOn
<1>5. loan[g] \in Nat \cup {Null} /\ rate[g] \in Nat \cup {Null}
  BY DEF BookSound
<1>6. OrZero(rate[g]) \in Nat
  BY <1>5 DEF OrZero
<1>7. Remaining(f, g) \in Nat
  BY <1>4, <1>5 DEF Remaining
<1>8. Remaining(f, g) * OrZero(rate[g]) \in Nat
  BY <1>6, <1>7
<1> QED
  BY <1>4, <1>5, <1>6, <1>7, <1>8 DEF OrZero

\* A file that is no opportunity has nothing still to come.
LEMMA OpportunitiesSum ==
    ASSUME BookSound, NEW f
    PROVE  SumOf([g \in Opportunities(f) |-> Worth(f, g)]) = PipelineAhead(f).future
<1> DEFINE F == FilesIn(f, Confirmed)
           O == Opportunities(f)
           w == [g \in F |-> Remaining(f, g) * OrZero(rate[g])]
           v == [g \in O |-> Worth(f, g)]
<1>1. F \subseteq Files /\ IsFiniteSet(F)
  BY BookOf
<1>2. O \subseteq F
  BY DEF Opportunities
<1>3. \A g \in O : w[g] \in Int
  BY <1>1, <1>2, FileFigures
<1>4. \A g \in F \ O : w[g] = 0
  <2> SUFFICES ASSUME NEW g \in F, g \notin O PROVE Remaining(f, g) * OrZero(rate[g]) = 0
    OBVIOUS
  <2>1. loan[g] = Null \/ rate[g] = Null \/ ~(loan[g] > DrawnOn(f, g))
    BY DEF Opportunities
  <2>2. /\ DrawnOn(f, g) \in Nat /\ OrZero(rate[g]) \in Nat /\ (loan[g] # Null => loan[g] \in Nat)
        /\ Remaining(f, g) \in Nat
    BY <1>1, FileFigures
  <2>3. Remaining(f, g) = 0 \/ OrZero(rate[g]) = 0
    BY <2>1, <2>2 DEF Remaining, OrZero
  <2> QED
    BY <2>2, <2>3
<1>5. \A g \in O : w[g] = v[g]
  <2> SUFFICES ASSUME NEW g \in O PROVE Remaining(f, g) * OrZero(rate[g]) = Worth(f, g)
    BY <1>2
  <2>1. loan[g] # Null /\ rate[g] # Null /\ loan[g] > DrawnOn(f, g)
    BY DEF Opportunities
  <2>2. DrawnOn(f, g) \in Nat /\ loan[g] \in Nat /\ OrZero(rate[g]) = rate[g]
    BY <1>1, <1>2, <2>1, FileFigures
  <2>3. Remaining(f, g) = loan[g] - DrawnOn(f, g)
    BY <2>1, <2>2 DEF Remaining
  <2> QED
    BY <2>2, <2>3 DEF Worth
<1>6. PipelineAhead(f).future = SumFunctionOnSet(w, F)
  BY DEF PipelineAhead, SumOf
<1>7. SumOf(v) = SumFunctionOnSet(v, O)
  BY DEF SumOf
<1> HIDE DEF F, O, w, v
<1>8. SumFunctionOnSet(w, F) = SumFunctionOnSet(w, O)
  BY <1>1, <1>2, <1>3, <1>4, SumOutside
<1>9. SumFunctionOnSet(w, O) = SumFunctionOnSet(v, O)
  <2>1. IsFiniteSet(O)
    BY <1>1, <1>2, FS_Subset
  <2> QED
    BY <1>5, <2>1, SumSame
<1> QED
  BY <1>6, <1>7, <1>8, <1>9 DEF v, O

\* What was drawn of the files is part of what was released.
LEMMA DrawnOfReleased ==
    ASSUME BookSound, NEW f
    PROVE  PipelineAhead(f).drawn <= Money(Releases(f)).disbursed
<1> DEFINE R == Releases(f)
           F == FilesIn(f, Confirmed)
           S == {t \in R : t.file \in F}
           p == [t \in S |-> t.file]
           v == [g \in F |-> DrawnOn(f, g)]
<1>0. "disbursed" \in Columns
  BY DEF Columns
<1>1. IsFiniteSet(R) /\ R \subseteq Tranches /\ IsFiniteSet(F)
  BY BookOf
<1>2. IsFiniteSet(S) /\ S \subseteq R /\ S \subseteq Tranches
  BY <1>1, FS_Subset
<1>3. p \in [S -> F]
  OBVIOUS
<1>4. ASSUME NEW g \in F PROVE v[g] = Money(Piece(S, p, g)).disbursed
  <2>1. {t \in R : t.file = g} = Piece(S, p, g)
    BY DEF Piece
  <2>2. v[g] = DrawnOn(f, g)
    BY <1>4
  <2> QED
    BY <2>1, <2>2 DEF DrawnOn
<1>5. PipelineAhead(f).drawn = SumFunctionOnSet(v, F)
  BY DEF PipelineAhead, SumOf
<1> HIDE DEF R, F, S, p, v
<1>6. SumFunctionOnSet(v, F) = Money(S).disbursed
  BY <1>0, <1>1, <1>2, <1>3, <1>4, MoneyParts
<1>7. Money(S).disbursed <= Money(R).disbursed
  BY <1>0, <1>1, <1>2, MoneyOfSome
<1> QED
  BY <1>5, <1>6, <1>7 DEF R

\* Where both sides have a factor, the other factors compare.
LEMMA LessTimes ==
    ASSUME NEW u \in Nat \ {0}, NEW x \in Int, NEW y \in Int, u * x <= u * y
    PROVE  x <= y
<1> SUFFICES ASSUME ~(x <= y) PROVE FALSE
  OBVIOUS
<1>1. PICK k \in Nat : x = (y + 1) + k
  <2>1. x - (y + 1) \in Nat /\ x = (y + 1) + (x - (y + 1))
    OBVIOUS
  <2> QED
    BY <2>1
<1>2. u * x = u * y + u + u * k
  BY <1>1
<1>3. u * k \in Nat /\ u * y \in Int
  OBVIOUS
<1> QED
  BY <1>2, <1>3

\* A product of a sum is a sum of products.
LEMMA TimesSum ==
    ASSUME NEW u \in Int, NEW x \in Int, NEW y \in Int
    PROVE  u * (x + y) = u * x + u * y
  OBVIOUS

\* What is rounded for each member and added up is what the whole comes to, within a half
\* for each.
LEMMA RoundingsAddUp ==
    ASSUME NEW S, IsFiniteSet(S), NEW unit \in Nat \ {0}, NEW w, \A x \in S : w[x] \in Nat,
           NEW r, \A x \in S : r[x] = HalfUp(w[x], unit)
    PROVE  /\ SumFunctionOnSet(r, S) \in Nat /\ SumFunctionOnSet(w, S) \in Nat
           /\ WithinHalves(SumFunctionOnSet(r, S), SumFunctionOnSet(w, S), unit, Cardinality(S))
<1> DEFINE Whole(T) == SumFunctionOnSet(w, T)
           Rounded(T) == SumFunctionOnSet(r, T)
           B == {T \in SUBSET S : ~WithinHalves(Rounded(T), Whole(T), unit, Cardinality(T))}
<1>1. \A x \in S : /\ r[x] \in Nat /\ 2 * (unit * r[x]) <= 2 * w[x] + unit
                   /\ 2 * w[x] <= 2 * (unit * r[x]) + unit
  <2> SUFFICES ASSUME NEW x \in S
               PROVE  /\ r[x] \in Nat /\ 2 * (unit * r[x]) <= 2 * w[x] + unit
                      /\ 2 * w[x] <= 2 * (unit * r[x]) + unit
    OBVIOUS
  <2>1. w[x] \in Nat /\ r[x] = HalfUp(w[x], unit)
    OBVIOUS
  <2>2. /\ r[x] \in Nat /\ 2 * (unit * r[x]) <= 2 * w[x] + unit
        /\ 2 * w[x] + unit < 2 * (unit * r[x]) + 2 * unit
    BY <2>1, RoundedNear
  <2>3. unit * r[x] \in Nat
    BY <2>2
  <2> QED
    BY <2>1, <2>2, <2>3
<1>2. \A T \in SUBSET S : IsFiniteSet(T) /\ Whole(T) \in Nat /\ Rounded(T) \in Nat
  <2> SUFFICES ASSUME NEW T \in SUBSET S
               PROVE  IsFiniteSet(T) /\ Whole(T) \in Nat /\ Rounded(T) \in Nat
    OBVIOUS
  <2>1. IsFiniteSet(T)
    BY FS_Subset
  <2> QED
    BY <1>1, <2>1, SumNat
<1>3. B = {}
  <2> SUFFICES ASSUME B # {} PROVE FALSE
    OBVIOUS
  <2>1. B \subseteq SUBSET S
    OBVIOUS
  <2> HIDE DEF B
  <2>2. PICK T \in B : \A U \in B : U \subseteq T => U = T
    BY <2>1, SmallestSubset
  <2>3. /\ T \in SUBSET S /\ IsFiniteSet(T)
        /\ ~WithinHalves(Rounded(T), Whole(T), unit, Cardinality(T))
    BY <1>2 DEF B
  <2>4. CASE T = {}
    <3>1. Rounded(T) = 0 /\ Whole(T) = 0 /\ Cardinality(T) = 0
      BY <2>4, SumEmpty, FS_EmptySet
    <3> QED
      BY <2>3, <3>1 DEF WithinHalves
  <2>5. ASSUME NEW a \in T PROVE FALSE
    <3> DEFINE U == T \ {a}
    <3>1. U \in SUBSET S /\ U # T /\ U \subseteq T /\ IsFiniteSet(U) /\ a \in S
      BY <2>3, <2>5, FS_RemoveElement
    <3>2. WithinHalves(Rounded(U), Whole(U), unit, Cardinality(U))
      BY <2>2, <3>1 DEF B
    <3>3. /\ Cardinality(U) = Cardinality(T) - 1 /\ Cardinality(T) \in Nat
          /\ Cardinality(U) \in Nat
      BY <2>3, <2>5, <3>1, FS_RemoveElement, FS_CardinalityType
    <3>4. Whole(T) = w[a] + Whole(U)
      <4>1. \A x \in T : w[x] \in Int
        BY <2>3
      <4> QED
        BY <2>3, <2>5, <4>1, SumRemove
    <3>5. Rounded(T) = r[a] + Rounded(U)
      <4>1. \A x \in T : r[x] \in Int
        BY <1>1, <2>3
      <4> QED
        BY <2>3, <2>5, <4>1, SumRemove
    <3>6. /\ w[a] \in Nat /\ r[a] \in Nat /\ Whole(U) \in Nat /\ Rounded(U) \in Nat
          /\ 2 * (unit * r[a]) <= 2 * w[a] + unit /\ 2 * w[a] <= 2 * (unit * r[a]) + unit
      BY <1>1, <1>2, <3>1
    <3>7. /\ 2 * (unit * Rounded(U)) <= 2 * Whole(U) + unit * Cardinality(U)
          /\ 2 * Whole(U) <= 2 * (unit * Rounded(U)) + unit * Cardinality(U)
      BY <3>2 DEF WithinHalves
    <3> HIDE DEF Whole, Rounded, U
    <3>8. unit * Rounded(T) = unit * r[a] + unit * Rounded(U)
      BY <3>5, <3>6, TimesSum
    <3>9. unit * Cardinality(T) = unit * Cardinality(U) + unit
      <4>1. Cardinality(T) = Cardinality(U) + 1
        BY <3>3
      <4> QED
        BY <3>3, <4>1
    <3>10. /\ unit * r[a] \in Int /\ unit * Rounded(U) \in Int
           /\ unit * Cardinality(U) \in Int
      BY <3>3, <3>6
    <3>11. WithinHalves(Rounded(T), Whole(T), unit, Cardinality(T))
      BY <3>4, <3>6, <3>7, <3>8, <3>9, <3>10 DEF WithinHalves
    <3> QED
      BY <2>3, <3>11
  <2> QED
    BY <2>4, <2>5
<1>4. S \in SUBSET S
  OBVIOUS
<1> QED
  BY <1>2, <1>3, <1>4

\* A unit is a number, and not none.
LEMMA UnitIs == RateUnit \in Nat \ {0}
  BY ConstantsAssumption DEF ConstantsAssumption

\* The files that the theory prices, and what each is worth.
LEMMA CoveredIs ==
    ASSUME BookSound
    PROVE  /\ Covered \subseteq FilesIn(Everything, Confirmed) /\ Covered \subseteq Files
           /\ IsFiniteSet(Covered)
           /\ \A g \in Covered : /\ loan[g] # Null /\ rate[g] # Null
                                 /\ loan[g] \in Nat /\ rate[g] \in Nat /\ Gross(g) \in Nat
<1>1. /\ Covered \subseteq FilesIn(Everything, Confirmed)
      /\ \A g \in Covered : loan[g] # Null /\ rate[g] # Null
  BY DEF Covered, Priced
<1>2. Covered \subseteq Files /\ IsFiniteSet(Covered)
  BY <1>1, BookOf, FS_Subset
<1>3. ASSUME NEW g \in Covered
      PROVE  loan[g] \in Nat /\ rate[g] \in Nat /\ Gross(g) \in Nat
  <2>1. loan[g] \in Nat /\ rate[g] \in Nat
    BY <1>1, <1>2, FileFigures
  <2> QED
    BY <2>1 DEF Gross
<1> QED
  BY <1>1, <1>2, <1>3

\* The theory counts the files it prices and adds up what each is worth, rounded.
LEMMA TheoryOf ==
    LET whole == GrossTheoretical(Lenders)
        F == FilesIn(Everything, Confirmed)
    IN  /\ whole.files = Cardinality(F) /\ whole.counted = Cardinality(Covered)
        /\ whole.revenue
             = SumFunctionOnSet([g \in Covered |-> HalfUp(Gross(g), RateUnit)], Covered)
<1> DEFINE F == FilesIn(Everything, Confirmed)
<1>1. \A g \in F : g[2] \in Lenders
  BY DEF FilesIn, Files
<1>2. {g \in F : g[2] \in Lenders} = F
  BY <1>1
<1> HIDE DEF F
<1>3. /\ GrossTheoretical(Lenders).files = Cardinality(F)
      /\ GrossTheoretical(Lenders).counted = Cardinality(Covered)
      /\ GrossTheoretical(Lenders).revenue
            = SumOf([g \in Covered |-> HalfUp(Gross(g), RateUnit)])
  BY <1>2 DEF GrossTheoretical, F, Covered
<1> QED
  BY <1>3 DEF SumOf, F

\* The theory is what its files are worth, half a paisa for each apart.
LEMMA TheoryNear ==
    ASSUME BookSound
    PROVE  LET whole == GrossTheoretical(Lenders)
               gross == SumFunctionOnSet([g \in Covered |-> Gross(g)], Covered)
           IN  /\ whole.revenue \in Nat /\ gross \in Nat /\ whole.counted \in Nat
               /\ WithinHalves(whole.revenue, gross, RateUnit, whole.counted)
<1> DEFINE w == [g \in Covered |-> Gross(g)]
           r == [g \in Covered |-> HalfUp(Gross(g), RateUnit)]
<1>1. IsFiniteSet(Covered) /\ \A g \in Covered : Gross(g) \in Nat
  BY CoveredIs
<1>2. \A g \in Covered : w[g] \in Nat /\ r[g] = HalfUp(w[g], RateUnit)
  BY <1>1
<1>3. /\ GrossTheoretical(Lenders).revenue = SumFunctionOnSet(r, Covered)
      /\ GrossTheoretical(Lenders).counted = Cardinality(Covered)
  BY TheoryOf
<1>4. Cardinality(Covered) \in Nat
  BY <1>1, FS_CardinalityType
<1> HIDE DEF w, r
<1>5. /\ SumFunctionOnSet(r, Covered) \in Nat /\ SumFunctionOnSet(w, Covered) \in Nat
      /\ WithinHalves(SumFunctionOnSet(r, Covered), SumFunctionOnSet(w, Covered), RateUnit,
                      Cardinality(Covered))
  BY <1>1, <1>2, UnitIs, RoundingsAddUp
<1> QED
  BY <1>3, <1>4, <1>5 DEF w

\* A file is left out of the theory for one reason or the other.
LEMMA ExcludedOnce ==
    ASSUME BookSound
    PROVE  GrossTheoretical(Lenders).files - GrossTheoretical(Lenders).counted
             = PipelineAhead(Everything).excluded
<1> DEFINE F == FilesIn(Everything, Confirmed)
<1>1. IsFiniteSet(F)
  BY BookOf
<1>2. {g \in F : rate[g] = Null} \cup Unpriced(F) = F \ Covered
  BY DEF Unpriced, Covered, Priced
<1>3. PipelineAhead(Everything).excluded = Cardinality(F \ Covered)
  BY <1>2 DEF PipelineAhead, Excluded
<1>4. Covered \subseteq F
  BY DEF Covered, Priced
<1> HIDE DEF F
<1>5. /\ Cardinality(F) = Cardinality(Covered) + Cardinality(F \ Covered)
      /\ Cardinality(Covered) \in Nat /\ Cardinality(F \ Covered) \in Nat
  BY <1>1, <1>4, CountOfParts
<1>6. /\ GrossTheoretical(Lenders).files = Cardinality(F)
      /\ GrossTheoretical(Lenders).counted = Cardinality(Covered)
  BY TheoryOf DEF F
<1> QED
  BY <1>3, <1>5, <1>6

\* What is to come and what was drawn make up what the files are worth.
LEMMA TheoryInParts ==
    ASSUME BookSound, \A g \in Covered : DrawnOn(Everything, g) <= loan[g]
    PROVE  PipelineAhead(Everything).future
             + SumOf([g \in Covered |-> DrawnOn(Everything, g) * rate[g]])
               = SumFunctionOnSet([g \in Covered |-> Gross(g)], Covered)
<1> DEFINE F == FilesIn(Everything, Confirmed)
           C == Covered
           v == [g \in F |-> Remaining(Everything, g) * OrZero(rate[g])]
           w == [g \in C |-> DrawnOn(Everything, g) * rate[g]]
           u == [g \in C |-> Gross(g)]
<1>1. F \subseteq Files /\ IsFiniteSet(F) /\ C \subseteq F
  BY BookOf, CoveredIs
<1>2. IsFiniteSet(C)
  BY <1>1, FS_Subset
<1>3. \A g \in C : v[g] \in Int
  BY <1>1, FileFigures
<1>4. \A g \in F \ C : v[g] = 0
  <2> SUFFICES ASSUME NEW g \in F, g \notin C
               PROVE  Remaining(Everything, g) * OrZero(rate[g]) = 0
    OBVIOUS
  <2>1. loan[g] = Null \/ rate[g] = Null
    BY DEF Covered, Priced
  <2>2. OrZero(rate[g]) \in Nat /\ Remaining(Everything, g) \in Nat
    BY <1>1, FileFigures
  <2>3. Remaining(Everything, g) = 0 \/ OrZero(rate[g]) = 0
    BY <2>1 DEF Remaining, OrZero
  <2> QED
    BY <2>2, <2>3
<1>5. ASSUME NEW g \in C PROVE w[g] \in Int /\ u[g] = v[g] + w[g]
  <2>1. loan[g] # Null /\ rate[g] # Null
    BY CoveredIs
  <2>2. /\ DrawnOn(Everything, g) \in Nat /\ loan[g] \in Nat /\ rate[g] \in Nat
        /\ OrZero(rate[g]) = rate[g]
    BY <1>1, <2>1, FileFigures
  <2>3. Remaining(Everything, g) = loan[g] - DrawnOn(Everything, g)
    BY <2>1, <2>2 DEF Remaining
  <2>4. (loan[g] - DrawnOn(Everything, g)) * rate[g] + DrawnOn(Everything, g) * rate[g]
          = loan[g] * rate[g]
    BY <2>2, Distribute
  <2>5. DrawnOn(Everything, g) * rate[g] \in Int
    BY <2>2
  <2>6. /\ v[g] = (loan[g] - DrawnOn(Everything, g)) * rate[g]
        /\ w[g] = DrawnOn(Everything, g) * rate[g] /\ u[g] = loan[g] * rate[g]
    BY <1>1, <2>2, <2>3 DEF Gross
  <2> QED
    BY <2>4, <2>5, <2>6
<1>6. PipelineAhead(Everything).future = SumFunctionOnSet(v, F)
  BY DEF PipelineAhead, SumOf
<1>7. SumOf(w) = SumFunctionOnSet(w, C)
  BY DEF SumOf
<1> HIDE DEF F, C, v, w, u
<1>9. SumFunctionOnSet(v, F) = SumFunctionOnSet(v, C)
  BY <1>1, <1>3, <1>4, SumOutside
<1>10. SumFunctionOnSet(u, C) = SumFunctionOnSet(v, C) + SumFunctionOnSet(w, C)
  BY <1>2, <1>3, <1>5, SumPlus
<1> QED
  BY <1>6, <1>7, <1>9, <1>10 DEF w, u, C

\* RevenueReports!ForecastAgrees: what was drawn and what is to come make up the theory,
\* but for what it is rounded by.
LEMMA ForecastOnce == ASSUME BookSound, NEW f PROVE ForecastAgrees(f, Panels(f))
<1> DEFINE whole == GrossTheoretical(Lenders)
           drawn == SumOf([g \in Covered |-> DrawnOn(f, g) * rate[g]])
<1>1. /\ SumOf([g \in Opportunities(f) |-> Worth(f, g)]) = PipelineAhead(f).future
      /\ RevenueBridge(f).unlockable = PipelineAhead(f).future
      /\ PipelineAhead(f).drawn <= Funnel(f).money.disbursed
  <2>1. RevenueBridge(f).unlockable = PipelineAhead(f).future
    BY DEF RevenueBridge
  <2>2. Funnel(f).money = Money(Releases(f))
    BY DEF Funnel
  <2> QED
    BY <2>1, <2>2, OpportunitiesSum, DrawnOfReleased
<1>2. ASSUME f = Everything PROVE whole.files - whole.counted = PipelineAhead(f).excluded
  BY <1>2, ExcludedOnce
<1>3. ASSUME f = Everything, \A g \in Covered : DrawnOn(f, g) <= loan[g]
      PROVE  WithinHalves(whole.revenue, PipelineAhead(f).future + drawn, RateUnit,
                          whole.counted)
  <2>1. \A g \in Covered : DrawnOn(Everything, g) <= loan[g]
    BY <1>3
  <2>2. PipelineAhead(f).future + drawn = SumFunctionOnSet([g \in Covered |-> Gross(g)], Covered)
    BY <1>3, <2>1, TheoryInParts
  <2> QED
    BY <2>2, TheoryNear
<1> QED
  BY <1>1, <1>2, <1>3, PanelsAre DEF ForecastAgrees

-----------------------------------------------------------------------------
(* The lenders' summary.                                                   *)

AllStatuses == {"written_off", "billed", "to_bill", "short_paid", "paid"}

\* A tranche has one of the statuses.
LEMMA StatusIs ==
    ASSUME NEW t
    PROVE  /\ StatusOf(t) \in AllStatuses
           /\ StatusOf(t) = "to_bill" => ~t.writtenOff /\ ~t.billed
<1>1. CASE t.writtenOff
  BY <1>1 DEF StatusOf, AllStatuses
<1>2. CASE ~t.writtenOff /\ t.received = Null /\ t.billed
  BY <1>2 DEF StatusOf, AllStatuses
<1>3. CASE ~t.writtenOff /\ t.received = Null /\ ~t.billed
  BY <1>3 DEF StatusOf, AllStatuses
<1>4. CASE ~t.writtenOff /\ t.received # Null
  <2>1. StatusOf(t) = IF Settled(t) + 1 < Due(t) THEN "short_paid" ELSE "paid"
    BY <1>4 DEF StatusOf
  <2> QED
    BY <2>1 DEF AllStatuses
<1> QED
  BY <1>1, <1>2, <1>3, <1>4

\* What is owed, added up.
LEMMA OwedParts ==
    ASSUME NEW S, IsFiniteSet(S), S \subseteq Tranches, NEW K, IsFiniteSet(K), NEW p \in [S -> K],
           NEW v, \A k \in K : v[k] = Money(Piece(S, p, k)).earned - Money(Piece(S, p, k)).collected
    PROVE  SumFunctionOnSet(v, K) = Money(S).earned - Money(S).collected
<1> DEFINE e == [k \in K |-> Money(Piece(S, p, k)).earned]
           c == [k \in K |-> Money(Piece(S, p, k)).collected]
<1>1. "earned" \in Columns /\ "collected" \in Columns
  BY DEF Columns
<1>2. SumFunctionOnSet(e, K) = Money(S).earned /\ SumFunctionOnSet(c, K) = Money(S).collected
  <2>1. \A k \in K : e[k] = Money(Piece(S, p, k)).earned /\ c[k] = Money(Piece(S, p, k)).collected
    OBVIOUS
  <2> HIDE DEF e, c
  <2> QED
    BY <1>1, <2>1, MoneyParts
<1>3. ASSUME NEW k \in K PROVE v[k] \in Int /\ c[k] \in Int /\ e[k] = v[k] + c[k]
  <2>1. IsFiniteSet(Piece(S, p, k)) /\ Piece(S, p, k) \subseteq Tranches
    BY FS_Subset DEF Piece
  <2>2. Money(Piece(S, p, k)).earned \in Nat /\ Money(Piece(S, p, k)).collected \in Nat
    BY <1>1, <2>1, MoneyNat
  <2> QED
    BY <1>3, <2>2
<1>4. Money(S).earned \in Nat /\ Money(S).collected \in Nat
  BY <1>1, MoneyNat
<1> HIDE DEF e, c
<1>5. SumFunctionOnSet(e, K) = SumFunctionOnSet(v, K) + SumFunctionOnSet(c, K)
  BY <1>3, SumPlus
<1>6. SumFunctionOnSet(v, K) \in Int
  BY <1>3, SumInt
<1> QED
  BY <1>2, <1>4, <1>5, <1>6

\* What is ready to bill: the tranches.
Unbilled ==
    {t \in Releases(Everything) : ~t.billed /\ ~t.writtenOff /\ t.earns /\ t.commission > 0}

\* What is ready to bill, by lender.
LEMMA ReadyIs ==
    LET ready == ReadyToBill(Everything) IN
    /\ DOMAIN ready = {t.file[2] : t \in Unbilled}
    /\ \A b \in DOMAIN ready : ready[b].money = Money({t \in Unbilled : t.file[2] = b})
  BY DEF ReadyToBill, Unbilled

\* Whatever is still to bill, and has a commission, is ready.
LEMMA ToBillIsReady ==
    ASSUME BookSound
    PROVE  Totals({"to_bill"}).money.commission
             <= Over(ReadyToBill(Everything), LAMBDA r : r.money.commission)
<1> DEFINE R == Releases(Everything)
           T == {t \in R : StatusOf(t) \in {"to_bill"}}
           U == Unbilled
           p == [t \in U |-> t.file[2]]
           K == {p[t] : t \in U}
           ready == ReadyToBill(Everything)
           v == [b \in K |-> ready[b].money.commission]
<1>0. "commission" \in Columns
  BY DEF Columns
<1>1. IsFiniteSet(R) /\ R \subseteq Tranches /\ \A t \in R : Past(t)
  BY BookOf
<1>2. /\ IsFiniteSet(T) /\ T \subseteq Tranches
      /\ IsFiniteSet(U) /\ U \subseteq Tranches /\ U \subseteq R
  BY <1>1, FS_Subset DEF Unbilled
<1>3. p \in [U -> K]
  OBVIOUS
<1>4. IsFiniteSet(K)
  <2> HIDE DEF U, p
  <2> QED
    BY <1>2, FiniteImage
<1>5. DOMAIN ready = K
  BY ReadyIs
<1>6. ASSUME NEW b \in K PROVE v[b] = Money(Piece(U, p, b)).commission
  <2>1. {t \in U : t.file[2] = b} = Piece(U, p, b)
    BY DEF Piece
  <2>2. v[b] = ready[b].money.commission
    BY <1>6
  <2>3. ready[b].money = Money({t \in U : t.file[2] = b})
    BY <1>5, <1>6, ReadyIs
  <2> QED
    BY <2>1, <2>2, <2>3
<1>7. Over(ready, LAMBDA r : r.money.commission) = SumFunctionOnSet(v, K)
  <2> HIDE DEF K, ready
  <2> QED
    BY <1>5 DEF Over, SumOf
<1>8. Totals({"to_bill"}).money = Money(T)
  BY DEF Totals
<1>9. \A t \in T \ U : Figures(t).commission = 0
  <2> SUFFICES ASSUME NEW t \in T, t \notin U PROVE t.commission = 0
    BY DEF Figures
  <2>1. ~t.writtenOff /\ ~t.billed
    BY StatusIs
  <2>2. ~(t.earns /\ t.commission > 0)
    BY <2>1 DEF Unbilled
  <2>3. t.commission \in Nat /\ (~t.earns => t.commission = 0)
    BY <1>1, FiguresTyped DEF Past
  <2>4. t.earns => t.commission = 0
    <3>1. ~(t.commission > 0) => t.commission = 0
      BY <2>3
    <3> QED
      BY <2>2, <3>1, Zenon
  <2> QED
    BY <2>3, <2>4, Zenon
<1> HIDE DEF T, U, K, p, v, R
<1>10. SumFunctionOnSet(v, K) = Money(U).commission
  BY <1>0, <1>2, <1>3, <1>4, <1>6, MoneyParts
<1>11. T \cap U \subseteq T /\ T \cap U \subseteq U /\ T \ (T \cap U) = T \ U
  OBVIOUS
<1>12. Money(T).commission = Money(T \cap U).commission
  <2>1. \A t \in T \ (T \cap U) : Figures(t).commission = 0
    BY <1>9
  <2> QED
    BY <1>0, <1>2, <1>11, <2>1, MoneyOfRest
<1>13. Money(T \cap U).commission <= Money(U).commission
  BY <1>0, <1>2, <1>11, MoneyOfSome
<1> QED
  BY <1>7, <1>8, <1>10, <1>12, <1>13

\* The lenders of the summary.
LEMMA SummaryIs ==
    ASSUME BookSound
    PROVE  LET K == DOMAIN Summary IN
           /\ IsFiniteSet(K)
           /\ \A t \in Releases(Everything) : t.file[2] \in K
           /\ \A g \in Covered : g[2] \in K
           /\ \A b \in K :
                 LET rows == {t \in Releases(Everything) : t.file[2] = b} IN
                 /\ Summary[b].outstanding = Money(rows).earned - Money(rows).collected
                 /\ Summary[b].unbilled = Cardinality({t \in rows : ~t.billed})
                 /\ Summary[b].theoretical = TheoreticalOf(b)
<1> DEFINE R == Releases(Everything)
           F == FilesIn(Everything, Confirmed)
           p == [t \in R |-> t.file[2]]
           q == [g \in F |-> g[2]]
<1>1. DOMAIN Summary = {p[t] : t \in R} \cup {q[g] : g \in F}
  BY DEF Summary
<1>2. IsFiniteSet(R) /\ IsFiniteSet(F)
  BY BookOf
<1>3. IsFiniteSet({p[t] : t \in R}) /\ IsFiniteSet({q[g] : g \in F})
  <2> HIDE DEF R, F, p, q
  <2> QED
    BY <1>2, FiniteImage
<1>4. IsFiniteSet({p[t] : t \in R} \cup {q[g] : g \in F})
  BY <1>3, FS_Union
<1>5. \A b \in DOMAIN Summary :
         LET rows == {t \in Releases(Everything) : t.file[2] = b} IN
         /\ Summary[b].outstanding = Money(rows).earned - Money(rows).collected
         /\ Summary[b].unbilled = Cardinality({t \in rows : ~t.billed})
         /\ Summary[b].theoretical = TheoreticalOf(b)
  BY DEF Summary, SummaryRow
<1> QED
  BY <1>1, <1>4, <1>5, CoveredIs

\* What the lenders have ready to bill is what is unbilled.
LEMMA ReadyIsUnbilled ==
    ASSUME BookSound, NEW b \in DOMAIN ReadyToBill(Everything)
    PROVE  ReadyToBill(Everything)[b].money.tranches <= Summary[b].unbilled
<1> DEFINE rows == {t \in Releases(Everything) : t.file[2] = b}
           S == {t \in Unbilled : t.file[2] = b}
           T == {t \in rows : ~t.billed}
<1>1. ReadyToBill(Everything)[b].money.tranches = Cardinality(S)
  <2>1. ReadyToBill(Everything)[b].money = Money(S)
    BY ReadyIs
  <2> QED
    BY <2>1 DEF Money
<1>2. b \in DOMAIN Summary
  <2>1. PICK t \in Unbilled : b = t.file[2]
    BY ReadyIs
  <2>2. t \in Releases(Everything)
    BY DEF Unbilled
  <2> QED
    BY <2>1, <2>2, SummaryIs
<1>3. Summary[b].unbilled = Cardinality(T)
  BY <1>2, SummaryIs
<1>4. S \subseteq T
  BY DEF Unbilled
<1>5. IsFiniteSet(T)
  <2>1. IsFiniteSet(Releases(Everything)) /\ T \subseteq Releases(Everything)
    BY BookOf
  <2> QED
    BY <2>1, FS_Subset
<1> HIDE DEF S, T
<1>6. Cardinality(S) <= Cardinality(T)
  BY <1>4, <1>5, FS_Subset
<1> QED
  BY <1>1, <1>3, <1>6

\* The totals of all the statuses are those of the book.
LEMMA TotalsOfAll ==
    /\ Totals(AllStatuses).money = Money(Releases(Everything))
    /\ Totals(AllStatuses).outstanding
         = Money(Releases(Everything)).earned - Money(Releases(Everything)).collected
<1>1. {t \in Releases(Everything) : StatusOf(t) \in AllStatuses} = Releases(Everything)
  BY StatusIs
<1> QED
  BY <1>1 DEF Totals

\* What the lenders of the summary owe is what is owed.
LEMMA SummaryOwes ==
    ASSUME BookSound
    PROVE  Over(Summary, LAMBDA r : r.outstanding) = Totals(AllStatuses).outstanding
<1> DEFINE R == Releases(Everything)
           K == DOMAIN Summary
           p == [t \in R |-> t.file[2]]
           v == [b \in K |-> Summary[b].outstanding]
<1>1. IsFiniteSet(R) /\ R \subseteq Tranches /\ IsFiniteSet(K)
  BY BookOf, SummaryIs
<1>2. p \in [R -> K]
  BY SummaryIs
<1>3. ASSUME NEW b \in K
      PROVE  v[b] = Money(Piece(R, p, b)).earned - Money(Piece(R, p, b)).collected
  <2>1. {t \in R : t.file[2] = b} = Piece(R, p, b)
    BY DEF Piece
  <2>2. v[b] = Summary[b].outstanding
    BY <1>3
  <2> QED
    BY <1>3, <2>1, <2>2, SummaryIs
<1>4. Over(Summary, LAMBDA r : r.outstanding) = SumFunctionOnSet(v, K)
  BY DEF Over, SumOf
<1> HIDE DEF R, K, p, v
<1>5. SumFunctionOnSet(v, K) = Money(R).earned - Money(R).collected
  BY <1>1, <1>2, <1>3, OwedParts
<1> QED
  BY <1>4, <1>5, TotalsOfAll DEF R

\* What is near to one thing is near to what is near to it.
LEMMA NearToNear ==
    ASSUME NEW unit \in Nat \ {0}, NEW x \in Nat, NEW y \in Nat, NEW whole \in Nat,
           NEW m \in Nat, NEW n \in Nat,
           WithinHalves(x, whole, unit, m), WithinHalves(y, whole, unit, n)
    PROVE  WithinHalves(x, y, 1, n + m)
<1>1. /\ unit * x \in Int /\ unit * y \in Int /\ unit * m \in Int /\ unit * n \in Int
      /\ 2 * (unit * x) <= 2 * whole + unit * m /\ 2 * whole <= 2 * (unit * x) + unit * m
      /\ 2 * (unit * y) <= 2 * whole + unit * n /\ 2 * whole <= 2 * (unit * y) + unit * n
  BY DEF WithinHalves
<1>2. unit * (2 * x) = 2 * (unit * x) /\ unit * (2 * y) = 2 * (unit * y)
  OBVIOUS
<1>3. unit * (n + m) = unit * n + unit * m
  BY TimesSum
<1>4. /\ unit * (2 * y + (n + m)) = unit * (2 * y) + unit * (n + m)
      /\ unit * (2 * x + (n + m)) = unit * (2 * x) + unit * (n + m)
  BY TimesSum
<1>5. /\ unit * (2 * x) <= unit * (2 * y + (n + m))
      /\ unit * (2 * y) <= unit * (2 * x + (n + m))
  BY <1>1, <1>2, <1>3, <1>4
<1>6. /\ 2 * x \in Int /\ 2 * y \in Int /\ 2 * y + (n + m) \in Int
      /\ 2 * x + (n + m) \in Int
  OBVIOUS
<1>7. 2 * x <= 2 * y + (n + m) /\ 2 * y <= 2 * x + (n + m)
  BY <1>5, <1>6, LessTimes
<1> QED
  BY <1>7 DEF WithinHalves

\* What their files are worth in theory is what the book's are, half a paisa for each of
\* both apart.
LEMMA SummaryTheory ==
    ASSUME BookSound
    PROVE  LET whole == GrossTheoretical(Lenders) IN
           WithinHalves(Over(Summary, LAMBDA r : r.theoretical), whole.revenue, 1,
                        whole.counted + Cardinality(DOMAIN Summary))
<1> DEFINE C == Covered
           K == DOMAIN Summary
           p == [g \in C |-> g[2]]
           w == [g \in C |-> Gross(g)]
           u == [b \in K |-> SumOf([g \in {h \in C : h[2] = b} |-> Gross(g)])]
           v == [b \in K |-> Summary[b].theoretical]
<1>1. IsFiniteSet(C) /\ \A g \in C : w[g] \in Nat
  BY CoveredIs
<1>2. IsFiniteSet(K) /\ p \in [C -> K] /\ Cardinality(K) \in Nat
  BY SummaryIs, FS_CardinalityType
<1>3. \A b : Priced({g \in FilesIn(Everything, Confirmed) : g[2] = b}) = {h \in C : h[2] = b}
  BY DEF Priced, Covered
<1>4. ASSUME NEW b \in K PROVE v[b] = HalfUp(u[b], RateUnit)
  <2>1. v[b] = TheoreticalOf(b)
    BY <1>4, SummaryIs
  <2>2. TheoreticalOf(b) = HalfUp(SumOf([g \in {h \in C : h[2] = b} |-> Gross(g)]), RateUnit)
    BY <1>3 DEF TheoreticalOf
  <2> QED
    BY <1>4, <2>1, <2>2
<1>5. ASSUME NEW b \in K
      PROVE  u[b] = SumFunctionOnSet([x \in Piece(C, p, b) |-> w[x]], Piece(C, p, b))
  <2>1. {h \in C : h[2] = b} = Piece(C, p, b)
    BY DEF Piece
  <2>2. [g \in {h \in C : h[2] = b} |-> Gross(g)] = [x \in Piece(C, p, b) |-> w[x]]
    BY <2>1 DEF Piece
  <2>3. SumOf([x \in Piece(C, p, b) |-> w[x]])
          = SumFunctionOnSet([x \in Piece(C, p, b) |-> w[x]], Piece(C, p, b))
    BY DEF SumOf
  <2> QED
    BY <1>5, <2>2, <2>3
<1>6. Over(Summary, LAMBDA r : r.theoretical) = SumFunctionOnSet(v, K)
  BY DEF Over, SumOf
<1>7. \A b \in K : u[b] \in Nat
  <2> SUFFICES ASSUME NEW b \in K PROVE u[b] \in Nat
    OBVIOUS
  <2> DEFINE P == Piece(C, p, b)
             part == [x \in P |-> w[x]]
  <2>1. P \subseteq C
    BY DEF Piece
  <2>2. IsFiniteSet(P) /\ \A x \in P : part[x] \in Nat
    BY <1>1, <2>1, FS_Subset
  <2>3. u[b] = SumFunctionOnSet(part, P)
    BY <1>5
  <2> HIDE DEF P, part, u
  <2> QED
    BY <2>2, <2>3, SumNat
<1> HIDE DEF C, K, p, u, v, w
<1>8. SumFunctionOnSet(u, K) = SumFunctionOnSet(w, C)
  <2>1. \A g \in C : w[g] \in Int
    BY <1>1
  <2> QED
    BY <1>1, <1>2, <1>5, <2>1, PartsOf
<1>9. /\ SumFunctionOnSet(v, K) \in Nat /\ SumFunctionOnSet(u, K) \in Nat
      /\ WithinHalves(SumFunctionOnSet(v, K), SumFunctionOnSet(u, K), RateUnit, Cardinality(K))
  BY <1>2, <1>4, <1>7, UnitIs, RoundingsAddUp
<1>10. /\ GrossTheoretical(Lenders).revenue \in Nat /\ GrossTheoretical(Lenders).counted \in Nat
       /\ WithinHalves(GrossTheoretical(Lenders).revenue, SumFunctionOnSet(w, C), RateUnit,
                       GrossTheoretical(Lenders).counted)
  BY TheoryNear DEF w, C
<1>11. WithinHalves(SumFunctionOnSet(v, K), GrossTheoretical(Lenders).revenue, 1,
                    GrossTheoretical(Lenders).counted + Cardinality(K))
  BY <1>2, <1>8, <1>9, <1>10, UnitIs, NearToNear
<1> QED
  BY <1>6, <1>11 DEF K

\* What is owed in the statuses is what is owed.
LEMMA StatusesOwe ==
    ASSUME BookSound
    PROVE  SumOf([s \in AllStatuses |-> Totals({s}).outstanding]) = Totals(AllStatuses).outstanding
<1> DEFINE R == Releases(Everything)
           K == AllStatuses
           p == [t \in R |-> StatusOf(t)]
           v == [s \in K |-> Totals({s}).outstanding]
<1>1. IsFiniteSet(R) /\ R \subseteq Tranches
  BY BookOf
<1>2. IsFiniteSet(K)
  <2>1. K = {"written_off"} \cup ({"billed"} \cup ({"to_bill"} \cup ({"short_paid"} \cup {"paid"})))
    BY DEF AllStatuses
  <2> QED
    BY <2>1, FS_Singleton, FS_Union
<1>3. p \in [R -> K]
  BY StatusIs
<1>4. ASSUME NEW s \in K
      PROVE  v[s] = Money(Piece(R, p, s)).earned - Money(Piece(R, p, s)).collected
  <2>1. {t \in R : StatusOf(t) \in {s}} = Piece(R, p, s)
    BY DEF Piece
  <2>2. v[s] = Totals({s}).outstanding
    BY <1>4
  <2> QED
    BY <2>1, <2>2 DEF Totals
<1>5. SumOf(v) = SumFunctionOnSet(v, K)
  BY DEF SumOf
<1> HIDE DEF R, K, p
<1>6. SumFunctionOnSet(v, K) = Money(R).earned - Money(R).collected
  <2> HIDE DEF v
  <2> QED
    BY <1>1, <1>2, <1>3, <1>4, OwedParts
<1> QED
  BY <1>5, <1>6, TotalsOfAll DEF R, K

\* RevenueReports!SummaryAgrees: the lenders' summary adds up to the book.
LEMMA SummaryOnce == ASSUME BookSound PROVE SummaryAgrees
<1>1. \A b \in DOMAIN ReadyToBill(Everything) :
          ReadyToBill(Everything)[b].money.tranches <= Summary[b].unbilled
  BY ReadyIsUnbilled
<1>2. /\ Totals({"to_bill"}).money.commission
            <= Over(ReadyToBill(Everything), LAMBDA r : r.money.commission)
      /\ Over(Summary, LAMBDA r : r.outstanding) = Totals(AllStatuses).outstanding
      /\ WithinHalves(Over(Summary, LAMBDA r : r.theoretical),
                      GrossTheoretical(Lenders).revenue, 1,
                      GrossTheoretical(Lenders).counted + Cardinality(DOMAIN Summary))
      /\ SumOf([s \in AllStatuses |-> Totals({s}).outstanding]) = Totals(AllStatuses).outstanding
  BY ToBillIsReady, SummaryOwes, SummaryTheory, StatusesOwe
<1> QED
  BY <1>1, <1>2 DEF SummaryAgrees, AllStatuses

\* The figures of the reports.
LEMMA FiguresOnce == ASSUME BookSound, NEW f PROVE FiguresAgree(f, Panels(f))
  BY OwedOnce, SumsToBook, ForecastOnce DEF FiguresAgree

\* The rows behind them.
LEMMA RowsOnce == ASSUME BookSound, NEW f PROVE RowsAgree(f, Panels(f))
  BY RegisterIsCounted, DrilldownsAgree DEF BookSound, RowsAgree

-----------------------------------------------------------------------------
(* The book stays what the reports need.                                   *)

AllPast == \A t \in tranches : Past(t)

BookInv == Inv /\ AllPast

\* The invariant is what the reports need.
LEMMA BookIsSound == BookInv => BookSound
<1> SUFFICES ASSUME BookInv PROVE BookSound
  OBVIOUS
<1>1. /\ tranches \subseteq Tranches /\ IsFiniteSet(tranches)
      /\ loan \in [Files -> Nat \cup {Null}] /\ rate \in [Files -> Nat \cup {Null}]
  BY DEF BookInv, Inv, Typed, MoneyTyped, Book
<1>2. IsFiniteSet(Leads) /\ IsFiniteSet(Lenders)
  BY ConstantsAssumption, ReportAssumption DEF ConstantsAssumption, ReportAssumption
<1>3. IsFiniteSet(Files)
  BY <1>2, FS_Product DEF Files
<1> QED
  BY <1>1, <1>2, <1>3 DEF BookInv, AllPast, BookSound, BookFinite

\* The tracker that is imported is of days that have come.
LEMMA BookBegins == Init => BookInv
<1> SUFFICES ASSUME Init PROVE BookInv
  OBVIOUS
<1>1. Inv
  BY InitInv
<1>2. \A t \in Legacy : Past(t)
  BY ConstantsAssumption, ReportAssumption DEF ConstantsAssumption, ReportAssumption, Past
<1> QED
  BY <1>1, <1>2 DEF Init, BookInv, AllPast

\* What is booked is of a day that has come, and earns.
LEMMA BooksPast ==
    ASSUME AllPast, NEW f, NEW amount, NEW day \in Days, NEW ceiling, NEW automatic,
           Books(f, amount, day, ceiling, automatic)
    PROVE  AllPast'
<1> DEFINE new == Booked(f, amount, day, automatic)
<1>1. tranches' = tranches \cup {new}
  BY DEF Books
<1>2. new.day = day /\ new.earns = TRUE
  BY DEF Booked
<1>3. day <= Today
  BY DEF Books
<1>4. Past(new)
  BY <1>2, <1>3 DEF Past
<1> HIDE DEF new
<1> QED
  BY <1>1, <1>4 DEF AllPast

\* So is what a tranche becomes.
LEMMA EditPast ==
    ASSUME Inv, AllPast, NEW t \in tranches, EditTranche(t)
    PROVE  AllPast'
<1>1. t \in Tranches /\ Past(t)
  BY DEF Inv, Typed, MoneyTyped, Book, AllPast
<1>2. SUFFICES \E new : Becomes(t, new) /\ Past(new)
  BY DEF Becomes, AllPast
<1>3. CASE Retype(t)
  <2>1. PICK amount \in Amounts :
           Becomes(t, [t EXCEPT !.amount = amount,
                                !.commission = Earned(amount, t.rate, t.earns)])
    BY <1>3 DEF Retype
  <2> DEFINE new == [t EXCEPT !.amount = amount, !.commission = Earned(amount, t.rate, t.earns)]
  <2>2. /\ new.day = t.day /\ new.earns = t.earns
        /\ new.commission = Earned(amount, t.rate, t.earns)
    BY <1>1 DEF Tranches
  <2>3. ~t.earns => Earned(amount, t.rate, t.earns) = 0
    BY DEF Earned
  <2> HIDE DEF new
  <2>4. Past(new)
    BY <1>1, <2>2, <2>3, Zenon DEF Past
  <2> QED
    BY <2>1, <2>4 DEF new
<1>4. CASE Toggle(t)
  <2> DEFINE new == [t EXCEPT !.earns = ~t.earns,
                              !.commission = Earned(t.amount, t.rate, ~t.earns)]
  <2>1. Becomes(t, new)
    BY <1>4 DEF Toggle
  <2>2. /\ new.day = t.day /\ new.earns = ~t.earns
        /\ new.commission = Earned(t.amount, t.rate, ~t.earns)
    BY <1>1 DEF Tranches
  <2>3. t.earns => Earned(t.amount, t.rate, ~t.earns) = 0
    BY DEF Earned
  <2> HIDE DEF new
  <2>4. Past(new)
    BY <1>1, <2>2, <2>3, Zenon DEF Past
  <2> QED
    BY <2>1, <2>4
<1>5. CASE Negotiate(t)
  <2>1. PICK c \in Agreed : t.earns /\ Becomes(t, [t EXCEPT !.commission = c])
    BY <1>5 DEF Negotiate
  <2> DEFINE new == [t EXCEPT !.commission = c]
  <2>2. new.day = t.day /\ new.earns = t.earns
    BY <1>1 DEF Tranches
  <2> HIDE DEF new
  <2>3. Past(new)
    BY <1>1, <2>1, <2>2, Zenon DEF Past
  <2> QED
    BY <2>1, <2>3 DEF new
<1>6. CASE Settle(t)
  <2>1. PICK paid \in Payments, day \in Days \cup {0} :
           Becomes(t, [t EXCEPT !.received = paid, !.paidOn = day])
    BY <1>6 DEF Settle
  <2> DEFINE new == [t EXCEPT !.received = paid, !.paidOn = day]
  <2>2. /\ new.day = t.day /\ new.earns = t.earns
        /\ new.commission = t.commission
    BY <1>1 DEF Tranches
  <2> HIDE DEF new
  <2>3. Past(new)
    BY <1>1, <2>2, Zenon DEF Past
  <2> QED
    BY <2>1, <2>3 DEF new
<1>7. CASE Redate(t)
  <2>1. PICK day \in Days \cup {0} : day <= Today /\ Becomes(t, [t EXCEPT !.day = day])
    BY <1>7 DEF Redate
  <2> DEFINE new == [t EXCEPT !.day = day]
  <2>2. /\ new.day = day /\ new.earns = t.earns
        /\ new.commission = t.commission
    BY <1>1 DEF Tranches
  <2>3. day <= Today
    BY <2>1
  <2> HIDE DEF new
  <2>4. Past(new)
    BY <1>1, <2>2, <2>3, Zenon DEF Past
  <2> QED
    BY <2>1, <2>4 DEF new
<1>8. CASE WriteOff(t)
  <2> DEFINE new == [t EXCEPT !.writtenOff = TRUE]
  <2>1. Becomes(t, new)
    BY <1>8 DEF WriteOff
  <2>2. /\ new.day = t.day /\ new.earns = t.earns
        /\ new.commission = t.commission
    BY <1>1 DEF Tranches
  <2> HIDE DEF new
  <2>3. Past(new)
    BY <1>1, <2>2, Zenon DEF Past
  <2> QED
    BY <2>1, <2>3
<1>9. CASE Bill(t)
  <2> DEFINE new == [t EXCEPT !.billed = TRUE, !.gst = HalfUp(t.commission * TaxPercent, 100)]
  <2>1. Becomes(t, new)
    BY <1>9 DEF Bill
  <2>2. /\ new.day = t.day /\ new.earns = t.earns
        /\ new.commission = t.commission
    BY <1>1 DEF Tranches
  <2> HIDE DEF new
  <2>3. Past(new)
    BY <1>1, <2>2, Zenon DEF Past
  <2> QED
    BY <2>1, <2>3
<1> QED
  BY <1>3, <1>4, <1>5, <1>6, <1>7, <1>8, <1>9 DEF EditTranche

\* Every step.
LEMMA NextPast == ASSUME Inv, AllPast, Next PROVE AllPast'
<1>1. ASSUME UNCHANGED tranches PROVE AllPast'
  BY <1>1 DEF AllPast
<1>2. CASE TrancheStep
  <2>1. ASSUME NEW f \in Files, AddTranche(f) PROVE AllPast'
    <3>1. PICK amount \in Amounts, day \in Days : Books(f, amount, day, loan[f], FALSE)
      BY <2>1 DEF AddTranche
    <3> QED
      BY <3>1, BooksPast
  <2>2. ASSUME NEW t \in tranches, DeleteTranche(t) PROVE AllPast'
    BY <2>2 DEF DeleteTranche, AllPast
  <2> QED
    BY <1>2, <2>1, <2>2, EditPast DEF TrancheStep
<1>3. CASE LeadStep
  <2>1. ASSUME NEW l \in Leads, NEW s \in Stages, MoveTo(l, s) PROVE AllPast'
    BY <1>1, <2>1 DEF MoveTo
  <2>2. ASSUME NEW l \in Leads, DeleteLead(l) PROVE AllPast'
    BY <1>1, <2>2 DEF DeleteLead
  <2>3. ASSUME NEW l \in Leads, NEW b \in Lenders, NEW s \in Stages, MoveWith(l, b, s)
        PROVE  AllPast'
    <3>1. \/ \E amount \in Amounts, day \in Days : Books(<<l, b>>, amount, day, loan[<<l, b>>], TRUE)
          \/ UNCHANGED tranches
      BY <2>3 DEF MoveWith
    <3> QED
      BY <1>1, <3>1, BooksPast
  <2> QED
    BY <1>3, <2>1, <2>2, <2>3 DEF LeadStep
<1>4. ASSUME NEW u \in Users, GridStep(u) PROVE AllPast'
  <2>1. ASSUME NEW b \in Lenders, NEW s \in Statuses, SaveFile(u, b, s) PROVE AllPast'
    <3>1. \/ \E amount \in Amounts, day \in Days :
                Books(<<at[u], b>>, amount, day, loan'[<<at[u], b>>], TRUE)
          \/ UNCHANGED tranches
      BY <2>1 DEF SaveFile
    <3>2. ASSUME NEW amount \in Amounts, NEW day \in Days,
                 Books(<<at[u], b>>, amount, day, loan'[<<at[u], b>>], TRUE)
          PROVE  AllPast'
      BY <3>2, BooksPast
    <3> QED
      BY <1>1, <3>1, <3>2
  <2>2. ASSUME NEW b \in Lenders, AddFile(u, b) \/ DeleteFile(u, b) PROVE AllPast'
    BY <1>1, <2>2 DEF AddFile, DeleteFile
  <2>3. ASSUME (\E l \in Leads : Reads(u, l)) \/ Refused(u) PROVE AllPast'
    BY <1>1, <2>3 DEF Reads, Refused
  <2> QED
    BY <1>4, <2>1, <2>2, <2>3 DEF GridStep
<1> QED
  BY <1>2, <1>3, <1>4 DEF Next

\* A step of the screens is one of the book, or leaves it alone.
LEMMA ScreensStepOfBook == [ScreensNext]_ScreensVars => [Next]_vars
<1> SUFFICES ASSUME [ScreensNext]_ScreensVars PROVE [Next]_vars
  OBVIOUS
<1>1. CASE UNCHANGED vars
  BY <1>1
<1>2. CASE DashboardNext
  BY <1>2 DEF DashboardNext, Begins, Stores, Fails, Evicts, BookStep, Passes
<1> QED
  BY <1>1, <1>2 DEF ScreensNext, ScreensVars

\* The book the reports read: LenderFiles' invariant, every release is of a day that has
\* come, and one that earns nothing has no commission.
THEOREM BookInvariant == ScreensSpec => []BookInv
<1>1. ScreensInit => BookInv
  BY BookBegins DEF ScreensInit, DashboardInit
<1>2. BookInv /\ [Next]_vars => BookInv'
  <2> SUFFICES ASSUME BookInv, [Next]_vars PROVE BookInv'
    OBVIOUS
  <2>1. CASE Next
    BY <2>1, NextKeeps, NextPast DEF BookInv
  <2>2. CASE UNCHANGED vars
    BY <2>2, StutterKeeps DEF BookInv, AllPast, vars
  <2> QED
    BY <2>1, <2>2
<1>3. BookInv /\ [ScreensNext]_ScreensVars => BookInv'
  BY <1>2, ScreensStepOfBook
<1> QED
  BY <1>1, <1>3, PTL DEF ScreensSpec

-----------------------------------------------------------------------------
(* The dashboard's answers.                                                *)

\* What the panels are made of is read from the book alone.
LEMMA BookAlone ==
    ASSUME UNCHANGED bookState, NEW f
    PROVE  /\ Scope(f)' = Scope(f) /\ Releases(f)' = Releases(f)
           /\ \A S : FilesIn(f, S)' = FilesIn(f, S)
           /\ \A g : DrawnOn(f, g)' = DrawnOn(f, g) /\ Remaining(f, g)' = Remaining(f, g)
<1>1. Scope(f)' = Scope(f)
  BY DEF bookState, Scope
<1>2. Releases(f)' = Releases(f)
  BY <1>1 DEF bookState, Releases
<1>3. \A S : FilesIn(f, S)' = FilesIn(f, S)
  BY <1>1 DEF bookState, FilesIn
<1>4. \A g : DrawnOn(f, g)' = DrawnOn(f, g)
  BY <1>2 DEF DrawnOn
<1>5. \A g : Remaining(f, g)' = Remaining(f, g)
  BY <1>4 DEF bookState, Remaining
<1> QED
  BY <1>1, <1>2, <1>3, <1>4, <1>5

\* So are the sums over its files.
LEMMA FilesAlone ==
    ASSUME UNCHANGED bookState, NEW f, NEW S
    PROVE  /\ Approved(FilesIn(f, S))' = Approved(FilesIn(f, S))
           /\ Unpriced(FilesIn(f, S))' = Unpriced(FilesIn(f, S))
           /\ Excluded(FilesIn(f, S))' = Excluded(FilesIn(f, S))
<1>1. FilesIn(f, S)' = FilesIn(f, S)
  BY BookAlone
<1>2. Approved(FilesIn(f, S))' = Approved(FilesIn(f, S))
  BY <1>1 DEF bookState, Approved
<1>3. Unpriced(FilesIn(f, S))' = Unpriced(FilesIn(f, S))
  BY <1>1 DEF bookState, Unpriced
<1>4. Excluded(FilesIn(f, S))' = Excluded(FilesIn(f, S))
  BY <1>1, <1>3 DEF bookState, Excluded
<1> QED
  BY <1>2, <1>3, <1>4

\* The funnel.
LEMMA FunnelAlone == ASSUME UNCHANGED bookState, NEW f PROVE Funnel(f)' = Funnel(f)
<1>1. Money(Releases(f))' = Money(Releases(f))
  BY BookAlone
<1>2. \A S : /\ Approved(FilesIn(f, S))' = Approved(FilesIn(f, S))
             /\ Unpriced(FilesIn(f, S))' = Unpriced(FilesIn(f, S))
             /\ FilesIn(f, S)' = FilesIn(f, S)
  BY BookAlone, FilesAlone
<1> QED
  BY <1>1, <1>2 DEF Funnel

\* What is ahead.
LEMMA AheadAlone == ASSUME UNCHANGED bookState, NEW f PROVE PipelineAhead(f)' = PipelineAhead(f)
<1> DEFINE F == FilesIn(f, Confirmed)
<1>1. /\ F' = F /\ Approved(F)' = Approved(F) /\ Unpriced(F)' = Unpriced(F)
      /\ Excluded(F)' = Excluded(F)
  BY BookAlone, FilesAlone
<1>2. /\ \A g : DrawnOn(f, g)' = DrawnOn(f, g) /\ Remaining(f, g)' = Remaining(f, g)
      /\ rate' = rate
  BY BookAlone DEF bookState
<1> QED
  BY <1>1, <1>2 DEF PipelineAhead

\* The counters.
LEMMA QualityAlone == ASSUME UNCHANGED bookState, NEW f PROVE DataQuality(f)' = DataQuality(f)
<1>1. Releases(f)' = Releases(f) /\ FilesIn(f, Live)' = FilesIn(f, Live)
      /\ Unpriced(FilesIn(f, Live))' = Unpriced(FilesIn(f, Live))
  BY BookAlone, FilesAlone
<1> QED
  BY <1>1 DEF DataQuality

\* An answer that is read while the book stays as it is stays the answer.
LEMMA PanelsAlone ==
    ASSUME UNCHANGED bookState, NEW f
    PROVE  TopPanels(f)' = TopPanels(f) /\ Panels(f)' = Panels(f)
<1>1. Releases(f)' = Releases(f)
  BY BookAlone
<1>2. MonthKeys(f)' = MonthKeys(f)
  BY <1>1 DEF MonthKeys
<1>3. Monthly(f)' = Monthly(f)
  BY <1>1, <1>2 DEF Monthly
<1>4. ByLender(f)' = ByLender(f)
  BY <1>1 DEF ByLender
<1>5. Ageing(f)' = Ageing(f)
  BY <1>1 DEF Ageing, Chased
<1>6. TopPanels(f)' = TopPanels(f)
  BY <1>3, FunnelAlone, AheadAlone DEF TopPanels
<1>7. BottomPanels(f)' = BottomPanels(f)
  BY <1>4, <1>5, QualityAlone DEF BottomPanels
<1> QED
  BY <1>6, <1>7 DEF Panels

\* An answer that was not overtaken while it was read is what would be read now, or it is
\* of before the last change and not kept for longer than a minute after it.
AnswerSound(e) ==
    /\ e.until \in Int /\ e.until <= tick + PanelTTL
    /\ e.overtaken \/ e.panels = Panels(e.filter) \/ e.until <= revised + PanelTTL

\* A dashboard that is not overtaken has read what it would read now.
DrawingSound ==
    \/ drawing = NotDrawing
    \/ /\ "overtaken" \in DOMAIN drawing
       /\ drawing.overtaken \/ drawing.top = TopPanels(drawing.filter)

DashboardInv ==
    /\ tick \in Int /\ revised \in Int
    /\ DrawingSound /\ \A e \in kept : AnswerSound(e)

\* What changes nothing that an answer is about.
LEMMA AnswersStay ==
    ASSUME DashboardInv, UNCHANGED <<bookState, revised>>, tick' \in Int, tick <= tick'
    PROVE  /\ \A e \in kept : AnswerSound(e)'
           /\ drawing' = drawing => DrawingSound'
<1>1. PanelTTL \in Nat
  BY CacheAssumption DEF CacheAssumption
<1>2. ASSUME NEW e \in kept PROVE AnswerSound(e)'
  <2>1. AnswerSound(e) /\ Panels(e.filter)' = Panels(e.filter)
    BY PanelsAlone DEF DashboardInv
  <2> QED
    BY <1>1, <2>1 DEF AnswerSound, DashboardInv
<1>3. ASSUME drawing' = drawing PROVE DrawingSound'
  <2>1. TopPanels(drawing.filter)' = TopPanels(drawing.filter)
    <3>1. \A f : TopPanels(f)' = TopPanels(f)
      BY PanelsAlone
    <3> QED
      BY <1>3, <3>1
  <2> QED
    BY <1>3, <2>1 DEF DrawingSound, DashboardInv
<1> QED
  BY <1>2, <1>3

\* A step of the book overtakes what is being read, and what is kept is of before it.
LEMMA BookStepKeeps == ASSUME DashboardInv, BookStep PROVE DashboardInv'
<1>0. UNCHANGED <<kept, tick>> /\ PanelTTL \in Nat
  BY CacheAssumption DEF BookStep, CacheAssumption
<1>1. CASE bookState' = bookState
  <2>1. UNCHANGED <<drawing, revised>>
    BY <1>1 DEF BookStep
  <2>2. tick' \in Int /\ tick <= tick' /\ UNCHANGED <<bookState, revised>>
    BY <1>0, <1>1, <2>1 DEF DashboardInv
  <2>3. (\A e \in kept : AnswerSound(e)') /\ DrawingSound'
    BY <2>1, <2>2, AnswersStay
  <2> QED
    BY <1>0, <2>1, <2>3 DEF DashboardInv
<1>2. CASE bookState' # bookState
  <2>1. /\ revised' = tick
        /\ drawing' = IF drawing = NotDrawing THEN drawing
                      ELSE [drawing EXCEPT !.overtaken = TRUE]
    BY <1>2 DEF BookStep
  <2>2. DrawingSound'
    <3>1. CASE drawing = NotDrawing
      BY <2>1, <3>1 DEF DrawingSound, NotDrawing
    <3>2. CASE drawing # NotDrawing
      <4>1. "overtaken" \in DOMAIN drawing /\ drawing' = [drawing EXCEPT !.overtaken = TRUE]
        BY <2>1, <3>2 DEF DashboardInv, DrawingSound
      <4>2. "overtaken" \in DOMAIN drawing' /\ drawing'.overtaken = TRUE
        BY <4>1
      <4> QED
        BY <4>2 DEF DrawingSound
    <3> QED
      BY <3>1, <3>2
  <2>3. ASSUME NEW e \in kept PROVE AnswerSound(e)'
    BY <1>0, <2>1 DEF AnswerSound, DashboardInv
  <2> QED
    BY <1>0, <2>1, <2>2, <2>3 DEF DashboardInv
<1> QED
  BY <1>1, <1>2

\* What is stored is of now, or was overtaken.
LEMMA StoresKeeps == ASSUME DashboardInv, Stores PROVE DashboardInv'
<1>1. PICK f, new : /\ f = drawing.filter /\ new.until = tick + PanelTTL /\ new.filter = f
                    /\ new.overtaken = drawing.overtaken
                    /\ new.panels = [top |-> drawing.top, bottom |-> BottomPanels(f)]
                    /\ kept' \subseteq kept \cup {new}
  <2> DEFINE latest == [server |-> drawing.server, filter |-> drawing.filter,
                        until |-> tick + PanelTTL, overtaken |-> drawing.overtaken,
                        panels |-> [top |-> drawing.top,
                                    bottom |-> BottomPanels(drawing.filter)]]
  <2>1. kept' \subseteq kept \cup {latest}
    BY DEF Stores
  <2> QED
    BY <2>1
<1>2. drawing # NotDrawing /\ drawing' = NotDrawing /\ UNCHANGED <<vars, tick, revised>>
  BY DEF Stores
<1>3. /\ UNCHANGED <<bookState, revised>> /\ tick' = tick /\ tick \in Int /\ revised \in Int
      /\ PanelTTL \in Nat
  BY <1>2, CacheAssumption DEF DashboardInv, bookState, vars, fileVars, leadVars,
     CacheAssumption
<1>4. \A e \in kept : AnswerSound(e)'
  BY <1>3, AnswersStay
<1>5. AnswerSound(new)'
  <2>1. drawing.overtaken \/ drawing.top = TopPanels(f)
    BY <1>1, <1>2 DEF DashboardInv, DrawingSound
  <2>2. new.overtaken \/ new.panels = Panels(f)
    BY <1>1, <2>1 DEF Panels
  <2>3. Panels(f)' = Panels(f)
    BY <1>3, PanelsAlone
  <2> QED
    BY <1>1, <1>3, <2>2, <2>3 DEF AnswerSound
<1> QED
  BY <1>1, <1>2, <1>3, <1>4, <1>5 DEF DashboardInv, DrawingSound

\* Every step.
LEMMA DashboardKeeps == ASSUME DashboardInv, [ScreensNext]_ScreensVars PROVE DashboardInv'
<1>0. PanelTTL \in Nat /\ tick \in Int
  BY CacheAssumption DEF CacheAssumption, DashboardInv
<1>1. ASSUME UNCHANGED vars PROVE UNCHANGED bookState
  BY <1>1 DEF vars, bookState, fileVars, leadVars
<1>2. ASSUME UNCHANGED <<vars, drawing, revised>>, kept' \subseteq kept, tick' \in Int,
             tick <= tick'
      PROVE  DashboardInv'
  <2>1. (\A e \in kept : AnswerSound(e)') /\ DrawingSound'
    BY <1>1, <1>2, AnswersStay
  <2> QED
    BY <1>2, <2>1 DEF DashboardInv
<1>3. ASSUME UNCHANGED <<vars, dashboardState>> PROVE DashboardInv'
  BY <1>0, <1>2, <1>3 DEF dashboardState
<1>4. ASSUME NEW p \in Servers, NEW f \in Watched, Begins(p, f) PROVE DashboardInv'
  <2>1. /\ drawing' = Drawing(p, f) /\ kept' \subseteq kept /\ UNCHANGED <<vars, tick, revised>>
    BY <1>4 DEF Begins
  <2>2. \A e \in kept : AnswerSound(e)'
    BY <1>0, <1>1, <2>1, AnswersStay
  <2>3. drawing'.filter = f /\ drawing'.top = TopPanels(f) /\ "overtaken" \in DOMAIN drawing'
    BY <2>1 DEF Drawing
  <2>4. TopPanels(f)' = TopPanels(f)
    BY <1>1, <2>1, PanelsAlone
  <2>5. DrawingSound'
    BY <2>3, <2>4 DEF DrawingSound
  <2> QED
    BY <1>0, <2>1, <2>2, <2>5 DEF DashboardInv
<1>5. CASE Stores
  BY <1>5, StoresKeeps
<1>6. CASE Fails
  <2>1. /\ drawing' = NotDrawing /\ UNCHANGED <<vars, kept, tick, revised>>
    BY <1>6 DEF Fails
  <2>2. \A e \in kept : AnswerSound(e)'
    BY <1>0, <1>1, <2>1, AnswersStay
  <2> QED
    BY <1>0, <2>1, <2>2 DEF DashboardInv, DrawingSound
<1>7. ASSUME NEW e \in kept, Evicts(e) PROVE DashboardInv'
  BY <1>0, <1>2, <1>7 DEF Evicts
<1>8. CASE BookStep
  BY <1>8, BookStepKeeps
<1>9. CASE Passes
  BY <1>0, <1>2, <1>9 DEF Passes
<1> QED
  BY <1>3, <1>4, <1>5, <1>6, <1>7, <1>8, <1>9 DEF ScreensNext, ScreensVars, DashboardNext

\* The dashboard's cache (_cache_get, _cache_set, dashboard): what it keeps is what would be
\* read now, was overtaken while it was read, or is dropped a minute after the change.
THEOREM DashboardInvariant == ScreensSpec => []DashboardInv
<1>1. ScreensInit => DashboardInv
  BY CacheAssumption DEF ScreensInit, DashboardInit, DashboardInv, DrawingSound, CacheAssumption
<1>2. DashboardInv /\ [ScreensNext]_ScreensVars => DashboardInv'
  BY DashboardKeeps
<1> QED
  BY <1>1, <1>2, PTL DEF ScreensSpec

\* A minute after the last change, an answer is what would be read now.
LEMMA LateIsNow ==
    ASSUME DashboardInv, NEW f, NEW d \in LateAnswers(f)
    PROVE  d = Panels(f)
<1>1. PICK e \in kept : /\ d = e.panels /\ e.filter = f /\ Servable(e) /\ ~e.overtaken
                        /\ tick > revised + PanelTTL
  BY DEF LateAnswers
<1>2. AnswerSound(e) /\ tick \in Int /\ revised \in Int /\ PanelTTL \in Nat
  BY CacheAssumption DEF DashboardInv, CacheAssumption
<1> QED
  BY <1>1, <1>2 DEF AnswerSound, Servable

\* No two panels of the revenue screens (commission_analytics_service, commission_service)
\* show two figures for one thing, whatever was released, edited and paid: the dashboard's
\* kept answers from a minute after the last change, and the others always.
THEOREM FiguresAlwaysOne == ScreensSpec => []OneFigure
<1>1. BookInv /\ DashboardInv => OneFigure
  <2> SUFFICES ASSUME BookInv, DashboardInv PROVE SummaryAgrees /\ \A f : AnswersAgree(f)
    BY DEF OneFigure
  <2>1. BookSound
    BY BookIsSound
  <2>2. \A f : FiguresAgree(f, Panels(f))
    BY <2>1, FiguresOnce
  <2> QED
    BY <2>1, <2>2, LateIsNow, SummaryOnce DEF AnswersAgree
<1> QED
  BY <1>1, BookInvariant, DashboardInvariant, PTL

\* The rows behind a figure (exceptions, drilldown of commission_analytics_service) come to that
\* figure, whatever was released, edited and paid, likewise.
THEOREM RowsAlwaysBehind == ScreensSpec => []RowsBehindFigures
<1>1. BookInv /\ DashboardInv => RowsBehindFigures
  <2> SUFFICES ASSUME BookInv, DashboardInv PROVE \A f : AnswersHaveRows(f)
    BY DEF RowsBehindFigures
  <2>1. \A f : RowsAgree(f, Panels(f))
    BY BookIsSound, RowsOnce
  <2> QED
    BY <2>1, LateIsNow DEF AnswersHaveRows
<1> QED
  BY <1>1, BookInvariant, DashboardInvariant, PTL

\* The pages of a column of a board come to its header and hold leads of the list only, none
\* twice on a page, and each that no page's end parts from leads of its time on exactly one
\* (list_leads_by_stage, list_leads): for any leads, orders, limits and filters.
THEOREM BoardsAlwaysWhole == ScreensSpec => []BoardsWhole
<1>1. BoardsWhole
  BY BoardsAreWhole DEF BoardsWhole
<1> QED
  BY <1>1, PTL

-----------------------------------------------------------------------------
(* What the reports on leads rest on, besides the types.                   *)

\* The overdue job marks what is late, and late it stays.
MarkedLate == \A i \in Ids : callback[i].status = "overdue" => DueDate[i] < now

\* The log is of the past, and has the move that brought a lead where it is.
LogTells ==
    /\ \A m \in moves : m.time <= now
    /\ \A i \in Ids : row[i].stage # "created" =>
          \E m \in moves : m.lead = i /\ m.to = row[i].stage

StoryInv == CacheInv /\ MarkedLate /\ LogTells

\* Of a callback: it is as it was, or is not overdue, or the job has marked it.
CallbackKeeps(i) ==
    \/ callback'[i].status = callback[i].status
    \/ callback'[i].status # "overdue"
    \/ DueDate[i] < now

\* A stage that is new to a lead is in the log.
StageKeeps(i) ==
    \/ row'[i].stage = row[i].stage
    \/ \E m \in moves' : m.lead = i /\ m.to = row'[i].stage

\* Requests that leave the log alone leave the stages alone.
StagesStay ==
    /\ \A i \in Ids : row'[i].stage = row[i].stage
    /\ moves' = moves /\ now' = now

\* What a request does to one column of a row does nothing to its stage.
LEMMA StageOfRow ==
    ASSUME RowsTyped, NEW i \in Ids, NEW x, NEW y
    PROVE  /\ \A k \in Ids : [row EXCEPT ![i].ai = x][k].stage = row[k].stage
           /\ \A k \in Ids : [row EXCEPT ![i].deleted = x][k].stage = row[k].stage
           /\ \A k \in Ids : [row EXCEPT ![i].in = x][k].stage = row[k].stage
           /\ \A k \in Ids : [row EXCEPT ![i].agent = x][k].stage = row[k].stage
           /\ \A k \in Ids : [row EXCEPT ![i].agent = x, ![i].pre = y][k].stage = row[k].stage
<1>1. row \in [Ids -> Boards!Rows]
  BY DEF RowsTyped
<1>2. /\ [row[i] EXCEPT !.ai = x].stage = row[i].stage
      /\ [row[i] EXCEPT !.deleted = x].stage = row[i].stage
      /\ [row[i] EXCEPT !.in = x].stage = row[i].stage
      /\ [row[i] EXCEPT !.agent = x].stage = row[i].stage
      /\ [row[i] EXCEPT !.agent = x, !.pre = y].stage = row[i].stage
  BY <1>1 DEF Boards!Rows
<1> QED
  BY <1>1, <1>2

\* The requests that write a lead and do not move it.
LEMMA WritesKeepStages ==
    ASSUME RowsTyped, NEW i \in Ids,
           \/ \E p \in Servers, u \in Boards!People : Boards!HandOver(p, u, i)
           \/ \E u \in Boards!People :
                 Boards!AddRemark(u, i) \/ Boards!EditOver(u, i) \/ Boards!AssignLead(i, u)
           \/ \E c \in Campaigns : Boards!Enroll(i, c)
           \/ Boards!Delete(i) \/ Boards!ReassignLead(i)
    PROVE  StagesStay /\ callback' = callback
<1>1. ASSUME NEW u \in Boards!People, Boards!AddRemark(u, i)
      PROVE  StagesStay /\ callback' = callback
  BY <1>1 DEF Boards!AddRemark, StagesStay
<1>2. ASSUME NEW p \in Servers, NEW u \in Boards!People, Boards!HandOver(p, u, i)
      PROVE  StagesStay /\ callback' = callback
  <2>1. row' = [row EXCEPT ![i].ai = ~row[i].ai] /\ UNCHANGED <<callback, moves, now>>
    BY <1>2 DEF Boards!HandOver
  <2> QED
    BY <2>1, StageOfRow DEF StagesStay
<1>3. ASSUME NEW u \in Boards!People, Boards!EditOver(u, i)
      PROVE  StagesStay /\ callback' = callback
  <2>1. row' = [row EXCEPT ![i].ai = FALSE] /\ UNCHANGED <<callback, moves, now>>
    BY <1>3 DEF Boards!EditOver
  <2> QED
    BY <2>1, StageOfRow DEF StagesStay
<1>4. ASSUME NEW u \in Boards!People, Boards!AssignLead(i, u)
      PROVE  StagesStay /\ callback' = callback
  <2>1. row' = [row EXCEPT ![i].agent = u] /\ UNCHANGED <<callback, moves, now>>
    BY <1>4 DEF Boards!AssignLead, Boards!Changed
  <2> QED
    BY <2>1, StageOfRow DEF StagesStay
<1>5. ASSUME NEW c \in Campaigns, Boards!Enroll(i, c)
      PROVE  StagesStay /\ callback' = callback
  <2>1. row' = [row EXCEPT ![i].in = row[i].in \cup {c}] /\ UNCHANGED <<callback, moves, now>>
    BY <1>5 DEF Boards!Enroll, Boards!Changed
  <2> QED
    BY <2>1, StageOfRow DEF StagesStay
<1>6. ASSUME Boards!Delete(i)
      PROVE  StagesStay /\ callback' = callback
  <2>1. row' = [row EXCEPT ![i].deleted = TRUE] /\ UNCHANGED <<callback, moves, now>>
    BY <1>6 DEF Boards!Delete, Boards!Changed
  <2> QED
    BY <2>1, StageOfRow DEF StagesStay
<1>7. ASSUME Boards!ReassignLead(i)
      PROVE  StagesStay /\ callback' = callback
  <2>1. PICK agent, pre \in Boards!People \cup {Unassigned} :
            /\ row' = [row EXCEPT ![i].agent = agent, ![i].pre = pre]
            /\ UNCHANGED <<callback, moves, now>>
    BY <1>7 DEF Boards!ReassignLead, Boards!Changed
  <2>2. \A k \in Ids : [row EXCEPT ![i].agent = agent, ![i].pre = pre][k].stage = row[k].stage
    BY StageOfRow
  <2>3. \A k \in Ids : row'[k].stage = row[k].stage
    BY <2>1, <2>2, Zenon
  <2> QED
    BY <2>1, <2>3 DEF StagesStay
<1> QED
  BY <1>1, <1>2, <1>3, <1>4, <1>5, <1>6, <1>7

\* The bulk requests.
LEMMA BulkKeepsStages ==
    ASSUME RowsTyped,
           \/ \E S \in SUBSET Ids, u \in Counsellors : Boards!BulkAssign(S, u)
           \/ Boards!DealWrite
    PROVE  StagesStay /\ callback' = callback
<1>0. \A i \in Ids : \A a : [row[i] EXCEPT !.agent = a].stage = row[i].stage
  BY DEF RowsTyped, Boards!Rows
<1>1. ASSUME NEW S \in SUBSET Ids, NEW u \in Counsellors, Boards!BulkAssign(S, u)
      PROVE  StagesStay /\ callback' = callback
  <2>1. /\ row' = [i \in Ids |-> IF i \in S \cap Boards!Live THEN [row[i] EXCEPT !.agent = u] ELSE row[i]]
        /\ UNCHANGED <<callback, moves, now>>
    BY <1>1 DEF Boards!BulkAssign, Boards!Changed
  <2> QED
    BY <1>0, <2>1 DEF StagesStay
<1>2. ASSUME Boards!DealWrite PROVE StagesStay /\ callback' = callback
  <2>1. \A i \in Ids : \/ row'[i] = row[i]
                       \/ \E a : row'[i] = [row[i] EXCEPT !.agent = a]
    BY <1>2 DEF Boards!DealWrite
  <2>2. UNCHANGED <<callback, moves, now>>
    BY <1>2 DEF Boards!DealWrite
  <2>3. ASSUME NEW i \in Ids PROVE row'[i].stage = row[i].stage
    <3>1. ASSUME NEW a, row'[i] = [row[i] EXCEPT !.agent = a] PROVE row'[i].stage = row[i].stage
      <4>1. [row[i] EXCEPT !.agent = a].stage = row[i].stage
        BY <1>0
      <4> QED
        BY <3>1, <4>1
    <3> QED
      BY <2>1, <3>1
  <2> QED
    BY <2>2, <2>3 DEF StagesStay
<1> QED
  BY <1>1, <1>2

\* A step that leaves stages and callbacks alone.
LEMMA StoryStays ==
    ASSUME MarkedLate, LogTells, StagesStay, callback' = callback
    PROVE  MarkedLate' /\ LogTells'
  BY DEF MarkedLate, LogTells, StagesStay

\* A transition: the log has it, and a callback that it closes is not overdue.
LEMMA MoveIsTold ==
    ASSUME RowsTyped, ClockTyped, LogsTyped, MarkedLate, LogTells, NEW i \in Ids,
           NEW p \in Servers, NEW u \in Boards!People, NEW s \in BoardStages,
           NEW note \in Boards!Notes, Boards!Move(p, u, i, s, note)
    PROVE  MarkedLate' /\ LogTells'
<1> DEFINE m == [by |-> u, lead |-> i, to |-> s, time |-> now, note |-> note]
<1>1. row' = [row EXCEPT ![i].stage = s] /\ moves' = moves \cup {m} /\ now' = now
  BY DEF Boards!Move
<1>2. m.lead = i /\ m.to = s /\ m.time = now
  OBVIOUS
<1> HIDE DEF m
<1>3. now \in Int /\ row \in [Ids -> Boards!Rows] /\ callback \in [Ids -> Boards!Callbacks]
  BY TheBoards DEF ClockTyped, RowsTyped
<1>4. /\ row'[i].stage = s
      /\ \A k \in Ids \ {i} : row'[k] = row[k]
  <2>1. row[i] \in Boards!Rows
    BY <1>3
  <2>2. [row[i] EXCEPT !.stage = s].stage = s
    BY <2>1 DEF Boards!Rows
  <2>3. row' = [row EXCEPT ![i] = [row[i] EXCEPT !.stage = s]]
    BY <1>1
  <2> QED
    BY <1>3, <2>2, <2>3
<1>5. LogTells'
  <2>1. \A n \in moves' : n.time <= now'
    BY <1>1, <1>2, <1>3 DEF LogTells
  <2>2. ASSUME NEW k \in Ids, row'[k].stage # "created"
        PROVE  \E n \in moves' : n.lead = k /\ n.to = row'[k].stage
    <3>1. CASE k = i
      BY <3>1, <1>1, <1>2, <1>4
    <3>2. CASE k # i
      BY <3>2, <2>2, <1>1, <1>4 DEF LogTells
    <3> QED
      BY <3>1, <3>2
  <2> QED
    BY <2>1, <2>2 DEF LogTells
<1>6. ASSUME NEW k \in Ids, callback'[k].status = "overdue" PROVE DueDate[k] < now'
  <2>1. CASE UNCHANGED callback
    BY <1>1, <1>6, <2>1 DEF MarkedLate
  <2>2. CASE callback' = [callback EXCEPT ![i].status = "completed", ![i].updated = now,
                                           ![i].completed = now]
    <3>1. callback' = [callback EXCEPT ![i] = [callback[i] EXCEPT !.status = "completed",
                                                 !.updated = now, !.completed = now]]
      BY <2>2
    <3>2. [callback[i] EXCEPT !.status = "completed", !.updated = now, !.completed = now].status
              = "completed"
      BY <1>3 DEF Boards!Callbacks
    <3>3. k # i
      BY <1>3, <1>6, <3>1, <3>2
    <3> QED
      BY <1>1, <1>3, <1>6, <3>1, <3>3 DEF MarkedLate
  <2> QED
    BY <2>1, <2>2 DEF Boards!Move
<1> QED
  BY <1>5, <1>6 DEF MarkedLate

\* The task screens, and the job that marks what is late.
LEMMA TasksAreTold ==
    ASSUME RowsTyped, MarkedLate, LogTells,
           Boards!MarkOverdue \/ \E i \in Ids, p \in Servers : Boards!TouchTask(p, i)
    PROVE  MarkedLate' /\ LogTells'
<1>1. ASSUME Boards!MarkOverdue PROVE MarkedLate' /\ LogTells'
  <2>1. UNCHANGED <<row, moves, now>>
    BY <1>1 DEF Boards!MarkOverdue
  <2>2. \A k \in Ids : \/ callback'[k] = callback[k]
                       \/ DueDate[k] < now
    BY <1>1 DEF Boards!MarkOverdue
  <2> QED
    BY <2>1, <2>2 DEF MarkedLate, LogTells
<1>2. ASSUME NEW i \in Ids, NEW p \in Servers, Boards!TouchTask(p, i)
      PROVE  MarkedLate' /\ LogTells'
  <2>1. UNCHANGED <<row, moves, now>>
    BY <1>2 DEF Boards!TouchTask
  <2>2. PICK status_1 \in {"completed", "in_progress"} :
           callback' = [callback EXCEPT ![i].status = status_1, ![i].updated = now,
                            ![i].completed = IF status_1 = "completed" THEN now ELSE @]
    BY <1>2 DEF Boards!TouchTask
  <2>3. PICK done : callback' = [callback EXCEPT ![i] = [callback[i] EXCEPT !.status = status_1,
                                                  !.updated = now, !.completed = done]]
    BY <2>2
  <2>4. callback \in [Ids -> Boards!Callbacks]
    BY DEF RowsTyped
  <2>5. [callback[i] EXCEPT !.status = status_1, !.updated = now, !.completed = done].status = status_1
    BY <2>4 DEF Boards!Callbacks
  <2>6. \A k \in Ids : callback'[k].status = "overdue" => callback'[k] = callback[k]
    BY <2>2, <2>3, <2>4, <2>5
  <2> QED
    BY <2>1, <2>6 DEF MarkedLate, LogTells
<1> QED
  BY <1>1, <1>2

\* A tick: what was late is later.
LEMMA TickTells ==
    ASSUME ClockTyped, LogsTyped, MarkedLate, LogTells, Boards!Tick
    PROVE  MarkedLate' /\ LogTells'
<1>1. now' = now + 1 /\ UNCHANGED <<row, callback, moves>>
  BY DEF Boards!Tick, Boards!desk
<1>2. now \in Int /\ DueDate \in [Ids -> Nat] /\ \A m \in moves : m.time \in Int
  BY TheBoards DEF ClockTyped, LogsTyped, MoveRows
<1> QED
  BY <1>1, <1>2 DEF MarkedLate, LogTells

\* Every step of the boards.
LEMMA StoryStep ==
    ASSUME StoryInv, [Boards!Next]_(Boards!vars)
    PROVE  StoryInv'
<1>1. RowsTyped /\ LogsTyped /\ ClockTyped /\ MarkedLate /\ LogTells
  BY DEF StoryInv, CacheInv
<1>2. MarkedLate' /\ LogTells'
  <2>1. CASE UNCHANGED Boards!vars
    BY <1>1, <2>1 DEF MarkedLate, LogTells, Boards!vars, Boards!desk
  <2>2. ASSUME NEW i \in Ids, Boards!LeadWrite(i) PROVE MarkedLate' /\ LogTells'
    BY <1>1, <2>2, WritesKeepStages, StoryStays, MoveIsTold, TasksAreTold DEF Boards!LeadWrite
  <2>3. CASE Boards!MarkOverdue
    BY <1>1, <2>3, TasksAreTold
  <2>4. CASE Boards!DealWrite \/ \E S \in SUBSET Ids, u \in Counsellors : Boards!BulkAssign(S, u)
    BY <1>1, <2>4, BulkKeepsStages, StoryStays
  <2>5. CASE \/ Boards!DealRead \/ Boards!LoadHeaders
             \/ \E p \in Servers, v \in Kept : Boards!LoadCards(p, v)
    BY <1>1, <2>5 DEF MarkedLate, LogTells, Boards!DealRead, Boards!LoadHeaders,
                      Boards!LoadCards, Boards!desk
  <2>6. CASE Boards!Tick
    BY <1>1, <2>6, TickTells
  <2> QED
    BY <2>1, <2>2, <2>3, <2>4, <2>5, <2>6 DEF Boards!Next
<1> QED
  BY <1>2, CacheStep DEF StoryInv

\* At the start nothing is overdue and nothing has moved.
LEMMA StoryBegins == ASSUME Boards!Init PROVE StoryInv
<1>1. MarkedLate /\ LogTells
  BY DEF Boards!Init, MarkedLate, LogTells
<1> QED
  BY <1>1, CacheBegins DEF StoryInv

\* What the reports on leads rest on (check_overdue_tasks, StageMachine.transition and its stage log):
\* what is marked overdue is late, and the log tells how a lead came to its stage.
THEOREM StoryInvariant == ScreensSpec => []StoryInv
<1>1. ScreensInit => StoryInv
  BY StoryBegins DEF ScreensInit
<1>2. StoryInv /\ [ScreensNext]_ScreensVars => StoryInv'
  BY BoardsStep, StoryStep
<1> QED
  BY <1>1, <1>2, PTL DEF ScreensSpec

-----------------------------------------------------------------------------
(* Sums and counts of the reports on leads.                                *)

\* A sum of the boards is a sum.
LEMMA BoardSums == \A w : Boards!SumOf(w) = SumFunctionOnSet(w, DOMAIN w)
  BY SameSums DEF Boards!SumOf

\* What each member of a finite set has, counted member by member, is what there is.
LEMMA CountedApart ==
    ASSUME NEW S, IsFiniteSet(S), NEW K, IsFiniteSet(K), NEW p \in [S -> K], NEW v,
           DOMAIN v = K, \A k \in K : v[k] = Cardinality({x \in S : p[x] = k})
    PROVE  Boards!SumOf(v) = Cardinality(S)
<1>1. \A k \in K : v[k] = Cardinality(Piece(S, p, k))
  BY DEF Piece
<1>2. SumFunctionOnSet(v, K) = Cardinality(S)
  BY <1>1, CountParts
<1> QED
  BY <1>2, BoardSums

\* What the reports count is finite, and everybody is one of finitely many.
LEMMA Countable ==
    /\ IsFiniteSet(Ids) /\ IsFiniteSet(Boards!People) /\ IsFiniteSet(Boards!Live)
    /\ Boards!Live \subseteq Ids
    /\ Admin \in Boards!People /\ Admin \notin Counsellors /\ Counsellors \subseteq Boards!People
    /\ Unassigned \notin Boards!People
<1>1. Boards!Live \subseteq Ids
  BY DEF Boards!Live
<1>2. Boards!People = Counsellors \cup {Admin}
  BY DEF Boards!People
<1>3. IsFiniteSet(Boards!People)
  BY <1>2, TheBoards, FS_AddElement
<1> QED
  BY <1>1, <1>2, <1>3, TheBoards, FS_Subset

\* A lead is on the one side or on the other, and a count of leads is one of them.
LEMMA LeadsCount ==
    ASSUME NEW S \in SUBSET Ids
    PROVE  IsFiniteSet(S) /\ Cardinality(S) \in Nat
  BY Countable, FS_Subset, FS_CardinalityType

\* What is in one of two sets without a common member.
LEMMA TwoCounts ==
    ASSUME NEW S, IsFiniteSet(S), NEW T, IsFiniteSet(T), S \cap T = {}
    PROVE  /\ Cardinality(S \cup T) = Cardinality(S) + Cardinality(T)
           /\ Cardinality(S) \in Nat /\ Cardinality(T) \in Nat /\ IsFiniteSet(S \cup T)
<1>1. Cardinality(S \cup T) = Cardinality(S) + Cardinality(T) - Cardinality(S \cap T)
  BY FS_Union
<1>2. Cardinality(S \cap T) = 0
  BY FS_EmptySet
<1>3. Cardinality(S) \in Nat /\ Cardinality(T) \in Nat
  BY FS_CardinalityType
<1> QED
  BY <1>1, <1>2, <1>3, FS_Union

-----------------------------------------------------------------------------
(* A board of everything against the rows.                                 *)

\* The header of a column, where no campaign is asked for, counts its leads.
LEMMA PlainHeader ==
    ASSUME NEW v, v.campaigns = {}, NEW s
    PROVE  Boards!Header(v, s) = Cardinality(Boards!Column(v, s))
<1> DEFINE C == Boards!Column(v, s)
           w == [i \in C |-> Boards!Copies(v, i)]
<1>1. DOMAIN w = C /\ \A i \in C : w[i] = 1
  BY DEF Boards!Copies
<1>2. C \in SUBSET Ids
  BY DEF Boards!Column, Boards!Filtered, Boards!Live
<1>3. Boards!Header(v, s) = Boards!SumOf(w)
  BY DEF Boards!Header
<1> HIDE DEF C, w
<1>4. SumFunctionOnSet(w, C) = Cardinality(C)
  BY <1>1, <1>2, LeadsCount, SumOnes
<1> QED
  BY <1>1, <1>3, <1>4, BoardSums DEF C

\* A column of a user's whole board.
LEMMA WholeColumn ==
    ASSUME NEW u, NEW s
    PROVE  Boards!Header(Boards!Whole(u), s)
               = Cardinality({i \in Boards!Live : Boards!Sees(u, i) /\ row[i].stage = s})
<1> DEFINE v == Boards!Whole(u)
<1>1. /\ v.campaigns = {} /\ v.user = u /\ v.among = Ids /\ v.segment = "all" /\ v.board = "both"
  BY DEF Boards!Whole
<1> HIDE DEF v
<1>2. Boards!Column(v, s) = {i \in Boards!Live : Boards!Sees(u, i) /\ row[i].stage = s}
  BY <1>1 DEF Boards!Column, Boards!Filtered, Boards!InSegment, Boards!OnBoard, Boards!Live
<1> QED
  BY <1>1, <1>2, PlainHeader DEF v

\* A report on a set of leads and the board of whoever sees just these.
LEMMA BoardIsReport ==
    ASSUME NEW u, NEW S, S = {i \in Boards!Live : Boards!Sees(u, i)}
    PROVE  Boards!ByStage(S) = [s \in BoardStages |-> Boards!Header(Boards!Whole(u), s)]
<1>2. ASSUME NEW s
      PROVE  Boards!Cardinality({i \in S : row[i].stage = s}) = Boards!Header(Boards!Whole(u), s)
  <2>1. {i \in S : row[i].stage = s} = {i \in Boards!Live : Boards!Sees(u, i) /\ row[i].stage = s}
    OBVIOUS
  <2>2. Cardinality({i \in S : row[i].stage = s})
            = Cardinality({i \in Boards!Live : Boards!Sees(u, i) /\ row[i].stage = s})
    BY <2>1
  <2> QED
    BY <2>2, WholeColumn, SameCounts
<1>3. Boards!ByStage(S) = [s \in BoardStages |-> Boards!Cardinality({i \in S : row[i].stage = s})]
  BY DEF Boards!ByStage
<1> DEFINE f == [s \in BoardStages |-> Boards!Cardinality({i \in S : row[i].stage = s})]
           g == [s \in BoardStages |-> Boards!Header(Boards!Whole(u), s)]
<1>4. \A s \in BoardStages : f[s] = g[s]
  BY <1>2
<1>5. f = g
  BY <1>4
<1> QED
  BY <1>3, <1>5

-----------------------------------------------------------------------------
(* Rows of people and of sources.                                          *)

\* Who has a lead, on either side, is a user or nobody.
LEMMA SidesOf ==
    ASSUME RowsTyped, NEW i \in Ids
    PROVE  row[i].agent \in Boards!People \cup {Unassigned} /\ row[i].pre \in Boards!People \cup {Unassigned}
  BY DEF RowsTyped, Boards!Rows

\* A user's total: the leads they are the counsellor of, and the others they prepare.
LEMMA UserTotal ==
    ASSUME NEW u
    PROVE  Boards!UserRow(u).total
               = Cardinality({i \in Boards!Live : row[i].agent = u})
                 + Cardinality({i \in Boards!Live : row[i].pre = u /\ row[i].agent # u})
<1> DEFINE A == {i \in Boards!Live : row[i].agent = u}
           B == {i \in Boards!Live : row[i].pre = u /\ row[i].agent # u}
           M == {i \in Boards!Live : u \in {row[i].agent, row[i].pre}}
<1>1. A \in SUBSET Ids /\ B \in SUBSET Ids /\ A \cap B = {} /\ M = A \cup B
  BY Countable
<1>2. Boards!UserRow(u).total = Cardinality(M)
  BY SameCounts DEF Boards!UserRow
<1> HIDE DEF A, B, M
<1>3. Cardinality(M) = Cardinality(A \cup B)
  BY <1>1
<1>4. Cardinality(A \cup B) = Cardinality(A) + Cardinality(B)
  BY <1>1, LeadsCount, TwoCounts
<1> QED
  BY <1>2, <1>3, <1>4 DEF A, B

\* The rows of all users, added up.
LEMMA UsersSum ==
    ASSUME RowsTyped
    PROVE  Boards!SumOf([u \in Boards!People |-> Boards!UserRow(u).total])
               = Cardinality({i \in Boards!Live : row[i].agent # Unassigned})
                 + Cardinality({i \in Boards!Live : row[i].pre # Unassigned /\ row[i].pre # row[i].agent})
<1> DEFINE P == Boards!People
           A == {i \in Boards!Live : row[i].agent # Unassigned}
           B == {i \in Boards!Live : row[i].pre # Unassigned /\ row[i].pre # row[i].agent}
           f == [i \in A |-> row[i].agent]
           g == [i \in B |-> row[i].pre]
           a == [u \in P |-> Cardinality({i \in Boards!Live : row[i].agent = u})]
           b == [u \in P |-> Cardinality({i \in Boards!Live : row[i].pre = u /\ row[i].agent # u})]
           t == [u \in P |-> Boards!UserRow(u).total]
<1>1. A \in SUBSET Ids /\ B \in SUBSET Ids /\ f \in [A -> P] /\ g \in [B -> P]
  BY Countable, SidesOf
<1>2. \A u \in P : {i \in A : f[i] = u} = {i \in Boards!Live : row[i].agent = u}
  BY Countable
<1>3. \A u \in P : {i \in B : g[i] = u} = {i \in Boards!Live : row[i].pre = u /\ row[i].agent # u}
  BY Countable
<1>4. DOMAIN a = P /\ \A u \in P : a[u] = Cardinality({i \in A : f[i] = u})
  BY <1>2
<1>5. DOMAIN b = P /\ \A u \in P : b[u] = Cardinality({i \in B : g[i] = u})
  BY <1>3
<1>6. \A u \in P : a[u] \in Int /\ b[u] \in Int
  <2>1. ASSUME NEW u \in P
        PROVE  /\ {i \in Boards!Live : row[i].agent = u} \in SUBSET Ids
               /\ {i \in Boards!Live : row[i].pre = u /\ row[i].agent # u} \in SUBSET Ids
    BY Countable
  <2> QED
    BY <2>1, LeadsCount
<1>7. DOMAIN t = P /\ \A u \in P : t[u] = a[u] + b[u]
  BY UserTotal
<1> HIDE DEF P, A, B, f, g, a, b, t
<1>8. IsFiniteSet(P)
  BY Countable DEF P
<1>9. SumFunctionOnSet(t, P) = SumFunctionOnSet(a, P) + SumFunctionOnSet(b, P)
  BY <1>6, <1>7, <1>8, SumPlus
<1>10. Boards!SumOf(a) = Cardinality(A)
  BY <1>1, <1>4, <1>8, LeadsCount, CountedApart
<1>11. Boards!SumOf(b) = Cardinality(B)
  BY <1>1, <1>5, <1>8, LeadsCount, CountedApart
<1> QED
  BY <1>4, <1>5, <1>7, <1>9, <1>10, <1>11, BoardSums DEF t, A, B, P

\* The leads nobody has, and those two people share, are what the rows and the company
\* differ by.
LEMMA SharedAndFree ==
    ASSUME RowsTyped
    PROVE  Cardinality({i \in Boards!Live : row[i].agent # Unassigned})
           + Cardinality({i \in Boards!Live : row[i].pre # Unassigned /\ row[i].pre # row[i].agent})
           + Cardinality({i \in Boards!Live : row[i].agent = Unassigned /\ row[i].pre = Unassigned})
           = Cardinality(Boards!Live)
             + Cardinality({i \in Boards!Live : /\ Unassigned \notin {row[i].agent, row[i].pre}
                                                /\ row[i].agent # row[i].pre})
<1> DEFINE L == Boards!Live
           A == {i \in L : row[i].agent # Unassigned}
           B == {i \in L : row[i].pre # Unassigned /\ row[i].pre # row[i].agent}
           F == {i \in L : row[i].agent = Unassigned /\ row[i].pre = Unassigned}
           D == {i \in L : /\ Unassigned \notin {row[i].agent, row[i].pre}
                           /\ row[i].agent # row[i].pre}
           H == {i \in L : row[i].agent = Unassigned /\ row[i].pre # Unassigned}
<1>1. /\ L = A \cup (F \cup H) /\ A \cap (F \cup H) = {} /\ F \cap H = {}
      /\ B = D \cup H /\ D \cap H = {}
  OBVIOUS
<1>2. \A S \in {L, A, B, F, D, H} : S \in SUBSET Ids
  BY Countable
<1> HIDE DEF L, A, B, F, D, H
<1>3. IsFiniteSet(A) /\ IsFiniteSet(F) /\ IsFiniteSet(D) /\ IsFiniteSet(H)
  BY <1>2, LeadsCount
<1>4. Cardinality(F \cup H) = Cardinality(F) + Cardinality(H) /\ IsFiniteSet(F \cup H)
  BY <1>1, <1>3, TwoCounts
<1>5. Cardinality(A \cup (F \cup H)) = Cardinality(A) + Cardinality(F \cup H)
  BY <1>1, <1>3, <1>4, TwoCounts
<1>6. Cardinality(D \cup H) = Cardinality(D) + Cardinality(H)
  BY <1>1, <1>3, TwoCounts
<1>7. Cardinality(L) = Cardinality(A \cup (F \cup H)) /\ Cardinality(B) = Cardinality(D \cup H)
  BY <1>1, Zenon
<1>8. /\ Cardinality(A) \in Nat /\ Cardinality(F) \in Nat /\ Cardinality(D) \in Nat
      /\ Cardinality(H) \in Nat
  BY <1>3, FS_CardinalityType
<1>9. Cardinality(A) + Cardinality(B) + Cardinality(F) = Cardinality(L) + Cardinality(D)
  BY <1>4, <1>5, <1>6, <1>7, <1>8
<1> QED
  BY <1>9 DEF L, A, B, F, D

\* The rows of all sources, added up.
LEMMA SourceRowsSum ==
    Boards!SumOf([x \in {LeadSource[i] : i \in Ids} |-> Boards!SourceRow(Admin, x).total])
        = Cardinality(Boards!Live)
<1> DEFINE K == {LeadSource[i] : i \in Ids}
           f == [i \in Boards!Live |-> LeadSource[i]]
           v == [x \in K |-> Boards!SourceRow(Admin, x).total]
           L == Boards!Live
<1>1. f \in [L -> K]
  BY Countable
<1>2. Boards!Reported(Admin) = L
  BY Countable DEF Boards!Reported
<1>3. \A x \in K : v[x] = Cardinality({i \in L : LeadSource[i] = x})
  BY <1>2, SameCounts DEF Boards!SourceRow
<1>4. \A x \in K : {i \in L : LeadSource[i] = x} = {i \in L : f[i] = x}
  OBVIOUS
<1>5. DOMAIN v = K /\ \A x \in K : v[x] = Cardinality({i \in L : f[i] = x})
  BY <1>3, <1>4
<1>6. IsFiniteSet(K)
  BY Countable, FiniteImage
<1> HIDE DEF K, f, v, L
<1>7. IsFiniteSet(L)
  BY Countable DEF L
<1>8. Boards!SumOf(v) = Cardinality(L)
  BY <1>1, <1>5, <1>6, <1>7, CountedApart
<1> QED
  BY <1>8 DEF v, K, L

\* A stage of some leads has no more than that stage of all.
LEMMA StageAtMost ==
    ASSUME NEW S, NEW T, S \subseteq T, T \in SUBSET Ids, NEW s \in BoardStages
    PROVE  Boards!ByStage(S)[s] <= Boards!ByStage(T)[s]
<1> DEFINE X == {i \in S : row[i].stage = s}
           Y == {i \in T : row[i].stage = s}
<1>1. X \subseteq Y /\ Y \in SUBSET Ids
  OBVIOUS
<1>2. Boards!ByStage(S)[s] = Cardinality(X) /\ Boards!ByStage(T)[s] = Cardinality(Y)
  BY SameCounts DEF Boards!ByStage
<1> HIDE DEF X, Y
<1> QED
  BY <1>1, <1>2, LeadsCount, FS_Subset

\* LeadBoards!LeadsAgree.
LEMMA LeadsTold == ASSUME RowsTyped PROVE Boards!LeadsAgree
<1>1. ASSUME NEW u \in Counsellors
      PROVE  /\ Boards!UserRow(u).stages
                    = [s \in BoardStages |-> Boards!Header(Boards!Whole(u), s)]
             /\ Boards!UserRow(u).total = Boards!Cardinality(Boards!Found(u, Ids))
             /\ \A mine \in Boards!AgentDetail(u, u) :
                    /\ mine.stages = Boards!Dashboard(u).stages
                    /\ mine.overdue = Boards!Dashboard(u).overdue
  <2> DEFINE M == {i \in Boards!Live : u \in {row[i].agent, row[i].pre}}
  <2>1. M = {i \in Boards!Live : Boards!Sees(u, i)}
    BY <1>1 DEF Boards!Sees
  <2>2. M = Boards!Found(u, Ids)
    BY <2>1, Countable DEF Boards!Found
  <2>3. Boards!UserRow(u).stages = Boards!ByStage(M) /\ Boards!UserRow(u).total = Boards!Cardinality(M)
    BY DEF Boards!UserRow
  <2>4. {i \in Boards!Live : row[i].agent = u} = Boards!Reported(u)
    BY <1>1 DEF Boards!Reported
  <2>5. {i \in Ids : callback[i].owner = u} = Boards!TasksOf(u)
    BY <1>1 DEF Boards!TasksOf
  <2>6. Boards!AgentDetail(u, u) = {Boards!AgentRow(u)}
    BY DEF Boards!AgentDetail
  <2>7. /\ Boards!AgentRow(u).stages = Boards!ByStage({i \in Boards!Live : row[i].agent = u})
        /\ Boards!AgentRow(u).overdue
               = Boards!WithStatus({i \in Ids : callback[i].owner = u}, {"overdue"})
    BY DEF Boards!AgentRow
  <2>8. /\ Boards!Dashboard(u).stages = Boards!ByStage(Boards!Reported(u))
        /\ Boards!Dashboard(u).overdue = Boards!WithStatus(Boards!TasksOf(u), {"overdue"})
    BY DEF Boards!Dashboard
  <2> HIDE DEF M
  <2>9. Boards!UserRow(u).stages = [s \in BoardStages |-> Boards!Header(Boards!Whole(u), s)]
    BY <2>1, <2>3, BoardIsReport
  <2>10. Boards!UserRow(u).total = Boards!Cardinality(Boards!Found(u, Ids))
    BY <2>2, <2>3
  <2>11. /\ Boards!AgentRow(u).stages = Boards!Dashboard(u).stages
         /\ Boards!AgentRow(u).overdue = Boards!Dashboard(u).overdue
    BY <2>4, <2>5, <2>7, <2>8, Zenon
  <2> QED
    BY <2>6, <2>9, <2>10, <2>11
<1>2. Boards!Reported(Admin) = Boards!Live
  BY Countable DEF Boards!Reported
<1>3. /\ Boards!PipelineReport(Admin).stages = Boards!ByStage(Boards!Live)
      /\ Boards!PipelineReport(Admin).total = Cardinality(Boards!Live)
  BY <1>2, SameCounts DEF Boards!PipelineReport
<1>4. /\ Boards!Dashboard(Admin).stages = Boards!ByStage(Boards!Live)
      /\ Boards!Dashboard(Admin).total = Cardinality(Boards!Live)
  BY <1>2, SameCounts DEF Boards!Dashboard
<1>5. Boards!PipelineReport(Admin).stages
          = [s \in BoardStages |-> Boards!Header(Boards!Whole(Admin), s)]
  <2>1. Boards!Live = {i \in Boards!Live : Boards!Sees(Admin, i)}
    BY Countable DEF Boards!Sees
  <2> QED
    BY <2>1, <1>3, BoardIsReport
<1>6. Boards!SumOf([u \in Boards!People |-> Boards!UserRow(u).total])
      + Boards!Cardinality({i \in Boards!Live : row[i].agent = Unassigned /\ row[i].pre = Unassigned})
      = Boards!PipelineReport(Admin).total
        + Boards!Cardinality({i \in Boards!Live : /\ Unassigned \notin {row[i].agent, row[i].pre}
                                                  /\ row[i].agent # row[i].pre})
  <2>1. /\ Boards!Cardinality({i \in Boards!Live : row[i].agent = Unassigned /\ row[i].pre = Unassigned})
           = Cardinality({i \in Boards!Live : row[i].agent = Unassigned /\ row[i].pre = Unassigned})
        /\ Boards!Cardinality({i \in Boards!Live : /\ Unassigned \notin {row[i].agent, row[i].pre}
                                                   /\ row[i].agent # row[i].pre})
           = Cardinality({i \in Boards!Live : /\ Unassigned \notin {row[i].agent, row[i].pre}
                                              /\ row[i].agent # row[i].pre})
    BY SameCounts, Zenon
  <2> QED
    BY <1>3, <2>1, UsersSum, SharedAndFree
<1>7. Boards!CompanyTotals = Boards!Dashboard(Admin).stages
  BY <1>4 DEF Boards!CompanyTotals
<1>8. \A s \in BoardStages : Boards!AiRow[s] <= Boards!CompanyTotals[s]
  <2>1. {i \in Boards!Live : row[i].in # {}} \subseteq Boards!Live /\ Boards!Live \in SUBSET Ids
    BY Countable
  <2> QED
    BY <2>1, StageAtMost DEF Boards!AiRow, Boards!CompanyTotals
<1>9. Boards!SumOf([x \in {LeadSource[i] : i \in Ids} |-> Boards!SourceRow(Admin, x).total])
      = Boards!Dashboard(Admin).total
  BY <1>4, SourceRowsSum
<1> QED
  BY <1>1, <1>5, <1>6, <1>7, <1>8, <1>9 DEF Boards!LeadsAgree

-----------------------------------------------------------------------------
(* Days.                                                                   *)

\* A time is in its day, and a later time is in no earlier day.
LEMMA DayOf ==
    ASSUME NEW d \in Nat \ {0}, NEW t \in Nat
    PROVE  t \div d \in Nat /\ t <= (t \div d + 1) * d - 1 /\ (t \div d) * d <= t
<1>1. t \div d \in Int /\ t % d \in Int /\ 0 <= t % d /\ t % d < d /\ t = d * (t \div d) + (t % d)
  OBVIOUS
<1> DEFINE q == t \div d
           r == t % d
<1> HIDE DEF q, r
<1>2. q \in Int /\ r \in Int /\ 0 <= r /\ r < d /\ t = d * q + r
  BY <1>1 DEF q, r
<1>3. d * q = q * d /\ (q + 1) * d = q * d + d /\ q * d \in Int
  BY <1>2
<1>4. q * d <= t /\ t <= (q + 1) * d - 1
  BY <1>2, <1>3
<1>5. q >= 0
  <2>1. ASSUME q <= -1 PROVE FALSE
    <3>1. (q + 1) * d <= 0
      BY <1>2, <2>1
    <3> QED
      BY <1>2, <1>3, <1>4, <3>1
  <2> QED
    BY <1>2, <2>1
<1> QED
  BY <1>2, <1>4, <1>5 DEF q

\* A later time is in no earlier day.
LEMMA DaysInOrder ==
    ASSUME NEW d \in Nat \ {0}, NEW s \in Nat, NEW t \in Nat, s <= t
    PROVE  s \div d <= t \div d
<1> DEFINE p == s \div d
           q == t \div d
<1>1. p \in Nat /\ q \in Nat /\ p * d <= s /\ t <= (q + 1) * d - 1
  BY DayOf
<1> HIDE DEF p, q
<1>2. ASSUME q + 1 <= p PROVE FALSE
  <2>1. (q + 1) * d <= p * d
    BY <1>1, <1>2
  <2>2. (q + 1) * d \in Int /\ p * d \in Int
    BY <1>1
  <2> QED
    BY <1>1, <2>1, <2>2
<1>3. p <= q
  BY <1>1, <1>2
<1> QED
  BY <1>3 DEF p, q

-----------------------------------------------------------------------------
(* Tasks.                                                                  *)

\* A count of callbacks by their status.
LEMMA StatusCount ==
    ASSUME NEW S, NEW those
    PROVE  Boards!WithStatus(S, those) = Cardinality({i \in S : callback[i].status \in those})
  BY SameCounts DEF Boards!WithStatus

\* What is today's, what is late, and what the badge counts.
LEMMA TodayAndLate ==
    ASSUME StoryInv, NEW u
    PROVE  Cardinality(Boards!TodayTasks(u) \cup {i \in Boards!LateTasks(u) : callback[i].owner = u})
           = Cardinality(Boards!Actionable(u)) + Boards!WithStatus(Boards!TodayTasks(u), {"in_progress"})
<1> DEFINE due == Boards!EndOfDay(Boards!Day(now))
           A == Boards!Actionable(u)
           W == {i \in Boards!TodayTasks(u) : callback[i].status \in {"in_progress"}}
           X == Boards!TodayTasks(u) \cup {i \in Boards!LateTasks(u) : callback[i].owner = u}
<1>1. now \in Nat /\ due \in Int /\ now <= due
  BY TheBoards, DayOf DEF StoryInv, CacheInv, ClockTyped, Boards!EndOfDay, Boards!Day
<1>2. \A i \in Ids : /\ callback[i].status \in {"pending", "in_progress", "overdue", "completed"}
                     /\ DueDate[i] \in Nat
  BY TheBoards DEF StoryInv, CacheInv, RowsTyped, Boards!Callbacks
<1>3. /\ A = {i \in Ids : /\ callback[i].owner = u /\ callback[i].status \in {"pending", "overdue"}
                          /\ DueDate[i] <= due}
      /\ Boards!TodayTasks(u)
            = {i \in Ids : /\ callback[i].owner = u /\ callback[i].status \in {"pending", "in_progress"}
                           /\ DueDate[i] <= due}
  BY DEF Boards!Actionable, Boards!TodayTasks
<1>4. {i \in Boards!LateTasks(u) : callback[i].owner = u}
          = {i \in Ids : /\ callback[i].owner = u /\ callback[i].status # "completed"
                         /\ DueDate[i] < now}
  BY DEF Boards!LateTasks, Boards!TasksOf
<1> HIDE DEF due
<1>5. ASSUME NEW i \in Ids, callback[i].status = "overdue" PROVE DueDate[i] < now
  BY <1>5 DEF StoryInv, MarkedLate
<1>6. ASSUME NEW i \in Ids
      PROVE  i \in X <=> i \in A \/ i \in W
  <2>1. i \in X <=> /\ callback[i].owner = u
                    /\ \/ callback[i].status \in {"pending", "in_progress"} /\ DueDate[i] <= due
                       \/ callback[i].status # "completed" /\ DueDate[i] < now
    BY <1>3, <1>4
  <2>2. i \in A <=> /\ callback[i].owner = u /\ callback[i].status \in {"pending", "overdue"}
                    /\ DueDate[i] <= due
    BY <1>3
  <2>3. i \in W <=> /\ callback[i].owner = u /\ callback[i].status = "in_progress"
                    /\ DueDate[i] <= due
    BY <1>3
  <2>4. DueDate[i] < now => DueDate[i] <= due
    BY <1>1, <1>2
  <2> HIDE DEF X, A, W
  <2> QED
    BY <2>1, <2>2, <2>3, <2>4, <1>2, <1>5
<1>7. X \subseteq Ids /\ A \subseteq Ids /\ W \subseteq Ids
  BY <1>3, <1>4
<1>8. A \cap W = {}
  BY <1>3
<1>9. Boards!WithStatus(Boards!TodayTasks(u), {"in_progress"}) = Cardinality(W)
  BY StatusCount
<1> HIDE DEF X, A, W
<1>10. X = A \cup W
  BY <1>6, <1>7
<1>11. Cardinality(X) = Cardinality(A \cup W)
  BY <1>10
<1>12. Cardinality(A \cup W) = Cardinality(A) + Cardinality(W)
  BY <1>7, <1>8, LeadsCount, TwoCounts
<1> QED
  BY <1>9, <1>11, <1>12 DEF X, A

\* The badges of the cards, added up.
LEMMA BadgesSum ==
    Boards!SumOf([i \in Boards!Live |-> Boards!TaskBadge(i)])
        = Cardinality({i \in Boards!Live : callback[i].status \in {"pending", "overdue"}})
<1> DEFINE L == Boards!Live
           S == {i \in L : callback[i].status \in {"pending", "overdue"}}
           p == [i \in S |-> i]
           v == [i \in L |-> Boards!TaskBadge(i)]
<1>1. p \in [S -> L] /\ S \in SUBSET Ids /\ DOMAIN v = L
  BY Countable
<1>2. ASSUME NEW i \in L PROVE v[i] = Cardinality({k \in S : p[k] = i})
  <2>1. {k \in {i} : callback[k].status \in {"pending", "overdue"}} = {k \in S : p[k] = i}
    BY <1>2
  <2>2. v[i] = Cardinality({k \in {i} : callback[k].status \in {"pending", "overdue"}})
    BY SameCounts DEF Boards!TaskBadge
  <2> QED
    BY <2>1, <2>2
<1> HIDE DEF S, p, v, L
<1>3. IsFiniteSet(L)
  BY Countable DEF L
<1>4. Boards!SumOf(v) = Cardinality(S)
  BY <1>1, <1>2, <1>3, LeadsCount, CountedApart
<1> QED
  BY <1>4 DEF v, S, L

\* LeadBoards!TasksAgree.
LEMMA TasksTold == ASSUME StoryInv PROVE Boards!TasksAgree
<1>0. RowsTyped /\ \A i \in Ids : callback[i].status \in {"pending", "in_progress", "overdue", "completed"}
  BY DEF StoryInv, CacheInv, RowsTyped, Boards!Callbacks
<1>1. ASSUME NEW u \in Boards!People
      PROVE  /\ Boards!Compliance(u).total
                    = Boards!Compliance(u).completed + Boards!Compliance(u).overdue
                      + Boards!Compliance(u).pending
             /\ Boards!Compliance(u).pending = Boards!Dashboard(u).pending
  <2> DEFINE S == Boards!TasksOf(u)
             C == {i \in S : callback[i].status \in {"completed"}}
             O == {i \in S : callback[i].status \in {"overdue"}}
             P == {i \in S : callback[i].status \in {"pending", "in_progress"}}
  <2>1. S \in SUBSET Ids
    BY DEF Boards!TasksOf
  <2>2. S = C \cup (O \cup P) /\ C \cap (O \cup P) = {} /\ O \cap P = {}
    BY <1>0, <2>1
  <2>3. C \in SUBSET Ids /\ O \in SUBSET Ids /\ P \in SUBSET Ids /\ O \cup P \in SUBSET Ids
    BY <2>1
  <2>4. /\ Boards!Compliance(u).total = Boards!Cardinality(S)
        /\ Boards!Compliance(u).completed = Boards!WithStatus(S, {"completed"})
        /\ Boards!Compliance(u).overdue = Boards!WithStatus(S, {"overdue"})
        /\ Boards!Compliance(u).pending = Boards!WithStatus(S, {"pending", "in_progress"})
    BY DEF Boards!Compliance
  <2>5. Boards!Dashboard(u).pending = Boards!WithStatus(S, {"pending", "in_progress"})
    BY DEF Boards!Dashboard
  <2>6. /\ Boards!WithStatus(S, {"completed"}) = Cardinality(C)
        /\ Boards!WithStatus(S, {"overdue"}) = Cardinality(O)
        /\ Boards!WithStatus(S, {"pending", "in_progress"}) = Cardinality(P)
    BY StatusCount
  <2> HIDE DEF S, C, O, P
  <2>7. Cardinality(O \cup P) = Cardinality(O) + Cardinality(P)
    BY <2>2, <2>3, LeadsCount, TwoCounts
  <2>8. Cardinality(C \cup (O \cup P)) = Cardinality(C) + Cardinality(O \cup P)
    BY <2>2, <2>3, LeadsCount, TwoCounts
  <2>9. Cardinality(S) = Cardinality(C \cup (O \cup P))
    BY <2>2
  <2>10. Cardinality(C) \in Nat /\ Cardinality(O) \in Nat /\ Cardinality(P) \in Nat
    BY <2>3, LeadsCount
  <2>11. Boards!Compliance(u).total = Cardinality(S)
    BY <2>4, SameCounts
  <2> QED
    BY <2>4, <2>5, <2>6, <2>7, <2>8, <2>9, <2>10, <2>11
<1>2. ASSUME NEW u \in Boards!People
      PROVE  Boards!WithStatus({i \in Boards!Live : callback[i].owner = u}, {"overdue"})
                 <= Boards!UserOverdue(u)
  <2> DEFINE A == {i \in {k \in Boards!Live : callback[k].owner = u} : callback[i].status \in {"overdue"}}
             B == {i \in Boards!Live : /\ callback[i].owner = u /\ callback[i].status # "completed"
                                       /\ DueDate[i] < now}
  <2>1. A \subseteq B /\ B \in SUBSET Ids
    BY Countable DEF StoryInv, MarkedLate
  <2>2. Boards!WithStatus({i \in Boards!Live : callback[i].owner = u}, {"overdue"}) = Cardinality(A)
    BY StatusCount
  <2>3. Boards!UserOverdue(u) = Cardinality(B)
    BY SameCounts DEF Boards!UserOverdue
  <2> HIDE DEF A, B
  <2> QED
    BY <2>1, <2>2, <2>3, LeadsCount, FS_Subset
<1>3. ASSUME NEW u \in Boards!People
      PROVE  Boards!Cardinality(Boards!TodayTasks(u) \cup {i \in Boards!LateTasks(u) : callback[i].owner = u})
             = Boards!Cardinality(Boards!Actionable(u))
               + Boards!WithStatus(Boards!TodayTasks(u), {"in_progress"})
  <2>1. Boards!Cardinality(Boards!TodayTasks(u) \cup {i \in Boards!LateTasks(u) : callback[i].owner = u})
        = Cardinality(Boards!TodayTasks(u) \cup {i \in Boards!LateTasks(u) : callback[i].owner = u})
    BY SameCounts, Zenon
  <2>2. Boards!Cardinality(Boards!Actionable(u)) = Cardinality(Boards!Actionable(u))
    BY SameCounts, Zenon
  <2> QED
    BY <2>1, <2>2, TodayAndLate
<1>4. Boards!SumOf([i \in Boards!Live |-> Boards!TaskBadge(i)])
          <= Boards!Dashboard(Admin).pending + Boards!Dashboard(Admin).overdue
  <2> DEFINE A == {i \in Boards!Live : callback[i].status \in {"pending", "overdue"}}
             P == {i \in Ids : callback[i].status \in {"pending", "in_progress"}}
             O == {i \in Ids : callback[i].status \in {"overdue"}}
  <2>1. A \subseteq P \cup O /\ P \cap O = {} /\ P \in SUBSET Ids /\ O \in SUBSET Ids
    BY Countable
  <2>2. Boards!TasksOf(Admin) = Ids
    BY Countable DEF Boards!TasksOf
  <2>3. /\ Boards!Dashboard(Admin).pending = Boards!WithStatus(Ids, {"pending", "in_progress"})
        /\ Boards!Dashboard(Admin).overdue = Boards!WithStatus(Ids, {"overdue"})
    BY <2>2 DEF Boards!Dashboard
  <2>4. /\ Boards!WithStatus(Ids, {"pending", "in_progress"}) = Cardinality(P)
        /\ Boards!WithStatus(Ids, {"overdue"}) = Cardinality(O)
    BY StatusCount
  <2>5. Boards!SumOf([i \in Boards!Live |-> Boards!TaskBadge(i)]) = Cardinality(A)
    BY BadgesSum
  <2> HIDE DEF A, P, O
  <2>6. Cardinality(P \cup O) = Cardinality(P) + Cardinality(O) /\ IsFiniteSet(P \cup O)
    BY <2>1, LeadsCount, TwoCounts
  <2>7. Cardinality(A) <= Cardinality(P \cup O)
    BY <2>1, <2>6, FS_Subset
  <2> QED
    BY <2>3, <2>4, <2>5, <2>6, <2>7
<1>5. Boards!SumOf([u \in Boards!People |-> Boards!DayMetrics(u, Boards!Day(now)).completed])
          = Boards!Cardinality(Boards!DoneToday(Admin))
  <2> DEFINE P == Boards!People
             today == Boards!Day(now)
             S == {i \in Ids : /\ callback[i].status = "completed"
                               /\ Boards!Day(callback[i].completed) = today}
             p == [i \in S |-> callback[i].owner]
             v == [u \in P |-> Boards!DayMetrics(u, today).completed]
  <2>1. \A i \in Ids : callback[i].owner \in P
    BY <1>0 DEF RowsTyped, Boards!Callbacks
  <2>2. p \in [S -> P] /\ S \in SUBSET Ids /\ DOMAIN v = P
    BY <2>1
  <2>3. ASSUME NEW u \in P PROVE v[u] = Cardinality({i \in S : p[i] = u})
    <3>1. {i \in Ids : /\ callback[i].owner = u /\ callback[i].status = "completed"
                       /\ Boards!Day(callback[i].completed) = today} = {i \in S : p[i] = u}
      OBVIOUS
    <3>2. v[u] = Cardinality({i \in Ids : /\ callback[i].owner = u /\ callback[i].status = "completed"
                                          /\ Boards!Day(callback[i].completed) = today})
      BY SameCounts DEF Boards!DayMetrics
    <3> QED
      BY <3>1, <3>2
  <2>4. Boards!DoneToday(Admin) = S
    BY Countable DEF Boards!DoneToday, Boards!TasksOf
  <2>5. Boards!Cardinality(Boards!DoneToday(Admin)) = Cardinality(S)
    BY <2>4, SameCounts
  <2> HIDE DEF P, S, p, v, today
  <2>6. IsFiniteSet(P)
    BY Countable DEF P
  <2>7. Boards!SumOf(v) = Cardinality(S)
    BY <2>2, <2>3, <2>6, LeadsCount, CountedApart
  <2> QED
    BY <2>5, <2>7 DEF v, P, today
<1> QED
  BY <1>1, <1>2, <1>3, <1>4, <1>5 DEF Boards!TasksAgree

-----------------------------------------------------------------------------
(* Cards.                                                                  *)

\* The greatest, or the least, of a finite set of whole numbers is in it.
LEMMA EndsAreThere ==
    ASSUME NEW S, IsFiniteSet(S), S # {}, \A x \in S : x \in Int
    PROVE  /\ Boards!Max(S) \in S /\ \A x \in S : x <= Boards!Max(S)
           /\ Boards!Min(S) \in S
<1>1. \E x \in S : \A y \in S : x >= y
  BY GreatestMember
<1>2. Boards!Max(S) \in S /\ \A y \in S : Boards!Max(S) >= y
  BY <1>1 DEF Boards!Max
<1>3. \E least \in S : \A y \in S : least <= y
  <2> DEFINE f == [x \in S |-> -x]
             T == {f[x] : x \in S}
  <2>1. T # {} /\ \A x \in T : x \in Int
    OBVIOUS
  <2>2. IsFiniteSet(T)
    BY FiniteImage
  <2> HIDE DEF T
  <2>3. PICK t \in T : \A y \in T : y <= t
    BY <2>1, <2>2, GreatestMember
  <2>4. PICK x \in S : t = -x
    BY <2>3 DEF T
  <2>5. ASSUME NEW y \in S PROVE x <= y
    <3>1. -y \in T
      BY DEF T
    <3>2. -y <= -x /\ x \in Int /\ y \in Int
      BY <3>1, <2>3, <2>4
    <3> QED
      BY <3>2
  <2> QED
    BY <2>5
<1>4. Boards!Min(S) \in S
  BY <1>3 DEF Boards!Min
<1> QED
  BY <1>2, <1>4

\* The latest of some times, or none.
LEMMA LatestOf ==
    ASSUME NEW S, IsFiniteSet(S), NEW f, \A x \in S : f[x] \in Nat
    PROVE  /\ Boards!Max({Boards!Never} \cup {f[x] : x \in S}) \in Int
           /\ Boards!Max({Boards!Never} \cup {f[x] : x \in S}) >= Boards!Never
           /\ \A y \in S : f[y] <= Boards!Max({Boards!Never} \cup {f[x] : x \in S})
           /\ (Boards!Max({Boards!Never} \cup {f[x] : x \in S}) = Boards!Never <=> S = {})
<1> DEFINE T == {f[x] : x \in S}
           U == {Boards!Never} \cup T
<1>1. /\ IsFiniteSet(U) /\ U # {} /\ \A x \in U : x \in Int
  <2>1. IsFiniteSet(T)
    BY FiniteImage
  <2>2. Boards!Never = -1
    BY DEF Boards!Never
  <2>3. \A x \in T : x \in Nat
    OBVIOUS
  <2> HIDE DEF T
  <2>4. U = T \cup {Boards!Never}
    OBVIOUS
  <2>5. IsFiniteSet(T \cup {Boards!Never})
    BY <2>1, FS_AddElement
  <2> QED
    BY <2>2, <2>3, <2>4, <2>5
<1>2. Boards!Never \in U /\ \A x \in S : f[x] \in U
  OBVIOUS
<1>3. \A y \in U : y = Boards!Never \/ \E x \in S : y = f[x]
  OBVIOUS
<1> HIDE DEF U
<1>4. Boards!Max(U) \in U /\ \A x \in U : x <= Boards!Max(U)
  BY <1>1, EndsAreThere
<1>5. Boards!Never = -1
  BY DEF Boards!Never
<1>6. Boards!Max(U) = Boards!Never <=> S = {}
  <2>1. CASE S = {}
    BY <1>3, <1>4, <2>1
  <2>2. CASE S # {}
    <3>1. PICK x \in S : f[x] \in Nat /\ f[x] \in U
      BY <1>2, <2>2
    <3> QED
      BY <1>1, <1>4, <1>5, <2>2, <3>1
  <2> QED
    BY <2>1, <2>2
<1>7. Boards!Max(U) \in Int /\ Boards!Max(U) >= Boards!Never /\ \A x \in S : f[x] <= Boards!Max(U)
  BY <1>1, <1>2, <1>4
<1> QED
  BY <1>6, <1>7 DEF U

\* LeadBoards!CardsAgree.
LEMMA CardsTold == ASSUME LogsTyped PROVE Boards!CardsAgree
<1> SUFFICES ASSUME NEW u \in Boards!People, NEW i \in Boards!Live, Boards!Sees(u, i)
             PROVE  /\ (Boards!Card(i).latest.from = "none")
                           <=> (Boards!Card(i).notes = 0 /\ Boards!Feed(u, i) = {})
                    /\ \A x \in Boards!Feed(u, i) : x.time <= Boards!Card(i).latest.time
                    /\ Boards!Card(i).tasks <= Boards!Cardinality(Boards!TasksOfLead(u, i))
  BY DEF Boards!CardsAgree
<1> DEFINE R == {y \in remarks : y.lead = i}
           N == Boards!Noted(i)
           tr == [x \in remarks |-> x.time]
           tm == [m \in moves |-> m.time]
           said == Boards!Max({Boards!Never} \cup {x.time : x \in R})
           noted == Boards!Max({Boards!Never} \cup {m.time : m \in N})
<1>1. /\ IsFiniteSet(R) /\ \A x \in R : tr[x] \in Nat /\ tr[x] = x.time
      /\ IsFiniteSet(N) /\ \A m \in N : tm[m] \in Nat /\ tm[m] = m.time
  <2>1. R \subseteq remarks /\ N \subseteq moves
    BY DEF Boards!Noted
  <2>2. /\ \A x \in remarks : x.time \in Nat
        /\ \A m \in moves : m.time \in Nat
    BY TheBoards DEF LogsTyped, RemarkRows, MoveRows
  <2> QED
    BY <2>1, <2>2, FS_Subset DEF LogsTyped
<1>2. /\ {x.time : x \in R} = {tr[x] : x \in R}
      /\ {m.time : m \in N} = {tm[m] : m \in N}
  BY <1>1
<1>3. Boards!Feed(u, i) = R
  BY DEF Boards!Feed
<1>4. Boards!Card(i).latest = Boards!LatestNote(i)
  BY DEF Boards!Card
<1>5. Boards!Card(i).notes = Cardinality(N)
  BY SameCounts DEF Boards!Card
<1>6. Boards!LatestNote(i)
          = IF noted > said THEN [from |-> "move", time |-> noted]
            ELSE [from |-> IF said = Boards!Never THEN "none" ELSE "remark", time |-> said]
  BY DEF Boards!LatestNote
<1>7. /\ said \in Int /\ said >= Boards!Never /\ \A x \in R : x.time <= said
      /\ (said = Boards!Never <=> R = {})
  <2> HIDE DEF R, tr
  <2>1. said = Boards!Max({Boards!Never} \cup {tr[x] : x \in R})
    BY <1>2
  <2> HIDE DEF said
  <2> QED
    BY <1>1, <2>1, LatestOf
<1>8. /\ noted \in Int /\ noted >= Boards!Never /\ (noted = Boards!Never <=> N = {})
  <2> HIDE DEF N, tm
  <2>1. noted = Boards!Max({Boards!Never} \cup {tm[x] : x \in N})
    BY <1>2
  <2> HIDE DEF noted
  <2> QED
    BY <1>1, <2>1, LatestOf
<1>9. Cardinality(N) = 0 <=> N = {}
  BY <1>1, FS_EmptySet
<1> HIDE DEF R, N, said, noted, tr, tm
<1>10. Boards!Never = -1
  BY DEF Boards!Never
<1>11. /\ Boards!LatestNote(i).from = "none" <=> said = Boards!Never /\ ~(noted > said)
       /\ said <= Boards!LatestNote(i).time
  BY <1>6, <1>7, <1>8
<1>12. Boards!LatestNote(i).from = "none" <=> N = {} /\ R = {}
  BY <1>7, <1>8, <1>10, <1>11
<1>13. ASSUME NEW x \in R PROVE x.time <= Boards!LatestNote(i).time
  <2>1. x.time \in Int
    BY <1>1, <1>13
  <2>2. Boards!LatestNote(i).time \in Int
    BY <1>6, <1>7, <1>8
  <2> QED
    BY <1>7, <1>11, <2>1, <2>2
<1>14. Boards!Card(i).tasks <= Boards!Cardinality(Boards!TasksOfLead(u, i))
  <2> DEFINE T == {k \in {i} : callback[k].status \in {"pending", "overdue"}}
  <2>1. Boards!TasksOfLead(u, i) = {i}
    BY DEF Boards!TasksOfLead
  <2>2. Boards!Card(i).tasks = Cardinality(T) /\ T \subseteq {i}
    BY SameCounts DEF Boards!Card, Boards!TaskBadge
  <2>3. IsFiniteSet({i})
    BY FS_Singleton
  <2> HIDE DEF T
  <2>4. Cardinality(T) <= Cardinality({i})
    BY <2>2, <2>3, FS_Subset
  <2> QED
    BY <2>1, <2>2, <2>4, SameCounts
<1> QED
  BY <1>3, <1>4, <1>5, <1>9, <1>12, <1>13, <1>14

-----------------------------------------------------------------------------
(* Days of moves.                                                          *)

\* Of the days so far: they are finitely many, and every move was on one of them.
LEMMA DaysOfMoves ==
    ASSUME StoryInv
    PROVE  /\ Boards!Day(now) \in Nat /\ IsFiniteSet(Boards!DaysSoFar)
           /\ Boards!DaysSoFar = 0..Boards!Day(now)
           /\ IsFiniteSet(moves) /\ moves \subseteq MoveRows
           /\ \A m \in moves : m.time \in Nat /\ Boards!Day(m.time) \in Boards!DaysSoFar
<1>1. now \in Nat /\ DayLength \in Nat \ {0} /\ IsFiniteSet(moves) /\ moves \subseteq MoveRows
  BY TheBoards DEF StoryInv, CacheInv, ClockTyped, LogsTyped
<1>2. \A m \in moves : m.time \in Nat /\ m.time <= now
  BY <1>1, TheBoards DEF MoveRows, StoryInv, LogTells
<1>3. Boards!Day(now) \in Nat
  BY <1>1, DayOf DEF Boards!Day
<1>4. IsFiniteSet(0..Boards!Day(now))
  BY <1>3, FS_Interval
<1>5. ASSUME NEW m \in moves PROVE Boards!Day(m.time) \in 0..Boards!Day(now)
  <2>1. m.time \in Nat /\ m.time <= now
    BY <1>2
  <2>2. m.time \div DayLength \in Nat /\ m.time \div DayLength <= now \div DayLength
    BY <1>1, <2>1, DayOf, DaysInOrder
  <2> QED
    BY <1>3, <2>2 DEF Boards!Day
<1> QED
  BY <1>1, <1>2, <1>3, <1>4, <1>5 DEF Boards!DaysSoFar

\* A user's moves.
MovesOf(u) == {m \in moves : m.by = u}

\* What the log has is finite.
LEMMA MovesCount ==
    ASSUME StoryInv, NEW S \in SUBSET moves
    PROVE  IsFiniteSet(S) /\ Cardinality(S) \in Nat
  BY DaysOfMoves, FS_Subset, FS_CardinalityType

UserDay(u, d) == {m \in moves : m.by = u /\ Boards!Day(m.time) = d}

\* A day's transitions are the moves of that user on that day.
LEMMA DayCounts ==
    ASSUME NEW u, NEW d
    PROVE  /\ Boards!DayMetrics(u, d).transitions = Cardinality(UserDay(u, d))
           /\ Boards!DayMetrics(u, d).lost
                  = Cardinality({m \in moves : m.to = "lost" /\ m.by = u /\ Boards!Day(m.time) = d})
<1>1. Boards!MovesOn(u, d) = UserDay(u, d)
  BY DEF Boards!MovesOn, UserDay
<1>2. Boards!DayMetrics(u, d).transitions = Cardinality(Boards!MovesOn(u, d))
  BY SameCounts DEF Boards!DayMetrics
<1>3. {m \in Boards!MovesOn(u, d) : m.to = "lost"}
          = {m \in moves : m.to = "lost" /\ m.by = u /\ Boards!Day(m.time) = d}
  BY DEF Boards!MovesOn
<1>4. Boards!DayMetrics(u, d).lost = Cardinality({m \in Boards!MovesOn(u, d) : m.to = "lost"})
  BY SameCounts DEF Boards!DayMetrics
<1> QED
  BY <1>1, <1>2, <1>3, <1>4

\* A user's range of days has all of the user's moves.
LEMMA RangeHasAll ==
    ASSUME StoryInv, NEW u,
           NEW range, range = Boards!ActivityRange(Admin, u, Boards!Day(now) + 1)
    PROVE  Boards!SumOf([n \in DOMAIN range |-> range[n].transitions]) = Cardinality(MovesOf(u))
<1> DEFINE N == Boards!Day(now) + 1
           K == 1..N
           S == MovesOf(u)
           p == [m \in S |-> Boards!Day(m.time) + 1]
           v == [n \in DOMAIN range |-> range[n].transitions]
<1>1. N \in Nat /\ IsFiniteSet(K)
  BY DaysOfMoves, FS_Interval
<1>2. range = [n \in K |-> Boards!DayMetrics(u, Boards!Day(now) - N + n)]
  BY Countable DEF Boards!ActivityRange, Boards!MayAsk
<1>3. \A n \in K : Boards!Day(now) - N + n = n - 1
  BY DaysOfMoves
<1>4. S \in SUBSET moves /\ \A m \in S : Boards!Day(m.time) \in 0..Boards!Day(now)
  BY DaysOfMoves DEF MovesOf
<1>5. p \in [S -> K]
  BY <1>4, DaysOfMoves
<1>6. ASSUME NEW n \in K PROVE v[n] = Cardinality({m \in S : p[m] = n})
  <2>1. v[n] = Boards!DayMetrics(u, n - 1).transitions
    BY <1>2, <1>3
  <2>2. Boards!DayMetrics(u, n - 1).transitions = Cardinality(UserDay(u, n - 1))
    BY DayCounts
  <2>3. \A m \in S : Boards!Day(m.time) = n - 1 <=> p[m] = n
    BY <1>4, DaysOfMoves
  <2>4. UserDay(u, n - 1) = {m \in S : p[m] = n}
    BY <2>3 DEF UserDay, MovesOf
  <2> QED
    BY <2>1, <2>2, <2>4
<1>7. DOMAIN v = K
  BY <1>2
<1> HIDE DEF S, p, v, K
<1>8. IsFiniteSet(S)
  BY <1>4, MovesCount
<1>9. Boards!SumOf(v) = Cardinality(S)
  BY <1>1, <1>5, <1>6, <1>7, <1>8, CountedApart
<1> QED
  BY <1>9 DEF v, S

\* The users' moves are the moves.
LEMMA EverybodysMoves ==
    ASSUME StoryInv, NEW v, DOMAIN v = Boards!People,
           \A u \in Boards!People : v[u] = Cardinality(MovesOf(u))
    PROVE  Boards!SumOf(v) = Cardinality(moves)
<1> DEFINE p == [m \in moves |-> m.by]
           P == Boards!People
<1>1. p \in [moves -> P]
  BY DaysOfMoves DEF MoveRows
<1>2. \A u \in P : {m \in moves : p[m] = u} = MovesOf(u)
  BY DEF MovesOf
<1>3. \A u \in P : v[u] = Cardinality({m \in moves : p[m] = u})
  BY <1>2
<1> HIDE DEF p
<1> QED
  BY <1>1, <1>3, Countable, DaysOfMoves, CountedApart

\* The changes from one day to the next, from the first to today's, come to today's.
LEMMA ChangesAddUp ==
    ASSUME StoryInv, NEW u \in Boards!People, NEW risen, DOMAIN risen = Boards!DaysSoFar,
           \A d \in Boards!DaysSoFar :
              risen[d] = Boards!SumOf([a \in Boards!DailyActivity(u, u, d) |-> a.deltas.transitions])
    PROVE  Boards!SumOf(risen) = Boards!DayMetrics(u, Boards!Day(now)).transitions
<1> DEFINE K == Boards!DaysSoFar
           N == Boards!Day(now)
           S == MovesOf(u)
           T == {m \in S : Boards!Day(m.time) # N}
           on == [d \in K |-> Boards!DayMetrics(u, d).transitions]
           before == [d \in K |-> Boards!DayMetrics(u, d - 1).transitions]
           p == [m \in S |-> Boards!Day(m.time)]
           q == [m \in T |-> Boards!Day(m.time) + 1]
<1>1. /\ N \in Nat /\ K = 0..N /\ IsFiniteSet(K) /\ S \in SUBSET moves /\ T \in SUBSET moves
      /\ \A m \in S : Boards!Day(m.time) \in 0..N
  BY DaysOfMoves DEF MovesOf
<1>2. ASSUME NEW d \in K
      PROVE  /\ on[d] = Cardinality({m \in S : p[m] = d})
             /\ before[d] = Cardinality({m \in T : q[m] = d})
  <2>1. UserDay(u, d) = {m \in S : p[m] = d}
    BY DEF UserDay, MovesOf
  <2>2. \A m \in S : Boards!Day(m.time) = d - 1 <=> m \in T /\ q[m] = d
    BY <1>1, <1>2
  <2>3. UserDay(u, d - 1) = {m \in T : q[m] = d}
    BY <2>2 DEF UserDay, MovesOf
  <2>4. Boards!DayMetrics(u, d).transitions = Cardinality(UserDay(u, d))
    BY DayCounts
  <2>5. Boards!DayMetrics(u, d - 1).transitions = Cardinality(UserDay(u, d - 1))
    BY DayCounts
  <2>6. on[d] = Boards!DayMetrics(u, d).transitions /\ before[d] = Boards!DayMetrics(u, d - 1).transitions
    BY <1>2
  <2> HIDE DEF S, T, on, before, p, q
  <2> QED
    BY <2>1, <2>3, <2>4, <2>5, <2>6
<1>3. ASSUME NEW d \in K PROVE risen[d] = on[d] - before[d]
  <2> DEFINE ms == Boards!DayMetrics(u, d)
             bs == Boards!DayMetrics(u, d - 1)
             a == [metrics |-> ms, deltas |-> [k \in DOMAIN ms |-> ms[k] - bs[k]]]
             w == [x \in {a} |-> x.deltas.transitions]
  <2>1. Boards!DailyActivity(u, u, d) = {a}
    BY DEF Boards!DailyActivity, Boards!MayAsk
  <2>2. "transitions" \in DOMAIN ms
    BY DEF Boards!DayMetrics
  <2>3. a.deltas.transitions = on[d] - before[d]
    BY <1>3, <2>2
  <2>4. risen[d] = Boards!SumOf(w)
    BY <1>3, <2>1
  <2>5. on[d] - before[d] \in Int
    <3>1. {m \in S : p[m] = d} \in SUBSET moves /\ {m \in T : q[m] = d} \in SUBSET moves
      BY <1>1
    <3>2. on[d] \in Nat /\ before[d] \in Nat
      BY <1>2, <1>3, <3>1, MovesCount
    <3> QED
      BY <3>2
  <2>6. DOMAIN w = {a} /\ w[a] = on[d] - before[d]
    BY <2>3
  <2> HIDE DEF a, w, on, before
  <2>7. SumFunctionOnSet(w, {} \cup {a}) = w[a] + SumFunctionOnSet(w, {})
    BY <2>5, <2>6, FS_EmptySet, SumAdd
  <2>8. SumFunctionOnSet(w, {}) = 0
    BY SumEmpty
  <2>9. {} \cup {a} = {a}
    OBVIOUS
  <2> QED
    BY <2>4, <2>5, <2>6, <2>7, <2>8, <2>9, BoardSums
<1>4. p \in [S -> K] /\ q \in [T -> K]
  <2>1. ASSUME NEW m \in T PROVE Boards!Day(m.time) + 1 \in 0..N
    BY <1>1, <2>1
  <2> QED
    BY <1>1, <2>1
<1>5. DOMAIN on = K /\ DOMAIN before = K
  OBVIOUS
<1>6. on[N] = Cardinality(S \ T) /\ on[N] = Boards!DayMetrics(u, Boards!Day(now)).transitions
  <2>1. N \in K
    BY <1>1
  <2>2. {m \in S : p[m] = N} = S \ T
    OBVIOUS
  <2> QED
    BY <1>2, <2>1, <2>2
<1>7. ASSUME NEW d \in K PROVE on[d] \in Int /\ before[d] \in Int
  <2>1. {m \in S : p[m] = d} \in SUBSET moves /\ {m \in T : q[m] = d} \in SUBSET moves
    BY <1>1
  <2>2. /\ on[d] = Cardinality({m \in S : p[m] = d})
        /\ before[d] = Cardinality({m \in T : q[m] = d})
    BY <1>2, <1>7
  <2> HIDE DEF S, T, on, before, p, q
  <2> QED
    BY <2>1, <2>2, MovesCount
<1>8. T \subseteq S
  OBVIOUS
<1> HIDE DEF K, N, S, T, on, before, p, q
<1>9. \A d \in K : on[d] = Cardinality({m \in S : p[m] = d})
  BY <1>2
<1>10. \A d \in K : before[d] = Cardinality({m \in T : q[m] = d})
  BY <1>2
<1>11. IsFiniteSet(S) /\ IsFiniteSet(T) /\ IsFiniteSet(K)
  BY <1>1, MovesCount
<1>12. Boards!SumOf(on) = Cardinality(S)
  BY <1>9, <1>4, <1>5, <1>11, CountedApart
<1>13. Boards!SumOf(before) = Cardinality(T)
  BY <1>10, <1>4, <1>5, <1>11, CountedApart
<1>14. SumFunctionOnSet(on, K) = SumFunctionOnSet(risen, K) + SumFunctionOnSet(before, K)
  <2>1. \A d \in K : risen[d] \in Int /\ before[d] \in Int /\ on[d] = risen[d] + before[d]
    BY <1>3, <1>7
  <2> QED
    BY <1>1, <2>1, SumPlus
<1>15. /\ Cardinality(S) = Cardinality(T) + Cardinality(S \ T)
       /\ Cardinality(T) \in Nat /\ Cardinality(S \ T) \in Nat
  BY <1>8, <1>11, CountOfParts
<1>16. DOMAIN risen = K
  BY DEF K
<1>17. SumFunctionOnSet(risen, K) \in Int
  BY <1>1, <1>3, <1>7, SumInt
<1> QED
  BY <1>5, <1>6, <1>12, <1>13, <1>14, <1>15, <1>16, <1>17, BoardSums

-----------------------------------------------------------------------------
(* Leads that are lost and won.                                            *)

\* The first and the last of some moves were on one of the days so far.
LEMMA FirstAndLast ==
    ASSUME StoryInv, NEW S \in SUBSET moves, S # {}
    PROVE  /\ Boards!Day(Boards!Max({m.time : m \in S})) \in Boards!DaysSoFar
           /\ Boards!Day(Boards!Min({m.time : m \in S})) \in Boards!DaysSoFar
<1> DEFINE stamp == [m \in S |-> m.time]
           T == {stamp[m] : m \in S}
<1>1. T = {m.time : m \in S} /\ T # {}
  OBVIOUS
<1>2. IsFiniteSet(S) /\ \A m \in S : m.time \in Nat /\ Boards!Day(m.time) \in Boards!DaysSoFar
  BY DaysOfMoves, MovesCount
<1>3. \A x \in T : x \in Int /\ Boards!Day(x) \in Boards!DaysSoFar
  BY <1>2
<1>4. IsFiniteSet(T)
  <2> HIDE DEF stamp
  <2> QED
    BY <1>2, FiniteImage
<1> HIDE DEF T
<1>5. Boards!Max(T) \in T /\ Boards!Min(T) \in T
  BY <1>1, <1>3, <1>4, EndsAreThere
<1> QED
  BY <1>1, <1>3, <1>5

LostMoves == {m \in moves : m.to = "lost"}

\* The trends hold each lead that was ever lost once, and each that was ever won.
LEMMA TrendsCount ==
    ASSUME StoryInv
    PROVE  /\ Boards!SumOf([d \in Boards!DaysSoFar |-> Boards!Trends(Admin, d).lost])
                  = Cardinality({i \in Boards!Live : Boards!LostTimes(i) # {}})
           /\ Boards!SumOf([d \in Boards!DaysSoFar |-> Boards!Trends(Admin, d).won])
                  = Cardinality({i \in Boards!Live : Boards!WonTimes(i) # {}})
<1> DEFINE K == Boards!DaysSoFar
           L == {i \in Boards!Live : Boards!LostTimes(i) # {}}
           W == {i \in Boards!Live : Boards!WonTimes(i) # {}}
           p == [i \in L |-> Boards!Day(Boards!Max(Boards!LostTimes(i)))]
           q == [i \in W |-> Boards!Day(Boards!Min(Boards!WonTimes(i)))]
           v == [d \in K |-> Boards!Trends(Admin, d).lost]
           w == [d \in K |-> Boards!Trends(Admin, d).won]
<1>1. L \in SUBSET Ids /\ W \in SUBSET Ids /\ IsFiniteSet(K)
  BY Countable, DaysOfMoves
<1>2. Boards!Reported(Admin) = Boards!Live
  BY Countable DEF Boards!Reported
<1>3. ASSUME NEW i \in L PROVE p[i] \in K
  <2> DEFINE S == {x \in moves : x.lead = i /\ x.to = "lost"}
  <2>1. Boards!LostTimes(i) = {m.time : m \in S} /\ S \in SUBSET moves
    BY DEF Boards!LostTimes
  <2>2. S # {}
    BY <1>3, <2>1
  <2> HIDE DEF S
  <2>3. Boards!Day(Boards!Max({m.time : m \in S})) \in K
    BY <2>1, <2>2, FirstAndLast
  <2> QED
    BY <1>3, <2>1, <2>3
<1>4. ASSUME NEW i \in W PROVE q[i] \in K
  <2> DEFINE S == {x \in moves : x.lead = i /\ x.to \in Stamped}
  <2>1. Boards!WonTimes(i) = {m.time : m \in S} /\ S \in SUBSET moves
    BY DEF Boards!WonTimes
  <2>2. S # {}
    BY <1>4, <2>1
  <2> HIDE DEF S
  <2>3. Boards!Day(Boards!Min({m.time : m \in S})) \in K
    BY <2>1, <2>2, FirstAndLast
  <2> QED
    BY <1>4, <2>1, <2>3
<1>5. p \in [L -> K] /\ q \in [W -> K] /\ DOMAIN v = K /\ DOMAIN w = K
  BY <1>3, <1>4
<1>6. ASSUME NEW d \in K PROVE v[d] = Cardinality({i \in L : p[i] = d})
  <2>1. {i \in Boards!Live : /\ Boards!LostTimes(i) # {}
                             /\ Boards!Day(Boards!Max(Boards!LostTimes(i))) = d}
            = {i \in L : p[i] = d}
    OBVIOUS
  <2>2. v[d] = Cardinality({i \in Boards!Live : /\ Boards!LostTimes(i) # {}
                                                /\ Boards!Day(Boards!Max(Boards!LostTimes(i))) = d})
    BY <1>2, <1>6, SameCounts DEF Boards!Trends
  <2> QED
    BY <2>1, <2>2
<1>7. ASSUME NEW d \in K PROVE w[d] = Cardinality({i \in W : q[i] = d})
  <2>1. {i \in Boards!Live : /\ Boards!WonTimes(i) # {}
                             /\ Boards!Day(Boards!Min(Boards!WonTimes(i))) = d}
            = {i \in W : q[i] = d}
    OBVIOUS
  <2>2. w[d] = Cardinality({i \in Boards!Live : /\ Boards!WonTimes(i) # {}
                                                /\ Boards!Day(Boards!Min(Boards!WonTimes(i))) = d})
    BY <1>2, <1>7, SameCounts DEF Boards!Trends
  <2> QED
    BY <2>1, <2>2
<1> HIDE DEF K, L, W, p, q, v, w
<1>8. IsFiniteSet(L) /\ IsFiniteSet(W)
  BY <1>1, LeadsCount
<1>9. \A d \in K : v[d] = Cardinality({i \in L : p[i] = d})
  BY <1>6
<1>10. \A d \in K : w[d] = Cardinality({i \in W : q[i] = d})
  BY <1>7
<1>11. Boards!SumOf(v) = Cardinality(L)
  BY <1>1, <1>5, <1>8, <1>9, CountedApart
<1>12. Boards!SumOf(w) = Cardinality(W)
  BY <1>1, <1>5, <1>8, <1>10, CountedApart
<1> QED
  BY <1>11, <1>12 DEF v, w, K, L, W

\* A lead in the last stage of its path was moved there, and the trends have it.
LEMMA StagesInTrends ==
    ASSUME StoryInv
    PROVE  /\ Boards!PipelineReport(Admin).stages["lost"]
                  <= Cardinality({i \in Boards!Live : Boards!LostTimes(i) # {}})
           /\ WonStage \in Stamped =>
                  Boards!PipelineReport(Admin).stages[WonStage]
                  <= Cardinality({i \in Boards!Live : Boards!WonTimes(i) # {}})
<1>1. Boards!Reported(Admin) = Boards!Live
  BY Countable DEF Boards!Reported
<1>2. ASSUME NEW s \in BoardStages
      PROVE  Boards!PipelineReport(Admin).stages[s] = Cardinality({i \in Boards!Live : row[i].stage = s})
  BY <1>1, SameCounts DEF Boards!PipelineReport, Boards!ByStage
<1>3. {"lost", WonStage} \subseteq BoardStages /\ "created" \notin {"lost", WonStage}
  BY TheBoards, BoardsConstants DEF Boards!BoardsAssumption
<1>4. ASSUME NEW s \in {"lost", WonStage}, NEW i \in Boards!Live, row[i].stage = s
      PROVE  \E m \in moves : m.lead = i /\ m.to = s
  BY <1>3, <1>4, Countable DEF StoryInv, LogTells
<1>5. {i \in Boards!Live : row[i].stage = "lost"} \subseteq {i \in Boards!Live : Boards!LostTimes(i) # {}}
  BY <1>4 DEF Boards!LostTimes
<1>6. WonStage \in Stamped =>
          {i \in Boards!Live : row[i].stage = WonStage} \subseteq {i \in Boards!Live : Boards!WonTimes(i) # {}}
  BY <1>4 DEF Boards!WonTimes
<1> DEFINE A == {i \in Boards!Live : row[i].stage = "lost"}
           B == {i \in Boards!Live : Boards!LostTimes(i) # {}}
           C == {i \in Boards!Live : row[i].stage = WonStage}
           D == {i \in Boards!Live : Boards!WonTimes(i) # {}}
<1>7. B \in SUBSET Ids /\ D \in SUBSET Ids /\ A \subseteq B /\ (WonStage \in Stamped => C \subseteq D)
  BY <1>5, <1>6, Countable
<1>8. /\ Boards!PipelineReport(Admin).stages["lost"] = Cardinality(A)
      /\ Boards!PipelineReport(Admin).stages[WonStage] = Cardinality(C)
  BY <1>2, <1>3
<1> HIDE DEF A, B, C, D
<1>9. Cardinality(A) <= Cardinality(B)
  BY <1>7, LeadsCount, FS_Subset
<1>10. WonStage \in Stamped => Cardinality(C) <= Cardinality(D)
  BY <1>7, LeadsCount, FS_Subset
<1> QED
  BY <1>8, <1>9, <1>10 DEF B, D

\* Leads that were lost are no more than their losses.
LEMMA LostByMoves ==
    ASSUME StoryInv
    PROVE  Cardinality({i \in Boards!Live : Boards!LostTimes(i) # {}}) <= Cardinality(LostMoves)
<1> DEFINE G == {i \in Boards!Live : Boards!LostTimes(i) # {}}
           g == [m \in LostMoves |-> m.lead]
           T == {g[m] : m \in LostMoves}
<1>1. G \subseteq T
  BY DEF LostMoves, Boards!LostTimes
<1>2. g \in Surjection(LostMoves, T)
  BY DEF Surjection
<1>3. IsFiniteSet(LostMoves)
  BY MovesCount DEF LostMoves
<1> HIDE DEF G, g, T
<1>4. IsFiniteSet(T) /\ Cardinality(T) <= Cardinality(LostMoves)
  BY <1>2, <1>3, FS_Surjection
<1>5. IsFiniteSet(G) /\ Cardinality(G) <= Cardinality(T)
  BY <1>1, <1>4, FS_Subset
<1>6. Cardinality(G) \in Nat /\ Cardinality(T) \in Nat /\ Cardinality(LostMoves) \in Nat
  BY <1>3, <1>4, <1>5, FS_CardinalityType
<1> QED
  BY <1>4, <1>5, <1>6 DEF G

\* Every loss is in one day of one user.
LEMMA LossesOfDays ==
    ASSUME StoryInv
    PROVE  Boards!SumOf([x \in Boards!People \X Boards!DaysSoFar |-> Boards!DayMetrics(x[1], x[2]).lost])
               = Cardinality(LostMoves)
<1> DEFINE P == Boards!People
           D == Boards!DaysSoFar
           K == P \X D
           p == [m \in LostMoves |-> <<m.by, Boards!Day(m.time)>>]
           v == [x \in K |-> Boards!DayMetrics(x[1], x[2]).lost]
<1>1. ASSUME NEW m \in LostMoves PROVE m.by \in P /\ Boards!Day(m.time) \in D
  BY <1>1, DaysOfMoves DEF LostMoves, MoveRows
<1>2. p \in [LostMoves -> K] /\ DOMAIN v = K
  BY <1>1
<1>3. ASSUME NEW u \in P, NEW d \in D
      PROVE  v[<<u, d>>] = Cardinality({m \in LostMoves : p[m] = <<u, d>>})
  <2>1. {m \in moves : m.to = "lost" /\ m.by = u /\ Boards!Day(m.time) = d}
            = {m \in LostMoves : p[m] = <<u, d>>}
    BY DEF LostMoves
  <2>2. Boards!DayMetrics(u, d).lost
            = Cardinality({m \in moves : m.to = "lost" /\ m.by = u /\ Boards!Day(m.time) = d})
    BY DayCounts
  <2>3. v[<<u, d>>] = Boards!DayMetrics(u, d).lost
    BY <1>3
  <2> HIDE DEF v, p
  <2> QED
    BY <2>1, <2>2, <2>3
<1>4. IsFiniteSet(P) /\ IsFiniteSet(D) /\ IsFiniteSet(LostMoves)
  BY Countable, DaysOfMoves, MovesCount DEF LostMoves
<1> HIDE DEF P, D, p, v
<1>5. ASSUME NEW x \in K PROVE v[x] = Cardinality({m \in LostMoves : p[m] = x})
  <2>1. PICK u \in P, d \in D : x = <<u, d>>
    BY <1>5
  <2> QED
    BY <1>3, <2>1
<1>6. IsFiniteSet(K)
  BY <1>4, FS_Product
<1> HIDE DEF K
<1>7. \A x \in K : v[x] = Cardinality({m \in LostMoves : p[m] = x})
  BY <1>5
<1>8. Boards!SumOf(v) = Cardinality(LostMoves)
  BY <1>2, <1>4, <1>6, <1>7, CountedApart
<1> QED
  BY <1>8 DEF v, K, P, D

-----------------------------------------------------------------------------
(* The reports.                                                            *)

\* LeadBoards!DaysAgree.
LEMMA DaysTold == ASSUME StoryInv PROVE Boards!DaysAgree
<1> DEFINE lost == Boards!SumOf([d \in Boards!DaysSoFar |-> Boards!Trends(Admin, d).lost])
           range(u) == Boards!ActivityRange(Admin, u, Boards!Day(now) + 1)
           done(u) == Boards!SumOf([n \in DOMAIN range(u) |-> range(u)[n].transitions])
           risen(u, d) == Boards!SumOf([a \in Boards!DailyActivity(u, u, d) |-> a.deltas.transitions])
<1>1. Boards!SumOf([u \in Boards!People |-> done(u)]) = Boards!Cardinality(moves)
  <2> DEFINE v == [u \in Boards!People |-> done(u)]
  <2>1. ASSUME NEW u \in Boards!People PROVE done(u) = Cardinality(MovesOf(u))
    BY RangeHasAll
  <2>2. DOMAIN v = Boards!People /\ \A u \in Boards!People : v[u] = Cardinality(MovesOf(u))
    BY <2>1
  <2> HIDE DEF v
  <2>3. Boards!SumOf(v) = Cardinality(moves)
    BY <2>2, EverybodysMoves
  <2> QED
    BY <2>3, SameCounts DEF v
<1>2. ASSUME NEW u \in Boards!People
      PROVE  Boards!SumOf([d \in Boards!DaysSoFar |-> risen(u, d)])
                 = Boards!DayMetrics(u, Boards!Day(now)).transitions
  <2> DEFINE v == [d \in Boards!DaysSoFar |-> risen(u, d)]
  <2>1. DOMAIN v = Boards!DaysSoFar /\ \A d \in Boards!DaysSoFar : v[d] = risen(u, d)
    OBVIOUS
  <2> HIDE DEF v
  <2>2. Boards!SumOf(v) = Boards!DayMetrics(u, Boards!Day(now)).transitions
    BY <2>1, <1>2, ChangesAddUp
  <2> QED
    BY <2>2 DEF v
<1>3. lost = Cardinality({i \in Boards!Live : Boards!LostTimes(i) # {}})
  BY TrendsCount
<1>4. Boards!PipelineReport(Admin).stages["lost"] <= lost
  BY <1>3, StagesInTrends
<1>5. lost <= Boards!SumOf([x \in Boards!People \X Boards!DaysSoFar |-> Boards!DayMetrics(x[1], x[2]).lost])
  BY <1>3, LostByMoves, LossesOfDays
<1>6. WonStage \in Stamped =>
          Boards!PipelineReport(Admin).stages[WonStage]
          <= Boards!SumOf([d \in Boards!DaysSoFar |-> Boards!Trends(Admin, d).won])
  BY TrendsCount, StagesInTrends
<1> QED
  BY <1>1, <1>2, <1>4, <1>5, <1>6 DEF Boards!DaysAgree

\* No two reports on leads (report_service, task_service, the cards of list_leads_by_stage)
\* show two counts for one thing, whatever leads were moved, assigned, edited and deleted.
THEOREM LeadReportsAlwaysAgree == ScreensSpec => []LeadReportsAgree
<1>1. StoryInv => LeadReportsAgree
  BY LeadsTold, TasksTold, DaysTold, CardsTold
     DEF StoryInv, CacheInv, LeadReportsAgree, Boards!ReportsAgree
<1> QED
  BY <1>1, StoryInvariant, PTL
=============================================================================
