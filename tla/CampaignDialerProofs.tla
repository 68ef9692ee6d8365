------------------------ MODULE CampaignDialerProofs ------------------------
(* Machine-checked proofs about CampaignDialer, for every set of rows and  *)
(* every value of the limits.                                              *)
EXTENDS CampaignDialer, SumTheorems, FiniteSetTheorems, TLAPS

\* Every action names the two limits of the campaign it leaves alone.
USE DEF campaignVars

-----------------------------------------------------------------------------
(* Types.  A row that may still be dialled has attempts left, and the      *)
(* worker dispatches a row only between its calling commit and the dial.   *)

AttemptsLeft ==
    \A r \in Rows :
        /\ clStatus[r] = "none" => attempts[r] = 0
        /\ clStatus[r] = "pending" => attempts[r] < Ceiling
        /\ r \in InBatch => attempts[r] < Ceiling

Phases ==
    /\ pc = "dial" <=> dialing \in Rows
    /\ dialing \in Rows => attempts[dialing] \in 1..Ceiling
    /\ pc \in {"idle", "sweep", "select"} => InBatch = {}

Shape == TypeOK /\ AttemptsLeft /\ Phases

\* A campaign starts in a state that has this shape.
LEMMA ShapeInit == Init => Shape
<1> SUFFICES ASSUME Init PROVE Shape
  OBVIOUS
<1>1. TypeOK
  <2>1. \A m \in RetryLimits : m \in 1..Ceiling
    BY ConstantsAssumption DEF ConstantsAssumption
  <2>2. 0 \in 0..Ceiling /\ 0 \in 0..MaxReports /\ 0 \in 0..MaxMoves
        /\ 0 \in 0..MaxCrashes /\ 0 \in 0..MaxFaults /\ 0 \in 0..MaxOther
    BY ConstantsAssumption DEF ConstantsAssumption
  <2>3. lead \in [Rows -> Alive \cup {"deleted"}]
    BY ConstantsAssumption DEF ConstantsAssumption, Init
  <2> QED
    BY <2>1, <2>2, <2>3 DEF Init, TypeOK, NoBatch, NoCall, CampaignStatus, RowStatus
<1>2. AttemptsLeft
  BY ConstantsAssumption DEF ConstantsAssumption, Init, AttemptsLeft, InBatch, NoBatch
<1>3. Phases
  BY ConstantsAssumption DEF ConstantsAssumption, Init, Phases, InBatch, NoBatch
<1> QED
  BY <1>1, <1>2, <1>3 DEF Shape

\* What the worker does keeps it.
LEMMA ShapeWorker == ASSUME Shape, WorkerStep PROVE Shape'
<1> USE ConstantsAssumption
        DEF ConstantsAssumption, Shape, TypeOK, AttemptsLeft, Phases, CampaignStatus,
            RowStatus, rowVars, callVars, reportVars, boundVars, InBatch, Calls
<1>1. CASE BeginCycle
  BY <1>1 DEF BeginCycle, Calling
<1>2. CASE RecoverStuck
  BY <1>2 DEF RecoverStuck
<1>3. CASE NoSlots
  BY <1>3 DEF NoSlots
<1>4. CASE PauseForMissingAgent
  BY <1>4 DEF PauseForMissingAgent
<1>5. CASE SelectBatch
  BY <1>5 DEF SelectBatch, Eligible
<1>6. CASE CheckCompletion
  BY <1>6 DEF CheckCompletion
<1>7. CASE EndCycle
  BY <1>7 DEF EndCycle
<1>8. ASSUME NEW r \in Rows, DispatchUnavailable(r) PROVE Shape'
  BY <1>8 DEF DispatchUnavailable
<1>9. ASSUME NEW r \in Rows, DispatchCommit(r) PROVE Shape'
  BY <1>9 DEF DispatchCommit
<1>10. CASE DispatchRewind
  BY <1>10 DEF DispatchRewind, Refund, NoCall
<1>11. CASE DialRefused
  BY <1>11 DEF DialRefused, RetryLater
<1>12. CASE DialPlaced
  BY <1>12 DEF DialPlaced, DialingCall
<1>13. CASE DispatchFaultCompensated
  BY <1>13 DEF DispatchFaultCompensated
<1>14. CASE DispatchFaultStranded
  <2>1. DialingCall \in Calls
    BY <1>14 DEF DispatchFaultStranded, DialingCall
  <2>2. line' \in [Calls -> {"none", "live", "over"}] /\ states' \subseteq Calls
    BY <1>14, <2>1 DEF DispatchFaultStranded
  <2> QED
    BY <1>14, <2>2 DEF DispatchFaultStranded, NoBatch
<1>15. CASE DispatchFaultAborted
  BY <1>15 DEF DispatchFaultAborted, NoBatch
<1> HIDE DEF Shape
<1> QED
  BY <1>1, <1>2, <1>3, <1>4, <1>5, <1>6, <1>7, <1>8, <1>9, <1>10, <1>11, <1>12,
     <1>13, <1>14, <1>15 DEF WorkerStep

\* What users and other calls do keeps it.
LEMMA ShapeRequest == ASSUME Shape, RequestStep PROVE Shape'
<1> USE ConstantsAssumption
        DEF ConstantsAssumption, Shape, TypeOK, AttemptsLeft, Phases, CampaignStatus,
            RowStatus, rowVars, callVars, reportVars, workerVars, boundVars, InBatch
<1>1. ASSUME NEW r \in Rows, AssignLead(r) PROVE Shape'
  BY <1>1 DEF AssignLead, Alive
<1>2. ASSUME NEW r \in Rows, AssignLeadBulk(r) PROVE Shape'
  BY <1>2 DEF AssignLeadBulk
<1>3. ASSUME NEW r \in Rows, MoveLead(r) PROVE Shape'
  BY <1>3 DEF MoveLead, Alive
<1>4. ASSUME NEW r \in Rows, EditPhone(r) \/ DeleteLead(r) PROVE Shape'
  BY <1>4 DEF EditPhone, DeleteLead, Alive
<1>5. CASE StartCampaign
  BY <1>5 DEF StartCampaign
<1>6. CASE PauseCampaign
  BY <1>6 DEF PauseCampaign
<1>7. CASE StopCampaign
  BY <1>7 DEF StopCampaign
<1>8. CASE UpdateCampaign
  BY <1>8 DEF UpdateCampaign
<1>9. CASE OutboundCall
  BY <1>9 DEF OutboundCall
<1>10. CASE OutboundEnds
  BY <1>10 DEF OutboundEnds
<1> HIDE DEF Shape
<1> QED
  BY <1>1, <1>2, <1>3, <1>4, <1>5, <1>6, <1>7, <1>8, <1>9, <1>10 DEF RequestStep

\* What calls, their webhooks and the reports about them do keeps it.
LEMMA ShapeCall == ASSUME Shape, CallStep PROVE Shape'
<1> USE ConstantsAssumption
        DEF ConstantsAssumption, Shape, TypeOK, AttemptsLeft, Phases, CampaignStatus,
            rowVars, callVars, reportVars, workerVars, boundVars, InBatch
<1>1. ASSUME NEW c \in Calls, LineEnds(c) PROVE Shape'
  BY <1>1 DEF LineEnds
<1>2. ASSUME NEW c \in Calls, EndCall(c) PROVE Shape'
  BY <1>2 DEF EndCall, MayReport, Report
<1>3. ASSUME NEW c \in Calls, NEW ok \in BOOLEAN, HangupWebhook(c, ok) PROVE Shape'
  BY <1>3 DEF HangupWebhook, MayReport, Report
<1>4. ASSUME NEW m \in reports, TakeReport(m) PROVE Shape'
  BY <1>4 DEF TakeReport, Report, Handling, Calls
<1>5. ASSUME NEW h \in handling, ApplyReport(h) PROVE Shape'
  BY <1>5 DEF ApplyReport, RetryLater, RowStatus, Handling, Calls
<1> HIDE DEF Shape
<1> QED
  BY <1>1, <1>2, <1>3, <1>4, <1>5 DEF CallStep

\* The clock and the clean-up job keep it.
LEMMA ShapeTime == ASSUME Shape, TimeStep PROVE Shape'
<1> USE ConstantsAssumption
        DEF ConstantsAssumption, Shape, TypeOK, AttemptsLeft, Phases, CampaignStatus,
            RowStatus, rowVars, callVars, reportVars, workerVars, boundVars, InBatch
<1>1. ASSUME NEW r \in Rows, BecomeOverdue(r) PROVE Shape'
  BY <1>1 DEF BecomeOverdue
<1>2. ASSUME NEW r \in Rows, RetryComesDue(r) PROVE Shape'
  BY <1>2 DEF RetryComesDue
<1>3. CASE CleanupStale
  BY <1>3 DEF CleanupStale
<1> HIDE DEF Shape
<1> QED
  BY <1>1, <1>2, <1>3 DEF TimeStep

\* A restart keeps it.
LEMMA ShapeCrash == ASSUME Shape, Crash PROVE Shape'
  BY ConstantsAssumption
     DEF ConstantsAssumption, Shape, TypeOK, AttemptsLeft, Phases, CampaignStatus, RowStatus,
         rowVars, callVars, reportVars, workerVars, boundVars, InBatch, NoBatch, Crash

\* Every step keeps it: the five lemmas above cover the disjuncts of Next.
LEMMA ShapeStep == Shape /\ [Next]_vars => Shape'
<1> SUFFICES ASSUME Shape, [Next]_vars PROVE Shape'
  OBVIOUS
<1>1. CASE UNCHANGED vars
  BY <1>1 DEF vars, rowVars, callVars, reportVars, workerVars, boundVars, Shape, TypeOK,
              AttemptsLeft, Phases, InBatch, Calls, Report, Handling
<1> QED
  BY <1>1, ShapeWorker, ShapeRequest, ShapeCall, ShapeTime, ShapeCrash DEF Next

\* So every reachable state has this shape.
LEMMA ShapeAlways == Spec => []Shape
  BY ShapeInit, ShapeStep, PTL DEF Spec

\* Every state is well typed: in particular no row is ever charged more attempts
\* than the largest max_retries, although a rewind gives attempts back, faults
\* strand rows and the batch is dispatched from a copy.
THEOREM TypeCorrect == Spec => []TypeOK
  BY ShapeAlways, PTL DEF Shape

-----------------------------------------------------------------------------
(* The concurrency limit.  The slots are counted when the batch is         *)
(* selected, and used one by one afterwards, so the rows that count are    *)
(* those calling and those selected together, and the limit that counts is *)
(* the worker's copy: the campaign's may be changed meanwhile.             *)

Claimed == Calling \cup InBatch

Dispatching == pc \in {"dispatch", "dial"}

SlotsClaimed == Dispatching => Cardinality(Claimed) <= allowed

\* The sets of rows that are counted are finite.
LEMMA RowsFinite ==
    /\ IsFiniteSet(Rows)
    /\ \A S \in SUBSET Rows : IsFiniteSet(S) /\ Cardinality(S) \in Nat
  BY ConstantsAssumption, FS_Subset, FS_CardinalityType DEF ConstantsAssumption

\* A step that claims no new row, and does not begin to dispatch, keeps the limit.
LEMMA FewerClaimed ==
  ASSUME Shape, SlotsClaimed, Claimed' \subseteq Claimed,
         Dispatching' => Dispatching /\ allowed' = allowed
  PROVE  SlotsClaimed'
<1>1. Claimed \in SUBSET Rows
  BY DEF Claimed, Calling, InBatch
<1>2. IsFiniteSet(Claimed) /\ Cardinality(Claimed) \in Nat
  BY <1>1, RowsFinite
<1>3. Cardinality(Claimed') <= Cardinality(Claimed) /\ Cardinality(Claimed') \in Nat
  BY <1>2, FS_Subset, FS_CardinalityType
<1>4. allowed \in Nat
  BY ConstantsAssumption DEF ConstantsAssumption, Shape, TypeOK
<1> QED
  BY <1>2, <1>3, <1>4 DEF SlotsClaimed

\* Nothing is dispatched when the campaign is created.
LEMMA SlotsInit == Init => SlotsClaimed
  BY DEF Init, SlotsClaimed, Dispatching

\* The selection claims at most as many rows as there are slots.
LEMMA SlotsSelect == ASSUME Shape, SlotsClaimed, SelectBatch PROVE SlotsClaimed'
<1>1. PICK chosen \in SUBSET Rows :
        /\ Cardinality(chosen) <= Slots
        /\ batch' = [r \in Rows |-> IF r \in chosen THEN clStatus[r] ELSE "out"]
  BY DEF SelectBatch
<1>2. Claimed' \subseteq Calling \cup chosen
  BY <1>1 DEF SelectBatch, Claimed, Calling, InBatch, rowVars
<1>3. Calling \in SUBSET Rows
  BY DEF Calling
<1>4. /\ IsFiniteSet(Calling) /\ IsFiniteSet(chosen)
      /\ Cardinality(Calling) \in Nat /\ Cardinality(chosen) \in Nat
      /\ IsFiniteSet(Calling \cap chosen) /\ Cardinality(Calling \cap chosen) \in Nat
  BY <1>1, <1>3, RowsFinite
<1>5. /\ IsFiniteSet(Calling \cup chosen)
      /\ Cardinality(Calling \cup chosen) <= Cardinality(Calling) + Cardinality(chosen)
      /\ Cardinality(Calling \cup chosen) \in Nat
  <2>1. /\ IsFiniteSet(Calling \cup chosen)
        /\ Cardinality(Calling \cup chosen)
              = Cardinality(Calling) + Cardinality(chosen) - Cardinality(Calling \cap chosen)
    BY <1>4, FS_Union
  <2>2. Cardinality(Calling \cup chosen) \in Nat
    BY <2>1, FS_CardinalityType
  <2> QED
    BY <1>4, <2>1, <2>2
<1>6. Cardinality(Claimed') <= Cardinality(Calling \cup chosen)
      /\ Cardinality(Claimed') \in Nat
  BY <1>2, <1>5, FS_Subset, FS_CardinalityType
<1>7. allowed \in Nat /\ allowed' = allowed
  BY ConstantsAssumption DEF ConstantsAssumption, SelectBatch, Shape, TypeOK
<1> QED
  BY <1>1, <1>4, <1>5, <1>6, <1>7 DEF Slots, SlotsClaimed

\* The worker claims rows only in the selection; dispatching moves a row from
\* the batch to the calling rows or drops it.
LEMMA SlotsWorker == ASSUME Shape, SlotsClaimed, WorkerStep PROVE SlotsClaimed'
<1> USE DEF Claimed, Calling, InBatch, Dispatching, TypeOK, rowVars, boundVars
<1>1. CASE BeginCycle
  BY <1>1, FewerClaimed DEF BeginCycle
<1>2. CASE RecoverStuck
  BY <1>2, FewerClaimed DEF RecoverStuck
<1>3. CASE NoSlots \/ PauseForMissingAgent \/ CheckCompletion \/ EndCycle
  BY <1>3, FewerClaimed DEF NoSlots, PauseForMissingAgent, CheckCompletion, EndCycle
<1>4. CASE SelectBatch
  BY <1>4, SlotsSelect
<1>5. ASSUME NEW r \in Rows, DispatchUnavailable(r) PROVE SlotsClaimed'
  BY <1>5, FewerClaimed DEF DispatchUnavailable
<1>6. ASSUME NEW r \in Rows, DispatchCommit(r) PROVE SlotsClaimed'
  BY <1>6, FewerClaimed DEF DispatchCommit
<1>7. CASE DispatchRewind
  BY <1>7, FewerClaimed DEF DispatchRewind
<1>8. CASE DialRefused
  BY <1>8, FewerClaimed DEF DialRefused
<1>9. CASE DialPlaced
  BY <1>9, FewerClaimed DEF DialPlaced
<1>10. CASE DispatchFaultCompensated
  BY <1>10, FewerClaimed DEF DispatchFaultCompensated
<1>11. CASE DispatchFaultStranded
  BY <1>11, FewerClaimed DEF DispatchFaultStranded, NoBatch
<1>12. CASE DispatchFaultAborted
  BY <1>12, FewerClaimed DEF DispatchFaultAborted, NoBatch
<1> QED
  BY <1>1, <1>2, <1>3, <1>4, <1>5, <1>6, <1>7, <1>8, <1>9, <1>10, <1>11, <1>12
     DEF WorkerStep

\* Nobody else claims a row: enrolment adds pending rows, reports end calls.
LEMMA SlotsOthers ==
  ASSUME Shape, SlotsClaimed, RequestStep \/ CallStep \/ TimeStep \/ Crash
  PROVE  SlotsClaimed'
<1> USE DEF Claimed, Calling, InBatch, Dispatching, rowVars, workerVars
<1>1. CASE RequestStep
  <2>1. Claimed' \subseteq Claimed
    BY <1>1
       DEF RequestStep, AssignLead, AssignLeadBulk, MoveLead, EditPhone, DeleteLead,
           StartCampaign, PauseCampaign, StopCampaign, UpdateCampaign, OutboundCall,
           OutboundEnds, Shape, TypeOK
  <2>2. UNCHANGED workerVars
    BY <1>1
       DEF RequestStep, AssignLead, AssignLeadBulk, MoveLead, EditPhone, DeleteLead,
           StartCampaign, PauseCampaign, StopCampaign, UpdateCampaign, OutboundCall,
           OutboundEnds
  <2> QED
    BY <2>1, <2>2, FewerClaimed
<1>2. ASSUME NEW c \in Calls,
             \/ LineEnds(c) \/ EndCall(c) \/ \E ok \in BOOLEAN : HangupWebhook(c, ok)
      PROVE SlotsClaimed'
  BY <1>2, FewerClaimed DEF LineEnds, EndCall, HangupWebhook
<1>3. ASSUME NEW m \in reports, TakeReport(m) PROVE SlotsClaimed'
  BY <1>3, FewerClaimed DEF TakeReport
<1>4. ASSUME NEW h \in handling, ApplyReport(h) PROVE SlotsClaimed'
  BY <1>4, FewerClaimed DEF ApplyReport
<1>5. CASE TimeStep
  BY <1>5, FewerClaimed DEF TimeStep, BecomeOverdue, RetryComesDue, CleanupStale
<1>6. CASE Crash
  BY <1>6, FewerClaimed DEF Crash, NoBatch
<1> QED
  BY <1>1, <1>2, <1>3, <1>4, <1>5, <1>6 DEF CallStep

\* Every step keeps the claimed rows within max_concurrent_calls.
LEMMA SlotsStep == Shape /\ SlotsClaimed /\ [Next]_vars => SlotsClaimed'
<1> SUFFICES ASSUME Shape, SlotsClaimed, [Next]_vars PROVE SlotsClaimed'
  OBVIOUS
<1>1. CASE UNCHANGED vars
  BY <1>1, FewerClaimed DEF vars, rowVars, workerVars, Claimed, Calling, InBatch, Dispatching
<1> QED
  BY <1>1, SlotsWorker, SlotsOthers DEF Next

\* Only the calling commit makes a row calling.
LEMMA OnlyCommitCalls ==
  ASSUME [Next]_vars, \A r \in Rows : ~DispatchCommit(r), Shape
  PROVE  Calling' \subseteq Calling
<1> USE DEF Calling, rowVars
<1>1. CASE WorkerStep
  BY <1>1 DEF WorkerStep, BeginCycle, RecoverStuck, NoSlots, PauseForMissingAgent, SelectBatch,
              CheckCompletion, EndCycle, DispatchUnavailable, DispatchRewind, DialRefused,
              DialPlaced, DispatchFaultCompensated, DispatchFaultStranded,
              DispatchFaultAborted, Shape, TypeOK
<1>2. CASE RequestStep
  BY <1>2 DEF RequestStep, AssignLead, AssignLeadBulk, MoveLead, EditPhone, DeleteLead,
              StartCampaign, PauseCampaign, StopCampaign, UpdateCampaign, OutboundCall,
              OutboundEnds, Shape, TypeOK
<1>3. CASE CallStep
  BY <1>3 DEF CallStep, LineEnds, EndCall, HangupWebhook, TakeReport, ApplyReport,
              Shape, TypeOK
<1>4. CASE TimeStep \/ Crash
  BY <1>4 DEF TimeStep, BecomeOverdue, RetryComesDue, CleanupStale, Crash
<1>5. CASE UNCHANGED vars
  BY <1>5 DEF vars
<1> QED
  BY <1>1, <1>2, <1>3, <1>4, <1>5 DEF Next

\* The calling rows are among the claimed ones, also after the commit.
LEMMA CommitWithinSlots ==
  ASSUME Shape, SlotsClaimed', NEW r \in Rows, DispatchCommit(r)
  PROVE  Cardinality(Calling') <= allowed
<1>1. Claimed' \in SUBSET Rows /\ Calling' \in SUBSET Claimed'
  BY DEF Claimed, Calling, InBatch
<1>2. Cardinality(Calling') <= Cardinality(Claimed')
      /\ Cardinality(Claimed') \in Nat /\ Cardinality(Calling') \in Nat
  BY <1>1, RowsFinite, FS_Subset, FS_CardinalityType
<1>3. Cardinality(Claimed') <= allowed' /\ allowed' = allowed
  BY DEF DispatchCommit, SlotsClaimed, Dispatching
<1>4. allowed \in Nat
  BY ConstantsAssumption DEF ConstantsAssumption, Shape, TypeOK
<1> QED
  BY <1>2, <1>3, <1>4

\* Whatever requests (the limit lowered or raised between two cycles among them),
\* reports, sweeps, faults and restarts come in between, a row is only ever added to
\* the calling ones within the limit its cycle read.
THEOREM ConcurrencyLimit == Spec => SlotBound
<1>1. Init => Shape /\ SlotsClaimed
  BY ShapeInit, SlotsInit
<1>2. Shape /\ SlotsClaimed /\ [Next]_vars => (Shape /\ SlotsClaimed)'
  BY ShapeStep, SlotsStep
<1>3. Shape /\ SlotsClaimed /\ [Next]_vars
        => [Calling' \ Calling # {} => Cardinality(Calling') <= allowed]_vars
  BY <1>2, OnlyCommitCalls, CommitWithinSlots
<1> QED
  BY <1>1, <1>2, <1>3, PTL DEF Spec, SlotBound

-----------------------------------------------------------------------------
(* The cap of the call state manager.                                      *)

\* There are finitely many calls: for each attempt number, as many as rows.
LEMMA CallsFinite == IsFiniteSet(Calls)
<1> DEFINE Of(r) == {r} \X (1..Ceiling)
<1>1. IsFiniteSet(Rows) /\ IsFiniteSet(1..Ceiling)
  BY FS_Interval, ConstantsAssumption DEF ConstantsAssumption
<1>2. ASSUME NEW r \in Rows PROVE IsFiniteSet(Of(r))
  <2>1. [n \in 1..Ceiling |-> <<r, n>>] \in Surjection(1..Ceiling, Of(r))
    BY DEF Surjection
  <2> QED
    BY <1>1, <2>1, FS_Surjection
<1>3. [r \in Rows |-> Of(r)] \in Surjection(Rows, {Of(r) : r \in Rows})
  BY DEF Surjection
<1>4. IsFiniteSet({Of(r) : r \in Rows})
  BY <1>1, <1>3, FS_Surjection
<1>5. IsFiniteSet(UNION {Of(r) : r \in Rows})
  BY <1>2, <1>4, FS_UNION
<1>6. Calls = UNION {Of(r) : r \in Rows}
  BY DEF Calls
<1> QED
  BY <1>5, <1>6

\* The call state manager holds finitely many entries.
LEMMA StatesFinite ==
  ASSUME Shape PROVE IsFiniteSet(states) /\ Cardinality(states) \in Nat
  BY CallsFinite, FS_Subset, FS_CardinalityType DEF Shape, TypeOK

\* A step that adds no entry keeps the cap.
LEMMA FewerStates ==
  ASSUME Shape, CallCapHeld, states' \subseteq states, otherCalls' \in Nat,
         otherCalls' <= otherCalls
  PROVE  CallCapHeld'
<1>1. IsFiniteSet(states) /\ Cardinality(states) \in Nat
  BY StatesFinite
<1>2. Cardinality(states') <= Cardinality(states) /\ Cardinality(states') \in Nat
  BY <1>1, FS_Subset, FS_CardinalityType
<1> QED
  BY <1>1, <1>2, ConstantsAssumption DEF CallCapHeld, ConstantsAssumption, Shape, TypeOK

\* A step that adds one entry below the cap keeps it too.
LEMMA OneMoreState ==
  ASSUME Shape, ~CapReached, NEW STATE c, states' = states \cup {c}, otherCalls' = otherCalls
  PROVE  CallCapHeld'
<1>1. IsFiniteSet(states) /\ Cardinality(states) \in Nat
  BY StatesFinite
<1>2. IsFiniteSet(states \cup {c})
      /\ Cardinality(states \cup {c}) \in {Cardinality(states), Cardinality(states) + 1}
  BY <1>1, FS_AddElement
<1>3. Cardinality(states') <= Cardinality(states) + 1 /\ Cardinality(states') \in Nat
  BY <1>1, <1>2
<1> QED
  BY <1>1, <1>3, ConstantsAssumption
     DEF CallCapHeld, CapReached, ConstantsAssumption, Shape, TypeOK

\* The call state manager starts empty.
LEMMA CapInit == Init => CallCapHeld
  BY FS_EmptySet, ConstantsAssumption DEF Init, CallCapHeld, ConstantsAssumption

\* Every step keeps the cap: only the dial and /voice/outbound add an entry, and
\* both look at the number of entries first.
LEMMA CapStep == Shape /\ CallCapHeld /\ [Next]_vars => CallCapHeld'
<1> SUFFICES ASSUME Shape, CallCapHeld, [Next]_vars PROVE CallCapHeld'
  OBVIOUS
<1>0. otherCalls \in Nat /\ MaxOther \in Nat
  BY ConstantsAssumption DEF Shape, TypeOK, ConstantsAssumption
<1>1. CASE DialPlaced
  BY <1>1, OneMoreState DEF DialPlaced
<1>2. CASE DispatchFaultStranded
  <2>1. CASE CapReached
    BY <1>0, <1>2, <2>1, FewerStates DEF DispatchFaultStranded
  <2>2. CASE ~CapReached
    BY <1>2, <2>2, OneMoreState DEF DispatchFaultStranded
  <2> QED
    BY <2>1, <2>2
<1>3. CASE OutboundCall
  <2>1. IsFiniteSet(states) /\ Cardinality(states) \in Nat
    BY StatesFinite
  <2> QED
    BY <1>0, <1>3, <2>1, ConstantsAssumption
       DEF OutboundCall, CapReached, CallCapHeld, ConstantsAssumption
<1>4. CASE OutboundEnds
  BY <1>0, <1>4, FewerStates DEF OutboundEnds
<1>5. CASE Crash
  BY <1>0, <1>5, FewerStates DEF Crash
<1>6. ASSUME WorkerStep, ~DialPlaced, ~DispatchFaultStranded PROVE CallCapHeld'
  BY <1>0, <1>6, FewerStates
     DEF WorkerStep, BeginCycle, RecoverStuck, NoSlots, PauseForMissingAgent, SelectBatch,
         CheckCompletion, EndCycle, DispatchUnavailable, DispatchCommit, DispatchRewind,
         DialRefused, DispatchFaultCompensated, DispatchFaultAborted, callVars
<1>7. ASSUME RequestStep, ~OutboundCall, ~OutboundEnds PROVE CallCapHeld'
  BY <1>0, <1>7, FewerStates
     DEF RequestStep, AssignLead, AssignLeadBulk, MoveLead, EditPhone, DeleteLead,
         StartCampaign, PauseCampaign, StopCampaign, UpdateCampaign, callVars
<1>8. CASE CallStep
  BY <1>0, <1>8, FewerStates
     DEF CallStep, LineEnds, EndCall, HangupWebhook, TakeReport, ApplyReport, callVars
<1>9. CASE TimeStep
  <2>1. states' \subseteq states /\ otherCalls' = otherCalls
    BY <1>9 DEF TimeStep, BecomeOverdue, RetryComesDue, CleanupStale, callVars
  <2> QED
    BY <1>0, <2>1, FewerStates
<1>10. CASE UNCHANGED vars
  BY <1>0, <1>10, FewerStates DEF vars, callVars
<1> QED
  BY <1>1, <1>2, <1>3, <1>4, <1>5, <1>6, <1>7, <1>8, <1>9, <1>10 DEF Next

\* The call state manager never holds more entries than its cap, whoever places
\* the calls and however they end.
THEOREM CallCapLimit == Spec => []CallCapHeld
<1>1. Init => Shape /\ CallCapHeld
  BY ShapeInit, CapInit
<1>2. Shape /\ CallCapHeld /\ [Next]_vars => (Shape /\ CallCapHeld)'
  BY ShapeStep, CapStep
<1> QED
  BY <1>1, <1>2, PTL DEF Spec

-----------------------------------------------------------------------------
(* Completion.  A completed campaign's worker is idle, and stays so: only  *)
(* an active campaign begins a cycle, and only the worker dials.           *)

CompletedIsQuiet == campaign = "completed" => pc = "idle" /\ Calling = {}

\* A draft is not completed.
LEMMA QuietInit == Init => CompletedIsQuiet
  BY DEF Init, CompletedIsQuiet

\* Every step keeps it: a cycle starts only in an active campaign, and a late
\* report never makes a row calling.
LEMMA QuietStep == Shape /\ CompletedIsQuiet /\ [Next]_vars => CompletedIsQuiet'
<1> SUFFICES ASSUME Shape, CompletedIsQuiet, [Next]_vars PROVE CompletedIsQuiet'
  OBVIOUS
<1> USE DEF CompletedIsQuiet, Calling, rowVars, workerVars
<1>1. CASE CheckCompletion
  BY <1>1 DEF CheckCompletion, NothingLeft
<1>2. ASSUME WorkerStep, ~CheckCompletion PROVE CompletedIsQuiet'
  BY <1>2
     DEF WorkerStep, BeginCycle, RecoverStuck, NoSlots, PauseForMissingAgent, SelectBatch,
         EndCycle, DispatchUnavailable, DispatchCommit, DispatchRewind, DialRefused,
         DialPlaced, DispatchFaultCompensated, DispatchFaultStranded, DispatchFaultAborted
<1>3. CASE RequestStep
  BY <1>3
     DEF RequestStep, AssignLead, AssignLeadBulk, MoveLead, EditPhone, DeleteLead,
         StartCampaign, PauseCampaign, StopCampaign, UpdateCampaign, OutboundCall, OutboundEnds,
         Shape, TypeOK
<1>4. CASE CallStep
  BY <1>4
     DEF CallStep, LineEnds, EndCall, HangupWebhook, TakeReport, ApplyReport, Shape, TypeOK
<1>5. CASE TimeStep \/ Crash
  BY <1>5 DEF TimeStep, BecomeOverdue, RetryComesDue, CleanupStale, Crash
<1>6. CASE UNCHANGED vars
  BY <1>6 DEF vars
<1> QED
  BY <1>1, <1>2, <1>3, <1>4, <1>5, <1>6 DEF Next

\* A campaign is completed only with no row calling, and no row of a completed
\* campaign is ever dialled again.
THEOREM CompletionIsQuiet == Spec => []NoCallingWhenCompleted
<1>1. Init => Shape /\ CompletedIsQuiet
  BY ShapeInit, QuietInit
<1>2. Shape /\ CompletedIsQuiet /\ [Next]_vars => (Shape /\ CompletedIsQuiet)'
  BY ShapeStep, QuietStep
<1>3. CompletedIsQuiet => NoCallingWhenCompleted
  BY DEF CompletedIsQuiet, NoCallingWhenCompleted
<1> QED
  BY <1>1, <1>2, <1>3, PTL DEF Spec

-----------------------------------------------------------------------------
(* Second calls.  A call that is live and not five minutes old is the last *)
(* one of its row, and its row is spared: neither selected nor dialled.  A *)
(* report about an earlier call may fail the row meanwhile, with a retry   *)
(* that is not due before the call is over.                                *)

Fresh(r, n) == line[<<r, n>>] = "live" /\ <<r, n>> \notin overdue

Spared(r) ==
    /\ lastCall[r] = attempts[r] /\ batch[r] = "out"
    /\ clStatus[r] \in {"calling", "completed", "failed"}
    /\ clStatus[r] = "failed" => attempts[r] >= limit \/ nextRetry[r] = "gap"

\* A call that was placed is among the row's attempts, and is not the one being dialled.
PlacedCounted ==
    \A r \in Rows, n \in 1..Ceiling :
        line[<<r, n>>] # "none" => n <= attempts[r] /\ (dialing = r => n < attempts[r])

\* Hangups are reported of calls that were placed.
ReportsAboutPlaced ==
    /\ \A m \in reports : line[m.call] # "none"
    /\ \A h \in handling : line[h.call] # "none"

\* What the sweep has read is calls over five minutes old.
StuckIsOverdue ==
    /\ pc # "sweep" => stuck = {}
    /\ \A r \in stuck : <<r, lastCall[r]>> \in overdue

FreshIsLast ==
    \A r \in Rows, n \in 1..Ceiling :
        Fresh(r, n) => n = attempts[r] /\ dialing # r /\ Spared(r)

DialedIsSpared == \A r \in Rows : dialing = r => Spared(r)

OneLimit == limit = maxRetries

Second == PlacedCounted /\ ReportsAboutPlaced /\ StuckIsOverdue /\ FreshIsLast
          /\ DialedIsSpared /\ OneLimit

\* Nothing is placed when the campaign is created.
LEMMA SecondInit == Init => Second
  BY ConstantsAssumption
     DEF ConstantsAssumption, Init, Second, PlacedCounted, ReportsAboutPlaced, StuckIsOverdue,
         FreshIsLast, DialedIsSpared, OneLimit, Fresh, Calls

\* A step that leaves the calls, the rows and the dial alone keeps it.
LEMMA SecondSame ==
  ASSUME Shape, Second, line' = line, overdue \subseteq overdue',
         rowVars' = rowVars, dialing' = dialing, limit' = limit, maxRetries' = maxRetries,
         reports' \subseteq reports, handling' \subseteq handling,
         stuck' \subseteq stuck, pc' # "sweep" => stuck' = {},
         \A r \in Rows : Spared(r) => batch'[r] = "out"
  PROVE  Second'
  BY DEF Second, PlacedCounted, ReportsAboutPlaced, StuckIsOverdue, FreshIsLast,
         DialedIsSpared, OneLimit, Fresh, Spared, rowVars, Shape, TypeOK

\* The selection leaves a spared row alone.
LEMMA SparedNotEligible ==
  ASSUME Shape, NEW r \in Rows, Spared(r) PROVE ~Eligible(r)
  BY ConstantsAssumption DEF ConstantsAssumption, Shape, TypeOK, Spared, Eligible

\* What the worker does before it dials keeps it.
LEMMA SecondCycle ==
  ASSUME Shape, Second,
         \/ BeginCycle \/ RecoverStuck \/ NoSlots \/ PauseForMissingAgent
         \/ SelectBatch \/ CheckCompletion \/ EndCycle
         \/ \E r \in Rows : DispatchUnavailable(r)
         \/ DispatchFaultAborted
  PROVE  Second'
<1>1. CASE BeginCycle
  BY <1>1 DEF BeginCycle, Second, PlacedCounted, ReportsAboutPlaced, StuckIsOverdue,
              FreshIsLast, DialedIsSpared, OneLimit, Fresh, Spared, Overdue, rowVars,
              callVars, reportVars, Shape, Phases
<1>2. CASE RecoverStuck
  <2>1. \A r \in Rows : r \in stuck => ~Fresh(r, attempts[r]) \/ lastCall[r] # attempts[r]
    BY DEF Second, StuckIsOverdue, Fresh
  <2>2. /\ clStatus' = [r \in Rows |-> IF r \in stuck THEN "failed" ELSE clStatus[r]]
        /\ nextRetry' = [r \in Rows |-> IF r \in stuck /\ attempts[r] < limit
                                        THEN "soon" ELSE nextRetry[r]]
        /\ pc = "sweep" /\ pc' = "select" /\ stuck' = {}
        /\ attempts' = attempts /\ lastCall' = lastCall /\ line' = line /\ overdue' = overdue
        /\ limit' = limit /\ maxRetries' = maxRetries /\ batch' = batch
        /\ dialing' = dialing /\ reports' = reports /\ handling' = handling
    BY <1>2 DEF RecoverStuck, callVars, reportVars
  <2>3. ASSUME NEW r \in Rows, r \notin stuck, Spared(r) PROVE Spared(r)'
    BY <2>2, <2>3 DEF Spared
  <2>4. \A r \in Rows : dialing # r
    BY <2>2 DEF Shape, Phases
  <2>5. ASSUME NEW r \in Rows, NEW n \in 1..Ceiling, Fresh(r, n)'
        PROVE  n = attempts'[r] /\ dialing' # r /\ Spared(r)'
    <3>1. Fresh(r, n) /\ n = attempts[r] /\ Spared(r)
      BY <2>2, <2>5 DEF Second, FreshIsLast, Fresh
    <3>2. r \notin stuck
      BY <2>1, <3>1 DEF Spared
    <3> QED
      BY <2>2, <2>3, <2>4, <3>1, <3>2
  <2> QED
    BY <2>2, <2>4, <2>5 DEF Second, PlacedCounted, ReportsAboutPlaced, StuckIsOverdue,
                            FreshIsLast, DialedIsSpared, OneLimit
<1>3. CASE NoSlots \/ PauseForMissingAgent \/ CheckCompletion \/ EndCycle
  BY <1>3, SecondSame
     DEF NoSlots, PauseForMissingAgent, CheckCompletion, EndCycle, callVars, reportVars,
         Second, StuckIsOverdue, Spared
<1>4. CASE SelectBatch
  <2>1. \A r \in Rows : Spared(r) => batch'[r] = "out"
    BY <1>4, SparedNotEligible DEF SelectBatch
  <2> QED
    BY <1>4, <2>1, SecondSame DEF SelectBatch, callVars, reportVars, Second, StuckIsOverdue
<1>5. ASSUME NEW r \in Rows, DispatchUnavailable(r) PROVE Second'
  BY <1>5 DEF DispatchUnavailable, Second, PlacedCounted, ReportsAboutPlaced, StuckIsOverdue,
              FreshIsLast, DialedIsSpared, OneLimit, Fresh, Spared, callVars, reportVars,
              Shape, TypeOK, InBatch
<1>6. CASE DispatchFaultAborted
  BY <1>6, SecondSame DEF DispatchFaultAborted, callVars, reportVars, Second, StuckIsOverdue,
                          NoBatch
<1> QED
  BY <1>1, <1>2, <1>3, <1>4, <1>5, <1>6

\* What it does with a row it dials keeps it.
LEMMA SecondDial ==
  ASSUME Shape, Second,
         \/ \E r \in Rows : DispatchCommit(r)
         \/ DispatchRewind \/ DialRefused \/ DialPlaced
         \/ DispatchFaultCompensated \/ DispatchFaultStranded
  PROVE  Second'
<1>0. pc # "sweep" /\ stuck = {} /\ pc' # "sweep" /\ stuck' = {}
  BY DEF DispatchCommit, DispatchRewind, DialRefused, DialPlaced, DispatchFaultCompensated,
         DispatchFaultStranded, Second, StuckIsOverdue
<1>1. ASSUME NEW r \in Rows, DispatchCommit(r) PROVE Second'
  <2>1. attempts[r] \in 0..Ceiling /\ batch[r] # "out" /\ attempts \in [Rows -> 0..Ceiling]
    BY <1>1 DEF DispatchCommit, Shape, TypeOK, InBatch
  <2>2. \A n \in 1..Ceiling : ~Fresh(r, n)
    BY <2>1 DEF Second, FreshIsLast, Spared
  <2>3. PlacedCounted'
    BY <1>1, <2>1, ConstantsAssumption
       DEF ConstantsAssumption, DispatchCommit, Second, PlacedCounted, callVars, Shape, TypeOK
  <2>4. FreshIsLast'
    BY <1>1, <2>2 DEF DispatchCommit, Second, FreshIsLast, Fresh, Spared, callVars, Shape, TypeOK
  <2>5. DialedIsSpared'
    BY <1>1 DEF DispatchCommit, DialedIsSpared, Spared, Shape, TypeOK
  <2> QED
    BY <1>0, <1>1, <2>3, <2>4, <2>5
       DEF DispatchCommit, Second, ReportsAboutPlaced, StuckIsOverdue, OneLimit, callVars,
           reportVars
<1>2. ASSUME NEW r \in Rows, dialing = r,
             DispatchRewind \/ DialRefused \/ DispatchFaultCompensated
      PROVE  Second'
  <2>1. /\ line' = line /\ overdue \ {<<r, attempts[r]>>} \subseteq overdue'
        /\ dialing' \notin Rows /\ limit' = limit /\ maxRetries' = maxRetries
        /\ reports' = reports /\ handling' = handling /\ batch' = batch
        /\ \A q \in Rows \ {r} : /\ clStatus'[q] = clStatus[q] /\ attempts'[q] = attempts[q]
                                 /\ lastCall'[q] = lastCall[q] /\ nextRetry'[q] = nextRetry[q]
        /\ attempts[r] \in 1..Ceiling /\ attempts'[r] \in {attempts[r], attempts[r] - 1}
    BY <1>2, ConstantsAssumption
       DEF ConstantsAssumption, DispatchRewind, DialRefused, DispatchFaultCompensated,
           DialingCall, RetryLater, callVars, reportVars, Shape, TypeOK, Phases
  <2>2. \A n \in 1..Ceiling : ~Fresh(r, n) /\ ~Fresh(r, n)'
    BY <1>2, <2>1 DEF Second, FreshIsLast, PlacedCounted, Fresh
  <2>3. PlacedCounted'
    BY <1>2, <2>1 DEF Second, PlacedCounted, Shape, TypeOK
  <2>4. FreshIsLast'
    BY <1>2, <2>1, <2>2 DEF Second, FreshIsLast, Fresh, Spared
  <2> QED
    BY <1>0, <2>1, <2>3, <2>4
       DEF Second, ReportsAboutPlaced, StuckIsOverdue, OneLimit, DialedIsSpared
<1>3. ASSUME NEW r \in Rows, dialing = r, DialPlaced \/ DispatchFaultStranded
      PROVE  Second'
  <2>1. /\ line' = line \/ line' = [line EXCEPT ![<<r, attempts[r]>>] = "live"]
        /\ rowVars' = rowVars /\ overdue' = overdue /\ batch' \in {batch, NoBatch}
        /\ dialing' \notin Rows /\ limit' = limit /\ maxRetries' = maxRetries
        /\ reports' = reports /\ handling' = handling
    BY <1>3, ConstantsAssumption
       DEF ConstantsAssumption, DialPlaced, DispatchFaultStranded, DialingCall, reportVars
  <2>2. /\ attempts[r] \in 1..Ceiling /\ <<r, attempts[r]>> \in Calls
        /\ line \in [Calls -> {"none", "live", "over"}]
    BY <1>3 DEF Shape, TypeOK, Phases, Calls
  <2>3. \A q \in Rows : Spared(q) => Spared(q)'
    BY <2>1 DEF Spared, rowVars, NoBatch
  <2>4. \A q \in Rows, n \in 1..Ceiling :
           <<q, n>> # <<r, attempts[r]>> => line'[<<q, n>>] = line[<<q, n>>]
    BY <2>1, <2>2 DEF Calls
  <2>5. PlacedCounted'
    BY <1>3, <2>1, <2>2, <2>4 DEF Second, PlacedCounted, rowVars, Shape, TypeOK
  <2>6. FreshIsLast'
    BY <1>3, <2>1, <2>3, <2>4 DEF Second, FreshIsLast, DialedIsSpared, Fresh, rowVars
  <2>7. ReportsAboutPlaced'
    BY <2>1, <2>2 DEF Second, ReportsAboutPlaced, Shape, TypeOK, Report, Handling
  <2> QED
    BY <1>0, <2>1, <2>5, <2>6, <2>7 DEF Second, StuckIsOverdue, OneLimit, DialedIsSpared
<1>4. \/ \E r \in Rows : DispatchCommit(r)
      \/ dialing \in Rows
    BY DEF DispatchRewind, DialRefused, DialPlaced, DispatchFaultCompensated,
           DispatchFaultStranded, Shape, Phases
<1> QED
  BY <1>1, <1>2, <1>3, <1>4
     DEF DispatchCommit, Shape, Phases

\* Calls that end, and reports about them, keep it.
LEMMA SecondCall == ASSUME Shape, Second, CallStep PROVE Second'
<1>1. ASSUME NEW c \in Calls, LineEnds(c) \/ EndCall(c) \/ \E ok \in BOOLEAN : HangupWebhook(c, ok)
      PROVE  Second'
  <2>1. /\ line' = line \/ line' = [line EXCEPT ![c] = "over"]
        /\ line[c] # "none" /\ line \in [Calls -> {"none", "live", "over"}]
        /\ handling' = handling
        /\ \A m \in reports' : m \in reports \/ m.call = c
        /\ rowVars' = rowVars /\ overdue' = overdue /\ workerVars' = workerVars
        /\ maxRetries' = maxRetries
    BY <1>1 DEF LineEnds, EndCall, HangupWebhook, reportVars, Shape, TypeOK
  <2>2. \A d \in Calls : /\ line'[d] = "none" <=> line[d] = "none"
                         /\ line'[d] = "live" => line[d] = "live"
    BY <2>1
  <2>3. \A r \in Rows : Spared(r)' <=> Spared(r)
    BY <2>1 DEF Spared, rowVars, workerVars
  <2>4. PlacedCounted' /\ FreshIsLast'
    BY <2>1, <2>2, <2>3
       DEF Second, PlacedCounted, FreshIsLast, Fresh, Calls, rowVars, workerVars
  <2>5. ReportsAboutPlaced'
    BY <2>1, <2>2 DEF Second, ReportsAboutPlaced, Shape, TypeOK, Report, Handling
  <2> QED
    BY <2>1, <2>3, <2>4, <2>5
       DEF Second, StuckIsOverdue, DialedIsSpared, OneLimit, rowVars, workerVars
<1>2. ASSUME NEW m \in reports, TakeReport(m) PROVE Second'
  <2>1. ReportsAboutPlaced'
    BY <1>2 DEF TakeReport, Second, ReportsAboutPlaced, callVars
  <2> QED
    BY <1>2, <2>1
       DEF TakeReport, Second, PlacedCounted, StuckIsOverdue, FreshIsLast, DialedIsSpared,
           OneLimit, Fresh, Spared, rowVars, callVars, workerVars
<1>3. ASSUME NEW h \in handling, ApplyReport(h) PROVE Second'
  <2> DEFINE q == h.call[1]
  <2>1. /\ q \in Rows /\ h.call[2] \in 1..Ceiling /\ h.call = <<q, h.call[2]>>
        /\ h.ok \in BOOLEAN
    BY DEF Shape, TypeOK, Handling, Calls
  <2>2. h.call[2] <= attempts[q]
    BY <2>1 DEF Second, PlacedCounted, ReportsAboutPlaced
  <2>3. /\ attempts' = attempts /\ lastCall' = lastCall /\ line' = line /\ overdue' = overdue
        /\ workerVars' = workerVars /\ maxRetries' = maxRetries /\ reports' = reports
        /\ handling' \subseteq handling
    BY <1>3 DEF ApplyReport, callVars
  <2>4. ASSUME NEW r \in Rows, Spared(r) PROVE Spared(r)'
    <3>1. CASE r # q
      BY <1>3, <2>1, <2>3, <2>4, <3>1
         DEF ApplyReport, RetryLater, Spared, workerVars, Shape, TypeOK
    <3>2. CASE r = q /\ h.ok
      BY <1>3, <2>1, <2>3, <2>4, <3>2
         DEF ApplyReport, RetryLater, Spared, workerVars, Shape, TypeOK
    <3>3. CASE r = q /\ ~h.ok
      <4>1. clStatus'[q] \in {clStatus[q], "failed"}
        BY <1>3, <2>1, <3>3 DEF ApplyReport, Shape, TypeOK
      <4>2. h.call[2] < maxRetries => nextRetry'[q] = "gap"
        BY <1>3, <2>1, <3>3 DEF ApplyReport, RetryLater, Shape, TypeOK
      <4>3. maxRetries = limit /\ limit \in Nat /\ attempts[q] \in Nat
        BY <2>1, ConstantsAssumption
           DEF ConstantsAssumption, Second, OneLimit, Shape, TypeOK
      <4>4. h.call[2] < maxRetries \/ attempts[q] >= limit
        BY <2>1, <2>2, <4>3
      <4> QED
        BY <2>3, <2>4, <3>3, <4>1, <4>2, <4>4 DEF Spared, workerVars
    <3> QED
      BY <2>1, <3>1, <3>2, <3>3
  <2> QED
    BY <2>3, <2>4
       DEF Second, PlacedCounted, ReportsAboutPlaced, StuckIsOverdue, FreshIsLast,
           DialedIsSpared, OneLimit, Fresh, workerVars
<1> QED
  BY <1>1, <1>2, <1>3 DEF CallStep

\* Users keep it as long as nobody changes the limit; so do clocks and a restart.
LEMMA SecondOthers ==
  ASSUME Shape, Second, RequestStep \/ TimeStep \/ Crash \/ UNCHANGED vars,
         maxRetries' = maxRetries
  PROVE  Second'
<1>1. ASSUME NEW r \in Rows, AssignLead(r) \/ AssignLeadBulk(r) PROVE Second'
  BY <1>1 DEF AssignLead, AssignLeadBulk, Second, PlacedCounted, ReportsAboutPlaced,
              StuckIsOverdue, FreshIsLast, DialedIsSpared, OneLimit, Fresh, Spared, callVars,
              reportVars, workerVars, Shape, TypeOK
<1>2. ASSUME NEW r \in Rows, MoveLead(r) \/ EditPhone(r) \/ DeleteLead(r)
                                  \/ BecomeOverdue(r)
      PROVE  Second'
  <2>1. /\ line' = line /\ overdue \subseteq overdue' /\ rowVars' = rowVars
        /\ workerVars' = workerVars /\ reports' = reports /\ handling' = handling
    BY <1>2 DEF MoveLead, EditPhone, DeleteLead, BecomeOverdue, callVars, reportVars
  <2> QED
    BY <2>1, SecondSame DEF workerVars, Second, StuckIsOverdue, Spared
<1>3. ASSUME NEW r \in Rows, RetryComesDue(r) PROVE Second'
  <2>1. /\ attempts' = attempts /\ lastCall' = lastCall /\ line' = line /\ overdue' = overdue
        /\ workerVars' = workerVars /\ reports' = reports /\ handling' = handling
        /\ clStatus' = clStatus /\ \A q \in Rows \ {r} : nextRetry'[q] = nextRetry[q]
    BY <1>3 DEF RetryComesDue, callVars, reportVars, Shape, TypeOK
  <2>2. ASSUME NEW q \in Rows, Spared(q), dialing = q \/ \E n \in 1..Ceiling : Fresh(q, n)
        PROVE  Spared(q)'
    <3>1. CASE q # r
      BY <2>1, <2>2, <3>1 DEF Spared, workerVars
    <3>2. CASE q = r
      <4>1. nextRetry[r] = "soon"
        BY <1>3, <2>2, <3>2 DEF RetryComesDue, Fresh, Calls
      <4> QED
        BY <2>1, <2>2, <3>2, <4>1 DEF Spared, workerVars
    <3> QED
      BY <3>1, <3>2
  <2> QED
    BY <2>1, <2>2
       DEF Second, PlacedCounted, ReportsAboutPlaced, StuckIsOverdue, FreshIsLast,
           DialedIsSpared, OneLimit, Fresh, workerVars
<1>4. CASE Crash
  BY <1>4, ConstantsAssumption
     DEF ConstantsAssumption, Crash, NoBatch, Second, PlacedCounted, ReportsAboutPlaced,
         StuckIsOverdue, FreshIsLast, DialedIsSpared, OneLimit, Fresh, Spared, rowVars
<1>5. ASSUME StartCampaign \/ PauseCampaign \/ StopCampaign \/ UpdateCampaign
             \/ OutboundCall \/ OutboundEnds \/ CleanupStale \/ UNCHANGED vars
      PROVE  Second'
  <2>1. /\ line' = line /\ overdue \subseteq overdue' /\ rowVars' = rowVars
        /\ workerVars' = workerVars /\ reports' = reports /\ handling' = handling
    BY <1>5 DEF StartCampaign, PauseCampaign, StopCampaign, UpdateCampaign, OutboundCall,
                OutboundEnds, CleanupStale, vars, callVars, reportVars
  <2> QED
    BY <2>1, SecondSame DEF workerVars, Second, StuckIsOverdue, Spared
<1> QED
  BY <1>1, <1>2, <1>3, <1>4, <1>5 DEF RequestStep, TimeStep

\* Two calls of one row that are both live: the earlier is not the last, so not fresh.
LEMMA SecondIsLate == Second => SecondCallOnlyAfterFiveMinutes
<1> SUFFICES ASSUME Second, NEW c \in Calls, NEW d \in Calls, c[1] = d[1], c[2] < d[2],
                    line[c] = "live", line[d] = "live"
             PROVE  c \in overdue
  BY DEF SecondCallOnlyAfterFiveMinutes
<1>1. PICK r \in Rows, n \in 1..Ceiling : c = <<r, n>>
  BY DEF Calls
<1>2. PICK m \in 1..Ceiling : d = <<r, m>>
  BY <1>1 DEF Calls
<1> QED
  BY <1>1, <1>2 DEF Second, PlacedCounted, FreshIsLast, Fresh

\* While max_retries is what it was when the campaign was made, nothing but the sweep
\* dials a lead that is on the phone: of two live calls of one lead, the older is over
\* five minutes old, for any number of attempts, faults, restarts and late reports.
THEOREM SecondCallIsLate ==
  ASSUME NEW m, RetryLimits = {m}
  PROVE  Spec => []SecondCallOnlyAfterFiveMinutes
<1>1. Init => Shape /\ Second
  BY ShapeInit, SecondInit
<1>2. Shape /\ Second /\ [Next]_vars => (Shape /\ Second)'
  <2> SUFFICES ASSUME Shape, Second, [Next]_vars PROVE Shape' /\ Second'
    OBVIOUS
  <2>1. Shape'
    BY ShapeStep
  <2>2. maxRetries' = maxRetries
    BY <2>1 DEF Shape, TypeOK
  <2> QED
    BY <2>1, <2>2, SecondCycle, SecondDial, SecondCall, SecondOthers DEF Next, WorkerStep
<1> QED
  BY <1>1, <1>2, SecondIsLate, PTL DEF Spec

-----------------------------------------------------------------------------
(* The campaign's counter.  It is a column of its own, moved with the       *)
(* attempts of one row at a time; that it stays their sum takes the facts   *)
(* about sums of SumTheorems.                                               *)

\* The attempts of the rows are naturals, and so is their sum.
LEMMA AttemptsSum ==
  ASSUME Shape
  PROVE  /\ IsFiniteSet(Rows) /\ \A r \in Rows : attempts[r] \in Nat
         /\ SumFunctionOnSet(attempts, Rows) \in Nat
         /\ \A r \in Rows : attempts[r] <= SumFunctionOnSet(attempts, Rows)
<1>1. IsFiniteSet(Rows) /\ \A r \in Rows : attempts[r] \in Nat
  BY RowsFinite DEF Shape, TypeOK
<1> QED
  BY <1>1, SumNat

\* Nothing is counted, and no row is charged, when the campaign is created.
LEMMA MadeInit == Init => MadeCountsAttempts
<1> SUFFICES ASSUME Init PROVE MadeCountsAttempts
  OBVIOUS
<1>1. IsFiniteSet(Rows) /\ \A r \in Rows : attempts[r] = 0
  BY RowsFinite DEF Init
<1>2. SumFunctionOnSet(attempts, Rows) = 0
  BY <1>1, SumZero
<1> QED
  BY <1>2 DEF Init, MadeCountsAttempts

\* The calling commit charges the row one attempt and the campaign one call.
LEMMA MadeCommit ==
  ASSUME Shape, Shape', MadeCountsAttempts, NEW r \in Rows, DispatchCommit(r)
  PROVE  MadeCountsAttempts'
<1>1. /\ callsMade' = callsMade + 1
      /\ attempts'[r] = attempts[r] + 1
      /\ \A q \in Rows \ {r} : attempts[q] = attempts'[q]
  BY DEF DispatchCommit, Shape, TypeOK
<1>2. /\ IsFiniteSet(Rows)
      /\ \A q \in Rows : attempts[q] \in Int /\ attempts'[q] \in Int
  BY RowsFinite DEF Shape, TypeOK
<1>3. SumFunctionOnSet(attempts', Rows)
         = SumFunctionOnSet(attempts, Rows) - attempts[r] + attempts'[r]
  BY <1>1, <1>2, SumChange
<1>4. SumFunctionOnSet(attempts, Rows) \in Nat /\ attempts[r] \in Nat
  BY AttemptsSum
<1> QED
  BY <1>1, <1>3, <1>4 DEF MadeCountsAttempts

\* The rewind takes both back.  Its guard against a negative counter never
\* applies: the row that is rewound has been charged.
LEMMA MadeRewind ==
  ASSUME Shape, Shape', MadeCountsAttempts, DispatchRewind
  PROVE  MadeCountsAttempts'
<1>1. dialing \in Rows /\ attempts[dialing] \in 1..Ceiling
  BY DEF DispatchRewind, Shape, Phases
<1>2. /\ attempts'[dialing] = attempts[dialing] - 1
      /\ \A q \in Rows \ {dialing} : attempts[q] = attempts'[q]
  BY <1>1 DEF DispatchRewind, Shape, TypeOK
<1>3. /\ IsFiniteSet(Rows)
      /\ \A q \in Rows : attempts[q] \in Int /\ attempts'[q] \in Int
  BY RowsFinite DEF Shape, TypeOK
<1>4. SumFunctionOnSet(attempts', Rows)
         = SumFunctionOnSet(attempts, Rows) - attempts[dialing] + attempts'[dialing]
  BY <1>1, <1>2, <1>3, SumChange
<1>5. /\ SumFunctionOnSet(attempts, Rows) \in Nat
      /\ attempts[dialing] <= SumFunctionOnSet(attempts, Rows)
  BY <1>1, AttemptsSum
<1>6. callsMade > 0
  BY <1>1, <1>5 DEF MadeCountsAttempts
<1>7. callsMade' = callsMade - 1
  BY <1>6 DEF DispatchRewind, Refund
<1> QED
  BY <1>1, <1>2, <1>4, <1>5, <1>7 DEF MadeCountsAttempts

\* No other step moves the counter or an attempt.
LEMMA MadeOthers ==
  ASSUME [Next]_vars, ~DispatchRewind, \A r \in Rows : ~DispatchCommit(r)
  PROVE  callsMade' = callsMade /\ attempts' = attempts
<1> USE DEF rowVars, callVars, reportVars, workerVars, boundVars
<1>1. CASE WorkerStep
  BY <1>1 DEF WorkerStep, BeginCycle, RecoverStuck, NoSlots, PauseForMissingAgent, SelectBatch,
              CheckCompletion, EndCycle, DispatchUnavailable, DialRefused, DialPlaced,
              DispatchFaultCompensated, DispatchFaultStranded, DispatchFaultAborted
<1>2. CASE RequestStep
  BY <1>2 DEF RequestStep, AssignLead, AssignLeadBulk, MoveLead, EditPhone, DeleteLead,
              StartCampaign, PauseCampaign, StopCampaign, UpdateCampaign, OutboundCall, OutboundEnds
<1>3. CASE CallStep
  BY <1>3 DEF CallStep, LineEnds, EndCall, HangupWebhook, TakeReport, ApplyReport
<1>4. CASE TimeStep \/ Crash
  BY <1>4 DEF TimeStep, BecomeOverdue, RetryComesDue, CleanupStale, Crash
<1>5. CASE UNCHANGED vars
  BY <1>5 DEF vars
<1> QED
  BY <1>1, <1>2, <1>3, <1>4, <1>5 DEF Next

\* calls_made is the sum of the attempts charged to the campaign's rows, for any
\* number of rows: a rewind, a fault or a restart between the calling commit and
\* the dial never leaves one without the other.
THEOREM CallsMadeIsTheSum == Spec => []MadeCountsAttempts
<1>1. Init => Shape /\ MadeCountsAttempts
  BY ShapeInit, MadeInit
<1>2. Shape /\ MadeCountsAttempts /\ [Next]_vars => (Shape /\ MadeCountsAttempts)'
  <2> SUFFICES ASSUME Shape, MadeCountsAttempts, [Next]_vars
               PROVE  Shape' /\ MadeCountsAttempts'
    OBVIOUS
  <2>1. Shape'
    BY ShapeStep
  <2>2. CASE DispatchRewind \/ \E r \in Rows : DispatchCommit(r)
    BY <2>1, <2>2, MadeCommit, MadeRewind
  <2>3. CASE ~(DispatchRewind \/ \E r \in Rows : DispatchCommit(r))
    <3>1. callsMade' = callsMade /\ attempts' = attempts
      BY <2>3, MadeOthers
    <3> QED
      BY <2>1, <3>1 DEF MadeCountsAttempts
  <2> QED
    BY <2>1, <2>2, <2>3
<1> QED
  BY <1>1, <1>2, PTL DEF Spec
=============================================================================
