------------------------------- MODULE Intake -------------------------------
(***************************************************************************)
(* Where leads come from: the entries by hand, file and website, and the   *)
(* queue of Meta's webhooks.  The two share no state here, so a behaviour  *)
(* is one of one of them, chosen at the start; the variables of the other  *)
(* stay at their start.                                                    *)
(***************************************************************************)
EXTENDS LeadEntry

-----------------------------------------------------------------------------
(* The queue, with its constants and its variables.                        *)

CONSTANTS
    Events, NoEvent, Workers, Addresses, Blank, Phone, Email, Target, Sourceless, Entered,
    MaxAttempts, BatchSize, MaxDeliveries, MaxCrashes, MaxFaults

VARIABLES
    acked, tasks, status, attempts, due, batch, current, step, avStep, created,
    people, deliveries, crashes, faults

queueState == <<acked, tasks, status, attempts, due, batch, current, step, avStep, created,
                people, deliveries, crashes, faults>>

Queue == INSTANCE MetaQueue

ASSUME QueueConstants == Queue!ConstantsAssumption

-----------------------------------------------------------------------------
VARIABLE which

IntakeInit == which \in {"queue", "entry"} /\ Init /\ Queue!Init

IntakeNext ==
    /\ UNCHANGED which
    /\ \/ which = "queue" /\ Queue!Next /\ UNCHANGED vars
       \/ which = "entry" /\ Next /\ UNCHANGED queueState

IntakeVars == <<which, vars, queueState>>

IntakeSpec == IntakeInit /\ [][IntakeNext]_IntakeVars

\* MetaQueue's OneLeadPerEvent: an event makes one lead at most.
OneLeadPerEvent == Queue!OneLeadPerEvent
=============================================================================
