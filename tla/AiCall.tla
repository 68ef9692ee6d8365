------------------------------- MODULE AiCall -------------------------------
(***************************************************************************)
(* A call of the AI agent: the conversation over the media stream, and how *)
(* the end of the call is accounted for by the webhook, the end button and *)
(* their background tasks.  All the end takes from the conversation is     *)
(* whether a turn was recorded (spoke) and how long the call took (age),   *)
(* both left open in CallTeardown: it is looked at here with the           *)
(* conversation's variables at their start.                                *)
(***************************************************************************)
EXTENDS VoiceConversation

-----------------------------------------------------------------------------
(* The end of the call.  What it has in common with the conversation by    *)
(* name is named anew.                                                     *)

CONSTANTS MaxHangups, MaxEnds, MaxCrashes, MaxErrors

VARIABLES
    carrier, pickedUp, age, stored, spoke, status, duration, ringWrite, answerWrite,
    hanging, ending, summaries, successes, failures, row, connected, uncompleted,
    hangups, ends, crashes, errors

End == INSTANCE CallTeardown WITH
    MaxFaults <- MaxErrors, line <- carrier, answered <- pickedUp, held <- stored,
    failed <- uncompleted, faults <- errors

ASSUME EndConstants == End!ConstantsAssumption

callState == <<vars, End!vars>>

EndInit == Init /\ End!Init

EndNext == End!Next /\ UNCHANGED vars

EndSpec == EndInit /\ [][EndNext]_callState

FairEndSpec == EndSpec /\ End!Fairness

-----------------------------------------------------------------------------
(* CallTeardown's properties.                                              *)

\* No end of a call is both summarised and reported: the campaign's counters do not run
\* ahead of the hangup webhooks and the presses of the end button.
CountsBounded == End!CountsBounded

\* A hangup webhook takes the campaign's row out of "calling".
SettledAfterHangup == End!SettledAfterHangup

\* The state of a call does not stay in memory.
StateReleased == End!StateReleased
=============================================================================
