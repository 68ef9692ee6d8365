------------------------- MODULE VoiceConversation -------------------------
(***************************************************************************)
(* One call of the AI agent, second by second: the request that dials      *)
(* (voice.py, initiate_outbound_call), the answer webhook, and the         *)
(* WebSocket handler that listens to the caller, has a turn answered       *)
(* sentence by sentence (voice_engine/pipeline.py, llm_service.py) and     *)
(* sends the audio to Plivo, with the tasks it starts: the timers that     *)
(* clear the flag "the agent is speaking", the silence watchdog and the    *)
(* delayed hang-up.  They share the call's CallState in one event loop, so *)
(* what happens between two awaits is one step.                            *)
(*                                                                         *)
(* The handler reads no frame of the caller while a turn is being answered *)
(* or the greeting is awaited.  Time is a Tick of a second; a wait for     *)
(* speech recognition, the LLM or a voice takes any number of them.  How   *)
(* the call's end is accounted for is CallTeardown's subject.              *)
(***************************************************************************)
EXTENDS Integers, Sequences

CONSTANTS
    WelcomeLength,   \* seconds of audio: the greeting,
    FillerLength,    \* the sound that bridges the wait for the LLM,
    SentenceLength,  \* a sentence of an answer,
    NudgeLength,     \* and what the watchdog says
    MaxSentences,    \* bound: sentences of an answer
    Period,          \* seconds between two looks of the watchdog
    Silence,         \* hangup_on_silence_seconds
    MaxHistory,      \* MAX_HISTORY
    MaxTurns,        \* bound: turns of the caller
    MaxBarges,       \* bound: interruptions
    MaxFaults        \* bound: refused hang-ups and dropped streams

ASSUME ConstantsAssumption ==
    /\ {WelcomeLength, FillerLength, SentenceLength, NudgeLength} \subseteq Nat \ {0}
    /\ MaxSentences \in Nat /\ Period \in Nat \ {0} /\ Silence \in Nat \ {0}
    /\ MaxHistory \in Nat /\ MaxHistory >= 2
    /\ MaxTurns \in Nat /\ MaxBarges \in Nat /\ MaxFaults \in Nat

VARIABLES
    line,       \* the carrier's side: "none", "ringing", "up", "over"
    held,       \* the CallStateManager has the call's state
    pc,         \* where the WebSocket handler is
    speaking,   \* state.is_agent_speaking
    timers,     \* seconds left to each _reset_speaking_flag task
    playing,    \* seconds of audio Plivo has not played yet
    was,        \* the handler's was_agent_speaking
    words,      \* its buffer holds enough speech for a turn
    greeted,    \* the start event was handled
    total,      \* total_duration: seconds sent in this turn
    said,       \* sentences the LLM has finished in this turn
    bye,        \* [END_CALL] was among them
    turn,       \* turns of the caller so far
    history,    \* state.conversation_history: <<role, turn>>
    segments,   \* state.transcript_segments: turns
    wd,         \* where the watchdog is
    wdLeft,     \* seconds it still sleeps
    idle,       \* seconds since last_media_ts, up to Silence
    prompted,   \* it has nudged the caller
    late,       \* the idle time it read was Silence
    hangAt,     \* seconds left to each _delayed_hangup task
    nudged,     \* history: the watchdog has spoken
    barges, faults    \* bound counters

callVars == <<line, held>>
audioVars == <<speaking, timers, playing>>
earVars == <<was, words, greeted>>
turnVars == <<total, said, bye, turn>>
textVars == <<history, segments>>
dogVars == <<wd, wdLeft, idle, prompted, late, nudged>>
boundVars == <<barges, faults>>
vars == <<callVars, pc, audioVars, earVars, turnVars, textVars, dogVars, hangAt, boundVars>>

Roles == {"user", "assistant"}
Places == {"off", "receive", "greet", "stt", "filler", "llm", "batch", "closed"}

TypeOK ==
    /\ line \in {"none", "ringing", "up", "over"} /\ held \in BOOLEAN
    /\ pc \in Places
    /\ speaking \in BOOLEAN /\ timers \subseteq Nat \ {0} /\ playing \in Nat
    /\ was \in BOOLEAN /\ words \in BOOLEAN /\ greeted \in BOOLEAN
    /\ total \in Nat /\ said \in 0..MaxSentences /\ bye \in BOOLEAN /\ turn \in 0..MaxTurns
    /\ history \in Seq(Roles \X (0..MaxTurns)) /\ segments \in Seq(1..MaxTurns)
    /\ wd \in {"off", "sleep", "nudge", "final", "rest", "hang"} /\ wdLeft \in Nat
    /\ idle \in 0..Silence /\ prompted \in BOOLEAN /\ late \in BOOLEAN
    /\ nudged \in BOOLEAN /\ hangAt \subseteq Nat
    /\ barges \in 0..MaxBarges /\ faults \in 0..MaxFaults

\* The request has stored the attempt and made the call's state; the greeting is
\* being synthesized in the background, with or without success.
Init ==
    /\ line = "none" /\ held = TRUE /\ pc = "off"
    /\ speaking = FALSE /\ timers = {} /\ playing = 0
    /\ was = FALSE /\ words = FALSE /\ greeted = FALSE
    /\ total = 0 /\ said = 0 /\ bye = FALSE /\ turn = 0
    /\ history = <<>> /\ segments = <<>>
    /\ wd = "off" /\ wdLeft = 0 /\ idle = 0 /\ prompted = FALSE /\ late = FALSE
    /\ nudged = FALSE /\ hangAt = {}
    /\ barges = 0 /\ faults = 0

-----------------------------------------------------------------------------
(* Placing and answering the call.                                         *)

DialAccepted ==
    /\ line = "none" /\ held
    /\ line' = "ringing"
    /\ UNCHANGED <<held, pc, audioVars, earVars, turnVars, textVars, dogVars, hangAt, boundVars>>

\* Plivo refuses: the state is removed and the user told.
DialRefused ==
    /\ line = "none" /\ held
    /\ held' = FALSE /\ line' = "over" /\ pc' = "closed"
    /\ UNCHANGED <<audioVars, earVars, turnVars, textVars, dogVars, hangAt, boundVars>>

\* The answer webhook found the agent, and Plivo opens the stream.  The stream is
\* closed at once when the call's state is gone; the call itself goes on.
Answer ==
    /\ line = "ringing"
    /\ line' = "up"
    /\ IF held THEN /\ pc' = "receive" /\ wd' = "sleep" /\ wdLeft' = Period /\ idle' = 0
               ELSE /\ pc' = "closed" /\ UNCHANGED <<wd, wdLeft, idle>>
    /\ UNCHANGED <<held, audioVars, earVars, turnVars, textVars, prompted, late, nudged,
                   hangAt, boundVars>>

\* The agent cannot be looked up: one sentence of Plivo's own voice, and the end.
AnswerWithoutAgent ==
    /\ line = "ringing"
    /\ line' = "over" /\ pc' = "closed"
    /\ UNCHANGED <<held, audioVars, earVars, turnVars, textVars, dogVars, hangAt, boundVars>>

-----------------------------------------------------------------------------
(* What the handler does with audio.                                       *)

\* _send_audio_response, as far as the flag and Plivo's queue go.
Play(seconds) ==
    /\ playing' = playing + seconds
    /\ speaking' = TRUE

\* ... with auto_reset.
PlayAndReset(seconds) ==
    /\ Play(seconds)
    /\ timers' = timers \cup {seconds}

\* The start event: the handler waits for the greeting, two seconds at the most.
Start ==
    /\ pc = "receive" /\ line = "up" /\ ~greeted
    /\ pc' = "greet" /\ greeted' = TRUE
    /\ UNCHANGED <<callVars, audioVars, was, words, turnVars, textVars, dogVars, hangAt, boundVars>>

\* It is played as the dialling request has prepared it, or synthesized now.
Greet ==
    /\ pc = "greet" /\ line = "up"
    /\ PlayAndReset(WelcomeLength)
    /\ pc' = "receive"
    /\ UNCHANGED <<callVars, earVars, turnVars, textVars, dogVars, hangAt, boundVars>>

\* Neither worked, or the line is gone: logged.
GreetFails ==
    /\ pc = "greet"
    /\ pc' = "receive"
    /\ UNCHANGED <<callVars, audioVars, earVars, turnVars, textVars, dogVars, hangAt, boundVars>>

\* Frames of the caller's side are read; Plivo sends its start event first.
Reading == pc = "receive" /\ line = "up" /\ greeted

\* A frame comes in while the flag is up: nothing is buffered.
HearOver ==
    /\ Reading /\ speaking
    /\ was' = TRUE /\ idle' = 0
    /\ UNCHANGED <<callVars, pc, audioVars, words, greeted, turnVars, textVars, wd, wdLeft, prompted,
                   late, nudged, hangAt, boundVars>>

\* Enough frames of speech: Plivo's queue is cleared and the caller's turn begins.
\* The timers of the audio that was cleared are left running.
BargeIn ==
    /\ Reading /\ speaking /\ barges < MaxBarges
    /\ playing' = 0 /\ speaking' = FALSE
    /\ was' = FALSE /\ words' = TRUE /\ idle' = 0
    /\ barges' = barges + 1
    /\ UNCHANGED <<callVars, pc, timers, greeted, turnVars, textVars, wd, wdLeft, prompted, late,
                   nudged, hangAt, faults>>

\* A frame of speech or of silence while the flag is down.  The first one after the
\* agent spoke empties the buffer before it is taken in.
Hear ==
    /\ Reading /\ ~speaking
    /\ words' \in {words /\ ~was, TRUE}
    /\ was' = FALSE /\ idle' = 0
    /\ UNCHANGED <<callVars, pc, audioVars, greeted, turnVars, textVars, wd, wdLeft, prompted, late,
                   nudged, hangAt, boundVars>>

\* Enough silence after enough speech: the turn is handed to the pipeline.
EndOfTurn ==
    /\ Reading /\ ~speaking /\ words /\ ~was /\ turn < MaxTurns
    /\ pc' = "stt" /\ words' = FALSE /\ idle' = 0
    /\ turn' = turn + 1 /\ total' = 0 /\ said' = 0 /\ bye' = FALSE
    /\ UNCHANGED <<callVars, audioVars, was, greeted, textVars, wd, wdLeft, prompted, late, nudged,
                   hangAt, boundVars>>

-----------------------------------------------------------------------------
(* A turn: process_audio_streaming, and the loop that plays what it yields. *)

\* Variants: the timer is set for the last piece only; not after an error.
ResetAfterLast(sent, failed) == IF sent > 0 THEN timers \cup {SentenceLength} ELSE timers
ResetUnlessFailed(sent, failed) == IF sent > 0 /\ ~failed THEN timers \cup {sent} ELSE timers

\* One reset is scheduled for all the audio of the turn, however the turn ended.
ResetAfter(sent, failed) == IF sent > 0 THEN timers \cup {sent} ELSE timers

\* The turn is over without having been recorded.
Leave(failed) ==
    /\ pc' = "receive"
    /\ timers' = ResetAfter(total, failed)
    /\ total' = 0 /\ said' = 0 /\ bye' = FALSE
    /\ UNCHANGED <<callVars, speaking, playing, earVars, turn, textVars, dogVars, hangAt, boundVars>>

\* No transcript, or the call's state is gone.
NoReply ==
    /\ pc = "stt"
    /\ Leave(FALSE)

Transcribed ==
    /\ pc = "stt" /\ held
    /\ pc' = "filler"
    /\ UNCHANGED <<callVars, audioVars, earVars, turnVars, textVars, dogVars, hangAt, boundVars>>

\* Before the LLM is asked, an empty history is given the greeting.
WithGreeting == IF history = <<>> THEN << <<"assistant", 0>> >> ELSE history

FillerPlays ==
    /\ pc = "filler" /\ line = "up"
    /\ Play(FillerLength) /\ total' = FillerLength
    /\ pc' = "llm" /\ history' = WithGreeting
    /\ UNCHANGED <<callVars, timers, earVars, said, bye, turn, segments, dogVars, hangAt, boundVars>>

NoFiller ==
    /\ pc = "filler"
    /\ pc' = "llm" /\ history' = WithGreeting
    /\ UNCHANGED <<callVars, audioVars, earVars, turnVars, segments, dogVars, hangAt, boundVars>>

\* The test at every piece the pipeline yields: the flag was cleared meanwhile.
Cut == ~speaking /\ total > 0

CutOff ==
    /\ pc \in {"llm", "batch"} /\ Cut
    /\ Leave(FALSE)

\* The piece cannot be sent any more.
SendFails ==
    /\ pc \in {"filler", "llm", "batch"} /\ line = "over"
    /\ Leave(TRUE)

\* The LLM finishes a sentence, perhaps with the tag that ends the call; it is
\* voiced and played, or its voice fails and it is passed over.
Sentence ==
    /\ pc = "llm" /\ line = "up" /\ said < MaxSentences
    /\ said' = said + 1 /\ bye' \in {bye, TRUE}
    /\ \/ /\ ~Cut
          /\ Play(SentenceLength) /\ total' = total + SentenceLength
       \/ UNCHANGED <<speaking, playing, total>>
    /\ UNCHANGED <<callVars, pc, timers, earVars, turn, textVars, dogVars, hangAt, boundVars>>

\* The stream of the LLM breaks: the whole answer is asked for again.
StreamBreaks ==
    /\ pc = "llm"
    /\ pc' = "batch"
    /\ UNCHANGED <<callVars, audioVars, earVars, turnVars, textVars, dogVars, hangAt, boundVars>>

\* Variant: the newest entry is dropped when there are too many.
TrimNewest(entries) ==
    IF Len(entries) <= MaxHistory THEN entries ELSE SubSeq(entries, 1, MaxHistory)

\* add_turn keeps the greeting and the most recent entries.
Trim(entries) ==
    IF Len(entries) <= MaxHistory THEN entries
    ELSE IF entries[1][1] = "assistant"
         THEN <<entries[1]>> \o SubSeq(entries, Len(entries) - MaxHistory + 2, Len(entries))
         ELSE SubSeq(entries, Len(entries) - MaxHistory + 1, Len(entries))

\* After its last piece the turn is recorded, unless the answer is empty; then its
\* end is yielded, and the tag is noticed unless the turn counts as cut.
Finish(answered, more, last) ==
    /\ IF answered
       THEN /\ history' = Trim(history \o << <<"user", turn>>, <<"assistant", turn>> >>)
            /\ segments' = Append(segments, turn)
       ELSE UNCHANGED textVars
    /\ IF more > 0 THEN Play(more) ELSE UNCHANGED <<speaking, playing>>
    /\ LET sent == total + more IN
          /\ timers' = ResetAfter(sent, FALSE)
          /\ hangAt' = IF last /\ (sent = 0 \/ speaking') THEN hangAt \cup {sent + 1} ELSE hangAt
    /\ pc' = "receive" /\ total' = 0 /\ said' = 0 /\ bye' = FALSE
    /\ UNCHANGED <<callVars, earVars, turn, dogVars, boundVars>>

\* The LLM is done, perhaps without having said a thing.
StreamDone ==
    /\ pc = "llm"
    /\ Finish(said > 0, 0, bye)

\* The second answer comes in one piece, or has no voice, or is empty.
BatchDone ==
    /\ pc = "batch"
    /\ \/ /\ line = "up" /\ ~Cut
          /\ \E last \in {bye, TRUE} : Finish(TRUE, SentenceLength, last)
       \/ \E answered \in BOOLEAN : Finish(answered, 0, bye)

\* Asking again raises.
BatchRaises ==
    /\ pc = "batch"
    /\ Leave(TRUE)

-----------------------------------------------------------------------------
(* The silence watchdog.                                                   *)

Sleep ==
    /\ wd' = "sleep" /\ wdLeft' = Period

Awake == wd = "sleep" /\ wdLeft = 0

\* While the agent speaks the idle time starts over.
WatchSpeech ==
    /\ Awake /\ speaking
    /\ Sleep /\ idle' = 0 /\ prompted' = FALSE
    /\ UNCHANGED <<callVars, pc, audioVars, earVars, turnVars, textVars, late, nudged, hangAt, boundVars>>

\* Half of the budget is used: the caller is asked whether they are there.
WatchHalf ==
    /\ Awake /\ ~speaking /\ ~prompted /\ 2 * idle >= Silence
    /\ wd' = "nudge" /\ prompted' = TRUE /\ late' = (idle = Silence)
    /\ UNCHANGED <<callVars, pc, audioVars, earVars, turnVars, textVars, wdLeft, idle, nudged, hangAt,
                   boundVars>>

\* All of it: the last words.
WatchEnd ==
    /\ Awake /\ ~speaking /\ prompted /\ idle = Silence
    /\ wd' = "final"
    /\ UNCHANGED <<callVars, pc, audioVars, earVars, turnVars, textVars, wdLeft, idle, prompted, late,
                   nudged, hangAt, boundVars>>

WatchQuiet ==
    /\ Awake /\ ~speaking
    /\ 2 * idle < Silence \/ (prompted /\ idle < Silence)
    /\ Sleep
    /\ UNCHANGED <<callVars, pc, audioVars, earVars, turnVars, textVars, idle, prompted, late, nudged,
                   hangAt, boundVars>>

\* The nudge is sent, or is empty or fails; then the idle time read before decides.
Nudge ==
    /\ wd = "nudge"
    /\ \/ /\ line = "up" /\ PlayAndReset(NudgeLength) /\ nudged' = TRUE
       \/ UNCHANGED <<audioVars, nudged>>
    /\ IF late THEN wd' = "final" /\ UNCHANGED wdLeft ELSE Sleep
    /\ late' = FALSE
    /\ UNCHANGED <<callVars, pc, earVars, turnVars, textVars, idle, prompted, hangAt, boundVars>>

Final ==
    /\ wd = "final"
    /\ \/ /\ line = "up" /\ PlayAndReset(NudgeLength) /\ nudged' = TRUE
          /\ wd' = "rest" /\ wdLeft' = NudgeLength
       \/ /\ wd' = "hang" /\ UNCHANGED <<audioVars, nudged, wdLeft>>
    /\ UNCHANGED <<callVars, pc, earVars, turnVars, textVars, idle, prompted, late, hangAt, boundVars>>

RestEnds ==
    /\ wd = "rest" /\ wdLeft = 0
    /\ wd' = "hang"
    /\ UNCHANGED <<callVars, pc, audioVars, earVars, turnVars, textVars, wdLeft, idle, prompted, late,
                   nudged, hangAt, boundVars>>

\* hangup_call: Plivo ends the call, or it fails and is logged.
HangUp ==
    \/ line' = "over" /\ UNCHANGED faults
    \/ faults < MaxFaults /\ faults' = faults + 1 /\ UNCHANGED line

\* The watchdog is over, and what it counted with it.
WatchOver == wd' = "off" /\ wdLeft' = 0 /\ idle' = 0 /\ prompted' = FALSE /\ late' = FALSE

WatchHangsUp ==
    /\ wd = "hang"
    /\ HangUp
    /\ WatchOver
    /\ UNCHANGED <<held, pc, audioVars, earVars, turnVars, textVars, nudged, hangAt, barges>>

\* The delayed hang-up after [END_CALL].
EndCallHangsUp ==
    /\ 0 \in hangAt
    /\ hangAt' = hangAt \ {0}
    /\ HangUp
    /\ UNCHANGED <<held, pc, audioVars, earVars, turnVars, textVars, dogVars, barges>>

-----------------------------------------------------------------------------
(* The other ends of a call, and time.                                     *)

\* The caller hangs up, nobody answers, or the time limit passes.
LineEnds ==
    /\ line \in {"ringing", "up"}
    /\ line' = "over"
    /\ pc' = IF pc = "off" THEN "closed" ELSE pc
    /\ UNCHANGED <<held, audioVars, earVars, turnVars, textVars, dogVars, hangAt, boundVars>>

\* The hangup webhook, or a user who ends the call: Plivo may refuse that one.
StateRemoved ==
    /\ held /\ line \in {"up", "over"}
    /\ held' = FALSE
    /\ UNCHANGED <<line, pc, audioVars, earVars, turnVars, textVars, dogVars, hangAt, boundVars>>

\* The handler's last steps: the watchdog is cancelled, wherever it waits.
CloseStream ==
    /\ pc' = "closed" /\ WatchOver
    /\ was' = FALSE /\ words' = FALSE
    /\ UNCHANGED <<callVars, audioVars, greeted, turnVars, textVars, nudged, hangAt, barges>>

StreamEnds ==
    /\ pc = "receive" /\ line = "over"
    /\ CloseStream /\ UNCHANGED faults

\* No media for thirty seconds, or the connection breaks: the call goes on alone.
StreamDrops ==
    /\ pc = "receive" /\ line = "up" /\ faults < MaxFaults
    /\ CloseStream /\ faults' = faults + 1

\* A second passes.  Frames keep coming while the handler reads them.
Tick ==
    /\ line \in {"up", "over"}
    /\ wd \in {"sleep", "rest"} => wdLeft > 0
    /\ 0 \notin hangAt
    /\ playing' = IF playing > 0 THEN playing - 1 ELSE 0
    /\ timers' = {t - 1 : t \in timers} \ {0}
    /\ speaking' = (speaking /\ 1 \notin timers)
    /\ wdLeft' = IF wd \in {"sleep", "rest"} THEN wdLeft - 1 ELSE wdLeft
    /\ idle' = IF wd = "off" \/ (pc = "receive" /\ line = "up") THEN 0
               ELSE IF idle < Silence THEN idle + 1 ELSE idle
    /\ hangAt' = {t - 1 : t \in hangAt}
    /\ UNCHANGED <<callVars, pc, earVars, turnVars, textVars, wd, prompted, late, nudged, boundVars>>

-----------------------------------------------------------------------------
EarStep == HearOver \/ BargeIn \/ Hear \/ EndOfTurn

ReplyStep ==
    \/ Start \/ Greet \/ GreetFails
    \/ NoReply \/ Transcribed \/ FillerPlays \/ NoFiller \/ CutOff \/ SendFails
    \/ Sentence \/ StreamBreaks \/ StreamDone \/ BatchDone \/ BatchRaises
    \/ StreamEnds

WatchStep ==
    \/ WatchSpeech \/ WatchHalf \/ WatchEnd \/ WatchQuiet
    \/ Nudge \/ Final \/ RestEnds \/ WatchHangsUp

Next ==
    \/ DialAccepted \/ DialRefused \/ Answer \/ AnswerWithoutAgent
    \/ EarStep \/ ReplyStep \/ WatchStep \/ EndCallHangsUp
    \/ LineEnds \/ StateRemoved \/ StreamDrops \/ Tick

Spec == Init /\ [][Next]_vars

(***************************************************************************)
(* Fairness: time passes, and what the handler, the watchdog and the       *)
(* delayed hang-up wait for comes back, for every request of theirs has a  *)
(* time-out.  Nothing makes a caller speak or a call end.                  *)
(***************************************************************************)
Fairness ==
    WF_vars(Tick) /\ WF_vars(ReplyStep) /\ WF_vars(WatchStep) /\ WF_vars(EndCallHangsUp)

FairSpec == Spec /\ Fairness

-----------------------------------------------------------------------------
(* Properties.                                                             *)

\* What was recorded of the call, and the last n entries of it.
Spoken ==
    [i \in 1..2 * Len(segments) |->
        <<IF i % 2 = 1 THEN "user" ELSE "assistant", segments[(i + 1) \div 2]>>]

Latest(n) == SubSeq(Spoken, 2 * Len(segments) - n + 1, 2 * Len(segments))

\* What the LLM is given is the greeting and then the latest of what was recorded of
\* this call, in order and without a gap: all of it, or as much as MAX_HISTORY allows.
HistoryIsRecent ==
    IF history = <<>> THEN segments = <<>>
    ELSE \E n \in 0..2 * Len(segments) :
             /\ n < MaxHistory /\ (n = MaxHistory - 1 \/ n = 2 * Len(segments))
             /\ history = << <<"assistant", 0>> >> \o Latest(n)

\* Until the caller interrupts or the watchdog speaks, the flag is up as long as the
\* caller hears the agent, and no answer is cut off.
FlagFollowsAudio ==
    barges = 0 /\ ~nudged => /\ playing > 0 => speaking
                             /\ ~(pc \in {"llm", "batch"} /\ Cut)

\* What the parts of a conversation go by is what was said and what is heard.
ConversationHolds == HistoryIsRecent /\ FlagFollowsAudio

\* The agent does not stay deaf: whatever becomes of a turn, the flag that keeps the
\* caller's words out is cleared again.
AgentListensAgain == speaking ~> ~speaking

-----------------------------------------------------------------------------
(* What comments and docstrings say and the code does not do.              *)

\* "if user interrupted during this turn's playback, stop sending": as no frame is
\* read while a turn is answered, no answer is ever to be cut off.
CutIsAnInterruption == ~(pc \in {"llm", "batch"} /\ Cut)

\* "Reset is_agent_speaking after the playback": the flag is up while audio plays.
EchoGuard == playing > 0 => speaking
=============================================================================
