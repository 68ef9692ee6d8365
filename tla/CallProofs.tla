----------------------------- MODULE CallProofs -----------------------------
(***************************************************************************)
(* Theorems about a call of the AI agent.  About its conversation          *)
(* (VoiceConversation), for any lengths of audio and any number of turns,  *)
(* interruptions and faults: what the LLM is given is recent, and the flag *)
(* that keeps the agent's echo out follows its audio.  About how its end   *)
(* is accounted for (CallTeardown), for any number of hangup webhooks,     *)
(* presses of the end button, restarts and faults: the campaign's counters *)
(* never run ahead of what was said about the end of the call.             *)
(***************************************************************************)
EXTENDS AiCall, SequenceTheorems, TLAPS

-----------------------------------------------------------------------------
(* The types, and where the handler can be.                                *)

\* What a turn finds: the call was answered and the greeting asked for before the
\* handler listens, a turn has its number, and the LLM is asked with a history.
PlaceKnown ==
    /\ line \in {"none", "ringing"} => pc = "off"
    /\ ~greeted => pc \in {"off", "receive", "closed"}
    /\ pc \in {"stt", "filler", "llm", "batch"} => turn > 0
    /\ pc \in {"llm", "batch"} => history # <<>>

FlagTypes ==
    /\ held \in BOOLEAN /\ speaking \in BOOLEAN
    /\ was \in BOOLEAN /\ words \in BOOLEAN /\ greeted \in BOOLEAN /\ bye \in BOOLEAN
    /\ prompted \in BOOLEAN /\ late \in BOOLEAN /\ nudged \in BOOLEAN

CallTypes ==
    /\ line \in {"none", "ringing", "up", "over"} /\ pc \in Places
    /\ barges \in 0..MaxBarges /\ faults \in 0..MaxFaults

AudioTypes ==
    timers \subseteq Nat \ {0} /\ playing \in Nat /\ total \in Nat /\ hangAt \subseteq Nat

TurnTypes == said \in 0..MaxSentences /\ turn \in 0..MaxTurns

TextTypes == history \in Seq(Roles \X (0..MaxTurns)) /\ segments \in Seq(1..MaxTurns)

DogTypes ==
    /\ wd \in {"off", "sleep", "nudge", "final", "rest", "hang"} /\ wdLeft \in Nat
    /\ idle \in 0..Silence

\* The parts of the type invariant.
LEMMA TypeParts ==
    TypeOK <=> FlagTypes /\ CallTypes /\ AudioTypes /\ TurnTypes /\ TextTypes /\ DogTypes
  BY DEF TypeOK, FlagTypes, CallTypes, AudioTypes, TurnTypes, TextTypes, DogTypes

\* The request that dials.
LEMMA TypeInit == Init => TypeOK /\ PlaceKnown
<1> SUFFICES ASSUME Init PROVE TypeOK /\ PlaceKnown
  OBVIOUS
<1> USE ConstantsAssumption DEF ConstantsAssumption, Init
<1>0. FlagTypes
  BY Zenon DEF FlagTypes
<1>1. CallTypes
  BY DEF CallTypes, Places
<1>2. AudioTypes /\ TurnTypes /\ DogTypes
  BY DEF AudioTypes, TurnTypes, DogTypes
<1>3. TextTypes
  BY DEF TextTypes
<1>4. PlaceKnown
  BY DEF PlaceKnown
<1> QED
  BY <1>0, <1>1, <1>2, <1>3, <1>4, TypeParts

\* The lengths of audio are lengths.
LEMMA Lengths ==
    /\ WelcomeLength \in Nat \ {0} /\ FillerLength \in Nat \ {0}
    /\ SentenceLength \in Nat \ {0} /\ NudgeLength \in Nat \ {0}
  BY ConstantsAssumption DEF ConstantsAssumption

\* What the steps with a choice among flags leave alone or do to the rest.
LEMMA HearKeeps ==
    ASSUME Hear
    PROVE  /\ Reading /\ ~speaking /\ idle' = 0
           /\ UNCHANGED <<callVars, pc, audioVars, greeted, turnVars, textVars, wd, wdLeft,
                          hangAt, nudged, boundVars>>
  BY Zenon DEF Hear

LEMMA SentenceKeeps ==
    ASSUME Sentence
    PROVE  /\ pc = "llm" /\ line = "up" /\ said < MaxSentences /\ said' = said + 1
           /\ \/ ~Cut /\ Play(SentenceLength) /\ total' = total + SentenceLength
              \/ UNCHANGED <<speaking, playing, total>>
           /\ UNCHANGED <<callVars, pc, timers, earVars, turn, textVars, dogVars, hangAt, boundVars>>
  BY Zenon DEF Sentence

\* The end of a turn is Finish, with a sentence more or without.
LEMMA DoneFinishes ==
    ASSUME FlagTypes, StreamDone \/ BatchDone
    PROVE  /\ pc \in {"llm", "batch"}
           /\ \E answered, last \in BOOLEAN, more \in {0, SentenceLength} :
                  /\ Finish(answered, more, last)
                  /\ more = SentenceLength => line = "up" /\ ~Cut
<1>0. 0 # SentenceLength
  BY Lengths
<1>1. CASE StreamDone
  <2>1. (said > 0) \in BOOLEAN
    OBVIOUS
  <2>2. bye \in BOOLEAN
    BY Zenon DEF FlagTypes
  <2>3. pc = "llm" /\ Finish(said > 0, 0, bye)
    BY <1>1, Zenon DEF StreamDone
  <2> QED
    BY <1>0, <2>1, <2>2, <2>3, Zenon
<1>2. CASE BatchDone
  <2>1. pc = "batch"
    BY <1>2, Zenon DEF BatchDone
  <2>2. CASE /\ line = "up" /\ ~Cut
             /\ \E last \in {bye, TRUE} : Finish(TRUE, SentenceLength, last)
    <3>1. PICK last \in BOOLEAN : Finish(TRUE, SentenceLength, last)
      BY <2>2, Zenon DEF FlagTypes
    <3> QED
      BY <2>1, <2>2, <3>1, Zenon
  <2>3. CASE \E answered \in BOOLEAN : Finish(answered, 0, bye)
    BY <1>0, <2>1, <2>3, Zenon DEF FlagTypes
  <2> QED
    BY <1>2, <2>2, <2>3, Zenon DEF BatchDone
<1> QED
  BY <1>1, <1>2

\* Every step keeps the flags Boolean.
LEMMA FlagTypesStep == FlagTypes /\ [Next]_vars => FlagTypes'
<1> SUFFICES ASSUME FlagTypes, [Next]_vars PROVE FlagTypes'
  OBVIOUS
<1> USE DEF FlagTypes, callVars, audioVars, earVars, turnVars, dogVars
<1>1. CASE UNCHANGED vars
  BY <1>1, ZenonT(60) DEF vars
<1>2. CASE DialAccepted \/ DialRefused \/ Answer \/ AnswerWithoutAgent
  BY <1>2, ZenonT(60) DEF DialAccepted, DialRefused, Answer, AnswerWithoutAgent
<1>3. CASE HearOver \/ BargeIn \/ Hear \/ EndOfTurn
  BY <1>3, ZenonT(60) DEF HearOver, BargeIn, Hear, EndOfTurn
<1>4. CASE Start \/ Greet \/ GreetFails \/ StreamEnds \/ StreamDrops
  BY <1>4, ZenonT(60) DEF Start, Greet, GreetFails, StreamEnds, StreamDrops, CloseStream, WatchOver,
                     PlayAndReset, Play
<1>5. CASE NoReply \/ CutOff \/ SendFails \/ BatchRaises
  BY <1>5, ZenonT(60) DEF NoReply, CutOff, SendFails, BatchRaises, Leave
<1>6. CASE Transcribed \/ FillerPlays \/ NoFiller \/ Sentence \/ StreamBreaks
  BY <1>6, ZenonT(60) DEF Transcribed, FillerPlays, NoFiller, Sentence, StreamBreaks, Play
<1>7. CASE StreamDone \/ BatchDone
  BY <1>7, ZenonT(60) DEF StreamDone, BatchDone, Finish, Play
<1>8. CASE WatchSpeech \/ WatchHalf \/ WatchEnd \/ WatchQuiet \/ RestEnds
  BY <1>8, ZenonT(60) DEF WatchSpeech, WatchHalf, WatchEnd, WatchQuiet, Sleep, RestEnds
<1>9. CASE Nudge \/ Final
  BY <1>9, ZenonT(60) DEF Nudge, Final, Sleep, PlayAndReset, Play
<1>10. CASE WatchHangsUp \/ EndCallHangsUp
  BY <1>10, ZenonT(60) DEF WatchHangsUp, EndCallHangsUp, WatchOver
<1>11. CASE LineEnds \/ StateRemoved \/ Tick
  BY <1>11, ZenonT(60) DEF LineEnds, StateRemoved, Tick
<1> QED
  BY <1>1, <1>2, <1>3, <1>4, <1>5, <1>6, <1>7, <1>8, <1>9, <1>10, <1>11
  DEF Next, EarStep, ReplyStep, WatchStep

\* Every step keeps the types of the call and of its counters.
LEMMA CallTypesStep == CallTypes /\ [Next]_vars => CallTypes'
<1> SUFFICES ASSUME CallTypes, [Next]_vars PROVE CallTypes'
  OBVIOUS
<1> USE ConstantsAssumption
    DEF ConstantsAssumption, CallTypes, Places, callVars, earVars, boundVars
<1>1. CASE UNCHANGED vars
  BY <1>1 DEF vars
<1>2. CASE DialAccepted \/ DialRefused \/ Answer \/ AnswerWithoutAgent
  BY <1>2 DEF DialAccepted, DialRefused, Answer, AnswerWithoutAgent
<1>3. CASE HearOver \/ BargeIn \/ EndOfTurn
  BY <1>3 DEF Reading, HearOver, BargeIn, EndOfTurn
<1>h. CASE Hear
  BY <1>h, HearKeeps
<1>4. CASE Start \/ Greet \/ GreetFails \/ StreamEnds \/ StreamDrops
  BY <1>4 DEF Start, Greet, GreetFails, StreamEnds, StreamDrops, CloseStream
<1>5. CASE NoReply \/ CutOff \/ SendFails \/ BatchRaises
  BY <1>5 DEF NoReply, CutOff, SendFails, BatchRaises, Leave
<1>6. CASE Transcribed \/ FillerPlays \/ NoFiller \/ StreamBreaks
  BY <1>6 DEF Transcribed, FillerPlays, NoFiller, StreamBreaks
<1>s. CASE Sentence
  BY <1>s, SentenceKeeps
<1>7. CASE StreamDone \/ BatchDone
  <2>1. pc' = "receive" /\ UNCHANGED <<callVars, boundVars>>
    BY <1>7, Zenon DEF StreamDone, BatchDone, Finish
  <2> QED
    BY <2>1
<1>8. CASE WatchSpeech \/ WatchHalf \/ WatchEnd \/ WatchQuiet \/ Nudge \/ Final \/ RestEnds
  BY <1>8 DEF WatchSpeech, WatchHalf, WatchEnd, WatchQuiet, Nudge, Final, RestEnds
<1>9. CASE WatchHangsUp \/ EndCallHangsUp
  BY <1>9 DEF WatchHangsUp, EndCallHangsUp, HangUp
<1>10. CASE LineEnds \/ StateRemoved \/ Tick
  BY <1>10 DEF LineEnds, StateRemoved, Tick
<1> QED
  BY <1>1, <1>2, <1>3, <1>h, <1>s, <1>4, <1>5, <1>6, <1>7, <1>8, <1>9, <1>10
  DEF Next, EarStep, ReplyStep, WatchStep

\* Every step keeps the types of what is played and timed.
LEMMA AudioTypesStep == FlagTypes /\ AudioTypes /\ [Next]_vars => AudioTypes'
<1> SUFFICES ASSUME FlagTypes, AudioTypes, [Next]_vars PROVE AudioTypes'
  OBVIOUS
<1> USE DEF AudioTypes, audioVars, turnVars
<1>1. CASE UNCHANGED vars
  BY <1>1 DEF vars
<1>2. CASE DialAccepted \/ DialRefused \/ Answer \/ AnswerWithoutAgent
  BY <1>2 DEF DialAccepted, DialRefused, Answer, AnswerWithoutAgent
<1>3. CASE HearOver \/ BargeIn \/ EndOfTurn
  <2>1. UNCHANGED <<timers, hangAt>> /\ playing' \in {playing, 0} /\ total' \in {total, 0}
    BY <1>3, Zenon DEF HearOver, BargeIn, EndOfTurn
  <2> QED
    BY <2>1
<1>h. CASE Hear
  BY <1>h, HearKeeps
<1>4. CASE Start \/ GreetFails \/ StreamEnds \/ StreamDrops
  BY <1>4 DEF Start, GreetFails, StreamEnds, StreamDrops, CloseStream
<1>g. CASE Greet
  BY <1>g, Lengths DEF Greet, PlayAndReset, Play
<1>5. CASE NoReply \/ CutOff \/ SendFails \/ BatchRaises
  <2>1. timers' = ResetAfter(total, TRUE) /\ total' = 0 /\ UNCHANGED <<playing, hangAt>>
    BY <1>5, Zenon DEF NoReply, CutOff, SendFails, BatchRaises, Leave, ResetAfter
  <2> QED
    BY <2>1 DEF ResetAfter
<1>6. CASE Transcribed \/ NoFiller \/ StreamBreaks
  BY <1>6 DEF Transcribed, NoFiller, StreamBreaks
<1>f. CASE FillerPlays
  BY <1>f, Lengths DEF FillerPlays, Play
<1>s. CASE Sentence
  <2>1. UNCHANGED <<timers, hangAt>>
    BY <1>s, SentenceKeeps
  <2>2. \/ playing' = playing + SentenceLength /\ total' = total + SentenceLength
        \/ UNCHANGED <<playing, total>>
    BY <1>s, SentenceKeeps, Zenon DEF Play
  <2> QED
    BY <2>1, <2>2, Lengths
<1>7. CASE StreamDone \/ BatchDone
  <2>1. PICK answered, last \in BOOLEAN, more \in {0, SentenceLength} :
               Finish(answered, more, last)
    BY <1>7, DoneFinishes
  <2>2. more \in Nat /\ total + more \in Nat /\ playing + more \in Nat
    BY Lengths
  <2>3. playing' \in Nat
    BY <2>1, <2>2 DEF Finish, Play
  <2>4. timers' \subseteq Nat \ {0}
    BY <2>1, <2>2 DEF Finish, ResetAfter
  <2>5. hangAt' \subseteq Nat /\ total' = 0
    BY <2>1, <2>2 DEF Finish
  <2> QED
    BY <2>3, <2>4, <2>5
<1>10. CASE WatchSpeech \/ WatchHalf \/ WatchEnd \/ WatchQuiet \/ RestEnds
  BY <1>10 DEF WatchSpeech, WatchHalf, WatchEnd, WatchQuiet, RestEnds
<1>11. CASE Nudge \/ Final
  <2>1. UNCHANGED <<total, hangAt>>
    BY <1>11 DEF Nudge, Final
  <2>2. \/ playing' = playing + NudgeLength /\ timers' = timers \cup {NudgeLength}
        \/ UNCHANGED <<playing, timers>>
    <3>1. CASE Nudge
      BY <3>1, Zenon DEF Nudge, PlayAndReset, Play
    <3>2. CASE Final
      BY <3>2, Zenon DEF Final, PlayAndReset, Play
    <3> QED
      BY <1>11, <3>1, <3>2
  <2>3. playing' \in Nat
    BY <2>2, Lengths
  <2>4. timers' \subseteq Nat \ {0}
    BY <2>2, Lengths
  <2> QED
    BY <2>1, <2>3, <2>4
<1>12. CASE WatchHangsUp \/ EndCallHangsUp
  BY <1>12 DEF WatchHangsUp, EndCallHangsUp
<1>13. CASE LineEnds \/ StateRemoved
  BY <1>13 DEF LineEnds, StateRemoved
<1>14. CASE Tick
  <2>1. playing' \in Nat /\ total' = total
    BY <1>14 DEF Tick
  <2>2. timers' \subseteq Nat \ {0}
    BY <1>14 DEF Tick
  <2>3. hangAt' \subseteq Nat
    <3>1. \A t \in hangAt : t - 1 \in Nat
      BY <1>14 DEF Tick
    <3> QED
      BY <1>14, <3>1 DEF Tick
  <2> QED
    BY <2>1, <2>2, <2>3
<1> QED
  BY <1>1, <1>2, <1>3, <1>h, <1>4, <1>g, <1>5, <1>6, <1>f, <1>s, <1>7, <1>10, <1>11, <1>12, <1>13, <1>14
  DEF Next, EarStep, ReplyStep, WatchStep

\* Every step keeps the types of the turn.
LEMMA TurnTypesStep == FlagTypes /\ TurnTypes /\ [Next]_vars => TurnTypes'
<1> SUFFICES ASSUME FlagTypes, TurnTypes, [Next]_vars PROVE TurnTypes'
  OBVIOUS
<1> USE ConstantsAssumption DEF ConstantsAssumption, TurnTypes, turnVars
<1>1. CASE UNCHANGED vars
  BY <1>1 DEF vars
<1>2. CASE DialAccepted \/ DialRefused \/ Answer \/ AnswerWithoutAgent
  BY <1>2 DEF DialAccepted, DialRefused, Answer, AnswerWithoutAgent
<1>3. CASE HearOver \/ BargeIn \/ Hear
  <2>1. UNCHANGED turnVars
    BY <1>3, Zenon DEF HearOver, BargeIn, Hear
  <2> QED
    BY <2>1
<1>e. CASE EndOfTurn
  BY <1>e DEF EndOfTurn
<1>4. CASE Start \/ Greet \/ GreetFails \/ StreamEnds \/ StreamDrops
  BY <1>4 DEF Start, Greet, GreetFails, StreamEnds, StreamDrops, CloseStream
<1>5. CASE NoReply \/ CutOff \/ SendFails \/ BatchRaises
  <2>1. said' = 0 /\ turn' = turn
    BY <1>5, Zenon DEF NoReply, CutOff, SendFails, BatchRaises, Leave
  <2> QED
    BY <2>1
<1>6. CASE Transcribed \/ NoFiller \/ FillerPlays \/ StreamBreaks
  BY <1>6 DEF Transcribed, NoFiller, FillerPlays, StreamBreaks
<1>s. CASE Sentence
  BY <1>s, SentenceKeeps
<1>7. CASE StreamDone \/ BatchDone
  <2>1. said' = 0 /\ turn' = turn
    BY <1>7, Zenon DEF StreamDone, BatchDone, Finish
  <2> QED
    BY <2>1
<1>8. CASE WatchStep
  <2>1. UNCHANGED turnVars
    BY <1>8, Zenon DEF WatchStep, WatchSpeech, WatchHalf, WatchEnd, WatchQuiet, Nudge, Final,
                       RestEnds, WatchHangsUp
  <2> QED
    BY <2>1
<1>9. CASE EndCallHangsUp \/ LineEnds \/ StateRemoved \/ Tick
  BY <1>9 DEF EndCallHangsUp, LineEnds, StateRemoved, Tick
<1> QED
  BY <1>1, <1>2, <1>3, <1>e, <1>4, <1>5, <1>6, <1>s, <1>7, <1>8, <1>9
  DEF Next, EarStep, ReplyStep

\* Every step keeps the types of the watchdog.
LEMMA DogTypesStep == DogTypes /\ [Next]_vars => DogTypes'
<1> SUFFICES ASSUME DogTypes, [Next]_vars PROVE DogTypes'
  OBVIOUS
<1> USE ConstantsAssumption DEF ConstantsAssumption, DogTypes, dogVars
<1>1. CASE UNCHANGED vars
  BY <1>1 DEF vars
<1>2. CASE DialAccepted \/ DialRefused \/ AnswerWithoutAgent
  BY <1>2 DEF DialAccepted, DialRefused, AnswerWithoutAgent
<1>a. CASE Answer
  BY <1>a DEF Answer
<1>3. CASE EarStep
  <2>1. idle' = 0 /\ UNCHANGED <<wd, wdLeft>>
    BY <1>3, Zenon DEF EarStep, HearOver, BargeIn, Hear, EndOfTurn
  <2> QED
    BY <2>1
<1>4. CASE \/ Start \/ Greet \/ GreetFails \/ NoReply \/ CutOff \/ SendFails \/ BatchRaises
           \/ Transcribed \/ NoFiller \/ FillerPlays \/ StreamBreaks \/ Sentence
           \/ StreamDone \/ BatchDone
  <2>1. UNCHANGED dogVars
    BY <1>4, Zenon DEF Start, Greet, GreetFails, NoReply, CutOff, SendFails, BatchRaises, Leave,
        Transcribed, NoFiller, FillerPlays, StreamBreaks, Sentence, StreamDone, BatchDone, Finish
  <2> QED
    BY <2>1
<1>5. CASE StreamEnds \/ StreamDrops
  BY <1>5 DEF StreamEnds, StreamDrops, CloseStream, WatchOver
<1>6. CASE WatchSpeech \/ WatchEnd \/ WatchQuiet \/ RestEnds \/ WatchHangsUp
  BY <1>6 DEF WatchSpeech, WatchEnd, WatchQuiet, Sleep, RestEnds, WatchHangsUp, WatchOver
<1>7. CASE WatchHalf
  <2>1. wd' = "nudge" /\ UNCHANGED <<wdLeft, idle>>
    BY <1>7, Zenon DEF WatchHalf
  <2> QED
    BY <2>1
<1>8. CASE Nudge \/ Final
  <2>1. idle' = idle /\ wd' \in {"final", "sleep", "rest", "hang"}
    BY <1>8, Zenon DEF Nudge, Final, Sleep
  <2>2. wdLeft' \in {wdLeft, Period, NudgeLength}
    BY <1>8, Zenon DEF Nudge, Final, Sleep
  <2> QED
    BY <2>1, <2>2, Lengths
<1>9. CASE EndCallHangsUp \/ LineEnds \/ StateRemoved
  BY <1>9 DEF EndCallHangsUp, LineEnds, StateRemoved
<1>10. CASE Tick
  BY <1>10 DEF Tick
<1> QED
  BY <1>1, <1>2, <1>a, <1>3, <1>4, <1>5, <1>6, <1>7, <1>8, <1>9, <1>10
  DEF Next, ReplyStep, WatchStep

\* Every step keeps what is known of the handler's place.
LEMMA PlaceStep ==
    FlagTypes /\ CallTypes /\ TurnTypes /\ PlaceKnown /\ [Next]_vars => PlaceKnown'
<1> SUFFICES ASSUME FlagTypes, CallTypes, TurnTypes, PlaceKnown, [Next]_vars PROVE PlaceKnown'
  OBVIOUS
<1> USE DEF PlaceKnown, callVars, earVars, turnVars, textVars
<1>1. CASE UNCHANGED vars
  BY <1>1 DEF vars
<1>2. CASE DialAccepted \/ DialRefused \/ Answer \/ AnswerWithoutAgent
  BY <1>2 DEF DialAccepted, DialRefused, Answer, AnswerWithoutAgent
<1>3. CASE HearOver \/ BargeIn
  BY <1>3 DEF HearOver, BargeIn, Reading
<1>h. CASE Hear
  BY <1>h, HearKeeps
<1>e. CASE EndOfTurn
  BY <1>e DEF EndOfTurn, Reading, TurnTypes
<1>4. CASE Start \/ Greet \/ GreetFails \/ StreamEnds \/ StreamDrops
  BY <1>4 DEF Start, Greet, GreetFails, StreamEnds, StreamDrops, CloseStream
<1>5. CASE NoReply \/ CutOff \/ SendFails \/ BatchRaises
  <2>1. pc' = "receive" /\ pc \in {"stt", "filler", "llm", "batch"} /\ UNCHANGED <<line, greeted>>
    BY <1>5, Zenon DEF NoReply, CutOff, SendFails, BatchRaises, Leave
  <2> QED
    BY <2>1
<1>6. CASE Transcribed \/ StreamBreaks
  BY <1>6 DEF Transcribed, StreamBreaks
<1>f. CASE NoFiller \/ FillerPlays
  <2>1. history' # <<>>
    BY <1>f DEF NoFiller, FillerPlays, WithGreeting
  <2> QED
    BY <1>f, <2>1 DEF NoFiller, FillerPlays
<1>s. CASE Sentence
  BY <1>s, SentenceKeeps
<1>7. CASE StreamDone \/ BatchDone
  <2>1. pc' = "receive" /\ pc \in {"llm", "batch"} /\ UNCHANGED <<line, greeted>>
    BY <1>7, Zenon DEF StreamDone, BatchDone, Finish
  <2> QED
    BY <2>1
<1>8. CASE WatchSpeech \/ WatchHalf \/ WatchEnd \/ WatchQuiet \/ Nudge \/ Final \/ RestEnds
  <2>1. UNCHANGED <<line, pc, greeted, turn, history>>
    BY <1>8, Zenon DEF WatchSpeech, WatchHalf, WatchEnd, WatchQuiet, Nudge, Final, RestEnds
  <2> QED
    BY <2>1
<1>9. CASE WatchHangsUp \/ EndCallHangsUp
  <2>1. line' \in {line, "over"} /\ UNCHANGED <<pc, greeted, turn, history>>
    BY <1>9, Zenon DEF WatchHangsUp, EndCallHangsUp, HangUp
  <2> QED
    BY <2>1
<1>10. CASE LineEnds \/ StateRemoved \/ Tick
  BY <1>10 DEF LineEnds, StateRemoved, Tick
<1> QED
  BY <1>1, <1>2, <1>3, <1>h, <1>e, <1>4, <1>5, <1>6, <1>f, <1>s, <1>7, <1>8, <1>9, <1>10
  DEF Next, EarStep, ReplyStep, WatchStep

-----------------------------------------------------------------------------
(* The agent's audio.                                                      *)

Silent == ~speaking /\ timers = {} /\ playing = 0

\* As long as nobody interrupts and the watchdog is silent, only the greeting and the
\* turns play, one at a time.  During a turn the flag has no timer, and is up once a
\* piece was sent; what is left to play was sent in the turn.  Otherwise the flag is up
\* until its one timer, which is not shorter than what is left to play.
AudioOwned ==
    barges = 0 /\ ~nudged =>
        /\ ~greeted \/ pc \in {"greet", "stt", "filler"} => Silent
        /\ pc \notin {"llm", "batch"} => total = 0
        /\ pc \in {"llm", "batch"} => timers = {} /\ (speaking <=> total > 0) /\ playing <= total
        /\ pc \notin {"llm", "batch"} =>
               IF speaking THEN \E t \in Nat \ {0} : timers = {t} /\ playing <= t ELSE Silent

\* Nothing plays when the request dials.
LEMMA AudioInit == Init => AudioOwned
  BY DEF Init, AudioOwned, Silent

\* Only an interruption counts as one, only the nudge and the last words are noted.
LEMMA Disturbances ==
    ASSUME [Next]_vars
    PROVE  /\ barges' = barges \/ (BargeIn /\ barges' = barges + 1)
           /\ nudged' = nudged \/ ((Nudge \/ Final) /\ nudged' = TRUE)
<1> USE DEF boundVars, dogVars
<1>1. CASE UNCHANGED vars
  BY <1>1, Zenon DEF vars
<1>2. CASE DialAccepted \/ DialRefused \/ Answer \/ AnswerWithoutAgent
  BY <1>2, Zenon DEF DialAccepted, DialRefused, Answer, AnswerWithoutAgent
<1>3. CASE HearOver \/ Hear \/ EndOfTurn
  BY <1>3, Zenon DEF HearOver, Hear, EndOfTurn
<1>b. CASE BargeIn
  BY <1>b, Zenon DEF BargeIn
<1>4. CASE Start \/ Greet \/ GreetFails \/ StreamEnds \/ StreamDrops
  BY <1>4, Zenon DEF Start, Greet, GreetFails, StreamEnds, StreamDrops, CloseStream
<1>5. CASE NoReply \/ CutOff \/ SendFails \/ BatchRaises
  BY <1>5, Zenon DEF NoReply, CutOff, SendFails, BatchRaises, Leave
<1>6. CASE Transcribed \/ FillerPlays \/ NoFiller \/ Sentence \/ StreamBreaks
  BY <1>6, Zenon DEF Transcribed, FillerPlays, NoFiller, Sentence, StreamBreaks
<1>7. CASE StreamDone \/ BatchDone
  BY <1>7, Zenon DEF StreamDone, BatchDone, Finish
<1>8. CASE WatchSpeech \/ WatchHalf \/ WatchEnd \/ WatchQuiet \/ RestEnds
  BY <1>8, Zenon DEF WatchSpeech, WatchHalf, WatchEnd, WatchQuiet, RestEnds
<1>9. CASE Nudge \/ Final
  BY <1>9, Zenon DEF Nudge, Final
<1>10. CASE WatchHangsUp \/ EndCallHangsUp
  BY <1>10, Zenon DEF WatchHangsUp, EndCallHangsUp
<1>11. CASE LineEnds \/ StateRemoved \/ Tick
  BY <1>11, Zenon DEF LineEnds, StateRemoved, Tick
<1> QED
  BY <1>1, <1>2, <1>3, <1>b, <1>4, <1>5, <1>6, <1>7, <1>8, <1>9, <1>10, <1>11
  DEF Next, EarStep, ReplyStep, WatchStep

\* Nothing has disturbed the call before the step or in it.
Undisturbed == barges = 0 /\ ~nudged /\ barges' = 0 /\ ~nudged'

\* The audio stays owned through the steps of a turn.
LEMMA TurnKeepsAudio ==
    ASSUME FlagTypes, CallTypes, AudioTypes, PlaceKnown, AudioOwned, Undisturbed,
           \/ NoReply \/ Transcribed \/ FillerPlays \/ NoFiller \/ CutOff \/ SendFails
           \/ Sentence \/ StreamBreaks \/ StreamDone \/ BatchDone \/ BatchRaises
    PROVE  AudioOwned'
<1> USE DEF Undisturbed, AudioTypes
<1>1. CASE Transcribed \/ NoFiller \/ StreamBreaks
  <2>1. CASE Transcribed
    BY <2>1 DEF Transcribed, AudioOwned, Silent, PlaceKnown, audioVars, earVars, turnVars
  <2>2. CASE NoFiller
    BY <2>2 DEF NoFiller, AudioOwned, Silent, PlaceKnown, audioVars, earVars, turnVars
  <2>3. CASE StreamBreaks
    BY <2>3 DEF StreamBreaks, AudioOwned, Silent, PlaceKnown, audioVars, earVars, turnVars
  <2> QED
    BY <1>1, <2>1, <2>2, <2>3
<1>2. CASE FillerPlays
  BY <1>2, Lengths DEF FillerPlays, Play, AudioOwned, Silent, PlaceKnown, earVars
<1>3. CASE Sentence
  <2>1. pc = "llm" /\ pc' = "llm" /\ greeted /\ greeted' = greeted /\ timers = {} /\ timers' = {}
    BY <1>3, SentenceKeeps DEF AudioOwned, PlaceKnown, earVars
  <2>2. (speaking <=> total > 0) /\ playing <= total
    BY <1>3, SentenceKeeps DEF AudioOwned
  <2>3. (speaking' <=> total' > 0) /\ playing' <= total'
    <3>1. CASE ~Cut /\ Play(SentenceLength) /\ total' = total + SentenceLength
      BY <2>2, <3>1, Lengths DEF Play
    <3>2. CASE UNCHANGED <<speaking, playing, total>>
      BY <2>2, <3>2
    <3> QED
      BY <1>3, <3>1, <3>2, SentenceKeeps
  <2> QED
    BY <2>1, <2>3 DEF AudioOwned
<1>4. ASSUME NEW sent \in Nat, timers = {}, timers' = ResetAfter(sent, TRUE),
             greeted', pc' = "receive", total' = 0,
             speaking' <=> sent > 0, playing' \in Nat, playing' <= sent
      PROVE  AudioOwned'
  <2>1. CASE sent > 0
    BY <1>4, <2>1 DEF AudioOwned, ResetAfter
  <2>2. CASE sent = 0
    BY <1>4, <2>2 DEF AudioOwned, ResetAfter, Silent
  <2> QED
    BY <2>1, <2>2
<1>5. CASE NoReply \/ CutOff \/ SendFails \/ BatchRaises
  <2>1. /\ pc \in {"stt", "filler", "llm", "batch"} /\ pc' = "receive" /\ total' = 0
        /\ timers' = ResetAfter(total, TRUE) /\ UNCHANGED <<speaking, playing, greeted>>
    BY <1>5, Zenon DEF NoReply, CutOff, SendFails, BatchRaises, Leave, ResetAfter, earVars
  <2>2. greeted
    BY <2>1 DEF PlaceKnown
  <2>3. timers = {} /\ (speaking <=> total > 0) /\ playing <= total
    BY <2>1 DEF AudioOwned, Silent
  <2> QED
    BY <1>4, <2>1, <2>2, <2>3
<1>6. CASE StreamDone \/ BatchDone
  <2>1. pc \in {"llm", "batch"}
    BY <1>6, DoneFinishes
  <2>2. PICK answered, last \in BOOLEAN, more \in {0, SentenceLength} :
               Finish(answered, more, last)
    BY <1>6, DoneFinishes
  <2>3. more \in Nat
    BY Lengths
  <2>4. /\ pc' = "receive" /\ total' = 0 /\ greeted' = greeted
        /\ timers' = ResetAfter(total + more, TRUE)
    BY <2>2, Zenon DEF Finish, earVars, ResetAfter
  <2>5. greeted
    BY <2>1 DEF PlaceKnown
  <2>6. timers = {} /\ (speaking <=> total > 0) /\ playing <= total
    BY <2>1 DEF AudioOwned
  <2>7. (speaking' <=> total + more > 0) /\ playing' \in Nat /\ playing' <= total + more
    BY <2>2, <2>3, <2>6 DEF Finish, Play
  <2>8. total + more \in Nat
    BY <2>3
  <2> QED
    BY <1>4, <2>4, <2>5, <2>6, <2>7, <2>8
<1> QED
  BY <1>1, <1>2, <1>3, <1>5, <1>6

\* It stays owned through every step.
LEMMA AudioStep ==
    FlagTypes /\ CallTypes /\ AudioTypes /\ PlaceKnown /\ AudioOwned /\ [Next]_vars => AudioOwned'
<1> SUFFICES ASSUME FlagTypes, CallTypes, AudioTypes, PlaceKnown, AudioOwned, [Next]_vars,
                    barges' = 0, ~nudged'
             PROVE  AudioOwned'
  BY DEF AudioOwned
<1>0. Undisturbed
  <2>1. barges = 0
    <3>1. barges' = barges \/ barges' = barges + 1
      BY Disturbances, Zenon
    <3> QED
      BY <3>1, ConstantsAssumption DEF ConstantsAssumption, CallTypes
  <2>2. ~nudged
    <3>1. nudged' = nudged \/ nudged' = TRUE
      BY Disturbances
    <3> QED
      BY <3>1, Zenon DEF FlagTypes
  <2> QED
    BY <2>1, <2>2 DEF Undisturbed
<1> USE <1>0 DEF AudioTypes, Undisturbed
\* Steps that touch no audio and enter no turn.
<1>1. ASSUME UNCHANGED <<speaking, timers, playing, greeted, total>>,
             pc' = pc \/ (pc \in {"off", "receive", "greet"} /\ pc' \in {"receive", "closed"})
      PROVE  AudioOwned'
  <2>1. CASE pc' = pc
    BY <1>1, <2>1 DEF AudioOwned, Silent
  <2>2. CASE pc \in {"off", "receive", "greet"} /\ pc' \in {"receive", "closed"}
    BY <1>1, <2>2 DEF AudioOwned, Silent
  <2> QED
    BY <1>1, <2>1, <2>2
<1>2. CASE \/ UNCHANGED vars
           \/ DialAccepted \/ DialRefused \/ Answer \/ AnswerWithoutAgent \/ HearOver \/ Hear
           \/ GreetFails \/ StreamEnds \/ StreamDrops \/ WatchSpeech \/ WatchHalf \/ WatchEnd
           \/ WatchQuiet \/ RestEnds \/ WatchHangsUp \/ EndCallHangsUp \/ LineEnds \/ StateRemoved
  <2> USE DEF callVars, audioVars, earVars, turnVars
  <2>1. UNCHANGED <<speaking, timers, playing, greeted, total>>
    BY <1>2, Zenon DEF vars, DialAccepted, DialRefused, Answer, AnswerWithoutAgent, HearOver, Hear,
        GreetFails, StreamEnds, StreamDrops, CloseStream, WatchSpeech, WatchHalf, WatchEnd,
        WatchQuiet, RestEnds, WatchHangsUp, EndCallHangsUp, LineEnds, StateRemoved
  <2>2. pc' = pc \/ (pc \in {"off", "receive", "greet"} /\ pc' \in {"receive", "closed"})
    <3>1. CASE DialRefused \/ Answer \/ AnswerWithoutAgent
      BY <3>1 DEF DialRefused, Answer, AnswerWithoutAgent, PlaceKnown
    <3>2. CASE GreetFails \/ StreamEnds \/ StreamDrops \/ LineEnds
      BY <3>2, Zenon DEF GreetFails, StreamEnds, StreamDrops, CloseStream, LineEnds
    <3>3. CASE \/ UNCHANGED vars
               \/ DialAccepted \/ HearOver \/ Hear \/ WatchSpeech \/ WatchHalf \/ WatchEnd
               \/ WatchQuiet \/ RestEnds \/ WatchHangsUp \/ EndCallHangsUp \/ StateRemoved
      BY <3>3, Zenon DEF vars, DialAccepted, HearOver, Hear, WatchSpeech, WatchHalf, WatchEnd,
          WatchQuiet, RestEnds, WatchHangsUp, EndCallHangsUp, StateRemoved
    <3> QED
      BY <1>2, <3>1, <3>2, <3>3
  <2> QED
    BY <1>1, <2>1, <2>2
<1>3. CASE BargeIn
  BY <1>3 DEF BargeIn
<1>4. CASE EndOfTurn
  BY <1>4 DEF EndOfTurn, Reading, AudioOwned, Silent, audioVars
<1>5. CASE Start
  BY <1>5 DEF Start, AudioOwned, Silent, audioVars, turnVars
<1>6. CASE Greet
  <2>1. Silent /\ total = 0
    BY <1>6 DEF Greet, AudioOwned
  <2>2. greeted /\ greeted' = greeted
    BY <1>6 DEF Greet, PlaceKnown, earVars
  <2>3. pc' = "receive" /\ total' = total
    BY <1>6 DEF Greet, turnVars
  <2>4. speaking' = TRUE /\ timers' = {WelcomeLength} /\ playing' = WelcomeLength
    BY <1>6, <2>1, Lengths DEF Greet, PlayAndReset, Play, Silent
  <2> QED
    BY <2>1, <2>2, <2>3, <2>4, Lengths DEF AudioOwned
<1>7. CASE \/ NoReply \/ Transcribed \/ FillerPlays \/ NoFiller \/ CutOff \/ SendFails
           \/ Sentence \/ StreamBreaks \/ StreamDone \/ BatchDone \/ BatchRaises
  BY <1>7, TurnKeepsAudio
<1>8. CASE Nudge \/ Final
  <2>1. UNCHANGED audioVars
    BY <1>8, Zenon DEF Nudge, Final
  <2>2. UNCHANGED <<pc, earVars, turnVars>>
    BY <1>8, Zenon DEF Nudge, Final
  <2> QED
    BY <1>1, <2>1, <2>2 DEF audioVars, earVars, turnVars
<1>9. CASE Tick
  <2>1. /\ pc' = pc /\ greeted' = greeted /\ total' = total
        /\ playing' = IF playing > 0 THEN playing - 1 ELSE 0
        /\ timers' = {t - 1 : t \in timers} \ {0}
        /\ speaking' = (speaking /\ 1 \notin timers)
    BY <1>9 DEF Tick, earVars, turnVars
  <2>2. CASE timers = {}
    <3>0. speaking' <=> speaking
      BY <2>1, <2>2, Zenon
    <3>1. timers' = {} /\ playing' \in Nat /\ playing' <= playing
      BY <2>1, <2>2
    <3>2. Silent => Silent'
      BY <2>1, <2>2, <3>0, <3>1 DEF Silent
    <3> QED
      BY <2>1, <2>2, <3>0, <3>1, <3>2 DEF AudioOwned
  <2>3. CASE timers # {}
    <3>1. pc \notin {"llm", "batch"} /\ ~Silent /\ total = 0
      BY <2>3 DEF AudioOwned, Silent
    <3>2. speaking
      BY <3>1 DEF AudioOwned
    <3>3. PICK t \in Nat \ {0} : timers = {t} /\ playing <= t
      BY <3>1, <3>2 DEF AudioOwned
    <3>4. greeted /\ pc \notin {"greet", "stt", "filler"}
      BY <3>1 DEF AudioOwned
    <3>5. CASE t = 1
      <4>0. ~speaking'
        BY <2>1, <3>3, <3>5, Zenon
      <4>1. timers' = {} /\ playing' = 0
        BY <2>1, <3>3, <3>5
      <4> QED
        BY <2>1, <3>1, <3>4, <4>0, <4>1 DEF AudioOwned, Silent
    <3>6. CASE t # 1
      <4>0. speaking'
        BY <2>1, <3>2, <3>3, <3>6, Zenon
      <4>1. timers' = {t - 1} /\ playing' <= t - 1 /\ t - 1 \in Nat \ {0}
        BY <2>1, <3>3, <3>6
      <4> QED
        BY <2>1, <3>1, <3>4, <4>0, <4>1 DEF AudioOwned
    <3> QED
      BY <3>5, <3>6
  <2> QED
    BY <2>2, <2>3
<1> QED
  BY <1>2, <1>3, <1>4, <1>5, <1>6, <1>7, <1>8, <1>9
  DEF Next, EarStep, ReplyStep, WatchStep

\* The flag is up while undisturbed audio plays, and no answer is cut off.
LEMMA FlagHolds == AudioTypes /\ AudioOwned => FlagFollowsAudio
<1> SUFFICES ASSUME AudioTypes, AudioOwned, barges = 0, ~nudged
             PROVE  (playing > 0 => speaking) /\ ~(pc \in {"llm", "batch"} /\ Cut)
  BY DEF FlagFollowsAudio
<1>1. CASE pc \in {"llm", "batch"}
  BY <1>1 DEF AudioOwned, AudioTypes, Cut
<1>2. CASE pc \notin {"llm", "batch"}
  BY <1>2 DEF AudioOwned, AudioTypes, Silent
<1> QED
  BY <1>1, <1>2

-----------------------------------------------------------------------------
(* The history.                                                            *)

Entries == Roles \X (0..MaxTurns)
Greeting == <<"assistant", 0>>

\* Spoken and HistoryIsRecent, entry by entry, of any history and any segments.
SpokenOf(seg) ==
    [i \in 1..2 * Len(seg) |->
        <<IF i % 2 = 1 THEN "user" ELSE "assistant", seg[(i + 1) \div 2]>>]

Follows(h, seg) == \A i \in 2..Len(h) : h[i] = SpokenOf(seg)[2 * Len(seg) - Len(h) + i]

Recent(h, seg) ==
    IF h = <<>> THEN seg = <<>>
    ELSE /\ Len(h) <= MaxHistory /\ Len(h) - 1 <= 2 * Len(seg)
         /\ Len(h) = MaxHistory \/ Len(h) - 1 = 2 * Len(seg)
         /\ h[1] = Greeting /\ Follows(h, seg)

\* One more turn adds its two entries at the end.
LEMMA SpokenGrows ==
    ASSUME NEW seg \in Seq(1..MaxTurns), NEW t \in 1..MaxTurns
    PROVE  LET L == Len(seg)
               new == SpokenOf(Append(seg, t))
           IN  /\ L \in Nat /\ Len(Append(seg, t)) = L + 1
               /\ \A i \in 1..2 * L : new[i] = SpokenOf(seg)[i]
               /\ new[2 * L + 1] = <<"user", t>> /\ new[2 * L + 2] = <<"assistant", t>>
<1> DEFINE L == Len(seg)
           more == Append(seg, t)
           new == SpokenOf(more)
<1>1. L \in Nat /\ Len(more) = L + 1
  OBVIOUS
<1>2. (\A k \in 1..L : more[k] = seg[k]) /\ more[L + 1] = t
  OBVIOUS
<1> HIDE DEF more
<1>3. ASSUME NEW i \in 1..2 * L PROVE new[i] = SpokenOf(seg)[i]
  <2>1. (i + 1) \div 2 \in 1..L
    BY <1>1
  <2>2. i \in 1..2 * Len(more)
    BY <1>1
  <2> QED
    BY <1>2, <2>1, <2>2 DEF SpokenOf
<1>4. new[2 * L + 1] = <<"user", t>>
  <2>1. (2 * L + 1) % 2 = 1 /\ (2 * L + 1 + 1) \div 2 = L + 1 /\ 2 * L + 1 \in 1..2 * Len(more)
    BY <1>1
  <2> QED
    BY <1>2, <2>1 DEF SpokenOf
<1>5. new[2 * L + 2] = <<"assistant", t>>
  <2>1. (2 * L + 2) % 2 = 0 /\ (2 * L + 2 + 1) \div 2 = L + 1 /\ 2 * L + 2 \in 1..2 * Len(more)
    BY <1>1
  <2> QED
    BY <1>2, <2>1 DEF SpokenOf
<1> QED
  BY <1>1, <1>3, <1>4, <1>5 DEF more

\* add_turn, twice: the history stays recent.
LEMMA TrimRecent ==
    ASSUME NEW h \in Seq(Entries), NEW seg \in Seq(1..MaxTurns), NEW t \in 1..MaxTurns,
           h # <<>>, Recent(h, seg)
    PROVE  LET new == Trim(h \o << <<"user", t>>, <<"assistant", t>> >>)
           IN  new \in Seq(Entries) /\ Recent(new, Append(seg, t))
<1> DEFINE two == << <<"user", t>>, <<"assistant", t>> >>
           all == h \o two
           L == Len(seg)
           n == Len(h)
           spoken == SpokenOf(Append(seg, t))
<1>0. MaxHistory \in Nat /\ MaxHistory >= 2 /\ MaxTurns \in Nat
  BY ConstantsAssumption DEF ConstantsAssumption
<1>1. /\ L \in Nat /\ Len(Append(seg, t)) = L + 1
      /\ \A i \in 1..2 * L : spoken[i] = SpokenOf(seg)[i]
      /\ spoken[2 * L + 1] = <<"user", t>> /\ spoken[2 * L + 2] = <<"assistant", t>>
  BY SpokenGrows
<1>2. two \in Seq(Entries) /\ Len(two) = 2 /\ two[1] = <<"user", t>> /\ two[2] = <<"assistant", t>>
  <2>1. <<"user", t>> \in Entries /\ <<"assistant", t>> \in Entries
    BY <1>0 DEF Entries, Roles
  <2> QED
    BY <2>1
<1> HIDE DEF two
<1>3. /\ all \in Seq(Entries) /\ Len(all) = n + 2
      /\ \A i \in 1..n : all[i] = h[i]
      /\ all[n + 1] = <<"user", t>> /\ all[n + 2] = <<"assistant", t>>
  <2>1. n \in Nat
    OBVIOUS
  <2>2. /\ all \in Seq(Entries) /\ Len(all) = n + Len(two)
        /\ \A i \in 1..n + Len(two) : all[i] = IF i <= n THEN h[i] ELSE two[i - n]
    BY <1>2, ConcatProperties
  <2>3. (n + 1) - n = 1 /\ (n + 2) - n = 2
    BY <2>1
  <2> HIDE DEF n, all
  <2> QED
    BY <1>2, <2>1, <2>2, <2>3
<1>4. /\ n \in Nat \ {0} /\ n <= MaxHistory /\ n - 1 <= 2 * L
      /\ n = MaxHistory \/ n - 1 = 2 * L
      /\ h[1] = Greeting /\ Follows(h, seg)
  BY DEF Recent
<1> HIDE DEF all, L, n, spoken
<1>5. ASSUME NEW i \in 2..n + 2 PROVE all[i] = spoken[2 * L - n + i]
  <2>1. CASE i <= n
    <3>1. 2 * L - n + i \in 1..2 * L
      BY <1>1, <1>4, <2>1
    <3>2. h[i] = SpokenOf(seg)[2 * L - n + i]
      BY <1>4, <2>1 DEF Follows, n, L
    <3> QED
      BY <1>1, <1>3, <2>1, <3>1, <3>2, <1>4
  <2>2. CASE i = n + 1
    <3>1. 2 * L - n + i = 2 * L + 1
      BY <1>1, <1>4, <2>2
    <3> QED
      BY <1>1, <1>3, <2>2, <3>1
  <2>3. CASE i = n + 2
    <3>1. 2 * L - n + i = 2 * L + 2
      BY <1>1, <1>4, <2>3
    <3> QED
      BY <1>1, <1>3, <2>3, <3>1
  <2> QED
    BY <1>4, <2>1, <2>2, <2>3
<1>6. all[1] = Greeting
  <2>1. 1 \in 1..n
    BY <1>4
  <2> QED
    BY <1>3, <1>4, <2>1
<1>7. CASE n + 2 <= MaxHistory
  <2>1. Trim(all) = all
    BY <1>3, <1>7 DEF Trim
  <2>2. n - 1 = 2 * L
    BY <1>0, <1>4, <1>7
  <2>3. Follows(all, Append(seg, t))
    BY <1>1, <1>3, <1>4, <1>5 DEF Follows, spoken
  <2>4. all # <<>>
    BY <1>3, <1>4
  <2>5. Recent(all, Append(seg, t))
    BY <1>1, <1>3, <1>4, <1>6, <1>7, <2>2, <2>3, <2>4 DEF Recent
  <2> QED
    BY <1>3, <2>1, <2>5 DEF all, two
<1>8. CASE n + 2 > MaxHistory
  <2> DEFINE from == n + 2 - MaxHistory + 2
             rest == SubSeq(all, from, n + 2)
             new == <<Greeting>> \o rest
  <2>1. Trim(all) = new
    BY <1>0, <1>3, <1>4, <1>6, <1>8 DEF Trim, Greeting
  <2>2. from \in 3..n + 2 /\ n + 2 - from + 1 = MaxHistory - 1
    BY <1>0, <1>4, <1>8
  <2>3. /\ rest \in Seq(Entries) /\ Len(rest) = MaxHistory - 1
        /\ \A i \in 1..MaxHistory - 1 : rest[i] = all[from + i - 1]
    <3>1. \A i \in from..n + 2 : all[i] \in Entries
      BY <1>3, <2>2, <1>4
    <3>2. PICK a, b \in Int : a = from /\ b = n + 2
      BY <1>4, <2>2
    <3>3. /\ SubSeq(all, a, b) \in Seq(Entries)
          /\ Len(SubSeq(all, a, b)) = IF a <= b THEN b - a + 1 ELSE 0
          /\ \A i \in 1..b - a + 1 : SubSeq(all, a, b)[i] = all[a + i - 1]
      BY <3>1, <3>2, SubSeqProperties
    <3>4. rest = SubSeq(all, a, b)
      BY <3>2, Zenon
    <3>5. a <= b /\ b - a + 1 = MaxHistory - 1
      BY <1>4, <2>2, <3>2
    <3> HIDE DEF rest, from
    <3>6. /\ rest \in Seq(Entries) /\ Len(rest) = MaxHistory - 1
          /\ \A i \in 1..MaxHistory - 1 : rest[i] = all[a + i - 1]
      BY <3>3, <3>4, <3>5
    <3> QED
      BY <3>2, <3>6
  <2> HIDE DEF rest
  <2>4. Greeting \in Entries
    BY <1>0 DEF Greeting, Entries, Roles
  <2>5. /\ new \in Seq(Entries) /\ Len(new) = MaxHistory /\ new[1] = Greeting
        /\ \A i \in 2..MaxHistory : new[i] = rest[i - 1]
    BY <1>0, <2>3, <2>4
  <2> HIDE DEF new
  <2>6. Follows(new, Append(seg, t))
    <3>1. SUFFICES ASSUME NEW i \in 2..MaxHistory
                   PROVE  new[i] = spoken[2 * (L + 1) - MaxHistory + i]
      BY <1>1, <2>5 DEF Follows, spoken
    <3>2. new[i] = all[from + (i - 1) - 1]
      BY <1>0, <2>3, <2>5
    <3>3. from + (i - 1) - 1 = n + 2 - MaxHistory + i /\ n + 2 - MaxHistory + i \in 2..n + 2
      BY <1>0, <1>4, <1>8
    <3>4. new[i] = spoken[2 * L - n + (n + 2 - MaxHistory + i)]
      BY <1>5, <3>2, <3>3
    <3>5. 2 * L - n + (n + 2 - MaxHistory + i) = 2 * (L + 1) - MaxHistory + i
      BY <1>0, <1>1, <1>4
    <3> QED
      BY <3>4, <3>5
  <2>7. MaxHistory - 1 <= 2 * (L + 1)
    BY <1>0, <1>1, <1>4, <1>8
  <2>8. Recent(new, Append(seg, t))
    BY <1>0, <1>1, <2>5, <2>6, <2>7 DEF Recent
  <2> QED
    BY <2>1, <2>5, <2>8 DEF all, two
<1> QED
  BY <1>0, <1>4, <1>7, <1>8

\* Entry by entry or as a whole, a recent history is the same.
LEMMA RecentIsRecent ==
    ASSUME TextTypes, Recent(history, segments)
    PROVE  HistoryIsRecent
<1> DEFINE L == Len(segments)
           n == Len(history) - 1
<1>0. history \in Seq(Entries) /\ segments \in Seq(1..MaxTurns) /\ L \in Nat
  BY DEF TextTypes, Entries
<1>1. CASE history = <<>>
  BY <1>1 DEF Recent, HistoryIsRecent
<1>2. CASE history # <<>>
  <2>1. /\ n \in 0..2 * L /\ n < MaxHistory /\ (n = MaxHistory - 1 \/ n = 2 * L)
        /\ history[1] = Greeting /\ Follows(history, segments)
    BY <1>0, <1>2, ConstantsAssumption DEF Recent, ConstantsAssumption
  <2>2. Spoken = SpokenOf(segments)
    BY DEF Spoken, SpokenOf
  <2>3. \A i \in 1..2 * L : Spoken[i] \in Entries
    <3>1. SUFFICES ASSUME NEW i \in 1..2 * L PROVE SpokenOf(segments)[i] \in Entries
      BY <2>2
    <3>2. (i + 1) \div 2 \in 1..L
      BY <1>0
    <3>3. segments[(i + 1) \div 2] \in 1..MaxTurns
      BY <1>0, <3>2, ElementOfSeq
    <3> QED
      BY <3>3, ConstantsAssumption DEF SpokenOf, Entries, Roles, ConstantsAssumption
  <2>4. /\ Latest(n) \in Seq(Entries) /\ Len(Latest(n)) = n
        /\ \A i \in 1..n : Latest(n)[i] = Spoken[2 * L - n + i]
    <3>1. \A i \in 2 * L - n + 1..2 * L : Spoken[i] \in Entries
      BY <1>0, <2>1, <2>3
    <3>2. /\ Latest(n) \in Seq(Entries)
          /\ Len(Latest(n)) = IF 2 * L - n + 1 <= 2 * L THEN 2 * L - (2 * L - n + 1) + 1 ELSE 0
          /\ \A i \in 1..2 * L - (2 * L - n + 1) + 1 :
                 Latest(n)[i] = Spoken[2 * L - n + 1 + i - 1]
      BY <1>0, <2>1, <3>1, SubSeqProperties DEF Latest
    <3> QED
      BY <1>0, <2>1, <3>2
  <2>5. history = <<Greeting>> \o Latest(n)
    <3> DEFINE whole == <<Greeting>> \o Latest(n)
    <3>1. Greeting \in Entries
      BY <1>0, <1>2, <2>1
    <3>2. /\ whole \in Seq(Entries) /\ Len(whole) = n + 1 /\ whole[1] = Greeting
          /\ \A i \in 2..n + 1 : whole[i] = Latest(n)[i - 1]
      BY <2>1, <2>4, <3>1
    <3>3. Len(whole) = Len(history)
      BY <1>0, <3>2
    <3>4. ASSUME NEW i \in 1..Len(history) PROVE history[i] = whole[i]
      <4>1. CASE i = 1
        BY <2>1, <3>2, <4>1
      <4>2. CASE i # 1
        <5>1. i \in 2..n + 1 /\ i - 1 \in 1..n
          BY <1>0, <4>2
        <5>2. whole[i] = Spoken[2 * L - n + (i - 1)]
          BY <2>4, <3>2, <5>1
        <5>3. history[i] = SpokenOf(segments)[2 * L - Len(history) + i]
          BY <2>1, <1>0, <5>1 DEF Follows
        <5>4. 2 * L - n + (i - 1) = 2 * L - Len(history) + i
          BY <1>0
        <5> QED
          BY <2>2, <5>2, <5>3, <5>4
      <4> QED
        BY <4>1, <4>2
    <3> HIDE DEF whole
    <3>5. history = whole
      BY <1>0, <3>2, <3>3, <3>4, SeqEqual
    <3> QED
      BY <3>5 DEF whole
  <2> QED
    BY <1>2, <2>1, <2>5 DEF HistoryIsRecent, Greeting
<1> QED
  BY <1>1, <1>2

\* The greeting alone is a recent history of nothing.
LEMMA GreetingRecent ==
    ASSUME TextTypes, Recent(history, segments)
    PROVE  WithGreeting \in Seq(Entries) /\ Recent(WithGreeting, segments)
<1>1. CASE history = <<>>
  <2> DEFINE one == <<Greeting>>
  <2>1. Greeting \in Entries
    BY ConstantsAssumption DEF ConstantsAssumption, Greeting, Entries, Roles
  <2>2. one \in Seq(Entries) /\ Len(one) = 1 /\ one[1] = Greeting /\ one # <<>>
    BY <2>1
  <2>3. segments = <<>> /\ Len(segments) = 0
    BY <1>1 DEF Recent
  <2>4. WithGreeting = one
    BY <1>1 DEF WithGreeting, Greeting
  <2> HIDE DEF one
  <2>5. Recent(one, segments)
    BY <2>2, <2>3, ConstantsAssumption DEF Recent, Follows, ConstantsAssumption
  <2> QED
    BY <2>2, <2>4, <2>5
<1>2. CASE history # <<>>
  BY <1>2 DEF WithGreeting, TextTypes, Entries
<1> QED
  BY <1>1, <1>2

\* Every step keeps the history recent.
LEMMA TextStep ==
    FlagTypes /\ TurnTypes /\ TextTypes /\ PlaceKnown /\ Recent(history, segments) /\ [Next]_vars
        => TextTypes' /\ Recent(history, segments)'
<1> SUFFICES ASSUME FlagTypes, TurnTypes, TextTypes, PlaceKnown, Recent(history, segments),
                    [Next]_vars
             PROVE  TextTypes' /\ Recent(history', segments')
  BY DEF Recent, Follows, SpokenOf, Greeting
<1>0. history \in Seq(Entries) /\ segments \in Seq(1..MaxTurns)
  BY DEF TextTypes, Entries
<1> USE DEF textVars
<1>1. ASSUME UNCHANGED textVars PROVE TextTypes' /\ Recent(history', segments')
  BY <1>1 DEF TextTypes
<1>2. CASE \/ UNCHANGED vars
           \/ DialAccepted \/ DialRefused \/ Answer \/ AnswerWithoutAgent \/ EarStep
           \/ EndCallHangsUp \/ LineEnds \/ StateRemoved \/ StreamDrops \/ Tick
  BY <1>1, <1>2, Zenon DEF vars, DialAccepted, DialRefused, Answer, AnswerWithoutAgent, EarStep,
      HearOver, BargeIn, Hear, EndOfTurn, EndCallHangsUp, LineEnds, StateRemoved, StreamDrops,
      CloseStream, Tick
<1>3. CASE WatchStep
  BY <1>1, <1>3, Zenon DEF WatchStep, WatchSpeech, WatchHalf, WatchEnd, WatchQuiet, Nudge, Final,
      RestEnds, WatchHangsUp
<1>4. CASE \/ Start \/ Greet \/ GreetFails \/ NoReply \/ Transcribed \/ CutOff \/ SendFails
           \/ Sentence \/ StreamBreaks \/ BatchRaises \/ StreamEnds
  BY <1>1, <1>4, Zenon DEF Start, Greet, GreetFails, NoReply, Transcribed, CutOff, SendFails,
      Sentence, StreamBreaks, BatchRaises, StreamEnds, CloseStream, Leave
<1>5. CASE NoFiller \/ FillerPlays
  <2>1. history' = WithGreeting /\ segments' = segments
    BY <1>5, Zenon DEF NoFiller, FillerPlays
  <2> QED
    BY <1>0, <2>1, GreetingRecent DEF TextTypes, Entries
<1>6. CASE StreamDone \/ BatchDone
  <2>1. PICK answered, last \in BOOLEAN, more \in {0, SentenceLength} :
               Finish(answered, more, last)
    BY <1>6, DoneFinishes
  <2>2. CASE ~answered
    <3>1. UNCHANGED textVars
      BY <2>1, <2>2, Zenon DEF Finish
    <3> QED
      BY <1>1, <3>1
  <2>3. CASE answered
    <3>1. /\ history' = Trim(history \o << <<"user", turn>>, <<"assistant", turn>> >>)
          /\ segments' = Append(segments, turn)
      BY <2>1, <2>3, Zenon DEF Finish
    <3>2. pc \in {"llm", "batch"}
      BY <1>6, DoneFinishes
    <3>3. history # <<>> /\ turn \in 1..MaxTurns
      BY <3>2, ConstantsAssumption DEF PlaceKnown, TurnTypes, ConstantsAssumption
    <3>4. history' \in Seq(Entries) /\ Recent(history', segments')
      BY <1>0, <3>1, <3>3, TrimRecent
    <3>5. segments' \in Seq(1..MaxTurns)
      BY <1>0, <3>1, <3>3
    <3> QED
      BY <3>4, <3>5 DEF TextTypes, Entries
  <2> QED
    BY <2>2, <2>3
<1> QED
  BY <1>2, <1>3, <1>4, <1>5, <1>6 DEF Next, ReplyStep

-----------------------------------------------------------------------------
ConversationInv == TypeOK /\ PlaceKnown /\ AudioOwned /\ Recent(history, segments)

\* It holds at the dial.
LEMMA ConversationInit == Init => ConversationInv
<1>1. Init => Recent(history, segments)
  BY DEF Init, Recent
<1> QED
  BY <1>1, TypeInit, AudioInit DEF ConversationInv

\* Every step keeps it.
LEMMA ConversationStep == ConversationInv /\ [Next]_vars => ConversationInv'
<1> SUFFICES ASSUME ConversationInv, [Next]_vars PROVE ConversationInv'
  OBVIOUS
<1>1. /\ FlagTypes /\ CallTypes /\ AudioTypes /\ TurnTypes /\ TextTypes /\ DogTypes
      /\ PlaceKnown /\ AudioOwned /\ Recent(history, segments)
  BY TypeParts, Zenon DEF ConversationInv
<1>2. FlagTypes' /\ CallTypes' /\ AudioTypes' /\ TurnTypes' /\ DogTypes'
  BY <1>1, FlagTypesStep, CallTypesStep, AudioTypesStep, TurnTypesStep, DogTypesStep, Zenon
<1>3. TextTypes' /\ Recent(history, segments)'
  BY <1>1, TextStep, Zenon
<1>4. PlaceKnown' /\ AudioOwned'
  BY <1>1, PlaceStep, AudioStep, Zenon
<1>5. TypeOK'
  BY <1>2, <1>3 DEF TypeOK, FlagTypes, CallTypes, AudioTypes, TurnTypes, TextTypes, DogTypes
<1> QED
  BY <1>3, <1>4, <1>5, Zenon DEF ConversationInv

\* Every variable of a conversation keeps its type.
THEOREM ConversationTypes == Spec => []TypeOK
<1>1. ConversationInv => TypeOK
  BY DEF ConversationInv
<1> QED
  BY <1>1, ConversationInit, ConversationStep, PTL DEF Spec

\* What the LLM is given is the greeting and the latest of what was recorded, without a
\* gap (add_turn's trimming keeps both); and until the caller interrupts or the watchdog
\* speaks, the flag that keeps the agent's echo out is up while the agent is heard.
THEOREM ConversationAlwaysHolds == Spec => []ConversationHolds
<1>1. ConversationInv => ConversationHolds
  <2> SUFFICES ASSUME ConversationInv PROVE ConversationHolds
    OBVIOUS
  <2>1. AudioTypes /\ TextTypes
    BY TypeParts, Zenon DEF ConversationInv
  <2>2. AudioOwned /\ Recent(history, segments)
    BY Zenon DEF ConversationInv
  <2> QED
    BY <2>1, <2>2, FlagHolds, RecentIsRecent, Zenon DEF ConversationHolds
<1> QED
  BY <1>1, ConversationInit, ConversationStep, PTL DEF Spec

-----------------------------------------------------------------------------
(* The end of the call.                                                    *)

\* A step of the end of a call, the conversation at rest, is a step of CallTeardown.
LEMMA EndSteps == [EndNext]_callState => [End!Next]_(End!vars)
  BY DEF EndNext, callState

\* The types hold initially.
LEMMA TeardownTypesInit ==
    ASSUME End!ConstantsAssumption, End!Init
    PROVE  End!TypeOK
<1>1. End!CallTypes
  BY DEF End!Init, End!CallTypes
<1>2. End!AttemptTypes
  BY DEF End!Init, End!AttemptTypes, End!CallStatus, End!Durations
<1>3. End!HandlerTypes
  BY DEF End!Init, End!HandlerTypes
<1>4. End!CountTypes
  BY DEF End!Init, End!CountTypes
<1>5. End!BoundTypes
  BY End!ConstantsAssumption DEF End!ConstantsAssumption, End!Init, End!BoundTypes
<1> QED
  BY <1>1, <1>2, <1>3, <1>4, <1>5 DEF End!TypeOK

\* Every step keeps the types.
LEMMA TeardownTypesStep ==
    ASSUME End!ConstantsAssumption, End!TypeOK, [End!Next]_(End!vars)
    PROVE  End!TypeOK'
<1> USE DEF End!callVars, End!stateVars, End!attemptVars, End!writeVars, End!reportVars,
    End!taskVars, End!handlerVars,
        End!campaignVars, End!boundVars
<1>t. End!CallTypes /\ End!AttemptTypes /\ End!HandlerTypes /\ End!CountTypes /\ End!BoundTypes
  BY DEF End!TypeOK
<1>1. CASE UNCHANGED End!vars
  BY <1>1, <1>t DEF End!vars, End!TypeOK, End!CallTypes, End!AttemptTypes, End!HandlerTypes,
      End!CountTypes, End!BoundTypes
<1>2. CASE End!CallStep
  <2>1. End!CallTypes'
    BY <1>2, <1>t DEF End!CallStep, End!Answer, End!Turn, End!TenSeconds, End!LineEnds, End!CallTypes
  <2>2. End!AttemptTypes'
    BY <1>2, <1>t DEF End!CallStep, End!Answer, End!Turn, End!TenSeconds, End!LineEnds, End!AttemptTypes
  <2>3. End!HandlerTypes'
    BY <1>2, <1>t DEF End!CallStep, End!Answer, End!Turn, End!TenSeconds, End!LineEnds, End!HandlerTypes
  <2>4. End!CountTypes'
    BY <1>2, <1>t DEF End!CallStep, End!Answer, End!Turn, End!TenSeconds, End!LineEnds, End!CountTypes
  <2>5. End!BoundTypes'
    BY <1>2, <1>t, End!ConstantsAssumption
    DEF End!CallStep, End!Answer, End!Turn, End!TenSeconds, End!LineEnds, End!BoundTypes,
        End!ConstantsAssumption
  <2> QED
    BY <2>1, <2>2, <2>3, <2>4, <2>5 DEF End!TypeOK
<1>3. CASE End!HangupBegins
  <2>1. End!CallTypes'
    BY <1>3, <1>t DEF End!HangupBegins, End!CallTypes
  <2>2. End!AttemptTypes'
    BY <1>3, <1>t DEF End!HangupBegins, End!AttemptTypes
  <2>3. End!HandlerTypes'
    BY <1>3, <1>t DEF End!HangupBegins, End!Reading, End!Handler, End!CallTypes, End!AttemptTypes,
        End!HandlerTypes
  <2>4. End!CountTypes'
    BY <1>3, <1>t DEF End!HangupBegins, End!CountTypes
  <2>5. End!BoundTypes'
    BY <1>3, <1>t, End!ConstantsAssumption DEF End!HangupBegins, End!BoundTypes, End!ConstantsAssumption
  <2> QED
    BY <2>1, <2>2, <2>3, <2>4, <2>5 DEF End!TypeOK
<1>4. CASE End!EndBegins
  <2>1. End!CallTypes'
    BY <1>4, <1>t DEF End!EndBegins, End!CallTypes
  <2>2. End!AttemptTypes'
    BY <1>4, <1>t DEF End!EndBegins, End!AttemptTypes
  <2>3. End!HandlerTypes'
    BY <1>4, <1>t DEF End!EndBegins, End!Reading, End!Handler, End!CallTypes, End!AttemptTypes,
        End!HandlerTypes
  <2>4. End!CountTypes'
    BY <1>4, <1>t DEF End!EndBegins, End!CountTypes
  <2>5. End!BoundTypes'
    BY <1>4, <1>t, End!ConstantsAssumption DEF End!EndBegins, End!BoundTypes, End!ConstantsAssumption
  <2> QED
    BY <2>1, <2>2, <2>3, <2>4, <2>5 DEF End!TypeOK
<1>5. CASE End!HangupEnds
  <2>1. End!CallTypes'
    BY <1>5, <1>t DEF End!HangupEnds, End!Release, End!CallTypes
  <2>2. End!AttemptTypes'
    BY <1>5, <1>t DEF End!HangupEnds, End!StoreEnd, End!AttemptTypes, End!CallStatus,
        End!Durations, End!CallTypes
  <2>3. End!HandlerTypes'
    BY <1>5, <1>t DEF End!HangupEnds, End!HandlerTypes
  <2>4. End!CountTypes'
    BY <1>5, <1>t DEF End!HangupEnds, End!Reported, End!CountTypes
  <2>5. End!BoundTypes'
    BY <1>5, <1>t, End!ConstantsAssumption DEF End!HangupEnds, End!BoundTypes, End!ConstantsAssumption
  <2> QED
    BY <2>1, <2>2, <2>3, <2>4, <2>5 DEF End!TypeOK
<1>6. CASE End!HangupFails
  <2>1. End!CallTypes'
    BY <1>6, <1>t DEF End!HangupFails, End!Release, End!CallTypes
  <2>2. End!AttemptTypes'
    BY <1>6, <1>t DEF End!HangupFails, End!AttemptTypes
  <2>3. End!HandlerTypes'
    BY <1>6, <1>t DEF End!HangupFails, End!HandlerTypes
  <2>4. End!CountTypes'
    BY <1>6, <1>t DEF End!HangupFails, End!CountTypes
  <2>5. End!BoundTypes'
    BY <1>6, <1>t, End!ConstantsAssumption DEF End!HangupFails, End!BoundTypes, End!ConstantsAssumption
  <2> QED
    BY <2>1, <2>2, <2>3, <2>4, <2>5 DEF End!TypeOK
<1>7. CASE End!EndAsked
  <2>1. End!CallTypes'
    BY <1>7, <1>t DEF End!EndAsked, End!CallTypes
  <2>2. End!AttemptTypes'
    BY <1>7, <1>t DEF End!EndAsked, End!AttemptTypes
  <2>3. End!HandlerTypes'
    <3>0. End!Idle.at = "idle"
      BY DEF End!Idle
    <3>1. ending \in End!Handler
      BY <1>7, <1>t, <3>0 DEF End!EndAsked, End!HandlerTypes
    <3>2. ending' \in End!Handler
      BY <1>7, <1>t, <3>1 DEF End!EndAsked, End!Handler, End!CallTypes
    <3> QED
      BY <1>7, <1>t, <3>2 DEF End!EndAsked, End!HandlerTypes
  <2>4. End!CountTypes'
    BY <1>7, <1>t DEF End!EndAsked, End!CountTypes
  <2>5. End!BoundTypes'
    BY <1>7, <1>t, End!ConstantsAssumption DEF End!EndAsked, End!BoundTypes, End!ConstantsAssumption
  <2> QED
    BY <2>1, <2>2, <2>3, <2>4, <2>5 DEF End!TypeOK
<1>8. CASE End!EndCommits
  <2>1. End!CallTypes'
    BY <1>8, <1>t DEF End!EndCommits, End!Release, End!CallTypes
  <2>2. End!AttemptTypes'
    BY <1>8, <1>t DEF End!EndCommits, End!StoreEnd, End!AttemptTypes, End!CallStatus,
        End!Durations, End!CallTypes
  <2>3. End!HandlerTypes'
    BY <1>8, <1>t DEF End!EndCommits, End!HandlerTypes
  <2>4. End!CountTypes'
    BY <1>8, <1>t DEF End!EndCommits, End!CountTypes
  <2>5. End!BoundTypes'
    BY <1>8, <1>t, End!ConstantsAssumption DEF End!EndCommits, End!BoundTypes, End!ConstantsAssumption
  <2> QED
    BY <2>1, <2>2, <2>3, <2>4, <2>5 DEF End!TypeOK
<1>9. CASE End!EndFails
  <2>1. End!CallTypes'
    BY <1>9, <1>t DEF End!EndFails, End!CallTypes
  <2>2. End!AttemptTypes'
    BY <1>9, <1>t DEF End!EndFails, End!AttemptTypes
  <2>3. End!HandlerTypes'
    BY <1>9, <1>t DEF End!EndFails, End!HandlerTypes
  <2>4. End!CountTypes'
    BY <1>9, <1>t DEF End!EndFails, End!CountTypes
  <2>5. End!BoundTypes'
    BY <1>9, <1>t, End!ConstantsAssumption DEF End!EndFails, End!BoundTypes, End!ConstantsAssumption
  <2> QED
    BY <2>1, <2>2, <2>3, <2>4, <2>5 DEF End!TypeOK
<1>10. CASE End!RingWritten \/ End!AnswerWritten
  <2>1. End!CallTypes'
    BY <1>10, <1>t DEF End!RingWritten, End!AnswerWritten, End!CallTypes
  <2>2. End!AttemptTypes'
    BY <1>10, <1>t DEF End!RingWritten, End!AnswerWritten, End!AttemptTypes, End!CallStatus,
        End!Durations
  <2>3. End!HandlerTypes'
    BY <1>10, <1>t DEF End!RingWritten, End!AnswerWritten, End!HandlerTypes
  <2>4. End!CountTypes'
    BY <1>10, <1>t DEF End!RingWritten, End!AnswerWritten, End!CountTypes
  <2>5. End!BoundTypes'
    BY <1>10, <1>t, End!ConstantsAssumption
    DEF End!RingWritten, End!AnswerWritten, End!BoundTypes, End!ConstantsAssumption
  <2> QED
    BY <2>1, <2>2, <2>3, <2>4, <2>5 DEF End!TypeOK
<1>11. CASE End!SummaryReads \/ End!SummaryFails
  <2>1. End!CallTypes'
    BY <1>11, <1>t DEF End!SummaryReads, End!SummaryFails, End!CallTypes
  <2>2. End!AttemptTypes'
    BY <1>11, <1>t DEF End!SummaryReads, End!SummaryFails, End!AttemptTypes
  <2>3. End!HandlerTypes'
    BY <1>11, <1>t DEF End!SummaryReads, End!SummaryFails, End!HandlerTypes
  <2>4. End!CountTypes'
    BY <1>11, <1>t DEF End!SummaryReads, End!SummaryFails, End!Reported, End!CountTypes
  <2>5. End!BoundTypes'
    BY <1>11, <1>t, End!ConstantsAssumption
    DEF End!SummaryReads, End!SummaryFails, End!BoundTypes, End!ConstantsAssumption
  <2> QED
    BY <2>1, <2>2, <2>3, <2>4, <2>5 DEF End!TypeOK
<1>12. CASE End!ReportSuccess \/ End!ReportFailure \/ End!ReportFails
  <2>1. End!CallTypes'
    BY <1>12, <1>t DEF End!ReportSuccess, End!ReportFailure, End!ReportFails, End!CallTypes
  <2>2. End!AttemptTypes'
    BY <1>12, <1>t DEF End!ReportSuccess, End!ReportFailure, End!ReportFails, End!AttemptTypes
  <2>3. End!HandlerTypes'
    BY <1>12, <1>t DEF End!ReportSuccess, End!ReportFailure, End!ReportFails, End!HandlerTypes
  <2>4. End!CountTypes'
    BY <1>12, <1>t DEF End!ReportSuccess, End!ReportFailure, End!ReportFails, End!CountTypes
  <2>5. End!BoundTypes'
    BY <1>12, <1>t, End!ConstantsAssumption
    DEF End!ReportSuccess, End!ReportFailure, End!ReportFails, End!BoundTypes, End!ConstantsAssumption
  <2> QED
    BY <2>1, <2>2, <2>3, <2>4, <2>5 DEF End!TypeOK
<1>13. CASE End!CleanupStale \/ End!Crash
  <2>1. End!CallTypes'
    BY <1>13, <1>t DEF End!CleanupStale, End!Crash, End!CallTypes
  <2>2. End!AttemptTypes'
    BY <1>13, <1>t DEF End!CleanupStale, End!Crash, End!AttemptTypes
  <2>3. End!HandlerTypes'
    BY <1>13, <1>t DEF End!CleanupStale, End!Crash, End!HandlerTypes
  <2>4. End!CountTypes'
    BY <1>13, <1>t DEF End!CleanupStale, End!Crash, End!CountTypes
  <2>5. End!BoundTypes'
    BY <1>13, <1>t, End!ConstantsAssumption DEF End!CleanupStale, End!Crash, End!BoundTypes,
        End!ConstantsAssumption
  <2> QED
    BY <2>1, <2>2, <2>3, <2>4, <2>5 DEF End!TypeOK
<1> QED
  BY <1>1, <1>2, <1>3, <1>4, <1>5, <1>6, <1>7, <1>8, <1>9, <1>10, <1>11, <1>12, <1>13
  DEF End!Next, End!HandlerStep, End!TaskStep

\* Every variable of the end of a call keeps its type.
THEOREM TeardownTypes == EndSpec => []End!TypeOK
<1>1. EndInit => End!TypeOK
  BY EndConstants, TeardownTypesInit DEF EndInit
<1>2. End!TypeOK /\ [EndNext]_callState => End!TypeOK'
  BY EndConstants, EndSteps, TeardownTypesStep
<1> QED
  BY <1>1, <1>2, PTL DEF EndSpec

-----------------------------------------------------------------------------
(* What the counters may still grow by: a report on its way, a summary     *)
(* that will make one, a handler that will make either.                    *)

Hanging == IF hanging = End!Idle THEN 0 ELSE 1
Ending == IF ending = End!Idle THEN 0 ELSE 1

Expected == successes + failures + summaries + Hanging + Ending

CountsCovered == connected + uncompleted + Expected <= hangups + ends

\* Nothing is counted and nothing expected at the dial.
LEMMA CoveredInit == End!Init => CountsCovered
  BY DEF End!Init, CountsCovered, Expected, Hanging, Ending

\* What is expected becomes counted, or is lost; only a webhook or a press adds to it.
LEMMA CoveredStep ==
    ASSUME End!ConstantsAssumption, End!TypeOK, CountsCovered,
           [End!Next]_(End!vars)
    PROVE  CountsCovered'
<1> USE DEF CountsCovered, Expected, End!callVars, End!stateVars, End!attemptVars, End!taskVars,
        End!handlerVars, End!campaignVars, End!boundVars, End!writeVars, End!reportVars
<1>d. /\ successes \in Nat /\ failures \in Nat /\ summaries \in Nat
      /\ connected \in Nat /\ uncompleted \in Nat /\ hangups \in Nat /\ ends \in Nat
  BY End!ConstantsAssumption DEF End!ConstantsAssumption, End!TypeOK, End!CountTypes, End!BoundTypes
<1>i. End!Idle.at = "idle"
  BY DEF End!Idle
<1>h. Hanging \in Nat /\ Ending \in Nat /\ Hanging' \in Nat /\ Ending' \in Nat
  BY DEF Hanging, Ending
<1>1. CASE UNCHANGED End!vars
  BY <1>1 DEF End!vars, Hanging, Ending
<1>2. CASE End!CallStep
  BY <1>2 DEF End!CallStep, End!Answer, End!Turn, End!TenSeconds, End!LineEnds, Hanging, Ending
<1>3. CASE End!HangupBegins
  <2>0. hanging = End!Idle /\ hanging' # End!Idle /\ ending' = ending
    BY <1>3, <1>i DEF End!HangupBegins, End!Reading
  <2>1. Hanging = 0 /\ Hanging' = 1 /\ Ending' = Ending
    BY <2>0 DEF Hanging, Ending
  <2>2. /\ hangups' = hangups + 1 /\ ends' = ends
        /\ connected' = connected /\ uncompleted' = uncompleted
        /\ summaries' = summaries /\ successes' = successes /\ failures' = failures
    BY <1>3 DEF End!HangupBegins
  <2> QED
    BY <1>d, <1>h, <2>1, <2>2
<1>4. CASE End!EndBegins
  <2>0. ending = End!Idle /\ ending' # End!Idle /\ hanging' = hanging
    BY <1>4, <1>i DEF End!EndBegins, End!Reading
  <2>1. Ending = 0 /\ Ending' = 1 /\ Hanging' = Hanging
    BY <2>0 DEF Hanging, Ending
  <2>2. /\ hangups' = hangups /\ ends' = ends + 1
        /\ connected' = connected /\ uncompleted' = uncompleted
        /\ summaries' = summaries /\ successes' = successes /\ failures' = failures
    BY <1>4 DEF End!EndBegins
  <2> QED
    BY <1>d, <1>h, <2>1, <2>2
<1>5. CASE End!HangupEnds
  <2>1. Hanging = 1 /\ Hanging' = 0 /\ Ending' = Ending
    BY <1>5 DEF End!HangupEnds, Hanging, Ending
  <2>2. CASE End!Reports(hanging)
    <3>1. summaries' = summaries
      BY <1>5, <1>d, <2>2 DEF End!HangupEnds, End!Summarises, End!Reports
    <3>2. successes' + failures' = successes + failures + 1
      BY <1>5, <1>d, <2>2 DEF End!HangupEnds, End!Reported
    <3> QED
      BY <1>5, <1>d, <1>h, <2>1, <3>1, <3>2 DEF End!HangupEnds
  <2>3. CASE ~End!Reports(hanging)
    <3>1. successes' = successes /\ failures' = failures
      BY <1>5, <1>d, <2>3 DEF End!HangupEnds, End!Reported
    <3>2. summaries' <= summaries + 1
      BY <1>5, <1>d DEF End!HangupEnds
    <3> QED
      BY <1>5, <1>d, <1>h, <2>1, <3>1, <3>2 DEF End!HangupEnds
  <2> QED
    BY <2>2, <2>3
<1>6. CASE End!HangupFails
  <2>1. Hanging = 1 /\ Hanging' = 0 /\ Ending' = Ending
    BY <1>6 DEF End!HangupFails, Hanging, Ending
  <2>2. summaries' <= summaries + 1
    BY <1>6, <1>d DEF End!HangupFails
  <2> QED
    BY <1>6, <1>d, <1>h, <2>1, <2>2 DEF End!HangupFails
<1>7. CASE End!EndAsked
  <2>0. ending # End!Idle
    BY <1>7, <1>i DEF End!EndAsked
  <2>1. Ending = 1 /\ Ending' <= 1 /\ Hanging' = Hanging
    BY <1>7, <2>0 DEF End!EndAsked, Hanging, Ending
  <2> QED
    BY <1>7, <1>d, <1>h, <2>1 DEF End!EndAsked
<1>8. CASE End!EndCommits
  <2>0. ending # End!Idle
    BY <1>8, <1>i DEF End!EndCommits
  <2>1. Ending = 1 /\ Ending' = 0 /\ Hanging' = Hanging
    BY <1>8, <2>0 DEF End!EndCommits, Hanging, Ending
  <2>2. summaries' <= summaries + 1
    BY <1>8, <1>d DEF End!EndCommits
  <2> QED
    BY <1>8, <1>d, <1>h, <2>1, <2>2 DEF End!EndCommits
<1>9. CASE End!EndFails
  <2>1. Ending = 1 /\ Ending' = 0 /\ Hanging' = Hanging
    BY <1>9 DEF End!EndFails, Hanging, Ending
  <2> QED
    BY <1>9, <1>d, <1>h, <2>1 DEF End!EndFails
<1>10. CASE End!RingWritten \/ End!AnswerWritten \/ End!SummaryReads \/ End!SummaryFails
  <2>1. Hanging' = Hanging /\ Ending' = Ending
    BY <1>10 DEF End!RingWritten, End!AnswerWritten, End!SummaryReads, End!SummaryFails, Hanging, Ending
  <2>2. CASE End!RingWritten \/ End!AnswerWritten \/ End!SummaryFails
    BY <1>d, <1>h, <2>1, <2>2 DEF End!RingWritten, End!AnswerWritten, End!SummaryFails
  <2>3. CASE End!SummaryReads
    <3>1. successes' + failures' = successes + failures + 1
      BY <1>d, <2>3 DEF End!SummaryReads, End!Reported
    <3> QED
      BY <1>d, <1>h, <2>1, <2>3, <3>1 DEF End!SummaryReads
  <2> QED
    BY <1>10, <2>2, <2>3
<1>11. CASE End!ReportSuccess \/ End!ReportFailure \/ End!ReportFails
  <2>1. Hanging' = Hanging /\ Ending' = Ending
    BY <1>11 DEF End!ReportSuccess, End!ReportFailure, End!ReportFails, Hanging, Ending
  <2> QED
    BY <1>11, <1>d, <1>h, <2>1 DEF End!ReportSuccess, End!ReportFailure, End!ReportFails
<1>12. CASE End!CleanupStale
  BY <1>12 DEF End!CleanupStale, Hanging, Ending
<1>13. CASE End!Crash
  <2>1. Hanging' = 0 /\ Ending' = 0
    BY <1>13 DEF End!Crash, Hanging, Ending
  <2> QED
    BY <1>13, <1>d, <1>h, <2>1 DEF End!Crash
<1> HIDE DEF CountsCovered
<1> QED
  BY <1>1, <1>2, <1>3, <1>4, <1>5, <1>6, <1>7, <1>8, <1>9, <1>10, <1>11, <1>12, <1>13
  DEF End!Next, End!HandlerStep, End!TaskStep

\* Calls_connected and calls_failed grow by one at most for each hangup webhook and
\* each press of the end button: a summary and a report are never both made.
THEOREM CountsNeverAhead == EndSpec => []CountsBounded
<1>1. EndInit => End!TypeOK /\ CountsCovered
  BY EndConstants, TeardownTypesInit, CoveredInit DEF EndInit
<1>2. End!TypeOK /\ CountsCovered /\ [EndNext]_callState => End!TypeOK' /\ CountsCovered'
  BY EndConstants, EndSteps, TeardownTypesStep, CoveredStep
<1>3. End!TypeOK /\ CountsCovered => CountsBounded
  <2> SUFFICES ASSUME End!TypeOK, CountsCovered PROVE CountsBounded
    OBVIOUS
  <2>1. /\ successes \in Nat /\ failures \in Nat /\ summaries \in Nat
        /\ connected \in Nat /\ uncompleted \in Nat /\ hangups \in Nat /\ ends \in Nat
    BY EndConstants DEF End!ConstantsAssumption, End!TypeOK, End!CountTypes, End!BoundTypes
  <2>2. Hanging \in Nat /\ Ending \in Nat
    BY DEF Hanging, Ending
  <2> QED
    BY <2>1, <2>2 DEF CountsCovered, Expected, CountsBounded, End!CountsBounded
<1> QED
  BY <1>1, <1>2, <1>3, PTL DEF EndSpec
=============================================================================
