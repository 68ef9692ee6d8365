CONSTANTS
    WelcomeLength = 1
    FillerLength = 1
    SentenceLength = 1
    NudgeLength = 1
    MaxSentences = 1
    Period = 1
    Silence = 2
    MaxHistory = 4
    MaxTurns = 2
    MaxBarges = 1
    MaxFaults = 1
    MaxHangups = 2
    MaxEnds = 2
    MaxCrashes = 1
    MaxErrors = 1
SPECIFICATION FairEndSpec
INVARIANT CountsBounded
PROPERTY SettledAfterHangup
PROPERTY StateReleased
CHECK_DEADLOCK FALSE
