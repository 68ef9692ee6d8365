CONSTANTS
    WelcomeLength = 1
    FillerLength = 1
    SentenceLength = 1
    NudgeLength = 1
    MaxSentences = 1
    Period = 1
    Silence = 2
    MaxHistory = 4
    MaxTurns = 2
    MaxBarges = 1
    MaxFaults = 1
SPECIFICATION FairSpec
INVARIANT ConversationHolds
PROPERTY AgentListensAgain
CHECK_DEADLOCK FALSE
