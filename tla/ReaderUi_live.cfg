CONSTANTS
    Cards = {c1}
    NoCard = NoCard
    Modes = {"machine"}
    Success <- MCSuccess
    Error <- MCError
    Sound <- MCSound
    Poll <- MCPoll
    Pause <- MCPause
    Attempt <- MCAttempt
    Attempts <- MCAttempts
    Gap <- MCGap
    Watchdog <- MCWatchdog
SPECIFICATION FairSpec
PROPERTY ReaderReturns
