CONSTANTS
    Cards = {c1, c2}
    NoCard = NoCard
    Modes = {"door", "machine"}
    Success <- MCSuccess
    Error <- MCError
    Sound <- MCSound
    Poll <- MCPoll
    Pause <- MCPause
    Attempt <- MCAttempt
    Attempts <- MCAttempts
    Gap <- MCGap
    Watchdog <- MCWatchdog
SPECIFICATION Spec
INVARIANTS TypeOK OutputIsRight OneScanPerVisit FedInTime
SYMMETRY MCSymmetry
