CONSTANTS
    Values = {a, b, bad, long}
    Refused = {bad}
    TooLong = {long}
    Tries = 1
    MaxId = 5
    MaxFaults = 2
    Plugs = 1
    Nothing = Nothing
    Topics = {"#", "prismo/one"}
    All = "#"
    Subtopics = {"scan", "trigger"}
    Trigger = "trigger"
    Cap <- MCCap
    MaxClients = 2
    MaxHeard = 3
    MaxSent = 1
    Cards = {"c1", "c2"}
    Names = {"Alice"}
    Keys = {"k1", "k2"}
    None = "none"
SPECIFICATION PartSpec
INVARIANTS AllTypesOK PageIsTrue ConnectedIsTrue Matched ViewerIsTrue
PROPERTIES Settles AccessIsRight
CHECK_DEADLOCK FALSE
