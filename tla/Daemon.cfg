\* Three processes and one fault, a crash or a start that fails.
SPECIFICATION FairSpec
CONSTANTS
    MaxProcs = 3
    MaxFaults = 1
INVARIANTS OneDaemonUnlessUnlinked DaemonIsFound NothingIsLeft
PROPERTIES LeftoversBlockNobody CommandsEnd
CHECK_DEADLOCK FALSE
