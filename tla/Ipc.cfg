SPECIFICATION FairSpec
CONSTANTS
    Clients = {c1, c2}
    Strangers = {c2}
    Operations = {op}
    MaxOps = 1
    MaxConns = 1
    SeqMax = 7
    MaxConnects = 2
    MaxRequests = 3
    MaxStops = 1
INVARIANTS AnswerIsToItsRequest DesyncOnlyAfterRefusal SlotsMatchTasks
PROPERTIES RequestsEnd TasksEnd
CHECK_DEADLOCK FALSE
