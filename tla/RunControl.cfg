SPECIFICATION FairSpec
CONSTANTS
    a0 = a0
    a1 = a1
    a2 = a2
    Addr <- MCAddr
    ResetPc = a0
    Entry = a1
    Code <- MCCode
    FetchFault <- MCFetchFault
    DataFault <- MCDataFault
INVARIANTS
    StepBudget
    StopLatency
    HaltIsFinal
PROPERTIES
    BreakpointStopsRun
    ControlSpec
    RunHonoured
    StopHonoured
    CloseHonouredAwake
