CONSTANTS
    Tool <- MCTool
    Handler <- MCHandler
    Invented <- MCInvented
    Arguments <- MCArguments
    MaxTurns = 2
    MaxCalls = 2
SPECIFICATION Spec
INVARIANTS
    ResultsReachCalls
    HistoryAsSaid
    AdvertisedIsExecuted
    HandlersBind
    TraceTellsRun
