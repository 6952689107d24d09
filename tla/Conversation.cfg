CONSTANTS
    TokenBudget = 650
    KeepRecent = 1
    SystemChars = 100
    TaskChars = 100
    LineChars = 30
    ResultChars <- MCResultChars
    TurnTokens <- MCTurnTokens
    MaxTurnCalls = 2
    MaxMessages = 8
SPECIFICATION Spec
INVARIANTS
    RecentVerbatim
    OldestFirst
    StubTellsSize
    OverBudgetOnlyIfCut
PROPERTIES
    ImplementsAtomicCompaction
