CONSTANTS
    Tool <- MCTool
    NamespaceOf <- MCNamespaceOf
    ScopeOf <- MCScopeOf
    AnalyzeFailure = "analyze_failure"
    ReviewPatch = "review_patch"
    Load = "load"
    NoSuchTool = "no_such_tool"
    MaxToolCalls = 2
    AnalystCalls = 1
    ReviewerCalls = 2
    DynamicTools = TRUE
    MaxTurnCalls = 1
SPECIFICATION FairSpec
INVARIANTS
    SessionBound
PROPERTIES
    MenuGrows
    Termination
