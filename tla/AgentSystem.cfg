CONSTANTS
    Tool <- MCTool
    NamespaceOf <- MCNamespaceOf
    ScopeOf <- MCScopeOf
    AnalyzeFailure = "analyze_failure"
    ReviewPatch = "review_patch"
    Load = "load"
    NoSuchTool = "no_such_tool"
    MaxToolCalls = 2
    AnalystCalls = 1
    ReviewerCalls = 2
    DynamicTools = FALSE
    MaxTurnCalls = 2
SPECIFICATION Spec
INVARIANTS
    RequestsWellPaired
    LedgerMatchesResults
    OneLevelOfSubagents
    RequestsBounded
    ReportedCalls
PROPERTIES
    SubagentNeverEdits
    ParentIsolated
    ImplementsBoundedAgent
