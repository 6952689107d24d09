CONSTANTS
    Source <- MCSource
    File <- MCFile
    Folder <- MCFolder
    Ignored = {"cache"}
    Root <- MCRoot
    MaxPath = 7
    Unreliable <- MCUnreliable
    NumCases = 3
    MaxToolCalls = 2
    ToolModule = {"code", "git"}
SPECIFICATION Spec
INVARIANTS
    CopyFaithful
    OutcomesAreOwn
    ExitTruthful
    ExitTellsReport
    NothingLeftBehind
    RegistryComplete
