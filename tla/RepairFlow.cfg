CONSTANTS
    File <- MCFewFiles
    Version = {"bug", "fix"}
    Missing = "missing"
    PatchFile = "patch"
    Baseline <- MCFewBaseline
    Branch = {"main", "topic"}
    Main = "main"
    NoBranch = "HEAD"
    MaxCommits = 2
    MaxToolCalls = 6
    GreenTree <- MCFewGreen
    RemoteTree <- MCFewRemote
SPECIFICATION FairSpec
INVARIANTS
    GateTruthful
    NoPatchLeftBehind
PROPERTIES
    ScratchIsolated
    CheckoutKeepsEdits
    FlowEnds
