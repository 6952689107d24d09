CONSTANTS
    File <- MCFile
    Version = {"bug", "fix"}
    Missing = "missing"
    PatchFile = "patch"
    Baseline <- MCBaseline
    Branch = {"main", "topic"}
    Main = "main"
    NoBranch = "HEAD"
    MaxCommits = 2
    MaxToolCalls = 4
    GreenTree <- MCGreenTree
    RemoteTree <- MCRemoteTree
SPECIFICATION Spec
INVARIANTS
    PullCarriesFix
