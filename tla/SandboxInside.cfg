CONSTANTS
    Source <- MCSource
    File <- MCFile
    Folder <- MCFolder
    Ignored = {"cache"}
    Root <- MCInside
    MaxPath = 9
    Unreliable = {}
SPECIFICATION CopySpec
INVARIANTS
    CheckoutIsCopied
CHECK_DEADLOCK FALSE
