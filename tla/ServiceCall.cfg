CONSTANTS
    Hint <- MCHint
    MaxCalls = 2
SPECIFICATION FairSpec
INVARIANTS
    DuplicatesExplained
    WaitBounded
    
PROPERTIES
    EveryCallEnds
