CONSTANTS
    Thread <- MCThread
    Burst = 2
    TicksPerToken = 2
    MaxCalls = 2
    MaxTime = 4
    Rpm = 10
    Floor = 3
SPECIFICATION FairSpec
INVARIANTS
    AdmissionRate
    WaitedIsSlept
PROPERTIES
    ImplementsLeakyBucket
    EveryCallReturns
CHECK_DEADLOCK FALSE
