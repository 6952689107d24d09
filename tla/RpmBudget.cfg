CONSTANTS
    Thread <- MCThread
    Burst = 5
    TicksPerToken = 1
    MaxCalls = 31
    MaxTime = 27
    Rpm = 30
    Floor = 6
SPECIFICATION PromptSpec
INVARIANTS
    UnderRpm
CHECK_DEADLOCK FALSE
