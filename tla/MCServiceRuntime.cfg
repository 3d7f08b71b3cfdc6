CONSTANTS
    Deadline = 2
    HttpGrace = 1
    ReadyDelay = 1
    Watchdog = 4
    StopTimeout = 3

SPECIFICATION FairSpec

INVARIANTS
    TypeOK
    StopsByDeadline
    CleanExitRanHooks
    HealthyNeverKilled
    KilledOnlyBehindReloadOrProbe

PROPERTIES
    NoReadyAfterStopping
    WedgedIsRestarted
