SPECIFICATION Spec
CONSTANTS
    Torrents = {1}
    Api = {a1, a2}
    Announcers = {}
    Watch = Watch
    NoOne = NoOne
    NoPause = NoPause
    Forever = Forever
    Durations = {0, 1, 2}
    MaxPause = 1
    MaxActive = 1
    KeepSeeding = FALSE
    Managed = FALSE
    DiskMayVanish = TRUE
    Disconnects = FALSE
    MaxTime = 1
    a1 = a1
    a2 = a2
SYMMETRY ApiSymmetry
INVARIANT TypeOK
INVARIANT NoAddWhilePaused
INVARIANT DiskPauseInMemoryOnly
INVARIANT PauseWindow
PROPERTY ImplementsSwitch
