SPECIFICATION Spec
CONSTANTS
    Torrents = {1}
    Api = {a1, a2}
    Announcers = {tr}
    Watch = Watch
    NoOne = NoOne
    NoPause = NoPause
    Forever = Forever
    Durations = {1, 2}
    MaxPause = 2
    MaxActive = 1
    KeepSeeding = FALSE
    Managed = FALSE
    DiskMayVanish = FALSE
    Disconnects = TRUE
    MaxTime = 2
    a1 = a1
    a2 = a2
    tr = tr
SYMMETRY ApiSymmetry
INVARIANT PauseSurvivesRestart
PROPERTY FinishedStayPaused
