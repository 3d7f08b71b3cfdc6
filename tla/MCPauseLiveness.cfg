SPECIFICATION FairSpec
CONSTANTS
    Torrents = {1}
    Api = {a1}
    Announcers = {tr}
    Watch = Watch
    NoOne = NoOne
    NoPause = NoPause
    Forever = Forever
    Durations = {}
    MaxPause = 1
    MaxActive = 1
    KeepSeeding = FALSE
    Managed = FALSE
    DiskMayVanish = TRUE
    Disconnects = TRUE
    MaxTime = 0
    a1 = a1
    tr = tr
PROPERTY LooseIsRepaused
PROPERTY DiskPauseLifts
PROPERTY FinishedStops
