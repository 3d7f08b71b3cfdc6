SPECIFICATION FairSpec
CONSTANTS
    Torrents = {1}
    Api = {a1}
    Announcers = {}
    Watch = Watch
    NoOne = NoOne
    NoPause = NoPause
    Forever = Forever
    Durations = {1}
    MaxPause = 1
    MaxActive = 1
    KeepSeeding = FALSE
    Managed = TRUE
    DiskMayVanish = TRUE
    Disconnects = FALSE
    MaxTime = 1
    a1 = a1
PROPERTY TimedPauseEnds
