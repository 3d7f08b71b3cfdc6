SPECIFICATION FairSpec
CONSTANTS
    Torrents = {1, 2}
    Api = {a1}
    Announcers = {}
    Watch = Watch
    NoOne = NoOne
    NoPause = NoPause
    Forever = Forever
    Durations = {1}
    MaxPause = 1
    MaxActive = 1
    KeepSeeding = FALSE
    Managed = FALSE
    DiskMayVanish = FALSE
    Disconnects = FALSE
    MaxTime = 0
    a1 = a1
PROPERTY QueueSettles
PROPERTY QueueMoves
