CONSTANTS
    hup = hup
    api = api
    Refreshers = {hup, api}
    Caller <- MCCaller
    Config <- MCConfig
    Listings <- MCListings
    StaleAfter = 1
    MaxTime = 2

SPECIFICATION Spec

INVARIANTS
    TypeOK
    StaleNeverServed
    ActiveFollowsList
