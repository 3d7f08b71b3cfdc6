SPECIFICATION Spec
CONSTANTS
    Hashes <- MCHashes
    Titles = {1, 2}
    Times = {1, 2}
    Page = 1
    Queries = {{1, 2}, {2}}
    Patched = {1}
    Clients = {c1, c2}
    Limits = {0, 1}
    Connected = {"player", "api"}
    c1 = c1
    c2 = c2
VIEW Watched
SYMMETRY ClientSymmetry
CONSTRAINT Apart
INVARIANT TypeOK
INVARIANT WalkSeesAll
INVARIANT ShownResolves
INVARIANT LimitsAsAsked
