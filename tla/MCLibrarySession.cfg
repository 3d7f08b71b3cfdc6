SPECIFICATION Spec
CONSTANTS
    Word = 64
    Hashes = {2, 3, 4}
    Imdb = {m1, m2}
    Size <- MCSize
    Budget = 2
    MinFree = 0
    DiskSize = 4
    Grace = 0
    Stamps <- MCPast
    Api = {a1, a2}
    Sweepers = {}
    Announcers = {}
    OrphansStay = FALSE
    StoreFails = FALSE
    NoOne = NoOne
    NoRow = NoRow
    NoMovie = NoMovie
    MaxTime = 0
    m1 = m1
    m2 = m2
    a1 = a1
    a2 = a2
SYMMETRY MCSymmetry
INVARIANT SessionWithinBudget
