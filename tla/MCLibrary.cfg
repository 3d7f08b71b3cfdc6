SPECIFICATION Spec
CONSTANTS
    Word = 64
    Hashes = {1, 2}
    Imdb = {m1, m2}
    Size <- MCSize
    Budget = 2
    MinFree = 1
    DiskSize = 3
    Grace = 1
    Stamps = {}
    Api = {a1, a2}
    Sweepers = {sw}
    Announcers = {tr}
    OrphansStay = FALSE
    StoreFails = TRUE
    NoOne = NoOne
    NoRow = NoRow
    NoMovie = NoMovie
    MaxTime = 1
    m1 = m1
    m2 = m2
    a1 = a1
    a2 = a2
    sw = sw
    tr = tr
SYMMETRY MCSymmetry
INVARIANT TypeOK
INVARIANT BudgetKept
PROPERTY RestartHeals
