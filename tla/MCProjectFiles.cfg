SPECIFICATION Spec
SYMMETRY Symmetry
CONSTANTS
    r1 = r1
    r2 = r2
    readme = readme
    skeleton = skeleton
    Revisions = {r1, r2}
    Tracked <- TheTracked
    Others = {readme}
    Names = {skeleton, n1}
    NewNames = {n1}
    MaxVersion = 3
    Creators = {c1, c2}
    Clock = {1, 2}
    Generators = {g1, g2}
    LockNames = {1, 2, 3, 4}
    LockLength = 4
INVARIANTS
    TypeOK
    PairOrNothing
    ReportedFilesExist
    LaterIsNewer
    CheckoutRemoved
    SuccessIsComplete
    LockStaysSorted
CHECK_DEADLOCK TRUE
