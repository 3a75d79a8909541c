SPECIFICATION Spec
CONSTANTS
    users = users
    posts = posts
    r1 = r1
    r2 = r2
    Table <- MCTable
    Request <- MCRequest
    Keep = 1
    ListCap = 2
    MaxVersion = 2
    MaxSecond = 0
    MaxKey = 2
SYMMETRY MCSymmetry
INVARIANT NoPartialImport
CHECK_DEADLOCK FALSE
