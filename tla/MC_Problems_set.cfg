SPECIFICATION Spec
CONSTANTS
    r1 = r1
    r2 = r2
    r3 = r3
    ann = ann
    Req = {r1, r2, r3}
    User = {ann}
    Query <- Requests
    Shipped = 2
    ShippedCases = 1
    MaxCases = 2
    None = None
SYMMETRY Symm
INVARIANTS NumbersUnique ProblemsLast MarkIsEarned
CHECK_DEADLOCK FALSE
