SPECIFICATION Spec
CONSTANTS
    r1 = r1
    r2 = r2
    r3 = r3
    r4 = r4
    su = su
    ann = ann
    bob = bob
    good = good
    bad = bad
    new = new
    Req = {r1, r2, r3}
    Name = {su, ann, bob}
    Password = {good, bad, new}
    Su = su
    SuPassword = good
    Query <- Requests
    None = None
    Torn = Torn
SYMMETRY Symm
INVARIANTS AccountsDistinct AccountsLast OwnLines
CHECK_DEADLOCK FALSE
