SPECIFICATION Spec
CONSTANTS
    r1 = r1
    r2 = r2
    r3 = r3
    r4 = r4
    su = su
    ann = ann
    bob = bob
    Req = {r1, r2, r3}
    User = {su, ann, bob}
    Admin = {su}
    Problem = {1}
    UserId <- UserIds
    SecondId <- NewIds
    Query <- Timed
    MaxClock = 4
SYMMETRY Symm
PROPERTIES TimesAreKept
CHECK_DEADLOCK FALSE
