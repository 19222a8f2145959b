SPECIFICATION FairSpec
CONSTANTS
    r1 = r1
    r2 = r2
    ann = ann
    good = good
    loose = loose
    wrong = wrong
    broken = broken
    endless = endless
    hang = hang
    None = None
    Empty = Empty
    Mixed = Mixed
    ShellError = ShellError
    User = {ann}
    Req = {r1, r2}
    Lang = {"c"}
    Problem = {1, 2, 3}
    Code = {good, loose, broken, endless, hang}
    Text = {"xy", "z", "between", "none"}
    MaxTests = 3
    MaxClock = 0
    MayKill = FALSE
    Tests <- TestsOf
    Expected <- ExpectedOf
    Prints <- PrintsOf
    Hangs <- HangsOn
    Broken <- BrokenOnes
    Endless <- EndlessOnes
INVARIANTS AcceptedSolvesAll TableConfirmsScore
PROPERTY VerdictComes
CHECK_DEADLOCK FALSE
