SPECIFICATION Spec
CONSTANTS
    r1 = r1
    r2 = r2
    ann = ann
    good = good
    loose = loose
    wrong = wrong
    broken = broken
    endless = endless
    hang = hang
    None = None
    Empty = Empty
    Mixed = Mixed
    ShellError = ShellError
    User = {ann}
    Req = {r1, r2}
    Lang = {"c", "py"}
    Problem = {1}
    Code = {good, wrong}
    Text = {"xy", "z", "between", "none"}
    MaxTests = 2
    MaxClock = 1
    MayKill = TRUE
    Tests <- TestsOf
    Expected <- ExpectedOf
    Prints <- PrintsOf
    Hangs <- HangsOn
    Broken <- BrokenOnes
    Endless <- EndlessOnes
SYMMETRY Symm
INVARIANTS IInv ScoreIsOwn
PROPERTY ImplementsGrading
CHECK_DEADLOCK FALSE
