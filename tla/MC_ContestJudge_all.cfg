SPECIFICATION FairSpec
CONSTANTS
    r1 = r1
    r2 = r2
    ann = ann
    loose = loose
    broken = broken
    hang = hang
    stuck = stuck
    None = None
    Empty = Empty
    Mixed = Mixed
    ShellError = ShellError
    bob = bob
    User = {ann}
    Contest = {1}
    Participant <- Everybody
    UserId <- UserIds
    Req = {r1, r2}
    Lang = {"cpp", "py"}
    Problem = {1, 2}
    Code = {loose, broken, hang, stuck}
    Text = {"xy", "z", "between", "none"}
    MaxTests = 4
    MaxClock = 1
    MayKill = TRUE
    Tests <- TestsOf
    Expected <- ExpectedOf
    Prints <- PrintsOf
    Hangs <- HangsOn
    Broken <- BrokenOnes
    Endless <- EndlessOnes
    Stubborn <- StubbornOnes
INVARIANTS VerdictIsOwn FilesRemoved
PROPERTIES ImplementsGrading SubmissionEnds
CHECK_DEADLOCK FALSE
