SPECIFICATION Spec
CONSTANTS
    r1 = r1
    r2 = r2
    r3 = r3
    r4 = r4
    Req = {r1, r2, r3, r4}
    User = {"ann", "bob", "1001"}
    Accounts <- AccountList
    Problem = {"1001", "1002"}
    PageSize = 2
    Admin = {"ann"}
    Workload <- Workloads
    None = None
    Outside = Outside
SYMMETRY Symm
INVARIANTS PostsLast ShownTogether MessageArrives AnnouncementIsLast RankingTrue 
CHECK_DEADLOCK FALSE
