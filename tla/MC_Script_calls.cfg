SPECIFICATION HandleSpec
CONSTANTS
    PipeSize = 1
    Buffer = 2
    Hold = 3
    MaxHops = 1
    DocSize = 2
    Incoming <- Requests
    Sites <- SiteTable
INVARIANTS ScriptIsGone AnswerIsWhole NobodyWaits MembersServed AskedWhenItHelps HopAsDirect MatchIsGlob ListingIsSorted
PROPERTIES RequestEnds
CHECK_DEADLOCK FALSE
