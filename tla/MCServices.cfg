SPECIFICATION MCSpec
CONSTANTS
    \* StoreReads
    RootKeys = {1, 2}
    Episodes = {1, 2}
    Refs = {"a", "b"}
    KeyOf <- MCKeyOf
    Natives = {x}
    Providers = {p, none}
    NoName = none
    Tags = {en}
    Limits = {0, 1, 2}
    MaxLimit = 2
    Highest <- MCHighest
    MaxInt = 3
    MaxEdits = 2
    \* ChangeFeed
    Roots = {r1, r2}
    Insts = {i1}
    NoInst = NoInst
    Retention = 1
    MaxRev = 3
    MaxEpoch = 1
    \* OpenSubtitles
    Calls = {c1, c2}
    Downloads = {c1}
    Pages = 2
    MaxAttempts = 2
    MaxTokens = 2
    \* ArrHistory
    Overlap = 2
    MaxNow = 6
    MaxRecords = 2
    MaxLate = 2
    MaxAhead = 3
    \* HDBits
    Fetchers = {f1, f2, f3}
    Packs = {p1, p2, p3}
    Oversize = {p3}
    MaxEntries = 1
    Torrents = 3
    Workers = 2
    MaxFetches = 4
    MaxClears = 1
    \* AniDB
    Callers = {"c", "d"}
    Asked <- MCAsked
    AnimeList <- MCAnimeList
    Has <- MCHas
    \* SourceSet
    NativeRefs = {"a", "b", "c", "x"}
    Foreign = {"x"}
    MaxListed = 4
    WalkFailBudget = 2
    MaxUnreadRoots = 1
    Viewers = {v, w}
    MaxEntryEdits = 1
INVARIANTS
    PagesComplete
    RowsHaveParents
    OrdinalsRise
    AsleepIsCurrent
    LoginNeeded
    HistoryWhole
    CachesWhole
    AnswersWhole
PROPERTY CallersAnswered
CHECK_DEADLOCK FALSE
