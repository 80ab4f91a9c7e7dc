\* Two builders and two calls of each kind, edited content.
CONSTANTS
    base = base  extra = extra
    x = x  y = y
    b1 = b1  b2 = b2
    n1 = n1  n2 = n2  n3 = n3
    Dirs = {base, extra}
    Base = base
    Names = {x, y}
    Extractable <- MCExtractable
    MaxClock = 2
    Builders = {b1, b2}
    BatchSize = 2
    MaxStarts = 2
    FailFast = FALSE
    MaxBuilds = 2
    NodeOf <- MCNodeOf
    Links <- MCLinks
    ManualEdges <- MCManualEdges
    StopOnError = FALSE
    MaxGraphBuilds = 2
    Ids = {n1, n2, n3}
    Relationships = {"prerequisite", "covers", "variant_of"}
    SavedGraphs <- MCSavedGraphs
    Copies = 2
    MaxEdges = 3
    MaxChanges = 2
    MaxDepth = 2
    Filters <- MCFilters
    Validators = {v1, v2}
    Kids = {k1}
    CacheTtl = 1
    FetchDelay = 1
    KeyTime = 3
SPECIFICATION Spec
SYMMETRY Symmetries
INVARIANTS
    TypeOK
    BaseIndexedOnce
    FreshIndexIsWhole
    CacheIsWhole
    GraphCacheIsWhole
    ViewsAgree
    PathCanBeFollowed
    AnswersAreRight
    KeysAreCurrent
\* The bounds on calls and on the clock are reached.
CHECK_DEADLOCK FALSE
