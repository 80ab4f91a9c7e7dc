\* Two stages of one batch that write the same resource.
SPECIFICATION PartsSpec
CONSTANTS
    s1 = s1  s2 = s2  s3 = s3  r1 = r1  r2 = r2  r3 = r3
    root = root  sub = sub  f1 = f1  f2 = f2
    i1 = i1  i2 = i2  o1 = o1  o2 = o2  o3 = o3  b1 = b1  b2 = b2
    N = 3
    Concurrencies <- MCConcurrencies
    MaxAttempts <- MCMaxAttempts
    MaxRevisions = {0, 2}
    LlmAttempts = {0, 2}
    Stages = {s1, s2, s3}
    Resources = {r1, r2, r3}
    Declarations <- MCDeclarations
    Folders = {root, sub}
    Files = {f1, f2}
    Adapters = {"google_drive", "filesystem", "gcs", "sftp", "slack"}
    Roots <- MCRoots
    Rules <- MCRules
    PageSize = 1
    MaxMoved = 1
    Askers = {c1, c2}
    Lifetime = 3
    Margin = 1
    MaxTime = 5
    first = first  second = second
    PushOrder <- MCPushOrder
    Requests = {p1, p2, p3}
    Capacity = 2
    BatchLimit = 1
    SelfClosing = {first, second}
    MaxClock = 2
    SinkItems = {i1, i2}
    Invalid = {i1}
    Recordless = {i1}
    Kinds = {"kafka", "gcs"}
    Filters = {"all", "valid_only", "errors_only"}
    SinkAttempts = 2
    MaxDay = 1
    Objects = {o1, o2, o3}
    Order <- MCOrder
    Bases = {b1, b2}
    BaseOf <- MCBaseOf
    MaxUploads = 2
    MaxMoves = 2
INVARIANTS
    WritersApart
CHECK_DEADLOCK FALSE
