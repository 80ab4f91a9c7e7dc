\* The main instance: two tagged sources, an item stage that may fail, one
\* that skips what fails, a batch stage at the end.
SPECIFICATION Spec
CONSTANTS
    a = a   b = b
    x = x   y = y   z = z   row = row
    exA = exA   exB = exB   last = last
    sA = sA   sB = sB
    NoStream = NoStream
    NoSource = NoSource
    NoSpec = NoSpec
    Sources = {a, b}
    Ids = {x, y, z, row}
    Stages = {exA, exB, last}
    Streams = {sA, sB}
    Specs = {c1, c2}
    Objects <- MCObjects
    Schedule <- MCSchedule
    SourceStream <- MCSourceStream
    InputStreams <- MCInputStreams
    OutputStream <- MCOutputStream
    ExtractFrom <- MCExtractFrom
    Outputs <- MCOutputs
    SkipOnError = {exB}
    BatchStages = {last}
    OnSuccess = "MoveToHistorical"
    OnFailure = "None"
INVARIANTS
    CheckpointAtBoundary
    NoConfigMix
    HashesMatchCheckpoint
    PendingItemsWait
    StagesInOrder
    FirstRunIsComplete
    RemovedAfterCompletion
PROPERTIES
    NoEffectTwice
    CheckpointNeverRegresses
    EveryRunEnds
