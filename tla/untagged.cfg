\* No source has a stream: every stage of a batch sees every item.
SPECIFICATION Spec
CONSTANTS
    a = a   b = b
    x = x   y = y   z = z   row = row
    exA = exA   exB = exB   last = last
    sA = sA   sB = sB
    NoStream = NoStream
    NoSource = NoSource
    NoSpec = NoSpec
    Sources = {a, b}
    Ids = {x, y, z, row}
    Stages = {exA, exB, last}
    Streams = {sA, sB}
    Specs = {c1, c2}
    Objects <- MCObjects
    Schedule <- MCSchedule
    SourceStream <- UntaggedSourceStream
    InputStreams <- UntaggedInputStreams
    OutputStream <- MCOutputStream
    ExtractFrom <- MCExtractFrom
    Outputs <- MCOutputs
    SkipOnError = {exB}
    BatchStages = {last}
    OnSuccess = "MoveToHistorical"
    OnFailure = "None"
INVARIANT ExtractStaysOnItsSource
