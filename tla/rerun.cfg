\* The main instance, for what a run after a completed run discovers.
SPECIFICATION Spec
CONSTANTS
    a = a   b = b
    x = x   y = y   z = z   row = row
    exA = exA   exB = exB   last = last
    sA = sA   sB = sB
    NoStream = NoStream
    NoSource = NoSource
    NoSpec = NoSpec
    Sources = {a, b}
    Ids = {x, y, z, row}
    Stages = {exA, exB, last}
    Streams = {sA, sB}
    Specs = {c1, c2}
    Objects <- MCObjects
    Schedule <- MCSchedule
    SourceStream <- MCSourceStream
    InputStreams <- MCInputStreams
    OutputStream <- MCOutputStream
    ExtractFrom <- MCExtractFrom
    Outputs <- MCOutputs
    SkipOnError = {exB}
    BatchStages = {last}
    OnSuccess = "MoveToHistorical"
    OnFailure = "None"
PROPERTY RerunEnumeratesNewObjects
