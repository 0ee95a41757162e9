CONSTANTS
    NaN = NaN
    stdin = stdin
    a = a
    none = none
    pipe = pipe
    b = b
    Streams <- MCStreams
    StdIn <- stdin
    NoFile <- none
    Data <- MCData
    Commands <- MCCommands
    MaxOut = 9
    BUF_SZ = 4
    Size <- MCSize
    RangeStreams <- MCRangeStreams
    RangeStdIn <- pipe
    RangeData <- MCRangeData
    RangeCommands <- MCRangeCommands
    Noise <- MCNoise
SPECIFICATION PipelineSpec
INVARIANTS
    MatrixIsAsGiven
    OutputIsProduct
    PrintsRange
    RangeOfProducts
PROPERTY BothEnd
