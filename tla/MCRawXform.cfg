CONSTANTS
    NaN = NaN
    stdin = stdin
    a = a
    good = good
    other = other
    bad = bad
    Infinite <- MCInfinite
    MinGrow = 2
    Beyond <- MCBeyond
    BUF_SZ = 2
    Streams <- MCStreams
    StdIn <- stdin
    Data <- MCData
    TableLines <- MCTableLines
    Commands <- MCCommands
SPECIFICATION Spec
INVARIANTS
    TypeOK
    TableIsAsGiven
    CoefsAreCurrent
    OutputIsMapped
