CONSTANTS
    stdout = stdout
    a = a
    b = b
    BUF_SZ = 3
    Streams <- MCStreams
    StdOut <- stdout
    Commands <- MCCommands
    Lengths <- MCLengths
SPECIFICATION Spec
INVARIANTS
    TypeOK
    AssertionHolds
    DealtInTurn
    TornOnlyAtFullBuffer
