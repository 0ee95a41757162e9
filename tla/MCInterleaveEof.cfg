CONSTANTS
    stdin = stdin
    a = a
    b = b
    BUF_SZ = 3
    Streams <- MCStreams
    StdIn <- stdin
    Commands <- MCCommands
    Lengths <- MCLengths
SPECIFICATION Spec
INVARIANT RaggedInputIsAnError
