CONSTANTS
    ULONG = 16
    Numerals <- MCNumerals
    YYINITDEPTH = 3
    YYMAXDEPTH = 20
    MaxFailures = 1
    CatalogFiles <- MCCatalogFiles
    Queries <- MCQueries
    PRI <- MCPRI
    HASHWORD = 4096
    LONG = 16777216
    MaxQueries = 2
SPECIFICATION Spec
INVARIANTS
    TypeOK
    SearchIsRight
    NothingIsKept
    MeansWhatItSays
    NoNodeIsLost
PROPERTIES
    CallsEnd
CHECK_DEADLOCK FALSE
