CONSTANTS
    NaN = NaN
    Infinite <- MCInfinite
    MinGrow = 2
    Allocs <- MCAllocs
    Lists <- MCLists
    Values <- MCValues
    Settings <- MCSettings
    Beyond <- MCBeyond
    MaxSize = 4
SPECIFICATION ClientSpec
INVARIANT LeftBoundInclusive
