CONSTANTS
    a = a
    b = b
    c = c
    CommandLines <- MCCommandLines
SPECIFICATION OptionsSpec
INVARIANTS
    SizesAreAsGiven
    StopsHalfWay
