CONSTANTS
    none = none
    utf = utf
    euro = euro
    cen = cen
    german = german
    German = German
    deutsch = deutsch
    unknown = unknown
    NoAlias = none
    Path <- MCPath
    Fold <- MCFold
    TableStep = 1
    PoolStep = 2
    Rank <- MCRank
    Spelling <- MCSpelling
    Alphas <- MCAlphas
    Digits <- MCDigits
    Lower <- MCLower
    CatalogSets <- MCCatalogSets
    MaxCalls = 3
    MaxFailures = 1
SPECIFICATION Spec
INVARIANTS
    TypeOK
    AliasIsFound
    ListInOrder
    MostSpecific
PROPERTIES
    LoadedOnce
CHECK_DEADLOCK FALSE
