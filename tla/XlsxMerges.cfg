SPECIFICATION Spec
CONSTANTS
    Uploads <- MCBooks
    LowerName <- MCLowerName
    HeadingNumber <- MCHeadingNumber
    ListNames <- MCListNames
    Numeral <- MCNumeral
    TitleBytes = 2
    MaxI64 = 999999999
INVARIANTS
    MergesTableRelative
CHECK_DEADLOCK FALSE
