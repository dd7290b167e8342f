SPECIFICATION ParseSpec
CONSTANTS
    None = None
    Documents <- MCDocuments
    ImageAnalysis = FALSE
    Uploads <- MCUploads
    LowerName <- MCLowerName
    HeadingNumber <- MCHeadingNumber
    ListNames <- MCListNames
    Numeral <- MCNumeral
    TitleBytes = 2
    MaxI64 = 999999999
INVARIANTS
    BoxesSound
    BlocksAndLinesKept
    CaptionsAtTheirBody
    EscapesSafe
    VisibleTextKept
    ImagesWritten
    OutputsAgree
    OfficeContentKept
