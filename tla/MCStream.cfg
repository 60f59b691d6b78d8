SPECIFICATION StreamSpec
CONSTANTS
    Byte <- MCByte
    Newline <- MCNewline
    Return <- MCReturn
    DoneLine <- MCDoneLine
    SpacedLine <- MCSpacedLine
    MaxLine = 7
INVARIANTS
    DetectorInv
    DetectsDone
    VerdictFits
CHECK_DEADLOCK FALSE
