SPECIFICATION CommandSpec
CONSTANTS
    src = src
    com = com
    other = other
    bad = bad
    BadName = bad
    Names = {src, com, other}
    Spellings = {"a.c", "a.com", "b"}
    CpmName <- MCCpmName
    ComName <- MCComName
    Images <- MCImages
    Tracks = 3
    SectorsPerTrack = 2
    SectorBytes = 2
    FirstData = 1
    NumEntries = 3
    OpenMax = 2
    SlotsPerFile = 3
    AllocMod = 8
    Bytes = {0, 1, 2}
    Payloads = {1, 2}
    Lengths = {0}
    RawSectors = {}
    Buffer = 2
    TpaSize = 4
    SourceMax = 9
    Outputs = {1, 4}
    IOErrors = TRUE
INVARIANT NoHandleLeft
INVARIANT NeverMixed
