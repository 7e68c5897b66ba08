SPECIFICATION Spec
CONSTANTS
    a = a
    b = b
    bad = bad
    BadName = bad
    Names = {a, b}
    Spellings = {"a.c", "A.C", "b.c", "no name"}
    CpmName <- MCCpmName
    Tracks = 1
    SectorsPerTrack = 3
    SectorBytes = 2
    FirstData = 1
    NumEntries = 2
    OpenMax = 1
    SlotsPerFile = 2
    AllocMod = 8
    Bytes = {0, 1}
    Payloads = {1}
    Lengths = {0, 3}
    RawSectors = {}
    IOErrors = TRUE
INVARIANT LagsByOneWrite
INVARIANT FlushNotSkipped
