SPECIFICATION Spec
CONSTANTS
    a = a
    b = b
    bad = bad
    BadName = bad
    Names = {a, b}
    Spellings = {"a.c", "A.C", "b.c", "no name"}
    CpmName <- MCCpmName
    Tracks = 2
    SectorsPerTrack = 2
    SectorBytes = 2
    FirstData = 1
    NumEntries = 2
    OpenMax = 2
    SlotsPerFile = 2
    AllocMod = 4
    Bytes = {0, 1}
    Payloads = {1}
    Lengths = {0, 3}
    RawSectors = {}
    IOErrors = FALSE
INVARIANT WriteReadBack
