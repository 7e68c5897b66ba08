SPECIFICATION Spec
CONSTANTS
    Capacity = 8
    NameMax = 3
    NameChars = {"a", "b"}
    Names <- MCNames
    ComName <- MCComName
    Typed <- MCTyped
    Sizes = {2}
    ListLine = 3
    EmptyLen = 3
    MaxErase = 0
    DiskMayFill = FALSE
    DiskErrors = FALSE
    ProgramCalls = {}
    ShellImages = {"shell"}
PROPERTY HaltCommandStops
