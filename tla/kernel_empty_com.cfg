SPECIFICATION Spec
CONSTANTS
    Capacity = 8
    NameMax = 3
    NameChars = {"a", "b"}
    Names <- MCNames
    ComName <- MCComName
    Typed <- MCTyped
    Sizes = {0, 2}
    ListLine = 3
    EmptyLen = 3
    MaxErase = 2
    DiskMayFill = TRUE
    DiskErrors = FALSE
    ProgramCalls = {"CONIN", "CONOUT", "NAMECH", "TYPE", "RUN", "DEL", "CC", "READLINE", "LISTDIR", "QUIET"}
    ShellImages = {"shell", "halt"}
PROPERTY HaltedShellStops
