SPECIFICATION Spec
CONSTANTS
    Capacity = 8
    NameMax = 3
    NameChars = {"a", "b"}
    Names <- MCNames
    ComName <- MCComName
    Typed <- MCTyped
    Sizes = {2, 6}
    ListLine = 3
    EmptyLen = 3
    MaxErase = 2
    DiskMayFill = TRUE
    DiskErrors = FALSE
    ProgramCalls = {"CONIN", "CONOUT", "NAMECH", "TYPE", "RUN", "DEL", "CC", "READLINE", "LISTDIR", "QUIET"}
    ShellImages = {"shell", "halt"}
INVARIANT ShellNamesItsFile
