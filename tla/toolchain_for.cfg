SPECIFICATION MCSpec
CONSTANTS
    Unsupported <- NoPrograms
    Programs <- ForPrograms
    Sources <- MCSources
    Code <- cc_compile
    Cases <- MCCases
    Images <- MCImages
    Typed <- NoInput
    Values = {0}
    LineMax = 4
    CodeBase = 256
    MaxNodes = 8192
    GlobalBase = 8192
    Scratch = 8444
    StackTop = 65023
    MaxCode = 16384
    MaxSymbols = 64
    MaxFunctions = 32
    Checksum = 4660
    IntMod = 256
    Fuel = 12
INVARIANT ComputesMeaning
