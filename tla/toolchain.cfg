SPECIFICATION MCSpec
CONSTANTS
    Unsupported <- UnsupportedPrograms
    Programs <- SupportedPrograms
    Sources <- MCSources
    Code <- cc_compile
    Cases <- MCCases
    Images <- MCImages
    Typed <- SomeInputs
    Values = {2, 250}
    LineMax = 4
    CodeBase = 256
    MaxNodes = 60
    GlobalBase = 403
    Scratch = 407
    StackTop = 65023
    MaxCode = 320
    MaxSymbols = 3
    MaxFunctions = 3
    Checksum = 4660
    IntMod = 256
    Fuel = 12
INVARIANT ComputesMeaning
INVARIANT AllOrStub
PROPERTY CodeIntact
PROPERTY Terminates
