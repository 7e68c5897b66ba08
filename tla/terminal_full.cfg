SPECIFICATION TerminalSpec
CONSTANTS
    LineMax = 3
    MaxInput = 6
    Inputs <- MCInputs
    Capacity = 8
    Chars = {8, 32, 97}
    Nul = 0
    MaxOutput = 3
INVARIANT GetsFullLine
