SPECIFICATION MCSpec
CONSTANTS
    Tasks <- LdaxTasks
    Images <- MCImages
    Bytes = {0, 1, 127, 128, 129, 255}
    Digits = {0}
    Stacks = {0, 1, 2, 8192, 65023, 65535}
INVARIANT LdaxLoads
