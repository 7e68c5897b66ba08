SPECIFICATION MCSpec
CONSTANTS
    Tasks <- AllTasks
    Images <- MCImages
    Bytes = {0, 1, 15, 127, 128, 129, 255}
    Digits = {0, 1, 9, 45, 54, 90, 99}
    Stacks = {0, 1, 2, 8192, 65023, 65535}
INVARIANT ComputesArithmetic
INVARIANT FollowsControl
