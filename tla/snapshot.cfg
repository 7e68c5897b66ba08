SPECIFICATION Spec
CONSTANTS
    Interval = 2
    TickMod = 3
    StepMod = 4
    Chunks = 2
    MayFail = TRUE
    MaxTime = 5
INVARIANT TypeOK
INVARIANT SnapshotsOften
INVARIANT OlderInFront
INVARIANT MetaInTape
PROPERTY LastIsShown
