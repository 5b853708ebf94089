SPECIFICATION Spec
CONSTANTS
    None = None
    Keys = {a, b, c, d}
    Contents = {x, y}
    ReplayCapacity = 2
    GuardCapacity = 1
    MaxOutstanding = 3
    MaxEntries = 3
    MaxSequence = 5
    MaxManifest = 6
SYMMETRY QualificationSymmetry
INVARIANTS
    TypeOK
    HorizonIsRecent
    AtMostOnceWithinHorizon
    AdvanceNeverRefuses
    SnapshotReopens
CHECK_DEADLOCK FALSE
