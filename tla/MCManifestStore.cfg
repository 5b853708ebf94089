SPECIFICATION Spec
CONSTANTS
    None = None
    Torn = Torn
    Zeroed = Zeroed
    Payloads = {p, q}
    RegistryValues = {r0, r1}
    EmptyRegistry = r0
    MaxRecords = 2
    MaxSealed = 2
    MaxGeneration = 5
    MaxSequence = 3
SYMMETRY PayloadSymmetry
INVARIANTS
    TypeOK
    RetainedRootsResolve
    MemoryMirrorsDirectory
    CleanStoreReopens
    OpenAcceptsWhatItChanged
    OnlyRetryOrphansBlockReopen
PROPERTIES
    CustodyChangesNothing
    RootAdvancesByOne
    ImplementsAuthority
CHECK_DEADLOCK FALSE
