SPECIFICATION Spec
CONSTANTS
    None = None
    Torn = Torn
    Zeroed = Zeroed
    Payloads = {p}
    RegistryValues = {r0, r1}
    EmptyRegistry = r0
    MaxRecords = 2
    MaxSealed = 1
    MaxGeneration = 5
    MaxSequence = 3
INVARIANTS
    PublishedManifestReopens
CHECK_DEADLOCK FALSE
