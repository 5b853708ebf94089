\* One payload and one record per journal, so that five manifest generations
\* of every kind stay cheap enough for the four refinements.
SPECIFICATION Spec
CONSTANTS
    None = None
    Torn = Torn
    Zeroed = Zeroed
    Payloads = {p}
    RegistryValues = {r0, r1}
    EmptyRegistry = r0
    MaxRecords = 1
    MaxSealed = 2
    MaxGeneration = 5
    MaxSequence = 2
PROPERTIES
    FamiliesAreRootedSlots
CHECK_DEADLOCK FALSE
