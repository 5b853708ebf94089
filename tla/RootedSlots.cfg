\* Two artifacts, three slots, four manifest generations: every slot is
\* published, referenced, replaced and removed, and both roots turn over.
SPECIFICATION Spec
CONSTANTS
    None = None
    Artifacts = {a, b}
    MaxGeneration = 4
INVARIANTS
    TypeOK
    RetainedReferencesIntact
    RetainedGenerationsConsecutive
