--------------------------- MODULE ManifestStore ---------------------------
(***************************************************************************)
(* The Store Format V1 authority of och-store: one store directory, the    *)
(* single ManifestStore handle that may be open on it, and the file steps  *)
(* of open, append, sync_pending, the registry operations and rotate.      *)
(*                                                                         *)
(* The unit of atomicity is one file-system step (create a staging file,   *)
(* complete its bytes, rename it, remove a file, write a checkpoint slot). *)
(* The process can stop, or a step can fail, between any two of them.      *)
(* File bytes are abstracted to the value they decode to: None is an       *)
(* absent file and Torn a file whose bytes do not decode.  A reference     *)
(* {slot, generation, length, checksum} is the slot with the value itself, *)
(* so "the checksum matches" is equality of values.                        *)
(***************************************************************************)
EXTENDS Integers, Sequences, FiniteSets
LOCAL INSTANCE SequencesExt

CONSTANTS
    None, Torn,      \* absent file (or reference), undecodable file
    Zeroed,          \* a checkpoint file with its full length and both slots zero
    Payloads,        \* admissions a frame may carry
    RegistryValues,  \* series-registry snapshots
    EmptyRegistry,   \* the snapshot of SeriesRegistry::new
    MaxRecords,      \* ActiveJournalLimits::record_limit
    MaxSealed,       \* MAX_SEALED_GENERATIONS
    MaxGeneration,   \* u64::MAX for manifest generations
    MaxSequence      \* u64::MAX for append sequences

ASSUME ManifestStoreAssumption ==
    /\ EmptyRegistry \in RegistryValues
    /\ {MaxRecords, MaxSealed, MaxGeneration, MaxSequence} \subseteq Nat \ {0}

VARIABLES
    marker,       \* store.lock and the store-format marker
    manifests,    \* the two Manifest V1 slots
    slots,        \* the three reusable slots of each artifact family
    staging,      \* the fixed-name staging files
    journals,     \* active journals, by journal generation
    checkpoints,  \* their checkpoint files
    sealed,       \* sealed journals, by journal generation
    intent,       \* the rotation-intent file
    handle,       \* the open ManifestStore, in memory
    plan,         \* the publication prepared by the running operation
    todo,         \* the file steps the running operation still has to take
    acked         \* what callers have been told is committed

disk == <<marker, manifests, slots, staging, journals, checkpoints, sealed, intent>>
vars == <<disk, handle, plan, todo, acked>>

-----------------------------------------------------------------------------
(* Names and shapes.                                                       *)

Roots == 0..1
SlotIds == 0..2
Families == {"registry", "retry", "catalog", "recovery"}
StagingFiles == Families \cup {"manifest", "sealed"}
Generations == 1..(MaxSealed + 1)
TailClasses == {"ShortFramePrefix", "TruncatedDeclaredFrame"}

Range0(m) == {m[r] : r \in Roots} \ {None}
Retained == Range0(manifests)
Smallest(S) == CHOOSE s \in S : \A t \in S : s <= t

\* The newest of a nonempty pair of manifest slots.
CurrentRoot(ms) ==
    CHOOSE r \in Roots : ms[r] # None /\ \A m \in Range0(ms) : m.gen <= ms[r].gen
Current == manifests[CurrentRoot(manifests)]

\* A manifest's reference to an artifact is intact on disk.
Intact(m, f) == m[f] # None => slots[f][m[f].slot] = m[f].art

\* Slots of family f that some manifest of the pair ms names.
ReferencedSlots(f, ms) == {m[f].slot : m \in {n \in Range0(ms) : n[f] # None}}

\* Mutant: only the current manifest's slot is protected.
CandidateSlotBesideCurrent(f, ms) ==
    Smallest(SlotIds \ (IF Range0(ms) = {} \/ ms[CurrentRoot(ms)][f] = None THEN {}
                        ELSE {ms[CurrentRoot(ms)][f].slot}))

\* The lowest slot neither manifest names: where the next artifact goes.
CandidateSlot(f, ms) == Smallest(SlotIds \ ReferencedSlots(f, ms))

Entries(m) == IF m.catalog = None THEN <<>> ELSE m.catalog.art.entries
CatalogGeneration(m) == IF m.catalog = None THEN 0 ELSE m.catalog.art.gen
RecoveryGeneration(m) == IF m.recovery = None THEN 0 ELSE m.recovery.art.gen

\* Mutant: the current slot is written in place.
CurrentRootInPlace(ms) == IF Range0(ms) = {} THEN 0 ELSE CurrentRoot(ms)

\* Where the next manifest is written: the slot that is not current, or the
\* first one when none is committed.
TargetRoot(ms) == IF Range0(ms) = {} THEN 0 ELSE 1 - CurrentRoot(ms)

GenesisCutoff == [journal |-> 1, checkpoint |-> 1, seq |-> 0]

-----------------------------------------------------------------------------
(* What open proves before it accepts a directory.  Each operator reads    *)
(* the disk only, and is named for the function it stands for.             *)

RetryReferenceProgresses(older, newer) ==
    IF newer.art.gen = older.art.gen
    THEN newer = older
    ELSE newer.art.gen = older.art.gen + 1 /\ newer.slot # older.slot

CatalogReferenceProgresses(older, newer) ==
    LET gen(reference) == IF reference = None THEN 0 ELSE reference.art.gen
    IN  IF gen(newer) = gen(older)
        THEN newer = older
        ELSE gen(newer) = gen(older) + 1 /\ (older # None => newer.slot # older.slot)

RecoveryReferenceProgresses(older, newer) ==
    older # None /\ older # newer => newer # None /\ newer.slot # older.slot

\* select_current_manifest accepts the pair.
SelectCurrentManifest ==
    /\ Cardinality({r \in Roots : manifests[r] # None}) = 1 => Current.gen = 1
    /\ None \notin {manifests[r] : r \in Roots} =>
         LET newer == Current
             older == manifests[1 - CurrentRoot(manifests)]
         IN  /\ newer.gen = older.gen + 1
             /\ RetryReferenceProgresses(older.retry, newer.retry)
             /\ CatalogReferenceProgresses(older.catalog, newer.catalog)
             /\ RecoveryReferenceProgresses(older.recovery, newer.recovery)

PreflightStoreFormat ==
    /\ marker = "final"
    /\ SelectCurrentManifest
    /\ \A g \in Generations : journals[g] # Torn
    /\ Torn \notin {staging["recovery"], staging["manifest"]}

JournalGenerations == {g \in Generations : journals[g] # None}
CheckpointGenerations == {g \in Generations : checkpoints[g] # None}
SealedGenerations == {g \in Generations : sealed[g] # None}
CatalogedGenerations(m) == {Entries(m)[i].journal : i \in DOMAIN Entries(m)}

\* The active pair (generation g, sequence floor) ends exactly at the cutoff:
\* the checkpoint is the root's and no complete frame follows it.
ActivePairAt(cutoff, floor) ==
    LET g == cutoff.journal
    IN  /\ journals[g] \notin {None, Torn}
        /\ checkpoints[g] = [gen |-> cutoff.checkpoint, seq |-> cutoff.seq]
        /\ Len(journals[g].frames) = cutoff.seq - floor

ValidateGenerationInventory(m) ==
    LET a == m.cutoff.journal
        committed == CatalogedGenerations(m)
        only == {a}
    IN  IF intent = None
        THEN /\ JournalGenerations = only /\ CheckpointGenerations = only
             /\ SealedGenerations = committed
        ELSE \/ /\ a = intent.source
                /\ LET allowed == IF intent.successor \in JournalGenerations \cup CheckpointGenerations
                                  THEN only \cup {intent.successor} ELSE only
                   IN  JournalGenerations = allowed /\ CheckpointGenerations = allowed
                /\ SealedGenerations \in {committed, committed \cup {intent.source}}
             \/ /\ a = intent.successor
                /\ JournalGenerations \in {only, only \cup {intent.source}}
                /\ CheckpointGenerations \in {only, only \cup {intent.source}}
                /\ SealedGenerations = committed

ValidateSealedInventoryMetadata(entries) ==
    \A i \in DOMAIN entries :
        /\ sealed[entries[i].journal] # None
        /\ Len(sealed[entries[i].journal]) = entries[i].cutoff - entries[i].floor

ReadReferencedCatalog(m) ==
    Intact(m, "catalog") /\ ValidateSealedInventoryMetadata(Entries(m))

\* The one catalog entry a rotation of manifest m appends.
SealedEntry(m) ==
    [journal |-> m.cutoff.journal, floor |-> m.floor, cutoff |-> m.cutoff.seq,
     registry |-> m.registry.art.gen]

ValidateCatalogAdvancingTransition(older, newer) ==
    /\ newer.catalog # None
    /\ Entries(newer) = Append(Entries(older), SealedEntry(older))
    /\ CatalogGeneration(newer) = CatalogGeneration(older) + 1
    /\ newer.gen = older.gen + 1
    /\ newer.cutoff = [journal |-> older.cutoff.journal + 1, checkpoint |-> 1,
                       seq |-> older.cutoff.seq]
    /\ newer.floor = older.cutoff.seq
    /\ \A f \in {"registry", "retry", "recovery"} : newer[f] = older[f]

ValidateManifestCatalogBinding(m) ==
    LET last == Entries(m)[Len(Entries(m))]
    IN  /\ last.journal + 1 = m.cutoff.journal
        /\ last.cutoff = m.floor
        /\ last.registry <= m.registry.art.gen

ValidateCatalogInventory ==
    /\ \A m \in Retained : m.catalog # None =>
          ReadReferencedCatalog(m) /\ ValidateManifestCatalogBinding(m)
    /\ \A older, newer \in Retained :
          older.gen < newer.gen /\ older.catalog # newer.catalog =>
          ValidateCatalogAdvancingTransition(older, newer)
    /\ \A s \in SlotIds : slots["catalog"][s] # None =>
          LET art == slots["catalog"][s]
          IN  /\ \E m \in Retained : m.catalog # None /\
                    \/ m.catalog = [slot |-> s, art |-> art]
                    \/ art.gen < m.catalog.art.gen /\ IsStrictPrefix(art.entries, Entries(m))
              /\ ValidateSealedInventoryMetadata(art.entries)

ValidateRegistryInventory ==
    /\ \A m \in Retained : Intact(m, "registry")
    /\ \A s \in SlotIds : slots["registry"][s] # None =>
          \/ \E m \in Retained : m.registry = [slot |-> s, art |-> slots["registry"][s]]
          \/ slots["registry"][s].gen <= Current.registry.art.gen + 1

\* The retry snapshot a manifest names ends exactly at that manifest's cutoff,
\* in its own journal or, right after a rotation, in a cataloged one.
ReadReferencedRetry(m) ==
    LET art == m.retry.art
    IN  /\ Intact(m, "retry")
        /\ (m.cutoff.journal = 1) <=> (m.catalog = None)
        /\ (m.cutoff.journal = 1) <=> (m.floor = 0)
        /\ m.floor <= m.cutoff.seq
        /\ \/ art.seq = 0 /\ art.gen = 1
           \/ /\ art.seq > 0 /\ art.seq = m.cutoff.seq
              /\ art.journal = m.cutoff.journal
           \/ /\ art.seq > 0 /\ art.seq = m.cutoff.seq /\ m.cutoff.seq = m.floor
              /\ \E i \in DOMAIN Entries(m) :
                    /\ Entries(m)[i].journal = art.journal
                    /\ Entries(m)[i].floor < art.seq /\ art.seq <= Entries(m)[i].cutoff

\* A retry slot no retained manifest references.
RetryOrphans ==
    {s \in SlotIds : slots["retry"][s] # None /\
        \A m \in Retained : m.retry # [slot |-> s, art |-> slots["retry"][s]]}

\* Unreferenced retry slots are tolerated only beside a committed rotation
\* intent, and only when older than every referenced one.
ValidateRetryInventory ==
    /\ \A s \in RetryOrphans :
          intent # None /\ \A m \in Retained : slots["retry"][s].gen < m.retry.art.gen
    /\ \A m \in Retained : ReadReferencedCatalog(m) /\ ReadReferencedRetry(m)

ReportMatchesSource(report, source, committing) ==
    /\ report.source = source.gen
    /\ report.source + 1 = committing
    /\ report.cutoff = source.cutoff
    /\ report.floor = source.floor

ManifestAuthorityEqualForRecovery(older, newer) ==
    /\ newer.gen = older.gen + 1
    /\ \A f \in {"registry", "retry", "catalog", "cutoff", "floor"} : older[f] = newer[f]

ValidateRecoveryManifestProgression ==
    /\ \A m \in Retained : m.recovery # None =>
          Intact(m, "recovery") /\ m.recovery.art.source + 1 <= m.gen
    /\ \A older, newer \in Retained :
          older.gen < newer.gen /\ older.recovery # newer.recovery =>
          /\ newer.recovery # None
          /\ RecoveryGeneration(newer) = RecoveryGeneration(older) + 1
          /\ ManifestAuthorityEqualForRecovery(older, newer)
          /\ ReportMatchesSource(newer.recovery.art, older, newer.gen)

\* Recovery slots no retained manifest references.
RecoveryOrphans ==
    {s \in SlotIds : slots["recovery"][s] # None /\
        \A m \in Retained : m.recovery # [slot |-> s, art |-> slots["recovery"][s]]}

ReferencedRecoveryGenerations ==
    {m.recovery.art.gen : m \in {n \in Retained : n.recovery # None}}

\* Every unreferenced report is older than the newest referenced one.
OnlyStaleRecoveryOrphans ==
    \A s \in RecoveryOrphans :
        \E g \in ReferencedRecoveryGenerations : slots["recovery"][s].gen < g

ValidateNoPendingRecovery == staging["recovery"] = None /\ OnlyStaleRecoveryOrphans

\* A referenced report describes a point of the current or a sealed journal.
ValidateRecoveryReportCoverage ==
    \A m \in Retained : m.recovery # None =>
        LET report == m.recovery.art
            within(floor, cutoff) ==
                report.floor = floor /\ floor <= report.cutoff.seq /\ report.cutoff.seq <= cutoff
        IN  /\ report.source + 1 <= Current.gen
            /\ IF report.cutoff.journal = Current.cutoff.journal
               THEN within(Current.floor, Current.cutoff.seq)
               ELSE \E i \in DOMAIN Entries(Current) :
                       /\ Entries(Current)[i].journal = report.cutoff.journal
                       /\ within(Entries(Current)[i].floor, Entries(Current)[i].cutoff)

-----------------------------------------------------------------------------
(* Terminal-suffix recovery: what converge_recovery finds and will do.     *)

SuffixClass == journals[Current.cutoff.journal].tail
RecoveryTarget == CandidateSlot("recovery", manifests)

RecoveryCandidates ==
    {s \in RecoveryOrphans : slots["recovery"][s].gen >= RecoveryGeneration(Current)}

\* A report an interrupted recovery left: staged, or published and unreferenced.
PendingReport ==
    IF staging["recovery"] # None
    THEN [slot |-> RecoveryTarget, art |-> staging["recovery"]]
    ELSE IF RecoveryCandidates = {} THEN None
    ELSE LET s == Smallest(RecoveryCandidates) IN [slot |-> s, art |-> slots["recovery"][s]]

\* The report this open commits: the pending one, or a new one for the suffix.
RecoveryReport ==
    IF PendingReport # None THEN PendingReport
    ELSE [slot |-> RecoveryTarget,
          art  |-> [gen |-> RecoveryGeneration(Current) + 1, source |-> Current.gen,
                    cutoff |-> Current.cutoff, floor |-> Current.floor, tail |-> SuffixClass]]

RecoveryNeeded == PendingReport # None \/ SuffixClass # "clean"

RecoveryManifest ==
    [Current EXCEPT !.gen = Current.gen + 1, !.recovery = RecoveryReport]

ConvergeRecoveryAccepts ==
    /\ Cardinality(RecoveryCandidates) <= 1
    /\ staging["recovery"] # None => RecoveryCandidates = {}
    /\ PendingReport # None =>
         /\ PendingReport.slot = RecoveryTarget
         /\ PendingReport.art.gen = RecoveryGeneration(Current) + 1
         /\ ReportMatchesSource(PendingReport.art, Current, Current.gen + 1)
         /\ IF SuffixClass = "clean" THEN staging["recovery"] = None
                              ELSE PendingReport.art.tail = SuffixClass
    /\ staging["manifest"] # None =>
         PendingReport # None /\ SuffixClass = "clean" /\ staging["manifest"] = RecoveryManifest
    /\ RecoveryNeeded => Current.gen < MaxGeneration

\* open_committed accepts the directory.
OpenCommittedAccepts ==
    /\ ActivePairAt(Current.cutoff, Current.floor)
    /\ ValidateRegistryInventory
    /\ ValidateCatalogInventory
    /\ ValidateGenerationInventory(Current)
    /\ ValidateRecoveryManifestProgression
    /\ ValidateRetryInventory
    /\ ValidateRecoveryReportCoverage
    /\ ConvergeRecoveryAccepts

-----------------------------------------------------------------------------
(* Rotation evidence found by open.                                        *)

\* The current manifest is the one the intent was prepared from.
IntentMatchesSource(m) ==
    /\ m.cutoff = [journal |-> intent.source, checkpoint |-> intent.checkpoint,
                   seq |-> intent.cutoff]
    /\ m.registry.art.gen = intent.registry
    /\ CatalogGeneration(m) + 1 = intent.catalog

\* The cutoff of the empty successor journal the intent announces.
SuccessorCutoff ==
    [journal |-> intent.successor, checkpoint |-> 1, seq |-> intent.cutoff]

\* Without an expected root, ActiveJournal::open reads two zero checkpoint
\* slots beside a journal without frames as a checkpoint still to be written.
SuccessorUninitialized ==
    LET j == journals[intent.successor]
    IN  /\ checkpoints[intent.successor] = Zeroed
        /\ j \notin {None, Torn} /\ j.frames = <<>> /\ j.tail = "clean"

RollbackAccepts ==
    LET source == intent.source
        successor == intent.successor
        entry == SealedEntry(Current)
        seals == {sealed[source], staging["sealed"]} \ {None}
        catalogs == {slots["catalog"][CandidateSlot("catalog", manifests)],
                     staging["catalog"]} \ {None}
    IN  /\ IntentMatchesSource(Current)
        /\ staging["registry"] = None /\ staging["retry"] = None
        /\ ReadReferencedCatalog(Current)
        /\ ValidateGenerationInventory(Current)
        /\ Intact(Current, "registry")
        /\ ActivePairAt(Current.cutoff, Current.floor) /\ journals[source].tail = "clean"
        /\ \A s \in seals : s # Torn /\ Len(s) = intent.cutoff - Current.floor
        /\ JournalGenerations \cap {successor} = CheckpointGenerations \cap {successor}
        /\ successor \in JournalGenerations =>
             \/ SuccessorUninitialized
             \/ /\ ActivePairAt(SuccessorCutoff, intent.cutoff)
                /\ journals[successor].tail = "clean"
        /\ \A c \in catalogs :
             /\ c # Torn /\ seals # {}
             /\ c.gen = intent.catalog /\ c.entries = Append(Entries(Current), entry)
        /\ staging["manifest"] # None =>
             /\ successor \in JournalGenerations /\ catalogs # {}
             /\ ValidateCatalogAdvancingTransition(Current, staging["manifest"])
             /\ staging["manifest"].catalog.art \in catalogs

ValidateCommittedRotationTransition ==
    \E older \in Retained :
        /\ older.cutoff.journal = intent.source
        /\ IntentMatchesSource(older)
        /\ ReadReferencedCatalog(older) /\ ReadReferencedCatalog(Current)
        /\ ValidateCatalogAdvancingTransition(older, Current)
        /\ ValidateManifestCatalogBinding(Current)
        /\ Current.cutoff.journal = intent.successor

\* open finds a decodable intent whose recovery evidence is settled.
IntentReadable ==
    /\ ValidateRecoveryManifestProgression /\ ValidateNoPendingRecovery
    /\ Retained # {} /\ intent # Torn

NoStagingWithoutIntent ==
    \A f \in {"registry", "retry", "catalog", "sealed"} : staging[f] = None

\* The three ways open can go on with a current-format directory.
RollsBack ==
    /\ PreflightStoreFormat
    /\ intent # None /\ IntentReadable
    /\ Current.cutoff.journal = intent.source
    /\ RollbackAccepts

OpensCommitted ==
    /\ PreflightStoreFormat
    /\ Retained # {}
    /\ IF intent = None THEN NoStagingWithoutIntent
       ELSE IntentReadable /\ ValidateCommittedRotationTransition
    /\ OpenCommittedAccepts

NoArtifact(f) == \A s \in SlotIds : slots[f][s] = None

\* The first registry and retry artifacts of a store.
GenesisArtifact ==
    [registry |-> [gen |-> 1, value |-> EmptyRegistry],
     retry    |-> [gen |-> 1, seq |-> 0, journal |-> 0]]

\* The genesis reference: slot 0, or the slot an interrupted genesis filled.
GenesisReference(f) ==
    [slot |-> IF NoArtifact(f) THEN 0 ELSE CHOOSE s \in SlotIds : slots[f][s] # None,
     art  |-> GenesisArtifact[f]]

InitializesGenesis ==
    /\ PreflightStoreFormat
    /\ Retained = {}
    /\ NoStagingWithoutIntent /\ intent = None /\ staging["recovery"] = None
    /\ JournalGenerations \subseteq {1} /\ CheckpointGenerations \subseteq JournalGenerations
    /\ SealedGenerations = {}
    /\ NoArtifact("catalog") /\ NoArtifact("recovery")
    /\ \A f \in {"registry", "retry"} :
          /\ Cardinality({s \in SlotIds : slots[f][s] # None}) <= 1
          /\ \A s \in SlotIds : slots[f][s] \in {None, GenesisArtifact[f]}
    /\ journals[1] # None => journals[1] = [frames |-> <<>>, tail |-> "clean"]
    /\ checkpoints[1] \in {None, [gen |-> 0, seq |-> 0], [gen |-> 1, seq |-> 0]}

\* open, left to run without a failing step, returns a writable store.
Openable ==
    \/ marker \in {"absent", "staged"}
    \/ RollsBack
    \/ OpensCommitted
    \/ InitializesGenesis /\ staging["manifest"] = None

-----------------------------------------------------------------------------
(* The file steps of each operation, in the order the code takes them.     *)

PublishSteps(f) == << <<"create", f>>, <<"write", f>>, <<"publish", f>> >>

\* Mutant: the retry removal is forgotten.
SweepStepsWithoutRetry == << <<"sweep", "catalog">>, <<"sweep", "recovery">> >>

SweepSteps == << <<"sweep", "catalog">>, <<"sweep", "retry">>, <<"sweep", "recovery">> >>

\* initialize_prepared_checkpoint
InitializeCheckpointSteps ==
    << <<"checkpoint", "resize">>, <<"checkpoint", "tear">>, <<"checkpoint", "write">> >>

\* ActiveJournal::create_new of the journal named by the planned cutoff.
NewPairSteps ==
    << <<"journal", "create">>, <<"journal", "write">>, <<"checkpoint", "create">> >>
    \o InitializeCheckpointSteps

\* Mutant: the commit is adopted and reported before its manifest is renamed.
AdoptFirstSteps == << <<"adopt", "manifest">> >> \o PublishSteps("manifest") \o SweepSteps

\* publish_and_adopt_prepared_manifest
CommitSteps == PublishSteps("manifest") \o SweepSteps \o << <<"adopt", "manifest">> >>

SyncPendingSteps ==
    << <<"checkpoint", "tear">>, <<"checkpoint", "write">> >>
    \o PublishSteps("retry") \o CommitSteps

ApplyRegistrySteps == PublishSteps("registry") \o CommitSteps

CleanupCommittedRotationSteps ==
    << <<"unlink", "source journal">>, <<"unlink", "source checkpoint">>,
       <<"unlink", "intent">>, <<"unlink", "sealed staging">> >>

\* Mutant: the manifest is renamed before the catalog it names.
ManifestBeforeCatalogSteps ==
    << <<"intent", "create">>, <<"intent", "write">> >>
    \o PublishSteps("sealed") \o NewPairSteps \o PublishSteps("manifest")
    \o PublishSteps("catalog") \o << <<"adopt", "manifest">> >>
    \o CleanupCommittedRotationSteps \o SweepSteps

RotateSteps ==
    << <<"intent", "create">>, <<"intent", "write">> >>
    \o PublishSteps("sealed") \o NewPairSteps \o PublishSteps("catalog")
    \o PublishSteps("manifest") \o << <<"adopt", "manifest">> >>
    \o CleanupCommittedRotationSteps \o SweepSteps

\* Mutant: the sealed copy of the source journal is left behind.
RollbackKeepsSeal ==
    << <<"unlink", "manifest staging">>, <<"unlink", "catalog staging">>,
       <<"unlink", "catalog candidate">>, <<"unlink", "sealed staging">>,
       <<"unlink", "successor journal">>, <<"unlink", "successor checkpoint">>,
       <<"unlink", "intent">> >>

RollbackSteps ==
    << <<"unlink", "manifest staging">>, <<"unlink", "catalog staging">>,
       <<"unlink", "catalog candidate">>, <<"unlink", "sealed staging">>,
       <<"unlink", "sealed journal">>, <<"unlink", "successor journal">>,
       <<"unlink", "successor checkpoint">>, <<"unlink", "intent">> >>

\* Steps of a sequence taken only under a condition.
When(condition, steps) == IF condition THEN steps ELSE <<>>

ConvergeRecoverySteps ==
    IF ~RecoveryNeeded THEN << <<"sweep", "recovery">> >>
    ELSE When(staging["recovery"] # None, << <<"publish", "recovery">> >>)
         \o When(PendingReport = None, PublishSteps("recovery"))
         \o When(SuffixClass # "clean", << <<"truncate", "journal">> >>)
         \o (IF staging["manifest"] # None THEN << <<"publish", "manifest">> >>
             ELSE PublishSteps("manifest"))
         \o << <<"adopt", "manifest">> >> \o SweepSteps

OpenCommittedSteps ==
    ConvergeRecoverySteps
    \o When(intent # None, CleanupCommittedRotationSteps \o << <<"sweep", "retry">> >>)
    \o << <<"sweep", "catalog">>, <<"sweep", "recovery">>, <<"open", "ready">> >>

GenesisSteps ==
    When(journals[1] = None, << <<"journal", "create">>, <<"journal", "write">> >>)
    \o When(checkpoints[1] = None, << <<"checkpoint", "create">> >>)
    \o When(checkpoints[1] # [gen |-> 1, seq |-> 0], InitializeCheckpointSteps)
    \o When(NoArtifact("registry"), PublishSteps("registry"))
    \o When(NoArtifact("retry"), PublishSteps("retry"))
    \o PublishSteps("manifest") \o << <<"adopt", "manifest">>, <<"open", "ready">> >>

MarkerSteps ==
    << <<"marker", "locked">>, <<"marker", "torn">>, <<"marker", "staged">>,
       <<"marker", "final">> >>

-----------------------------------------------------------------------------
(* Operations of the handle: each prepares its publication, then its steps *)
(* run one at a time.                                                      *)

ClosedHandle == [state |-> "Closed", manifests |-> [r \in Roots |-> None], cutoff |-> None]

\* Mutant: ensure_usable lets a handle in pressure custody mutate.
IdleOrReopenRequired == handle.state \in {"Writable", "ReopenRequired"} /\ todo = <<>>

Idle == handle.state = "Writable" /\ todo = <<>>
MemoryCurrent == handle.manifests[CurrentRoot(handle.manifests)]
Active == journals[handle.cutoff.journal]
LastSequence == MemoryCurrent.floor + Len(Active.frames)

Prepare(kind, ms, next, steps) ==
    /\ plan' = [kind |-> kind, root |-> TargetRoot(ms), next |-> next]
    /\ todo' = steps

\* Mutant: the append sequence is not checked against its width.
AppendFrameUnchecked(p) ==
    /\ Idle
    /\ Len(Active.frames) < MaxRecords
    /\ journals' = [journals EXCEPT ![handle.cutoff.journal].frames = Append(@, p)]
    /\ UNCHANGED <<marker, manifests, slots, staging, checkpoints, sealed, intent,
                   handle, plan, todo, acked>>

\* ManifestStore::append of one frame that fits the active generation.
AppendFrame(p) ==
    /\ Idle
    /\ LastSequence < MaxSequence
    /\ Len(Active.frames) < MaxRecords
    /\ journals' = [journals EXCEPT ![handle.cutoff.journal].frames = Append(@, p)]
    /\ UNCHANGED <<marker, manifests, slots, staging, checkpoints, sealed, intent,
                   handle, plan, todo, acked>>

\* The same append when its write fails: any strict prefix of the frame may
\* be in the journal, and the handle refuses every later mutation.
AppendFails(tail, state) ==
    /\ Idle
    /\ LastSequence < MaxSequence
    /\ Len(Active.frames) < MaxRecords
    /\ journals' = [journals EXCEPT ![handle.cutoff.journal].tail = tail]
    /\ handle' = [handle EXCEPT !.state = state]
    /\ UNCHANGED <<marker, manifests, slots, staging, checkpoints, sealed, intent,
                   plan, todo, acked>>

SyncPending ==
    LET cur == MemoryCurrent
        cutoff == [journal |-> handle.cutoff.journal,
                   checkpoint |-> handle.cutoff.checkpoint + 1, seq |-> LastSequence]
        retry == [slot |-> CandidateSlot("retry", handle.manifests),
                  art  |-> [gen |-> cur.retry.art.gen + 1, seq |-> LastSequence,
                            journal |-> cutoff.journal]]
    IN  /\ Idle
        /\ LastSequence # handle.cutoff.seq
        /\ cur.gen < MaxGeneration
        /\ Prepare("sync", handle.manifests,
                   [cur EXCEPT !.gen = cur.gen + 1, !.cutoff = cutoff, !.retry = retry],
                   SyncPendingSteps)
        /\ UNCHANGED <<disk, handle, acked>>

\* register, revise and retire: the operation changes the snapshot to value.
ApplyRegistry(value) ==
    LET cur == MemoryCurrent
        registry == [slot |-> CandidateSlot("registry", handle.manifests),
                     art  |-> [gen |-> cur.registry.art.gen + 1, value |-> value]]
    IN  /\ Idle
        /\ value # cur.registry.art.value
        /\ cur.gen < MaxGeneration
        /\ Prepare("registry", handle.manifests,
                   [cur EXCEPT !.gen = cur.gen + 1, !.cutoff = handle.cutoff,
                               !.registry = registry],
                   ApplyRegistrySteps)
        /\ UNCHANGED <<disk, handle, acked>>

Rotate ==
    LET cur == MemoryCurrent
        catalog == [slot |-> CandidateSlot("catalog", handle.manifests),
                    art  |-> [gen |-> CatalogGeneration(cur) + 1,
                              entries |-> Append(Entries(cur), SealedEntry(cur))]]
    IN  /\ Idle
        /\ Active.frames # <<>>
        /\ handle.cutoff = cur.cutoff /\ LastSequence = cur.cutoff.seq
        /\ Len(Entries(cur)) < MaxSealed
        /\ cur.gen < MaxGeneration
        /\ Prepare("rotate", handle.manifests,
                   [cur EXCEPT !.gen = cur.gen + 1, !.catalog = catalog,
                               !.floor = cur.cutoff.seq,
                               !.cutoff = [journal |-> cur.cutoff.journal + 1,
                                           checkpoint |-> 1, seq |-> cur.cutoff.seq]],
                   RotateSteps)
        /\ UNCHANGED <<disk, handle, acked>>

-----------------------------------------------------------------------------
(* Opening a directory.  A refused open changes nothing and is no step.    *)

OpenEmptyDirectory ==
    /\ handle.state = "Closed" /\ marker = "absent"
    /\ handle' = [handle EXCEPT !.state = "Opening"]
    /\ todo' = MarkerSteps \o << <<"open", "validate">> >>
    /\ UNCHANGED <<disk, plan, acked>>

OpenStagedMarker ==
    /\ handle.state = "Closed" /\ marker = "staged"
    /\ handle' = [handle EXCEPT !.state = "Opening"]
    /\ todo' = << <<"marker", "final">>, <<"open", "validate">> >>
    /\ UNCHANGED <<disk, plan, acked>>

\* open reaches its validation from a closed store, or after it published the
\* marker or rolled an uncommitted rotation back.
AtValidation ==
    \/ handle.state = "Closed"
    \/ handle.state = "Opening" /\ todo = << <<"open", "validate">> >>

OpenRollsBack ==
    /\ AtValidation /\ RollsBack
    /\ handle' = [handle EXCEPT !.state = "Opening"]
    /\ todo' = When(SuccessorUninitialized, InitializeCheckpointSteps)
               \o RollbackSteps \o << <<"open", "validate">> >>
    /\ UNCHANGED <<disk, plan, acked>>

OpenCommitted ==
    /\ AtValidation /\ OpensCommitted
    /\ handle' = [state |-> "Opening", manifests |-> manifests, cutoff |-> Current.cutoff]
    /\ IF RecoveryNeeded
       THEN Prepare("recovery", manifests, RecoveryManifest, OpenCommittedSteps)
       ELSE todo' = OpenCommittedSteps /\ plan' = None
    /\ UNCHANGED <<disk, acked>>

InitializeGenesis ==
    /\ AtValidation /\ InitializesGenesis
    /\ handle' = [state |-> "Opening", manifests |-> manifests, cutoff |-> GenesisCutoff]
    /\ Prepare("genesis", manifests,
               [gen |-> 1, cutoff |-> GenesisCutoff, floor |-> 0, catalog |-> None,
                recovery |-> None, registry |-> GenesisReference("registry"),
                retry |-> GenesisReference("retry")],
               GenesisSteps)
    /\ UNCHANGED <<disk, acked>>

-----------------------------------------------------------------------------
(* The file steps.                                                         *)

Step(op, arg) == todo # <<>> /\ Head(todo) = <<op, arg>> /\ todo' = Tail(todo)

\* The prepared publication is dropped with the operation's last step.
Settle == plan' = IF Len(todo) = 1 THEN None ELSE plan

StepMarker ==
    \E m \in {"locked", "torn", "staged", "final"} :
        /\ Step("marker", m)
        /\ marker' = m
        /\ UNCHANGED <<manifests, slots, staging, journals, checkpoints, sealed, intent,
                       handle, plan, acked>>

\* create_new of a staging file: an existing one is InterruptedPublication.
CreateStaging(f) ==
    /\ Step("create", f)
    /\ staging[f] = None
    /\ staging' = [staging EXCEPT ![f] = Torn]
    /\ UNCHANGED <<marker, manifests, slots, journals, checkpoints, sealed, intent,
                   handle, plan, acked>>

\* The complete bytes of the planned artifact, synchronized and read back.
WriteStaging(f) ==
    /\ Step("write", f)
    /\ staging' = [staging EXCEPT ![f] =
          CASE f = "manifest" -> plan.next
            [] f = "sealed" -> journals[intent.source].frames
            [] OTHER -> plan.next[f].art]
    /\ UNCHANGED <<marker, manifests, slots, journals, checkpoints, sealed, intent,
                   handle, plan, acked>>

\* The rename to the final name, which replaces what the slot held.
PublishStaging(f) ==
    /\ Step("publish", f)
    /\ staging' = [staging EXCEPT ![f] = None]
    /\ manifests' = IF f = "manifest" THEN [manifests EXCEPT ![plan.root] = staging[f]]
                                      ELSE manifests
    /\ sealed' = IF f = "sealed" THEN [sealed EXCEPT ![intent.source] = staging[f]]
                                 ELSE sealed
    /\ slots' = IF f \in Families THEN [slots EXCEPT ![f][plan.next[f].slot] = staging[f]]
                                  ELSE slots
    /\ UNCHANGED <<marker, journals, checkpoints, intent, handle, plan, acked>>

\* Mutant: the artifact of the previous manifest is removed too.
SweepBesideCurrent(f) ==
    /\ Step("sweep", f)
    /\ slots' = [slots EXCEPT ![f] = [s \in SlotIds |->
                    IF Current[f] # None /\ Current[f].slot = s THEN @[s] ELSE None]]
    /\ Settle
    /\ UNCHANGED <<marker, manifests, staging, journals, checkpoints, sealed, intent,
                   handle, acked>>

\* remove_unreferenced_{catalog,retry,recovery}_slots
SweepUnreferenced(f) ==
    /\ Step("sweep", f)
    /\ f = "recovery" => OnlyStaleRecoveryOrphans
    /\ slots' = [slots EXCEPT ![f] = [s \in SlotIds |->
                    IF s \in ReferencedSlots(f, manifests) THEN @[s] ELSE None]]
    /\ Settle
    /\ UNCHANGED <<marker, manifests, staging, journals, checkpoints, sealed, intent,
                   handle, acked>>

\* Creating the journal file, then its header.
StepJournal ==
    LET g == plan.next.cutoff.journal
    IN  /\ \/ /\ Step("journal", "create") /\ journals[g] = None
              /\ journals' = [journals EXCEPT ![g] = Torn]
           \/ /\ Step("journal", "write")
              /\ journals' = [journals EXCEPT ![g] = [frames |-> <<>>, tail |-> "clean"]]
        /\ UNCHANGED <<marker, manifests, slots, staging, checkpoints, sealed, intent,
                       handle, plan, acked>>

\* A checkpoint file is created empty and resized to two zero slots; a slot of
\* it is torn before it is complete.  The cutoff is the planned one, or the
\* successor's when a rollback, which plans nothing, completes its pair.
\* sync_pending adopts the new durable cutoff in memory once the slot is
\* synchronized.
StepCheckpoint ==
    LET cutoff == IF plan = None THEN SuccessorCutoff ELSE plan.next.cutoff
        g == cutoff.journal
    IN  /\ \/ /\ Step("checkpoint", "create") /\ checkpoints[g] = None
              /\ checkpoints' = [checkpoints EXCEPT ![g] = [gen |-> 0, seq |-> 0]]
              /\ UNCHANGED handle
           \/ /\ Step("checkpoint", "resize")
              /\ checkpoints' = [checkpoints EXCEPT ![g] = Zeroed]
              /\ UNCHANGED handle
           \/ /\ Step("checkpoint", "tear")
              /\ checkpoints' = [checkpoints EXCEPT ![g] = Torn]
              /\ UNCHANGED handle
           \/ /\ Step("checkpoint", "write")
              /\ checkpoints' = [checkpoints EXCEPT ![g] =
                                    [gen |-> cutoff.checkpoint, seq |-> cutoff.seq]]
              /\ handle' = IF plan # None /\ plan.kind = "sync"
                           THEN [handle EXCEPT !.cutoff = cutoff] ELSE handle
        /\ UNCHANGED <<marker, manifests, slots, staging, journals, sealed, intent, plan, acked>>

\* publish_rotation_intent writes the final name directly.
StepIntent ==
    LET source == MemoryCurrent
    IN  /\ \/ Step("intent", "create") /\ intent = None /\ intent' = Torn
           \/ /\ Step("intent", "write")
              /\ intent' = [source |-> source.cutoff.journal,
                            successor |-> source.cutoff.journal + 1,
                            checkpoint |-> source.cutoff.checkpoint,
                            cutoff |-> source.cutoff.seq,
                            registry |-> source.registry.art.gen,
                            catalog |-> CatalogGeneration(source) + 1]
        /\ UNCHANGED <<marker, manifests, slots, staging, journals, checkpoints, sealed,
                       handle, plan, acked>>

\* remove_file, where an absent file is not an error.
Unlink(file) ==
    /\ Step("unlink", file)
    /\ staging' = CASE file = "manifest staging" -> [staging EXCEPT !["manifest"] = None]
                    [] file = "catalog staging" -> [staging EXCEPT !["catalog"] = None]
                    [] file = "sealed staging" -> [staging EXCEPT !["sealed"] = None]
                    [] OTHER -> staging
    /\ slots' = IF file = "catalog candidate"
                THEN [slots EXCEPT !["catalog"][CandidateSlot("catalog", manifests)] = None]
                ELSE slots
    /\ sealed' = IF file = "sealed journal" THEN [sealed EXCEPT ![intent.source] = None]
                                            ELSE sealed
    /\ journals' = CASE file = "source journal" -> [journals EXCEPT ![intent.source] = None]
                     [] file = "successor journal" -> [journals EXCEPT ![intent.successor] = None]
                     [] OTHER -> journals
    /\ checkpoints' =
          CASE file = "source checkpoint" -> [checkpoints EXCEPT ![intent.source] = None]
            [] file = "successor checkpoint" -> [checkpoints EXCEPT ![intent.successor] = None]
            [] OTHER -> checkpoints
    /\ intent' = IF file = "intent" THEN None ELSE intent
    /\ UNCHANGED <<marker, manifests, handle, plan, acked>>

\* apply_recovery: the journal is cut back to the committed end.
TruncateJournal ==
    /\ Step("truncate", "journal")
    /\ journals' = [journals EXCEPT ![handle.cutoff.journal].tail = "clean"]
    /\ UNCHANGED <<marker, manifests, slots, staging, checkpoints, sealed, intent,
                   handle, plan, acked>>

\* Mutant: the handle keeps the manifest pair it had.
AdoptCutoffOnly ==
    /\ Step("adopt", "manifest")
    /\ handle' = [handle EXCEPT !.cutoff = plan.next.cutoff]
    /\ Settle
    /\ UNCHANGED <<disk, acked>>

\* The handle takes the published manifest; for sync_pending and the registry
\* operations this is the step that returns the commit to the caller.
AdoptManifest ==
    /\ Step("adopt", "manifest")
    /\ handle' = [handle EXCEPT !.manifests[plan.root] = plan.next, !.cutoff = plan.next.cutoff]
    /\ acked' = CASE plan.kind = "sync" -> [acked EXCEPT !.seq = plan.next.cutoff.seq]
                  [] plan.kind = "registry" -> [acked EXCEPT !.registry = plan.next.registry.art]
                  [] OTHER -> acked
    /\ Settle
    /\ UNCHANGED disk

\* open returns the store.
OpenReady ==
    /\ Step("open", "ready")
    /\ handle' = [handle EXCEPT !.state = "Writable"]
    /\ plan' = None
    /\ UNCHANGED <<disk, acked>>

\* A running step fails: open returns its error, an operation leaves the
\* handle in pressure custody or terminally faulted.
StepFails(state) ==
    /\ todo # <<>>
    /\ handle' = IF handle.state = "Opening" THEN ClosedHandle
                 ELSE [handle EXCEPT !.state = state]
    /\ todo' = <<>> /\ plan' = None
    /\ UNCHANGED <<disk, acked>>

\* The handle is dropped or the process stops, wherever it is.
Stop ==
    /\ handle.state # "Closed"
    /\ handle' = ClosedHandle
    /\ todo' = <<>> /\ plan' = None
    /\ UNCHANGED <<disk, acked>>

-----------------------------------------------------------------------------

Init ==
    /\ marker = "absent"
    /\ manifests = [r \in Roots |-> None]
    /\ slots = [f \in Families |-> [s \in SlotIds |-> None]]
    /\ staging = [f \in StagingFiles |-> None]
    /\ journals = [g \in Generations |-> None]
    /\ checkpoints = [g \in Generations |-> None]
    /\ sealed = [g \in Generations |-> None]
    /\ intent = None
    /\ handle = ClosedHandle
    /\ plan = None
    /\ todo = <<>>
    /\ acked = [seq |-> 0, registry |-> None]

FailureStates == {"ReopenRequired", "Faulted"}

UnlinkedFiles ==
    {"manifest staging", "catalog staging", "catalog candidate", "sealed staging",
     "sealed journal", "source journal", "successor journal", "source checkpoint",
     "successor checkpoint", "intent"}

Next ==
    \/ \E p \in Payloads : AppendFrame(p)
    \/ \E t \in TailClasses \cup {"clean"}, s \in FailureStates : AppendFails(t, s)
    \/ SyncPending
    \/ \E v \in RegistryValues : ApplyRegistry(v)
    \/ Rotate
    \/ OpenEmptyDirectory \/ OpenStagedMarker
    \/ OpenRollsBack \/ OpenCommitted \/ InitializeGenesis
    \/ StepMarker
    \/ \E f \in StagingFiles : CreateStaging(f) \/ WriteStaging(f) \/ PublishStaging(f)
    \/ \E f \in Families : SweepUnreferenced(f)
    \/ StepJournal \/ StepCheckpoint \/ StepIntent
    \/ \E file \in UnlinkedFiles : Unlink(file)
    \/ TruncateJournal
    \/ AdoptManifest
    \/ OpenReady
    \/ \E s \in FailureStates : StepFails(s)
    \/ Stop

Spec == Init /\ [][Next]_vars

-----------------------------------------------------------------------------
(* Properties.                                                             *)

References(artifacts) == [slot : SlotIds, art : artifacts]
Cutoffs == [journal : Generations, checkpoint : Nat, seq : 0..MaxSequence]
CatalogEntries ==
    [journal : Generations, floor : 0..MaxSequence, cutoff : 0..MaxSequence,
     registry : 1..MaxGeneration]
Artifact ==
    [registry |-> [gen : 1..MaxGeneration, value : RegistryValues],
     retry    |-> [gen : 1..MaxGeneration, seq : 0..MaxSequence, journal : Generations \cup {0}],
     catalog  |-> [gen : 1..MaxSealed, entries : Seq(CatalogEntries)],
     recovery |-> [gen : 1..MaxGeneration, source : 1..MaxGeneration, cutoff : Cutoffs,
                   floor : 0..MaxSequence, tail : TailClasses]]
ManifestRecords ==
    [gen : 1..MaxGeneration, cutoff : Cutoffs, floor : 0..MaxSequence,
     registry : References(Artifact.registry), retry : References(Artifact.retry),
     catalog : References(Artifact.catalog) \cup {None},
     recovery : References(Artifact.recovery) \cup {None}]

\* The shape of every file, of the handle and of the running operation.
TypeOK ==
    /\ marker \in {"absent", "locked", "torn", "staged", "final"}
    /\ \A r \in Roots : manifests[r] # None => manifests[r] \in ManifestRecords
    /\ \A f \in Families, s \in SlotIds :
          slots[f][s] # None => slots[f][s] \in Artifact[f]
    /\ \A f \in Families : staging[f] \notin {None, Torn} => staging[f] \in Artifact[f]
    /\ staging["manifest"] \notin {None, Torn} => staging["manifest"] \in ManifestRecords
    /\ \A g \in Generations :
          /\ journals[g] \notin {None, Torn} =>
               journals[g] \in [frames : Seq(Payloads), tail : TailClasses \cup {"clean"}]
          /\ sealed[g] # None => sealed[g] \in Seq(Payloads)
          /\ checkpoints[g] \notin {None, Torn, Zeroed} =>
               checkpoints[g] \in [gen : Nat, seq : 0..MaxSequence]
    /\ handle.state \in {"Closed", "Opening", "Writable"} \cup FailureStates
    /\ plan # None => plan.next \in ManifestRecords /\ plan.root \in Roots

\* Whatever step the process stops at, both retained manifests resolve: the
\* pair is a consecutive one select_current_manifest accepts, every artifact
\* either manifest names still has the bytes it names, and each retry
\* snapshot ends at its own manifest's cutoff (publish_reusable_slot only
\* replaces, and the sweeps only remove, what no retained manifest names).
RetainedRootsResolve ==
    /\ SelectCurrentManifest
    /\ \A m \in Retained :
          /\ Intact(m, "registry") /\ Intact(m, "recovery")
          /\ ReadReferencedCatalog(m) /\ ReadReferencedRetry(m)

\* Between operations the handle and the directory agree: the manifest pair
\* in memory is the pair on disk, and the journal's durable cutoff is the
\* current manifest's, so a registry commit cannot commit frames whose retry
\* outcomes were never published (apply_registry copies the journal cutoff).
MemoryMirrorsDirectory ==
    Idle => /\ handle.manifests = manifests
            /\ handle.cutoff = Current.cutoff

\* A store that is open, idle and has nothing unsynchronized can always be
\* reopened: no operation, recovery, rotation or rollback that ran to its end
\* leaves evidence a later open refuses.
CleanStoreReopens ==
    Idle /\ LastSequence = handle.cutoff.seq => OpensCommitted

\* An open that has already changed the directory (published the marker, or
\* rolled an uncommitted rotation back) does not then refuse it: only a failed
\* step can end it ("refuses unchanged").
OpenAcceptsWhatItChanged ==
    todo = << <<"open", "validate">> >> => OpensCommitted \/ InitializesGenesis

\* The running operation has renamed its manifest into place, and no complete
\* frame lies beyond that manifest's cutoff (a registry operation may run with
\* frames pending; open refuses those by contract).
Postcommit ==
    /\ plan # None /\ plan.next \in Retained
    /\ Len(journals[Current.cutoff.journal].frames) = Current.cutoff.seq - Current.floor

\* Once sync_pending has renamed its manifest into place, stopping at any
\* later step leaves a directory that reopens on it.
PublishedManifestReopens == Postcommit /\ plan.kind = "sync" => OpensCommitted

\* The one way a published manifest fails to reopen is a retry slot that the
\* publication left unreferenced and did not get to remove.
OnlyRetryOrphansBlockReopen ==
    Postcommit /\ ~Openable => intent = None /\ RetryOrphans # {}

\* A handle in pressure custody or faulted changes no file: only dropping it
\* leads anywhere (ensure_usable guards every mutation).
CustodyChangesNothing ==
    [][handle.state \in FailureStates => UNCHANGED disk]_vars

\* The current manifest is replaced only by its immediate successor, and
\* stays behind as the retained previous root.
RootAdvancesByOne ==
    [][Retained # {} /\ manifests' # manifests =>
          Current'.gen = Current.gen + 1 /\ Current \in Retained']_vars

\* The admissions and registry the current manifest commits.
CommittedLog ==
    IF Retained = {} THEN <<>>
    ELSE FlattenSeq([i \in DOMAIN Entries(Current) |-> sealed[Entries(Current)[i].journal]])
         \o SubSeq(journals[Current.cutoff.journal].frames, 1, Current.cutoff.seq - Current.floor)

CommittedRegistry == IF Retained = {} THEN None ELSE Current.registry.art

Authority == INSTANCE DurableAuthority WITH log <- CommittedLog, registry <- CommittedRegistry

\* The directory implements the durable authority: through every stop,
\* failure, rotation, rollback and recovery the committed log only grows, the
\* registry only advances by whole generations, and nothing is reported
\* committed that is not.
ImplementsAuthority == Authority!Spec

\* One artifact family seen as rooted slots, an artifact by its generation.
RootsOf(f) ==
    [r \in Roots |->
        IF manifests[r] = None THEN None
        ELSE [gen |-> manifests[r].gen,
              ref |-> IF manifests[r][f] = None THEN None
                      ELSE [slot |-> manifests[r][f].slot, art |-> manifests[r][f].art.gen]]]

SlotsOf(f) == [s \in SlotIds |-> IF slots[f][s] = None THEN None ELSE slots[f][s].gen]

RegistrySlots == INSTANCE RootedSlots
    WITH Artifacts <- 1..MaxGeneration, roots <- RootsOf("registry"), slots <- SlotsOf("registry")
RetrySlots == INSTANCE RootedSlots
    WITH Artifacts <- 1..MaxGeneration, roots <- RootsOf("retry"), slots <- SlotsOf("retry")
CatalogSlots == INSTANCE RootedSlots
    WITH Artifacts <- 1..MaxGeneration, roots <- RootsOf("catalog"), slots <- SlotsOf("catalog")
RecoverySlots == INSTANCE RootedSlots
    WITH Artifacts <- 1..MaxGeneration, roots <- RootsOf("recovery"), slots <- SlotsOf("recovery")

\* Each of the four artifact families follows the reuse discipline of
\* RootedSlots: slots are only written or removed while no retained manifest
\* names them, and a manifest only names what is already in place.
FamiliesAreRootedSlots ==
    RegistrySlots!Spec /\ RetrySlots!Spec /\ CatalogSlots!Spec /\ RecoverySlots!Spec
=============================================================================
