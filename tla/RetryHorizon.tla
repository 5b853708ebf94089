---------------------------- MODULE RetryHorizon ----------------------------
(***************************************************************************)
(* The two-tier retry horizon of och-store (retry.rs) with the two holders *)
(* of it: the store, which advances it with every durable batch, and the   *)
(* ingress, which answers submitters from its own copy and re-derives each *)
(* advance before it installs the new one.                                 *)
(*                                                                         *)
(* A qualification is a key (series, producer and retry key) with a        *)
(* content.  Frames are counted, so an end offset is the number of frames  *)
(* of its journal generation.  A commit is atomic here; its file steps are *)
(* those of ManifestStore.                                                 *)
(***************************************************************************)
EXTENDS Integers, Sequences, FiniteSets

CONSTANTS
    None,            \* no advance is running
    Keys, Contents,  \* the parts of a retry qualification
    ReplayCapacity,  \* RetryPersistenceOptions::replay_capacity
    GuardCapacity,   \* RetryPersistenceOptions::guard_capacity
    MaxOutstanding,  \* MAX_OUTSTANDING_COMMANDS
    MaxEntries,      \* MAX_PERSISTED_RETRY_ENTRIES
    MaxSequence,     \* bound on append sequences
    MaxManifest      \* bound on manifest generations

ASSUME RetryHorizonAssumption ==
    {ReplayCapacity, GuardCapacity, MaxOutstanding, MaxSequence, MaxManifest} \subseteq Nat \ {0}

\* RetryPersistenceOptions::new refuses larger tiers; 16 slots are fewer than
\* 4096 entries.
ASSUME MaxEntriesAssumption ==
    /\ MaxEntries \in Nat
    /\ ReplayCapacity + GuardCapacity <= MaxEntries /\ MaxOutstanding <= MaxEntries

VARIABLES
    journal,   \* the qualification of every complete frame, by append sequence
    root,      \* the current manifest's commit
    older,     \* the registry and retry slots the previous manifest names
    catalog,   \* sealed generations, oldest first
    tiers,     \* the store's committed projection
    mirror,    \* the projection in the ingress state
    queue,     \* the set of admitted qualifications that are not appended yet
    resolved,  \* last append sequence whose receipt is durable
    work,      \* the running advance, or None
    state      \* "Open", "Closed", or "Failed" by a refused advance

vars == <<journal, root, older, catalog, tiers, mirror, queue, resolved, work, state>>

Qualifications == [key : Keys, content : Contents]

\* Mutant: a changed content makes another qualification.
ClassificationByContent(p, q) == IF p = q THEN "Equivalent" ELSE "Distinct"

\* RetryQualification::classify
Classification(p, q) ==
    IF p.key # q.key THEN "Distinct"
    ELSE IF p.content = q.content THEN "Equivalent" ELSE "Conflict"

\* Some entry of a tier relates to q in this way.
Some(entries, q, relation) ==
    \E k \in DOMAIN entries : Classification(entries[k].q, q) = relation

\* RetryStateSnapshot::classify.  Retained keys are distinct, so the order
\* in which the entries are compared does not matter.
Classify(t, q) ==
    IF Some(t.replay, q, "Equivalent") THEN "Replay"
    ELSE IF Some(t.guard, q, "Equivalent") THEN "Expired"
    ELSE IF Some(t.replay, q, "Conflict") \/ Some(t.guard, q, "Conflict") THEN "Conflict"
    ELSE "Fresh"

-----------------------------------------------------------------------------
(* What a snapshot must satisfy on its own, and under a manifest.          *)

CutoffEnd(c) == c.seq - c.floor
Reference(c) == [slot |-> c.slot, gen |-> c.retry]

\* Commits of one registry generation name one registry slot.
SameRegistrySlot(p, c) == p.registry = c.registry => p.regslot = c.regslot

\* The catalog and the floor of a manifest in its journal generation.
GenerationRooted(c) ==
    IF c.journal = 1 THEN c.floor = 0 /\ c.catalog = 0
    ELSE c.floor > 0 /\ c.catalog > 0 /\ c.seq >= c.floor

\* Sequences strictly grow along the entries, from above a given one.
Ascending(entries, above) ==
    \A k \in DOMAIN entries :
        entries[k].seq > IF k = 1 THEN above ELSE entries[k - 1].seq

Newest(t) ==
    IF t.replay # <<>> THEN t.replay[Len(t.replay)].seq
    ELSE IF t.guard # <<>> THEN t.guard[Len(t.guard)].seq ELSE 0

OutcomeWithinItsCommit(o) ==
    LET c == o.commit
    IN  /\ c.seq > 0 /\ o.seq <= c.seq /\ o.end <= CutoffEnd(c)
        /\ o.seq = c.seq <=> o.end = CutoffEnd(c)
        /\ c.manifest >= c.registry /\ c.manifest >= c.retry
        /\ {c.slot, c.regslot} \subseteq 0..2
        /\ GenerationRooted(c)

OutcomeFollows(p, o) ==
    /\ o.commit.journal >= p.commit.journal
    /\ o.commit.journal = p.commit.journal =>
         o.end > p.end /\ o.commit.checkpoint >= p.commit.checkpoint
    /\ \A field \in {"manifest", "registry", "seq", "retry"} :
          o.commit[field] >= p.commit[field]

ValidateState(t) ==
    LET retained == t.replay \o t.guard
    IN  /\ Len(t.replay) <= ReplayCapacity /\ Len(t.guard) <= GuardCapacity
        /\ Len(retained) <= MaxEntries
        /\ t.reference.slot \in 0..2 /\ t.reference.gen > 0
        /\ Ascending(t.guard, 0)
        /\ Ascending(t.replay, IF t.guard = <<>> THEN 0 ELSE t.guard[Len(t.guard)].seq)
        /\ \A k \in DOMAIN t.replay :
              /\ OutcomeWithinItsCommit(t.replay[k])
              /\ t.replay[k].commit.retry <= t.reference.gen
              /\ k > 1 => OutcomeFollows(t.replay[k - 1], t.replay[k])
        /\ \A j, k \in DOMAIN retained :
              j < k => Classification(retained[j].q, retained[k].q) = "Distinct"

ValidateCommitProgression(p, c) ==
    IF c.retry = p.retry THEN c = p
    ELSE /\ c.retry = p.retry + 1 /\ c.slot # p.slot
         /\ c.manifest > p.manifest /\ c.seq > p.seq
         /\ IF c.journal = p.journal
            THEN c.checkpoint = p.checkpoint + 1 /\ CutoffEnd(c) > CutoffEnd(p)
            ELSE c.journal = p.journal + 1 /\ c.floor = p.seq /\ c.catalog > 0
         /\ c.registry >= p.registry /\ SameRegistrySlot(p, c)

\* GenerationCatalogSnapshot::covers_commit of the catalog entries given.
CoversCommit(entries, o) ==
    \E i \in DOMAIN entries :
        /\ i = o.commit.journal
        /\ entries[i].floor < o.seq /\ o.seq <= entries[i].cutoff
        /\ 0 < o.end /\ o.end <= entries[i].cutoff - entries[i].floor

\* The catalog is given when open reads a snapshot; advance has none and
\* accepts any sealed generation.
Covered(o, c, entries) == IF entries = None THEN c.catalog > 0 ELSE CoversCommit(entries, o)

ValidateRoot(t, c, entries) ==
    LET n == Len(t.replay)
        newest == t.replay[n]
        retained == t.guard \o t.replay
    IN  /\ ValidateState(t)
        /\ t.reference = Reference(c)
        /\ GenerationRooted(c)
        /\ entries # None => Len(entries) = c.catalog
        /\ IF n = 0 THEN t.guard = <<>> /\ c.retry = 1
           ELSE /\ t.guard # <<>> => n = ReplayCapacity
                /\ newest.seq = c.seq /\ Reference(newest.commit) = Reference(c)
                /\ IF newest.commit.journal = c.journal
                   THEN newest.end = CutoffEnd(c)
                   ELSE /\ c.seq = c.floor /\ newest.commit.journal < c.journal
                        /\ Covered(newest, c, entries)
                /\ \A k \in 2..Len(retained) : retained[k].seq = retained[k - 1].seq + 1
                /\ \A k \in 1..n :
                      LET o == t.replay[k] p == o.commit
                      IN  /\ p.manifest <= c.manifest /\ p.registry <= c.registry
                          /\ SameRegistrySlot(p, c)
                          /\ p.journal <= c.journal /\ p.seq <= c.seq /\ p.retry <= c.retry
                          /\ p.journal = c.journal =>
                               p.checkpoint <= c.checkpoint /\ CutoffEnd(p) <= CutoffEnd(c)
                          /\ p.journal < c.journal => Covered(o, c, entries)
                          /\ p.manifest = c.manifest => p = c
                          /\ k > 1 => ValidateCommitProgression(t.replay[k - 1].commit, p)
                          /\ (k = n \/ Reference(t.replay[k + 1].commit) # Reference(p)) =>
                               o.seq = p.seq /\ o.end = CutoffEnd(p)

\* The pending frames first..last carry projection t to commit c and to the
\* given reference.  Frames are counted, so the last one ends at the cutoff
\* offset exactly when it has the cutoff sequence.
ValidateTransitionPreflight(t, reference, first, last, c) ==
    LET pending == last - first + 1
    IN  /\ 0 < pending /\ pending <= MaxEntries
        /\ Reference(c) = reference
        /\ first = c.seq - (pending - 1) /\ last = c.seq
        /\ t.replay # <<>> => c.seq - t.replay[Len(t.replay)].commit.seq = pending

-----------------------------------------------------------------------------
(* The submitters' side.                                                   *)

\* Qualifications that hold an ingress slot: queued, or appended and not yet
\* reported durable.
InFlight ==
    queue \cup {journal[i] : i \in (resolved + 1)..Len(journal)}

\* complete_durable_batch holds the ingress mutex while it re-derives.
IngressLocked == work # None /\ work.side = "ingress"

\* Mutant: only the committed horizon is consulted.
SubmitUncoalesced(q) ==
    /\ state = "Open" /\ ~IngressLocked
    /\ Classify(mirror, q) = "Fresh"
    /\ Cardinality(queue) + Len(journal) - resolved < MaxOutstanding
    /\ queue' = queue \cup {q}
    /\ UNCHANGED <<journal, root, older, catalog, tiers, mirror, resolved, work, state>>

\* try_submit takes a slot.  A qualification in flight is coalesced or refused,
\* and one the horizon retains is replayed or refused: no state changes then.
Submit(q) ==
    /\ state = "Open" /\ ~IngressLocked
    /\ \A p \in InFlight : Classification(p, q) = "Distinct"
    /\ Classify(mirror, q) = "Fresh"
    /\ Cardinality(queue) + Len(journal) - resolved < MaxOutstanding
    /\ queue' = queue \cup {q}
    /\ UNCHANGED <<journal, root, older, catalog, tiers, mirror, resolved, work, state>>

-----------------------------------------------------------------------------
(* The worker's side: one message at a time, each flush run to its end.    *)

WorkerIdle == state = "Open" /\ work = None /\ resolved = root.seq

\* take_next, the round trip to the worker and its append.  Priorities are
\* not modelled: any admitted qualification may be the next.
AppendNext(q) ==
    /\ WorkerIdle
    /\ Len(journal) < MaxSequence
    /\ journal' = Append(journal, q)
    /\ queue' = queue \ {q}
    /\ UNCHANGED <<root, older, catalog, tiers, mirror, resolved, work, state>>

\* select_retry_candidate_slot, and the same search for a registry slot: the
\* lowest slot neither manifest names.
CandidateSlot(current, previous) ==
    CHOOSE s \in 0..2 \ {current, previous} : \A t \in 0..2 \ {current, previous} : s <= t

\* The slots a manifest names.
NamedSlots(c) == [registry |-> c.regslot, retry |-> c.slot]

\* A refused advance stops the ingress and the worker.
Refuse ==
    /\ state' = "Failed" /\ work' = None /\ queue' = {}
    /\ UNCHANGED <<journal, root, older, catalog, tiers, mirror, resolved>>

\* advance of projection t, with the reference to reach, over every frame of
\* the journal after seq, up to commit c.
BeginAdvance(side, t, reference, seq, c) ==
    IF ValidateTransitionPreflight(t, reference, seq + 1, Len(journal), c)
    THEN /\ work' = [side |-> side, replay |-> t.replay, guard |-> t.guard, seq |-> seq,
                     commit |-> c]
         /\ UNCHANGED <<journal, root, older, catalog, tiers, mirror, queue, resolved, state>>
    ELSE Refuse

\* prepare_synced_pending of every frame appended since the last commit.
SyncPending ==
    /\ WorkerIdle
    /\ Len(journal) > root.seq /\ root.manifest < MaxManifest
    /\ LET retry == [slot |-> CandidateSlot(root.slot, older.retry), gen |-> root.retry + 1]
       IN  BeginAdvance("store", tiers, retry, root.seq,
              [root EXCEPT !.manifest = root.manifest + 1, !.seq = Len(journal),
                           !.checkpoint = root.checkpoint + 1, !.retry = retry.gen,
                           !.slot = retry.slot])

\* The projection the running advance started from.
Self == IF work.side = "store" THEN tiers ELSE mirror

Acceptable(q, seq) ==
    /\ seq > Newest(work)
    /\ Classify(Self, q) = "Fresh"
    /\ \A k \in DOMAIN work.replay : Classification(work.replay[k].q, q) = "Distinct"
    /\ \A k \in DOMAIN work.guard : Classification(work.guard[k].q, q) = "Distinct"

\* Mutant: the outcome that leaves the replay tier is not guarded.
PushUnguarded(replay, guard, o) ==
    LET grown == Append(replay, o)
    IN  [replay |-> IF Len(grown) > ReplayCapacity THEN Tail(grown) ELSE grown, guard |-> guard]

\* The newest outcome pushes the oldest one into the guard tier, and that the
\* oldest guard out.
Push(replay, guard, o) ==
    LET grown == Append(replay, o)
        full == Len(grown) > ReplayCapacity
        guarded == Append(guard, [q |-> Head(grown).q, seq |-> Head(grown).seq])
    IN  [replay |-> IF full THEN Tail(grown) ELSE grown,
         guard |-> IF ~full THEN guard
                   ELSE IF Len(guarded) > GuardCapacity THEN Tail(guarded) ELSE guarded]

\* One iteration of advance.
AdvanceEntry ==
    LET seq == work.seq + 1
        q == journal[seq]
        next == Push(work.replay, work.guard,
                     [q |-> q, seq |-> seq, end |-> seq - work.commit.floor,
                      commit |-> work.commit])
    IN  /\ work # None /\ work.seq < work.commit.seq
        /\ IF Acceptable(q, seq)
           THEN /\ work' = [work EXCEPT !.replay = next.replay, !.guard = next.guard,
                                        !.seq = seq]
                /\ UNCHANGED <<journal, root, older, catalog, tiers, mirror, queue,
                               resolved, state>>
           ELSE Refuse

\* The projection advance returns.
Candidate == [replay |-> work.replay, guard |-> work.guard, reference |-> Reference(work.commit)]

Advanced(side) == work # None /\ work.side = side /\ work.seq = work.commit.seq

\* commit_synced_pending: the snapshot is committed with its manifest.
CommitSyncedPending ==
    /\ Advanced("store")
    /\ IF ValidateRoot(Candidate, work.commit, None)
       THEN /\ root' = work.commit /\ older' = NamedSlots(root)
            /\ tiers' = Candidate
            /\ work' = None
            /\ UNCHANGED <<journal, catalog, mirror, queue, resolved, state>>
       ELSE Refuse

\* complete_durable_batch: verifies_transition starts the same advance from
\* the ingress projection, over the entries of the batch.  The worker appends
\* nothing before it returns, so they reach to the end of the journal.
BeginVerification ==
    /\ state = "Open" /\ work = None /\ resolved < root.seq
    /\ BeginAdvance("ingress", mirror, tiers.reference, resolved, root)

\* It installs the committed projection with every receipt of the batch.
CompleteDurableBatch ==
    /\ Advanced("ingress")
    /\ IF ValidateRoot(Candidate, work.commit, None) /\ Candidate = tiers
       THEN /\ mirror' = tiers /\ resolved' = root.seq
            /\ work' = None
            /\ UNCHANGED <<journal, root, older, catalog, tiers, queue, state>>
       ELSE Refuse

\* Mutant: the manifest generation is not checked against its width.
CommitRegistryUnchecked ==
    /\ WorkerIdle
    /\ root' = [root EXCEPT !.manifest = root.manifest + 1, !.registry = root.registry + 1,
                            !.regslot = CandidateSlot(root.regslot, older.registry)]
    /\ older' = NamedSlots(root)
    /\ UNCHANGED <<journal, catalog, tiers, mirror, queue, resolved, work, state>>

\* A registry commit keeps the retry reference and the cutoff.
CommitRegistry ==
    /\ WorkerIdle
    /\ root.manifest < MaxManifest
    /\ root' = [root EXCEPT !.manifest = root.manifest + 1, !.registry = root.registry + 1,
                            !.regslot = CandidateSlot(root.regslot, older.registry)]
    /\ older' = NamedSlots(root)
    /\ UNCHANGED <<journal, catalog, tiers, mirror, queue, resolved, work, state>>

\* Mutant: the sealed range ends one append short.
RotateShort ==
    /\ WorkerIdle
    /\ Len(journal) = root.seq /\ root.seq > root.floor
    /\ root.manifest < MaxManifest
    /\ catalog' = Append(catalog, [floor |-> root.floor, cutoff |-> root.seq - 1])
    /\ root' = [root EXCEPT !.manifest = root.manifest + 1, !.journal = root.journal + 1,
                            !.checkpoint = 1, !.floor = root.seq,
                            !.catalog = root.catalog + 1]
    /\ older' = NamedSlots(root)
    /\ UNCHANGED <<journal, tiers, mirror, queue, resolved, work, state>>

\* rotate, with nothing pending and at least one frame in the generation.
Rotate ==
    /\ WorkerIdle
    /\ Len(journal) = root.seq /\ root.seq > root.floor
    /\ root.manifest < MaxManifest
    /\ catalog' = Append(catalog, [floor |-> root.floor, cutoff |-> root.seq])
    /\ root' = [root EXCEPT !.manifest = root.manifest + 1, !.journal = root.journal + 1,
                            !.checkpoint = 1, !.floor = root.seq,
                            !.catalog = root.catalog + 1]
    /\ older' = NamedSlots(root)
    /\ UNCHANGED <<journal, tiers, mirror, queue, resolved, work, state>>

\* The process stops anywhere and its memory is lost; the ingress copy is dead
\* until Reopen replaces it.
Stop ==
    /\ state = "Open"
    /\ state' = "Closed" /\ work' = None /\ queue' = {}
    /\ UNCHANGED <<journal, root, older, catalog, tiers, mirror, resolved>>

\* open refuses complete frames beyond the cutoff and a snapshot that does not
\* validate; install_opened_retry then gives the ingress its copy.  A truncated
\* suffix is recovered with one more manifest.
Reopen(recovers) ==
    /\ state = "Closed"
    /\ Len(journal) = root.seq
    /\ ValidateRoot(tiers, root, catalog)
    /\ recovers => root.manifest < MaxManifest
    /\ root' = IF recovers THEN [root EXCEPT !.manifest = root.manifest + 1] ELSE root
    /\ older' = IF recovers THEN NamedSlots(root) ELSE older
    /\ mirror' = tiers /\ resolved' = root.seq
    /\ state' = "Open"
    /\ UNCHANGED <<journal, catalog, tiers, queue, work>>

-----------------------------------------------------------------------------

Genesis ==
    [manifest |-> 1, registry |-> 1, regslot |-> 0, journal |-> 1, checkpoint |-> 1, seq |-> 0,
     floor |-> 0, catalog |-> 0, retry |-> 1, slot |-> 0]

EmptyTiers == [replay |-> <<>>, guard |-> <<>>, reference |-> Reference(Genesis)]

Init ==
    /\ journal = <<>> /\ catalog = <<>> /\ queue = {}
    /\ root = Genesis /\ older = NamedSlots(Genesis)
    /\ tiers = EmptyTiers /\ mirror = EmptyTiers
    /\ resolved = 0
    /\ work = None
    /\ state = "Open"

Next ==
    \/ \E q \in Qualifications : Submit(q)
    \/ \E q \in queue : AppendNext(q)
    \/ SyncPending \/ AdvanceEntry \/ CommitSyncedPending
    \/ BeginVerification \/ CompleteDurableBatch
    \/ CommitRegistry \/ Rotate
    \/ Stop
    \/ \E recovers \in BOOLEAN : Reopen(recovers)

Spec == Init /\ [][Next]_vars

-----------------------------------------------------------------------------
(* Properties.                                                             *)

\* The entries are consecutive appends, the newest of them at sequence last,
\* each with the qualification that was appended there.
AppendsUpTo(entries, last) ==
    \A k \in 1..Len(entries) :
        LET seq == last - Len(entries) + k
        IN  entries[k].seq = seq /\ entries[k].q = journal[seq]

\* The projection holds exactly the newest appends up to sequence n, the
\* newest ReplayCapacity of them replayable and the GuardCapacity before those
\* guarded.
Recent(t, n) ==
    LET replayed == Len(t.replay)
    IN  /\ replayed = IF n < ReplayCapacity THEN n ELSE ReplayCapacity
        /\ Len(t.guard) = IF n - replayed < GuardCapacity THEN n - replayed ELSE GuardCapacity
        /\ AppendsUpTo(t.replay, n) /\ AppendsUpTo(t.guard, n - replayed)

Commits ==
    [manifest : 1..MaxManifest, registry : 1..MaxManifest, regslot : 0..2,
     journal : 1..MaxManifest, checkpoint : 1..MaxManifest, seq : 0..MaxSequence,
     floor : 0..MaxSequence, catalog : 0..MaxManifest, retry : 1..MaxManifest, slot : 0..2]
SlotPairs == [registry : 0..2, retry : 0..2]
Outcomes == [q : Qualifications, seq : 1..MaxSequence, end : 1..MaxSequence, commit : Commits]
Guards == [q : Qualifications, seq : 1..MaxSequence]

\* Both projections hold bounded tiers of outcomes and guards.
TypeOK ==
    /\ journal \in Seq(Qualifications) /\ queue \subseteq Qualifications
    /\ root \in Commits /\ older \in SlotPairs
    /\ resolved \in 0..MaxSequence
    /\ \A t \in {tiers, mirror} :
          /\ t.replay \in Seq(Outcomes) /\ Len(t.replay) <= ReplayCapacity
          /\ t.guard \in Seq(Guards) /\ Len(t.guard) <= GuardCapacity
    /\ state \in {"Open", "Closed", "Failed"}

\* The store's projection, and the ingress copy as of the last resolved
\* receipt, are exactly the newest appends: advance drops nothing early, keeps
\* nothing late and skips nothing between the tiers.
HorizonIsRecent == Recent(tiers, root.seq) /\ Recent(mirror, resolved)

\* No key is durably appended again within the horizon: two frames of the same
\* key lie more than ReplayCapacity + GuardCapacity appends apart, whatever
\* submissions, batches, rotations and restarts lie between.
AtMostOnceWithinHorizon ==
    \A i, j \in 1..root.seq :
        i < j /\ journal[i].key = journal[j].key => j - i > ReplayCapacity + GuardCapacity

\* A batch of what the ingress admitted is never refused by advance: the stale
\* ingress copy and the slots in flight together leave no gap.
AdvanceNeverRefuses == state # "Failed"

\* The committed snapshot always validates against the committed manifest and
\* catalog, so a reopen accepts it after any batches, registry commits,
\* rotations and recoveries.
SnapshotReopens == ValidateRoot(tiers, root, catalog)
=============================================================================
