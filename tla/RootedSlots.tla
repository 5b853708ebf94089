---------------------------- MODULE RootedSlots ----------------------------
(***************************************************************************)
(* The reuse discipline of one artifact family (registry, retry, catalog   *)
(* or recovery): two manifest roots written in turn, three slots, and no   *)
(* write to a slot a retained root names.  Because every state here is a   *)
(* state of the directory, what is invariant here holds after a stop at    *)
(* any step.                                                               *)
(***************************************************************************)
EXTENDS Integers

CONSTANTS
    None,          \* no root, no reference, or an empty slot
    Artifacts,     \* what the family's slots may hold
    MaxGeneration  \* u64::MAX: the generation after it is GenerationExhausted

ASSUME RootedSlotsAssumption == None \notin Artifacts /\ MaxGeneration \in Nat \ {0}

Roots == 0..1
SlotIds == 0..2
References == [slot : SlotIds, art : Artifacts]
RootRecords == [gen : 1..MaxGeneration, ref : References \cup {None}]

ASSUME NoneIsNoRecord == None \notin References \cup RootRecords

VARIABLES
    roots,  \* the retained manifests: generation and reference to the family
    slots   \* the reusable slots of the family

vars == <<roots, slots>>

Init ==
    /\ roots = [r \in Roots |-> None]
    /\ slots = [s \in SlotIds |-> None]

\* Some retained root names slot s.
Referenced(s) ==
    \E r \in Roots : roots[r] # None /\ roots[r].ref # None /\ roots[r].ref.slot = s

\* Mutant: a slot is replaced whether or not a root names it.
PublishAnywhere(s, a) ==
    /\ slots' = [slots EXCEPT ![s] = a]
    /\ UNCHANGED roots

\* publish_reusable_slot: a complete artifact replaces an unreferenced slot.
Publish(s, a) ==
    /\ ~Referenced(s)
    /\ slots' = [slots EXCEPT ![s] = a]
    /\ UNCHANGED roots

\* remove_unreferenced_*_slots, and the rollback of an uncommitted candidate.
Remove(gone) ==
    /\ \A s \in gone : ~Referenced(s)
    /\ slots' = [s \in SlotIds |-> IF s \in gone THEN None ELSE slots[s]]
    /\ UNCHANGED roots

\* What a new root may name: nothing, or an artifact that is in place.
Nameable ==
    {None} \cup {[slot |-> s, art |-> slots[s]] : s \in {t \in SlotIds : slots[t] # None}}

\* Mutant: the current root is replaced in place.
CommitOverCurrent(r, ref) ==
    LET current == roots[r]
    IN  /\ IF current = None THEN roots[1 - r] = None ELSE current.gen < MaxGeneration
        /\ ref = None /\ current # None => current.ref = None
        /\ roots' = [roots EXCEPT ![r] =
                        [gen |-> IF current = None THEN 1 ELSE current.gen + 1, ref |-> ref]]
        /\ UNCHANGED slots

\* Mutant: the generation is not checked against its width.
CommitUnchecked(r, ref) ==
    LET other == roots[1 - r]
    IN  /\ IF other = None
           THEN roots[r] = None
           ELSE roots[r] # None => roots[r].gen < other.gen
        /\ ref = None /\ other # None => other.ref = None
        /\ roots' = [roots EXCEPT ![r] =
                        [gen |-> IF other = None THEN 1 ELSE other.gen + 1, ref |-> ref]]
        /\ UNCHANGED slots

\* A manifest publication replaces the root that is not current by the next
\* generation; a family once referenced stays referenced.
Commit(r, ref) ==
    LET other == roots[1 - r]
    IN  /\ IF other = None
           THEN roots[r] = None
           ELSE /\ roots[r] # None => roots[r].gen < other.gen
                /\ other.gen < MaxGeneration
        /\ ref = None /\ other # None => other.ref = None
        /\ roots' = [roots EXCEPT ![r] =
                        [gen |-> IF other = None THEN 1 ELSE other.gen + 1, ref |-> ref]]
        /\ UNCHANGED slots

Next ==
    \/ \E s \in SlotIds, a \in Artifacts : Publish(s, a)
    \/ \E gone \in SUBSET SlotIds : Remove(gone)
    \/ \E r \in Roots, ref \in Nameable : Commit(r, ref)

Spec == Init /\ [][Next]_vars

-----------------------------------------------------------------------------

\* Every value of the two variables has its shape.
TypeOK ==
    /\ roots \in [Roots -> RootRecords \cup {None}]
    /\ slots \in [SlotIds -> Artifacts \cup {None}]

\* Both retained roots can be read at any moment: a publication or a removal
\* never touches a slot that the current or the previous manifest names
\* (prepare_registry_snapshot and its siblings choose an unreferenced slot,
\* the removals skip referenced ones).
RetainedReferencesIntact ==
    \A r \in Roots : roots[r] # None /\ roots[r].ref # None =>
        slots[roots[r].ref.slot] = roots[r].ref.art

\* select_current_manifest never finds a gap: two retained generations are
\* consecutive, and a single one is generation one.
RetainedGenerationsConsecutive ==
    \A r \in Roots : roots[r] # None =>
        IF roots[1 - r] = None THEN roots[r].gen = 1
        ELSE roots[r].gen - roots[1 - r].gen \in {-1, 1}
=============================================================================
