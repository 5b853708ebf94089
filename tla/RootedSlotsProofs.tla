------------------------- MODULE RootedSlotsProofs -------------------------
(***************************************************************************)
(* The reuse discipline of RootedSlots is safe for every set of artifacts  *)
(* and every generation bound.                                             *)
(***************************************************************************)
EXTENDS RootedSlots, TLAPS

\* What a step preserves: the shapes, the intact references and the
\* consecutive generations.  The second needs the third: a root is only
\* replaced when it is the older one, so the newer root's reference survives.
IInv == TypeOK /\ RetainedReferencesIntact /\ RetainedGenerationsConsecutive

\* None is told apart from every reference, root and artifact.
LEMMA NoneDistinct ==
    /\ None \notin Artifacts /\ None \notin References /\ None \notin RootRecords
    /\ MaxGeneration \in Nat \ {0}
BY RootedSlotsAssumption, NoneIsNoRecord

\* The empty directory satisfies the invariant.
LEMMA InitIInv == Init => IInv
BY NoneDistinct DEF Init, IInv, TypeOK, RetainedReferencesIntact,
    RetainedGenerationsConsecutive, Roots, SlotIds

\* publish_reusable_slot keeps it, because it only writes an unreferenced slot.
LEMMA PublishIInv ==
    ASSUME IInv, NEW s \in SlotIds, NEW a \in Artifacts, Publish(s, a)
    PROVE  IInv'
<1>1. TypeOK' BY DEF IInv, TypeOK, Publish
<1>2. RetainedReferencesIntact'
  <2> SUFFICES ASSUME NEW r \in Roots, roots[r] # None, roots[r].ref # None
               PROVE  slots'[roots[r].ref.slot] = roots[r].ref.art
    BY DEF RetainedReferencesIntact, Publish
  <2>1. roots[r].ref.slot # s BY DEF Publish, Referenced
  <2>2. roots[r].ref.slot \in SlotIds BY DEF IInv, TypeOK, RootRecords, References
  <2> QED BY <2>1, <2>2 DEF IInv, TypeOK, RetainedReferencesIntact, Publish
<1>3. RetainedGenerationsConsecutive' BY DEF IInv, RetainedGenerationsConsecutive, Publish
<1> QED BY <1>1, <1>2, <1>3 DEF IInv

\* The removals keep it, because they skip every referenced slot.
LEMMA RemoveIInv ==
    ASSUME IInv, NEW gone \in SUBSET SlotIds, Remove(gone)
    PROVE  IInv'
<1>1. TypeOK' BY DEF IInv, TypeOK, Remove
<1>2. RetainedReferencesIntact'
  <2> SUFFICES ASSUME NEW r \in Roots, roots[r] # None, roots[r].ref # None
               PROVE  slots'[roots[r].ref.slot] = roots[r].ref.art
    BY DEF RetainedReferencesIntact, Remove
  <2>1. roots[r].ref.slot \notin gone BY DEF Remove, Referenced
  <2>2. roots[r].ref.slot \in SlotIds BY DEF IInv, TypeOK, RootRecords, References
  <2> QED BY <2>1, <2>2 DEF IInv, RetainedReferencesIntact, Remove
<1>3. RetainedGenerationsConsecutive' BY DEF IInv, RetainedGenerationsConsecutive, Remove
<1> QED BY <1>1, <1>2, <1>3 DEF IInv

\* A manifest publication keeps it: the new root is the successor of the one
\* that stays, and what it names is in place.
LEMMA CommitIInv ==
    ASSUME IInv, NEW r \in Roots, NEW ref \in Nameable, Commit(r, ref)
    PROVE  IInv'
<1> DEFINE other == roots[1 - r]
           gen == IF other = None THEN 1 ELSE other.gen + 1
<1>1. 1 - r \in Roots /\ 1 - r # r /\ \A q \in Roots : q = r \/ q = 1 - r BY DEF Roots
<1>2. ref \in References \cup {None}
  BY DEF Nameable, References, IInv, TypeOK
<1>3. ref # None => slots[ref.slot] = ref.art
  BY DEF Nameable
<1>4. gen \in 1..MaxGeneration
  BY <1>1, NoneDistinct DEF Commit, IInv, TypeOK, RootRecords
<1>5. roots' = [roots EXCEPT ![r] = [gen |-> gen, ref |-> ref]] /\ slots' = slots
  BY DEF Commit
<1>6. [gen |-> gen, ref |-> ref] \in RootRecords BY <1>2, <1>4 DEF RootRecords
<1>7. roots'[r] = [gen |-> gen, ref |-> ref] /\ roots'[1 - r] = other
  BY <1>1, <1>5 DEF IInv, TypeOK
<1>8. TypeOK' BY <1>5, <1>6 DEF IInv, TypeOK
<1>9. RetainedReferencesIntact'
  BY <1>1, <1>3, <1>5, <1>7 DEF IInv, RetainedReferencesIntact
<1>10. RetainedGenerationsConsecutive'
  <2>1. roots'[r] # None BY <1>6, <1>7, NoneDistinct
  <2>2. CASE other = None BY <1>1, <1>7, <2>1, <2>2 DEF RetainedGenerationsConsecutive
  <2>3. CASE other # None
    <3>1. other.gen \in Int BY <1>1, <2>3 DEF IInv, TypeOK, RootRecords
    <3>2. roots'[r].gen = other.gen + 1 BY <1>7, <2>3
    <3>3. 1 - (1 - r) = r BY DEF Roots
    <3>4. roots'[r].gen - other.gen = 1 /\ other.gen - roots'[r].gen = -1 BY <3>1, <3>2
    <3>5. SUFFICES ASSUME NEW q \in Roots
                   PROVE  roots'[q] # None =>
                             IF roots'[1 - q] = None THEN roots'[q].gen = 1
                             ELSE roots'[q].gen - roots'[1 - q].gen \in {-1, 1}
      BY DEF RetainedGenerationsConsecutive
    <3>6. CASE q = r BY <1>7, <2>3, <3>4, <3>6
    <3>7. CASE q = 1 - r BY <1>7, <2>1, <3>3, <3>4, <3>7
    <3> QED BY <1>1, <3>6, <3>7
  <2> QED BY <2>2, <2>3
<1> QED BY <1>8, <1>9, <1>10 DEF IInv

\* The invariant holds in every reachable state.
THEOREM Invariance == Spec => []IInv
<1>1. IInv /\ [Next]_vars => IInv'
  <2> SUFFICES ASSUME IInv, [Next]_vars PROVE IInv'
    OBVIOUS
  <2>1. CASE \E s \in SlotIds, a \in Artifacts : Publish(s, a) BY <2>1, PublishIInv
  <2>2. CASE \E gone \in SUBSET SlotIds : Remove(gone) BY <2>2, RemoveIInv
  <2>3. CASE \E r \in Roots, ref \in Nameable : Commit(r, ref) BY <2>3, CommitIInv
  <2>4. CASE UNCHANGED vars
    BY <2>4 DEF vars, IInv, TypeOK, RetainedReferencesIntact, RetainedGenerationsConsecutive
  <2> QED BY <2>1, <2>2, <2>3, <2>4 DEF Next
<1> QED BY <1>1, InitIInv, PTL DEF Spec

\* For every artifact set and generation bound, the variables keep their
\* shapes; in particular no manifest generation passes its width.
THEOREM TypeCorrect == Spec => []TypeOK
BY Invariance, PTL DEF IInv

\* For every artifact set and generation bound, both retained manifests can be
\* read after a stop at any step of a publication, removal or commit.
THEOREM ReferencesIntact == Spec => []RetainedReferencesIntact
BY Invariance, PTL DEF IInv

\* For every artifact set and generation bound, select_current_manifest finds
\* generation one alone or two consecutive generations.
THEOREM GenerationsConsecutive == Spec => []RetainedGenerationsConsecutive
BY Invariance, PTL DEF IInv
=============================================================================
