------------------------- MODULE RetryHorizonProofs -------------------------
(***************************************************************************)
(* The retry horizon for every capacity: both projections are exactly the  *)
(* newest appends, and no key is appended twice within the horizon.        *)
(***************************************************************************)
EXTENDS RetryHorizon, SequenceTheorems, TLAPS

\* No key occurs twice within the horizon among the first n appends.
OnceTo(n) ==
    \A i, j \in 1..n :
        i < j /\ journal[i].key = journal[j].key => j - i > ReplayCapacity + GuardCapacity

\* The tiers of t are sequences of outcomes and guards.
Tiers(t) == t.replay \in Seq(Outcomes) /\ t.guard \in Seq(Guards)

\* A commit no counter of which runs ahead of its manifest generation.
Ordered(c) ==
    /\ c \in Commits
    /\ c.registry <= c.manifest /\ c.journal <= c.manifest /\ c.catalog <= c.manifest
    /\ c.checkpoint <= c.manifest /\ c.retry <= c.manifest
    /\ c.floor <= c.seq /\ c.seq <= Len(journal)

\* The running advance has carried its projection to work.seq.
WorkInv ==
    work # None =>
        /\ state = "Open"
        /\ work = [side |-> work.side, replay |-> work.replay, guard |-> work.guard,
                   seq |-> work.seq, commit |-> work.commit]
        /\ work.side \in {"store", "ingress"}
        /\ Ordered(work.commit)
        /\ work.seq \in work.commit.floor..work.commit.seq
        /\ Tiers(work) /\ Recent(work, work.seq)
        /\ OnceTo(work.seq)
        /\ work.side = "store" =>
             resolved = root.seq /\ root.seq \in work.commit.floor..work.commit.seq
        /\ work.side = "ingress" => work.commit = root

Base ==
    /\ journal \in Seq(Qualifications) /\ Len(journal) <= MaxSequence
    /\ queue \subseteq Qualifications
    /\ Ordered(root) /\ older \in SlotPairs
    /\ resolved \in root.floor..root.seq
    /\ state \in {"Open", "Closed", "Failed"}

Projections ==
    /\ Tiers(tiers) /\ Recent(tiers, root.seq)
    /\ Tiers(mirror) /\ Recent(mirror, resolved)

IInv == Base /\ Projections /\ OnceTo(root.seq) /\ WorkInv

-----------------------------------------------------------------------------

\* The slots 0..2 without two of them have a least element.
LEMMA CandidateSlotInRange == ASSUME NEW a, NEW b PROVE CandidateSlot(a, b) \in 0..2
<1>1. \E s \in 0..2 \ {a, b} : \A t \in 0..2 \ {a, b} : s <= t
  <2> DEFINE S == 0..2 \ {a, b}
  <2>1. CASE 0 \in S BY <2>1
  <2>2. CASE 0 \notin S /\ 1 \in S BY <2>2
  <2>3. CASE 0 \notin S /\ 1 \notin S
    <3>1. 2 \in S BY <2>3
    <3> QED BY <3>1, <2>3
  <2> QED BY <2>1, <2>2, <2>3
<1> QED BY <1>1 DEF CandidateSlot

\* Pushing the next append at the end of consecutive appends.
LEMMA AppendUpTo ==
    ASSUME NEW S, NEW s \in Seq(S), NEW e \in S, NEW last \in Int, AppendsUpTo(s, last),
           NEW next \in Int, next = last + 1, e.seq = next, e.q = journal[next]
    PROVE  AppendsUpTo(Append(s, e), next)
<1>1. /\ Len(s) \in Nat /\ Len(Append(s, e)) = Len(s) + 1
      /\ \A k \in 1..Len(s) : Append(s, e)[k] = s[k]
      /\ Append(s, e)[Len(s) + 1] = e
  BY AppendProperties, LenProperties
<1> SUFFICES ASSUME NEW k \in 1..(Len(s) + 1)
             PROVE  /\ Append(s, e)[k].seq = next - (Len(s) + 1) + k
                    /\ Append(s, e)[k].q = journal[next - (Len(s) + 1) + k]
  BY <1>1 DEF AppendsUpTo
<1>2. next - (Len(s) + 1) + k = last - Len(s) + k BY <1>1
<1>3. CASE k = Len(s) + 1
  <2>1. last - Len(s) + k = next BY <1>1, <1>3
  <2> QED BY <1>1, <1>2, <1>3, <2>1
<1>4. CASE k # Len(s) + 1
  <2>1. k \in 1..Len(s) BY <1>1, <1>4
  <2>2. s[k].seq = last - Len(s) + k /\ s[k].q = journal[last - Len(s) + k]
    BY <2>1 DEF AppendsUpTo
  <2> QED BY <1>1, <1>2, <2>1, <2>2
<1> QED BY <1>3, <1>4

\* Consecutive appends without the oldest of them.
LEMMA TailUpTo ==
    ASSUME NEW S, NEW s \in Seq(S), s # <<>>, NEW last \in Int, AppendsUpTo(s, last)
    PROVE  /\ AppendsUpTo(Tail(s), last)
           /\ Tail(s) \in Seq(S) /\ Len(Tail(s)) = Len(s) - 1
<1>1. /\ Len(s) \in Nat \ {0}
      /\ Tail(s) \in Seq(S) /\ Len(Tail(s)) = Len(s) - 1
      /\ \A k \in 1..(Len(s) - 1) : Tail(s)[k] = s[k + 1]
  BY HeadTailProperties, LenProperties, EmptySeq
<1>2. ASSUME NEW k \in 1..(Len(s) - 1)
      PROVE  /\ Tail(s)[k].seq = last - (Len(s) - 1) + k
             /\ Tail(s)[k].q = journal[last - (Len(s) - 1) + k]
  <2>1. k + 1 \in 1..Len(s) /\ last - Len(s) + (k + 1) = last - (Len(s) - 1) + k
    BY <1>1
  <2>2. s[k + 1].seq = last - Len(s) + (k + 1) /\ s[k + 1].q = journal[last - Len(s) + (k + 1)]
    BY <2>1 DEF AppendsUpTo
  <2> QED BY <1>1, <2>1, <2>2
<1>3. AppendsUpTo(Tail(s), last) BY <1>1, <1>2 DEF AppendsUpTo
<1> QED BY <1>1, <1>3

\* What Recent says of the two tiers of a record.
LEMMA RecentPair ==
    ASSUME NEW replay, NEW guard, NEW n \in Int, NEW r \in Int, NEW g \in Int, NEW d \in Int,
           Len(replay) = r, Len(guard) = g, d = n - r,
           r = IF n < ReplayCapacity THEN n ELSE ReplayCapacity,
           g = IF d < GuardCapacity THEN d ELSE GuardCapacity,
           AppendsUpTo(replay, n), AppendsUpTo(guard, d)
    PROVE  Recent([replay |-> replay, guard |-> guard], n)
BY DEF Recent

\* One push carries the newest n appends to the newest m = n + 1.
LEMMA PushRecent ==
    ASSUME NEW t, Tiers(t), NEW n \in Nat, Recent(t, n), NEW m \in Nat, m = n + 1,
           NEW o \in Outcomes, o.seq = m, o.q = journal[m]
    PROVE  LET next == Push(t.replay, t.guard, o) IN Tiers(next) /\ Recent(next, m)
<1>0. ReplayCapacity \in Nat \ {0} /\ GuardCapacity \in Nat \ {0} /\ n \in Int /\ m \in Int
  BY RetryHorizonAssumption
<1>1. PICK replay \in Seq(Outcomes), guard \in Seq(Guards), r \in Nat, g \in Nat :
        /\ replay = t.replay /\ guard = t.guard /\ Len(replay) = r /\ Len(guard) = g
  BY LenProperties DEF Tiers
<1>2. PICK d \in Int, c \in Int :
        /\ d = n - r /\ c = d + 1
        /\ r = IF n < ReplayCapacity THEN n ELSE ReplayCapacity
        /\ g = IF d < GuardCapacity THEN d ELSE GuardCapacity
        /\ AppendsUpTo(replay, n) /\ AppendsUpTo(guard, d)
  BY <1>0, <1>1 DEF Recent
<1>3. PICK grown \in Seq(Outcomes), r1 \in Nat :
        /\ grown = Append(replay, o) /\ grown # <<>> /\ Len(grown) = r1 /\ r1 = r + 1
        /\ AppendsUpTo(grown, m)
  <2>1. Append(replay, o) \in Seq(Outcomes) /\ Append(replay, o) # <<>>
        /\ Len(Append(replay, o)) = r + 1 /\ r + 1 \in Nat
    BY <1>1, AppendProperties
  <2>2. AppendsUpTo(Append(replay, o), m) BY <1>0, <1>2, AppendUpTo
  <2> QED BY <2>1, <2>2
<1>4. PICK rest \in Seq(Outcomes), first \in Outcomes :
        /\ rest = Tail(grown) /\ Len(rest) = r /\ AppendsUpTo(rest, m)
        /\ first = Head(grown) /\ first.seq = c /\ first.q = journal[c]
  <2>1. /\ AppendsUpTo(Tail(grown), m)
        /\ Tail(grown) \in Seq(Outcomes) /\ Len(Tail(grown)) = Len(grown) - 1
    BY <1>0, <1>3, TailUpTo, Zenon
  <2>2. Head(grown) = grown[1] /\ Head(grown) \in Outcomes
    BY <1>3, HeadTailProperties
  <2>3. 1 \in 1..r1 /\ m - r1 + 1 = c /\ r1 - 1 = r
    BY <1>0, <1>2, <1>3
  <2>4. AppendsUpTo(grown, m) BY <1>3
  <2>5. \A k \in 1..r1 : grown[k].seq = m - r1 + k /\ grown[k].q = journal[m - r1 + k]
    BY <1>3, <2>4, Zenon DEF AppendsUpTo
  <2>6. grown[1].seq = c /\ grown[1].q = journal[c] BY <2>3, <2>5
  <2>7. Len(Tail(grown)) = r BY <1>3, <2>1, <2>3, Zenon
  <2> QED BY <2>1, <2>2, <2>6, <2>7, Zenon
<1>5. PICK e \in Guards :
        e = [q |-> first.q, seq |-> first.seq] /\ e.seq = c /\ e.q = journal[c]
  <2>1. [q |-> first.q, seq |-> first.seq] \in Guards BY DEF Outcomes, Guards
  <2> QED BY <1>4, <2>1
<1>6. PICK guarded \in Seq(Guards), g1 \in Nat :
        /\ guarded = Append(guard, e) /\ guarded # <<>> /\ Len(guarded) = g1 /\ g1 = g + 1
        /\ AppendsUpTo(guarded, c)
  <2>1. Append(guard, e) \in Seq(Guards) /\ Append(guard, e) # <<>>
        /\ Len(Append(guard, e)) = Len(guard) + 1
    BY AppendProperties
  <2>2. AppendsUpTo(Append(guard, e), c) BY <1>2, <1>5, AppendUpTo
  <2>3. g + 1 \in Nat OBVIOUS
  <2> QED BY <1>1, <2>1, <2>2, <2>3, Zenon
<1>7. PICK younger \in Seq(Guards) :
        younger = Tail(guarded) /\ Len(younger) = g /\ AppendsUpTo(younger, c)
  <2>1. /\ AppendsUpTo(Tail(guarded), c)
        /\ Tail(guarded) \in Seq(Guards) /\ Len(Tail(guarded)) = Len(guarded) - 1
    BY <1>6, TailUpTo, Zenon
  <2>2. g1 - 1 = g BY <1>6
  <2> QED BY <1>6, <2>1, <2>2, Zenon
<1>8. Push(t.replay, t.guard, o) =
        [replay |-> IF r1 > ReplayCapacity THEN rest ELSE grown,
         guard |-> IF ~(r1 > ReplayCapacity) THEN guard
                   ELSE IF g1 > GuardCapacity THEN younger ELSE guarded]
  BY <1>1, <1>3, <1>4, <1>5, <1>6, <1>7, Zenon DEF Push
<1>9. {r, r1, g, g1} \subseteq Int OBVIOUS
<1>10. CASE ~(r1 > ReplayCapacity)
  <2>1. Push(t.replay, t.guard, o) = [replay |-> grown, guard |-> guard] BY <1>8, <1>10
  <2>2. /\ r1 = IF m < ReplayCapacity THEN m ELSE ReplayCapacity
        /\ d = m - r1
    BY <1>0, <1>2, <1>3, <1>10
  <2>3. Tiers([replay |-> grown, guard |-> guard]) BY DEF Tiers
  <2>4. Recent([replay |-> grown, guard |-> guard], m)
    BY <1>0, <1>1, <1>2, <1>3, <1>9, <2>2, RecentPair, Zenon
  <2> QED BY <2>1, <2>3, <2>4, Zenon
<1>11. CASE r1 > ReplayCapacity /\ ~(g1 > GuardCapacity)
  <2>1. Push(t.replay, t.guard, o) = [replay |-> rest, guard |-> guarded] BY <1>8, <1>11
  <2>2. /\ r = IF m < ReplayCapacity THEN m ELSE ReplayCapacity
        /\ g1 = IF c < GuardCapacity THEN c ELSE GuardCapacity
        /\ c = m - r
    BY <1>0, <1>2, <1>3, <1>6, <1>11
  <2>3. Tiers([replay |-> rest, guard |-> guarded]) BY DEF Tiers
  <2>4. Recent([replay |-> rest, guard |-> guarded], m)
    BY <1>0, <1>4, <1>6, <1>9, <2>2, RecentPair, Zenon
  <2> QED BY <2>1, <2>3, <2>4, Zenon
<1>12. CASE r1 > ReplayCapacity /\ g1 > GuardCapacity
  <2>1. Push(t.replay, t.guard, o) = [replay |-> rest, guard |-> younger] BY <1>8, <1>12
  <2>2. /\ r = IF m < ReplayCapacity THEN m ELSE ReplayCapacity
        /\ g = IF c < GuardCapacity THEN c ELSE GuardCapacity
        /\ c = m - r
    BY <1>0, <1>2, <1>3, <1>6, <1>12
  <2>3. Tiers([replay |-> rest, guard |-> younger]) BY DEF Tiers
  <2>4. Recent([replay |-> rest, guard |-> younger], m)
    BY <1>0, <1>4, <1>7, <1>9, <2>2, RecentPair, Zenon
  <2> QED BY <2>1, <2>3, <2>4, Zenon
<1> QED BY <1>10, <1>11, <1>12

-----------------------------------------------------------------------------

\* The genesis root retains nothing and satisfies the invariant.
LEMMA InitInv == Init => IInv
<1> SUFFICES ASSUME Init PROVE IInv OBVIOUS
<1>0. MaxManifest \in Nat \ {0} /\ MaxSequence \in Nat /\ ReplayCapacity \in Nat \ {0}
      /\ GuardCapacity \in Nat \ {0}
  BY RetryHorizonAssumption
<1>1. Len(journal) = 0 /\ journal \in Seq(Qualifications) /\ queue \subseteq Qualifications
  BY DEF Init
<1>2. Ordered(root) BY <1>0, <1>1 DEF Init, Genesis, Ordered, Commits
<1>3. Base BY <1>0, <1>1, <1>2 DEF Init, Genesis, Base, NamedSlots, SlotPairs
<1>4. Projections
  <2>1. /\ EmptyTiers.replay = <<>> /\ EmptyTiers.guard = <<>> BY DEF EmptyTiers
  <2>2. Tiers(EmptyTiers)
    <3>1. <<>> \in Seq(Outcomes) /\ <<>> \in Seq(Guards) BY EmptySeq
    <3> QED BY <2>1, <3>1, Zenon DEF Tiers
  <2>3. Recent(EmptyTiers, 0)
    <3>1. Len(EmptyTiers.replay) = 0 /\ Len(EmptyTiers.guard) = 0 BY <2>1
    <3>2. AppendsUpTo(EmptyTiers.replay, 0) /\ AppendsUpTo(EmptyTiers.guard, 0)
      BY <3>1 DEF AppendsUpTo
    <3>3. 0 - Len(EmptyTiers.replay) = 0 /\ 0 < ReplayCapacity /\ 0 < GuardCapacity
      BY <1>0, <3>1
    <3> QED BY <3>1, <3>2, <3>3, Zenon DEF Recent
  <2>4. tiers = EmptyTiers /\ mirror = EmptyTiers /\ root.seq = 0 /\ resolved = 0
    BY DEF Init, Genesis
  <2> QED BY <2>2, <2>3, <2>4, Zenon DEF Projections
<1>5. OnceTo(root.seq) BY DEF Init, Genesis, OnceTo
<1> QED BY <1>3, <1>4, <1>5 DEF Init, IInv, WorkInv

\* An entry that advance accepts carries a key none of the newest
\* ReplayCapacity + GuardCapacity appends has.
LEMMA AcceptedIsNew ==
    ASSUME NEW t, Tiers(t), NEW n \in Nat, Recent(t, n), OnceTo(n),
           \A k \in DOMAIN t.replay : Classification(t.replay[k].q, journal[n + 1]) = "Distinct",
           \A k \in DOMAIN t.guard : Classification(t.guard[k].q, journal[n + 1]) = "Distinct"
    PROVE  OnceTo(n + 1)
<1>0. ReplayCapacity \in Nat \ {0} /\ GuardCapacity \in Nat \ {0}
  BY RetryHorizonAssumption
<1>1. PICK replay \in Seq(Outcomes), guard \in Seq(Guards), r \in Nat, g \in Nat, d \in Int :
        /\ replay = t.replay /\ guard = t.guard /\ Len(replay) = r /\ Len(guard) = g
        /\ d = n - r
  BY LenProperties DEF Tiers
<1>2. /\ r = IF n < ReplayCapacity THEN n ELSE ReplayCapacity
      /\ g = IF d < GuardCapacity THEN d ELSE GuardCapacity
      /\ \A k \in 1..r : replay[k].q = journal[n - r + k]
      /\ \A k \in 1..g : guard[k].q = journal[d - g + k]
  BY <1>0, <1>1 DEF Recent, AppendsUpTo
<1>3. /\ \A k \in 1..r : replay[k].q.key # journal[n + 1].key
      /\ \A k \in 1..g : guard[k].q.key # journal[n + 1].key
  <2>1. DOMAIN replay = 1..r /\ DOMAIN guard = 1..g BY <1>1, LenProperties
  <2> QED BY <1>1, <2>1 DEF Classification
<1>4. ASSUME NEW i \in 1..n, n + 1 - i <= ReplayCapacity + GuardCapacity
      PROVE  journal[i].key # journal[n + 1].key
  <2>0. /\ d = n - r
        /\ r = IF n < ReplayCapacity THEN n ELSE ReplayCapacity
        /\ g = IF d < GuardCapacity THEN d ELSE GuardCapacity
    BY <1>1, <1>2
  <2>1. CASE i > d
    <3>1. PICK k \in 1..r : n - r + k = i
      <4>1. d = n - r BY <2>0
      <4>2. i - d \in 1..r /\ n - r + (i - d) = i BY <2>1, <4>1
      <4> QED BY <4>2
    <3> QED BY <1>2, <1>3, <3>1
  <2>2. CASE i <= d
    <3>1. PICK k \in 1..g : d - g + k = i
      <4>1. CASE n < ReplayCapacity BY <1>0, <2>0, <2>2, <4>1
      <4>2. CASE n >= ReplayCapacity /\ d < GuardCapacity BY <1>0, <2>0, <2>2, <4>2
      <4>3. CASE n >= ReplayCapacity /\ d >= GuardCapacity
        <5>1. i - d + g \in 1..g /\ d - g + (i - d + g) = i
          BY <1>0, <2>0, <1>4, <2>2, <4>3
        <5> QED BY <5>1
      <4> QED BY <1>0, <4>1, <4>2, <4>3
    <3> QED BY <1>2, <1>3, <3>1
  <2> QED BY <2>1, <2>2
<1> SUFFICES ASSUME NEW i \in 1..(n + 1), NEW j \in 1..(n + 1),
                    i < j, journal[i].key = journal[j].key
             PROVE  j - i > ReplayCapacity + GuardCapacity
  BY DEF OnceTo
<1>5. CASE j = n + 1
  <2>1. i \in 1..n BY <1>5
  <2>2. ~(n + 1 - i <= ReplayCapacity + GuardCapacity) BY <1>4, <1>5, <2>1, Zenon
  <2> QED BY <1>0, <1>5, <2>2
<1>6. CASE j # n + 1
  <2>1. i \in 1..n /\ j \in 1..n BY <1>6
  <2> QED BY <2>1 DEF OnceTo
<1> QED BY <1>5, <1>6

-----------------------------------------------------------------------------

\* A refused advance and a stop of the process drop the volatile state only.
LEMMA DropInv ==
    ASSUME IInv, state' \in {"Closed", "Failed"}, work' = None, queue' = {},
           UNCHANGED <<journal, root, older, catalog, tiers, mirror, resolved>>
    PROVE  IInv'
<1>2. Base' BY DEF IInv, Base, Ordered
<1>3. Projections' BY DEF IInv, Projections, Tiers, Recent, AppendsUpTo
<1>4. OnceTo(root.seq)' BY DEF IInv, OnceTo
<1> QED BY <1>2, <1>3, <1>4 DEF IInv, WorkInv

\* Admitting a submission only extends the queue.
LEMMA SubmitInv == ASSUME IInv, NEW q \in Qualifications, Submit(q) PROVE IInv'
<1> USE DEF Submit
<1>1. queue' \subseteq Qualifications BY DEF IInv, Base
<1>2. Base' BY <1>1 DEF IInv, Base, Ordered
<1>3. Projections' BY DEF IInv, Projections, Tiers, Recent, AppendsUpTo
<1>4. OnceTo(root.seq)' BY DEF IInv, OnceTo
<1>5. WorkInv' BY DEF IInv, WorkInv, Ordered, Tiers, Recent, AppendsUpTo, OnceTo
<1> QED BY <1>2, <1>3, <1>4, <1>5 DEF IInv

\* An append leaves what the journal holds up to the cutoff.
LEMMA AppendNextInv == ASSUME IInv, NEW q \in queue, AppendNext(q) PROVE IInv'
<1>0. /\ journal \in Seq(Qualifications) /\ queue \subseteq Qualifications
      /\ Len(journal) \in Nat /\ MaxSequence \in Nat /\ root.seq \in 0..Len(journal)
      /\ resolved \in 0..Len(journal)
  BY LenProperties, RetryHorizonAssumption DEF IInv, Base, Ordered, Commits
<1>1. q \in Qualifications /\ queue' \subseteq Qualifications
  BY <1>0 DEF AppendNext
<1>2. /\ journal' \in Seq(Qualifications) /\ Len(journal') = Len(journal) + 1
      /\ \A k \in 1..Len(journal) : journal'[k] = journal[k]
  BY <1>0, <1>1, AppendProperties DEF AppendNext
<1>3. Base'
  <2>1. Len(journal') <= MaxSequence BY <1>0, <1>2 DEF AppendNext
  <2>2. Ordered(root)' BY <1>0, <1>2 DEF IInv, Base, Ordered, Commits, AppendNext
  <2> QED BY <1>1, <1>2, <2>1, <2>2 DEF IInv, Base, AppendNext
<1>4. ASSUME NEW t, Tiers(t), NEW n \in 0..Len(journal), Recent(t, n) PROVE Recent(t, n)'
  <2>0. ReplayCapacity \in Nat \ {0} /\ GuardCapacity \in Nat \ {0}
    BY RetryHorizonAssumption
  <2>1. PICK r \in Nat, g \in Nat : r = Len(t.replay) /\ g = Len(t.guard)
    BY <1>4, LenProperties DEF Tiers
  <2>2. r <= n /\ g <= n - r BY <1>4, <2>0, <2>1 DEF Recent
  <2>3. /\ \A k \in 1..r : n - r + k \in 1..Len(journal)
        /\ \A k \in 1..g : n - r - g + k \in 1..Len(journal)
    BY <1>0, <1>4, <2>2
  <2>4. AppendsUpTo(t.replay, n)' /\ AppendsUpTo(t.guard, n - r)'
    BY <1>2, <1>4, <2>1, <2>3 DEF Recent, AppendsUpTo
  <2> QED BY <1>4, <2>1, <2>4 DEF Recent
<1>5. Projections'
  <2>1. PICK t, u, n, m : t = tiers /\ u = mirror /\ n = root.seq /\ m = resolved OBVIOUS
  <2>2. tiers' = t /\ mirror' = u /\ (root.seq)' = n /\ resolved' = m
    BY <2>1 DEF AppendNext
  <2>3. Tiers(t) /\ Recent(t, n) /\ Tiers(u) /\ Recent(u, m)
    BY <2>1 DEF IInv, Projections
  <2>4. Recent(t, n)' /\ Recent(u, m)' BY <1>0, <1>4, <2>1, <2>3
  <2> QED BY <2>2, <2>3, <2>4 DEF Projections, Tiers
<1>6. OnceTo(root.seq)' BY <1>0, <1>2 DEF IInv, OnceTo, AppendNext
<1> QED BY <1>3, <1>5, <1>6 DEF IInv, WorkInv, AppendNext, WorkerIdle

\* An advance starts from its projection, or is refused.
LEMMA BeginAdvanceInv ==
    ASSUME IInv, NEW side \in {"store", "ingress"}, NEW t, NEW reference, NEW n, NEW c,
           Tiers(t), Recent(t, n), OnceTo(n), Ordered(c), n \in c.floor..c.seq,
           side = "store" => resolved = root.seq /\ root.seq \in c.floor..c.seq,
           side = "ingress" => c = root,
           state = "Open", BeginAdvance(side, t, reference, n, c)
    PROVE  IInv'
<1>1. CASE ~ValidateTransitionPreflight(t, reference, n + 1, Len(journal), c)
  <2>1. Refuse BY <1>1 DEF BeginAdvance
  <2> QED BY <2>1, DropInv DEF Refuse
<1>2. CASE ValidateTransitionPreflight(t, reference, n + 1, Len(journal), c)
  <2>1. /\ work' = [side |-> side, replay |-> t.replay, guard |-> t.guard, seq |-> n,
                    commit |-> c]
        /\ UNCHANGED <<journal, root, older, catalog, tiers, mirror, queue, resolved, state>>
    BY <1>2 DEF BeginAdvance
  <2>2. Base' BY <2>1 DEF IInv, Base, Ordered
  <2>3. Projections' BY <2>1 DEF IInv, Projections, Tiers, Recent, AppendsUpTo
  <2>4. OnceTo(root.seq)' BY <2>1 DEF IInv, OnceTo
  <2>5. /\ work'.side = side /\ work'.replay = t.replay /\ work'.guard = t.guard
        /\ work'.seq = n /\ work'.commit = c
    BY <2>1
  <2>6. Tiers(work)' /\ Recent(work, work.seq)'
    BY <2>1, <2>5 DEF Tiers, Recent, AppendsUpTo
  <2>7. OnceTo(work.seq)' /\ Ordered(work.commit)' BY <2>1, <2>5 DEF OnceTo, Ordered
  <2>8. WorkInv' BY <2>1, <2>5, <2>6, <2>7 DEF WorkInv
  <2> QED BY <2>2, <2>3, <2>4, <2>8 DEF IInv
<1> QED BY <1>1, <1>2

\* prepare_synced_pending starts the advance from the committed projection.
LEMMA SyncPendingInv == ASSUME IInv, SyncPending PROVE IInv'
<1>1. PICK t, n, slot, reference, c :
        /\ t = tiers /\ n = root.seq /\ slot = CandidateSlot(root.slot, older.retry)
        /\ reference = [slot |-> slot, gen |-> root.retry + 1]
        /\ c = [root EXCEPT !.manifest = root.manifest + 1, !.seq = Len(journal),
                            !.checkpoint = root.checkpoint + 1, !.retry = root.retry + 1,
                            !.slot = slot]
  OBVIOUS
<1>2. BeginAdvance("store", t, reference, n, c) BY <1>1 DEF SyncPending
<1>3. Tiers(t) /\ Recent(t, n) /\ OnceTo(n) BY <1>1 DEF IInv, Projections
<1>4. Ordered(c) /\ n \in c.floor..c.seq /\ root.seq \in c.floor..c.seq
  <2>1. slot \in 0..2 BY <1>1, CandidateSlotInRange
  <2>2. Len(journal) \in Nat /\ MaxManifest \in Nat /\ MaxSequence \in Nat
    BY LenProperties, RetryHorizonAssumption DEF IInv, Base
  <2>3. Ordered(root) /\ Len(journal) <= MaxSequence /\ root.manifest < MaxManifest
        /\ root.seq < Len(journal)
    BY <2>2 DEF IInv, Base, SyncPending, Ordered, Commits
  <2>4. root \in Commits BY <2>3 DEF Ordered
  <2>5. /\ c.manifest = root.manifest + 1 /\ c.registry = root.registry
        /\ c.journal = root.journal /\ c.checkpoint = root.checkpoint + 1
        /\ c.seq = Len(journal) /\ c.floor = root.floor /\ c.retry = root.retry + 1
        /\ c.slot = slot /\ c.catalog = root.catalog
    BY <1>1, <2>4 DEF Commits
  <2>6. /\ root.manifest \in 1..MaxManifest /\ root.registry \in 1..MaxManifest
        /\ root.journal \in 1..MaxManifest /\ root.checkpoint \in 1..MaxManifest
        /\ root.retry \in 1..MaxManifest /\ root.seq \in 0..MaxSequence
        /\ root.floor \in 0..MaxSequence /\ root.catalog \in 0..MaxManifest
    BY <2>4 DEF Commits
  <2>7. /\ root.registry <= root.manifest /\ root.journal <= root.manifest
        /\ root.checkpoint <= root.manifest /\ root.retry <= root.manifest
        /\ root.floor <= root.seq /\ root.catalog <= root.manifest
    BY <2>3 DEF Ordered
  <2>8. /\ root.manifest + 1 \in 1..MaxManifest /\ root.checkpoint + 1 \in 1..MaxManifest
        /\ root.retry + 1 \in 1..MaxManifest /\ Len(journal) \in 0..MaxSequence
    <3>1. root.manifest + 1 \in 1..MaxManifest BY <2>2, <2>3, <2>6
    <3>2. root.checkpoint + 1 \in 1..MaxManifest
      <4>1. root.checkpoint \in 1..MaxManifest /\ root.manifest \in 1..MaxManifest BY <2>6
      <4>2. root.checkpoint <= root.manifest BY <2>7
      <4> QED BY <2>2, <3>1, <4>1, <4>2
    <3>3. root.retry + 1 \in 1..MaxManifest
      <4>1. root.retry \in 1..MaxManifest /\ root.manifest \in 1..MaxManifest BY <2>6
      <4>2. root.retry <= root.manifest BY <2>7
      <4> QED BY <2>2, <3>1, <4>1, <4>2
    <3>4. Len(journal) \in 0..MaxSequence BY <2>2, <2>3
    <3> QED BY <3>1, <3>2, <3>3, <3>4
  <2>9. c \in Commits BY <1>1, <2>1, <2>4, <2>8 DEF Commits
  <2>10. Ordered(c)
    <3>0. c.catalog <= c.manifest BY <2>2, <2>5, <2>6, <2>7
    <3>1. c.registry <= c.manifest /\ c.journal <= c.manifest BY <2>2, <2>5, <2>6, <2>7
    <3>2. c.checkpoint <= c.manifest /\ c.retry <= c.manifest BY <2>2, <2>5, <2>6, <2>7
    <3>3. c.floor <= c.seq /\ c.seq <= Len(journal) BY <2>2, <2>3, <2>5, <2>6, <2>7
    <3> QED BY <2>9, <3>0, <3>1, <3>2, <3>3 DEF Ordered
  <2> QED BY <1>1, <2>2, <2>3, <2>5, <2>6, <2>7, <2>10
<1>5. resolved = root.seq /\ state = "Open" BY DEF SyncPending, WorkerIdle
<1> QED BY <1>2, <1>3, <1>4, <1>5, BeginAdvanceInv

\* verifies_transition starts from the ingress projection.
LEMMA BeginVerificationInv == ASSUME IInv, BeginVerification PROVE IInv'
<1>1. PICK t, reference, n, c :
        t = mirror /\ reference = tiers.reference /\ n = resolved /\ c = root
  OBVIOUS
<1>2. BeginAdvance("ingress", t, reference, n, c) BY <1>1 DEF BeginVerification
<1>3. Tiers(t) /\ Recent(t, n) /\ Ordered(c) /\ n \in c.floor..c.seq
  BY <1>1 DEF IInv, Projections, Base
<1>4. OnceTo(n) BY <1>1 DEF IInv, OnceTo, Base, Ordered, Commits
<1>5. state = "Open" BY DEF BeginVerification
<1> QED BY <1>1, <1>2, <1>3, <1>4, <1>5, BeginAdvanceInv

\* One entry more, of a key the horizon does not hold.
LEMMA AdvanceEntryInv == ASSUME IInv, AdvanceEntry PROVE IInv'
<1> DEFINE seq == work.seq + 1
           o == [q |-> journal[seq], seq |-> seq, end |-> seq - work.commit.floor,
                 commit |-> work.commit]
           next == Push(work.replay, work.guard, o)
<1>1. CASE ~Acceptable(journal[seq], seq)
  <2>1. Refuse BY <1>1 DEF AdvanceEntry
  <2> QED BY <2>1, DropInv DEF Refuse
<1>2. CASE Acceptable(journal[seq], seq)
  <2>1. /\ work # None /\ work.seq < work.commit.seq
        /\ work' = [work EXCEPT !.replay = next.replay, !.guard = next.guard, !.seq = seq]
        /\ UNCHANGED <<journal, root, older, catalog, tiers, mirror, queue, resolved, state>>
    BY <1>2 DEF AdvanceEntry
  <2>2. WorkInv /\ Base BY DEF IInv
  <2>3. /\ work = [side |-> work.side, replay |-> work.replay, guard |-> work.guard,
                   seq |-> work.seq, commit |-> work.commit]
        /\ Tiers(work) /\ Recent(work, work.seq) /\ OnceTo(work.seq)
        /\ Ordered(work.commit) /\ work.seq \in work.commit.floor..work.commit.seq
    BY <2>1, <2>2 DEF WorkInv
  <2>4. /\ work.commit \in Commits /\ work.commit.floor \in Nat /\ work.commit.seq \in Nat
        /\ work.commit.seq <= Len(journal) /\ work.commit.seq <= MaxSequence
        /\ work.seq \in Nat /\ MaxSequence \in Nat /\ Len(journal) \in Nat
    <3>1. /\ work.commit \in Commits /\ work.commit.seq <= Len(journal)
          /\ work.seq \in work.commit.floor..work.commit.seq
      BY <2>3 DEF Ordered
    <3>2. work.commit.floor \in 0..MaxSequence /\ work.commit.seq \in 0..MaxSequence
      BY <3>1 DEF Commits
    <3>3. MaxSequence \in Nat /\ Len(journal) \in Nat
      BY <2>2, LenProperties, RetryHorizonAssumption DEF Base
    <3> QED BY <3>1, <3>2, <3>3
  <2>5. /\ seq \in work.commit.floor..work.commit.seq
        /\ seq \in 1..MaxSequence /\ seq \in 1..Len(journal)
        /\ seq - work.commit.floor \in 1..MaxSequence
    BY <2>1, <2>3, <2>4
  <2>6. journal[seq] \in Qualifications BY <2>2, <2>5, ElementOfSeq DEF Base
  <2>7. o \in Outcomes BY <2>4, <2>5, <2>6 DEF Outcomes
  <2>8. PICK t \in {work}, n \in Nat, m \in Nat, p \in Outcomes :
          t = work /\ n = work.seq /\ m = n + 1 /\ m = seq /\ p = o
    BY <2>4, <2>7
  <2>9. Tiers(next) /\ Recent(next, seq)
    <3>1. Tiers(t) /\ Recent(t, n) /\ p.seq = m /\ p.q = journal[m] BY <2>3, <2>8
    <3>2. Tiers(Push(t.replay, t.guard, p)) /\ Recent(Push(t.replay, t.guard, p), m)
      BY <2>8, <3>1, PushRecent
    <3> QED BY <2>8, <3>2
  <2>10. OnceTo(seq)
    <3>1. /\ \A k \in DOMAIN t.replay :
               Classification(t.replay[k].q, journal[n + 1]) = "Distinct"
          /\ \A k \in DOMAIN t.guard :
               Classification(t.guard[k].q, journal[n + 1]) = "Distinct"
      BY <1>2, <2>8 DEF Acceptable
    <3>2. Tiers(t) /\ Recent(t, n) /\ OnceTo(n) BY <2>3, <2>8
    <3> QED BY <2>8, <3>1, <3>2, AcceptedIsNew
  <2>11. /\ work' = [side |-> work'.side, replay |-> work'.replay, guard |-> work'.guard,
                     seq |-> work'.seq, commit |-> work'.commit]
         /\ work'.side = work.side /\ work'.replay = next.replay /\ work'.guard = next.guard
         /\ work'.seq = seq /\ work'.commit = work.commit
    BY <2>1, <2>3
  <2>12. Base' BY <2>1 DEF IInv, Base, Ordered
  <2>13. Projections' BY <2>1 DEF IInv, Projections, Tiers, Recent, AppendsUpTo
  <2>14. OnceTo(root.seq)' BY <2>1 DEF IInv, OnceTo
  <2>15. Tiers(work)' /\ Recent(work, work.seq)'
    <3>1. PICK x : x = next OBVIOUS
    <3>2. Tiers(x) /\ Recent(x, m) BY <2>8, <2>9, <3>1
    <3>3. work'.replay = x.replay /\ work'.guard = x.guard /\ work'.seq = m
      BY <2>8, <2>11, <3>1
    <3>4. journal' = journal BY <2>1
    <3> HIDE DEF next, o, seq
    <3> QED BY <3>2, <3>3, <3>4 DEF Tiers, Recent, AppendsUpTo
  <2>16. OnceTo(work.seq)' /\ Ordered(work.commit)'
    BY <2>1, <2>3, <2>10, <2>11 DEF OnceTo, Ordered
  <2>17. WorkInv' BY <2>1, <2>2, <2>5, <2>11, <2>15, <2>16 DEF WorkInv
  <2> QED BY <2>12, <2>13, <2>14, <2>17 DEF IInv
<1> QED BY <1>1, <1>2

\* The committed projection is the advanced one.
LEMMA CommitSyncedPendingInv == ASSUME IInv, CommitSyncedPending PROVE IInv'
<1>1. CASE ~ValidateRoot(Candidate, work.commit, None)
  <2>1. Refuse BY <1>1 DEF CommitSyncedPending
  <2> QED BY <2>1, DropInv DEF Refuse
<1>2. CASE ValidateRoot(Candidate, work.commit, None)
  <2>1. /\ root' = work.commit /\ older' = NamedSlots(root) /\ tiers' = Candidate /\ work' = None
        /\ UNCHANGED <<journal, catalog, mirror, queue, resolved, state>>
        /\ work # None /\ work.side = "store" /\ work.seq = work.commit.seq
    BY <1>2 DEF CommitSyncedPending, Advanced
  <2>2. /\ Ordered(work.commit) /\ Tiers(work) /\ Recent(work, work.seq) /\ OnceTo(work.seq)
        /\ resolved = root.seq /\ root.seq \in work.commit.floor..work.commit.seq
        /\ work.seq \in work.commit.floor..work.commit.seq
        /\ Base /\ Projections
    BY <2>1 DEF IInv, WorkInv
  <2>3. Ordered(root)' BY <2>1, <2>2 DEF Ordered
  <2>4. resolved' \in root'.floor..root'.seq
    BY <2>1, <2>2
  <2>5. NamedSlots(root) \in SlotPairs
    BY <2>2 DEF Base, Ordered, Commits, NamedSlots, SlotPairs
  <2>6. Base' BY <2>1, <2>2, <2>3, <2>4, <2>5 DEF Base
  <2>7. Tiers(tiers)' /\ Recent(tiers, root.seq)'
    <3>1. tiers'.replay = work.replay /\ tiers'.guard = work.guard /\ root'.seq = work.seq
          /\ journal' = journal
      BY <2>1 DEF Candidate
    <3> QED BY <2>2, <3>1 DEF Tiers, Recent, AppendsUpTo
  <2>8. Tiers(mirror)' /\ Recent(mirror, resolved)'
    BY <2>1, <2>2 DEF Projections, Tiers, Recent, AppendsUpTo
  <2>9. OnceTo(root.seq)' BY <2>1, <2>2 DEF OnceTo
  <2> QED BY <2>1, <2>6, <2>7, <2>8, <2>9 DEF IInv, Projections, WorkInv
<1> QED BY <1>1, <1>2

\* The ingress installs the committed projection.
LEMMA CompleteDurableBatchInv == ASSUME IInv, CompleteDurableBatch PROVE IInv'
<1>1. CASE ~(ValidateRoot(Candidate, work.commit, None) /\ Candidate = tiers)
  <2>1. Refuse BY <1>1 DEF CompleteDurableBatch
  <2> QED BY <2>1, DropInv DEF Refuse
<1>2. CASE ValidateRoot(Candidate, work.commit, None) /\ Candidate = tiers
  <2>1. /\ mirror' = tiers /\ resolved' = root.seq /\ work' = None
        /\ UNCHANGED <<journal, root, older, catalog, tiers, queue, state>>
    BY <1>2 DEF CompleteDurableBatch
  <2>2. Base' BY <2>1 DEF IInv, Base, Ordered, Commits
  <2>3. Projections' BY <2>1 DEF IInv, Projections, Tiers, Recent, AppendsUpTo
  <2>4. OnceTo(root.seq)' BY <2>1 DEF IInv, OnceTo
  <2> QED BY <2>1, <2>2, <2>3, <2>4 DEF IInv, WorkInv
<1> QED BY <1>1, <1>2

\* A commit that keeps the projection: a new manifest, and of the other fields
\* only the registry, the journal generation and the catalog may move.
NextRoot ==
    /\ root.manifest < MaxManifest
    /\ root' = [root EXCEPT !.manifest = root.manifest + 1, !.registry = root'.registry,
                            !.regslot = root'.regslot, !.journal = root'.journal,
                            !.checkpoint = root'.checkpoint, !.floor = root'.floor,
                            !.catalog = root'.catalog]
    /\ root'.registry \in {root.registry, root.registry + 1} /\ root'.regslot \in 0..2
    /\ root'.journal \in {root.journal, root.journal + 1}
    /\ root'.checkpoint \in {root.checkpoint, 1} /\ root'.floor \in {root.floor, root.seq}
    /\ root'.catalog \in {root.catalog, root.catalog + 1}

\* The three commits that keep the projection: registry, rotation, recovery.
LEMMA RootInv ==
    ASSUME IInv, NextRoot, work' = None,
           UNCHANGED <<journal, tiers, queue>>, older' = NamedSlots(root),
           state' \in {"Open", "Closed", "Failed"}, resolved' = root.seq,
           mirror' = tiers \/ (UNCHANGED mirror /\ resolved = root.seq)
    PROVE  IInv'
<1>a. PICK registry \in {root.registry, root.registry + 1}, regslot \in 0..2,
           generation \in {root.journal, root.journal + 1},
           checkpoint \in {root.checkpoint, 1}, floor \in {root.floor, root.seq},
           cataloged \in {root.catalog, root.catalog + 1} :
        /\ registry = root'.registry /\ regslot = root'.regslot /\ generation = root'.journal
        /\ checkpoint = root'.checkpoint /\ floor = root'.floor /\ cataloged = root'.catalog
  BY DEF NextRoot
<1>b. /\ root.manifest < MaxManifest
         /\ root' = [root EXCEPT !.manifest = root.manifest + 1, !.registry = registry,
                                 !.regslot = regslot, !.journal = generation,
                                 !.checkpoint = checkpoint, !.floor = floor,
                                 !.catalog = cataloged]
  BY <1>a DEF NextRoot
<1>1. Base /\ Projections /\ OnceTo(root.seq) /\ Ordered(root) /\ root \in Commits
  BY DEF IInv, Base, Ordered
<1>2. MaxManifest \in Nat /\ MaxSequence \in Nat BY RetryHorizonAssumption
<1>3. /\ root.manifest \in 1..MaxManifest /\ root.registry \in 1..MaxManifest
      /\ root.journal \in 1..MaxManifest /\ root.checkpoint \in 1..MaxManifest
      /\ root.retry \in 1..MaxManifest /\ root.seq \in 0..MaxSequence
      /\ root.floor \in 0..MaxSequence /\ root.catalog \in 0..MaxManifest
  BY <1>1 DEF Commits
<1>4. /\ root.registry <= root.manifest /\ root.journal <= root.manifest
      /\ root.checkpoint <= root.manifest /\ root.retry <= root.manifest
      /\ root.floor <= root.seq /\ root.seq <= Len(journal) /\ root.catalog <= root.manifest
  BY <1>1 DEF Ordered
<1>5. /\ root.manifest + 1 \in 1..MaxManifest
      /\ registry \in 1..MaxManifest /\ registry <= root.manifest + 1
      /\ generation \in 1..MaxManifest /\ generation <= root.manifest + 1
      /\ cataloged \in 0..MaxManifest /\ cataloged <= root.manifest + 1
  <2>1. root.manifest + 1 \in 1..MaxManifest BY <1>2, <1>3, <1>b
  <2>2. registry \in 1..MaxManifest /\ registry <= root.manifest + 1 BY <1>2, <1>3, <1>4, <2>1
  <2>3. generation \in 1..MaxManifest /\ generation <= root.manifest + 1
    BY <1>2, <1>3, <1>4, <2>1
  <2>4. cataloged \in 0..MaxManifest /\ cataloged <= root.manifest + 1
    BY <1>2, <1>3, <1>4, <2>1
  <2> QED BY <2>1, <2>2, <2>3, <2>4
<1>6. /\ checkpoint \in 1..MaxManifest /\ checkpoint <= root.manifest + 1
      /\ floor \in 0..MaxSequence /\ floor <= root.seq /\ root.retry <= root.manifest + 1
  <2>1. checkpoint \in 1..MaxManifest BY <1>2, <1>3
  <2>2. checkpoint <= root.manifest + 1 BY <1>2, <1>3, <1>4
  <2>3. floor \in 0..MaxSequence /\ floor <= root.seq BY <1>2, <1>3, <1>4
  <2>4. root.retry <= root.manifest + 1 BY <1>2, <1>3, <1>4
  <2> QED BY <2>1, <2>2, <2>3, <2>4
<1>7. /\ root'.manifest = root.manifest + 1 /\ root'.registry = registry
      /\ root'.journal = generation /\ root'.checkpoint = checkpoint /\ root'.floor = floor
      /\ root'.seq = root.seq /\ root'.retry = root.retry /\ root'.catalog = cataloged
  BY <1>b, <1>1 DEF Commits
<1>8. root' \in Commits BY <1>b, <1>1, <1>5, <1>6 DEF Commits
<1>9. Ordered(root)' BY <1>4, <1>5, <1>6, <1>7, <1>8 DEF Ordered
<1>10. resolved' \in root'.floor..root'.seq BY <1>3, <1>6, <1>7
<1>11. older' \in SlotPairs BY <1>1 DEF Commits, NamedSlots, SlotPairs
<1>12. Base' BY <1>1, <1>9, <1>10, <1>11 DEF Base
<1>13. Tiers(tiers)' /\ Recent(tiers, root.seq)'
  BY <1>1, <1>7 DEF Projections, Tiers, Recent, AppendsUpTo
<1>14. Tiers(mirror)' /\ Recent(mirror, resolved)'
  BY <1>1 DEF Projections, Tiers, Recent, AppendsUpTo
<1>15. OnceTo(root.seq)' BY <1>1, <1>7 DEF OnceTo
<1> QED BY <1>12, <1>13, <1>14, <1>15 DEF IInv, Projections, WorkInv

\* A registry commit moves the manifest and the registry only.
LEMMA CommitRegistryInv == ASSUME IInv, CommitRegistry PROVE IInv'
<1>1. root \in Commits /\ resolved = root.seq /\ work = None /\ state = "Open"
  BY DEF IInv, Base, Ordered, CommitRegistry, WorkerIdle
<1>2. PICK slot \in 0..2 : slot = CandidateSlot(root.regslot, older.registry)
  BY CandidateSlotInRange
<1>3. /\ root.manifest < MaxManifest
      /\ root' = [root EXCEPT !.manifest = root.manifest + 1,
                              !.registry = root.registry + 1, !.regslot = slot]
  BY <1>2 DEF CommitRegistry
<1>4. NextRoot BY <1>1, <1>2, <1>3 DEF NextRoot, Commits
<1> QED BY <1>1, <1>4, RootInv DEF CommitRegistry

\* Rotation opens a generation whose floor is the cutoff.
LEMMA RotateInv == ASSUME IInv, Rotate PROVE IInv'
<1>1. root \in Commits /\ resolved = root.seq /\ work = None /\ state = "Open"
  BY DEF IInv, Base, Ordered, Rotate, WorkerIdle
<1>2. NextRoot BY <1>1 DEF Rotate, NextRoot, Commits
<1> QED BY <1>1, <1>2, RootInv DEF Rotate

\* A reopen hands the committed projection to the ingress.
LEMMA ReopenInv == ASSUME IInv, NEW recovers \in BOOLEAN, Reopen(recovers) PROVE IInv'
<1>0. root \in Commits /\ work = None /\ work' = None
  BY DEF IInv, Base, Ordered, WorkInv, Reopen
<1>1. CASE recovers
  <2>1. NextRoot BY <1>0, <1>1 DEF Reopen, NextRoot, Commits
  <2> QED BY <1>0, <1>1, <2>1, RootInv DEF Reopen
<1>2. CASE ~recovers
  <2>1. /\ UNCHANGED <<root, older, journal, tiers, queue>>
        /\ mirror' = tiers /\ resolved' = root.seq /\ state' = "Open"
    BY <1>2 DEF Reopen
  <2>2. Base' BY <2>1 DEF IInv, Base, Ordered, Commits
  <2>3. Projections' BY <2>1 DEF IInv, Projections, Tiers, Recent, AppendsUpTo
  <2>4. OnceTo(root.seq)' BY <2>1 DEF IInv, OnceTo
  <2> QED BY <1>0, <2>2, <2>3, <2>4 DEF IInv, WorkInv
<1> QED BY <1>1, <1>2

\* The invariant is inductive: every submission, append, batch, verification,
\* commit, rotation, stop and reopen carries it on.
THEOREM HorizonInvariance == Spec => []IInv
<1>1. IInv /\ [Next]_vars => IInv'
  <2> SUFFICES ASSUME IInv, [Next]_vars PROVE IInv' OBVIOUS
  <2>1. CASE \E q \in Qualifications : Submit(q) BY <2>1, SubmitInv
  <2>2. CASE \E q \in queue : AppendNext(q) BY <2>2, AppendNextInv
  <2>3. CASE SyncPending BY <2>3, SyncPendingInv
  <2>4. CASE AdvanceEntry BY <2>4, AdvanceEntryInv
  <2>5. CASE CommitSyncedPending BY <2>5, CommitSyncedPendingInv
  <2>6. CASE BeginVerification BY <2>6, BeginVerificationInv
  <2>7. CASE CompleteDurableBatch BY <2>7, CompleteDurableBatchInv
  <2>8. CASE CommitRegistry BY <2>8, CommitRegistryInv
  <2>9. CASE Rotate BY <2>9, RotateInv
  <2>10. CASE Stop BY <2>10, DropInv DEF Stop
  <2>11. CASE \E recovers \in BOOLEAN : Reopen(recovers) BY <2>11, ReopenInv
  <2>12. CASE UNCHANGED vars
    <3> USE <2>12 DEF vars
    <3>1. Base' BY DEF IInv, Base, Ordered
    <3>2. Projections' BY DEF IInv, Projections, Tiers, Recent, AppendsUpTo
    <3>3. OnceTo(root.seq)' BY DEF IInv, OnceTo
    <3>4. WorkInv' BY DEF IInv, WorkInv, Ordered, Tiers, Recent, AppendsUpTo, OnceTo
    <3> QED BY <3>1, <3>2, <3>3, <3>4 DEF IInv
  <2> QED BY <2>1, <2>2, <2>3, <2>4, <2>5, <2>6, <2>7, <2>8, <2>9, <2>10, <2>11, <2>12
          DEF Next
<1> QED BY <1>1, InitInv, PTL DEF Spec

\* Both projections keep bounded tiers of well-formed entries.
THEOREM TypeCorrect == Spec => []TypeOK
<1>1. IInv => TypeOK
  <2> SUFFICES ASSUME IInv PROVE TypeOK OBVIOUS
  <2>0. ReplayCapacity \in Nat \ {0} /\ GuardCapacity \in Nat \ {0} /\ MaxSequence \in Nat
    BY RetryHorizonAssumption
  <2>1. ASSUME NEW t, NEW n \in Int, Tiers(t), Recent(t, n)
        PROVE  /\ t.replay \in Seq(Outcomes) /\ Len(t.replay) <= ReplayCapacity
               /\ t.guard \in Seq(Guards) /\ Len(t.guard) <= GuardCapacity
    <3>1. t.replay \in Seq(Outcomes) /\ t.guard \in Seq(Guards) BY <2>1 DEF Tiers
    <3>2. Len(t.replay) \in Nat /\ Len(t.guard) \in Nat BY <3>1, LenProperties
    <3>3. /\ Len(t.replay) = IF n < ReplayCapacity THEN n ELSE ReplayCapacity
          /\ Len(t.guard) = IF n - Len(t.replay) < GuardCapacity
                             THEN n - Len(t.replay) ELSE GuardCapacity
      BY <2>1 DEF Recent
    <3>4. Len(t.replay) <= ReplayCapacity BY <2>0, <3>2, <3>3
    <3>5. Len(t.guard) <= GuardCapacity BY <2>0, <3>2, <3>3
    <3> QED BY <3>1, <3>4, <3>5
  <2>2. root \in Commits /\ root.seq \in 0..MaxSequence /\ root.floor \in 0..MaxSequence
    BY DEF IInv, Base, Ordered, Commits
  <2>3. resolved \in 0..MaxSequence BY <2>0, <2>2 DEF IInv, Base
  <2>4. root.seq \in Int /\ resolved \in Int BY <2>2, <2>3
  <2> QED BY <2>1, <2>2, <2>3, <2>4 DEF IInv, Base, Projections, TypeOK
<1> QED BY <1>1, HorizonInvariance, PTL

\* advance keeps exactly the newest appends in both projections, whatever the
\* two capacities are.
THEOREM HorizonExact == Spec => []HorizonIsRecent
<1>1. IInv => HorizonIsRecent BY DEF IInv, Projections, HorizonIsRecent
<1> QED BY <1>1, HorizonInvariance, PTL

\* A key is never durable twice within the horizon, whatever the capacities
\* are and however submissions, batches, rotations and restarts interleave.
THEOREM AtMostOnce == Spec => []AtMostOnceWithinHorizon
<1>1. IInv => AtMostOnceWithinHorizon BY DEF IInv, OnceTo, AtMostOnceWithinHorizon
<1> QED BY <1>1, HorizonInvariance, PTL
=============================================================================
