------------------------ MODULE ManifestStoreProofs ------------------------
(***************************************************************************)
(* Failure custody of the store, for every value of the constants.         *)
(***************************************************************************)
EXTENDS ManifestStore, TLAPS

\* The handle keeps its three fields, and a handle that is closed, in pressure
\* custody or faulted has no file step left to take.
CustodyInv ==
    /\ DOMAIN handle = {"state", "manifests", "cutoff"}
    /\ handle.state \in FailureStates \cup {"Closed"} => todo = <<>>

\* No file step changes the state of the handle, except the return of open,
\* which makes it writable, and every one of them needs work left to do.
LEMMA FileStepCustody ==
    ASSUME CustodyInv,
           \/ StepMarker
           \/ \E f \in StagingFiles : CreateStaging(f) \/ WriteStaging(f) \/ PublishStaging(f)
           \/ \E f \in Families : SweepUnreferenced(f)
           \/ StepJournal \/ StepCheckpoint \/ StepIntent
           \/ \E file \in UnlinkedFiles : Unlink(file)
           \/ TruncateJournal
           \/ AdoptManifest
           \/ OpenReady
    PROVE  todo # <<>> /\ CustodyInv'
<1>1. CASE StepMarker
  BY <1>1 DEF CustodyInv, StepMarker, Step
<1>2. ASSUME NEW f \in StagingFiles, CreateStaging(f) \/ WriteStaging(f) \/ PublishStaging(f)
      PROVE  todo # <<>> /\ CustodyInv'
  BY <1>2 DEF CustodyInv, CreateStaging, WriteStaging, PublishStaging, Step
<1>3. ASSUME NEW f \in Families, SweepUnreferenced(f) PROVE todo # <<>> /\ CustodyInv'
  BY <1>3 DEF CustodyInv, SweepUnreferenced, Step
<1>4. CASE StepJournal \/ StepIntent
  BY <1>4 DEF CustodyInv, StepJournal, StepIntent, Step
<1>5. CASE StepCheckpoint
  <2>1. todo # <<>> BY <1>5 DEF StepCheckpoint, Step
  <2>2. \E cutoff : handle' = handle \/ handle' = [handle EXCEPT !.cutoff = cutoff]
    BY <1>5 DEF StepCheckpoint
  <2> QED BY <2>1, <2>2 DEF CustodyInv
<1>6. ASSUME NEW file \in UnlinkedFiles, Unlink(file) PROVE todo # <<>> /\ CustodyInv'
  BY <1>6 DEF CustodyInv, Unlink, Step
<1>7. CASE TruncateJournal
  BY <1>7 DEF CustodyInv, TruncateJournal, Step
<1>8. CASE AdoptManifest
  BY <1>8 DEF CustodyInv, AdoptManifest, Step
<1>9. CASE OpenReady
  BY <1>9 DEF CustodyInv, OpenReady, Step, FailureStates
<1> QED BY <1>1, <1>2, <1>3, <1>4, <1>5, <1>6, <1>7, <1>8, <1>9

\* The invariant holds in every reachable state.
THEOREM CustodyInvariance == Spec => []CustodyInv
<1>1. Init => CustodyInv
  BY DEF Init, CustodyInv, ClosedHandle
<1>2. CustodyInv /\ [Next]_vars => CustodyInv'
  <2> SUFFICES ASSUME CustodyInv, [Next]_vars PROVE CustodyInv'
    OBVIOUS
  <2>1. ASSUME NEW p \in Payloads, AppendFrame(p) PROVE CustodyInv'
    BY <2>1 DEF CustodyInv, AppendFrame
  <2>2. ASSUME NEW t \in TailClasses \cup {"clean"}, NEW s \in FailureStates, AppendFails(t, s)
        PROVE  CustodyInv'
    BY <2>2 DEF CustodyInv, AppendFails, Idle
  <2>3. CASE SyncPending \/ Rotate \/ \E v \in RegistryValues : ApplyRegistry(v)
    BY <2>3 DEF CustodyInv, SyncPending, Rotate, ApplyRegistry, Idle, FailureStates
  <2>4. CASE OpenEmptyDirectory \/ OpenStagedMarker \/ OpenRollsBack
    BY <2>4 DEF CustodyInv, OpenEmptyDirectory, OpenStagedMarker, OpenRollsBack, FailureStates
  <2>5. CASE OpenCommitted \/ InitializeGenesis
    BY <2>5 DEF CustodyInv, OpenCommitted, InitializeGenesis, FailureStates
  <2>6. ASSUME NEW s \in FailureStates, StepFails(s) PROVE CustodyInv'
    BY <2>6 DEF CustodyInv, StepFails, ClosedHandle
  <2>7. CASE Stop
    BY <2>7 DEF CustodyInv, Stop, ClosedHandle
  <2>8. CASE UNCHANGED vars
    BY <2>8 DEF CustodyInv, vars
  <2> QED BY <2>1, <2>2, <2>3, <2>4, <2>5, <2>6, <2>7, <2>8, FileStepCustody DEF Next
<1> QED BY <1>1, <1>2, PTL DEF Spec

\* For every value of the constants, a handle in pressure custody or faulted
\* leaves every file of the directory as it is, until it is dropped.
THEOREM Custody == Spec => CustodyChangesNothing
<1>1. CustodyInv /\ [Next]_vars => [handle.state \in FailureStates => UNCHANGED disk]_vars
  <2> SUFFICES ASSUME CustodyInv, Next, handle.state \in FailureStates PROVE UNCHANGED disk
    OBVIOUS
  <2>1. todo = <<>> BY DEF CustodyInv
  <2>2. ~Idle BY DEF Idle, FailureStates
  <2>3. CASE \/ OpenEmptyDirectory \/ OpenStagedMarker \/ OpenRollsBack
             \/ OpenCommitted \/ InitializeGenesis \/ Stop
    BY <2>3 DEF OpenEmptyDirectory, OpenStagedMarker, OpenRollsBack, OpenCommitted,
                InitializeGenesis, Stop
  <2>4. CASE \/ \E p \in Payloads : AppendFrame(p)
             \/ \E t \in TailClasses \cup {"clean"}, s \in FailureStates : AppendFails(t, s)
             \/ SyncPending \/ Rotate \/ \E v \in RegistryValues : ApplyRegistry(v)
    BY <2>2, <2>4 DEF AppendFrame, AppendFails, SyncPending, Rotate, ApplyRegistry
  <2>5. CASE \E s \in FailureStates : StepFails(s)
    BY <2>1, <2>5 DEF StepFails
  <2> QED BY <2>1, <2>3, <2>4, <2>5, FileStepCustody DEF Next
<1> QED BY <1>1, CustodyInvariance, PTL DEF Spec, CustodyChangesNothing
=============================================================================
