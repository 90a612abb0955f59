---------------------------- MODULE ShmApiProofs ----------------------------
(***************************************************************************)
(* Proofs about ShmApi, for any set of processes, any set of values, and   *)
(* either build of the mutex.                                              *)
(***************************************************************************)
EXTENDS ShmApi, TLAPS

\* shm_api_init, shm_api_write, shm_api_read, shm_api_close and a kill each
\* preserve the inductive invariant of the slot and its mutex.
LEMMA ShmInductive == ShmIInv /\ [ShmNext]_shmVars => ShmIInv'
<1> SUFFICES ASSUME ShmIInv, [ShmNext]_shmVars PROVE ShmIInv'
  OBVIOUS
<1> USE ShmAssumption
<1> USE DEF ShmIInv, ShmTypeOK, MutualExclusion, Exclusive, NoTornRead, CreatorFirst,
            WholeSlot, ShmPCs, Outside, Locking, Critical, Writing, Reading,
            Blank, Torn, Goto
<1>1. ASSUME NEW p \in Procs, ShmCreate(p) PROVE ShmIInv'
  BY <1>1 DEF ShmCreate
<1>2. ASSUME NEW p \in Procs, MutexInit(p) PROVE ShmIInv'
  BY <1>2 DEF MutexInit
<1>3. ASSUME NEW p \in Procs, ShmAttach(p) PROVE ShmIInv'
  BY <1>3 DEF ShmAttach
<1>4. ASSUME NEW p \in Procs, AttachDone(p) PROVE ShmIInv'
  BY <1>4 DEF AttachDone
<1>5. ASSUME NEW p \in Procs, SafeLock(p) PROVE ShmIInv'
  <2>1. ShmTypeOK'
    BY <1>5, Zenon DEF SafeLock, Locked, Recoverable
  <2>2. MutualExclusion' /\ NoTornRead'
    BY <1>5 DEF SafeLock, Locked, Recoverable
  <2>3. InitInTime => CreatorFirst' /\ WholeSlot'
    BY <1>5 DEF SafeLock, Locked, Recoverable
  <2>4. ~Robust => ~suspect'
    <3>1. ~Robust => owner = NoOwner /\ suspect' = (suspect \/ owner = OwnerDied)
      BY <1>5, Zenon DEF SafeLock, Recoverable
    <3>2. ~Robust => ~suspect
      BY Zenon DEF ShmIInv
    <3> QED
      BY <3>1, <3>2, Zenon
  <2> QED
    BY <2>1, <2>2, <2>3, <2>4, Zenon
<1>6. ASSUME NEW p \in Procs, NEW v \in Values, BeginWrite(p, v) PROVE ShmIInv'
  BY <1>6 DEF BeginWrite
<1>7. ASSUME NEW p \in Procs, WriteStatus(p) PROVE ShmIInv'
  BY <1>7 DEF WriteStatus
<1>8. ASSUME NEW p \in Procs, WriteMessage(p) PROVE ShmIInv'
  BY <1>8 DEF WriteMessage
<1>9. ASSUME NEW p \in Procs, WriteUnlock(p) PROVE ShmIInv'
  <2>1. ShmTypeOK'
    BY <1>9, Zenon DEF WriteUnlock
  <2>2. MutualExclusion' /\ NoTornRead'
    BY <1>9 DEF WriteUnlock
  <2>3. InitInTime => CreatorFirst'
    BY <1>9 DEF WriteUnlock
  <2>4. InitInTime => WholeSlot'
    <3> SUFFICES ASSUME InitInTime PROVE WholeSlot'
      OBVIOUS
    <3>1. status_code = message
      BY <1>9, Zenon DEF WriteUnlock
    <3> QED
      BY <3>1, <1>9, Zenon DEF WriteUnlock
  <2>5. ~suspect'
    BY <1>9, Zenon DEF WriteUnlock
  <2> QED
    BY <2>1, <2>2, <2>3, <2>4, <2>5, Zenon
<1>10. ASSUME NEW p \in Procs, BeginRead(p) PROVE ShmIInv'
  BY <1>10 DEF BeginRead
<1>11. ASSUME NEW p \in Procs, ReadCopy(p) PROVE ShmIInv'
  BY <1>11 DEF ReadCopy
<1>12. ASSUME NEW p \in Procs, ReadUnlock(p) PROVE ShmIInv'
  BY <1>12 DEF ReadUnlock
<1>13. ASSUME NEW p \in Procs, ShmClose(p) PROVE ShmIInv'
  BY <1>13 DEF ShmClose
<1>14. ASSUME NEW p \in Procs, Crash(p) PROVE ShmIInv'
  BY <1>14 DEF Crash
<1>15. CASE UNCHANGED shmVars
  BY <1>15 DEF shmVars
<1> HIDE DEF ShmIInv
<1> QED
  BY <1>1, <1>2, <1>3, <1>4, <1>5, <1>6, <1>7, <1>8, <1>9, <1>10, <1>11, <1>12,
     <1>13, <1>14, <1>15, Zenon DEF ShmNext, ShmCall, ShmStep

\* The inductive invariant holds before any process has started.
LEMMA ShmInitially == ShmInit => ShmIInv
<1> SUFFICES ASSUME ShmInit PROVE ShmIInv
  OBVIOUS
<1>1. ShmTypeOK
  <2>1. got \in [Procs -> (Values \cup {Blank}) \X (Values \cup {Blank, Torn})]
    BY Zenon DEF ShmInit
  <2>2. spc \in [Procs -> ShmPCs] /\ arg \in [Procs -> Values \cup {Blank}]
    BY Zenon DEF ShmInit, ShmPCs, Outside
  <2>3. crashes \in 0 .. MaxCrashes
    BY ShmAssumption DEF ShmInit
  <2> QED
    BY <2>1, <2>2, <2>3, Zenon DEF ShmInit, ShmTypeOK
<1>2. MutualExclusion /\ NoTornRead /\ CreatorFirst /\ WholeSlot
  BY ShmAssumption, Zenon
     DEF ShmInit, MutualExclusion, Exclusive, NoTornRead, CreatorFirst, WholeSlot,
         Critical, Writing, Reading, Blank
<1> QED
  BY <1>1, <1>2, Zenon DEF ShmIInv, ShmInit

\* The inductive invariant holds in every reachable state.
THEOREM ShmInvariant == ShmSpec => []ShmIInv
BY ShmInitially, ShmInductive, PTL DEF ShmSpec

\* safe_lock excludes, whatever processes are killed, as long as the creator's
\* initialisation ends during the attachers' sleep.
THEOREM ShmMutualExclusion == ShmSpec => []MutualExclusion
BY ShmInvariant, PTL DEF ShmIInv

\* shm_api_read never returns half of a write, except after a recovered death.
THEOREM ShmNoTornRead == ShmSpec => []NoTornRead
BY ShmInvariant, PTL DEF ShmIInv

\* Without any assumption on the timing, no step gives the lock word to a process
\* outside its critical section, and none but pthread_mutex_init breaks the exclusion.
LEMMA LockWordSteps ==
  ASSUME ShmTypeOK, OneCreator, [ShmNext]_shmVars
  PROVE  /\ OneCreator'
         /\ OwnerInside => OwnerInside'
         /\ Exclusive => Exclusive' \/ (segment = "zeroed" /\ segment' = "ready")
<1> DEFINE Goal == /\ OneCreator'
                   /\ OwnerInside => OwnerInside'
                   /\ Exclusive => Exclusive' \/ (segment = "zeroed" /\ segment' = "ready")
<1> USE ShmAssumption
<1> USE DEF ShmTypeOK, ShmPCs, Outside, Locking, Critical, Writing, Reading, Goto,
            OneCreator, OwnerInside, Exclusive
<1>1. ASSUME NEW p \in Procs, ShmCreate(p) \/ ShmAttach(p) \/ AttachDone(p) \/ ShmClose(p)
      PROVE  Goal
  BY <1>1 DEF ShmCreate, ShmAttach, AttachDone, ShmClose
<1>2. ASSUME NEW p \in Procs, MutexInit(p) PROVE Goal
  BY <1>2 DEF MutexInit
<1>3. ASSUME NEW p \in Procs, SafeLock(p) PROVE Goal
  BY <1>3 DEF SafeLock, Locked, Recoverable
<1>4. ASSUME NEW p \in Procs, BeginRead(p) \/ \E v \in Values : BeginWrite(p, v) PROVE Goal
  BY <1>4 DEF BeginRead, BeginWrite
<1>5. ASSUME NEW p \in Procs, WriteStatus(p) \/ WriteMessage(p) \/ ReadCopy(p) PROVE Goal
  BY <1>5 DEF WriteStatus, WriteMessage, ReadCopy
<1>6. ASSUME NEW p \in Procs, WriteUnlock(p) \/ ReadUnlock(p) PROVE Goal
  BY <1>6 DEF WriteUnlock, ReadUnlock
<1>7. ASSUME NEW p \in Procs, Crash(p) PROVE Goal
  BY <1>7 DEF Crash
<1>8. ASSUME UNCHANGED shmVars PROVE Goal
  BY <1>8, Zenon DEF shmVars
<1> HIDE DEF Goal
<1>9. Goal
  BY <1>1, <1>2, <1>3, <1>4, <1>5, <1>6, <1>7, <1>8, Zenon DEF ShmNext, ShmCall, ShmStep
<1> QED
  BY <1>9, Zenon DEF Goal

\* One process at most initialises the mutex.
LEMMA ShmOneCreator == ShmSpec => []OneCreator
<1>1. ShmInit => OneCreator
  BY Zenon DEF ShmInit, OneCreator
<1>2. ShmIInv /\ OneCreator /\ [ShmNext]_shmVars => OneCreator'
  BY LockWordSteps, Zenon DEF ShmIInv
<1> QED
  BY <1>1, <1>2, ShmInvariant, PTL DEF ShmSpec

\* The lock word never names a process outside its critical section.
THEOREM ShmOwnerInside == ShmSpec => []OwnerInside
<1>1. ShmInit => OwnerInside
  BY ShmAssumption, Zenon DEF ShmInit, OwnerInside
<1>2. ShmIInv /\ OneCreator /\ OwnerInside /\ [ShmNext]_shmVars => OwnerInside'
  BY LockWordSteps, Zenon DEF ShmIInv
<1> QED
  BY <1>1, <1>2, ShmInvariant, ShmOneCreator, PTL DEF ShmSpec

\* Only a late pthread_mutex_init breaks the exclusion of safe_lock.
THEOREM ShmExclusionLostByInit == ShmSpec => ExclusionLostByInit
<1>1. ShmIInv /\ OneCreator /\ [ShmNext]_shmVars =>
        [Exclusive => Exclusive' \/ (segment = "zeroed" /\ segment' = "ready")]_shmVars
  BY LockWordSteps, Zenon DEF ShmIInv
<1> QED
  BY <1>1, ShmInvariant, ShmOneCreator, PTL DEF ShmSpec, ExclusionLostByInit

=============================================================================
