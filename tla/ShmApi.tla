------------------------------- MODULE ShmApi -------------------------------
(***************************************************************************)
(* The System V shared-memory library (SHM/src/shm_api.c): one segment,    *)
(* one process-shared mutex inside it, one slot holding a status code and  *)
(* a message.  Any number of processes create or attach the segment, write *)
(* and read the slot under the mutex, detach, and may be killed at any     *)
(* step.  The segment is never removed (no process calls shm_api_destroy), *)
(* so its lock word and its contents outlive every process.                *)
(*                                                                         *)
(* A value stands for one (status, message) pair handed to shm_api_write:  *)
(* a write of v stores v in both fields, so a reader that sees two         *)
(* different values, or Torn, has seen a half-done write.                  *)
(***************************************************************************)
EXTENDS Integers

CONSTANTS
  Procs,       \* the processes that use the library
  Values,      \* the (status, message) pairs that are written
  Robust,      \* TRUE iff the build compiles the #ifdef PTHREAD_MUTEX_ROBUST parts
  InitInTime,  \* TRUE iff a creator always ends its initialisation during the
               \* 10 ms an attaching process sleeps
  MaxCrashes,  \* how many times a process is killed
  NoOwner,     \* the lock word of a free mutex
  OwnerDied    \* the lock word left by a process killed in its critical section

ASSUME ShmAssumption ==
  /\ Values \subseteq Nat \ {0}
  /\ Robust \in BOOLEAN /\ InitInTime \in BOOLEAN /\ MaxCrashes \in Nat
  /\ NoOwner \notin Procs /\ OwnerDied \notin Procs /\ NoOwner # OwnerDied

Blank == 0    \* the contents of a zero-filled segment
Torn  == -1   \* a message field that snprintf has not finished

VARIABLES
  segment,      \* "absent", "zeroed" (mutex not initialised) or "ready"
  owner,        \* the lock word of the mutex in the segment
  status_code,  \* SharedData.status_code
  message,      \* SharedData.message
  spc,          \* where each process is in the library
  arg,          \* what each process is writing
  got,          \* the pair each process's last read returned
  suspect,      \* TRUE after EOWNERDEAD was recovered, until the next write ends
  crashes       \* kills so far

shmVars == <<segment, owner, status_code, message, spc, arg, got, suspect,
             crashes>>

Writing == {"write_status", "write_message", "write_tail", "write_unlock"}
Reading == {"read_copy", "read_unlock"}
Critical == Writing \cup Reading
Locking == {"write_lock", "read_lock"}
Outside == {"detached", "creating", "attaching"}
ShmPCs == Outside \cup {"idle"} \cup Locking \cup Critical

ShmTypeOK ==
  /\ segment \in {"absent", "zeroed", "ready"}
  /\ owner \in Procs \cup {NoOwner, OwnerDied}
  /\ status_code \in Values \cup {Blank}
  /\ message \in Values \cup {Blank, Torn}
  /\ spc \in [Procs -> ShmPCs]
  /\ arg \in [Procs -> Values \cup {Blank}]
  /\ got \in [Procs -> (Values \cup {Blank}) \X (Values \cup {Blank, Torn})]
  /\ suspect \in BOOLEAN
  /\ crashes \in 0 .. MaxCrashes

ShmInit ==
  /\ segment = "absent"
  /\ owner = NoOwner
  /\ status_code = Blank
  /\ message = Blank
  /\ spc = [p \in Procs |-> "detached"]
  /\ arg = [p \in Procs |-> Blank]
  /\ got = [p \in Procs |-> <<Blank, Blank>>]
  /\ suspect = FALSE
  /\ crashes = 0

Goto(p, from, to) ==
  /\ spc[p] = from
  /\ spc' = [spc EXCEPT ![p] = to]

-----------------------------------------------------------------------------
(* shm_api_init. *)

\* shmget with IPC_EXCL succeeds: p creates the zero-filled segment, and goes
\* on to initialise the mutex unless shmat fails and p gives up.
ShmCreate(p) ==
  /\ segment = "absent"
  /\ segment' = "zeroed"
  /\ \E to \in {"creating", "detached"} : Goto(p, "detached", to)
  /\ UNCHANGED <<owner, status_code, message, arg, got, suspect, crashes>>

\* A faulty pthread_mutex_init that runs in every process, not only the creator.
AnyInit(p) ==
  /\ \E from \in {"creating", "attaching"} : Goto(p, from, "idle")
  /\ segment' = "ready"
  /\ owner' = NoOwner
  /\ UNCHANGED <<status_code, message, arg, got, suspect, crashes>>

\* The creator runs pthread_mutex_init, which leaves the mutex unlocked
\* whatever its lock word was.
MutexInit(p) ==
  /\ Goto(p, "creating", "idle")
  /\ segment' = "ready"
  /\ owner' = NoOwner
  /\ UNCHANGED <<status_code, message, arg, got, suspect, crashes>>

\* shmget fails with EEXIST: p attaches and sleeps 10 ms.
ShmAttach(p) ==
  /\ segment # "absent"
  /\ Goto(p, "detached", "attaching")
  /\ UNCHANGED <<segment, owner, status_code, message, arg, got, suspect, crashes>>

\* The sleep ends.  Nothing but its length makes the creator come first.
AttachDone(p) ==
  /\ InitInTime => \A q \in Procs : spc[q] # "creating"
  /\ Goto(p, "attaching", "idle")
  /\ UNCHANGED <<segment, owner, status_code, message, arg, got, suspect, crashes>>

-----------------------------------------------------------------------------
(* safe_lock. *)

Locked(p) ==
  \/ Goto(p, "write_lock", "write_status")
  \/ Goto(p, "read_lock", "read_copy")

\* pthread_mutex_lock returns EOWNERDEAD only for a mutex initialised as
\* robust; any other mutex stays locked when its owner dies.
Recoverable == Robust /\ segment = "ready" /\ owner = OwnerDied

\* A faulty safe_lock that takes the mutex without waiting for its owner.
BargeLock(p) ==
  /\ Locked(p)
  /\ owner' = p
  /\ suspect' = (suspect \/ owner = OwnerDied)
  /\ UNCHANGED <<segment, status_code, message, arg, got, crashes>>

\* A faulty safe_lock that takes no notice of EOWNERDEAD.
PlainLock(p) ==
  /\ owner = NoOwner
  /\ Locked(p)
  /\ owner' = p
  /\ UNCHANGED <<segment, status_code, message, arg, got, suspect, crashes>>

SafeLock(p) ==
  /\ owner = NoOwner \/ Recoverable
  /\ Locked(p)
  /\ owner' = p
  /\ suspect' = (suspect \/ owner = OwnerDied)
  /\ UNCHANGED <<segment, status_code, message, arg, got, crashes>>

-----------------------------------------------------------------------------
(* shm_api_write: lock, status, message, unlock. *)

BeginWrite(p, v) ==
  /\ Goto(p, "idle", "write_lock")
  /\ arg' = [arg EXCEPT ![p] = v]
  /\ UNCHANGED <<segment, owner, status_code, message, got, suspect, crashes>>

WriteStatus(p) ==
  /\ Goto(p, "write_status", "write_message")
  /\ status_code' = arg[p]
  /\ UNCHANGED <<segment, owner, message, arg, got, suspect, crashes>>

\* snprintf copies byte by byte: the field is half written in between.
WriteMessage(p) ==
  /\ \/ Goto(p, "write_message", "write_tail") /\ message' = Torn
     \/ Goto(p, "write_tail", "write_unlock") /\ message' = arg[p]
  /\ UNCHANGED <<segment, owner, status_code, arg, got, suspect, crashes>>

\* A faulty shm_api_write that gives the mutex back before the copy is complete.
EarlyUnlock(p) ==
  /\ \E from \in {"write_tail", "write_unlock"} : Goto(p, from, "idle")
  /\ owner' = NoOwner
  /\ suspect' = FALSE
  /\ arg' = [arg EXCEPT ![p] = Blank]
  /\ UNCHANGED <<segment, status_code, message, got, crashes>>

WriteUnlock(p) ==
  /\ Goto(p, "write_unlock", "idle")
  /\ owner' = NoOwner
  /\ suspect' = FALSE
  /\ arg' = [arg EXCEPT ![p] = Blank]
  /\ UNCHANGED <<segment, status_code, message, got, crashes>>

-----------------------------------------------------------------------------
(* shm_api_read: lock, copy, unlock. *)

BeginRead(p) ==
  /\ Goto(p, "idle", "read_lock")
  /\ UNCHANGED <<segment, owner, status_code, message, arg, got, suspect, crashes>>

ReadCopy(p) ==
  /\ Goto(p, "read_copy", "read_unlock")
  /\ got' = [got EXCEPT ![p] = <<status_code, message>>]
  /\ UNCHANGED <<segment, owner, status_code, message, arg, suspect, crashes>>

\* A faulty shm_api_read that returns without the unlock.
ReadNoUnlock(p) ==
  /\ Goto(p, "read_unlock", "idle")
  /\ UNCHANGED <<segment, owner, status_code, message, arg, got, suspect, crashes>>

ReadUnlock(p) ==
  /\ Goto(p, "read_unlock", "idle")
  /\ owner' = NoOwner
  /\ UNCHANGED <<segment, status_code, message, arg, got, suspect, crashes>>

-----------------------------------------------------------------------------
\* shm_api_close: the process detaches; the segment stays.
ShmClose(p) ==
  /\ Goto(p, "idle", "detached")
  /\ UNCHANGED <<segment, owner, status_code, message, arg, got, suspect, crashes>>

\* The process is killed; the kernel detaches it, and the lock word still
\* names it if it held the mutex.
Crash(p) ==
  /\ crashes < MaxCrashes
  /\ crashes' = crashes + 1
  /\ spc[p] # "detached"
  /\ spc' = [spc EXCEPT ![p] = "detached"]
  /\ arg' = [arg EXCEPT ![p] = Blank]
  /\ got' = [got EXCEPT ![p] = <<Blank, Blank>>]
  /\ owner' = IF owner = p THEN OwnerDied ELSE owner
  /\ UNCHANGED <<segment, status_code, message, suspect>>

\* What a process inside a library call does next.
ShmStep(p) ==
  \/ MutexInit(p) \/ AttachDone(p) \/ SafeLock(p)
  \/ WriteStatus(p) \/ WriteMessage(p) \/ WriteUnlock(p)
  \/ ReadCopy(p) \/ ReadUnlock(p)

ShmCall(p) ==
  \/ ShmCreate(p) \/ ShmAttach(p) \/ ShmClose(p)
  \/ BeginRead(p) \/ \E v \in Values : BeginWrite(p, v)

ShmNext == \E p \in Procs : ShmCall(p) \/ ShmStep(p) \/ Crash(p)

ShmSpec == ShmInit /\ [][ShmNext]_shmVars

\* A process that is inside a library call and able to go on does go on.
ShmFairSpec == ShmSpec /\ \A p \in Procs : WF_shmVars(ShmStep(p))

-----------------------------------------------------------------------------
(* Properties. *)

\* The lock word is the process in its critical section, and no process is there
\* without it.
Exclusive == \A p \in Procs : (spc[p] \in Critical) <=> (owner = p)

\* safe_lock excludes: two processes are never between lock and unlock at the
\* same time, and the lock word names the one that is.  (shm_api.c:31-57,
\* under the timing assumption of the usleep at line 118.)
MutualExclusion == InitInTime => Exclusive

\* A read returns a status and a message of one and the same write, unless the
\* mutex was recovered from a writer that died and no write has ended since:
\* safe_lock repairs no data (shm_api.c:47).
NoTornRead ==
  InitInTime =>
    \A p \in Procs : spc[p] = "read_unlock" /\ ~suspect => got[p][1] = got[p][2]

\* Without the timing assumption, a late pthread_mutex_init is the only step that can
\* break the exclusion; in particular a mutex that was never initialised because its
\* creator died excludes too (shm_api.c:98-123).
ExclusionLostByInit ==
  [][Exclusive => Exclusive' \/ (segment = "zeroed" /\ segment' = "ready")]_shmVars

\* After that the lock word may belong to one of several processes inside, but never to
\* one outside: once all have left, the exclusion is whole again (shm_api.c:31-57, 140, 169).
OwnerInside == \A p \in Procs : owner = p => spc[p] \in Critical

\* When the owner of an initialised mutex is killed and another process wants
\* the mutex, it gets it (docs/test/EdgeCase_TestCases.md, case 3-1).
Stranded ==
  segment = "ready" /\ owner = OwnerDied /\ \E p \in Procs : spc[p] \in Locking

DeadOwnerRecovered == Stranded ~> ~Stranded

-----------------------------------------------------------------------------
(* The inductive invariants: OneCreator behind ExclusionLostByInit, the others behind
   MutualExclusion and NoTornRead. *)

\* At most one process initialises the mutex, and only once.
OneCreator ==
  \A p \in Procs : spc[p] = "creating" =>
    segment = "zeroed" /\ \A q \in Procs : spc[q] = "creating" => q = p

\* Until pthread_mutex_init is done nobody but the creator is past its sleep.
CreatorFirst ==
  /\ segment = "absent" =>
       owner = NoOwner /\ \A p \in Procs : spc[p] = "detached"
  /\ \A p \in Procs : spc[p] = "creating" =>
       /\ owner = NoOwner
       /\ \A q \in Procs \ {p} : spc[q] \in {"detached", "attaching"}

\* The slot holds one write unless a writer is, or died, in the middle of one.
WholeSlot ==
  /\ \/ status_code = message \/ suspect \/ owner = OwnerDied
     \/ \E p \in Procs : spc[p] \in {"write_message", "write_tail"}
  /\ \A p \in Procs :
       /\ spc[p] \in {"write_message", "write_tail", "write_unlock"} =>
            status_code = arg[p]
       /\ spc[p] = "write_unlock" => message = arg[p]

ShmIInv ==
  /\ ShmTypeOK
  /\ MutualExclusion
  /\ NoTornRead
  /\ InitInTime => CreatorFirst /\ WholeSlot
  /\ ~Robust => ~suspect

=============================================================================
