------------------------------ MODULE PosixShm ------------------------------
(***************************************************************************)
(* The POSIX shared-memory library (PosixSHM/src/shm_api.c), which         *)
(* SHM_IMPL=posix builds in place of the System V one.  The file that      *)
(* names the memory has no size until its creator gives it one; every      *)
(* other process waits for that, and none waits for the mutex.             *)
(*                                                                         *)
(* Both builds have one header and one specification: the last part maps   *)
(* the state of this library to that of ShmApi and states that it          *)
(* implements it.                                                          *)
(***************************************************************************)
EXTENDS Integers

CONSTANTS
  Procs,       \* the processes that use the library
  Values,      \* the (status, message) pairs that are written
  Robust,      \* TRUE iff the build compiles the #ifdef PTHREAD_MUTEX_ROBUST parts
  MaxCrashes,  \* how many times a process is killed, before and after it mapped
  NoOwner,     \* the lock word of a free mutex
  OwnerDied    \* the lock word left by a process killed in its critical section

ASSUME PosixAssumption ==
  /\ Values \subseteq Nat \ {0} /\ Robust \in BOOLEAN /\ MaxCrashes \in Nat
  /\ NoOwner \notin Procs /\ OwnerDied \notin Procs /\ NoOwner # OwnerDied

VARIABLES
  file,     \* the file SHM_NAME: "absent", "empty" or "sized"
  mutex,    \* "zero" until pthread_mutex_init, then "ready"
  word,     \* its lock word
  slot,     \* SharedData.status_code and SharedData.message
  pc,       \* where each process is in the library
  unseen,   \* the processes whose fstat failed in the current shm_api_init
  arg,      \* what each process is writing
  got,      \* the pair each process's last read returned
  suspect,  \* TRUE after EOWNERDEAD was recovered, until the next write ends
  kills     \* kills of a process before, and after, it mapped the sized file

pvars == <<file, mutex, word, slot, pc, unseen, arg, got, suspect, kills>>

Blank == 0    \* the contents of a file that ftruncate has extended
Torn  == -1   \* a message field that snprintf has not finished

\* In shm_api_init, before mmap; some have opened a file that was removed since.
Opening == {"ftruncate", "shm_open", "fstat", "fstat_unlinked"}

\* Has mapped a file whose size it has not seen, because fstat failed.
Blind == {"blind", "blind_unlinked"}

WriteBody == {"write_status", "write_message", "write_tail", "write_unlock"}
ReadBody == {"read_copy", "read_unlock"}

\* Has mapped the file of the right size: in shm_api_init, idle or in a call.
Attached == {"creating", "mapped", "idle", "write_lock", "read_lock"} \cup WriteBody \cup ReadBody

Pairs == (Values \cup {Blank}) \X (Values \cup {Blank, Torn})

PosixTypeOK ==
  /\ file \in {"absent", "empty", "sized"} /\ mutex \in {"zero", "ready"}
  /\ word \in Procs \cup {NoOwner, OwnerDied} /\ slot \in Pairs
  /\ pc \in [Procs -> {"detached"} \cup Opening \cup Blind \cup Attached]
  /\ unseen \subseteq Procs
  /\ arg \in [Procs -> Values \cup {Blank}] /\ got \in [Procs -> Pairs]
  /\ suspect \in BOOLEAN /\ kills \in [{"before", "after"} -> 0 .. MaxCrashes]

PosixInit ==
  /\ file = "absent" /\ mutex = "zero" /\ word = NoOwner /\ slot = <<Blank, Blank>>
  /\ pc = [p \in Procs |-> "detached"] /\ unseen = {}
  /\ arg = [p \in Procs |-> Blank] /\ got = [p \in Procs |-> <<Blank, Blank>>]
  /\ suspect = FALSE /\ kills = [w \in {"before", "after"} |-> 0]

Moves(p, from, to) == pc[p] = from /\ pc' = [pc EXCEPT ![p] = to]

-----------------------------------------------------------------------------
(* shm_api_init. *)

\* shm_open with O_EXCL creates the file, or fails.
OpenExcl(p) ==
  /\ \/ file = "absent" /\ file' = "empty" /\ Moves(p, "detached", "ftruncate")
     \/ file # "absent" /\ Moves(p, "detached", "shm_open") /\ UNCHANGED file
  /\ unseen' = unseen \ {p}
  /\ UNCHANGED <<mutex, word, slot, arg, got, suspect, kills>>

\* What becomes of a process that has the file open when it is removed.
Unlinked(place) ==
  IF place = "fstat" THEN "fstat_unlinked"
  ELSE IF place = "blind" THEN "blind_unlinked" ELSE place

\* The creator gives the file its size and maps it; mmap may fail.  If ftruncate fails,
\* the creator removes the file, which other processes may have opened.
Ftruncate(p) ==
  /\ \/ /\ \E to \in {"creating", "detached"} : Moves(p, "ftruncate", to)
        /\ file' = "sized"
     \/ /\ pc[p] = "ftruncate" /\ file' = "absent"
        /\ pc' = [q \in Procs |-> IF q = p THEN "detached" ELSE Unlinked(pc[q])]
  /\ UNCHANGED <<mutex, word, slot, unseen, arg, got, suspect, kills>>

\* The second shm_open fails if the file was removed in between, or for another reason.
OpenExisting(p) ==
  /\ \/ Moves(p, "shm_open", "detached")
     \/ file # "absent" /\ Moves(p, "shm_open", "fstat")
  /\ UNCHANGED <<file, mutex, word, slot, unseen, arg, got, suspect, kills>>

\* A faulty wait that asks for more than the size.
FstatStrict(p) == pc[p] = "fstat" /\ UNCHANGED pvars

\* A faulty shm_api_init that looks at the size once and does not wait.
FstatOnce(p) ==
  /\ Moves(p, "fstat", IF file = "sized" THEN "mapped" ELSE "blind")
  /\ UNCHANGED <<file, mutex, word, slot, unseen, arg, got, suspect, kills>>

\* The size is there: the loop ends and the process maps the file, or mmap fails.
Fstat(p) ==
  /\ file = "sized"
  /\ \E to \in {"mapped", "detached"} : Moves(p, "fstat", to)
  /\ UNCHANGED <<file, mutex, word, slot, unseen, arg, got, suspect, kills>>

\* A failing fstat ends the loop too: the file is mapped whatever its size.
FstatFails(p) ==
  /\ \/ \E to \in {IF file = "sized" THEN "mapped" ELSE "blind", "detached"} :
          Moves(p, "fstat", to)
     \/ \E to \in {"blind_unlinked", "detached"} : Moves(p, "fstat_unlinked", to)
  /\ unseen' = unseen \cup {p}
  /\ UNCHANGED <<file, mutex, word, slot, arg, got, suspect, kills>>

\* A process that mapped a file without knowing its size closes it, or touches it: when
\* the size has come meanwhile it is a user like any other, else SIGBUS ends it.
BlindUse(p) ==
  /\ \/ file = "sized" /\ Moves(p, "blind", "mapped")
     \/ \E from \in Blind : Moves(p, from, "detached")
  /\ UNCHANGED <<file, mutex, word, slot, unseen, arg, got, suspect, kills>>

\* A faulty shm_api_init that initialises the mutex in every process.
InitReturnsAny(p) ==
  /\ \E from \in {"creating", "mapped"} : Moves(p, from, "idle")
  /\ mutex' = "ready" /\ word' = NoOwner
  /\ UNCHANGED <<file, slot, unseen, arg, got, suspect, kills>>

\* Only the creator initialises the mutex, and leaves it unlocked whatever its lock word
\* was; all others return at once.
InitReturns(p) ==
  /\ \/ Moves(p, "creating", "idle") /\ mutex' = "ready" /\ word' = NoOwner
     \/ Moves(p, "mapped", "idle") /\ UNCHANGED <<mutex, word>>
  /\ UNCHANGED <<file, slot, unseen, arg, got, suspect, kills>>

-----------------------------------------------------------------------------
(* safe_lock, shm_api_write, shm_api_read, shm_api_close. *)

Call(p) ==
  /\ \/ \E v \in Values : Moves(p, "idle", "write_lock") /\ arg' = [arg EXCEPT ![p] = v]
     \/ Moves(p, "idle", "read_lock") /\ UNCHANGED arg
     \/ Moves(p, "idle", "detached") /\ UNCHANGED arg
  /\ UNCHANGED <<file, mutex, word, slot, unseen, got, suspect, kills>>

\* A faulty safe_lock that takes the mutex without waiting for its owner.
SafeLockBarge(p) ==
  /\ Moves(p, "write_lock", "write_status") \/ Moves(p, "read_lock", "read_copy")
  /\ word' = p /\ suspect' = (suspect \/ word = OwnerDied)
  /\ UNCHANGED <<file, mutex, slot, unseen, arg, got, kills>>

\* EOWNERDEAD comes only from a mutex that was initialised as robust.
SafeLock(p) ==
  /\ word = NoOwner \/ (Robust /\ mutex = "ready" /\ word = OwnerDied)
  /\ Moves(p, "write_lock", "write_status") \/ Moves(p, "read_lock", "read_copy")
  /\ word' = p /\ suspect' = (suspect \/ word = OwnerDied)
  /\ UNCHANGED <<file, mutex, slot, unseen, arg, got, kills>>

\* The store of the status, and snprintf, which copies byte by byte.
Store(p) ==
  /\ \/ Moves(p, "write_status", "write_message") /\ slot' = <<arg[p], slot[2]>>
     \/ Moves(p, "write_message", "write_tail") /\ slot' = <<slot[1], Torn>>
     \/ Moves(p, "write_tail", "write_unlock") /\ slot' = <<slot[1], arg[p]>>
  /\ UNCHANGED <<file, mutex, word, unseen, arg, got, suspect, kills>>

Copy(p) ==
  /\ Moves(p, "read_copy", "read_unlock") /\ got' = [got EXCEPT ![p] = slot]
  /\ UNCHANGED <<file, mutex, word, slot, unseen, arg, suspect, kills>>

\* A faulty return that skips the unlock of a write.
UnlockRead(p) ==
  /\ \/ /\ Moves(p, "write_unlock", "idle") /\ suspect' = FALSE
        /\ arg' = [arg EXCEPT ![p] = Blank] /\ UNCHANGED word
     \/ Moves(p, "read_unlock", "idle") /\ word' = NoOwner /\ UNCHANGED <<suspect, arg>>
  /\ UNCHANGED <<file, mutex, slot, unseen, got, kills>>

\* pthread_mutex_unlock frees the lock word, whoever calls it.
Unlock(p) ==
  /\ \/ /\ Moves(p, "write_unlock", "idle") /\ suspect' = FALSE
        /\ arg' = [arg EXCEPT ![p] = Blank]
     \/ Moves(p, "read_unlock", "idle") /\ UNCHANGED <<suspect, arg>>
  /\ word' = NoOwner
  /\ UNCHANGED <<file, mutex, slot, unseen, got, kills>>

-----------------------------------------------------------------------------
\* A process is killed before it has mapped the sized file; the file stays.
KillOpening(p) ==
  /\ \E from \in Opening \cup Blind : Moves(p, from, "detached")
  /\ kills["before"] < MaxCrashes /\ kills' = [kills EXCEPT !["before"] = @ + 1]
  /\ UNCHANGED <<file, mutex, word, slot, unseen, arg, got, suspect>>

\* A process is killed after that; the lock word still names it if it held the mutex.
Kill(p) ==
  /\ \E from \in Attached : Moves(p, from, "detached")
  /\ kills["after"] < MaxCrashes /\ kills' = [kills EXCEPT !["after"] = @ + 1]
  /\ arg' = [arg EXCEPT ![p] = Blank] /\ got' = [got EXCEPT ![p] = <<Blank, Blank>>]
  /\ word' = IF word = p THEN OwnerDied ELSE word
  /\ UNCHANGED <<file, mutex, slot, unseen, suspect>>

\* What a process inside a library call does next.
PosixStep(p) ==
  \/ Ftruncate(p) \/ OpenExisting(p) \/ Fstat(p) \/ InitReturns(p)
  \/ SafeLock(p) \/ Store(p) \/ Copy(p) \/ Unlock(p)

PosixNext ==
  \E p \in Procs :
    \/ OpenExcl(p) \/ FstatFails(p) \/ BlindUse(p) \/ Call(p) \/ PosixStep(p)
    \/ KillOpening(p) \/ Kill(p)

PosixSpec == PosixInit /\ [][PosixNext]_pvars

\* A process that is inside a library call and able to go on does go on.  That fstat
\* may fail is no promise that it does.
PosixFairSpec == PosixSpec /\ \A p \in Procs : WF_pvars(PosixStep(p))

-----------------------------------------------------------------------------
(* Properties. *)

\* The segment of ShmApi is there when the file has its size, and a process is detached
\* from it until it has mapped the sized file.
Segment == IF file # "sized" THEN "absent" ELSE IF mutex = "zero" THEN "zeroed" ELSE "ready"

Place(at) == IF at \in Opening \cup Blind THEN "detached"
             ELSE IF at = "mapped" THEN "attaching" ELSE at

Places == [p \in Procs |-> Place(pc[p])]

SHM == INSTANCE ShmApi WITH
  InitInTime <- FALSE, segment <- Segment, spc <- Places,
  owner <- word, status_code <- slot[1], message <- slot[2], crashes <- kills["after"]

\* Whatever the order of the starts, whoever is killed and whatever fails in
\* shm_api_init, the POSIX library does nothing that the specification it shares with the
\* System V one does not allow when no sleep orders the starts
\* (docs/api/SHM_API_Specification.md:7; PosixSHM/src/shm_api.c).
PosixImplementsShmApi == SHM!ShmSpec

\* Nobody is left with a mapping that has no memory behind it, whoever is killed or fails
\* in ftruncate meanwhile, except a process whose own fstat failed: its loop ends without
\* the size (PosixSHM/src/shm_api.c:91-105; the comment there and shm_wrapper_design.md:62
\* speak of a wait until the size is there).
MappedSized ==
  \A p \in Procs : /\ pc[p] \in Attached => file = "sized"
                   /\ pc[p] \in Blind => p \in unseen

\* As in ShmApi: a late pthread_mutex_init is the only step that can break the exclusion
\* of safe_lock (PosixSHM/src/shm_api.c:31-50, 125).
ExclusionLostByInit == SHM!ExclusionLostByInit

\* As in ShmApi: the lock word never belongs to a process outside its critical section,
\* so once all have left, the exclusion is whole again (PosixSHM/src/shm_api.c:31-50, 147, 175).
OwnerInside == SHM!OwnerInside

\* The creator is gone, killed before ftruncate or without success in it: the size p
\* waits for never comes.
Orphaned(p) ==
  \/ pc[p] = "fstat_unlinked"
  \/ pc[p] = "fstat" /\ file = "empty" /\ \A q \in Procs : pc[q] # "ftruncate"

\* shm_api_init comes to its end in every process, except one that has opened a file
\* whose creator is gone: the size never comes, and unless fstat itself fails the loop
\* has no other exit (PosixSHM/src/shm_api.c:95-99).
InitEnds ==
  \A p \in Procs :
    pc[p] \in Opening \cup {"creating"} ~>
      (pc[p] \notin Opening \cup {"creating"} \/ Orphaned(p))

=============================================================================
