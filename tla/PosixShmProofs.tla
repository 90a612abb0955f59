--------------------------- MODULE PosixShmProofs ---------------------------
(***************************************************************************)
(* Proofs about PosixShm, for any set of processes, any set of values and  *)
(* either build of the mutex: nobody maps a file that has no size unless   *)
(* its own fstat failed, the library implements ShmApi, and its lock word  *)
(* is right whatever the order of the starts.                              *)
(***************************************************************************)
EXTENDS PosixShm, TLAPS

-----------------------------------------------------------------------------
(* The inductive invariant. *)

\* A creator before its ftruncate is alone, and the file it is about to size or to
\* remove is still empty.
OneSizer ==
  \A p \in Procs : pc[p] = "ftruncate" =>
    file = "empty" /\ \A q \in Procs : pc[q] = "ftruncate" => q = p

\* The mutex is initialised once, by the process that gave the file its size.
OneInit ==
  /\ file # "sized" => mutex = "zero"
  /\ \A p \in Procs : pc[p] = "creating" =>
       mutex = "zero" /\ \A q \in Procs : pc[q] = "creating" => q = p

PosixIInv == PosixTypeOK /\ OneSizer /\ OneInit /\ MappedSized

\* The first process finds nothing: no file, and no mutex.
LEMMA PosixInitially == PosixInit => PosixIInv
<1> SUFFICES ASSUME PosixInit PROVE PosixIInv
  OBVIOUS
<1>1. PosixTypeOK
  <2>1. 0 \in 0 .. MaxCrashes
    BY PosixAssumption
  <2>2. <<Blank, Blank>> \in Pairs
    BY Zenon DEF Pairs
  <2> QED
    BY <2>1, <2>2, Zenon DEF PosixInit, PosixTypeOK
<1>2. OneSizer /\ OneInit /\ MappedSized
  BY Zenon DEF PosixInit, OneSizer, OneInit, MappedSized, Attached, Blind, WriteBody, ReadBody
<1> QED
  BY <1>1, <1>2, Zenon DEF PosixIInv

\* One step per action: the types.
LEMMA PosixTypeStep == PosixTypeOK /\ [PosixNext]_pvars => PosixTypeOK'
<1> SUFFICES ASSUME PosixTypeOK, [PosixNext]_pvars PROVE PosixTypeOK'
  OBVIOUS
<1> DEFINE AllPlaces == {"detached"} \cup Opening \cup Blind \cup Attached
<1>0. /\ \A from, to : \A p \in Procs :
           to \in AllPlaces /\ Moves(p, from, to) => pc' \in [Procs -> AllPlaces]
      /\ \A v \in Values \cup {Blank} : v \in Values \cup {Blank, Torn}
      /\ <<Blank, Blank>> \in Pairs
  BY Zenon DEF PosixTypeOK, Moves, Pairs
<1>p. /\ {"detached", "ftruncate", "shm_open", "fstat", "fstat_unlinked", "blind",
          "blind_unlinked", "creating", "mapped", "idle", "write_lock", "read_lock"} \subseteq AllPlaces
      /\ {"write_status", "write_message", "write_tail", "write_unlock", "read_copy",
          "read_unlock"} \subseteq AllPlaces
  BY Zenon DEF Opening, Blind, Attached, WriteBody, ReadBody
<1> USE <1>0, <1>p DEF PosixTypeOK
<1> HIDE DEF AllPlaces
<1>1. ASSUME NEW p \in Procs, OpenExcl(p) PROVE PosixTypeOK'
  BY <1>1, Zenon DEF OpenExcl, AllPlaces
<1>2. ASSUME NEW p \in Procs, Ftruncate(p) PROVE PosixTypeOK'
  <2>1. pc' \in [Procs -> AllPlaces]
    BY <1>2, Zenon DEF Ftruncate, Unlinked, AllPlaces
  <2> QED
    BY <1>2, <2>1, Zenon DEF Ftruncate, AllPlaces
<1>3. ASSUME NEW p \in Procs, OpenExisting(p) \/ Fstat(p) PROVE PosixTypeOK'
  BY <1>3, Zenon DEF OpenExisting, Fstat, AllPlaces
<1>4. ASSUME NEW p \in Procs, FstatFails(p) \/ BlindUse(p) PROVE PosixTypeOK'
  BY <1>4, Zenon DEF FstatFails, BlindUse, AllPlaces
<1>5. ASSUME NEW p \in Procs, InitReturns(p) PROVE PosixTypeOK'
  BY <1>5, Zenon DEF InitReturns, AllPlaces
<1>6. ASSUME NEW p \in Procs, Call(p) PROVE PosixTypeOK'
  BY <1>6, Zenon DEF Call, AllPlaces
<1>7. ASSUME NEW p \in Procs, SafeLock(p) PROVE PosixTypeOK'
  BY <1>7, Zenon DEF SafeLock, AllPlaces
<1>8. ASSUME NEW p \in Procs, Store(p) PROVE PosixTypeOK'
  <2>1. slot' \in Pairs
    BY <1>8 DEF Store, Pairs
  <2> QED
    BY <1>8, <2>1, Zenon DEF Store, AllPlaces
<1>9. ASSUME NEW p \in Procs, Copy(p) \/ Unlock(p) PROVE PosixTypeOK'
  BY <1>9, Zenon DEF Copy, Unlock, AllPlaces
<1>10. ASSUME NEW p \in Procs, KillOpening(p) \/ Kill(p) PROVE PosixTypeOK'
  <2>1. kills' \in [{"before", "after"} -> 0 .. MaxCrashes]
    BY <1>10, PosixAssumption DEF KillOpening, Kill
  <2>2. pc' \in [Procs -> AllPlaces]
    BY <1>10, Zenon DEF KillOpening, Kill
  <2>3. word' \in Procs \cup {NoOwner, OwnerDied}
    BY <1>10, Zenon DEF KillOpening, Kill
  <2>4. arg' \in [Procs -> Values \cup {Blank}] /\ got' \in [Procs -> Pairs]
    BY <1>10, Zenon DEF KillOpening, Kill
  <2> QED
    BY <1>10, <2>1, <2>2, <2>3, <2>4, Zenon DEF KillOpening, Kill, AllPlaces
<1>11. CASE UNCHANGED pvars
  BY <1>11, Zenon DEF pvars, AllPlaces
<1> QED
  BY <1>1, <1>2, <1>3, <1>4, <1>5, <1>6, <1>7, <1>8, <1>9, <1>10, <1>11, Zenon
     DEF PosixNext, PosixStep

\* A failing or killed creator never takes the file away from under a mapping, and only
\* one process initialises the mutex.
LEMMA PosixFileStep == PosixIInv /\ [PosixNext]_pvars => OneSizer' /\ OneInit' /\ MappedSized'
<1> SUFFICES ASSUME PosixIInv, [PosixNext]_pvars PROVE OneSizer' /\ OneInit' /\ MappedSized'
  OBVIOUS
<1> DEFINE Goal == OneSizer' /\ OneInit' /\ MappedSized'
<1> USE DEF PosixIInv, PosixTypeOK, OneSizer, OneInit, MappedSized, Moves, Opening, Blind,
            Attached, WriteBody, ReadBody
<1>1. ASSUME NEW p \in Procs, OpenExcl(p) PROVE Goal
  BY <1>1 DEF OpenExcl
<1>2. ASSUME NEW p \in Procs, Ftruncate(p) PROVE Goal
  BY <1>2 DEF Ftruncate, Unlinked
<1>3. ASSUME NEW p \in Procs, OpenExisting(p) \/ Fstat(p) PROVE Goal
  BY <1>3 DEF OpenExisting, Fstat
<1>4. ASSUME NEW p \in Procs, FstatFails(p) \/ BlindUse(p) PROVE Goal
  BY <1>4 DEF FstatFails, BlindUse
<1>5. ASSUME NEW p \in Procs, InitReturns(p) PROVE Goal
  BY <1>5 DEF InitReturns
<1>6. ASSUME NEW p \in Procs, Call(p) \/ SafeLock(p) \/ Store(p) \/ Copy(p) \/ Unlock(p)
      PROVE  Goal
  BY <1>6 DEF Call, SafeLock, Store, Copy, Unlock
<1>7. ASSUME NEW p \in Procs, KillOpening(p) \/ Kill(p) PROVE Goal
  BY <1>7 DEF KillOpening, Kill
<1>8. CASE UNCHANGED pvars
  BY <1>8, Zenon DEF pvars
<1> HIDE DEF Goal
<1>9. Goal
  BY <1>1, <1>2, <1>3, <1>4, <1>5, <1>6, <1>7, <1>8, Zenon DEF PosixNext, PosixStep, Goal
<1> QED
  BY <1>9, Zenon DEF Goal

\* The invariant holds throughout.
LEMMA PosixInvariant == PosixSpec => []PosixIInv
<1>1. PosixIInv /\ [PosixNext]_pvars => PosixIInv'
  BY PosixTypeStep, PosixFileStep, Zenon DEF PosixIInv
<1> QED
  BY PosixInitially, <1>1, PTL DEF PosixSpec

\* The variables keep their types: the counts of kills, the places, the slot.
THEOREM PosixType == PosixSpec => []PosixTypeOK
BY PosixInvariant, PTL DEF PosixIInv

\* Whoever fails or is killed in shm_api_init, no process is left with a mapping that has no
\* memory behind it unless its own fstat failed.
THEOREM PosixMappedSized == PosixSpec => []MappedSized
BY PosixInvariant, PTL DEF PosixIInv

-----------------------------------------------------------------------------
(* The refinement of ShmApi. *)

\* What the places of this library are in ShmApi.
LEMMA PlaceIs ==
  /\ \A at \in Opening \cup Blind \cup {"detached"} : Place(at) = "detached"
  /\ Place("mapped") = "attaching"
  /\ \A at \in Attached \ {"mapped"} : Place(at) = at
BY Zenon DEF Place, Opening, Blind, Attached, WriteBody, ReadBody

\* A move of one process is a move of that process in ShmApi.
LEMMA MovesPlace ==
  ASSUME PosixTypeOK, NEW p \in Procs, NEW from, NEW to, Moves(p, from, to)
  PROVE  Places[p] = Place(from) /\ Places' = [Places EXCEPT ![p] = Place(to)]
BY Zenon DEF PosixTypeOK, Moves, Places

\* It is no move there if the two places are the same.
LEMMA StaysPut ==
  ASSUME PosixTypeOK, NEW p \in Procs, NEW from, NEW to, Moves(p, from, to),
         Place(from) = Place(to)
  PROVE  Places' = Places
<1>1. Places[p] = Place(to) /\ Places' = [Places EXCEPT ![p] = Place(to)]
  BY MovesPlace, Zenon
<1> QED
  BY <1>1, Zenon DEF Places

\* The steps of shm_api_init before the file has its size change nothing there.
LEMMA OpeningStutters ==
  ASSUME PosixIInv, NEW p \in Procs,
         OpenExcl(p) \/ OpenExisting(p) \/ KillOpening(p)
  PROVE  UNCHANGED SHM!shmVars
<1>1. Places' = Places
  <2>1. \A at \in {"detached", "ftruncate", "shm_open", "fstat"} \cup Opening \cup Blind :
          Place(at) = "detached"
    BY PlaceIs, Zenon DEF Opening
  <2>2. CASE OpenExcl(p)
    BY <2>1, <2>2, StaysPut, Zenon DEF OpenExcl, PosixIInv
  <2>3. CASE OpenExisting(p)
    BY <2>1, <2>3, StaysPut, Zenon DEF OpenExisting, PosixIInv
  <2>4. CASE KillOpening(p)
    BY <2>1, <2>4, StaysPut, Zenon DEF KillOpening, PosixIInv
  <2> QED
    BY <2>2, <2>3, <2>4
<1>2. Segment' = Segment
  BY Zenon DEF OpenExcl, OpenExisting, KillOpening, Segment
<1>3. UNCHANGED <<word, slot, arg, got, suspect>>
  BY Zenon DEF OpenExcl, OpenExisting, KillOpening
<1>4. kills["after"]' = kills["after"]
  BY Zenon DEF OpenExcl, OpenExisting, KillOpening, PosixIInv, PosixTypeOK
<1> QED
  BY <1>1, <1>2, <1>3, <1>4, Zenon DEF SHM!shmVars

\* The step that gives the file its size creates the segment; one that fails removes a
\* file that was no segment yet.
LEMMA FtruncateCreates ==
  ASSUME PosixIInv, NEW p \in Procs, Ftruncate(p)
  PROVE  SHM!ShmCreate(p) \/ UNCHANGED SHM!shmVars
<1>1. UNCHANGED <<word, slot, arg, got, suspect, kills>>
  BY Zenon DEF Ftruncate
<1>2. file = "empty" /\ mutex = "zero" /\ mutex' = mutex
  BY Zenon DEF Ftruncate, Moves, PosixIInv, OneSizer, OneInit
<1>3. CASE file' = "sized"
  <2>1. Segment = "absent" /\ Segment' = "zeroed"
    BY <1>2, <1>3, Zenon DEF Segment
  <2>2. PICK to \in {"creating", "detached"} : Moves(p, "ftruncate", to)
    BY <1>3, Zenon DEF Ftruncate
  <2>3. SHM!Goto(p, "detached", to)
    <3>1. Place("ftruncate") = "detached" /\ Place(to) = to
      BY PlaceIs, Zenon DEF Opening, Attached
    <3> QED
      BY <2>2, <3>1, MovesPlace, Zenon DEF SHM!Goto, PosixIInv
  <2> QED
    BY <1>1, <2>1, <2>3, Zenon DEF SHM!ShmCreate
<1>4. CASE file' = "absent"
  <2>1. Segment' = Segment
    BY <1>2, <1>4, Zenon DEF Segment
  <2>2. \A q \in Procs : Place(pc'[q]) = Place(pc[q])
    <3>1. pc[p] = "ftruncate"
          /\ pc' = [q \in Procs |-> IF q = p THEN "detached" ELSE Unlinked(pc[q])]
      BY <1>4, Zenon DEF Ftruncate
    <3>2. Place("ftruncate") = Place("detached") /\ \A at : Place(Unlinked(at)) = Place(at)
      BY PlaceIs, Zenon DEF Opening, Blind, Unlinked
    <3> QED
      BY <3>1, <3>2, Zenon
  <2> QED
    BY <1>1, <2>1, <2>2, Zenon DEF SHM!shmVars, Places
<1> QED
  BY <1>3, <1>4, Zenon DEF Ftruncate

\* To map the file that has its size is to attach; anything else that ends the wait, or
\* the use of a mapping without memory behind it, changes nothing there.
LEMMA FstatAttaches ==
  ASSUME PosixIInv, NEW p \in Procs, Fstat(p) \/ FstatFails(p) \/ BlindUse(p)
  PROVE  SHM!ShmAttach(p) \/ UNCHANGED SHM!shmVars
<1>1. UNCHANGED <<file, mutex, word, slot, arg, got, suspect, kills>>
  BY Zenon DEF Fstat, FstatFails, BlindUse
<1>2. Segment' = Segment
  BY <1>1, Zenon DEF Segment
<1>3. PICK from \in Opening \cup Blind :
        \/ file = "sized" /\ Moves(p, from, "mapped")
        \/ \E to \in Blind \cup {"detached"} : Moves(p, from, to)
  BY Zenon DEF Fstat, FstatFails, BlindUse, Opening, Blind
<1>4. Place(from) = "detached" /\ \A to \in Blind \cup {"detached"} : Place(to) = "detached"
  BY PlaceIs, Zenon
<1>5. CASE file = "sized" /\ Moves(p, from, "mapped")
  <2>1. SHM!Goto(p, "detached", "attaching")
    <3>1. Places[p] = Place(from) /\ Places' = [Places EXCEPT ![p] = Place("mapped")]
      BY <1>5, MovesPlace, Zenon DEF PosixIInv
    <3> QED
      BY <1>4, <3>1, PlaceIs, Zenon DEF SHM!Goto
  <2>2. Segment # "absent"
    BY <1>5, Zenon DEF Segment
  <2> QED
    BY <1>1, <1>2, <2>1, <2>2, Zenon DEF SHM!ShmAttach
<1>6. CASE \E to \in Blind \cup {"detached"} : Moves(p, from, to)
  <2>1. Places' = Places
    BY <1>4, <1>6, StaysPut, Zenon DEF PosixIInv
  <2> QED
    BY <1>1, <1>2, <2>1, Zenon DEF SHM!shmVars
<1> QED
  BY <1>3, <1>5, <1>6, Zenon

\* Between two places that ShmApi has under the same name a move is a move there.
LEMMA SameMove ==
  ASSUME PosixIInv, NEW p \in Procs, NEW from \in Attached \ {"mapped"},
         NEW to \in (Attached \ {"mapped"}) \cup {"detached"}, Moves(p, from, to)
  PROVE  SHM!Goto(p, from, to)
<1>1. Place(from) = from /\ Place(to) = to
  BY PlaceIs, Zenon
<1> QED
  BY <1>1, MovesPlace, Zenon DEF SHM!Goto, PosixIInv

\* The rest of the library does what ShmApi says, action by action.
LEMMA CallsAreShmApi ==
  ASSUME PosixIInv, NEW p \in Procs
  PROVE  /\ InitReturns(p) => SHM!MutexInit(p) \/ SHM!AttachDone(p)
         /\ Call(p) => \/ SHM!BeginRead(p) \/ SHM!ShmClose(p)
                       \/ \E v \in Values : SHM!BeginWrite(p, v)
         /\ SafeLock(p) => SHM!SafeLock(p)
         /\ Store(p) => SHM!WriteStatus(p) \/ SHM!WriteMessage(p)
         /\ Copy(p) => SHM!ReadCopy(p)
         /\ Unlock(p) => SHM!WriteUnlock(p) \/ SHM!ReadUnlock(p)
<1> DEFINE Named == Attached \ {"mapped"}
<1>n. /\ "idle" \in Named /\ "creating" \in Named /\ "write_lock" \in Named
      /\ "read_lock" \in Named /\ "write_status" \in Named /\ "write_message" \in Named
      /\ "write_tail" \in Named /\ "write_unlock" \in Named /\ "read_copy" \in Named
      /\ "read_unlock" \in Named
  BY Zenon DEF Attached, WriteBody, ReadBody
<1>m. \A from \in Named, to \in Named \cup {"detached"} :
        Moves(p, from, to) => SHM!Goto(p, from, to)
  BY SameMove, Zenon
<1>s. UNCHANGED <<file, mutex>> => Segment' = Segment
  BY Zenon DEF Segment
<1> HIDE DEF Named
<1> USE <1>n, <1>m, <1>s
<1>1. ASSUME InitReturns(p) PROVE SHM!MutexInit(p) \/ SHM!AttachDone(p)
  <2>1. CASE Moves(p, "creating", "idle")
    <3>1. file' = "sized" /\ mutex' = "ready" /\ word' = NoOwner
      BY <1>1, <2>1, Zenon DEF InitReturns, Moves, PosixIInv, MappedSized, Attached
    <3>2. Segment' = "ready"
      BY <3>1, Zenon DEF Segment
    <3> QED
      BY <1>1, <2>1, <3>1, <3>2, Zenon DEF InitReturns, SHM!MutexInit
  <2>2. CASE Moves(p, "mapped", "idle")
    <3>1. SHM!Goto(p, "attaching", "idle")
      <4>1. Places[p] = Place("mapped") /\ Places' = [Places EXCEPT ![p] = Place("idle")]
        BY <2>2, MovesPlace, Zenon DEF PosixIInv
      <4>2. Place("mapped") = "attaching" /\ Place("idle") = "idle"
        BY PlaceIs, Zenon DEF Named
      <4> QED
        BY <4>1, <4>2, Zenon DEF SHM!Goto
    <3>2. UNCHANGED <<file, mutex, word, slot, arg, got, suspect, kills>>
      BY <1>1, <2>2, Zenon DEF InitReturns, Moves
    <3> QED
      BY <3>1, <3>2, Zenon DEF SHM!AttachDone
  <2> QED
    BY <1>1, <2>1, <2>2, Zenon DEF InitReturns
<1>2. ASSUME Call(p)
      PROVE  \/ SHM!BeginRead(p) \/ SHM!ShmClose(p)
             \/ \E v \in Values : SHM!BeginWrite(p, v)
  BY <1>2, Zenon DEF Call, SHM!BeginRead, SHM!ShmClose, SHM!BeginWrite
<1>3. ASSUME SafeLock(p) PROVE SHM!SafeLock(p)
  <2>1. SHM!Locked(p)
    BY <1>3, Zenon DEF SafeLock, SHM!Locked
  <2>2. word = NoOwner \/ SHM!Recoverable
    BY <1>3, Zenon DEF SafeLock, SHM!Recoverable, Segment, Moves, PosixIInv, MappedSized,
                       Attached
  <2> QED
    BY <1>3, <2>1, <2>2, Zenon DEF SafeLock, SHM!SafeLock
<1>4. ASSUME Store(p) PROVE SHM!WriteStatus(p) \/ SHM!WriteMessage(p)
  BY <1>4 DEF Store, SHM!WriteStatus, SHM!WriteMessage, Torn, SHM!Torn
<1>5. ASSUME Copy(p) PROVE SHM!ReadCopy(p)
  <2>1. slot = <<slot[1], slot[2]>>
    BY DEF PosixIInv, PosixTypeOK, Pairs
  <2> QED
    BY <1>5, <2>1, Zenon DEF Copy, SHM!ReadCopy
<1>6. ASSUME Unlock(p) PROVE SHM!WriteUnlock(p) \/ SHM!ReadUnlock(p)
  BY <1>6, Zenon DEF Unlock, SHM!WriteUnlock, SHM!ReadUnlock, Blank, SHM!Blank
<1> QED
  BY <1>1, <1>2, <1>3, <1>4, <1>5, <1>6, Zenon

\* A kill after the file was mapped is a kill there.
LEMMA KillIsCrash ==
  ASSUME PosixIInv, NEW p \in Procs, Kill(p)
  PROVE  SHM!Crash(p)
<1>1. Places[p] # "detached" /\ Places' = [Places EXCEPT ![p] = "detached"]
  <2>1. PICK from \in Attached : Moves(p, from, "detached")
    BY Zenon DEF Kill
  <2>2. Place(from) # "detached" /\ Place("detached") = "detached"
    BY PlaceIs, Zenon DEF Attached, WriteBody, ReadBody
  <2> QED
    BY <2>1, <2>2, MovesPlace, Zenon DEF PosixIInv
<1>2. kills["after"] < MaxCrashes /\ kills["after"]' = kills["after"] + 1
  BY DEF Kill, PosixIInv, PosixTypeOK
<1>3. Segment' = Segment
  BY Zenon DEF Kill, Segment
<1> QED
  BY <1>1, <1>2, <1>3, Zenon DEF Kill, SHM!Crash, Blank, SHM!Blank

\* Each step of the POSIX library is a step of ShmApi or leaves its state alone.
LEMMA PosixSteps == PosixIInv /\ [PosixNext]_pvars => [SHM!ShmNext]_SHM!shmVars
<1> SUFFICES ASSUME PosixIInv, [PosixNext]_pvars PROVE [SHM!ShmNext]_SHM!shmVars
  OBVIOUS
<1>1. ASSUME NEW p \in Procs, OpenExcl(p) \/ OpenExisting(p) \/ KillOpening(p)
      PROVE  UNCHANGED SHM!shmVars
  BY <1>1, OpeningStutters, Zenon
<1>2. ASSUME NEW p \in Procs, Ftruncate(p) PROVE SHM!ShmCreate(p) \/ UNCHANGED SHM!shmVars
  BY <1>2, FtruncateCreates, Zenon
<1>3. ASSUME NEW p \in Procs, Fstat(p) \/ FstatFails(p) \/ BlindUse(p)
      PROVE  SHM!ShmAttach(p) \/ UNCHANGED SHM!shmVars
  BY <1>3, FstatAttaches, Zenon
<1>4. ASSUME NEW p \in Procs,
             \/ InitReturns(p) \/ Call(p) \/ SafeLock(p) \/ Store(p) \/ Copy(p) \/ Unlock(p)
      PROVE  SHM!ShmCall(p) \/ SHM!ShmStep(p)
  BY <1>4, CallsAreShmApi, Zenon DEF SHM!ShmCall, SHM!ShmStep
<1>5. ASSUME NEW p \in Procs, Kill(p) PROVE SHM!Crash(p)
  BY <1>5, KillIsCrash, Zenon
<1>6. ASSUME UNCHANGED pvars PROVE UNCHANGED SHM!shmVars
  BY <1>6, Zenon DEF pvars, SHM!shmVars, Segment, Places
<1>7. \A p \in Procs : SHM!ShmCreate(p) \/ SHM!ShmAttach(p) => SHM!ShmCall(p)
  BY Zenon DEF SHM!ShmCall
<1>8. \A p \in Procs : SHM!ShmCall(p) \/ SHM!ShmStep(p) \/ SHM!Crash(p) => SHM!ShmNext
  BY Zenon DEF SHM!ShmNext
<1> QED
  BY <1>1, <1>2, <1>3, <1>4, <1>5, <1>6, <1>7, <1>8, Zenon DEF PosixNext, PosixStep

\* Both builds share one specification: whatever the order of the starts, whoever is killed
\* and whatever fails in shm_api_init, the POSIX library implements ShmApi.
THEOREM PosixRefinement == PosixSpec => PosixImplementsShmApi
<1>1. PosixInit => SHM!ShmInit
  <2> SUFFICES ASSUME PosixInit PROVE SHM!ShmInit
    OBVIOUS
  <2>1. Segment = "absent" /\ Places = [p \in Procs |-> "detached"]
    BY PlaceIs, Zenon DEF PosixInit, Segment, Places
  <2>2. slot[1] = 0 /\ slot[2] = 0
    BY DEF PosixInit, Blank
  <2> QED
    BY <2>1, <2>2, Zenon DEF PosixInit, SHM!ShmInit, Blank, SHM!Blank
<1> QED
  BY <1>1, PosixSteps, PosixInvariant, PTL DEF PosixSpec, PosixImplementsShmApi, SHM!ShmSpec

-----------------------------------------------------------------------------
(* The lock word, without any assumption on the order of the starts. *)

Body == WriteBody \cup ReadBody
WordInside == \A p \in Procs : word = p => pc[p] \in Body
WordExcludes == \A p \in Procs : (pc[p] \in Body) <=> (word = p)

\* The critical section of ShmApi is the code between lock and unlock of this library.
LEMMA BodyIsCritical ==
  ASSUME PosixTypeOK
  PROVE  (OwnerInside <=> WordInside) /\ (SHM!Exclusive <=> WordExcludes)
<1>1. \A p \in Procs : (Places[p] \in SHM!Critical) <=> (pc[p] \in Body)
  <2> SUFFICES ASSUME NEW p \in Procs PROVE (Place(pc[p]) \in SHM!Critical) <=> (pc[p] \in Body)
    BY Zenon DEF Places
  <2>1. SHM!Critical = Body
    BY Zenon DEF SHM!Critical, SHM!Writing, SHM!Reading, Body, WriteBody, ReadBody
  <2> QED
    BY <2>1, Zenon DEF Place, Body, WriteBody, ReadBody, Opening, Blind
<1> QED
  BY <1>1, Zenon DEF OwnerInside, SHM!OwnerInside, SHM!Exclusive, WordInside, WordExcludes

\* No step gives the lock word to a process outside its critical section, and none but
\* pthread_mutex_init breaks the exclusion.
LEMMA WordStep ==
  ASSUME PosixIInv, [PosixNext]_pvars
  PROVE  /\ WordInside => WordInside'
         /\ WordExcludes => WordExcludes' \/ (Segment = "zeroed" /\ Segment' = "ready")
<1> DEFINE Goal == /\ WordInside => WordInside'
                   /\ WordExcludes => WordExcludes' \/ (Segment = "zeroed" /\ Segment' = "ready")
<1> USE PosixAssumption
<1> USE DEF PosixIInv, PosixTypeOK, Moves, WordInside, WordExcludes, Body, WriteBody, ReadBody
<1>1. ASSUME NEW p \in Procs, OpenExcl(p) \/ OpenExisting(p) \/ KillOpening(p) PROVE Goal
  BY <1>1 DEF OpenExcl, OpenExisting, KillOpening, Opening, Blind
<1>2. ASSUME NEW p \in Procs, Ftruncate(p) PROVE Goal
  BY <1>2 DEF Ftruncate, Unlinked
<1>3. ASSUME NEW p \in Procs, Fstat(p) \/ FstatFails(p) \/ BlindUse(p) PROVE Goal
  BY <1>3 DEF Fstat, FstatFails, BlindUse, Blind
<1>4. ASSUME NEW p \in Procs, InitReturns(p) PROVE Goal
  <2>1. CASE pc[p] = "creating"
    BY <1>4, <2>1 DEF InitReturns, OneInit, MappedSized, Attached, Segment
  <2>2. CASE pc[p] = "mapped"
    BY <1>4, <2>2 DEF InitReturns
  <2> QED
    BY <1>4, <2>1, <2>2 DEF InitReturns
<1>5. ASSUME NEW p \in Procs, Call(p) PROVE Goal
  BY <1>5 DEF Call
<1>6. ASSUME NEW p \in Procs, SafeLock(p) PROVE Goal
  BY <1>6 DEF SafeLock
<1>7. ASSUME NEW p \in Procs, Store(p) \/ Copy(p) PROVE Goal
  BY <1>7 DEF Store, Copy
<1>8. ASSUME NEW p \in Procs, Unlock(p) PROVE Goal
  BY <1>8 DEF Unlock
<1>9. ASSUME NEW p \in Procs, Kill(p) PROVE Goal
  BY <1>9 DEF Kill
<1>10. ASSUME UNCHANGED pvars PROVE Goal
  BY <1>10, Zenon DEF pvars, Segment
<1> HIDE DEF Goal
<1>11. Goal
  BY <1>1, <1>2, <1>3, <1>4, <1>5, <1>6, <1>7, <1>8, <1>9, <1>10, Zenon
     DEF PosixNext, PosixStep
<1> QED
  BY <1>11, Zenon DEF Goal

\* The lock word never names a process outside its critical section.
THEOREM PosixOwnerInside == PosixSpec => []OwnerInside
<1>1. PosixInit => WordInside
  BY PosixAssumption, Zenon DEF PosixInit, WordInside
<1>2. PosixIInv /\ WordInside /\ [PosixNext]_pvars => WordInside'
  BY WordStep, Zenon
<1>3. PosixIInv /\ WordInside => OwnerInside
  BY BodyIsCritical, Zenon DEF PosixIInv
<1> QED
  BY <1>1, <1>2, <1>3, PosixInvariant, PTL DEF PosixSpec

\* Only a late pthread_mutex_init breaks the exclusion of safe_lock.
THEOREM PosixExclusionLostByInit == PosixSpec => ExclusionLostByInit
<1>1. PosixIInv => (SHM!Exclusive <=> WordExcludes)
  BY BodyIsCritical, Zenon DEF PosixIInv
<1>2. PosixIInv' => (SHM!Exclusive' <=> WordExcludes')
  BY <1>1, PTL
<1>3. PosixIInv /\ PosixIInv' /\ [PosixNext]_pvars =>
        [SHM!Exclusive => SHM!Exclusive' \/ (Segment = "zeroed" /\ Segment' = "ready")]_SHM!shmVars
  BY <1>1, <1>2, WordStep, Zenon
<1> QED
  BY <1>3, PosixInvariant, PTL DEF PosixSpec, ExclusionLostByInit, SHM!ExclusionLostByInit

=============================================================================
