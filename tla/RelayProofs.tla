---------------------------- MODULE RelayProofs -----------------------------
(***************************************************************************)
(* Proofs about Relay, for any number of datagrams, kills and starts and   *)
(* any capacity of the message queue.                                      *)
(***************************************************************************)
EXTENDS Relay, ShmApiProofs

-----------------------------------------------------------------------------
(* What each step does to the places of the two processes, to the slot and to the
   relay's own variables: lemmas cited in place of the definitions of the actions. *)

\* Every step of the Collector and of the Router's worker that touches the
\* shared memory is a step of the library.
LEMMA ShmSteps == [Next]_vars => [ShmNext]_shmVars
<1> SUFFICES ASSUME [Next]_vars PROVE [ShmNext]_shmVars
  OBVIOUS
<1>1. C \in Procs /\ R \in Procs
  BY RelayAssumption, Zenon
<1> USE <1>1 DEF ShmNext, ShmCall, ShmStep
<1>2. CASE CInit
  BY <1>2, Zenon DEF CInit, ShmInitStep
<1>3. CASE RInit
  BY <1>3, Zenon DEF RInit, ShmInitStep
<1>4. CASE CWrite
  BY <1>4, Zenon DEF CWrite
<1>5. CASE RRead
  BY <1>5, Zenon DEF RRead
<1>6. CASE CRecv
  BY <1>6, Zenon DEF CRecv
<1>7. CASE RRecv
  BY <1>7, Zenon DEF RRecv
<1>8. CASE CExit \/ RExit
  BY <1>8, Zenon DEF CExit, RExit
<1>9. CASE CCrash \/ RCrash
  BY <1>9, Zenon DEF CCrash, RCrash
<1>10. CASE \/ CStart \/ CSecondStart \/ RStart \/ CNotify \/ RConnect \/ RSend
            \/ RQuit \/ ViewerClose \/ UNCHANGED vars
  BY <1>10, Zenon DEF CStart, CSecondStart, RStart, CNotify, RConnect, RSend, RQuit,
               ViewerClose, vars
<1> QED
  BY <1>2, <1>3, <1>4, <1>5, <1>6, <1>7, <1>8, <1>9, <1>10, Zenon
     DEF Next, CStep, RStep, Environment

\* The two users of the shared memory.
LEMMA Parties == Procs = {C, R} /\ C \in Procs /\ R \in Procs /\ C # R
BY RelayAssumption, Zenon DEF C, R

\* What a call of the library by one process does to its own place, and what it
\* leaves alone of the other's.
LEMMA Moves ==
  ASSUME ShmTypeOK, NEW p \in Procs, NEW from, NEW to, Goto(p, from, to)
  PROVE  /\ spc[p] = from /\ spc'[p] = to
         /\ \A q \in Procs \ {p} : spc'[q] = spc[q]
BY Zenon DEF Goto, ShmTypeOK

\* The effect of one step of shm_api_init.
LEMMA InitEffect ==
  ASSUME ShmTypeOK, NEW p \in Procs, ShmInitStep(p)
  PROVE  /\ spc[p] \in Outside /\ spc'[p] \in Outside \cup {"idle"}
         /\ \A q \in Procs \ {p} : spc'[q] = spc[q]
         /\ owner' = owner \/ (spc[p] = "creating" /\ owner' = NoOwner)
         /\ UNCHANGED <<status_code, message, arg, got>>
<1>1. CASE ShmCreate(p)
  BY <1>1, Moves, Zenon DEF ShmCreate, Outside
<1>2. CASE ShmAttach(p)
  BY <1>2, Moves, Zenon DEF ShmAttach, Outside
<1>3. CASE MutexInit(p)
  BY <1>3, Moves, Zenon DEF MutexInit, Outside
<1>4. CASE AttachDone(p)
  BY <1>4, Moves, Zenon DEF AttachDone, Outside
<1> QED
  BY <1>1, <1>2, <1>3, <1>4, Zenon DEF ShmInitStep

\* The effect of shm_api_close.
LEMMA CloseEffect ==
  ASSUME ShmTypeOK, NEW p \in Procs, ShmClose(p)
  PROVE  /\ spc[p] = "idle" /\ spc'[p] = "detached"
         /\ \A q \in Procs \ {p} : spc'[q] = spc[q]
         /\ UNCHANGED <<owner, status_code, message, arg, got>>
BY Moves, Zenon DEF ShmClose

\* The effect of a kill.
LEMMA CrashEffect ==
  ASSUME ShmTypeOK, NEW p \in Procs, Crash(p)
  PROVE  /\ spc'[p] = "detached"
         /\ \A q \in Procs \ {p} : /\ spc'[q] = spc[q] /\ arg'[q] = arg[q]
                                  /\ got'[q] = got[q]
         /\ owner' = IF owner = p THEN OwnerDied ELSE owner
         /\ UNCHANGED <<status_code, message>>
BY Zenon DEF Crash, ShmTypeOK

\* The effect of a step of the Collector inside shm_api_write.
LEMMA WriteEffect ==
  ASSUME ShmTypeOK, Control, CWrite
  PROVE  /\ spc'[R] = spc[R] /\ UNCHANGED got
         /\ \/ /\ spc[C] = "write_lock" /\ spc'[C] = "write_status"
               /\ owner = NoOwner /\ owner' = C
               /\ UNCHANGED <<status_code, message, arg, cpc, published>>
            \/ /\ spc[C] = "write_status" /\ spc'[C] = "write_message"
               /\ UNCHANGED <<owner, message, arg, cpc, published>>
            \/ /\ spc[C] \in {"write_message", "write_tail"}
               /\ spc'[C] \in {"write_tail", "write_unlock"}
               /\ UNCHANGED <<owner, status_code, arg, cpc, published>>
            \/ /\ spc[C] = "write_unlock" /\ spc'[C] = "idle"
               /\ cpc' = "notify" /\ published' = arg[C]
               /\ UNCHANGED <<status_code, message>>
<1> USE Parties
<1>1. spc[C] \in {"write_lock"} \cup Writing
  BY Zenon DEF CWrite, Control
<1>2. CASE SafeLock(C) /\ UNCHANGED <<cpc, published>>
  <2>1. Goto(C, "write_lock", "write_status")
    BY <1>1, <1>2, Zenon DEF SafeLock, Locked, Goto, Writing
  <2>2. owner = NoOwner
    BY <1>2, RelayAssumption, Zenon DEF SafeLock, Recoverable
  <2> QED
    BY <1>2, <2>1, <2>2, Moves DEF SafeLock
<1>3. CASE WriteStatus(C) /\ UNCHANGED <<cpc, published>>
  BY <1>3, Moves DEF WriteStatus
<1>4. CASE WriteMessage(C) /\ UNCHANGED <<cpc, published>>
  BY <1>4, Moves DEF WriteMessage
<1>5. CASE WriteUnlock(C) /\ cpc' = "notify" /\ published' = arg[C]
  BY <1>5, Moves DEF WriteUnlock
<1> QED
  BY <1>2, <1>3, <1>4, <1>5, Zenon DEF CWrite

\* The effect of a step of the worker inside shm_api_read.
LEMMA ReadEffect ==
  ASSUME ShmTypeOK, Control, RRead
  PROVE  /\ spc'[C] = spc[C] /\ UNCHANGED <<status_code, message, arg>>
         /\ \/ /\ spc[R] = "read_lock" /\ spc'[R] = "read_copy"
               /\ owner = NoOwner /\ owner' = R /\ UNCHANGED <<got, rpc, caughtUp>>
            \/ /\ spc[R] = "read_copy" /\ spc'[R] = "read_unlock"
               /\ got'[R] = <<status_code, message>> /\ caughtUp' = published
               /\ UNCHANGED <<owner, rpc>>
            \/ /\ spc[R] = "read_unlock" /\ spc'[R] = "idle" /\ rpc' = "send"
               /\ owner' = NoOwner /\ UNCHANGED <<got, caughtUp>>
<1> USE Parties
<1>1. spc[R] \in {"read_lock"} \cup Reading
  BY Zenon DEF RRead, Control
<1>2. CASE SafeLock(R) /\ UNCHANGED <<rpc, caughtUp>>
  <2>1. Goto(R, "read_lock", "read_copy")
    BY <1>1, <1>2, Zenon DEF SafeLock, Locked, Goto, Reading
  <2>2. owner = NoOwner
    BY <1>2, RelayAssumption, Zenon DEF SafeLock, Recoverable
  <2> QED
    BY <1>2, <2>1, <2>2, Moves DEF SafeLock
<1>3. CASE ReadCopy(R) /\ caughtUp' = published /\ UNCHANGED rpc
  <2>1. got'[R] = <<status_code, message>>
    BY <1>3, Zenon DEF ReadCopy, ShmTypeOK
  <2> QED
    BY <1>3, <2>1, Moves DEF ReadCopy
<1>4. CASE ReadUnlock(R) /\ rpc' = "send" /\ UNCHANGED caughtUp
  BY <1>4, Moves DEF ReadUnlock
<1> QED
  BY <1>2, <1>3, <1>4, Zenon DEF RRead

\* The effect of a step of the Collector's start inside shm_api_init.
LEMMA CInitEffect ==
  ASSUME ShmTypeOK, CInit
  PROVE  /\ spc'[R] = spc[R] /\ spc[C] \in Outside
         /\ \/ cpc' = "poll" /\ spc'[C] = "idle"
            \/ cpc' = "down" /\ spc'[C] = "detached"
            \/ cpc' = "init" /\ spc'[C] \in Outside
         /\ owner' = owner \/ (spc[C] = "creating" /\ owner' = NoOwner)
         /\ UNCHANGED <<status_code, message, arg, got, rpc, ipcq, received, published,
                        caughtUp, abandoned, seen>>
<1> USE Parties
<1>1. CASE ShmInitStep(C) /\ cpc' = IF spc'[C] = "idle" THEN "poll"
                                   ELSE IF spc'[C] = "detached" THEN "down" ELSE "init"
  BY <1>1, InitEffect, Zenon DEF CInit
<1>2. CASE spc[C] = "detached" /\ cpc' = "down" /\ UNCHANGED shmVars
  BY <1>2, Zenon DEF CInit, shmVars, Outside
<1> QED
  BY <1>1, <1>2, Zenon DEF CInit

\* The effect of a step of the Router's start inside shm_api_init.
LEMMA RInitEffect ==
  ASSUME ShmTypeOK, RInit
  PROVE  /\ spc'[C] = spc[C] /\ spc[R] \in Outside
         /\ \/ rpc' = "connect" /\ spc'[R] = "idle"
            \/ rpc' = "down" /\ spc'[R] = "detached"
            \/ rpc' = "init" /\ spc'[R] \in Outside
         /\ owner' = owner \/ (spc[R] = "creating" /\ owner' = NoOwner)
         /\ UNCHANGED <<status_code, message, arg, got, cpc, ipcq, received, published,
                        caughtUp, abandoned, seen>>
<1> USE Parties
<1>1. CASE ShmInitStep(R) /\ rpc' = IF spc'[R] = "idle" THEN "connect"
                                   ELSE IF spc'[R] = "detached" THEN "down" ELSE "init"
  BY <1>1, InitEffect, Zenon DEF RInit
<1>2. CASE spc[R] = "detached" /\ rpc' = "down" /\ UNCHANGED shmVars
  BY <1>2, Zenon DEF RInit, shmVars, Outside
<1> QED
  BY <1>1, <1>2, Zenon DEF RInit

\* The effect of the call of shm_api_write.
LEMMA CRecvEffect ==
  ASSUME ShmTypeOK, CRecv
  PROVE  /\ spc[C] = "idle" /\ spc'[C] = "write_lock" /\ spc'[R] = spc[R]
         /\ cpc = "poll" /\ cpc' = "write" /\ received' = received + 1
         /\ arg'[C] = received + 1
         /\ UNCHANGED <<owner, status_code, message, got, rpc, ipcq, published, caughtUp,
                        abandoned, seen>>
<1> USE Parties
<1>1. arg'[C] = received + 1
  BY Zenon DEF CRecv, BeginWrite, ShmTypeOK
<1>2. /\ spc[C] = "idle" /\ spc'[C] = "write_lock" /\ spc'[R] = spc[R]
      /\ UNCHANGED <<owner, status_code, message, got>>
  BY Moves, Zenon DEF CRecv, BeginWrite
<1> QED
  BY <1>1, <1>2, Zenon DEF CRecv

\* The effect of msgrcv, with the call of shm_api_read it leads to.
LEMMA RRecvEffect ==
  ASSUME ShmTypeOK, RRecv
  PROVE  /\ spc'[C] = spc[C]
         /\ rpc = "wait" /\ ipcq # << >> /\ ipcq' = Tail(ipcq)
         /\ \/ Head(ipcq) = "quit" /\ rpc' = "stop" /\ spc'[R] = spc[R]
            \/ /\ Head(ipcq) # "quit" /\ rpc' = "read"
               /\ spc[R] = "idle" /\ spc'[R] = "read_lock"
         /\ UNCHANGED <<owner, status_code, message, arg, got, cpc, received, published,
                        caughtUp, abandoned, seen>>
<1> USE Parties
<1>1. CASE Head(ipcq) = "quit"
  BY <1>1, Zenon DEF RRecv, shmVars
<1>2. CASE Head(ipcq) # "quit"
  BY <1>2, Moves DEF RRecv, BeginRead
<1> QED
  BY <1>1, <1>2, Zenon

\* What each of those actions leaves alone of the relay's own variables.
LEMMA RelayFrame ==
  /\ CWrite => /\ cpc = "write"
               /\ UNCHANGED <<rpc, ipcq, received, caughtUp, abandoned, seen>>
  /\ RRead => /\ rpc = "read"
              /\ UNCHANGED <<cpc, ipcq, received, published, abandoned, seen>>
  /\ CCrash => /\ cpc' = "down" /\ abandoned' = IF cpc = "notify" THEN published
                                                                  ELSE abandoned
               /\ UNCHANGED <<rpc, ipcq, received, published, caughtUp, seen>>
  /\ RCrash => /\ rpc' = "down"
               /\ UNCHANGED <<cpc, ipcq, received, published, caughtUp, abandoned, seen>>
  /\ CExit => /\ cpc' = "down"
              /\ UNCHANGED <<rpc, ipcq, received, published, caughtUp, abandoned, seen>>
  /\ RExit => /\ rpc' = "down"
              /\ UNCHANGED <<cpc, ipcq, received, published, caughtUp, abandoned, seen>>
BY Zenon DEF CWrite, RRead, CCrash, RCrash, CExit, RExit

\* What the invariant of the library says of the two processes: the timing
\* assumption holds here, and nobody recovers the mutex of a dead owner.
LEMMA ShmFacts ==
  ASSUME IInv
  PROVE  /\ ShmTypeOK
         /\ spc[C] \in Critical <=> owner = C
         /\ spc[R] \in Critical <=> owner = R
         /\ spc[C] = "creating" \/ spc[R] = "creating" => owner = NoOwner
         /\ spc[C] = "write_unlock" => status_code = arg[C] /\ message = arg[C]
         /\ NoOwner \notin {C, R} /\ OwnerDied \notin {C, R} /\ NoOwner # OwnerDied
<1>1. ShmTypeOK /\ MutualExclusion /\ CreatorFirst /\ WholeSlot
  BY RelayAssumption, Zenon DEF IInv, ShmIInv
<1>2. /\ spc[C] \in Critical <=> owner = C
      /\ spc[R] \in Critical <=> owner = R
  BY <1>1, Parties, RelayAssumption, Zenon DEF MutualExclusion, Exclusive
<1>3. spc[C] = "creating" \/ spc[R] = "creating" => owner = NoOwner
  BY <1>1, Parties, Zenon DEF CreatorFirst
<1>4. spc[C] = "write_unlock" => status_code = arg[C] /\ message = arg[C]
  BY <1>1, Parties, Zenon DEF WholeSlot
<1>5. NoOwner \notin {C, R} /\ OwnerDied \notin {C, R} /\ NoOwner # OwnerDied
  BY ShmAssumption, Parties, Zenon
<1> QED
  BY <1>1, <1>2, <1>3, <1>4, <1>5, Zenon

\* The effect of a start: the queue is purged and what it announced abandoned.
LEMMA StartEffect ==
  ASSUME CStart \/ CSecondStart \/ RStart
  PROVE  /\ ipcq' = << >> /\ abandoned' = published
         /\ \/ cpc = "down" /\ cpc' = "init" /\ rpc' = rpc
            \/ cpc' = cpc /\ rpc = "down" /\ rpc' = "init"
            \/ cpc' = cpc /\ rpc' = rpc
         /\ UNCHANGED <<shmVars, received, published, caughtUp, seen>>
<1>1. CASE CStart
  BY <1>1, Zenon DEF CStart, Purge
<1>2. CASE CSecondStart
  BY <1>2, Zenon DEF CSecondStart, Purge
<1>3. CASE RStart
  BY <1>3, Zenon DEF RStart, Purge
<1> QED
  BY <1>1, <1>2, <1>3, Zenon

\* The effect of the steps that use neither the library nor, except for CNotify
\* and RQuit, the queue.
LEMMA LinkEffect ==
  /\ CNotify => /\ cpc = "notify" /\ cpc' = "poll"
                /\ UNCHANGED <<shmVars, rpc, received, published, caughtUp, abandoned, seen>>
  /\ RConnect => /\ rpc = "connect" /\ rpc' \in {"wait", "stop"}
                 /\ UNCHANGED <<shmVars, cpc, ipcq, received, published, caughtUp,
                                abandoned, seen>>
  /\ RSend => /\ rpc = "send" /\ rpc' \in {"wait", "stop"} /\ seen' \in {seen, got[R][2]}
              /\ UNCHANGED <<shmVars, cpc, ipcq, received, published, caughtUp, abandoned>>
  /\ RQuit => UNCHANGED <<shmVars, cpc, rpc, received, published, caughtUp, abandoned, seen>>
  /\ ViewerClose \/ UNCHANGED vars =>
       UNCHANGED <<shmVars, cpc, rpc, ipcq, received, published, caughtUp, abandoned, seen>>
<1>1. CNotify => /\ cpc = "notify" /\ cpc' = "poll"
                 /\ UNCHANGED <<shmVars, rpc, received, published, caughtUp, abandoned, seen>>
  BY Zenon DEF CNotify
<1>2. RConnect => /\ rpc = "connect" /\ rpc' \in {"wait", "stop"}
                  /\ UNCHANGED <<shmVars, cpc, ipcq, received, published, caughtUp,
                                 abandoned, seen>>
  BY Zenon DEF RConnect
<1>3. RSend => /\ rpc = "send" /\ rpc' \in {"wait", "stop"} /\ seen' \in {seen, got[R][2]}
               /\ UNCHANGED <<shmVars, cpc, ipcq, received, published, caughtUp, abandoned>>
  BY Zenon DEF RSend
<1>4. RQuit => UNCHANGED <<shmVars, cpc, rpc, received, published, caughtUp, abandoned, seen>>
  BY Zenon DEF RQuit
<1>5. ViewerClose =>
        UNCHANGED <<shmVars, cpc, rpc, ipcq, received, published, caughtUp, abandoned, seen>>
  BY Zenon DEF ViewerClose
<1>6. UNCHANGED vars =>
        UNCHANGED <<shmVars, cpc, rpc, ipcq, received, published, caughtUp, abandoned, seen>>
  BY Zenon DEF vars, relayVars
<1> QED
  BY <1>1, <1>2, <1>3, <1>4, <1>5, <1>6, Zenon

\* Only the write of the Collector and the send of the worker change what is
\* published and what the Viewer has seen.
LEMMA RegisterFrame == [Next]_vars => CWrite \/ RSend \/ UNCHANGED <<published, seen>>
<1> SUFFICES ASSUME [Next]_vars, ~CWrite, ~RSend PROVE UNCHANGED <<published, seen>>
  OBVIOUS
<1>1. CASE CStart \/ CSecondStart \/ RStart
  BY <1>1, StartEffect, Zenon
<1>2. CASE CNotify \/ RConnect \/ RQuit \/ ViewerClose \/ UNCHANGED vars
  BY <1>2, LinkEffect, Zenon
<1>3. CASE CExit \/ CCrash \/ RExit \/ RCrash \/ RRead
  BY <1>3, RelayFrame, Zenon
<1>4. CASE CInit \/ CRecv
  BY <1>4, Zenon DEF CInit, CRecv
<1>5. CASE RInit \/ RRecv
  BY <1>5, Zenon DEF RInit, RRecv
<1> QED
  BY <1>1, <1>2, <1>3, <1>4, <1>5, Zenon DEF Next, CStep, RStep, Environment

-----------------------------------------------------------------------------
(* The inductive step, and the theorems. *)

\* A step keeps the queue within its capacity: every msgsnd either checks for room
\* (IPC_NOWAIT) or waits for it.
LEMMA QueueStep == IInv /\ [Next]_vars => QueueOK'
<1> SUFFICES ASSUME QueueOK, [Next]_vars PROVE QueueOK'
  BY Zenon DEF IInv, TypeOK
<1> USE RelayAssumption DEF QueueOK, Messages
<1>1. CASE CStart \/ CSecondStart \/ RStart
  <2>1. ipcq' = << >>
    BY <1>1, StartEffect, Zenon
  <2>2. Len(<< >>) = 0 /\ 0 <= QCap
    OBVIOUS
  <2> QED
    BY <2>1, <2>2
<1>2. CASE CNotify
  BY <1>2 DEF CNotify
<1>3. CASE RRecv
  BY <1>3 DEF RRecv
<1>4. CASE RQuit
  BY <1>4 DEF RQuit
<1>5. CASE CInit \/ CExit \/ CCrash \/ CRecv \/ CWrite
  <2>1. UNCHANGED ipcq
    BY <1>5, Zenon DEF CInit, CExit, CCrash, CRecv, CWrite
  <2> QED
    BY <2>1, Zenon
<1>6. CASE RInit \/ RExit \/ RCrash \/ RConnect \/ RRead \/ RSend
  <2>1. UNCHANGED ipcq
    BY <1>6, Zenon DEF RInit, RExit, RCrash, RConnect, RRead, RSend
  <2> QED
    BY <2>1, Zenon
<1>7. CASE ViewerClose \/ UNCHANGED vars
  BY <1>7, LinkEffect, Zenon
<1> HIDE DEF QueueOK
<1> QED
  BY <1>1, <1>2, <1>3, <1>4, <1>5, <1>6, <1>7, Zenon DEF Next, CStep, RStep, Environment

\* A step keeps the type invariant.  A value shown to the Viewer is a copy the
\* worker took of a published value, never a half-written one.
LEMMA TypeStep == IInv /\ ShmIInv' /\ [Next]_vars => TypeOK'
<1> SUFFICES ASSUME IInv, ShmTypeOK', QueueOK', [Next]_vars PROVE TypeOK'
  BY QueueStep, Zenon DEF ShmIInv
<1> TypeOK /\ Slot /\ Copied
  BY Zenon DEF IInv
<1> USE Parties DEF TypeOK
<1>1. CASE CStart \/ CSecondStart
  BY <1>1, RelayAssumption DEF CStart, CSecondStart, Purge
<1>2. CASE RStart
  BY <1>2, RelayAssumption DEF RStart, Purge
<1>3. CASE CInit
  BY <1>3, Zenon DEF CInit
<1>4. CASE RInit
  BY <1>4, Zenon DEF RInit
<1>5. CASE CExit \/ RExit
  BY <1>5 DEF CExit, RExit
<1>6. CASE CCrash \/ RCrash
  BY <1>6 DEF CCrash, RCrash
<1>7. CASE CRecv
  BY <1>7 DEF CRecv
<1>8. CASE CWrite
  <2>1. /\ published' \in {published, arg[C]} /\ cpc' \in {cpc, "notify"}
        /\ UNCHANGED <<rpc, quits, link, starts, received, caughtUp, abandoned, seen>>
    BY <1>8, Zenon DEF CWrite
  <2>2. arg[C] = received
    BY <1>8, Zenon DEF CWrite, Slot
  <2> QED
    BY <2>1, <2>2, Zenon
<1>9. CASE CNotify
  BY <1>9, Zenon DEF CNotify
<1>10. CASE RConnect
  BY <1>10, Zenon DEF RConnect
<1>11. CASE RRecv
  BY <1>11, Zenon DEF RRecv
<1>12. CASE RRead
  <2>1. /\ caughtUp' \in {caughtUp, published} /\ rpc' \in {rpc, "send"}
        /\ UNCHANGED <<cpc, quits, link, starts, received, published, abandoned, seen>>
    BY <1>12, Zenon DEF RRead
  <2> QED
    BY <2>1, Zenon
<1>13. CASE RSend
  BY <1>13, Zenon DEF RSend, Copied
<1>14. CASE RQuit
  BY <1>14 DEF RQuit
<1>15. CASE ViewerClose \/ UNCHANGED vars
  BY <1>15, Zenon DEF ViewerClose, vars, relayVars
<1> HIDE DEF TypeOK
<1> QED
  BY <1>1, <1>2, <1>3, <1>4, <1>5, <1>6, <1>7, <1>8, <1>9, <1>10, <1>11, <1>12, <1>13,
     <1>14, <1>15, Zenon
     DEF Next, CStep, RStep, Environment

\* A step keeps each process and its place in the library together.
LEMMA ControlStep == IInv /\ [Next]_vars => Control'
<1> SUFFICES ASSUME IInv, [Next]_vars PROVE Control'
  OBVIOUS
<1> ShmTypeOK /\ Control
  BY ShmFacts, Zenon DEF IInv
<1> USE Parties DEF Control
<1>1. CASE CStart \/ CSecondStart \/ RStart
  BY <1>1, StartEffect, Zenon DEF shmVars, Outside
<1>2. CASE CNotify \/ RConnect \/ RSend
  BY <1>2, LinkEffect, Zenon DEF shmVars
<1>3. CASE RQuit \/ ViewerClose \/ UNCHANGED vars
  BY <1>3, LinkEffect, Zenon DEF shmVars
<1>4. CASE CInit
  BY <1>4, CInitEffect, Zenon
<1>5. CASE RInit
  BY <1>5, RInitEffect, Zenon
<1>6. CASE CExit
  BY <1>6, CloseEffect, RelayFrame, Zenon DEF CExit
<1>7. CASE RExit
  BY <1>7, CloseEffect, RelayFrame, Zenon DEF RExit
<1>8. CASE CCrash
  BY <1>8, CrashEffect, RelayFrame, Zenon DEF CCrash
<1>9. CASE RCrash
  BY <1>9, CrashEffect, RelayFrame, Zenon DEF RCrash
<1>10. CASE CRecv
  BY <1>10, CRecvEffect, Zenon
<1>11. CASE CWrite
  BY <1>11, WriteEffect, RelayFrame, Zenon DEF Writing
<1>12. CASE RRecv
  BY <1>12, RRecvEffect, Zenon
<1>13. CASE RRead
  BY <1>13, ReadEffect, RelayFrame, Zenon DEF Reading
<1> HIDE DEF Control
<1> QED
  BY <1>1, <1>2, <1>3, <1>4, <1>5, <1>6, <1>7, <1>8, <1>9, <1>10, <1>11, <1>12, <1>13, Zenon
     DEF Next, CStep, RStep, Environment

\* A step leaves the latest published value in the slot, unless the writer is
\* inside its critical section or the owner of the mutex died.
LEMMA SlotStep == IInv /\ [Next]_vars => Slot'
<1> SUFFICES ASSUME IInv, [Next]_vars PROVE Slot'
  OBVIOUS
<1> ShmTypeOK /\ Control /\ Slot /\ received \in Nat /\ published \in Nat
  BY ShmFacts, Zenon DEF IInv, TypeOK
<1> USE Parties DEF Slot
<1>1. CASE CStart \/ CSecondStart \/ RStart
  BY <1>1, StartEffect, Zenon DEF shmVars
<1>2. CASE CNotify \/ RConnect \/ RSend
  BY <1>2, LinkEffect, Zenon DEF shmVars
<1>3. CASE RQuit \/ ViewerClose \/ UNCHANGED vars
  BY <1>3, LinkEffect, Zenon DEF shmVars
<1>4. CASE CInit
  BY <1>4, CInitEffect, ShmFacts, Zenon DEF Outside
<1>5. CASE RInit
  BY <1>5, RInitEffect, ShmFacts, Zenon
<1>6. CASE CExit
  BY <1>6, CloseEffect, RelayFrame, Zenon DEF CExit
<1>7. CASE RExit
  BY <1>7, CloseEffect, RelayFrame, Zenon DEF RExit
<1>8. CASE CCrash
  BY <1>8, CrashEffect, RelayFrame, ShmFacts, Zenon DEF CCrash, Critical, Writing
<1>9. CASE RCrash
  BY <1>9, CrashEffect, RelayFrame, Zenon DEF RCrash
<1>10. CASE CRecv
  BY <1>10, CRecvEffect
<1>11. CASE CWrite
  BY <1>11, WriteEffect, RelayFrame, ShmFacts DEF Critical, Writing
<1>12. CASE RRecv
  BY <1>12, RRecvEffect, Zenon
<1>13. CASE RRead
  BY <1>13, ReadEffect, RelayFrame, ShmFacts, Zenon DEF Critical, Reading
<1> HIDE DEF Slot
<1> QED
  BY <1>1, <1>2, <1>3, <1>4, <1>5, <1>6, <1>7, <1>8, <1>9, <1>10, <1>11, <1>12, <1>13, Zenon
     DEF Next, CStep, RStep, Environment

\* A step keeps what the worker copied and what the Viewer has seen in order, and
\* a copy is of the latest published value: nobody writes while the worker holds
\* the mutex.
LEMMA CopiedStep == IInv /\ [Next]_vars => Copied' /\ FreshRead'
<1> SUFFICES ASSUME IInv, [Next]_vars PROVE Copied' /\ FreshRead'
  OBVIOUS
<1> /\ ShmTypeOK /\ Control /\ Slot /\ Copied /\ FreshRead
    /\ received \in Nat /\ published \in Nat /\ caughtUp \in Nat /\ seen \in Nat
  BY ShmFacts, Zenon DEF IInv, TypeOK
<1> USE Parties DEF Copied, FreshRead
<1>1. CASE CStart \/ CSecondStart \/ RStart
  BY <1>1, StartEffect, Zenon DEF shmVars
<1>2. CASE CNotify \/ RConnect \/ RSend
  BY <1>2, LinkEffect DEF shmVars
<1>3. CASE RQuit \/ ViewerClose \/ UNCHANGED vars
  BY <1>3, LinkEffect, Zenon DEF shmVars
<1>4. CASE CInit
  BY <1>4, CInitEffect, Zenon
<1>5. CASE RInit
  BY <1>5, RInitEffect, Zenon DEF Outside
<1>6. CASE CExit
  BY <1>6, CloseEffect, RelayFrame, Zenon DEF CExit
<1>7. CASE RExit
  BY <1>7, CloseEffect, RelayFrame, Zenon DEF RExit
<1>8. CASE CCrash
  BY <1>8, CrashEffect, RelayFrame, Zenon DEF CCrash
<1>9. CASE RCrash
  BY <1>9, CrashEffect, RelayFrame, Zenon DEF RCrash
<1>10. CASE CRecv
  BY <1>10, CRecvEffect, Zenon
<1>11. CASE CWrite
  <2>1. CASE UNCHANGED published
    BY <1>11, <2>1, WriteEffect, RelayFrame, Zenon
  <2>2. CASE published' = arg[C] /\ spc[C] = "write_unlock"
    <3>1. published < published' /\ published' \in Nat
      BY <1>11, <2>2, RelayFrame, Zenon DEF Slot
    <3>2. spc[R] # "read_unlock"
      BY <2>2, ShmFacts, Zenon DEF Critical, Writing, Reading
    <3> QED
      BY <1>11, <3>1, <3>2, WriteEffect, RelayFrame
  <2> QED
    BY <1>11, <2>1, <2>2, WriteEffect, Zenon
<1>12. CASE RRecv
  BY <1>12, RRecvEffect, Zenon
<1>13. CASE RRead
  <2>1. CASE spc[R] = "read_copy"
    <3>1. status_code = published /\ message = published
      BY <2>1, ShmFacts, Zenon DEF Slot, Critical, Writing, Reading
    <3> QED
      BY <1>13, <2>1, <3>1, ReadEffect, RelayFrame
  <2>2. CASE spc[R] # "read_copy"
    BY <1>13, <2>2, ReadEffect, RelayFrame
  <2> QED
    BY <2>1, <2>2, Zenon
<1> HIDE DEF Copied, FreshRead
<1> QED
  BY <1>1, <1>2, <1>3, <1>4, <1>5, <1>6, <1>7, <1>8, <1>9, <1>10, <1>11, <1>12, <1>13, Zenon
     DEF Next, CStep, RStep, Environment

\* A step loses no wake-up: a notification is refused only by a queue that holds
\* one already, and one is consumed only by a worker that goes on to read.
LEMMA PendingStep == IInv /\ [Next]_vars => LatestPending'
<1> SUFFICES ASSUME IInv, [Next]_vars PROVE LatestPending'
  OBVIOUS
<1> /\ ShmTypeOK /\ Control /\ QueueOK /\ LatestPending
    /\ published \in Nat /\ caughtUp \in Nat /\ abandoned \in Nat
  BY ShmFacts, Zenon DEF IInv, TypeOK
<1> USE Parties DEF LatestPending, Listening, Has
<1>1. CASE CStart \/ CSecondStart \/ RStart
  BY <1>1, StartEffect
<1>2. CASE CNotify
  <2>1. UNCHANGED <<rpc, published, caughtUp, abandoned>>
    BY <1>2, LinkEffect, Zenon
  <2>2. CASE Len(ipcq) < QCap
    <3>1. ipcq' = Append(ipcq, "notify")
      BY <1>2, <2>2, Zenon DEF CNotify
    <3>2. Len(ipcq') = Len(ipcq) + 1 /\ ipcq'[Len(ipcq')] = "notify"
      BY <3>1 DEF QueueOK, Messages
    <3>3. Len(ipcq') \in 1 .. Len(ipcq')
      BY <3>2 DEF QueueOK
    <3> QED
      BY <3>2, <3>3, Zenon
  <2>3. CASE ~(Len(ipcq) < QCap)
    <3>1. ipcq' = ipcq
      BY <1>2, <2>3, Zenon DEF CNotify
    <3>2. 1 \in 1 .. Len(ipcq) /\ ipcq[1] \in Messages
      BY <2>3, RelayAssumption DEF QueueOK
    <3> QED
      BY <3>1, <3>2, Zenon DEF Messages
  <2> QED
    BY <2>2, <2>3, Zenon
<1>3. CASE RConnect \/ RSend
  BY <1>3, LinkEffect, Zenon DEF shmVars
<1>4. CASE CInit
  BY <1>4, CInitEffect, Zenon DEF CInit
<1>5. CASE RInit
  BY <1>5, RInitEffect, Zenon DEF RInit
<1>6. CASE CExit
  BY <1>6, CloseEffect, RelayFrame, Zenon DEF CExit
<1>7. CASE RExit \/ RCrash
  BY <1>7, RelayFrame, Zenon
<1>8. CASE CCrash
  BY <1>8, CrashEffect, RelayFrame DEF CCrash
<1>9. CASE CRecv
  BY <1>9, CRecvEffect, Zenon
<1>10. CASE CWrite
  BY <1>10, WriteEffect, RelayFrame, Zenon
<1>11. CASE RRecv
  BY <1>11, RRecvEffect, Zenon
<1>12. CASE RRead
  BY <1>12, ReadEffect, RelayFrame
<1>13. CASE RQuit
  <2>1. ipcq' = Append(ipcq, "quit")
    BY <1>13, Zenon DEF RQuit
  <2>2. Len(ipcq') \in 1 .. Len(ipcq') /\ ipcq'[Len(ipcq')] = "quit"
    BY <2>1 DEF QueueOK, Messages
  <2> QED
    BY <2>2, Zenon
<1>14. CASE ViewerClose \/ UNCHANGED vars
  BY <1>14, LinkEffect, Zenon DEF shmVars
<1> HIDE DEF LatestPending
<1> QED
  BY <1>1, <1>2, <1>3, <1>4, <1>5, <1>6, <1>7, <1>8, <1>9, <1>10, <1>11, <1>12, <1>13,
     <1>14, Zenon
     DEF Next, CStep, RStep, Environment

\* The inductive invariant holds before either process has started.
LEMMA RelayInitially == Init => IInv
<1> SUFFICES ASSUME Init PROVE IInv
  OBVIOUS
<1>1. ShmIInv
  BY ShmInitially, Zenon DEF Init
<1>2. QueueOK
  BY RelayAssumption DEF Init, QueueOK, Messages
<1>3. starts \in [Procs -> 0 .. MaxStarts]
  BY RelayAssumption DEF Init
<1>4. TypeOK
  BY <1>1, <1>2, <1>3 DEF Init, TypeOK, ShmIInv
<1>5. Control /\ Slot /\ Copied /\ FreshRead /\ LatestPending
  BY RelayAssumption
     DEF Init, ShmInit, Control, Slot, Copied, FreshRead, LatestPending, Listening,
         C, R, Blank
<1> QED
  BY <1>1, <1>4, <1>5, Zenon DEF IInv

\* Every step of the two processes keeps the inductive invariant.
LEMMA RelayInductive == IInv /\ [Next]_vars => IInv'
<1> SUFFICES ASSUME IInv, [Next]_vars PROVE IInv'
  OBVIOUS
<1>1. ShmIInv'
  BY ShmSteps, ShmInductive, Zenon DEF IInv
<1> QED
  BY <1>1, TypeStep, ControlStep, SlotStep, CopiedStep, PendingStep, Zenon DEF IInv

\* The inductive invariant of the relay holds in every reachable state.
THEOREM RelayInvariant == Spec => []IInv
BY RelayInitially, RelayInductive, PTL DEF Spec

\* The variables keep their types; in particular the queue never exceeds QCap.
THEOREM RelayType == Spec => []TypeOK
BY RelayInvariant, PTL DEF IInv

\* No fresh value is left in the slot without a notification on its way, for any
\* capacity of the queue and whatever is dropped, overwritten or killed.
THEOREM RelayLatestPending == Spec => []LatestPending
BY RelayInvariant, PTL DEF IInv

\* The worker reads the latest published value, whole.
THEOREM RelayFreshRead == Spec => []FreshRead
BY RelayInvariant, PTL DEF IInv

\* The write publishes, if anything, a later datagram than before.
LEMMA PublishStep ==
  ASSUME IInv, CWrite
  PROVE  /\ published' = published \/ (published' \in Nat /\ published' > published)
         /\ seen' = seen
<1>1. ShmTypeOK /\ Control /\ Slot
  BY ShmFacts, Zenon DEF IInv
<1>2. received \in Nat
  BY Zenon DEF IInv, TypeOK
<1>3. cpc = "write" /\ seen' = seen
  BY RelayFrame, Zenon
<1>4. arg[C] = received /\ published < received
  BY <1>1, <1>3, Zenon DEF Slot
<1>5. published' = published \/ published' = arg[C]
  BY <1>1, WriteEffect, Zenon
<1> QED
  BY <1>2, <1>3, <1>4, <1>5, Zenon

\* The send shows, if anything, a value between the last one shown and the latest.
LEMMA ShowStep ==
  ASSUME IInv, RSend
  PROVE  seen' \in seen .. published /\ published' = published
<1>1. Copied /\ seen \in Nat /\ caughtUp \in Nat /\ published \in Nat
  BY Zenon DEF IInv, TypeOK
<1>2. rpc = "send" /\ seen' \in {seen, got[R][2]} /\ published' = published
  BY LinkEffect, Zenon
<1>3. got[R][2] = caughtUp /\ seen <= caughtUp /\ caughtUp <= published
  BY <1>1, <1>2, Zenon DEF Copied
<1> QED
  BY <1>1, <1>2, <1>3

\* The relay is a latest-value register: only the end of shm_api_write publishes,
\* and it publishes a later datagram; only a successful send shows, and it shows
\* the copy the worker holds.
THEOREM RelayImplementsLatestValue == Spec => ImplementsLatestValue
<1>1. Init => LV!LVInit
  <2>1. Init => published = 0 /\ seen = 0
    BY Zenon DEF Init
  <2> QED
    BY <2>1, Zenon DEF LV!LVInit
<1>2. IInv /\ [Next]_vars => [LV!LVNext]_(LV!lvVars)
  <2> SUFFICES ASSUME IInv, [Next]_vars PROVE [LV!LVNext]_(LV!lvVars)
    OBVIOUS
  <2>1. CASE CWrite
    BY <2>1, PublishStep, Zenon DEF LV!lvVars, LV!LVNext, LV!Publish
  <2>2. CASE RSend
    BY <2>2, ShowStep, Zenon DEF LV!lvVars, LV!LVNext, LV!Show
  <2>3. CASE UNCHANGED <<published, seen>>
    BY <2>3, Zenon DEF LV!lvVars
  <2> QED
    BY <2>1, <2>2, <2>3, RegisterFrame, Zenon
<1> QED
  BY <1>1, <1>2, RelayInvariant, PTL DEF Spec, LV!LVSpec, ImplementsLatestValue

=============================================================================
