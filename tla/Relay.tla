-------------------------------- MODULE Relay -------------------------------
(***************************************************************************)
(* The data path Collector -> shared memory + message queue -> Router ->   *)
(* Viewer, for the default build (no robust mutex).                        *)
(*                                                                         *)
(* The Collector (Collector/src/poll_io.c) overwrites the one slot of the  *)
(* shared memory with each datagram and then sends a notification with     *)
(* IPC_NOWAIT.  The Router's worker (Router/src/router_worker.c) takes a   *)
(* notification, reads the slot and sends the value over TCP.  The number  *)
(* of notifications and the number of values differ: values are            *)
(* overwritten, read twice, notified to a full queue, or their             *)
(* notifications are purged when either process starts.                    *)
(*                                                                         *)
(* The shared memory is the module ShmApi, whose steps are taken by the    *)
(* two processes; datagram n carries the value n.                          *)
(***************************************************************************)
EXTENDS ShmApi, Sequences

CONSTANTS
  QCap,       \* how many messages the System V queue holds (msg_qbytes)
  MaxStarts,  \* how often each process is started
  Faults      \* which of AllFaults happen

C == "collector"
R == "router"

AllFaults ==
  {"shm", "exit", "quit", "second_collector", "viewer_close", "connect_fails", "send_error"}

ASSUME RelayAssumption ==
  /\ Procs = {C, R}
  /\ ~Robust /\ InitInTime
  /\ QCap \in Nat \ {0}
  /\ MaxStarts \in Nat
  /\ Faults \subseteq AllFaults

VARIABLES
  cpc,        \* the Collector: "down", "init", "poll", "write", "notify"
  rpc,        \* the Router: "down", "init", "connect", "wait", "read", "send", "stop"
  ipcq,       \* the queue SYSTEM_IPC_KEY, oldest message first
  quits,      \* SHM_QUIT messages this Router has sent to its own worker
  link,       \* the worker's TCP connection: "none", "up", "closed", "reset"
  starts,     \* starts of each process so far
  received,   \* datagrams received so far
  published,  \* the last value whose shm_api_write returned TRUE
  caughtUp,   \* what published was when the worker last copied the slot
  abandoned,  \* values up to this one may have lost their notification
  seen        \* the last value the Viewer was sent

relayVars == <<cpc, rpc, ipcq, quits, link, starts, received, published,
               caughtUp, abandoned, seen>>
vars == <<shmVars, relayVars>>

Messages == {"notify", "quit"}
Has(m) == \E i \in 1 .. Len(ipcq) : ipcq[i] = m

QueueOK == ipcq \in Seq(Messages) /\ Len(ipcq) <= QCap

TypeOK ==
  /\ ShmTypeOK
  /\ QueueOK
  /\ cpc \in {"down", "init", "poll", "write", "notify"}
  /\ rpc \in {"down", "init", "connect", "wait", "read", "send", "stop"}
  /\ quits \in 0 .. 2
  /\ link \in {"none", "up", "closed", "reset"}
  /\ starts \in [Procs -> 0 .. MaxStarts]
  /\ received \in Nat /\ published \in Nat
  /\ caughtUp \in Nat /\ abandoned \in Nat /\ seen \in Nat

Init ==
  /\ ShmInit
  /\ cpc = "down" /\ rpc = "down"
  /\ ipcq = << >> /\ quits = 0 /\ link = "none"
  /\ starts = [p \in Procs |-> 0]
  /\ received = 0 /\ published = 0 /\ caughtUp = 0 /\ abandoned = 0 /\ seen = 0

-----------------------------------------------------------------------------
(* Starting and stopping. *)

\* Both mains read the queue empty with IPC_NOWAIT before anything else, to get
\* rid of what an earlier run left behind.
Purge(p) ==
  /\ starts[p] < MaxStarts
  /\ starts' = [starts EXCEPT ![p] = @ + 1]
  /\ ipcq' = << >>
  /\ abandoned' = published

CStart ==
  /\ cpc = "down" /\ cpc' = "init"
  /\ Purge(C)
  /\ UNCHANGED <<shmVars, rpc, quits, link, received, published, caughtUp, seen>>

\* A Collector is started by mistake while another one runs: it purges the
\* queue before bind on the UDP port fails and it exits.
CSecondStart ==
  /\ "second_collector" \in Faults
  /\ cpc # "down"
  /\ Purge(C)
  /\ UNCHANGED <<shmVars, cpc, rpc, quits, link, received, published, caughtUp, seen>>

RStart ==
  /\ rpc = "down" /\ rpc' = "init"
  /\ Purge(R)
  /\ UNCHANGED <<shmVars, cpc, quits, link, received, published, caughtUp, seen>>

\* shm_api_init; a process in which it fails ends.
ShmInitStep(p) == ShmCreate(p) \/ ShmAttach(p) \/ MutexInit(p) \/ AttachDone(p)

CInit ==
  /\ cpc = "init"
  /\ \/ /\ ShmInitStep(C)
        /\ cpc' = IF spc'[C] = "idle" THEN "poll"
                   ELSE IF spc'[C] = "detached" THEN "down" ELSE "init"
     \/ spc[C] = "detached" /\ cpc' = "down" /\ UNCHANGED shmVars
  /\ spc'[C] = "detached" => "shm" \in Faults
  /\ UNCHANGED <<rpc, ipcq, quits, link, starts, received, published, caughtUp,
                 abandoned, seen>>

RInit ==
  /\ rpc = "init"
  /\ \/ /\ ShmInitStep(R)
        /\ rpc' = IF spc'[R] = "idle" THEN "connect"
                   ELSE IF spc'[R] = "detached" THEN "down" ELSE "init"
     \/ spc[R] = "detached" /\ rpc' = "down" /\ UNCHANGED shmVars
  /\ spc'[R] = "detached" => "shm" \in Faults
  /\ UNCHANGED <<cpc, ipcq, quits, link, starts, received, published, caughtUp,
                 abandoned, seen>>

\* The Collector leaves its loop between two datagrams and detaches.
CExit ==
  /\ "exit" \in Faults
  /\ cpc = "poll" /\ cpc' = "down"
  /\ ShmClose(C)
  /\ UNCHANGED <<rpc, ipcq, quits, link, starts, received, published, caughtUp,
                 abandoned, seen>>

\* The Router's main detaches after it has sent SHM_QUIT and joined the worker.
RExit ==
  /\ rpc = "stop" /\ rpc' = "down"
  /\ quits > 0 /\ quits' = 0
  /\ ShmClose(R)
  /\ link' = "none"
  /\ UNCHANGED <<cpc, ipcq, starts, received, published, caughtUp, abandoned, seen>>

\* The Collector is killed.  A value already in the slot keeps no notification.
CCrash ==
  /\ Crash(C)
  /\ cpc' = "down"
  /\ abandoned' = IF cpc = "notify" THEN published ELSE abandoned
  /\ UNCHANGED <<rpc, ipcq, quits, link, starts, received, published, caughtUp, seen>>

RCrash ==
  /\ Crash(R)
  /\ rpc' = "down"
  /\ quits' = 0 /\ link' = "none"
  /\ UNCHANGED <<cpc, ipcq, starts, received, published, caughtUp, abandoned, seen>>

-----------------------------------------------------------------------------
(* The Collector: handle_udp_read. *)

\* A datagram arrives and shm_api_write is called with it.
CRecv ==
  /\ cpc = "poll" /\ cpc' = "write"
  /\ received + 1 \in Values
  /\ received' = received + 1
  /\ BeginWrite(C, received + 1)
  /\ UNCHANGED <<rpc, ipcq, quits, link, starts, published, caughtUp, abandoned, seen>>

CWrite ==
  /\ cpc = "write"
  /\ \/ SafeLock(C) /\ UNCHANGED <<cpc, published>>
     \/ WriteStatus(C) /\ UNCHANGED <<cpc, published>>
     \/ WriteMessage(C) /\ UNCHANGED <<cpc, published>>
     \/ WriteUnlock(C) /\ cpc' = "notify" /\ published' = arg[C]
  /\ UNCHANGED <<rpc, ipcq, quits, link, starts, received, caughtUp, abandoned, seen>>

\* A faulty Collector that takes the queue for full one message too early.
NotifyOffByOne ==
  /\ cpc = "notify" /\ cpc' = "poll"
  /\ ipcq' = IF Len(ipcq) + 1 < QCap THEN Append(ipcq, "notify") ELSE ipcq
  /\ UNCHANGED <<shmVars, rpc, quits, link, starts, received, published, caughtUp,
                 abandoned, seen>>

\* msgsnd with IPC_NOWAIT: on a full queue the notification is dropped.
CNotify ==
  /\ cpc = "notify" /\ cpc' = "poll"
  /\ ipcq' = IF Len(ipcq) < QCap THEN Append(ipcq, "notify") ELSE ipcq
  /\ UNCHANGED <<shmVars, rpc, quits, link, starts, received, published, caughtUp,
                 abandoned, seen>>

-----------------------------------------------------------------------------
(* The Router's worker. *)

\* connect succeeds, or the retries run out and the Router shuts down.
RConnect ==
  /\ rpc = "connect"
  /\ \/ rpc' = "wait" /\ link' = "up"
     \/ "connect_fails" \in Faults /\ rpc' = "stop" /\ UNCHANGED link
  /\ UNCHANGED <<shmVars, cpc, ipcq, quits, starts, received, published, caughtUp,
                 abandoned, seen>>

\* msgrcv: SHM_QUIT ends the loop, a notification leads to shm_api_read.
RRecv ==
  /\ rpc = "wait" /\ ipcq # << >>
  /\ ipcq' = Tail(ipcq)
  /\ IF Head(ipcq) = "quit"
       THEN rpc' = "stop" /\ UNCHANGED shmVars
       ELSE rpc' = "read" /\ BeginRead(R)
  /\ UNCHANGED <<cpc, quits, link, starts, received, published, caughtUp, abandoned, seen>>

RRead ==
  /\ rpc = "read"
  /\ \/ SafeLock(R) /\ UNCHANGED <<rpc, caughtUp>>
     \/ ReadCopy(R) /\ caughtUp' = published /\ UNCHANGED rpc
     \/ ReadUnlock(R) /\ rpc' = "send" /\ UNCHANGED caughtUp
  /\ UNCHANGED <<cpc, ipcq, quits, link, starts, received, published, abandoned, seen>>

\* A faulty worker that discards the notifications that queued up during its send.
SendThenDrain ==
  /\ rpc = "send" /\ rpc' = "wait"
  /\ link = "up" /\ seen' = got[R][2] /\ ipcq' = << >>
  /\ UNCHANGED <<shmVars, cpc, link, quits, starts, received, published, caughtUp,
                 abandoned>>

\* send: the first send after the Viewer closed still succeeds, but reaches
\* nobody; the next one fails with EPIPE, and the worker asks main to stop.
\* Any other error is logged and the value is gone.
RSend ==
  /\ rpc = "send"
  /\ \/ link = "up" /\ seen' = got[R][2] /\ rpc' = "wait" /\ UNCHANGED link
     \/ link = "closed" /\ link' = "reset" /\ rpc' = "wait" /\ UNCHANGED seen
     \/ link = "reset" /\ rpc' = "stop" /\ UNCHANGED <<link, seen>>
     \/ "send_error" \in Faults /\ rpc' = "wait" /\ UNCHANGED <<link, seen>>
  /\ UNCHANGED <<shmVars, cpc, ipcq, quits, starts, received, published, caughtUp,
                 abandoned>>

\* The Router's main asks the worker to stop: msgsnd without IPC_NOWAIT, so it
\* waits for room.  main does so at most twice (main.c:323, 356).
RQuit ==
  /\ "quit" \in Faults \/ rpc = "stop"
  /\ rpc \notin {"down", "init"}
  /\ quits < 2 /\ quits' = quits + 1
  /\ Len(ipcq) < QCap
  /\ ipcq' = Append(ipcq, "quit")
  /\ UNCHANGED <<shmVars, cpc, rpc, link, starts, received, published, caughtUp,
                 abandoned, seen>>

\* The Viewer closes the connection or dies.
ViewerClose ==
  /\ "viewer_close" \in Faults
  /\ link = "up" /\ link' = "closed"
  /\ UNCHANGED <<shmVars, cpc, rpc, ipcq, quits, starts, received, published,
                 caughtUp, abandoned, seen>>

-----------------------------------------------------------------------------
CStep == CInit \/ CWrite \/ CNotify
RStep == RInit \/ RConnect \/ RRecv \/ RRead \/ RSend
Environment ==
  \/ CStart \/ CSecondStart \/ CRecv \/ CExit \/ CCrash
  \/ RStart \/ RQuit \/ RExit \/ RCrash \/ ViewerClose

Next == CStep \/ RStep \/ Environment

Spec == Init /\ [][Next]_vars

\* The two processes keep running; nothing is assumed of the environment.
FairSpec == Spec /\ WF_vars(CStep) /\ WF_vars(RStep)

-----------------------------------------------------------------------------
(* Properties. *)

\* The worker, or the one this Router is about to start, will take every message
\* now in the queue.
Listening == rpc \notin {"down", "stop"} /\ ~Has("quit")

\* A value that was published and neither read nor abandoned to a purge or a
\* kill still has a notification coming, whatever notifications a full queue
\* refused: the worker never waits on an empty queue with a fresh value in the
\* slot (poll_io.c:65-87, router_worker.c:92-108).
LatestPending ==
  Listening /\ published > caughtUp /\ published > abandoned =>
    \/ Has("notify")
    \/ cpc = "notify"
    \/ rpc = "read" /\ spc[R] \in {"read_lock", "read_copy"}

\* Whatever was overwritten between the notification and the read, the worker
\* reads the latest published value, whole (EdgeCase_TestCases.md, case 3-2).
FreshRead ==
  spc[R] = "read_unlock" => got[R] = <<caughtUp, caughtUp>> /\ caughtUp = published

\* The relay is a latest-value register: the Viewer is never shown a value that
\* was not published, or an older one than before.
LV == INSTANCE LatestValue WITH cur <- published, out <- seen
ImplementsLatestValue == LV!LVSpec

\* A datagram the Collector has taken is written: shm_api_write comes back, whatever the
\* Router does between its lock and its unlock and however often it starts, unless a
\* process was killed with the mutex in its hands, which this build never recovers
\* (poll_io.c:65, SHM/src/shm_api.c:33, 131-141).  The mutex is not fair.  What keeps the
\* Collector from starving is that the Router locks only after a notification, and no
\* new one comes while the Collector waits.
WriteEnds == (cpc = "write") ~> (cpc # "write" \/ owner = OwnerDied)

\* Without faults a published value, or a later one, reaches the Viewer.
CatchesUp ==
  \A v \in Values :
    (Listening /\ published = v /\ v > abandoned) ~> (seen >= v)

-----------------------------------------------------------------------------
(* The inductive invariant behind LatestPending, FreshRead and the refinement. *)

\* Where each process is tells where it is in the library.
Control ==
  /\ cpc = "down" => spc[C] = "detached"
  /\ cpc = "init" => spc[C] \in Outside
  /\ cpc \in {"poll", "notify"} => spc[C] = "idle"
  /\ cpc = "write" => spc[C] \in {"write_lock"} \cup Writing
  /\ rpc = "down" => spc[R] = "detached"
  /\ rpc = "init" => spc[R] \in Outside
  /\ rpc \in {"connect", "wait", "send", "stop"} => spc[R] = "idle"
  /\ rpc = "read" => spc[R] \in {"read_lock"} \cup Reading

\* The slot holds the latest published value, except while the Collector is
\* overwriting it or after a process died holding the mutex.
Slot ==
  /\ published <= received
  /\ cpc = "write" => arg[C] = received /\ published < received
  /\ \/ status_code = published /\ message = published
     \/ owner = OwnerDied
     \/ spc[C] \in {"write_message", "write_tail", "write_unlock"}

\* What the worker holds is what it copied, and the Viewer is not ahead of it.
Copied ==
  /\ caughtUp <= published
  /\ seen <= caughtUp
  /\ rpc = "send" => got[R][2] = caughtUp

IInv ==
  /\ TypeOK
  /\ ShmIInv
  /\ Control
  /\ Slot
  /\ Copied
  /\ FreshRead
  /\ LatestPending

=============================================================================
