------------------------------- MODULE Router -------------------------------
(***************************************************************************)
(* The Router as a process: how its main thread starts, runs and stops     *)
(* three other threads, and what they share.                               *)
(*                                                                         *)
(*   main   Router/src/main.c: acquires resources, starts the threads,     *)
(*          waits for events on its private queue, stops and joins the     *)
(*          threads, releases everything in reverse order                  *)
(*   t2     signal_worker: turns SIGINT/SIGTERM into an event              *)
(*   t3     router_worker: connects to the Viewer and relays               *)
(*   tm     mgmt_worker: serves the management socket                      *)
(*                                                                         *)
(* main stops t3 by a SHM_QUIT message in the queue it shares with the     *)
(* Collector and by closing a pipe, t2 by pthread_cancel, tm by the flag   *)
(* g_keep_running.  What the worker relays is the module Relay; here a     *)
(* notification is a message it must take, and the read of the shared      *)
(* memory always returns.                                                  *)
(***************************************************************************)
EXTENDS Integers, Sequences

CONSTANTS
  QCap,        \* capacity of the queue SYSTEM_IPC_KEY
  MainCap,     \* capacity of main's private queue
  MaxRetries,  \* CONNECT_MAX_RETRIES
  MaxNotify,   \* notifications the Collector sends
  MaxPurge,    \* how often a Collector is started meanwhile
  MaxSignals,  \* SIGINT/SIGTERM sent to the process
  MaxRequests, \* requests sent to the management socket
  Faults       \* which calls may fail

\* The calls of the start that main checks, those nobody acts on, and calls that
\* may fail later.
Checked == {"mainq", "shm", "pipe", "sem", "mask", "t2", "sem_wait", "t3",
            "registry", "register", "tm"}
Unchecked == {"ipcq", "t2_mask", "mgmt_socket"}
Later == {"msgrcv", "socket", "sigwait", "send"}

ASSUME RouterAssumption ==
  /\ QCap \in Nat \ {0} /\ MainCap \in Nat \ {0} /\ MaxRetries \in Nat \ {0}
  /\ MaxNotify \in Nat /\ MaxPurge \in Nat /\ MaxSignals \in Nat /\ MaxRequests \in Nat
  /\ Faults \subseteq Checked \cup Unchecked \cup Later

VARIABLES
  mpc,       \* where main is
  held,      \* the resources the process holds
  failed,    \* the calls of the start that have failed
  ret,       \* main's return value
  keep_running,  \* g_keep_running
  mainq,     \* main's private queue
  ipcq,      \* the queue shared with the Collector
  ipc_ok,    \* ipc_msqid # -1
  sem,       \* the value of g_signal_worker_ready
  masked,    \* SIGINT and SIGTERM are blocked
  pending,   \* one of them is pending
  cancelled, \* pthread_cancel(t2) was called
  t2, t3, tm,  \* where the threads are: "none" before creation, "done" at the end
  tries,     \* connection attempts
  viewer,    \* the Viewer listens
  link,      \* the worker's TCP connection: "none", "up", "closed", "reset"
  served,    \* requests taken from, and answers sent to, the management socket
  sent       \* what the environment has sent so far

procVars == <<held, failed, ret, masked, sem, cancelled>>
threads == <<t2, t3, tm>>
queues == <<mainq, ipcq>>
netVars == <<tries, viewer, link>>
envVars == <<served, sent>>
vars == <<mpc, procVars, keep_running, queues, ipc_ok, pending, threads, netVars,
          envVars>>

Starting == {"mainq", "ipcq", "shm", "pipe", "sem", "mask", "t2", "sem_wait", "t3",
             "registry", "register", "tm"}
Running == {"loop", "quit1", "close1", "close2", "quit2", "join_tm",
            "nm_quit", "nm_close"}
Stopping == {"join_t3", "cleanup_t2", "join_t2", "cleanup_sem", "cleanup_pipe",
             "cleanup_shm", "cleanup_main_msq", "cleanup_log"}
Ended == {"exit", "killed"}

Events == {"signal", "fatal"}
Messages == {"notify", "quit"}
Resources == {"log", "mainq", "shm", "pipe_r", "pipe_w", "sem", "registry",
              "mgmt_socket", "tcp"}

MainqOK == mainq \in Seq(Events) /\ Len(mainq) <= MainCap
IpcqOK == ipcq \in Seq(Messages) /\ Len(ipcq) <= QCap
SetsOK == held \subseteq Resources /\ failed \subseteq Checked \cup Unchecked
FlagsOK ==
  /\ keep_running \in BOOLEAN /\ ipc_ok \in BOOLEAN /\ masked \in BOOLEAN
  /\ pending \in BOOLEAN /\ cancelled \in BOOLEAN /\ viewer \in BOOLEAN
PlacesOK ==
  /\ mpc \in Starting \cup Running \cup Stopping \cup Ended
  /\ t2 \in {"none", "mask", "post", "check", "sigwait", "send", "done"}
  /\ t3 \in {"none", "socket", "connect", "select", "fatal", "recv", "send",
             "sigterm", "close", "done"}
  /\ tm \in {"none", "create", "check", "recv", "shutdown", "reply", "done"}
CountsOK ==
  /\ sem \in 0 .. 1 /\ tries \in 0 .. MaxRetries
  /\ served \in [{"taken", "answered"} -> 0 .. MaxRequests]
  /\ sent \in [{"notify", "purge", "signal", "request"} -> Nat]

TypeOK ==
  /\ MainqOK /\ IpcqOK /\ SetsOK /\ FlagsOK /\ PlacesOK /\ CountsOK
  /\ ret \in {"EXIT_SUCCESS", "EXIT_FAILURE"}
  /\ link \in {"none", "up", "closed", "reset"}

\* The queue shared with the Collector outlives processes: it may hold messages
\* an earlier Router left behind.
Init ==
  /\ mpc = "mainq" /\ held = {"log"} /\ failed = {} /\ ret = "EXIT_FAILURE"
  /\ keep_running = TRUE
  /\ mainq = << >> /\ ipcq \in {<< >>, <<"quit">>}
  /\ ipc_ok = FALSE /\ sem = 0 /\ masked = FALSE /\ pending = FALSE /\ cancelled = FALSE
  /\ t2 = "none" /\ t3 = "none" /\ tm = "none"
  /\ tries = 0 /\ viewer \in BOOLEAN /\ link = "none"
  /\ served = [taken |-> 0, answered |-> 0]
  /\ sent = [notify |-> 0, purge |-> 0, signal |-> 0, request |-> 0]

\* msgsnd without IPC_NOWAIT waits for room.
SendMain(e) == Len(mainq) < MainCap /\ mainq' = Append(mainq, e)

\* send_shm_quit; an error of msgsnd is only logged.
SendQuit ==
  IF ipc_ok THEN Len(ipcq) < QCap /\ ipcq' = Append(ipcq, "quit")
            ELSE UNCHANGED ipcq

-----------------------------------------------------------------------------
(* main: the start. *)

\* A call of the start succeeds and gives the resources r, or fails and sends
\* main to the label undo.
Acquire(call, r, next, undo) ==
  /\ mpc = call
  /\ \/ mpc' = next /\ held' = held \cup r /\ UNCHANGED failed
     \/ call \in Faults /\ mpc' = undo /\ failed' = failed \cup {call} /\ UNCHANGED held

\* A faulty start that forgets the pipe when sem_init fails.
WrongLabel ==
  /\ \/ Acquire("mainq", {"mainq"}, "ipcq", "cleanup_log")
     \/ Acquire("shm", {"shm"}, "pipe", "cleanup_main_msq")
     \/ Acquire("pipe", {"pipe_r", "pipe_w"}, "sem", "cleanup_shm")
     \/ Acquire("sem", {"sem"}, "mask", "cleanup_shm")
  /\ UNCHANGED <<ret, masked, sem, cancelled, keep_running, queues, ipc_ok, pending,
                 threads, netVars, envVars>>

\* msgget(IPC_PRIVATE), shm_api_init, pipe, sem_init.
GetResources ==
  /\ \/ Acquire("mainq", {"mainq"}, "ipcq", "cleanup_log")
     \/ Acquire("shm", {"shm"}, "pipe", "cleanup_main_msq")
     \/ Acquire("pipe", {"pipe_r", "pipe_w"}, "sem", "cleanup_shm")
     \/ Acquire("sem", {"sem"}, "mask", "cleanup_pipe")
  /\ UNCHANGED <<ret, masked, sem, cancelled, keep_running, queues, ipc_ok, pending,
                 threads, netVars, envVars>>

\* A faulty start that keeps the messages of an earlier run.
NoPurge ==
  /\ mpc = "ipcq" /\ mpc' = "shm"
  /\ \/ ipc_ok' = TRUE /\ UNCHANGED <<ipcq, failed>>
     \/ "ipcq" \in Faults /\ failed' = failed \cup {"ipcq"} /\ UNCHANGED <<ipc_ok, ipcq>>
  /\ UNCHANGED <<held, ret, masked, sem, cancelled, keep_running, mainq, pending,
                 threads, netVars, envVars>>

\* msgget(SYSTEM_IPC_KEY) and, if it succeeds, the purge of the queue.  A failure
\* is not an error to main.
OpenIpcq ==
  /\ mpc = "ipcq" /\ mpc' = "shm"
  /\ \/ ipc_ok' = TRUE /\ ipcq' = << >> /\ UNCHANGED failed
     \/ "ipcq" \in Faults /\ failed' = failed \cup {"ipcq"} /\ UNCHANGED <<ipc_ok, ipcq>>
  /\ UNCHANGED <<held, ret, masked, sem, cancelled, keep_running, mainq, pending,
                 threads, netVars, envVars>>

MaskSignals ==
  /\ Acquire("mask", {}, "t2", "cleanup_sem")
  /\ masked' = IF mpc' = "t2" THEN TRUE ELSE masked
  /\ UNCHANGED <<ret, sem, cancelled, keep_running, queues, ipc_ok, pending, threads,
                 netVars, envVars>>

StartT2 ==
  /\ Acquire("t2", {}, "sem_wait", "cleanup_sem")
  /\ t2' = IF mpc' = "sem_wait" THEN "mask" ELSE t2
  /\ UNCHANGED <<ret, masked, sem, cancelled, keep_running, queues, ipc_ok, pending,
                 t3, tm, netVars, envVars>>

\* main waits until signal_worker has blocked the signals.
SemWait ==
  /\ Acquire("sem_wait", {}, "t3", "cleanup_t2")
  /\ sem' = IF mpc' = "t3" THEN sem - 1 ELSE sem
  /\ sem' \in 0 .. 1
  /\ UNCHANGED <<ret, masked, cancelled, keep_running, queues, ipc_ok, pending, threads,
                 netVars, envVars>>

StartT3 ==
  /\ Acquire("t3", {}, "registry", "cleanup_t2")
  /\ t3' = IF mpc' = "registry" THEN "socket" ELSE t3
  /\ UNCHANGED <<ret, masked, sem, cancelled, keep_running, queues, ipc_ok, pending,
                 t2, tm, netVars, envVars>>

\* handler_registry_init, router_mgmt_register and the creation of mgmt_worker: a
\* failure stops the threads already running.
StartMgmt ==
  /\ \/ Acquire("registry", {"registry"}, "register", "nm_quit")
     \/ Acquire("register", {}, "tm", "nm_quit")
     \/ Acquire("tm", {}, "loop", "nm_quit")
  /\ tm' = IF mpc' = "loop" THEN "create" ELSE tm
  /\ keep_running' = IF mpc' = "nm_quit" THEN FALSE ELSE keep_running
  /\ UNCHANGED <<ret, masked, sem, cancelled, queues, ipc_ok, pending, t2, t3, netVars,
                 envVars>>

-----------------------------------------------------------------------------
(* main: the event loop and the stop. *)

\* One round of the event loop; the two events that arrive here both stop it.
MainLoop ==
  /\ mpc = "loop"
  /\ \/ /\ keep_running /\ mainq # << >>
        /\ mainq' = Tail(mainq)
        /\ keep_running' = FALSE
        /\ mpc' = IF Head(mainq) = "signal" THEN "quit1" ELSE "close1"
     \/ /\ ~keep_running \/ "msgrcv" \in Faults
        /\ mpc' = "close2"
        /\ UNCHANGED <<mainq, keep_running>>
  /\ UNCHANGED <<procVars, ipcq, ipc_ok, pending, threads, netVars, envVars>>

\* The places where main sends SHM_QUIT to the worker.
Quit ==
  /\ \/ mpc = "quit1" /\ mpc' = "close1"
     \/ mpc = "quit2" /\ mpc' = "join_tm"
     \/ mpc = "nm_quit" /\ mpc' = "nm_close"
  /\ SendQuit
  /\ UNCHANGED <<procVars, keep_running, mainq, ipc_ok, pending, threads, netVars,
                 envVars>>

\* The places where main closes the write end of the pipe, if it is still open.
ClosePipe ==
  /\ \/ mpc = "close1" /\ mpc' = "loop" /\ UNCHANGED keep_running
     \/ mpc = "close2" /\ mpc' = "quit2" /\ keep_running' = FALSE
     \/ mpc = "nm_close" /\ mpc' = "join_t3" /\ UNCHANGED keep_running
  /\ held' = held \ {"pipe_w"}
  /\ UNCHANGED <<failed, ret, masked, sem, cancelled, queues, ipc_ok, pending, threads,
                 netVars, envVars>>

JoinMgmt ==
  /\ mpc = "join_tm" /\ mpc' = "join_t3"
  /\ tm = "done"
  /\ ret' = "EXIT_SUCCESS"
  /\ UNCHANGED <<held, failed, masked, sem, cancelled, keep_running, queues, ipc_ok,
                 pending, threads, netVars, envVars>>

\* A faulty stop that does not wait for router_worker.
SkipT3 ==
  /\ mpc = "join_t3" /\ mpc' = "cleanup_t2"
  /\ UNCHANGED <<procVars, keep_running, queues, ipc_ok, pending, threads, netVars,
                 envVars>>

JoinT3 ==
  /\ mpc = "join_t3" /\ mpc' = "cleanup_t2"
  /\ t3 = "done"
  /\ UNCHANGED <<procVars, keep_running, queues, ipc_ok, pending, threads, netVars,
                 envVars>>

\* A faulty stop that counts on signal_worker to end by itself.
NoCancel ==
  /\ mpc = "cleanup_t2" /\ mpc' = "join_t2"
  /\ UNCHANGED <<procVars, keep_running, queues, ipc_ok, pending, threads, netVars,
                 envVars>>

CancelT2 ==
  /\ mpc = "cleanup_t2" /\ mpc' = "join_t2"
  /\ cancelled' = TRUE
  /\ UNCHANGED <<held, failed, ret, masked, sem, keep_running, queues, ipc_ok, pending,
                 threads, netVars, envVars>>

JoinT2 ==
  /\ mpc = "join_t2" /\ mpc' = "cleanup_sem"
  /\ t2 = "done"
  /\ UNCHANGED <<procVars, keep_running, queues, ipc_ok, pending, threads, netVars,
                 envVars>>

Release(at, r, next) == mpc = at /\ mpc' = next /\ held' = held \ r

\* The labels after the joins, in the reverse order of the start.  A private queue
\* that is removed takes its messages along.
Cleanup ==
  /\ \/ Release("cleanup_sem", {"sem"}, "cleanup_pipe") /\ UNCHANGED mainq
     \/ Release("cleanup_pipe", {"pipe_r", "pipe_w"}, "cleanup_shm") /\ UNCHANGED mainq
     \/ Release("cleanup_shm", {"shm"}, "cleanup_main_msq") /\ UNCHANGED mainq
     \/ Release("cleanup_main_msq", {"mainq"}, "cleanup_log") /\ mainq' = << >>
     \/ Release("cleanup_log", {"registry", "log"}, "exit") /\ UNCHANGED mainq
  /\ UNCHANGED <<failed, ret, masked, sem, cancelled, keep_running, ipcq, ipc_ok, pending,
                 threads, netVars, envVars>>

Main ==
  \/ GetResources \/ OpenIpcq \/ MaskSignals \/ StartT2 \/ SemWait \/ StartT3
  \/ StartMgmt \/ MainLoop \/ Quit \/ ClosePipe \/ JoinMgmt \/ JoinT3 \/ CancelT2
  \/ JoinT2 \/ Cleanup

-----------------------------------------------------------------------------
(* signal_worker. *)

\* It blocks the signals, posts the semaphore main waits for, and turns the first
\* SIGINT or SIGTERM into an event.  sigwait and msgsnd are cancellation points.
SignalWorker ==
  /\ \/ t2 = "mask" /\ t2' = "post" /\ UNCHANGED <<failed, sem, pending, mainq>>
     \/ /\ t2 = "mask" /\ "t2_mask" \in Faults /\ t2' = "done"
        /\ failed' = failed \cup {"t2_mask"} /\ UNCHANGED <<sem, pending, mainq>>
     \/ t2 = "post" /\ t2' = "check" /\ sem' = sem + 1 /\ UNCHANGED <<failed, pending, mainq>>
     \/ /\ t2 = "check" /\ t2' = IF keep_running THEN "sigwait" ELSE "done"
        /\ UNCHANGED <<failed, sem, pending, mainq>>
     \/ /\ t2 = "sigwait" /\ pending /\ pending' = FALSE /\ t2' = "send"
        /\ UNCHANGED <<failed, sem, mainq>>
     \/ /\ t2 = "sigwait" /\ "sigwait" \in Faults /\ t2' = "done"
        /\ UNCHANGED <<failed, sem, pending, mainq>>
     \/ t2 = "send" /\ SendMain("signal") /\ t2' = "done" /\ UNCHANGED <<failed, sem, pending>>
     \/ /\ t2 \in {"sigwait", "send"} /\ cancelled /\ t2' = "done"
        /\ UNCHANGED <<failed, sem, pending, mainq>>
  /\ UNCHANGED <<mpc, held, ret, masked, cancelled, keep_running, ipcq, ipc_ok, t3, tm,
                 netVars, envVars>>

-----------------------------------------------------------------------------
(* router_worker. *)

workerRest == <<mpc, failed, ret, masked, sem, cancelled, keep_running, ipc_ok, pending,
                t2, tm, viewer, envVars>>

\* socket, then at most MaxRetries attempts to connect, each followed by a select
\* that waits for the delay or for the closing of the pipe.
Connect ==
  /\ \/ t3 = "socket" /\ t3' = "connect" /\ held' = held \cup {"tcp"} /\ UNCHANGED <<tries, link>>
     \/ t3 = "socket" /\ "socket" \in Faults /\ t3' = "fatal" /\ UNCHANGED <<held, tries, link>>
     \/ t3 = "connect" /\ viewer /\ t3' = "recv" /\ link' = "up" /\ UNCHANGED <<held, tries>>
     \/ t3 = "connect" /\ ~viewer /\ t3' = "select" /\ UNCHANGED <<held, tries, link>>
     \/ t3 = "select" /\ "pipe_w" \notin held /\ t3' = "close" /\ UNCHANGED <<held, tries, link>>
     \/ /\ t3 = "select" /\ "pipe_w" \in held
        /\ tries' = tries + 1
        /\ IF tries' < MaxRetries THEN t3' = "connect" /\ UNCHANGED held
                                  ELSE t3' = "fatal" /\ held' = held \ {"tcp"}
        /\ UNCHANGED link
  /\ UNCHANGED <<workerRest, queues>>

\* One message of the shared queue.  On an invalid queue msgrcv fails at once and
\* the loop spins without doing anything.
Receive ==
  /\ t3 = "recv" /\ ipc_ok /\ ipcq # << >>
  /\ ipcq' = Tail(ipcq)
  /\ t3' = IF Head(ipcq) = "quit" THEN "close" ELSE "send"
  /\ UNCHANGED <<workerRest, held, mainq, tries, link>>

\* send: EPIPE or ECONNRESET, which the second send after the Viewer closed gets,
\* ends the loop; other errors are logged.
Send ==
  /\ t3 = "send"
  /\ \/ link = "up" /\ t3' = "recv" /\ UNCHANGED link
     \/ link = "closed" /\ t3' = "recv" /\ link' = "reset"
     \/ link = "reset" /\ t3' = "sigterm" /\ UNCHANGED link
     \/ "send" \in Faults /\ t3' = "recv" /\ UNCHANGED link
  /\ UNCHANGED <<workerRest, held, queues, tries>>

\* The events the worker sends to main before it ends, and its end.
Finish ==
  /\ \/ t3 = "fatal" /\ SendMain("fatal") /\ t3' = "done" /\ UNCHANGED held
     \/ t3 = "sigterm" /\ SendMain("signal") /\ t3' = "close" /\ UNCHANGED held
     \/ t3 = "close" /\ t3' = "done" /\ held' = held \ {"tcp"} /\ UNCHANGED mainq
  /\ UNCHANGED <<workerRest, ipcq, tries, link>>

RouterWorker == Connect \/ Receive \/ Send \/ Finish

-----------------------------------------------------------------------------
(* mgmt_worker. *)

\* It creates the socket and serves one request per round, with a timeout, until
\* the flag is down.  A shutdown request is an event to main; the answer is sent
\* afterwards.
MgmtWorker ==
  /\ \/ /\ tm = "create" /\ tm' = "check" /\ held' = held \cup {"mgmt_socket"}
        /\ UNCHANGED <<failed, mainq, served>>
     \/ /\ tm = "create" /\ "mgmt_socket" \in Faults /\ tm' = "done"
        /\ failed' = failed \cup {"mgmt_socket"} /\ UNCHANGED <<held, mainq, served>>
     \/ /\ tm = "check" /\ keep_running /\ tm' = "recv"
        /\ UNCHANGED <<held, failed, mainq, served>>
     \/ /\ tm = "check" /\ ~keep_running /\ tm' = "done"
        /\ held' = held \ {"mgmt_socket"} /\ UNCHANGED <<failed, mainq, served>>
     \/ /\ tm = "recv" /\ served.taken < sent.request
        /\ tm' \in {"shutdown", "reply"}
        /\ served' = [served EXCEPT !.taken = @ + 1]
        /\ UNCHANGED <<held, failed, mainq>>
     \/ /\ tm = "recv" /\ served.taken = sent.request /\ tm' = "check"
        /\ UNCHANGED <<held, failed, mainq, served>>
     \/ tm = "shutdown" /\ SendMain("signal") /\ tm' = "reply" /\ UNCHANGED <<held, failed, served>>
     \/ /\ tm = "reply" /\ tm' = "check"
        /\ served' = [served EXCEPT !.answered = @ + 1]
        /\ UNCHANGED <<held, failed, mainq>>
  /\ UNCHANGED <<mpc, ret, masked, sem, cancelled, keep_running, ipcq, ipc_ok, pending, t2,
                 t3, netVars, sent>>

-----------------------------------------------------------------------------
(* The environment. *)

Count(what, max) == sent[what] < max /\ sent' = [sent EXCEPT ![what] = @ + 1]

\* SIGINT or SIGTERM: kills the process until main has blocked it.  The kernel
\* takes back everything but the System V queue.
Signal ==
  /\ mpc \notin Ended
  /\ Count("signal", MaxSignals)
  /\ IF masked THEN pending' = TRUE /\ UNCHANGED <<mpc, held>>
               ELSE mpc' = "killed" /\ held' = held \cap {"mainq"} /\ UNCHANGED pending
  /\ UNCHANGED <<failed, ret, masked, sem, cancelled, keep_running, queues, ipc_ok, threads,
                 netVars, served>>

\* The Collector sends a notification with IPC_NOWAIT.
CollectorNotify ==
  /\ mpc \notin Ended
  /\ Count("notify", MaxNotify)
  /\ ipcq' = IF Len(ipcq) < QCap THEN Append(ipcq, "notify") ELSE ipcq
  /\ UNCHANGED <<mpc, procVars, keep_running, mainq, ipc_ok, pending, threads, netVars, served>>

\* A Collector starts and reads the shared queue empty (Collector/src/main.c).
CollectorStart ==
  /\ mpc \notin Ended
  /\ Count("purge", MaxPurge)
  /\ ipcq' = << >>
  /\ UNCHANGED <<mpc, procVars, keep_running, mainq, ipc_ok, pending, threads, netVars, served>>

MgmtRequest ==
  /\ "mgmt_socket" \in held
  /\ Count("request", MaxRequests)
  /\ UNCHANGED <<mpc, procVars, keep_running, queues, ipc_ok, pending, threads, netVars, served>>

\* The Viewer starts, or ends and closes its connections.
ViewerChange ==
  /\ mpc \notin Ended
  /\ viewer' = ~viewer
  /\ link' = IF viewer /\ link = "up" THEN "closed" ELSE link
  /\ UNCHANGED <<mpc, procVars, keep_running, queues, ipc_ok, pending, threads, tries, envVars>>

Environment ==
  Signal \/ CollectorNotify \/ CollectorStart \/ MgmtRequest \/ ViewerChange

Next == Main \/ SignalWorker \/ RouterWorker \/ MgmtWorker \/ Environment

Spec == Init /\ [][Next]_vars

\* The scheduler runs every thread that is not blocked.  That a blocked msgrcv or
\* sigwait may fail is no promise that it does.
MainRuns == Main /\ (mpc = "loop" /\ keep_running => mainq # << >>)
SignalRuns == SignalWorker /\ (t2 = "sigwait" => pending \/ cancelled)

FairSpec ==
  /\ Spec
  /\ WF_vars(MainRuns) /\ WF_vars(SignalRuns) /\ WF_vars(RouterWorker) /\ WF_vars(MgmtWorker)

-----------------------------------------------------------------------------
(* Properties. *)

Live(pc) == pc \notin {"none", "done"}

\* What the live threads use is not yet released: main gives back the queue, the
\* shared memory, the pipe, the semaphore and the handler registry only after it
\* has joined their users, on every way out of main (main.c:359-426).
NoUseAfterRelease ==
  /\ Live(t2) => {"mainq", "sem", "log"} \subseteq held
  /\ Live(t3) => {"mainq", "shm", "pipe_r", "log"} \subseteq held
  /\ Live(tm) => {"mainq", "registry", "log"} \subseteq held

\* However main ends, everything it and its threads had acquired is released, every
\* request taken from the management socket is answered, the shutdown request that
\* ends the process included (EdgeCase_TestCases.md, 5-9), and the exit status is a
\* failure exactly when a call of the start it checks had failed (README.md:218;
\* main.c:145, 365, 396-427).
CleanExit ==
  mpc = "exit" =>
    /\ held = {} /\ served.taken = served.answered
    /\ ret = "EXIT_FAILURE" <=> failed \cap Checked # {}

\* The worker ends on a SHM_QUIT only if this main wants to stop: a SHM_QUIT that an
\* earlier Router left in the shared queue ends no worker (main.c:167).
QuitMeansStopping ==
  [][t3 = "recv" /\ t3' = "close" => ~keep_running]_vars

\* The ways in which main is left waiting for good.  SHM_QUIT does not fit in the shared
\* queue, and the worker that would make room has ended; a starting Collector has purged
\* every SHM_QUIT, or there is no shared queue, and the worker main joins goes on; the
\* signal thread has ended before it posted the semaphore.
QuitBlocked ==
  mpc \in {"quit1", "quit2", "nm_quit"} /\ t3 = "done" /\ Len(ipcq) = QCap
QuitLost ==
  mpc = "join_t3" /\ t3 = "recv" /\ (~ipc_ok \/ \A i \in 1 .. Len(ipcq) : ipcq[i] # "quit")
NotReady == mpc = "sem_wait" /\ t2 = "done" /\ sem = 0
Stuck == QuitBlocked \/ QuitLost \/ NotReady

\* After an error of sigwait nobody takes signals, and main runs on.
Deaf == t2 = "done" /\ mpc = "loop" /\ keep_running /\ mainq = << >>

\* A signal, the failure of the worker or a shutdown request ends the process
\* (BasicSpecification.text:116; EdgeCase_TestCases.md, 4-1 and 5-9), except in the
\* states Stuck and Deaf, and so does the failure of a call of the start that main
\* checks (README.md:218), except in Stuck.  Assumed besides: the worker's shm_api_read
\* and send return (nobody was killed with the mutex, the Viewer reads), and the signal
\* thread is not cancelled inside syslog, with the mutex of the logger (Logger).
StopEnds ==
  /\ (pending \/ t3 \in {"fatal", "sigterm"} \/ tm = "shutdown") ~>
       (mpc \in Ended \/ Stuck \/ Deaf)
  /\ (failed \cap Checked # {}) ~> (mpc \in Ended \/ Stuck)

-----------------------------------------------------------------------------
(* The inductive invariant behind the safety properties. *)

\* Where main is tells which resources are held: the labels of the stop undo the
\* steps of the start one by one.
TmAt == {"loop", "quit1", "close1", "close2", "quit2", "join_tm"}
T3At == TmAt \cup {"registry", "register", "tm", "nm_quit", "nm_close", "join_t3"}
T2At == T3At \cup {"sem_wait", "t3", "cleanup_t2", "join_t2"}
SemAt == T2At \cup {"mask", "t2", "cleanup_sem"}
PipeAt == SemAt \cup {"sem", "cleanup_pipe"}
ShmAt == PipeAt \cup {"pipe", "cleanup_shm"}
MainqAt == ShmAt \cup {"ipcq", "shm", "cleanup_main_msq"}
LogAt == MainqAt \cup {"mainq", "cleanup_log"}

HeldWhile ==
  mpc # "killed" =>
    /\ "log" \in held <=> mpc \in LogAt
    /\ "mainq" \in held <=> mpc \in MainqAt
    /\ "shm" \in held <=> mpc \in ShmAt
    /\ "pipe_r" \in held <=> mpc \in PipeAt
    /\ "pipe_w" \in held => mpc \in PipeAt
    /\ "sem" \in held <=> mpc \in SemAt
    /\ "registry" \in held => mpc \in LogAt
    /\ mpc \in TmAt \cup {"register", "tm"} => "registry" \in held
    /\ "tcp" \in held <=> t3 \notin {"none", "socket", "fatal", "done"}
    /\ "mgmt_socket" \in held <=> tm \notin {"none", "create", "done"}

LiveWhile ==
  /\ Live(t2) => mpc \in T2At
  /\ Live(t3) => mpc \in T3At
  /\ Live(tm) => mpc \in TmAt
  /\ ~masked => t2 = "none" /\ t3 = "none" /\ tm = "none"
  /\ mpc \in T2At \cup {"t2"} => masked
  /\ mpc \in Starting \ T2At => t2 = "none"
  /\ mpc \in Starting \ T3At => t3 = "none"
  /\ mpc \in Starting => tm = "none"

Counters ==
  /\ t2 \in {"none", "mask", "post"} => sem = 0
  /\ t3 \in {"none", "socket", "connect", "select"} => tries < MaxRetries
  /\ sent.request <= MaxRequests /\ served.taken <= sent.request
  /\ served.taken = served.answered + IF tm \in {"shutdown", "reply"} THEN 1 ELSE 0

\* SHM_QUIT is in the shared queue only once main has taken the flag down.
QuitSent ==
  /\ ipc_ok /\ keep_running => \A i \in 1 .. Len(ipcq) : ipcq[i] # "quit"
  /\ mpc \in {"quit1", "quit2", "nm_quit"} => ~keep_running

ExitStatus ==
  /\ mpc \in Starting \cup TmAt => ret = "EXIT_FAILURE" /\ failed \cap Checked = {}
  /\ mpc \in {"nm_quit", "nm_close"} => ret = "EXIT_FAILURE"
  /\ mpc \notin Starting \cup TmAt \cup {"killed"} =>
       (ret = "EXIT_FAILURE" <=> failed \cap Checked # {})

RInv ==
  /\ TypeOK
  /\ HeldWhile
  /\ LiveWhile
  /\ Counters
  /\ QuitSent
  /\ ExitStatus

=============================================================================
