---------------------------- MODULE RouterProofs ----------------------------
(***************************************************************************)
(* Theorems about Router: the safety properties hold for every capacity of *)
(* the queues, any number of retries, signals, requests, notifications and *)
(* Collector starts, and whichever calls fail.                             *)
(***************************************************************************)
EXTENDS Router, TLAPS

-----------------------------------------------------------------------------
(* What the steps leave alone, and that each of them keeps the type invariant, one
   conjunct after the other. *)

\* What the queue operations do to a queue of elements of S.
LEMMA QueueFacts ==
  ASSUME NEW S
  PROVE  /\ << >> \in Seq(S) /\ Len(<< >>) = 0
         /\ \A s \in Seq(S) : s # << >> => Tail(s) \in Seq(S) /\ Len(Tail(s)) < Len(s)
         /\ \A s \in Seq(S), e \in S :
              Append(s, e) \in Seq(S) /\ Len(Append(s, e)) = Len(s) + 1
OBVIOUS

\* What the start of main leaves alone until a thread runs.
LEMMA StartFrame ==
  GetResources \/ OpenIpcq \/ MaskSignals
  => UNCHANGED <<t2, t3, tm, sem, tries, served, sent>>
  BY Zenon DEF GetResources, OpenIpcq, MaskSignals, threads, netVars, envVars

\* What the stop of main leaves alone: everything of the other threads.
LEMMA StopFrame ==
  MainLoop \/ Quit \/ ClosePipe \/ JoinMgmt \/ JoinT3 \/ CancelT2 \/ JoinT2 \/ Cleanup
  => UNCHANGED <<t2, t3, tm, sem, masked, failed, ipc_ok, pending, tries, viewer, link,
                 served, sent>>
  BY Zenon DEF MainLoop, Quit, ClosePipe, JoinMgmt, JoinT3, CancelT2, JoinT2, Cleanup,
         procVars, threads, netVars, envVars

\* What the Collector, the Viewer and the clients of the management socket leave
\* alone: everything of the process but its queue, its connection and the requests.
LEMMA OutsideFrame ==
  \/ CollectorNotify \/ CollectorStart \/ MgmtRequest \/ ViewerChange
  \/ UNCHANGED vars
  => UNCHANGED <<mpc, held, failed, ret, masked, sem, cancelled, keep_running, mainq,
                 ipc_ok, pending, t2, t3, tm, tries, served>>
  BY Zenon DEF CollectorNotify, CollectorStart, MgmtRequest, ViewerChange, vars, procVars,
         queues, threads, netVars, envVars

\* What router_worker leaves alone.
LEMMA WorkerFrame ==
  RouterWorker
  => UNCHANGED <<mpc, failed, ret, masked, sem, cancelled, keep_running, ipc_ok,
                 pending, t2, tm, viewer, served, sent>>
  BY Zenon DEF RouterWorker, Connect, Receive, Send, Finish, workerRest, envVars

\* Sending one thing counts that one and no other.
LEMMA CountFacts ==
  ASSUME NEW what \in {"notify", "purge", "signal", "request"}, NEW max, CountsOK,
         Count(what, max)
  PROVE  /\ sent[what] < max
         /\ sent'[what] = sent[what] + 1
         /\ \A w \in {"notify", "purge", "signal", "request"} \ {what} :
              sent'[w] = sent[w]
         /\ sent' \in [{"notify", "purge", "signal", "request"} -> Nat]
  BY DEF Count, CountsOK

\* A step keeps the private queue within its capacity.
LEMMA MainqStep == RInv /\ [Next]_vars => MainqOK'
<1> SUFFICES ASSUME RInv, [Next]_vars PROVE MainqOK'
  OBVIOUS
<1> USE RouterAssumption
<1> USE DEF procVars, threads, queues, netVars, envVars, RInv, TypeOK, MainqOK, Events
<1>1. CASE MainLoop
  BY <1>1 DEF MainLoop
<1>2. CASE Cleanup
  <2>1. mainq' = mainq \/ mainq' = << >>
    BY <1>2, Zenon DEF Cleanup, Release
  <2>2. << >> \in Seq(Events) /\ Len(<< >>) <= MainCap
    BY QueueFacts
  <2> QED
    BY <2>1, <2>2, Zenon
<1>3. CASE SignalWorker
  BY <1>3 DEF SignalWorker, SendMain
<1>4. CASE Finish
  BY <1>4 DEF Finish, workerRest, SendMain
<1>5. CASE MgmtWorker
  <2>1. \/ UNCHANGED mainq
        \/ Len(mainq) < MainCap /\ mainq' = Append(mainq, "signal")
    BY <1>5, Zenon DEF MgmtWorker, SendMain
  <2> QED
    BY <2>1, QueueFacts
<1>6. CASE \/ GetResources \/ OpenIpcq \/ MaskSignals \/ StartT2 \/ SemWait
           \/ StartT3 \/ StartMgmt \/ Quit \/ ClosePipe \/ JoinMgmt \/ JoinT3
           \/ CancelT2 \/ JoinT2 \/ Connect \/ Receive \/ Send \/ Signal
           \/ CollectorNotify \/ CollectorStart \/ MgmtRequest \/ ViewerChange
           \/ UNCHANGED vars
  BY <1>6, Zenon
     DEF GetResources, Acquire, OpenIpcq, MaskSignals, StartT2, SemWait, StartT3,
         StartMgmt, Quit, SendQuit, ClosePipe, JoinMgmt, JoinT3, CancelT2, JoinT2,
         Connect, workerRest, Receive, Send, Signal, Count, CollectorNotify,
         CollectorStart, MgmtRequest, ViewerChange, vars
<1> QED
  BY <1>1, <1>2, <1>3, <1>4, <1>5, <1>6, Zenon
     DEF Next, Main, RouterWorker, Environment

\* A step keeps the shared queue within its capacity.
LEMMA IpcqStep == RInv /\ [Next]_vars => IpcqOK'
<1> SUFFICES ASSUME RInv, [Next]_vars PROVE IpcqOK'
  OBVIOUS
<1> USE RouterAssumption
<1> USE DEF procVars, threads, queues, netVars, envVars, RInv, TypeOK, IpcqOK,
            Messages
<1>1. CASE OpenIpcq
  <2>1. ipcq' = ipcq \/ ipcq' = << >>
    BY <1>1, Zenon DEF OpenIpcq
  <2>2. << >> \in Seq(Messages) /\ Len(<< >>) <= QCap
    BY QueueFacts
  <2> QED
    BY <2>1, <2>2, Zenon
<1>2. CASE Quit
  BY <1>2 DEF Quit, SendQuit
<1>3. CASE Receive
  BY <1>3 DEF Receive, workerRest
<1>4. CASE CollectorNotify
  BY <1>4 DEF CollectorNotify, Count
<1>5. CASE CollectorStart
  BY <1>5 DEF CollectorStart, Count
<1>6. CASE \/ GetResources \/ MaskSignals \/ StartT2 \/ SemWait \/ StartT3
           \/ StartMgmt \/ MainLoop \/ ClosePipe \/ JoinMgmt \/ JoinT3 \/ CancelT2
           \/ JoinT2 \/ Cleanup \/ SignalWorker \/ Connect \/ Send \/ Finish
           \/ MgmtWorker \/ Signal \/ MgmtRequest \/ ViewerChange \/ UNCHANGED vars
  BY <1>6, Zenon DEF GetResources, Acquire, MaskSignals, StartT2, SemWait, StartT3,
         StartMgmt, MainLoop, ClosePipe, JoinMgmt, JoinT3, CancelT2, JoinT2, Cleanup,
         Release, SignalWorker, Connect, workerRest, Send, Finish, MgmtWorker, Signal,
         Count, MgmtRequest, ViewerChange, vars
<1> QED
  BY <1>1, <1>2, <1>3, <1>4, <1>5, <1>6, Zenon
     DEF Next, Main, RouterWorker, Environment

\* A step acquires known resources and records known calls.
LEMMA SetsStep == RInv /\ [Next]_vars => SetsOK'
<1> SUFFICES ASSUME RInv, [Next]_vars PROVE SetsOK'
  OBVIOUS
<1> USE RouterAssumption
<1> USE DEF procVars, threads, queues, netVars, envVars, RInv, TypeOK, SetsOK,
            Resources, Checked, Unchecked
<1>1. CASE GetResources
  BY <1>1, Zenon DEF GetResources, Acquire
<1>2. CASE OpenIpcq
  BY <1>2, Zenon DEF OpenIpcq
<1>3. CASE MaskSignals \/ StartT2 \/ SemWait \/ StartT3 \/ StartMgmt
  BY <1>3, Zenon DEF MaskSignals, Acquire, StartT2, SemWait, StartT3, StartMgmt
<1>4. CASE ClosePipe \/ Cleanup
  BY <1>4, Zenon DEF ClosePipe, Cleanup, Release
<1>5. CASE SignalWorker
  BY <1>5, Zenon DEF SignalWorker, SendMain
<1>6. CASE Connect \/ Finish
  BY <1>6, Zenon DEF Connect, workerRest, Finish, SendMain
<1>7. CASE MgmtWorker
  BY <1>7, Zenon DEF MgmtWorker, SendMain
<1>8. CASE Signal
  BY <1>8, Zenon DEF Signal, Count
<1>9. CASE \/ MainLoop \/ Quit \/ JoinMgmt \/ JoinT3 \/ CancelT2 \/ JoinT2 \/ Receive
           \/ Send \/ CollectorNotify \/ CollectorStart \/ MgmtRequest
           \/ ViewerChange \/ UNCHANGED vars
  BY <1>9, Zenon DEF MainLoop, Quit, SendQuit, JoinMgmt, JoinT3, CancelT2, JoinT2, Receive,
         workerRest, Send, CollectorNotify, Count, CollectorStart, MgmtRequest,
         ViewerChange, vars
<1> QED
  BY <1>1, <1>2, <1>3, <1>4, <1>5, <1>6, <1>7, <1>8, <1>9, Zenon
     DEF Next, Main, RouterWorker, Environment

\* A step keeps the flags Boolean.
LEMMA FlagsStep == RInv /\ [Next]_vars => FlagsOK'
<1> SUFFICES ASSUME RInv, [Next]_vars PROVE FlagsOK'
  OBVIOUS
<1> USE RouterAssumption
<1> USE DEF procVars, threads, queues, netVars, envVars, RInv, TypeOK, FlagsOK
<1>1. CASE MaskSignals \/ StartMgmt
  BY <1>1, Zenon DEF MaskSignals, Acquire, StartMgmt
<1>2. CASE MainLoop \/ ClosePipe
  BY <1>2, Zenon DEF MainLoop, ClosePipe
<1>3. CASE SignalWorker
  BY <1>3, Zenon DEF SignalWorker, SendMain
<1>4. CASE ViewerChange
  BY <1>4, Zenon DEF ViewerChange
<1>5. CASE GetResources \/ OpenIpcq \/ StartT2 \/ SemWait \/ StartT3
  BY <1>5, Zenon DEF GetResources, OpenIpcq, StartT2, SemWait, StartT3
<1>6. CASE Quit \/ JoinMgmt \/ JoinT3 \/ CancelT2 \/ JoinT2 \/ Cleanup
  BY <1>6, Zenon DEF Quit, JoinMgmt, JoinT3, CancelT2, JoinT2, Cleanup
<1>7. CASE RouterWorker
  BY <1>7, WorkerFrame, Zenon
<1>8. CASE MgmtWorker
  BY <1>8, Zenon DEF MgmtWorker
<1>9. CASE Signal
  BY <1>9, Zenon DEF Signal
<1>10. CASE CollectorNotify \/ CollectorStart \/ MgmtRequest \/ UNCHANGED vars
  BY <1>10, Zenon DEF CollectorNotify, CollectorStart, MgmtRequest, vars
<1> QED
  BY <1>1, <1>2, <1>3, <1>4, <1>5, <1>6, <1>7, <1>8, <1>9, <1>10, Zenon
     DEF Next, Main, Environment

\* A step takes main and the threads to places of theirs.
LEMMA PlacesStep == RInv /\ [Next]_vars => PlacesOK'
<1> SUFFICES ASSUME RInv, [Next]_vars PROVE PlacesOK'
  OBVIOUS
<1> USE RouterAssumption
<1> USE DEF procVars, threads, queues, netVars, envVars, RInv, TypeOK, PlacesOK,
            Starting, Running, Stopping, Ended
<1>1. CASE GetResources
  BY <1>1 DEF GetResources, Acquire
<1>2. CASE OpenIpcq
  BY <1>2 DEF OpenIpcq
<1>3. CASE MaskSignals
  BY <1>3 DEF MaskSignals, Acquire
<1>4. CASE StartT2
  BY <1>4, Zenon DEF StartT2, Acquire
<1>5. CASE SemWait
  BY <1>5 DEF SemWait, Acquire
<1>6. CASE StartT3
  BY <1>6, Zenon DEF StartT3, Acquire
<1>7. CASE StartMgmt
  BY <1>7 DEF StartMgmt, Acquire
<1>8. CASE SignalWorker
  BY <1>8 DEF SignalWorker, SendMain
<1>9. CASE Connect \/ Receive \/ Send \/ Finish
  BY <1>9 DEF Connect, workerRest, Receive, Send, Finish, SendMain
<1>10. CASE MgmtWorker
  BY <1>10 DEF MgmtWorker, SendMain
<1>11. CASE MainLoop \/ Quit \/ ClosePipe
  <2>1. mpc' \in Running \cup Stopping
    BY <1>11, Zenon DEF MainLoop, Quit, ClosePipe
  <2> QED
    BY <1>11, <2>1, StopFrame
<1>12. CASE JoinMgmt \/ JoinT3 \/ CancelT2 \/ JoinT2 \/ Cleanup
  <2>1. mpc' \in Stopping \cup Ended
    BY <1>12, Zenon DEF JoinMgmt, JoinT3, CancelT2, JoinT2, Cleanup, Release
  <2> QED
    BY <1>12, <2>1, StopFrame
<1>13. CASE Signal
  BY <1>13 DEF Signal
<1>14. CASE \/ CollectorNotify \/ CollectorStart \/ MgmtRequest \/ ViewerChange
            \/ UNCHANGED vars
  BY <1>14, OutsideFrame
<1> QED
  BY <1>1, <1>2, <1>3, <1>4, <1>5, <1>6, <1>7, <1>8, <1>9, <1>10, <1>11, <1>12, <1>13,
     <1>14, Zenon
     DEF Next, Main, RouterWorker, Environment

\* A step keeps the counts in range.
LEMMA CountsStep == RInv /\ [Next]_vars => CountsOK'
<1> SUFFICES ASSUME RInv, [Next]_vars PROVE CountsOK'
  OBVIOUS
<1> USE RouterAssumption
<1> USE DEF procVars, threads, queues, netVars, envVars, RInv, TypeOK, CountsOK,
            Counters
<1>1. CASE SemWait
  BY <1>1, Zenon DEF SemWait, Acquire
<1>2. CASE SignalWorker
  BY <1>2 DEF SignalWorker, SendMain
<1>3. CASE Connect
  BY <1>3 DEF Connect, workerRest
<1>4. CASE MgmtWorker
  <2>1. UNCHANGED <<sem, tries, sent>>
    BY <1>4, Zenon DEF MgmtWorker
  <2>2. \/ UNCHANGED served
        \/ served.taken < sent.request /\ served' = [served EXCEPT !.taken = @ + 1]
        \/ tm = "reply" /\ served' = [served EXCEPT !.answered = @ + 1]
    BY <1>4, Zenon DEF MgmtWorker
  <2>3. served.taken < sent.request => served.taken + 1 \in 0 .. MaxRequests
    OBVIOUS
  <2>4. tm = "reply" => served.answered + 1 \in 0 .. MaxRequests
    OBVIOUS
  <2> QED
    BY <2>1, <2>2, <2>3, <2>4, Zenon
<1>5. CASE Signal
  <2>1. sent' \in [{"notify", "purge", "signal", "request"} -> Nat]
    BY <1>5, CountFacts, Zenon DEF Signal
  <2>2. UNCHANGED <<sem, tries, served>>
    BY <1>5, Zenon DEF Signal
  <2> QED
    BY <2>1, <2>2, Zenon
<1>6. CASE CollectorNotify \/ CollectorStart \/ MgmtRequest
  <2>1. sent' \in [{"notify", "purge", "signal", "request"} -> Nat]
    BY <1>6, CountFacts, Zenon DEF CollectorNotify, CollectorStart, MgmtRequest
  <2> QED
    BY <1>6, <2>1, OutsideFrame, Zenon
<1>7. CASE GetResources \/ OpenIpcq \/ MaskSignals
  BY <1>7, StartFrame, Zenon
<1>8. CASE StartT2 \/ StartT3 \/ StartMgmt
  <2>1. UNCHANGED <<sem, tries, served, sent>>
    BY <1>8, Zenon DEF StartT2, StartT3, StartMgmt
  <2> QED
    BY <2>1, Zenon
<1>9. CASE \/ MainLoop \/ Quit \/ ClosePipe \/ JoinMgmt \/ JoinT3 \/ CancelT2 \/ JoinT2
            \/ Cleanup
  BY <1>9, StopFrame, Zenon
<1>10. CASE Receive \/ Send \/ Finish
  <2>1. UNCHANGED tries
    BY <1>10, Zenon DEF Receive, Send, Finish
  <2> QED
    BY <1>10, <2>1, WorkerFrame, Zenon DEF RouterWorker
<1>11. CASE ViewerChange \/ UNCHANGED vars
  <2>1. UNCHANGED <<sem, tries, served, sent>>
    BY <1>11, Zenon DEF ViewerChange, vars
  <2> QED
    BY <2>1, Zenon
<1> HIDE DEF RInv, CountsOK
<1> QED
  BY <1>1, <1>2, <1>3, <1>4, <1>5, <1>6, <1>7, <1>8, <1>9, <1>10, <1>11, Zenon
     DEF Next, Main, RouterWorker, Environment

\* A step keeps the exit status and the state of the connection.
LEMMA RestStep ==
  RInv /\ [Next]_vars =>
    ret' \in {"EXIT_SUCCESS", "EXIT_FAILURE"} /\ link' \in {"none", "up", "closed", "reset"}
<1> SUFFICES ASSUME RInv, [Next]_vars
             PROVE  ret' \in {"EXIT_SUCCESS", "EXIT_FAILURE"} /\ link' \in {"none", "up", "closed", "reset"}
  OBVIOUS
<1> USE RouterAssumption
<1> USE DEF procVars, threads, queues, netVars, envVars, RInv, TypeOK
<1>1. CASE JoinMgmt
  BY <1>1, Zenon DEF JoinMgmt
<1>2. CASE Connect \/ Send
  BY <1>2, Zenon DEF Connect, workerRest, Send
<1>3. CASE ViewerChange
  BY <1>3, Zenon DEF ViewerChange
<1>4. CASE \/ GetResources \/ OpenIpcq \/ MaskSignals \/ StartT2 \/ SemWait
           \/ StartT3 \/ StartMgmt \/ MainLoop \/ Quit \/ ClosePipe \/ JoinT3
           \/ CancelT2 \/ JoinT2 \/ Cleanup \/ SignalWorker \/ Receive \/ Finish
           \/ MgmtWorker \/ Signal \/ CollectorNotify \/ CollectorStart
           \/ MgmtRequest \/ UNCHANGED vars
  BY <1>4, Zenon
     DEF GetResources, Acquire, OpenIpcq, MaskSignals, StartT2, SemWait, StartT3,
         StartMgmt, MainLoop, Quit, SendQuit, ClosePipe, JoinT3, CancelT2, JoinT2,
         Cleanup, Release, SignalWorker, Receive, workerRest, Finish, MgmtWorker,
         Signal, Count, CollectorNotify, CollectorStart, MgmtRequest, vars
<1> QED
  BY <1>1, <1>2, <1>3, <1>4, Zenon
     DEF Next, Main, RouterWorker, Environment

-----------------------------------------------------------------------------
(* Each step keeps the resources held, the threads alive and the counts of requests in
   agreement with the place of main. *)

\* A step acquires or releases what belongs to the place main goes to.
LEMMA HeldStep == RInv /\ [Next]_vars => HeldWhile'
<1> SUFFICES ASSUME RInv, [Next]_vars PROVE HeldWhile'
  OBVIOUS
<1> USE DEF procVars, threads, RInv, HeldWhile
<1>1. CASE Main
  <2> USE DEF LogAt, MainqAt, ShmAt, PipeAt, SemAt, T2At, T3At, TmAt
  <2>1. CASE GetResources
    BY <2>1 DEF GetResources, Acquire
  <2>2. CASE OpenIpcq
    BY <2>2, Zenon DEF OpenIpcq
  <2>3. CASE MaskSignals
    BY <2>3 DEF MaskSignals, Acquire
  <2>4. CASE StartT2
    BY <2>4 DEF StartT2, Acquire
  <2>5. CASE SemWait
    BY <2>5, Zenon DEF SemWait, Acquire
  <2>6. CASE StartT3
    BY <2>6 DEF StartT3, Acquire, LiveWhile, Live, Starting
  <2>7. CASE StartMgmt
    BY <2>7 DEF StartMgmt, Acquire, LiveWhile, Live, Starting
  <2>8. CASE MainLoop
    BY <2>8, Zenon DEF MainLoop
  <2>9. CASE Quit
    BY <2>9, Zenon DEF Quit
  <2>10. CASE ClosePipe
    BY <2>10, Zenon DEF ClosePipe
  <2>11. CASE JoinMgmt \/ JoinT3
    BY <2>11 DEF JoinMgmt, JoinT3
  <2>12. CASE CancelT2 \/ JoinT2
    BY <2>12 DEF CancelT2, JoinT2
  <2>13. CASE Cleanup
    BY <2>13 DEF Cleanup, Release
  <2> HIDE DEF RInv, HeldWhile
  <2> QED
    BY <1>1, <2>1, <2>2, <2>3, <2>4, <2>5, <2>6, <2>7, <2>8, <2>9, <2>10, <2>11, <2>12,
       <2>13, Zenon
       DEF Main
<1>2. CASE SignalWorker
  <2>1. UNCHANGED <<mpc, held, t3, tm>>
    BY <1>2, Zenon DEF SignalWorker
  <2> QED
    BY <2>1, Zenon
<1>3. CASE RouterWorker
  <2>1. \/ held' = held \cup {"tcp"} /\ t3' \notin {"none", "socket", "fatal", "done"}
        \/ held' = held \ {"tcp"} /\ t3' \in {"none", "socket", "fatal", "done"}
        \/ /\ UNCHANGED held
           /\ t3' \in {"none", "socket", "fatal", "done"}
              <=> t3 \in {"none", "socket", "fatal", "done"}
    BY <1>3, Zenon DEF RouterWorker, Connect, Receive, Send, Finish
  <2> QED
    BY <1>3, <2>1, WorkerFrame
<1>4. CASE MgmtWorker
  <2>1. UNCHANGED <<mpc, t3>>
    BY <1>4, Zenon DEF MgmtWorker
  <2>2. \/ held' = held \cup {"mgmt_socket"} /\ tm' \notin {"none", "create", "done"}
        \/ held' = held \ {"mgmt_socket"} /\ tm' \in {"none", "create", "done"}
        \/ /\ UNCHANGED held
           /\ tm' \in {"none", "create", "done"} <=> tm \in {"none", "create", "done"}
    BY <1>4, Zenon DEF MgmtWorker
  <2> QED
    BY <2>1, <2>2
<1>5. CASE Signal
  <2>1. UNCHANGED <<mpc, held, t3, tm>> \/ mpc' = "killed"
    BY <1>5, Zenon DEF Signal
  <2> QED
    BY <2>1, Zenon
<1>6. CASE \/ CollectorNotify \/ CollectorStart \/ MgmtRequest \/ ViewerChange
           \/ UNCHANGED vars
  BY <1>6, OutsideFrame, Zenon
<1> HIDE DEF RInv, HeldWhile
<1> QED
  BY <1>1, <1>2, <1>3, <1>4, <1>5, <1>6, Zenon DEF Next, Environment

\* A step lets a thread live only where main has not yet joined it.
LEMMA LiveStep == RInv /\ [Next]_vars => LiveWhile'
<1> SUFFICES ASSUME RInv, [Next]_vars PROVE LiveWhile'
  OBVIOUS
<1> USE DEF threads, procVars, RInv, LiveWhile, Live
<1>1. CASE GetResources \/ OpenIpcq
  <2>1. UNCHANGED <<masked, t2, t3, tm>>
    BY <1>1, Zenon DEF GetResources, OpenIpcq
  <2>2. /\ mpc \in {"mainq", "ipcq", "shm", "pipe", "sem"}
        /\ mpc' \in {"ipcq", "shm", "pipe", "sem", "mask", "cleanup_log",
                     "cleanup_main_msq", "cleanup_shm", "cleanup_pipe"}
    BY <1>1, Zenon DEF GetResources, OpenIpcq, Acquire
  <2> QED
    BY <2>1, <2>2, Zenon DEF Starting, T2At, T3At, TmAt
<1>2. CASE MaskSignals
  BY <1>2, Zenon DEF MaskSignals, Acquire, Starting, T2At, T3At, TmAt
<1>3. CASE StartT2
  BY <1>3, Zenon DEF StartT2, Acquire, Starting, T2At, T3At, TmAt
<1>4. CASE SemWait
  BY <1>4, Zenon DEF SemWait, Acquire, Starting, T2At, T3At, TmAt
<1>5. CASE StartT3
  BY <1>5, Zenon DEF StartT3, Acquire, Starting, T2At, T3At, TmAt
<1>6. CASE StartMgmt
  BY <1>6, Zenon DEF StartMgmt, Acquire, Starting, T2At, T3At, TmAt
<1>7. CASE MainLoop \/ Quit \/ ClosePipe
  <2>1. \/ mpc \in TmAt /\ mpc' \in TmAt
        \/ mpc \in {"nm_quit", "nm_close"} /\ mpc' \in {"nm_close", "join_t3"}
    BY <1>7, Zenon DEF MainLoop, Quit, ClosePipe, TmAt
  <2> QED
    BY <1>7, <2>1, StopFrame, Zenon DEF Starting, T2At, T3At, TmAt
<1>8. CASE JoinMgmt
  BY <1>8, Zenon DEF JoinMgmt, Starting, T2At, T3At, TmAt
<1>9. CASE JoinT3
  BY <1>9, Zenon DEF JoinT3, Starting, T2At, T3At, TmAt
<1>10. CASE CancelT2
  BY <1>10, Zenon DEF CancelT2, Starting, T2At, T3At, TmAt
<1>11. CASE JoinT2
  BY <1>11, Zenon DEF JoinT2, Starting, T2At, T3At, TmAt
<1>12. CASE Cleanup
  <2>1. /\ mpc \in {"cleanup_sem", "cleanup_pipe", "cleanup_shm", "cleanup_main_msq",
                    "cleanup_log"}
        /\ mpc' \in {"cleanup_pipe", "cleanup_shm", "cleanup_main_msq", "cleanup_log",
                     "exit"}
    BY <1>12, Zenon DEF Cleanup, Release
  <2> QED
    BY <1>12, <2>1, StopFrame, Zenon DEF Starting, T2At, T3At, TmAt
<1>13. CASE SignalWorker
  <2>1. UNCHANGED <<mpc, masked, t3, tm>> /\ t2 \notin {"none", "done"}
    BY <1>13, Zenon DEF SignalWorker
  <2> QED
    BY <2>1, Zenon
<1>14. CASE RouterWorker
  <2>1. t3 \notin {"none", "done"}
    BY <1>14, Zenon DEF RouterWorker, Connect, Receive, Send, Finish
  <2> QED
    BY <1>14, <2>1, WorkerFrame, Zenon
<1>15. CASE MgmtWorker
  <2>1. UNCHANGED <<mpc, masked, t2, t3>> /\ tm \notin {"none", "done"}
    BY <1>15, Zenon DEF MgmtWorker
  <2> QED
    BY <2>1, Zenon
<1>16. CASE Signal
  <2>1. UNCHANGED <<masked, t2, t3, tm>>
    BY <1>16, Zenon DEF Signal
  <2>2. mpc' = mpc \/ (~masked /\ mpc' = "killed")
    BY <1>16, Zenon DEF Signal
  <2> QED
    BY <2>1, <2>2 DEF Starting, T2At, T3At, TmAt
<1>17. CASE \/ CollectorNotify \/ CollectorStart \/ MgmtRequest \/ ViewerChange
            \/ UNCHANGED vars
  BY <1>17, OutsideFrame, Zenon
<1> HIDE DEF RInv, LiveWhile
<1> QED
  BY <1>1, <1>2, <1>3, <1>4, <1>5, <1>6, <1>7, <1>8, <1>9, <1>10, <1>11, <1>12, <1>13,
     <1>14, <1>15, <1>16, <1>17, Zenon
     DEF Next, Main, Environment

\* A step keeps the counters in range, and answers in step with requests.
LEMMA CountersStep == RInv /\ [Next]_vars => Counters'
<1> SUFFICES ASSUME RInv, [Next]_vars PROVE Counters'
  OBVIOUS
<1> USE RouterAssumption
<1> USE DEF procVars, threads, netVars, envVars, RInv, TypeOK, CountsOK, Counters
<1>1. CASE StartT2
  BY <1>1, Zenon DEF StartT2, Acquire, LiveWhile, Starting, T2At, T3At, TmAt
<1>2. CASE SemWait
  BY <1>2 DEF SemWait, Acquire
<1>3. CASE StartT3
  BY <1>3, Zenon DEF StartT3, Acquire, LiveWhile, Starting, T3At, TmAt
<1>4. CASE StartMgmt
  BY <1>4, Zenon DEF StartMgmt, Acquire, LiveWhile, Starting
<1>5. CASE SignalWorker
  BY <1>5, Zenon DEF SignalWorker, SendMain
<1>6. CASE Connect
  BY <1>6, Zenon DEF Connect, workerRest
<1>7. CASE Receive \/ Send \/ Finish
  <2>1. UNCHANGED tries /\ t3' \notin {"none", "socket", "connect", "select"}
    BY <1>7, Zenon DEF Receive, Send, Finish
  <2> QED
    BY <1>7, <2>1, WorkerFrame, Zenon DEF RouterWorker
<1>8. CASE MgmtWorker
  <2>1. UNCHANGED <<t2, t3, sem, tries, sent>>
    BY <1>8, Zenon DEF MgmtWorker
  <2>2. CASE tm = "recv" /\ served.taken < sent.request
    <3>1. served' = [served EXCEPT !.taken = @ + 1] /\ tm' \in {"shutdown", "reply"}
      BY <1>8, <2>2 DEF MgmtWorker
    <3>2. served'.taken = served.taken + 1 /\ served'.answered = served.answered
      BY <3>1, Zenon
    <3> QED
      BY <2>1, <2>2, <3>1, <3>2
  <2>3. CASE tm = "reply"
    <3>1. served' = [served EXCEPT !.answered = @ + 1] /\ tm' = "check"
      BY <1>8, <2>3, Zenon DEF MgmtWorker
    <3>2. served'.answered = served.answered + 1 /\ served'.taken = served.taken
      BY <3>1, Zenon
    <3> QED
      BY <2>1, <2>3, <3>1, <3>2
  <2>4. CASE tm # "reply" /\ ~(tm = "recv" /\ served.taken < sent.request)
    <3>1. UNCHANGED served
      BY <1>8, <2>4, Zenon DEF MgmtWorker
    <3>2. tm' \in {"shutdown", "reply"} <=> tm \in {"shutdown", "reply"}
      BY <1>8, <2>4, Zenon DEF MgmtWorker
    <3> QED
      BY <2>1, <3>1, <3>2, Zenon
  <2> QED
    BY <2>2, <2>3, <2>4, Zenon
<1>9. CASE Signal
  <2>1. UNCHANGED <<t2, t3, tm, sem, tries, served>>
    BY <1>9, Zenon DEF Signal
  <2>2. sent'.request = sent.request
    BY <1>9, CountFacts, Zenon DEF Signal
  <2> QED
    BY <2>1, <2>2, Zenon
<1>10. CASE CollectorNotify \/ CollectorStart
  <2>1. sent'.request = sent.request
    BY <1>10, CountFacts, Zenon DEF CollectorNotify, CollectorStart
  <2> QED
    BY <1>10, <2>1, OutsideFrame, Zenon
<1>11. CASE MgmtRequest
  <2>1. sent.request < MaxRequests /\ sent'.request = sent.request + 1
    BY <1>11, CountFacts, Zenon DEF MgmtRequest
  <2> QED
    BY <1>11, <2>1, OutsideFrame
<1>12. CASE GetResources \/ OpenIpcq \/ MaskSignals
  BY <1>12, StartFrame, Zenon
<1>13. CASE \/ MainLoop \/ Quit \/ ClosePipe \/ JoinMgmt \/ JoinT3 \/ CancelT2 \/ JoinT2
            \/ Cleanup
  BY <1>13, StopFrame, Zenon
<1>14. CASE ViewerChange \/ UNCHANGED vars
  <2>1. UNCHANGED <<t2, t3, tm, sem, tries, served, sent>>
    BY <1>14, Zenon DEF ViewerChange, vars
  <2> QED
    BY <2>1, Zenon
<1> HIDE DEF RInv, Counters
<1> QED
  BY <1>1, <1>2, <1>3, <1>4, <1>5, <1>6, <1>7, <1>8, <1>9, <1>10, <1>11, <1>12, <1>13,
     <1>14, Zenon
     DEF Next, Main, RouterWorker, Environment

-----------------------------------------------------------------------------
(* The queues, the resources in use, and the theorems. *)

\* A step puts SHM_QUIT in the queue only with the flag down.
LEMMA QuitStep == RInv /\ [Next]_vars => QuitSent'
<1> SUFFICES ASSUME RInv, [Next]_vars PROVE QuitSent'
  OBVIOUS
<1> USE RouterAssumption
<1> USE DEF procVars, threads, queues, netVars, envVars, RInv, TypeOK, FlagsOK,
            IpcqOK, QuitSent, Messages
<1>1. CASE GetResources
  BY <1>1, Zenon DEF GetResources, Acquire
<1>2. CASE MaskSignals
  BY <1>2, Zenon DEF MaskSignals, Acquire
<1>3. CASE StartT2
  BY <1>3, Zenon DEF StartT2, Acquire
<1>4. CASE SemWait
  BY <1>4, Zenon DEF SemWait, Acquire
<1>5. CASE StartT3
  BY <1>5, Zenon DEF StartT3, Acquire
<1>6. CASE JoinMgmt
  BY <1>6, Zenon DEF JoinMgmt
<1>7. CASE JoinT3 \/ CancelT2 \/ JoinT2
  BY <1>7 DEF JoinT3, CancelT2, JoinT2
<1>8. CASE Cleanup
  BY <1>8, Zenon DEF Cleanup, Release
<1>9. CASE Signal
  BY <1>9, Zenon DEF Signal, Count
<1>10. CASE OpenIpcq
  BY <1>10 DEF OpenIpcq
<1>11. CASE StartMgmt
  BY <1>11, Zenon DEF StartMgmt, Acquire
<1>12. CASE MainLoop
  BY <1>12 DEF MainLoop
<1>13. CASE Quit
  BY <1>13, Zenon DEF Quit, SendQuit
<1>14. CASE ClosePipe
  BY <1>14 DEF ClosePipe
<1>15. CASE Receive
  BY <1>15 DEF Receive, workerRest
<1>16. CASE CollectorNotify
  BY <1>16 DEF CollectorNotify, Count
<1>17. CASE CollectorStart
  BY <1>17 DEF CollectorStart, Count
<1>18. CASE \/ SignalWorker \/ Connect \/ Send \/ Finish \/ MgmtWorker \/ MgmtRequest
            \/ ViewerChange \/ UNCHANGED vars
  <2>1. UNCHANGED <<mpc, ipcq, ipc_ok, keep_running>>
    BY <1>18, Zenon DEF SignalWorker, Connect, workerRest, Send, Finish, MgmtWorker,
           MgmtRequest, Count, ViewerChange, vars
  <2>2. QuitSent
    OBVIOUS
  <2> HIDE DEF RInv, TypeOK, FlagsOK, IpcqOK
  <2> QED
    BY <2>1, <2>2, Zenon
<1> QED
  BY <1>1, <1>2, <1>3, <1>4, <1>5, <1>6, <1>7, <1>8, <1>9, <1>10, <1>11, <1>12, <1>13,
     <1>14, <1>15, <1>16, <1>17, <1>18, Zenon
     DEF Next, Main, RouterWorker, Environment

\* A step keeps the exit status and the failed calls together.
LEMMA StatusStep == RInv /\ [Next]_vars => ExitStatus'
<1> SUFFICES ASSUME RInv, [Next]_vars PROVE ExitStatus'
  OBVIOUS
<1> USE RouterAssumption
<1> USE DEF procVars, threads, RInv, ExitStatus
<1>1. CASE GetResources
  BY <1>1, Zenon DEF GetResources, Acquire, Checked, Starting, TmAt
<1>2. CASE OpenIpcq
  BY <1>2, Zenon DEF OpenIpcq, Checked, Starting, TmAt
<1>3. CASE MaskSignals
  BY <1>3, Zenon DEF MaskSignals, Acquire, Checked, Starting, TmAt
<1>4. CASE StartT2
  BY <1>4, Zenon DEF StartT2, Acquire, Checked, Starting, TmAt
<1>5. CASE SemWait
  BY <1>5, Zenon DEF SemWait, Acquire, Checked, Starting, TmAt
<1>6. CASE StartT3
  BY <1>6, Zenon DEF StartT3, Acquire, Checked, Starting, TmAt
<1>7. CASE StartMgmt
  BY <1>7, Zenon DEF StartMgmt, Acquire, Checked, Starting, TmAt
<1>8. CASE MainLoop \/ Quit \/ ClosePipe
  <2>1. UNCHANGED <<failed, ret>>
    BY <1>8, Zenon DEF MainLoop, Quit, ClosePipe
  <2>2. \/ mpc \in TmAt /\ mpc' \in TmAt
        \/ mpc = "nm_quit" /\ mpc' = "nm_close"
        \/ mpc = "nm_close" /\ mpc' = "join_t3"
    BY <1>8, Zenon DEF MainLoop, Quit, ClosePipe, TmAt
  <2> QED
    BY <2>1, <2>2, Zenon DEF Starting, TmAt
<1>9. CASE JoinMgmt
  BY <1>9, Zenon DEF JoinMgmt, Checked, Starting, TmAt
<1>10. CASE JoinT3 \/ CancelT2 \/ JoinT2 \/ Cleanup
  <2>1. UNCHANGED <<failed, ret>>
    BY <1>10, Zenon DEF JoinT3, CancelT2, JoinT2, Cleanup
  <2>2. mpc \in Stopping /\ mpc' \in Stopping \cup {"exit"}
    BY <1>10, Zenon DEF JoinT3, CancelT2, JoinT2, Cleanup, Release, Stopping
  <2> QED
    BY <2>1, <2>2, Zenon DEF Starting, Stopping, TmAt
<1>11. CASE SignalWorker
  <2>1. UNCHANGED <<mpc, ret>>
    BY <1>11, Zenon DEF SignalWorker
  <2>2. failed' = failed \/ failed' = failed \cup {"t2_mask"}
    BY <1>11, Zenon DEF SignalWorker
  <2>3. failed' \cap Checked = failed \cap Checked
    BY <2>2, Zenon DEF Checked
  <2> QED
    BY <2>1, <2>3, Zenon
<1>12. CASE MgmtWorker
  <2>1. UNCHANGED <<mpc, ret>>
    BY <1>12, Zenon DEF MgmtWorker
  <2>2. failed' = failed \/ failed' = failed \cup {"mgmt_socket"}
    BY <1>12, Zenon DEF MgmtWorker
  <2>3. failed' \cap Checked = failed \cap Checked
    BY <2>2, Zenon DEF Checked
  <2> QED
    BY <2>1, <2>3, Zenon
<1>13. CASE Signal
  BY <1>13, Zenon DEF Signal, Starting, TmAt
<1>14. CASE RouterWorker
  BY <1>14, WorkerFrame, Zenon
<1>15. CASE \/ CollectorNotify \/ CollectorStart \/ MgmtRequest \/ ViewerChange
            \/ UNCHANGED vars
  BY <1>15, OutsideFrame, Zenon
<1> HIDE DEF RInv, ExitStatus
<1> QED
  BY <1>1, <1>2, <1>3, <1>4, <1>5, <1>6, <1>7, <1>8, <1>9, <1>10, <1>11, <1>12, <1>13,
     <1>14, <1>15, Zenon
     DEF Next, Main, Environment

\* The invariant holds when main starts.
LEMMA RouterInitially == Init => RInv
<1> SUFFICES ASSUME Init PROVE RInv
  OBVIOUS
<1> USE RouterAssumption
<1>1. MainqOK /\ IpcqOK
  <2>1. MainqOK
    BY DEF Init, MainqOK
  <2>2. CASE ipcq = << >>
    BY <2>1, <2>2 DEF IpcqOK
  <2>3. CASE ipcq = <<"quit">>
    BY <2>1, <2>3 DEF IpcqOK, Messages
  <2> QED
    BY <2>2, <2>3, Zenon DEF Init
<1>2. SetsOK /\ FlagsOK /\ PlacesOK
  BY Zenon DEF Init, SetsOK, FlagsOK, PlacesOK, Resources, Starting
<1>3. CountsOK
  BY DEF Init, CountsOK
<1>4. TypeOK
  BY <1>1, <1>2, <1>3, Zenon DEF TypeOK, Init
<1>5. HeldWhile /\ LiveWhile
  BY Zenon DEF Init, HeldWhile, LiveWhile, Live, LogAt, MainqAt, ShmAt, PipeAt, SemAt, T2At,
         T3At, TmAt, Starting
<1>6. Counters /\ QuitSent
  BY DEF Init, Counters, QuitSent
<1>7. ExitStatus
  BY Zenon DEF Init, ExitStatus, Starting
<1> QED
  BY <1>4, <1>5, <1>6, <1>7, Zenon DEF RInv

\* The invariant is preserved by every step of every thread and the environment.
LEMMA RouterInductive == RInv /\ [Next]_vars => RInv'
BY MainqStep, IpcqStep, SetsStep, FlagsStep, PlacesStep, CountsStep, RestStep, HeldStep,
   LiveStep, CountersStep, QuitStep, StatusStep, Zenon DEF RInv, TypeOK

\* The inductive invariant of the Router holds in every reachable state.
THEOREM RouterInvariant == Spec => []RInv
BY RouterInitially, RouterInductive, PTL DEF Spec

\* The variables keep their types; neither queue exceeds its capacity.
THEOREM RouterType == Spec => []TypeOK
BY RouterInvariant, PTL DEF RInv

\* No thread outlives what it uses, whichever call fails and whenever the stop
\* comes.
THEOREM RouterNoUseAfterRelease == Spec => []NoUseAfterRelease
<1>1. RInv => NoUseAfterRelease
  BY DEF RInv, HeldWhile, LiveWhile, NoUseAfterRelease, LogAt, MainqAt, ShmAt, PipeAt,
         SemAt, T2At, T3At, TmAt
<1> QED
  BY <1>1, RouterInvariant, PTL

\* A main that returns has released everything and reports what happened.
THEOREM RouterCleanExit == Spec => []CleanExit
<1>1. RInv => CleanExit
  <2> SUFFICES ASSUME RInv, mpc = "exit" PROVE CleanExit
    BY Zenon DEF CleanExit
  <2>1. ~Live(t3) /\ ~Live(tm)
    BY Zenon DEF RInv, LiveWhile, T3At, TmAt
  <2>2. \A r \in Resources : r \notin held
    BY <2>1 DEF RInv, TypeOK, PlacesOK, HeldWhile, Live, Resources, LogAt, MainqAt,
                ShmAt, PipeAt, SemAt, T2At, T3At, TmAt
  <2>3. held = {}
    BY <2>2, Zenon DEF RInv, TypeOK, SetsOK
  <2>4. served.taken = served.answered
    BY <2>1 DEF RInv, TypeOK, CountsOK, Counters, Live
  <2> QED
    BY <2>3, <2>4, Zenon DEF RInv, ExitStatus, CleanExit, Starting, TmAt
<1> QED
  BY <1>1, RouterInvariant, PTL

\* Only a SHM_QUIT of this main ends the worker, whatever an earlier Router left in
\* the shared queue.
THEOREM RouterQuitMeansStopping == Spec => QuitMeansStopping
<1>1. RInv /\ [Next]_vars => [t3 = "recv" /\ t3' = "close" => ~keep_running]_vars
  <2> SUFFICES ASSUME RInv, Next, t3 = "recv", t3' = "close" PROVE ~keep_running
    BY Zenon
  <2>1. Receive
    BY Zenon DEF Next, Main, RouterWorker, Environment, GetResources, OpenIpcq, MaskSignals,
           StartT2, SemWait, StartT3, StartMgmt, MainLoop, Quit, ClosePipe, JoinMgmt,
           JoinT3, CancelT2, JoinT2, Cleanup, SignalWorker, Connect, Send, Finish,
           MgmtWorker, Signal, CollectorNotify, CollectorStart, MgmtRequest,
           ViewerChange, threads
  <2>2. ipc_ok /\ ipcq # << >> /\ Head(ipcq) = "quit"
    BY <2>1, Zenon DEF Receive
  <2>3. ipcq \in Seq(Messages)
    BY Zenon DEF RInv, TypeOK, IpcqOK
  <2>4. 1 \in 1 .. Len(ipcq) /\ ipcq[1] = "quit"
    BY <2>2, <2>3
  <2> QED
    BY <2>2, <2>4, Zenon DEF RInv, QuitSent
<1> QED
  BY <1>1, RouterInvariant, PTL DEF Spec, QuitMeansStopping

=============================================================================
