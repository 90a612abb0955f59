------------------------------- MODULE Viewer -------------------------------
(***************************************************************************)
(* The Viewer as a process: main starts a signal thread, a TCP server and  *)
(* a management thread, sleeps on a condition variable until one of them   *)
(* asks for the end, wakes them all and joins them (Viewer/src).           *)
(*                                                                         *)
(* Every change of shutdown_requested and signal_thread_ready, and the     *)
(* pthread_cond_signal that follows it, happens under ctx.mtx, and main    *)
(* tests the flags and goes to sleep under the same mutex: each is one     *)
(* step here.  The TCP worker reads shutdown_requested without the mutex.  *)
(***************************************************************************)
EXTENDS Integers

CONSTANTS
  MaxSignals,   \* SIGINT/SIGTERM sent to the process
  MaxRequests,  \* requests sent to the management socket
  Faults        \* what may go wrong

\* The calls of the start that main checks, those nobody acts on, and a SIGUSR1
\* that does not come from main.
Checked == {"pipe", "registry", "register", "tm"}
Unchecked == {"t_sig", "tcp", "poll", "mgmt_socket"}

ASSUME ViewerAssumption ==
  /\ MaxSignals \in Nat /\ MaxRequests \in Nat
  /\ Faults \subseteq Checked \cup Unchecked \cup {"usr1"}

VARIABLES
  mpc,       \* where main is
  cond,      \* main has "tested" a flag and holds ctx.mtx, or is "asleep" on ctx.cond
  held,      \* the resources the process holds
  failed,    \* the calls of the start that have failed
  signal_thread_ready, shutdown_requested,  \* the flags of AppContext
  mgmt_running,  \* g_mgmt_running
  piped,     \* a byte is in the shutdown pipe
  term, usr1,  \* SIGINT or SIGTERM, and SIGUSR1, are pending
  tsig, ttcp, tm,  \* where the threads are
  served,    \* requests taken, and answers sent
  sent       \* signals and requests sent so far

flags == <<signal_thread_ready, shutdown_requested>>
stops == <<mgmt_running, piped>>
pendings == <<term, usr1>>
threads == <<tsig, ttcp, tm>>
vars == <<mpc, cond, held, failed, flags, stops, pendings, threads, served, sent>>

Starting == {"pipe", "t_sig", "ready", "t_tcp", "registry", "register", "tm"}
Stopping == {"stop", "kill", "write", "join_sig", "join_tcp", "join_tm", "close"}

FlagsOK ==
  /\ cond \in {"none", "tested", "asleep"}
  /\ signal_thread_ready \in BOOLEAN /\ shutdown_requested \in BOOLEAN
  /\ mgmt_running \in BOOLEAN /\ piped \in BOOLEAN /\ term \in BOOLEAN /\ usr1 \in BOOLEAN
SetsOK ==
  /\ held \subseteq {"log", "pipe", "registry", "server", "client", "mgmt_socket"}
  /\ failed \subseteq Checked \cup Unchecked
PlacesOK ==
  /\ mpc \in Starting \cup {"mgmt_failed", "wait", "exit"} \cup Stopping
  /\ tsig \in {"none", "ready", "sigwait", "done"}
  /\ ttcp \in {"none", "setup", "check", "poll", "done"}
  /\ tm \in {"none", "create", "check", "recv", "shutdown", "request", "reply", "done"}
CountsOK ==
  /\ served \in [{"taken", "answered"} -> 0 .. MaxRequests]
  /\ sent \in [{"signal", "request"} -> Nat]

TypeOK == FlagsOK /\ SetsOK /\ PlacesOK /\ CountsOK

Init ==
  /\ mpc = "pipe" /\ cond = "none" /\ held = {"log"} /\ failed = {}
  /\ signal_thread_ready = FALSE /\ shutdown_requested = FALSE
  /\ mgmt_running = TRUE /\ piped = FALSE /\ term = FALSE /\ usr1 = FALSE
  /\ tsig = "none" /\ ttcp = "none" /\ tm = "none"
  /\ served = [taken |-> 0, answered |-> 0]
  /\ sent = [signal |-> 0, request |-> 0]

Fail(call) == call \in Faults /\ failed' = failed \cup {call}

\* A faulty request for the end that does not take the mutex.
UnlockedRequest ==
  shutdown_requested' = TRUE /\ cond' = IF cond = "asleep" THEN "none" ELSE cond

\* shutdown_requested = 1 and pthread_cond_signal, under the mutex.
RequestShutdown == cond # "tested" /\ shutdown_requested' = TRUE /\ cond' = "none"

-----------------------------------------------------------------------------
(* main. *)

\* pipe, whose failure ends main at once; the creation of the signal thread, whose
\* result nobody looks at.
StartSignals ==
  /\ \/ mpc = "pipe" /\ mpc' = "t_sig" /\ held' = held \cup {"pipe"} /\ UNCHANGED <<failed, tsig>>
     \/ mpc = "pipe" /\ Fail("pipe") /\ mpc' = "exit" /\ held' = {} /\ UNCHANGED tsig
     \/ mpc = "t_sig" /\ mpc' = "ready" /\ tsig' = "ready" /\ UNCHANGED <<held, failed>>
     \/ mpc = "t_sig" /\ Fail("t_sig") /\ mpc' = "ready" /\ UNCHANGED <<held, tsig>>
  /\ UNCHANGED <<cond, flags, stops, pendings, ttcp, tm, served, sent>>

\* main tests flag with the mutex in hand and goes on to next, or keeps the mutex until
\* pthread_cond_wait has put it to sleep.
CondWait(at, flag, next) ==
  /\ mpc = at
  /\ \/ cond = "none" /\ flag /\ mpc' = next /\ UNCHANGED cond
     \/ cond = "none" /\ ~flag /\ cond' = "tested" /\ UNCHANGED mpc
     \/ cond = "tested" /\ cond' = "asleep" /\ UNCHANGED mpc

WaitFlags ==
  /\ \/ CondWait("ready", signal_thread_ready, "t_tcp")
     \/ CondWait("wait", shutdown_requested, "stop")
  /\ UNCHANGED <<held, failed, flags, stops, pendings, threads, served, sent>>

\* The TCP worker, the handler registry and the management thread.
StartWorkers ==
  /\ \/ mpc = "t_tcp" /\ mpc' = "registry" /\ ttcp' = "setup" /\ UNCHANGED <<held, failed, tm>>
     \/ /\ mpc = "registry" /\ mpc' = "register" /\ held' = held \cup {"registry"}
        /\ UNCHANGED <<failed, ttcp, tm>>
     \/ mpc = "register" /\ mpc' = "tm" /\ UNCHANGED <<held, failed, ttcp, tm>>
     \/ mpc = "tm" /\ mpc' = "wait" /\ tm' = "create" /\ UNCHANGED <<held, failed, ttcp>>
     \/ /\ mpc \in {"registry", "register", "tm"} /\ Fail(mpc) /\ mpc' = "mgmt_failed"
        /\ UNCHANGED <<held, ttcp, tm>>
  /\ UNCHANGED <<cond, flags, stops, pendings, tsig, served, sent>>

\* A failure of the management part takes the ordinary way out.
MgmtFailed ==
  /\ mpc = "mgmt_failed" /\ mpc' = "wait"
  /\ RequestShutdown
  /\ UNCHANGED <<held, failed, signal_thread_ready, stops, pendings, threads, served, sent>>

\* A faulty stop that does not write to the pipe.
StopNoWrite ==
  /\ \/ mpc = "stop" /\ mpc' = "kill" /\ mgmt_running' = FALSE /\ UNCHANGED <<usr1, piped>>
     \/ mpc = "kill" /\ mpc' = "write" /\ usr1' = TRUE /\ UNCHANGED stops
     \/ mpc = "write" /\ mpc' = "join_sig" /\ UNCHANGED <<usr1, stops>>
  /\ UNCHANGED <<cond, held, failed, flags, term, threads, served, sent>>

\* The three ways to stop a thread: a flag, SIGUSR1, a byte in the pipe.
StopThreads ==
  /\ \/ mpc = "stop" /\ mpc' = "kill" /\ mgmt_running' = FALSE /\ UNCHANGED <<usr1, piped>>
     \/ mpc = "kill" /\ mpc' = "write" /\ usr1' = TRUE /\ UNCHANGED stops
     \/ mpc = "write" /\ mpc' = "join_sig" /\ piped' = TRUE /\ UNCHANGED <<usr1, mgmt_running>>
  /\ UNCHANGED <<cond, held, failed, flags, term, threads, served, sent>>

\* A faulty stop that leaves the management thread alone.
JoinTwo ==
  /\ \/ mpc = "join_sig" /\ tsig = "done" /\ mpc' = "join_tcp"
     \/ mpc = "join_tcp" /\ ttcp = "done" /\ mpc' = "close"
  /\ UNCHANGED <<cond, held, failed, flags, stops, pendings, threads, served, sent>>

\* The management thread is joined if it was created.
Join ==
  /\ \/ mpc = "join_sig" /\ tsig = "done" /\ mpc' = "join_tcp"
     \/ mpc = "join_tcp" /\ ttcp = "done" /\ mpc' = "join_tm"
     \/ mpc = "join_tm" /\ tm \in {"none", "done"} /\ mpc' = "close"
  /\ UNCHANGED <<cond, held, failed, flags, stops, pendings, threads, served, sent>>

\* Both ends of the pipe, the registry and the log.
Close ==
  /\ mpc = "close" /\ mpc' = "exit"
  /\ held' = held \ {"pipe", "registry", "log"}
  /\ UNCHANGED <<cond, failed, flags, stops, pendings, threads, served, sent>>

Main ==
  StartSignals \/ WaitFlags \/ StartWorkers \/ MgmtFailed \/ StopThreads \/ Join \/ Close

-----------------------------------------------------------------------------
(* signal_worker. *)

\* It reports that it is ready, then takes signals with sigwait: SIGINT and SIGTERM
\* ask main for the end, SIGUSR1 ends the thread.
SignalWorker ==
  /\ \/ /\ tsig = "ready" /\ tsig' = "sigwait" /\ cond # "tested"
        /\ signal_thread_ready' = TRUE /\ cond' = "none"
        /\ UNCHANGED <<shutdown_requested, term, usr1>>
     \/ /\ tsig = "sigwait" /\ term /\ term' = FALSE
        /\ RequestShutdown
        /\ UNCHANGED <<signal_thread_ready, tsig, usr1>>
     \/ /\ tsig = "sigwait" /\ usr1 /\ usr1' = FALSE /\ tsig' = "done"
        /\ UNCHANGED <<cond, flags, term>>
  /\ UNCHANGED <<mpc, held, failed, stops, ttcp, tm, served, sent>>

-----------------------------------------------------------------------------
(* tcp_worker. *)

\* A faulty end of the worker that forgets the client's socket.
ServeLeak ==
  /\ \/ ttcp = "setup" /\ ttcp' = "check" /\ held' = held \cup {"server"} /\ UNCHANGED failed
     \/ ttcp = "setup" /\ Fail("tcp") /\ ttcp' = "done" /\ UNCHANGED held
     \/ ttcp = "check" /\ ~shutdown_requested /\ ttcp' = "poll" /\ UNCHANGED <<held, failed>>
     \/ /\ (ttcp = "check" /\ shutdown_requested) \/ (ttcp = "poll" /\ piped)
        /\ ttcp' = "done" /\ held' = held \ {"server"} /\ UNCHANGED failed
     \/ ttcp = "poll" /\ Fail("poll") /\ ttcp' = "done" /\ held' = held \ {"server"}
  /\ UNCHANGED <<mpc, cond, flags, stops, pendings, tsig, tm, served, sent>>

\* socket, bind and listen, whose failure ends the thread without a word; the loop
\* test; the byte in the pipe, or an error of poll, which end it too.
Serve ==
  /\ \/ ttcp = "setup" /\ ttcp' = "check" /\ held' = held \cup {"server"} /\ UNCHANGED failed
     \/ ttcp = "setup" /\ Fail("tcp") /\ ttcp' = "done" /\ UNCHANGED held
     \/ ttcp = "check" /\ ~shutdown_requested /\ ttcp' = "poll" /\ UNCHANGED <<held, failed>>
     \/ /\ (ttcp = "check" /\ shutdown_requested) \/ (ttcp = "poll" /\ piped)
        /\ ttcp' = "done" /\ held' = held \ {"server", "client"} /\ UNCHANGED failed
     \/ ttcp = "poll" /\ Fail("poll") /\ ttcp' = "done" /\ held' = held \ {"server", "client"}
  /\ UNCHANGED <<mpc, cond, flags, stops, pendings, tsig, tm, served, sent>>

\* poll returns for a connection while there is no client, or for data or the end
\* of the stream from the one client.
Network ==
  /\ ttcp = "poll" /\ ~piped
  /\ ttcp' = "check"
  /\ \/ "client" \notin held /\ held' \in {held, held \cup {"client"}}
     \/ "client" \in held /\ held' \in {held, held \ {"client"}}
  /\ UNCHANGED <<mpc, cond, failed, flags, stops, pendings, tsig, tm, served, sent>>

-----------------------------------------------------------------------------
(* mgmt_worker and handler_shutdown. *)

\* The answer goes out after the handler has run, whatever keep_running says by then.
Reply ==
  /\ tm = "reply" /\ tm' = "check"
  /\ served' = [served EXCEPT !.answered = @ + 1]
  /\ UNCHANGED <<cond, held, failed, shutdown_requested, mgmt_running>>

\* The socket, whose failure ends the thread; the loop test; one second of waiting
\* for a request; handler_shutdown in its two steps.
MgmtWorker ==
  /\ \/ /\ tm = "create" /\ tm' = "check" /\ held' = held \cup {"mgmt_socket"}
        /\ UNCHANGED <<cond, failed, shutdown_requested, mgmt_running, served>>
     \/ /\ tm = "create" /\ Fail("mgmt_socket") /\ tm' = "done"
        /\ UNCHANGED <<cond, held, shutdown_requested, mgmt_running, served>>
     \/ /\ tm = "check" /\ mgmt_running /\ tm' = "recv"
        /\ UNCHANGED <<cond, held, failed, shutdown_requested, mgmt_running, served>>
     \/ /\ tm = "check" /\ ~mgmt_running /\ tm' = "done" /\ held' = held \ {"mgmt_socket"}
        /\ UNCHANGED <<cond, failed, shutdown_requested, mgmt_running, served>>
     \/ /\ tm = "recv" /\ served.taken = sent.request /\ tm' = "check"
        /\ UNCHANGED <<cond, held, failed, shutdown_requested, mgmt_running, served>>
     \/ /\ tm = "recv" /\ served.taken < sent.request
        /\ tm' \in {"shutdown", "reply"}
        /\ served' = [served EXCEPT !.taken = @ + 1]
        /\ UNCHANGED <<cond, held, failed, shutdown_requested, mgmt_running>>
     \/ /\ tm = "shutdown" /\ tm' = "request" /\ mgmt_running' = FALSE
        /\ UNCHANGED <<cond, held, failed, shutdown_requested, served>>
     \/ /\ tm = "request" /\ tm' = "reply" /\ RequestShutdown
        /\ UNCHANGED <<held, failed, mgmt_running, served>>
     \/ Reply
  /\ UNCHANGED <<mpc, signal_thread_ready, piped, pendings, tsig, ttcp, sent>>

-----------------------------------------------------------------------------
(* The environment. *)

\* SIGINT or SIGTERM; a SIGUSR1 from outside; a spurious wake-up.  main has blocked
\* the signals before anything else, so they stay pending until sigwait.
Signals ==
  /\ mpc # "exit"
  /\ \/ /\ sent.signal < MaxSignals /\ sent' = [sent EXCEPT !.signal = @ + 1]
        /\ term' = TRUE /\ UNCHANGED <<usr1, cond>>
     \/ "usr1" \in Faults /\ usr1' = TRUE /\ UNCHANGED <<term, cond, sent>>
     \/ cond = "asleep" /\ cond' = "none" /\ UNCHANGED <<term, usr1, sent>>
  /\ UNCHANGED <<mpc, held, failed, flags, stops, threads, served>>

Request ==
  /\ "mgmt_socket" \in held
  /\ sent.request < MaxRequests /\ sent' = [sent EXCEPT !.request = @ + 1]
  /\ UNCHANGED <<mpc, cond, held, failed, flags, stops, pendings, threads, served>>

Next == Main \/ SignalWorker \/ Serve \/ Network \/ MgmtWorker \/ Signals \/ Request

Spec == Init /\ [][Next]_vars

\* The scheduler runs every thread that is not blocked.  That a blocked poll may
\* fail is no promise that it does.  SF: main may take ctx.mtx again and again, at each
\* spurious wake-up, but whoever waits for it gets it in the end.
ServeRuns == Serve /\ (ttcp = "poll" => piped)

FairSpec ==
  Spec /\ WF_vars(Main) /\ SF_vars(SignalWorker) /\ WF_vars(ServeRuns) /\ SF_vars(MgmtWorker)

-----------------------------------------------------------------------------
(* Properties. *)

Live(pc) == pc \notin {"none", "done"}

\* main never sleeps through a request: it is not blocked in pthread_cond_wait once the
\* flag it waits for is up, although it tests the flag one step before it sleeps
\* (main.c:66-71, 119-124).
NoLostWakeup ==
  cond = "asleep" => \/ mpc = "ready" /\ ~signal_thread_ready
                     \/ mpc = "wait" /\ ~shutdown_requested

\* The pipe, the registry and the log outlive the threads that use them
\* (main.c:142-159).
NoUseAfterClose ==
  /\ Live(tsig) => "log" \in held
  /\ Live(ttcp) => {"pipe", "log"} \subseteq held
  /\ Live(tm) => {"registry", "log"} \subseteq held

\* However main ends, every socket, the pipe, the registry and the log are closed,
\* the client that was connected at that moment included (tcp_worker.c:129-133), and every
\* management request that was taken is answered, the shutdown request that ends the
\* process included (EdgeCase_TestCases.md, 5-10).
CleanExit == mpc = "exit" => held = {} /\ served.taken = served.answered

\* Nobody takes signals: the signal thread was not created, or a SIGUSR1 that main
\* did not send has ended it.
Deaf ==
  \/ "t_sig" \in failed
  \/ tsig = "done" /\ mpc \in Starting \cup {"mgmt_failed", "wait"}

\* A shutdown request (EdgeCase_TestCases.md:80) and the failure of a call main checks
\* (README.md:218) end the process, whatever else fails; SIGINT or SIGTERM does as long
\* as somebody takes signals (BasicSpecification.text:116).
StopEnds ==
  /\ (tm = "shutdown" \/ failed \cap Checked # {}) ~> (mpc = "exit")
  /\ term ~> (mpc = "exit" \/ Deaf)

=============================================================================
