----------------------------- MODULE Collector ------------------------------
(***************************************************************************)
(* The Collector as a process: one thread that acquires its resources,     *)
(* waits in poll for datagrams and management requests, and a signal       *)
(* handler that clears g_keep_running (Collector/src).  What a datagram    *)
(* does to the shared memory and the queue is in module Relay; here it     *)
(* matters only whether shm_api_write returns, in the default build, whose *)
(* mutex is not robust.                                                    *)
(***************************************************************************)
EXTENDS Integers

CONSTANTS
  MaxEvents,  \* datagrams, and requests, that arrive
  Faults      \* the calls that may fail

\* The calls of the start, in order; main checks all but the first.
Start == <<"msgget", "shm", "registry", "register", "mgmt_socket", "udp">>
Calls == {Start[i] : i \in 1 .. 6}

ASSUME CollectorAssumption == MaxEvents \in Nat /\ Faults \subseteq Calls \cup {"poll"}

VARIABLES
  cpc,       \* where main is
  held,      \* the resources it holds
  failed,    \* the calls of the start that have failed
  ret,       \* main's return value, -1 before it returns
  keep_running,  \* g_keep_running
  waiting,   \* datagrams and requests in the sockets
  revents,   \* what poll reported
  answers,   \* requests taken, and answered
  sent,      \* datagrams and requests so far
  stranded   \* a process was killed while it held the mutex of the shared memory

vars == <<cpc, held, failed, ret, keep_running, waiting, revents, answers, sent, stranded>>

Fds == {"udp", "mgmt"}

TypeOK ==
  /\ cpc \in Calls \cup {"while", "before_poll", "poll", "handle_udp", "shm_write",
                         "handle_mgmt", "shutdown", "reply", "close", "exit"}
  /\ held \subseteq {"log", "shm", "registry", "mgmt_socket", "udp"}
  /\ failed \subseteq Calls /\ ret \in {-1, 0, 1} /\ keep_running \in BOOLEAN
  /\ waiting \in [Fds -> 0 .. MaxEvents] /\ revents \subseteq Fds
  /\ answers \in [{"taken", "given"} -> 0 .. MaxEvents]
  /\ sent \in [Fds -> 0 .. MaxEvents] /\ stranded \in BOOLEAN

\* The signal handlers and the log are there.
Init ==
  /\ cpc = "msgget" /\ held = {"log"} /\ failed = {} /\ ret = -1 /\ keep_running = TRUE
  /\ waiting = [f \in Fds |-> 0] /\ revents = {}
  /\ answers = [taken |-> 0, given |-> 0] /\ sent = [f \in Fds |-> 0]
  /\ stranded = FALSE

-----------------------------------------------------------------------------
(* main. *)

After(call) == LET i == CHOOSE i \in 1 .. 6 : Start[i] = call
               IN IF i = 6 THEN "while" ELSE Start[i + 1]

\* A call succeeds.  Registering the handlers acquires nothing, and the message
\* queue is never released.
Acquire ==
  /\ cpc \in Calls
  /\ cpc' = After(cpc)
  /\ held' = held \cup ({cpc} \ {"msgget", "register"})
  /\ UNCHANGED <<failed, ret, keep_running, waiting, revents, answers, sent, stranded>>

\* A faulty table in which a failed bind of the UDP port forgets the socket of the
\* management commands.
ReleasedShort(call) ==
  {"log"} \cup (IF call = "shm" THEN {} ELSE {"shm"})
          \cup (IF call \in {"shm", "registry"} THEN {} ELSE {"registry"})

\* What main releases when call has failed.
Released(call) ==
  {"log"} \cup (IF call = "shm" THEN {} ELSE {"shm"})
          \cup (IF call \in {"shm", "registry"} THEN {} ELSE {"registry"})
          \cup (IF call = "udp" THEN {"mgmt_socket"} ELSE {})

\* Without the message queue main goes on, and every notification fails.
AcquireFails ==
  /\ cpc \in Calls \cap Faults
  /\ failed' = failed \cup {cpc}
  /\ IF cpc = "msgget"
       THEN cpc' = After(cpc) /\ UNCHANGED <<held, ret>>
       ELSE cpc' = "exit" /\ ret' = 1 /\ held' = held \ Released(cpc)
  /\ UNCHANGED <<keep_running, waiting, revents, answers, sent, stranded>>

\* A faulty loop that does not test the flag.
WhileTrue ==
  /\ cpc = "while" /\ cpc' = "before_poll"
  /\ UNCHANGED <<held, failed, ret, keep_running, waiting, revents, answers, sent, stranded>>

\* The loop test, the call of poll, and its return.  An error of poll ends the loop.
While ==
  /\ cpc = "while"
  /\ cpc' = IF keep_running THEN "before_poll" ELSE "close"
  /\ UNCHANGED <<held, failed, ret, keep_running, waiting, revents, answers, sent, stranded>>

Poll ==
  /\ \/ cpc = "before_poll" /\ cpc' = "poll" /\ UNCHANGED revents
     \/ /\ cpc = "poll" /\ cpc' = "handle_udp"
        /\ revents' = {f \in Fds : waiting[f] > 0} /\ revents' # {}
     \/ cpc = "poll" /\ "poll" \in Faults /\ cpc' = "close" /\ UNCHANGED revents
  /\ UNCHANGED <<held, failed, ret, keep_running, waiting, answers, sent, stranded>>

\* handle_udp_read: a datagram that is not empty goes to shm_api_write.
HandleUdp ==
  /\ cpc = "handle_udp"
  /\ IF "udp" \in revents
       THEN /\ waiting' = [waiting EXCEPT !["udp"] = @ - 1]
            /\ cpc' \in {"shm_write", "handle_mgmt"}
       ELSE cpc' = "handle_mgmt" /\ UNCHANGED waiting
  /\ UNCHANGED <<held, failed, ret, keep_running, revents, answers, sent, stranded>>

\* shm_api_write returns, and the notification is sent with IPC_NOWAIT.  A mutex whose
\* owner was killed blocks pthread_mutex_lock for ever, and no signal ends that wait.
ShmWrite ==
  /\ cpc = "shm_write" /\ ~stranded /\ cpc' = "handle_mgmt"
  /\ UNCHANGED <<held, failed, ret, keep_running, waiting, revents, answers, sent, stranded>>

\* handler_shutdown.
HandlerShutdown ==
  /\ cpc = "shutdown" /\ cpc' = "reply" /\ keep_running' = FALSE
  /\ UNCHANGED <<held, failed, ret, waiting, revents, answers, sent, stranded>>

\* A faulty answer that is sent until it is given up.
ReplyTwice ==
  /\ cpc = "reply" /\ cpc' \in {"reply", "while"}
  /\ answers' = [answers EXCEPT !.given = @ + 1]
  /\ UNCHANGED <<held, failed, ret, keep_running, waiting, revents, sent, stranded>>

Reply ==
  /\ cpc = "reply" /\ cpc' = "while"
  /\ answers' = [answers EXCEPT !.given = @ + 1]
  /\ UNCHANGED <<held, failed, ret, keep_running, waiting, revents, sent, stranded>>

\* mgmt_socket_process_one: the request is for the shutdown or for something else.
HandleMgmt ==
  /\ cpc = "handle_mgmt"
  /\ IF "mgmt" \in revents
       THEN /\ waiting' = [waiting EXCEPT !["mgmt"] = @ - 1]
            /\ answers' = [answers EXCEPT !.taken = @ + 1]
            /\ cpc' \in {"shutdown", "reply"}
       ELSE cpc' = "while" /\ UNCHANGED <<waiting, answers>>
  /\ UNCHANGED <<held, failed, ret, keep_running, revents, sent, stranded>>

Close ==
  /\ cpc = "close" /\ cpc' = "exit" /\ ret' = 0
  /\ held' = held \ {"shm", "udp", "mgmt_socket", "registry", "log"}
  /\ UNCHANGED <<failed, keep_running, waiting, revents, answers, sent, stranded>>

Main == Acquire \/ AcquireFails \/ While \/ Poll \/ HandleUdp \/ ShmWrite \/ HandleMgmt
          \/ HandlerShutdown \/ Reply \/ Close

-----------------------------------------------------------------------------
(* The environment. *)

\* SIGINT or SIGTERM: sig_handler clears the flag.  A poll that is blocked returns
\* EINTR, which ends the loop; one that has something to report may report it.
Signal ==
  /\ cpc # "exit" /\ keep_running' = FALSE
  /\ \/ cpc = "poll" /\ cpc' = "close"
     \/ (cpc = "poll" => \E f \in Fds : waiting[f] > 0) /\ UNCHANGED cpc
  /\ UNCHANGED <<held, failed, ret, waiting, revents, answers, sent, stranded>>

Arrive(f) ==
  /\ (IF f = "udp" THEN "udp" ELSE "mgmt_socket") \in held
  /\ sent[f] < MaxEvents
  /\ sent' = [sent EXCEPT ![f] = @ + 1] /\ waiting' = [waiting EXCEPT ![f] = @ + 1]
  /\ UNCHANGED <<cpc, held, failed, ret, keep_running, revents, answers, stranded>>

\* The Router is killed between its lock and its unlock, at any time: the memory outlives
\* every process, and so does the lock word.
OwnerKilled ==
  /\ stranded' = TRUE
  /\ UNCHANGED <<cpc, held, failed, ret, keep_running, waiting, revents, answers, sent>>

Next == Main \/ Signal \/ (\E f \in Fds : Arrive(f)) \/ OwnerKilled

Spec == Init /\ [][Next]_vars

\* The scheduler runs the only thread unless poll or the mutex blocks it.  That a blocked
\* poll may fail is no promise that it does.  Relay's WriteEnds is why a mutex whose owner
\* lives does not block it for good.
MainRuns == Main /\ (cpc = "poll" => \E f \in Fds : waiting[f] > 0)

FairSpec == Spec /\ WF_vars(MainRuns)

-----------------------------------------------------------------------------
(* Properties. *)

\* Whichever call fails, and however the loop ends, main releases what it acquired, has
\* answered every request it took, the one that ends it included ("レスポンス送信後にルー
\* プが終了するよう", mgmt_handlers.c:43), and reports a failure of the start (README.md:218).
CleanExit ==
  cpc = "exit" =>
    /\ held = {} /\ answers.taken = answers.given
    /\ ret = 1 <=> failed \ {"msgget"} # {}

\* The only thread waits for a mutex that nobody will give back (poll_io.c:65).
Blocked == cpc = "shm_write" /\ stranded

\* A shutdown request ends the process (EdgeCase_TestCases.md:78), and so does SIGINT or
\* SIGTERM (BasicSpecification.text:116): a signal is seen by the next test of the flag,
\* or interrupts poll.  One that came between that test and poll takes effect when
\* something else arrives (poll_io.c:115-117).  A process killed with the mutex of the shared
\* memory makes the Collector's next write, and with it the stop, wait for ever.
StopEnds ==
  (\/ cpc = "shutdown"
   \/ ~keep_running /\ cpc \notin {"before_poll", "poll"}
   \/ ~keep_running /\ \E f \in Fds : waiting[f] > 0) ~> (cpc = "exit" \/ Blocked)

=============================================================================
