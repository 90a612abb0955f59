# Verification of studyC

TLA+ models of the studyC processes and libraries. TLC checks them on small instances;
TLAPS proves every safety property of the passing runs, and the refinements, for every
value of the constants.
Paths below are relative to the repository (`src/`).

## The system

    UDP --> Collector --(shared memory + System V queue)--> Router --TCP--> Viewer
               ^                                              ^               ^
               +--------------- mgmtctl (UNIX datagram sockets) --------------+

* **Collector** (one thread): `poll` on a UDP and a management socket. A datagram
  overwrites the only slot of the shared memory and is notified with
  `msgsnd(IPC_NOWAIT)`.
* **Router** (four threads): the worker takes notifications, reads the slot and
  sends its value over TCP; a signal thread and a management thread; main waits on
  a private queue and stops the others with a SHM_QUIT message, a pipe,
  `pthread_cancel` and a flag.
* **Viewer** (four threads): a TCP server, a signal thread and a management
  thread; main sleeps on a condition variable and stops the others with SIGUSR1, a
  pipe and a flag.
* **SHM**: the segment and its process-shared mutex, over System V or, with
  `SHM_IMPL=posix` (`env.mk`), over POSIX shared memory (`PosixSHM`).
* **Mgmt**: handler registry,
  socket server, protocol, metrics. **MgmtCtl**: the client. **Common**: the logger.

### Inventory

| part | state | operations | what is hard | what must hold |
|---|---|---|---|---|
| SHM | segment, mutex, slot | init, lock, write, read, close | killed owner, race of the first two users | one owner, no mixed read, recovery |
| data path | slot, queue, TCP link | receive, write, notify, take, read, send | overwritten values, full queue, purges, restarts, kills | the latest value is always on its way |
| Router | resources, two queues, four threads | start, events, stop, release | failing calls, three ways to wake a thread | nothing used after release, always ends |
| Viewer | flags, condition variable, pipe | start, wait, stop, close | wake-ups, early signals | no lost wake-up, nothing used after close, always ends |
| Collector | flag, resources | start, poll loop, close | signal just before `poll`, a write that waits for a dead owner | releases everything, ends |
| registry | array of entries | register, remove, dispatch, reset | entry used after the unlock | right handler, right counts |
| PosixSHM | file, its size, mutex, slot | open, size, wait, map, lock, write, read, close | kills before the size is set, a failing `fstat`, no wait for the mutex | no empty file mapped, same behaviour as SHM |
| socket server, mgmtctl | socket files, requests | send, take, answer, time out | late answers, reused pids, a second instance, a full queue | a reported success is true, no file left |
| logger | context, mutex, counters, tag | log, change, report, close | several threads, a cancelled one, close | exact counts, not freed in use |
| metrics | counters, running average | update, snapshot, reset | rounding, wrap | average within its samples, totals |

## Modules

| module | models | source |
|---|---|---|
| `ShmApi` | the library: `shm_api_init`, `safe_lock`, `shm_api_write`, `shm_api_read`, `shm_api_close`, kills | `SHM/src/shm_api.c` |
| `LatestValue` | abstract: a register that shows values in order and may skip some | - |
| `Relay` | the data path; extends `ShmApi`, implements `LatestValue` | `Collector/src/poll_io.c`, `Router/src/router_worker.c`, both `main.c` |
| `Router` | the process: start, threads, stop | `Router/src/*.c`, `Mgmt/src/mgmt_worker.c` |
| `Viewer` | the process | `Viewer/src/*.c` |
| `Collector` | the process | `Collector/src/*.c` |
| `EventHandler` | the registry | `Mgmt/src/event_handler.c` |
| `PosixShm` | the POSIX library, with a refinement mapping to `ShmApi` | `PosixSHM/src/shm_api.c` |
| `MgmtSocket` | instances of a program and mgmtctl processes over their sockets | `Mgmt/src/mgmt_socket.c`, `MgmtCtl/src/*.c` |
| `Logger` | the logger of a process | `Common/src/unified_logger.c` |
| `Metrics` | the metrics library | `Mgmt/src/metrics_collector.c` |
| `ShmApiProofs`, `PosixShmProofs`, `RelayProofs`, `RouterProofs`, `MgmtSocketProofs`, `LoggerProofs` | theorems about the module each is named after | |
| `CollectorProofs` | theorems about `Collector` and `EventHandler` | |
| `ViewerMetricsProofs` | theorems about `Viewer` and, independently, `Metrics` | |
| `MC*` | instances for TLC | |

How the models correspond to the code:

* **ShmApi.** `spc[p]` is where process p is in a library call, `owner` the lock
  word, `status_code` and `message` the slot. `Robust` chooses the build:
  `PTHREAD_MUTEX_ROBUST` is an enumerator, so `#ifdef` drops the robust code and the
  default build is `Robust = FALSE`. `InitInTime` is the assumption behind the
  `usleep` at line 118: an attacher does not overtake the creator. Errors of
  `pthread_mutex_lock` other than EOWNERDEAD cannot happen here and have no step.
* **Relay.** Datagram n carries value n. `published`, `caughtUp`, `abandoned` and
  `seen` only record history: the last write that returned, what the worker last
  copied, what a purge or a kill may have cost, what the Viewer was sent. The purge
  loop is one step, taken when it finds the queue empty. Zero-length datagrams
  change nothing and are left out. The queue is assumed to exist; its absence is a
  fault of `Router`. A `shm_api_init` that fails is the fault "shm" and ends the start
  of that process.
* **Router.** `mpc` follows the labels of `main`, `held` is the set of resources.
  A call in `Faults` may fail. The read of the shared memory always returns here.
  A signal before the mask is set kills the process ("killed").
* **Viewer.** main tests its flag and goes to sleep in two steps (`cond`), with
  `ctx.mtx` in hand between them; a change of a flag with its `pthread_cond_signal` is one
  step, which waits for that mutex. Spurious wake-ups happen.
* **Collector.** The test of `g_keep_running` and the entry into `poll` are
  separate steps; a signal interrupts only a `poll` that is blocked. So are the receipt of
  a datagram and the `shm_api_write` it leads to. `stranded` says that the Router was
  killed with the mutex of the default build, which the environment may do at any time:
  `shm_api_write` then has no step.
* **EventHandler.** A section between lock and unlock is one step. An owner stands
  for a handler function and its context, which `handler_dispatch` reads separately
  after the unlock. As in the three processes, commands are registered and removed
  before the dispatching threads (`Dispatchers`) start; `MaxDispatches` bounds the calls.
  Keys are whole: a module name of 64 bytes or more would be cut when it is stored (line
  97) and compared uncut (line 72), but the names in use are short. Lookups of unknown
  commands change nothing; `handler_stats` only reads. Latencies are left out.
* **PosixShm.** A model of its own, from `PosixSHM/src/shm_api.c` alone. `file` is the
  name of the memory with its size, `pc[p]` where p is in the library, `slot` the shared
  record. A failing `fstat` ends the wait like the size does (`FstatFails`, recorded in
  `unseen`): the process has then mapped whatever is there (`Blind`), and a later access
  finds the size or ends in SIGBUS (`BlindUse`). A file that is removed while it is open
  never gets its size ("fstat_unlinked"). The mapping to `ShmApi` hides the file: the
  segment exists when the file is sized (`Segment`), a process that opens or waits is
  detached (`Places`), and `InitInTime` is FALSE because nothing waits for the mutex.
* **MgmtSocket.** `path` and `cpath` say whose socket a file names, `fate` what has
  become of each request. `request_id` is always 0, so an answer finds its client by the
  client's path alone, which contains the pid; `Runs` lets a pid be used again. A shutdown
  request clears the flag at once, as in the Collector and the Viewer; the Router's handler
  posts an event to main instead, which here is a ping followed by `SStop`. The
  kernel's part (queues, who listens behind a path, a blocked `sendto`) is external.
* **Logger.** A function is a lock step and an unlock step; the level is read before the
  lock. `++` is a load and a store, which only the mutex keeps together. The Router's
  signal thread may be cancelled in `syslog`. No process changes the level or the tag or
  reads the statistics yet; the threads of the model may.
* **Metrics.** Each function holds the mutex throughout and is one step.
  `CountLimit` and `ValueLimit` stand for 2^32 and 2^64. `MetricsAssumption` takes the
  latencies to be so short, below 2^32 microseconds or 71 minutes, that the product in
  `latency_record` fits its 64 bits; longer ones could overflow it. `sum` is the exact sum that the
  rounded average is compared with. No process uses the library yet.

## Runs

Passing:

| run | shows | instance |
|---|---|---|
| `ShmRobust` | one owner, no mixed read, recovery after a kill, with robust mutexes | 2 processes, 2 values, kills |
| `RelaySafety` | the latest value is read or notified; reads are fresh; refinement of `LatestValue`; a write of the Collector ends unless an owner of the mutex was killed | 3 datagrams, queue of 2, 2 starts each, 1 kill, every fault |
| `RelayLive` | the last value reaches the Viewer | 4 datagrams, queue of 1 |
| `RouterSafety` | no use after release, clean exit, answers, no stale quit | any call fails |
| `RouterLive` | every stop and every checked failure ends the process, except in the states `Stuck` and `Deaf` | any call fails, a queue of 1, a purge |
| `ViewerRun` | no lost wake-up, no use after close, clean exit, answers; every stop and every checked failure ends the process | any call fails, SIGUSR1 from outside |
| `CollectorRun` | clean exit, answers, ends on request, on a signal outside the window before `poll`, and at the next event in any case, unless it waits for a mutex whose owner was killed | 3 datagrams, 3 requests, any call fails |
| `RegistryUse` | one entry per command, right handler, counts agree | 3 commands for 2 entries, 2 threads, 6 calls |
| `PosixRun` | no empty file mapped unless `fstat` failed, implements `ShmApi`, exclusion lost only by a late `pthread_mutex_init`, `shm_api_init` ends unless the file is orphaned | default build, 2 processes, 2 kills in `shm_api_init` and 2 after it |
| `MgmtRun` | a reported success is true, no command runs twice, a lone instance is reachable, no file left, every mgmtctl ends | 2 instances, 3 mgmtctl with 2 pids, a queue of 1, 1 kill or stop |
| `CountersRun` | logger: exact counts and statistics, whole tags, not freed in use, calls return; metrics: average, wrap, totals | 3 threads, 3 messages, 2 other calls; 4 updates with a count of 2 bits, 2 snapshots, 1 reset |

`CountersRun` holds two independent libraries: `library`, fixed in the initial state,
says which of them a behaviour is about. The type invariants of `ShmApi`, `PosixShm`,
`Relay`, `Router` and `Viewer` are proved and not repeated in the runs; those of the
registry, the logger and the metrics are part of `UniqueKeys`, `CountsExact` and
`TrapsAtWrap`. Every inductive invariant below was checked with TLC on the instance of
the component's run before it was proved.

One run refutes a statement of the repository's documents, which PROJECT.json quotes:

| run | what happens |
|---|---|
| `ShmDeadOwner` | the default build never recovers the mutex of a killed process |

Met while modelling, stated here without a run of their own. Where a liveness property
names the case as its exception, the passing run shows that it is the only one in the
model, under the fairness and the limits stated below:

* The Router's worker gives up on the Viewer while the shared queue is full, and main
  blocks in `send_shm_quit` (`QuitBlocked`); a Collector that starts during the stop
  purges SHM_QUIT, or the queue does not exist, and the join never returns (`QuitLost`);
  the signal thread fails before it posts the semaphore (`NotReady`). After an error of
  `sigwait` the Router takes no signals (`Deaf`). Exceptions of `StopEnds`.
* A signal between the Collector's test of its flag and `poll` is noticed only at the next
  event, as the last line of the Collector's `StopEnds` says.
* In the default build a Router that is killed between lock and unlock leaves the
  Collector's only thread in `shm_api_write` (`poll_io.c:65`) for ever at the next datagram:
  no signal and no shutdown request ends it then (`Blocked`, exception of the Collector's
  `StopEnds`; `owner = OwnerDied`, exception of `WriteEnds`). It is what `ShmDeadOwner` shows
  of the library.
* A creator of the POSIX memory that is killed before `ftruncate`, or fails in it, leaves
  whoever has opened the file in an endless wait (`Orphaned`, exception of `InitEnds`).
* A failing `fstat` ends that wait without the size, and the process maps a file that may be
  empty (`unseen`, exception of `MappedSized`); the comment at `PosixSHM/src/shm_api.c:91`
  speaks of a wait until the size is there.
* An attacher may lock the mutex before `pthread_mutex_init`; two processes are then
  inside until both have left (`ExclusionLostByInit`, `OwnerInside`). The System V library
  sleeps against this, the POSIX one does not.
* An answer that is sent late reaches the next mgmtctl with the same pid, which reports
  success for it ("misdelivered" in `SuccessIsTrue`).
* A second instance takes over the socket file of a running one (`rival` in `Reachable`).
* A thread cancelled in `syslog` keeps the logger's mutex (`Abandoned`, exception of
  `LogCallsEnd`); the Router cancels its signal thread.
* `latency_record` divides by zero at the 2^32nd sample (`TrapsAtWrap`), and its average
  may be up to (n - 1) / 2 below the mean of n samples (`AverageDrift`).
* The Router without its management socket (`Mgmt/src/mgmt_worker.c`) and the Viewer
  without its TCP server keep running, where README.md:218 has a failed start end the
  process.
* The Router ends when no Viewer listens within its retries, where README.md:165 says
  that a process waits until its peer appears.
* A SIGUSR1 from outside ends the Viewer's signal thread; a later SIGTERM is then
  ignored. The Viewer's `StopEnds` leaves that case out (`Deaf`).
* A registration during a dispatch could mix one handler with another's context
  (`event_handler.c` reads the entry after the unlock), although `event_handler.h:11-12`
  offers "Dynamic handler registration" and a "Thread-safe registry". No process registers
  that late.
* `mgmt_response_init` clears the request's time stamp, so latencies count from 1970.

**Bounds.** Two processes share the segment in the system. A queue of one or two
messages overflows with three datagrams, the case a real queue (16384 bytes) meets
after thousands. Two starts give every stale
message and purge; one kill at any step reaches every half-done operation. For the
Router, Viewer and Collector two signals and a few requests cover a second stop
during the first. Three commands for two entries fill the registry. One pid that two
mgmtctl processes share gives every late answer; a third client and a queue of one
request make `sendto` block; two instances overlap in every way. A count of two bits
wraps at the fourth sample. Larger instances of `CountersRun` (3.9 million states) show
the same. Faults are sets of calls, any number of which fail in one behaviour.

**Fairness.** Weak fairness of every thread: the scheduler runs what is not blocked.
Nothing is assumed of signals, datagrams, requests, the Viewer, cancellation or
kills. A thread blocked in `msgsnd`, `msgrcv`, `poll`, `sigwait`, `sendto`, a lock or a
join has no step until what it waits for is there; a fault may make a blocked call
fail, but no fairness makes it do so (`MainRuns`, `SignalRuns`, `ServeRuns`, and
`FstatFails`, which is not in `PosixStep`). Two mutexes need a word, because
`pthread_mutex_lock` is not fair. The Viewer's signal and management threads have strong
fairness: each spurious wake-up lets main take `ctx.mtx` for one test, and who waits for it
gets it in the end. For the mutex of the shared memory weak fairness is enough: the Router
locks it only after a notification, and none comes while the Collector waits for the mutex,
so the Collector is not starved (`WriteEnds`); that is why `ShmWrite` of `Collector` may
take fairness for granted unless `stranded`.

**Limits of `RouterLive`.** A Viewer that is connected is assumed to read, and
`shm_api_read` to return: a Collector killed with the mutex would block the worker, and the
join of it. The signal thread is assumed not to be cancelled inside `syslog`: the mutex of
the logger would stay locked (`LogCallsEnd` of `Logger` has that case). A management
socket that cannot be created is not a checked failure: the Router runs on.

**Deadlock** is not checked: every process ends or waits for input for ever, and a
creator of the segment that is killed before `pthread_mutex_init` leaves its peer
without a mutex. That nobody waits in vain is what the liveness properties say.

## Proofs

All theorems hold for every value of the constants that the named assumptions allow (one
per module: `ShmAssumption`, `RelayAssumption`, ...): any sets of processes, threads, values and
commands, any capacities, any number of signals, requests, kills and calls, any set of
failing calls. Only the sets of threads that are counted, those of the logger and the
registry, are assumed finite.

* `ShmApiProofs`: mutual exclusion and no mixed read. Neither is inductive.
  `ShmIInv` adds `CreatorFirst` (before the mutex exists nobody but its creator has
  passed the initialisation) and `WholeSlot` (the slot is one write unless a writer
  is, or died, inside one). Both are conditional on `InitInTime`. Without it,
  `OwnerInside` is inductive and `ExclusionLostByInit` needs `OneCreator`.
* `PosixShmProofs`: `PosixIInv` adds to the types and `MappedSized` that only one process is
  at `ftruncate`, and the file is then empty (`OneSizer`), and that only one has the mutex
  still to initialise (`OneInit`). Under the mapping each step of the POSIX library is a
  step of `ShmApi` or a stutter, action by action (`OpeningStutters`, `FtruncateCreates`,
  `FstatAttaches`, `CallsAreShmApi`, `KillIsCrash`); only the creator of a file that had no
  size can make the segment appear, which is where `OneSizer` is needed. `PosixRefinement`
  follows. `PosixOwnerInside` and `PosixExclusionLostByInit` are proved of this library
  directly, from where its lock word changes (`WordStep`).
* `RelayProofs`: each step of the relay is one of the library's or leaves it alone
  (`ShmSteps`), so that the library's invariant
  holds of the relay. `IInv` then ties the processes' places to the library's
  (`Control`), the slot to `published` (`Slot`) and the worker's copy to it
  (`Copied`). `LatestPending`, `FreshRead` and the refinement of `LatestValue` follow.
  The core of `LatestPending`: a notification is refused only by a full queue, and a
  full queue either holds a notification, which is read after this write, or a quit.
* `RouterProofs`: `RInv` says which resources are held (`HeldWhile`) and which
  threads may live (`LiveWhile`) at each place of main, that a request taken is
  answered or in hand (`Counters`), that a quit in the queue after the purge means
  the process is stopping (`QuitSent`), and what the exit status will be
  (`ExitStatus`).
* `ViewerMetricsProofs`, the Viewer: `NoLostWakeup` becomes inductive once it speaks of main
  from its test of the flag on, not only in its sleep (`FlagDown`). `VInv` adds which
  threads may live at each place of main (`ThreadsByMain`), which resources main and the threads hold
  (`HeldByMain`, `HeldByThreads`) and that a request taken is answered or in hand
  (`OneInHand`).
* `ViewerMetricsProofs`, the metrics: `AverageDrift` is inductive once `SampleOK` says it
  of the record and of the exact sum alone, an empty record included. One sample is the
  lemma `RecordKeeps`: a quotient lies between the bounds of its dividend
  (`QuotientBounds`), and what the n-th division loses is a remainder below n.
  `MetInv` adds that a count of samples is the number of good updates since the
  reset, which gives `TrapsAtWrap`, and that the counters are what was recorded
  (`SnapshotTotals`).
* `CollectorProofs`, the Collector: what main holds (`HeldByPlace`) and the status it will
  return (`FailureReported`) are a matter of where it is and what failed, and a request is
  waiting, in hand or answered (`OneInHand`). `CollectorReadsReported` says that a socket
  `poll` has reported still has its datagram when it is read: the blocking reads
  never block, as long as the kernel keeps what `poll` has reported.
* `CollectorProofs`, the registry: `RInv` says that entries in use were made by a
  registration (`WellMade`), that nothing is counted or called before the threads start
  (`Registering`), and that a thread between its two critical sections still points to the
  entry it found (`Pointing`), which is why the reads without the mutex are right.
  `CountsAgree` is stated with partial sums, so that one more dispatch, a reset and the
  registrations need no induction (`OneMoreCounted`, `NothingCounted`).
* `MgmtSocketProofs`: `MInv` has two independent halves. Files: instances that overlap know
  it (`Overlap`), a file names the instance that bound it (`FileIsBound`), and one
  without a rival finds no file to bind and its own while it serves (`FileIsOwn`). Requests:
  a request in a queue is there once and was not handled (`InboxSent`, `InboxOnce`), what
  is worked on or answered was handled (`InhandHandled`, `AnswersHandled`), a process that
  has not sent yet left no trace (`NotSentYet`), and what a client received is its own
  answer or the misdelivered one of an earlier process (`GotRight`). `MgmtAtMostOnce` is an
  action property: from `InboxSent`, a request that is taken was never handled before.
* `LoggerProofs`: `LInv` says who holds the mutex (`MutexHeld`), how a thread's place goes
  with its call (`PlaceOfCall`), that what was loaded under the mutex is still what the
  context holds (`Loaded`), when a tag is half written (`TagHalf`) and which threads live
  in which phase of main (`ThreadsByPhase`). `LogCountsExact` counts with the cardinality
  of the set of threads on their way to a counter (`TallyStep`).

Only model-checked: the liveness properties, because the prover has no fairness
(`DeadOwnerRecovered`, `CatchesUp`, the `StopEnds` of Router, Viewer and Collector,
`WriteEnds`, `InitEnds`, `ClientEnds`, `LogCallsEnd`).

## Not modelled

* The code under ENABLE_FAULT_INJECTION (test code) and `udp_worker` (compiled, never
  started).
* Formatting: log text and the logger's file output (no process enables it), `handler_list`,
  the JSON text of the metrics, the arguments and the output of mgmtctl. It is sequential,
  and no state depends on it.
* Functions without a caller: `shm_api_destroy`, `mgmt_socket_process_all`,
  `mgmt_socket_set_backlog` and the statistics of the socket.
* Gauges, byte counts and time stamps: nothing is computed from them but latencies, which
  are an input of the models.
* A failed `pthread_create` of the Viewer's TCP thread (the join is then undefined), and a
  Viewer that is connected and does not read: how much the connection buffers is the
  kernel's, and with it when `send` blocks.
* Datagrams on the management sockets that do not come from mgmtctl, the only sender of
  the repository.
