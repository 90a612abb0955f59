------------------------ MODULE ViewerMetricsProofs -------------------------
(***************************************************************************)
(* Proofs of the safety properties of two components that share no state:  *)
(* of Viewer, for any number of signals and requests and any set of        *)
(* faults, and of Metrics, for any bounds on the counters and the values.  *)
(***************************************************************************)
EXTENDS Viewer, Metrics, TLAPS

-----------------------------------------------------------------------------
(* The viewer. *)

\* Which threads exist is a matter of where main is: none before its creation, none that
\* runs after its join.
ThreadsByMain ==
  /\ mpc \in {"pipe", "t_sig"} => tsig = "none"
  /\ mpc \in {"pipe", "t_sig", "ready", "t_tcp"} => ttcp = "none"
  /\ mpc \in Starting \cup {"mgmt_failed"} => tm = "none"
  /\ mpc \in {"join_tcp", "join_tm", "close", "exit"} => ~Live(tsig)
  /\ mpc \in {"join_tm", "close", "exit"} => ~Live(ttcp)
  /\ mpc \in {"close", "exit"} => ~Live(tm)

\* So is what main holds; the sockets are held by the threads that opened them.
HeldByMain ==
  /\ "log" \in held <=> mpc # "exit"
  /\ "pipe" \in held <=> mpc \notin {"pipe", "exit"}
  /\ "registry" \in held => mpc # "exit"
  /\ mpc \in {"register", "tm"} \/ Live(tm) => "registry" \in held

HeldByThreads ==
  /\ {"server", "client"} \cap held # {} => ttcp \in {"check", "poll"}
  /\ "mgmt_socket" \in held => tm \notin {"none", "create", "done"}

\* A request is between its receipt and its answer, or answered.
OneInHand ==
  /\ served.taken <= sent.request /\ sent.request <= MaxRequests
  /\ tm \in {"shutdown", "request", "reply"} => served.taken = served.answered + 1
  /\ tm \notin {"shutdown", "request", "reply"} => served.taken = served.answered

\* The flag main waits for is still down from the test on, because main holds the mutex.
FlagDown ==
  cond # "none" => \/ mpc = "ready" /\ ~signal_thread_ready
                   \/ mpc = "wait" /\ ~shutdown_requested

VInv == TypeOK /\ FlagDown /\ ThreadsByMain /\ HeldByMain /\ HeldByThreads /\ OneInHand

-----------------------------------------------------------------------------
\* The fields of served and sent, which the provers need spelt out.
LEMMA Fields ==
  ASSUME TypeOK
  PROVE  /\ served.taken \in Nat /\ served.answered \in Nat
         /\ served.taken <= MaxRequests /\ served.answered <= MaxRequests
         /\ sent.request \in Nat /\ sent.signal \in Nat
BY ViewerAssumption DEF TypeOK, CountsOK

LEMMA InitInv == Init => VInv
<1> SUFFICES ASSUME Init PROVE VInv
  OBVIOUS
<1>1. FlagsOK
  BY Zenon DEF Init, FlagsOK
<1>2. SetsOK /\ PlacesOK /\ CountsOK
  BY ViewerAssumption DEF Init, SetsOK, PlacesOK, CountsOK, Starting
<1>3. FlagDown /\ ThreadsByMain /\ HeldByMain /\ HeldByThreads /\ OneInHand
  BY ViewerAssumption DEF Init, FlagDown, ThreadsByMain, HeldByMain, HeldByThreads,
     OneInHand, Live, Starting
<1> QED
  BY <1>1, <1>2, <1>3, Zenon DEF VInv, TypeOK

\* Next, action by action.
Step ==
  \/ StartSignals \/ WaitFlags \/ StartWorkers \/ MgmtFailed \/ StopThreads \/ Join \/ Close
  \/ SignalWorker \/ Serve \/ Network \/ MgmtWorker \/ Signals \/ Request

\* A step keeps the flags Boolean.
LEMMA FlagsStep == ASSUME VInv, Step PROVE FlagsOK'
<1> USE DEF VInv, TypeOK, flags, stops, pendings, threads, FlagsOK
<1>1. CASE StartSignals \/ StartWorkers \/ Join \/ Close \/ Serve \/ Network \/ Request
  BY <1>1, Zenon DEF StartSignals, Fail, StartWorkers, Join, Close, Serve, Network, Request
<1>2. CASE WaitFlags
  BY <1>2, Zenon DEF WaitFlags, CondWait
<1>3. CASE MgmtFailed
  BY <1>3, Zenon DEF MgmtFailed, RequestShutdown
<1>4. CASE StopThreads
  BY <1>4, Zenon DEF StopThreads
<1>5. CASE SignalWorker
  BY <1>5, Zenon DEF SignalWorker, RequestShutdown
<1>6. CASE MgmtWorker
  BY <1>6, Zenon DEF MgmtWorker, Reply, RequestShutdown, Fail
<1>7. CASE Signals
  BY <1>7, Zenon DEF Signals
<1> QED
  BY <1>1, <1>2, <1>3, <1>4, <1>5, <1>6, <1>7, Zenon DEF Step

\* A step keeps the sets of resources and failures.
LEMMA SetsStep == ASSUME VInv, Step PROVE SetsOK'
<1> USE DEF VInv, TypeOK, flags, stops, pendings, threads, SetsOK
<1>1. CASE StartSignals
  BY <1>1, Zenon DEF StartSignals, Fail, Checked, Unchecked
<1>2. CASE WaitFlags \/ MgmtFailed
  BY <1>2, Zenon DEF WaitFlags, CondWait, MgmtFailed, RequestShutdown
<1>3. CASE StartWorkers
  BY <1>3, Zenon DEF StartWorkers, Fail, Checked, Unchecked
<1>4. CASE StopThreads \/ Join \/ Close
  BY <1>4, Zenon DEF StopThreads, Join, Close
<1>5. CASE SignalWorker \/ Signals \/ Request
  BY <1>5, Zenon DEF SignalWorker, RequestShutdown, Signals, Request
<1>6. CASE Serve \/ Network
  BY <1>6, Zenon DEF Serve, Fail, Checked, Unchecked, Network
<1>7. CASE MgmtWorker
  BY <1>7, Zenon DEF MgmtWorker, Reply, RequestShutdown, Fail, Checked, Unchecked
<1> QED
  BY <1>1, <1>2, <1>3, <1>4, <1>5, <1>6, <1>7, Zenon DEF Step

\* A step takes every thread to a place it has.
LEMMA PlacesStep == ASSUME VInv, Step PROVE PlacesOK'
<1> USE DEF VInv, TypeOK, flags, stops, pendings, threads, PlacesOK, Starting, Stopping
<1>1. CASE StartSignals
  BY <1>1, Zenon DEF StartSignals, Fail
<1>2. CASE WaitFlags \/ MgmtFailed
  BY <1>2 DEF WaitFlags, CondWait, MgmtFailed, RequestShutdown
<1>3. CASE StartWorkers
  BY <1>3 DEF StartWorkers, Fail
<1>4. CASE StopThreads \/ Join \/ Close
  BY <1>4 DEF StopThreads, Join, Close
<1>5. CASE SignalWorker \/ Signals \/ Request
  BY <1>5 DEF SignalWorker, RequestShutdown, Signals, Request
<1>6. CASE Serve \/ Network
  BY <1>6, Zenon DEF Serve, Fail, Network
<1>7. CASE MgmtWorker
  BY <1>7 DEF MgmtWorker, Reply, RequestShutdown, Fail
<1> QED
  BY <1>1, <1>2, <1>3, <1>4, <1>5, <1>6, <1>7, Zenon DEF Step

\* A step keeps the counts of requests and signals.
LEMMA CountsStep == ASSUME VInv, Step PROVE CountsOK' /\ OneInHand'
<1> USE DEF VInv, TypeOK, flags, stops, pendings, threads, CountsOK, OneInHand
<1>1. CASE StartSignals
  BY <1>1, Fields, ViewerAssumption, Zenon DEF StartSignals, Fail
<1>2. CASE WaitFlags \/ MgmtFailed
  BY <1>2, Fields, ViewerAssumption, Zenon
     DEF WaitFlags, CondWait, MgmtFailed, RequestShutdown
<1>3. CASE StartWorkers
  BY <1>3, Fields, ViewerAssumption, Zenon DEF StartWorkers, Fail, ThreadsByMain, Starting
<1>4. CASE StopThreads \/ Join \/ Close
  BY <1>4, Fields, ViewerAssumption, Zenon DEF StopThreads, Join, Close
<1>5. CASE SignalWorker \/ Signals \/ Request
  BY <1>5, Fields, ViewerAssumption DEF SignalWorker, RequestShutdown, Signals, Request
<1>6. CASE Serve \/ Network
  BY <1>6, Fields, ViewerAssumption, Zenon DEF Serve, Fail, Network
<1>7. CASE MgmtWorker
  BY <1>7, Fields, ViewerAssumption DEF MgmtWorker, Reply, RequestShutdown, Fail
<1> QED
  BY <1>1, <1>2, <1>3, <1>4, <1>5, <1>6, <1>7, Zenon DEF Step

\* Nobody changes the flag between main's test and its sleep, and whoever changes it later
\* wakes main.
LEMMA WakeupStep == ASSUME VInv, Step PROVE FlagDown'
<1> USE DEF VInv, TypeOK, flags, stops, pendings, threads, FlagDown
<1>1. CASE StartSignals
  BY <1>1, Zenon DEF StartSignals, Fail
<1>2. CASE WaitFlags \/ MgmtFailed
  BY <1>2, Zenon DEF WaitFlags, CondWait, MgmtFailed, RequestShutdown
<1>3. CASE StartWorkers
  BY <1>3, Zenon DEF StartWorkers, Fail
<1>4. CASE StopThreads \/ Join \/ Close
  BY <1>4, Zenon DEF StopThreads, Join, Close
<1>5. CASE SignalWorker \/ Signals \/ Request
  BY <1>5, Zenon DEF SignalWorker, RequestShutdown, Signals, Request
<1>6. CASE Serve \/ Network
  BY <1>6, Zenon DEF Serve, Fail, Network
<1>7. CASE MgmtWorker
  BY <1>7, Zenon DEF MgmtWorker, Reply, RequestShutdown, Fail
<1> QED
  BY <1>1, <1>2, <1>3, <1>4, <1>5, <1>6, <1>7, Zenon DEF Step

\* A thread appears at its creation, and ends before its join.
LEMMA ThreadsStep == ASSUME VInv, Step PROVE ThreadsByMain'
<1> USE DEF VInv, TypeOK, flags, stops, pendings, threads, ThreadsByMain, PlacesOK, Live,
            Starting, Stopping
<1>1. CASE StartSignals
  BY <1>1, Zenon DEF StartSignals, Fail
<1>2. CASE WaitFlags \/ MgmtFailed
  BY <1>2, Zenon DEF WaitFlags, CondWait, MgmtFailed, RequestShutdown
<1>3. CASE StartWorkers
  BY <1>3, Zenon DEF StartWorkers, Fail
<1>4. CASE StopThreads \/ Join \/ Close
  BY <1>4, Zenon DEF StopThreads, Join, Close
<1>5. CASE SignalWorker \/ Signals \/ Request
  BY <1>5, Zenon DEF SignalWorker, RequestShutdown, Signals, Request
<1>6. CASE Serve \/ Network
  BY <1>6, Zenon DEF Serve, Fail, Network
<1>7. CASE MgmtWorker
  BY <1>7, Zenon DEF MgmtWorker, Reply, RequestShutdown, Fail
<1> QED
  BY <1>1, <1>2, <1>3, <1>4, <1>5, <1>6, <1>7, Zenon DEF Step

\* What is taken is given back where the code does so.
LEMMA HeldStep == ASSUME VInv, Step PROVE HeldByMain' /\ HeldByThreads'
<1> USE DEF VInv, TypeOK, flags, stops, pendings, threads, ThreadsByMain, HeldByMain,
            HeldByThreads, SetsOK, PlacesOK, Live, Starting, Stopping
<1>1. CASE StartSignals
  BY <1>1, Zenon DEF StartSignals, Fail
<1>2. CASE WaitFlags \/ MgmtFailed
  BY <1>2, Zenon DEF WaitFlags, CondWait, MgmtFailed, RequestShutdown
<1>3. CASE StartWorkers
  BY <1>3, Zenon DEF StartWorkers, Fail
<1>4. CASE StopThreads \/ Join \/ Close
  BY <1>4 DEF StopThreads, Join, Close
<1>5. CASE SignalWorker \/ Signals \/ Request
  BY <1>5 DEF SignalWorker, RequestShutdown, Signals, Request
<1>6. CASE Serve \/ Network
  BY <1>6 DEF Serve, Fail, Network
<1>7. CASE MgmtWorker
  BY <1>7, Zenon DEF MgmtWorker, Reply, RequestShutdown, Fail
<1> QED
  BY <1>1, <1>2, <1>3, <1>4, <1>5, <1>6, <1>7, Zenon DEF Step

\* Every behaviour of the Viewer keeps the inductive invariant.
THEOREM ViewerInvariant == Spec => []VInv
<1>1. ASSUME VInv, [Next]_vars PROVE VInv'
  <2>1. CASE UNCHANGED vars
    BY <1>1, <2>1 DEF vars, flags, stops, pendings, threads, VInv, TypeOK, FlagsOK, SetsOK,
       PlacesOK, CountsOK, FlagDown, ThreadsByMain, HeldByMain, HeldByThreads, OneInHand, Live
  <2>2. CASE Step
    BY <1>1, <2>2, FlagsStep, SetsStep, PlacesStep, CountsStep, WakeupStep, ThreadsStep,
       HeldStep, Zenon DEF VInv, TypeOK
  <2> QED
    BY <1>1, <2>1, <2>2, Zenon DEF Next, Main, Step
<1> QED
  BY <1>1, InitInv, PTL DEF Spec

\* main sleeps through no request.
THEOREM ViewerNoLostWakeup == Spec => []NoLostWakeup
<1>1. VInv => NoLostWakeup
  BY Zenon DEF VInv, FlagDown, NoLostWakeup
<1> QED
  BY <1>1, ViewerInvariant, PTL

\* Nothing is closed under a running thread.
THEOREM ViewerNoUseAfterClose == Spec => []NoUseAfterClose
<1>1. VInv => NoUseAfterClose
  BY Zenon DEF VInv, TypeOK, PlacesOK, NoUseAfterClose, ThreadsByMain, HeldByMain, Live
<1> QED
  BY <1>1, ViewerInvariant, PTL

\* Nothing is left open and no request without an answer at the end.
THEOREM ViewerCleanExit == Spec => []CleanExit
<1>1. VInv /\ mpc = "exit" => held = {}
  BY Zenon
     DEF VInv, TypeOK, SetsOK, PlacesOK, ThreadsByMain, HeldByMain, HeldByThreads, Live
<1>2. VInv /\ mpc = "exit" => served.taken = served.answered
  BY Zenon DEF VInv, ThreadsByMain, OneInHand, Live
<1>3. VInv => CleanExit
  BY <1>1, <1>2, Zenon DEF CleanExit
<1> QED
  BY <1>3, ViewerInvariant, PTL

-----------------------------------------------------------------------------
(* The metrics. *)

\* The statistics of the latencies whose sum is total.
SampleOK(s, total) ==
  /\ s \in [min_us : Nat, max_us : Nat, avg_us : Nat, sample_count : 0 .. CountLimit - 1]
  /\ total \in Nat
  /\ s.sample_count = 0 => s.avg_us = 0 /\ total = 0
  /\ s.sample_count > 0 =>
       s.max_us \in Latencies /\ s.min_us <= s.avg_us /\ s.avg_us <= s.max_us
  /\ 0 <= total - s.sample_count * s.avg_us
  /\ 2 * (total - s.sample_count * s.avg_us) <= s.sample_count * (s.sample_count - 1)

\* Arithmetic that the provers use: order and products, quotient and remainder.
LEMMA TimesMonotone ==
  ASSUME NEW a \in Nat, NEW b \in Nat, NEW c \in Nat, a <= b PROVE a * c <= b * c
<1>1. (b - a) * c >= 0
  OBVIOUS
<1> QED
  BY <1>1

LEMMA SmallMod == ASSUME NEW k \in Nat \ {0}, NEW a \in 0 .. k - 1 PROVE a % k = a
OBVIOUS

LEMMA Quotient ==
  ASSUME NEW a \in Int, NEW k \in Int, a >= 0, k > 0
  PROVE  /\ a \div k \in Nat /\ a % k \in 0 .. k - 1
         /\ a = k * (a \div k) + (a % k)
<1>1. a = k * (a \div k) + (a % k)
  OBVIOUS
<1>2. a \div k \in Nat
  OBVIOUS
<1>3. a % k \in 0 .. k - 1
  OBVIOUS
<1> QED
  BY <1>1, <1>2, <1>3, Zenon

\* A quotient lies between the bounds of the dividend.
LEMMA QuotientBounds ==
  ASSUME NEW a \in Nat, NEW k \in Nat \ {0}, NEW lo \in Nat, NEW hi \in Nat,
         lo * k <= a, a <= hi * k
  PROVE  lo <= a \div k /\ a \div k <= hi
<1> DEFINE q == a \div k
           r == a % k
<1>1. q \in Nat /\ r \in 0 .. k - 1 /\ a = k * q + r
  BY Quotient
<1> HIDE DEF q, r
<1>2. ASSUME q + 1 <= lo PROVE FALSE
  <2>1. (q + 1) * k <= lo * k
    BY <1>1, <1>2, TimesMonotone
  <2>2. (q + 1) * k = k * q + k
    BY <1>1
  <2> QED
    BY <1>1, <2>1, <2>2
<1>3. ASSUME hi + 1 <= q PROVE FALSE
  <2>1. (hi + 1) * k <= q * k
    BY <1>1, <1>3, TimesMonotone
  <2>2. (hi + 1) * k = hi * k + k /\ q * k = k * q
    BY <1>1
  <2> QED
    BY <1>1, <2>1, <2>2
<1> QED
  BY <1>1, <1>2, <1>3 DEF q

\* latency_record keeps the average between the extremes, and loses less than n at the
\* n-th sample (metrics_collector.c:21-36).
LEMMA RecordKeeps ==
  ASSUME NEW s, NEW total, SampleOK(s, total), NEW x \in Latencies, ~DividesByZero(s)
  PROVE  SampleOK(latency_record(s, x), total + x)
<1> DEFINE n == s.sample_count
           a == s.avg_us
           lo == IF n = 0 THEN x ELSE Smaller(x, s.min_us)
           hi == IF n = 0 THEN x ELSE Larger(x, s.max_us)
           p == a * n + x
           q == p \div (n + 1)
           r == p % (n + 1)
<1>0. /\ x \in Nat /\ CountLimit \in Nat \ {0} /\ ValueLimit \in Nat \ {0}
      /\ s.min_us \in Nat /\ s.max_us \in Nat /\ a \in Nat /\ n \in 0 .. CountLimit - 1
      /\ total \in Nat
  BY MetricsAssumption, Zenon DEF SampleOK
<1>1. n + 1 < CountLimit
  BY <1>0, MetricsAssumption DEF DividesByZero
<1>2. (n + 1) % CountLimit = n + 1
  BY <1>0, <1>1, SmallMod
<1>3. /\ lo \in Nat /\ hi \in Latencies /\ hi \in Nat /\ lo <= x /\ x <= hi
      /\ n > 0 => lo <= a /\ a <= hi
  BY <1>0, MetricsAssumption DEF SampleOK, Smaller, Larger
<1>4. p \in Nat /\ lo * (n + 1) <= p /\ p <= hi * (n + 1)
  <2> HIDE DEF lo, hi
  <2>1. CASE n = 0
    BY <1>0, <1>3, <2>1
  <2>2. CASE n > 0
    <3> DEFINE ln == lo * n
               an == a * n
               hn == hi * n
    <3>1. ln <= an /\ an <= hn /\ ln \in Nat /\ an \in Nat /\ hn \in Nat
      BY <1>0, <1>3, <2>2, TimesMonotone
    <3>2. lo * (n + 1) = ln + lo /\ hi * (n + 1) = hn + hi /\ p = an + x
      BY <1>0, <1>3
    <3> HIDE DEF ln, an, hn, p
    <3>3. an + x \in Nat /\ ln + lo <= an + x /\ an + x <= hn + hi
      BY <1>0, <1>3, <3>1
    <3> QED
      BY <3>2, <3>3, Zenon
  <2> QED
    BY <1>0, <2>1, <2>2
<1>5. p % ValueLimit = p
  <2>1. hi * (n + 1) <= hi * CountLimit /\ hi * CountLimit < ValueLimit
    <3>1. (n + 1) * hi <= CountLimit * hi
      BY <1>0, <1>1, <1>3, TimesMonotone
    <3>2. (n + 1) * hi = hi * (n + 1) /\ CountLimit * hi = hi * CountLimit
      BY <1>0, <1>3
    <3> QED
      BY <1>3, <3>1, <3>2, MetricsAssumption, Zenon
  <2>2. hi * (n + 1) \in Nat /\ hi * CountLimit \in Nat
    BY <1>0, <1>3
  <2> HIDE DEF p, hi
  <2> QED
    BY <1>0, <1>4, <2>1, <2>2, SmallMod
<1> HIDE DEF p
<1>6. q \in Nat /\ r \in 0 .. n /\ p = (n + 1) * q + r
  BY <1>0, <1>4, Quotient
<1>7. lo <= q /\ q <= hi
  <2> HIDE DEF lo, hi
  <2> QED
    BY <1>0, <1>3, <1>4, QuotientBounds
<1>8. latency_record(s, x) = [min_us |-> lo, max_us |-> hi, avg_us |-> q, sample_count |-> n + 1]
  BY <1>2, <1>5, Zenon DEF latency_record, p
<1>9. /\ 0 <= (total + x) - (n + 1) * q
      /\ 2 * ((total + x) - (n + 1) * q) <= (n + 1) * n
  <2> DEFINE an == n * a
             nq == (n + 1) * q
             nn == n * (n - 1)
  <2>1. an \in Nat /\ nq \in Nat /\ p = an + x
    <3> HIDE DEF q, r
    <3>1. nq \in Nat
      BY <1>0, <1>6
    <3>2. an \in Nat /\ p = an + x
      BY <1>0 DEF p
    <3> QED
      BY <3>1, <3>2, Zenon
  <2>2. (n + 1) * n = nn + 2 * n /\ nn \in Int
    BY <1>0
  <2>3. 0 <= total - an /\ 2 * (total - an) <= nn
    BY Zenon DEF SampleOK
  <2> HIDE DEF an, nq, nn
  <2>4. 0 <= (total + x) - nq /\ 2 * ((total + x) - nq) <= nn + 2 * n
    <3>1. an + x = nq + r
      BY <1>6, <2>1, Zenon DEF nq
    <3>2. r \in Nat /\ r <= n /\ n \in Nat
      BY <1>0, <1>6
    <3> HIDE DEF n, r
    <3> QED
      BY <1>0, <2>1, <2>2, <2>3, <3>1, <3>2
  <2> QED
    BY <2>2, <2>4, Zenon DEF nq
<1> HIDE DEF lo, hi, q, r
<1>10. /\ (n + 1) - 1 = n /\ n + 1 \in 0 .. CountLimit - 1 /\ n + 1 > 0 /\ n + 1 # 0
       /\ total + x \in Nat
  BY <1>0, <1>1
<1> HIDE DEF n
<1> QED
  <2> DEFINE w == latency_record(s, x)
  <2>1. w.min_us = lo /\ w.max_us = hi /\ w.avg_us = q /\ w.sample_count = n + 1
    BY <1>8
  <2>2. w \in [min_us : Nat, max_us : Nat, avg_us : Nat, sample_count : 0 .. CountLimit - 1]
    BY <1>3, <1>6, <1>8, <1>10
  <2> HIDE DEF w
  <2>3. /\ 0 <= (total + x) - w.sample_count * w.avg_us
        /\ 2 * ((total + x) - w.sample_count * w.avg_us) <= w.sample_count * (w.sample_count - 1)
    BY <1>9, <1>10, <2>1, Zenon
  <2>4. /\ w.sample_count # 0 /\ total + x \in Nat
        /\ w.max_us \in Latencies /\ w.min_us <= w.avg_us /\ w.avg_us <= w.max_us
    BY <1>3, <1>7, <1>10, <2>1, Zenon
  <2>5. SampleOK(w, total + x)
    BY <2>2, <2>3, <2>4, Zenon DEF SampleOK
  <2> QED
    BY <2>5, Zenon DEF w

\* The average of every module is one of SampleOK, and the samples behind it are the
\* successes that were counted.
Averages ==
  /\ latency = [m \in Modules |-> latency[m]] /\ sum \in [Modules -> Nat]
  /\ \A m \in Modules : SampleOK(latency[m], sum[m])
  /\ handle # "trapped" => \A m \in Modules : good[m] = latency[m].sample_count
  /\ handle = "trapped" => \E m \in Modules : good[m] = CountLimit

\* The counters add up to the updates since the last reset.
Totals ==
  /\ events \in [Modules -> Nat] /\ good \in [Modules -> Nat] /\ failures \in [Modules -> Nat]
  /\ \A m \in Modules : good[m] <= events[m] /\ failures[m] <= events[m]
  /\ failures["viewer"] = 0
  /\ recorded \in [events : Nat, errors : Nat]
  /\ events["collector"] + events["router"] + events["viewer"] = recorded.events
  /\ failures["collector"] + failures["router"] = recorded.errors
  /\ used \in [updates : Nat, snaps : Nat, resets : Nat]
  /\ recorded.events <= used.updates /\ used.updates <= MaxUpdates

MetInv ==
  /\ handle \in {"open", "trapped", "closed"} /\ next_snapshot_id \in 0 .. CountLimit - 1
  /\ Averages /\ Totals /\ SnapshotTotals

LEMMA MetInitInv == MetInit => MetInv
<1> SUFFICES ASSUME MetInit PROVE MetInv
  OBVIOUS
<1> USE MetricsAssumption DEF MetInit, Zero, Modules
<1>1. SampleOK(NoSamples, 0)
  BY DEF SampleOK, NoSamples
<1>2. Averages
  <2>1. \A m \in Modules : latency[m] = NoSamples /\ sum[m] = 0 /\ good[m] = 0
    OBVIOUS
  <2>2. NoSamples.sample_count = 0
    BY Zenon DEF NoSamples
  <2> QED
    BY <1>1, <2>1, <2>2, Zenon DEF Averages
<1>3. Totals
  BY DEF Totals
<1>4. SnapshotTotals
  BY Zenon DEF SnapshotTotals, NoSnap
<1> QED
  BY <1>2, <1>3, <1>4 DEF MetInv

LEMMA ResetSpends ==
  ASSUME used \in [updates : Nat, snaps : Nat, resets : Nat], Spend("resets", MaxResets)
  PROVE  used' \in [updates : Nat, snaps : Nat, resets : Nat] /\ used'.updates = used.updates
BY DEF Spend

\* The counters follow the updates.
LEMMA TotalsStep == ASSUME MetInv, MetNext PROVE Totals'
<1> USE MetricsAssumption DEF MetInv, Totals, Modules, Plus, Spend, Zero
<1>1. ASSUME NEW m \in Modules, NEW x \in Latencies, UpdateOk(m, x) PROVE Totals'
  BY <1>1 DEF UpdateOk
<1>2. ASSUME NEW m \in Modules, UpdateFailed(m) PROVE Totals'
  BY <1>2 DEF UpdateFailed
<1>3. CASE metrics_snapshot
  BY <1>3 DEF metrics_snapshot
<1>4. CASE metrics_reset
  <2>1. used' \in [updates : Nat, snaps : Nat, resets : Nat] /\ used'.updates = used.updates
    BY <1>4, ResetSpends, Zenon DEF metrics_reset
  <2>2. recorded' = [events |-> 0, errors |-> 0] /\ events' = Zero /\ good' = Zero /\ failures' = Zero
    BY <1>4, Zenon DEF metrics_reset
  <2> QED
    BY <2>1, <2>2
<1>5. CASE metrics_close
  BY <1>5, Zenon DEF metrics_close
<1> QED
  BY <1>1, <1>2, <1>3, <1>4, <1>5, Zenon DEF MetNext

\* A sample goes into one average, and the sample that wraps the count ends the process.
LEMMA AveragesStep == ASSUME MetInv, MetNext PROVE Averages'
<1>0. Averages /\ good \in [Modules -> Nat]
  BY Zenon DEF MetInv, Totals
<1>1. ASSUME NEW m \in Modules, NEW x \in Latencies, UpdateOk(m, x) PROVE Averages'
  <2>0. /\ handle = "open" /\ good' = [good EXCEPT ![m] = @ + 1]
        /\ good[m] = latency[m].sample_count
        /\ latency[m].sample_count \in 0 .. CountLimit - 1
        /\ CountLimit \in Nat \ {0}
    BY <1>0, <1>1, MetricsAssumption, Zenon DEF UpdateOk, Spend, Plus, Averages, SampleOK
  <2>1. CASE ~DividesByZero(latency[m])
    <3>1. /\ latency' = [latency EXCEPT ![m] = latency_record(latency[m], x)]
          /\ sum' = [sum EXCEPT ![m] = @ + x] /\ handle' = "open"
      BY <1>1, <2>0, <2>1, Zenon DEF UpdateOk
    <3>2. SampleOK(latency_record(latency[m], x), sum[m] + x)
      BY <1>0, <2>1, RecordKeeps, Zenon DEF Averages
    <3>3. latency_record(latency[m], x).sample_count = latency[m].sample_count + 1
      <4>1. latency[m].sample_count + 1 < CountLimit
        BY <2>0, <2>1 DEF DividesByZero
      <4> QED
        BY <2>0, <4>1, SmallMod DEF latency_record
    <3>4. sum[m] + x \in Nat
      BY <3>2, Zenon DEF SampleOK
    <3> QED
      BY <1>0, <2>0, <3>1, <3>2, <3>3, <3>4, Zenon DEF Averages
  <2>2. CASE DividesByZero(latency[m])
    <3>1. handle' = "trapped" /\ UNCHANGED <<latency, sum>>
      BY <1>1, <2>2, Zenon DEF UpdateOk
    <3>2. good'[m] = CountLimit
      <4>1. latency[m].sample_count + 1 = CountLimit
        BY <2>0, <2>2, SmallMod DEF DividesByZero
      <4> QED
        BY <1>0, <2>0, <4>1, Zenon
    <3> QED
      BY <1>0, <3>1, <3>2, Zenon DEF Averages
  <2> QED
    BY <2>1, <2>2, Zenon
<1>2. ASSUME NEW m \in Modules, UpdateFailed(m) PROVE Averages'
  BY <1>0, <1>2, Zenon DEF UpdateFailed, Averages
<1>3. CASE metrics_snapshot
  BY <1>0, <1>3, Zenon DEF metrics_snapshot, Averages
<1>4. CASE metrics_reset
  <2>1. SampleOK(NoSamples, 0) /\ NoSamples.sample_count = 0
    BY MetricsAssumption DEF SampleOK, NoSamples
  <2>2. /\ \A m \in Modules : latency'[m] = NoSamples /\ sum'[m] = 0 /\ good'[m] = 0
        /\ latency' = [m \in Modules |-> latency'[m]] /\ sum' \in [Modules -> Nat]
        /\ handle' = "open"
    BY <1>4, Zenon DEF metrics_reset, Zero, Spend
  <2> QED
    BY <2>1, <2>2, Zenon DEF Averages
<1>5. CASE metrics_close
  BY <1>0, <1>5, Zenon DEF metrics_close, Averages
<1> QED
  BY <1>1, <1>2, <1>3, <1>4, <1>5, Zenon DEF MetNext

LEMMA MetInvariant == MetSpec => []MetInv
<1>1. MetInv /\ [MetNext]_metVars => MetInv'
  <2> SUFFICES ASSUME MetInv, [MetNext]_metVars PROVE MetInv'
    OBVIOUS
  <2>1. CASE MetNext
    <3>1. /\ handle' \in {"open", "trapped", "closed"} /\ next_snapshot_id' \in 0 .. CountLimit - 1
          /\ SnapshotTotals'
      BY <2>1, MetricsAssumption
         DEF MetNext, UpdateOk, UpdateFailed, metrics_snapshot, metrics_reset,
         metrics_close, MetInv, SnapshotTotals, Totals, Spend
    <3> QED
      BY <2>1, <3>1, TotalsStep, AveragesStep, Zenon DEF MetInv
  <2>2. CASE UNCHANGED metVars
    BY <2>2, Zenon DEF metVars, MetInv, Averages, Totals, SnapshotTotals
  <2> QED
    BY <2>1, <2>2, Zenon
<1> QED
  BY <1>1, MetInitInv, PTL DEF MetSpec

\* The average lies between the extremes and at most (n - 1) / 2 below the mean, for any
\* widths of the counters (metrics_collector.c:21-36).
THEOREM MetAverageDrift == MetSpec => []AverageDrift
<1>1. MetInv => AverageDrift
  BY Zenon DEF MetInv, Averages, SampleOK, AverageDrift
<1> QED
  BY <1>1, MetInvariant, PTL

\* Nothing overflows, and the division by zero is met at the sample that wraps the count
\* and at no other (metrics_collector.c:35).
THEOREM MetTrapsAtWrap == MetSpec => []TrapsAtWrap
<1>1. MetInv => TrapsAtWrap
  <2> SUFFICES ASSUME MetInv PROVE TrapsAtWrap
    OBVIOUS
  <2>1. events \in [Modules -> 0 .. MaxUpdates]
    BY MetricsAssumption DEF MetInv, Totals, Modules
  <2>2. good \in [Modules -> 0 .. MaxUpdates] /\ failures \in [Modules -> 0 .. MaxUpdates]
    BY <2>1, MetricsAssumption DEF MetInv, Totals
  <2>3. ASSUME NEW m \in Modules
        PROVE  latency[m].sample_count \in 0 .. CountLimit - 1 /\ latency[m].avg_us \in 0 .. ValueLimit - 1
    <3> DEFINE s == latency[m]
    <3>1. SampleOK(s, sum[m])
      BY Zenon DEF MetInv, Averages
    <3>2. ASSUME NEW x \in Latencies PROVE x < ValueLimit
      <4>1. 1 * x <= CountLimit * x /\ x \in Nat
        BY MetricsAssumption, TimesMonotone
      <4>2. CountLimit * x = x * CountLimit /\ 1 * x = x /\ x * CountLimit \in Nat
        BY <4>1, MetricsAssumption
      <4> QED
        BY <4>1, <4>2, MetricsAssumption
    <3>3. /\ s.sample_count \in 0 .. CountLimit - 1 /\ s.avg_us \in Nat
          /\ s.sample_count = 0 => s.avg_us = 0
          /\ s.sample_count > 0 => s.max_us \in Latencies /\ s.avg_us <= s.max_us
      BY <3>1, Zenon DEF SampleOK
    <3>4. ValueLimit \in Nat \ {0} /\ Latencies \subseteq Nat /\ CountLimit \in Nat
      BY MetricsAssumption, Zenon
    <3> HIDE DEF s
    <3>5. CASE s.sample_count = 0
      BY <3>3, <3>4, <3>5 DEF s
    <3>6. CASE s.sample_count > 0
      <4>1. PICK x \in Latencies : s.avg_us <= x
        BY <3>3, <3>6, Zenon
      <4>2. x < ValueLimit /\ x \in Nat
        BY <3>2, <3>4, Zenon
      <4>3. s.avg_us \in 0 .. ValueLimit - 1
        BY <3>3, <3>4, <4>1, <4>2
      <4> QED
        BY <3>3, <4>3, Zenon DEF s
    <3> QED
      BY <3>3, <3>4, <3>5, <3>6
  <2> QED
    BY <2>1, <2>2, <2>3, Zenon DEF TrapsAtWrap, MetTypeOK, MetInv, Averages
<1> QED
  BY <1>1, MetInvariant, PTL

\* A snapshot accounts for every update and every failure since the last reset
\* (metrics_collector.c:81-87).
THEOREM MetSnapshotTotals == MetSpec => []SnapshotTotals
<1>1. MetInv => SnapshotTotals
  BY Zenon DEF MetInv
<1> QED
  BY <1>1, MetInvariant, PTL

=============================================================================
