------------------------------ MODULE Metrics -------------------------------
(***************************************************************************)
(* The metrics of the pipeline (Mgmt/src/metrics_collector.c): counters    *)
(* and latency statistics per module, snapshots of them, and a reset.      *)
(* Every function holds the mutex of the handle from its first access to   *)
(* its last, so each is one step.  The integers have their widths; an      *)
(* integer division by zero ends the process.                              *)
(*                                                                         *)
(* Byte counts, gauges, times and the JSON text are left out: nothing is   *)
(* computed from them.                                                     *)
(***************************************************************************)
EXTENDS Integers

CONSTANTS
  Latencies,   \* the latencies that are recorded, in microseconds
  CountLimit,  \* sample_count and the snapshot id wrap round here: 2^32
  ValueLimit,  \* a latency, and the product in latency_record, here: 2^64
  MaxUpdates,  \* events that are recorded
  MaxSnaps,    \* snapshots that are taken
  MaxResets    \* how often the metrics are reset

\* The latencies are so small that their sum over all samples fits a value.
ASSUME MetricsAssumption ==
  /\ Latencies \subseteq Nat
  /\ CountLimit \in Nat \ {0} /\ ValueLimit \in Nat \ {0}
  /\ \A x \in Latencies : x * CountLimit < ValueLimit
  /\ MaxUpdates \in Nat /\ MaxSnaps \in Nat /\ MaxResets \in Nat

Modules == {"collector", "router", "viewer"}

VARIABLES
  handle,            \* "open", "trapped" by a division by zero, or "closed"
  events,            \* events_processed, shm_reads_total, messages_processed
  good,              \* shm_writes_ok, tcp_forwards_total, messages_processed
  failures,          \* shm_writes_failed, shm_reads_failed, and none in the viewer
  latency,           \* the LatencyStats of each module
  next_snapshot_id,
  snap,              \* the snapshot taken last
  sum,               \* the sum of the latencies behind each average
  recorded,          \* updates since the last reset, and how many were of a failure
  used               \* updates, snapshots and resets so far

metVars == <<handle, events, good, failures, latency, next_snapshot_id, snap, sum,
             recorded, used>>

NoSamples == [min_us |-> 0, max_us |-> 0, avg_us |-> 0, sample_count |-> 0]
Zero == [m \in Modules |-> 0]
NoSnap == [snapshot_id |-> -1, total_events |-> 0, total_errors |-> 0,
           recorded |-> [events |-> 0, errors |-> 0]]

MetTypeOK ==
  /\ handle \in {"open", "trapped", "closed"}
  /\ events \in [Modules -> 0 .. MaxUpdates] /\ good \in [Modules -> 0 .. MaxUpdates]
  /\ failures \in [Modules -> 0 .. MaxUpdates]
  /\ \A m \in Modules : latency[m].sample_count \in 0 .. CountLimit - 1
  /\ \A m \in Modules : latency[m].avg_us \in 0 .. ValueLimit - 1
  /\ next_snapshot_id \in 0 .. CountLimit - 1

\* metrics_init.
MetInit ==
  /\ handle = "open"
  /\ events = Zero /\ good = Zero /\ failures = Zero
  /\ latency = [m \in Modules |-> NoSamples]
  /\ next_snapshot_id = 0 /\ snap = NoSnap
  /\ sum = Zero /\ recorded = [events |-> 0, errors |-> 0]
  /\ used = [updates |-> 0, snaps |-> 0, resets |-> 0]

-----------------------------------------------------------------------------
Smaller(a, b) == IF a < b THEN a ELSE b
Larger(a, b) == IF a > b THEN a ELSE b

\* A faulty running average that halves the distance to each sample.
HalfRecord(s, x) ==
  [min_us |-> IF s.sample_count = 0 THEN x ELSE Smaller(x, s.min_us),
   max_us |-> IF s.sample_count = 0 THEN x ELSE Larger(x, s.max_us),
   avg_us |-> IF s.sample_count = 0 THEN x ELSE (s.avg_us + x) \div 2,
   sample_count |-> (s.sample_count + 1) % CountLimit]

\* latency_record, for a divisor that is not zero.
latency_record(s, x) ==
  [min_us |-> IF s.sample_count = 0 THEN x ELSE Smaller(x, s.min_us),
   max_us |-> IF s.sample_count = 0 THEN x ELSE Larger(x, s.max_us),
   avg_us |-> ((s.avg_us * s.sample_count + x) % ValueLimit)
                \div ((s.sample_count + 1) % CountLimit),
   sample_count |-> (s.sample_count + 1) % CountLimit]

\* The divisor sample_count + 1 is an unsigned int too.
DividesByZero(s) == (s.sample_count + 1) % CountLimit = 0

Plus(f, m) == [f EXCEPT ![m] = @ + 1]
Spend(what, max) == handle = "open" /\ used[what] < max /\ used' = [used EXCEPT ![what] = @ + 1]

-----------------------------------------------------------------------------
(* The functions of the handle. *)

\* metrics_update_collector, _router and _viewer after a success.
UpdateOk(m, x) ==
  /\ Spend("updates", MaxUpdates)
  /\ events' = Plus(events, m)
  /\ good' = Plus(good, m)
  /\ recorded' = [recorded EXCEPT !.events = @ + 1]
  /\ \/ /\ ~DividesByZero(latency[m])
        /\ latency' = [latency EXCEPT ![m] = latency_record(@, x)]
        /\ sum' = [sum EXCEPT ![m] = @ + x]
        /\ UNCHANGED handle
     \/ DividesByZero(latency[m]) /\ handle' = "trapped" /\ UNCHANGED <<latency, sum>>
  /\ UNCHANGED <<failures, next_snapshot_id, snap>>

\* A faulty update that counts a failure and not the event.
FailureOnly(m) ==
  /\ m # "viewer"
  /\ Spend("updates", MaxUpdates)
  /\ failures' = Plus(failures, m)
  /\ recorded' = [events |-> recorded.events + 1, errors |-> recorded.errors + 1]
  /\ UNCHANGED <<handle, events, good, latency, next_snapshot_id, snap, sum>>

\* metrics_update_collector and _router after a failure; the viewer reports none.
UpdateFailed(m) ==
  /\ m # "viewer"
  /\ Spend("updates", MaxUpdates)
  /\ events' = Plus(events, m)
  /\ failures' = Plus(failures, m)
  /\ recorded' = [events |-> recorded.events + 1, errors |-> recorded.errors + 1]
  /\ UNCHANGED <<handle, good, latency, next_snapshot_id, snap, sum>>

\* mq_sends_failed, the third term of total_errors, is never counted.
metrics_snapshot ==
  /\ Spend("snaps", MaxSnaps)
  /\ snap' = [snapshot_id |-> next_snapshot_id,
              total_events |-> events["collector"] + events["router"] + events["viewer"],
              total_errors |-> failures["collector"] + failures["router"],
              recorded |-> recorded]
  /\ next_snapshot_id' = (next_snapshot_id + 1) % CountLimit
  /\ UNCHANGED <<handle, events, good, failures, latency, sum, recorded>>

\* A faulty reset that forgets the latencies.
ResetCounters ==
  /\ Spend("resets", MaxResets)
  /\ events' = Zero /\ good' = Zero /\ failures' = Zero
  /\ recorded' = [events |-> 0, errors |-> 0]
  /\ UNCHANGED <<handle, latency, sum, next_snapshot_id, snap>>

\* The snapshot is cleared, the next id is not.
metrics_reset ==
  /\ Spend("resets", MaxResets)
  /\ events' = Zero /\ good' = Zero /\ failures' = Zero
  /\ latency' = [m \in Modules |-> NoSamples]
  /\ sum' = Zero /\ recorded' = [events |-> 0, errors |-> 0]
  /\ UNCHANGED <<handle, next_snapshot_id, snap>>

metrics_close ==
  /\ handle = "open" /\ handle' = "closed"
  /\ UNCHANGED <<events, good, failures, latency, next_snapshot_id, snap, sum,
                 recorded, used>>

MetNext ==
  \/ \E m \in Modules : UpdateFailed(m) \/ \E x \in Latencies : UpdateOk(m, x)
  \/ metrics_snapshot \/ metrics_reset \/ metrics_close

MetSpec == MetInit /\ [][MetNext]_metVars

-----------------------------------------------------------------------------
(* Properties. *)

\* The reported average lies between the smallest and the largest latency, whatever the
\* order of the samples (metrics_collector.c:21-36).  The n-th sample loses less than n
\* to the division, so that the average is never above the mean and at most (n - 1) / 2
\* below it.
AverageDrift ==
  \A m \in Modules :
    LET s == latency[m]
        n == s.sample_count
        lost == sum[m] - n * s.avg_us
    IN  n > 0 => /\ s.min_us <= s.avg_us /\ s.avg_us <= s.max_us
                 /\ 0 <= lost /\ 2 * lost <= n * (n - 1)

\* The integers keep within their widths, and the process is ended by the division only at
\* the sample that wraps sample_count round, the 2^32nd since the last reset
\* (metrics_collector.c:35).
TrapsAtWrap ==
  MetTypeOK /\ (handle = "trapped" => \E m \in Modules : good[m] = CountLimit)

\* A snapshot accounts for every update since the last reset, once, and for every
\* failure (metrics_collector.c:81-87).
SnapshotTotals ==
  /\ snap.total_events = snap.recorded.events
  /\ snap.total_errors = snap.recorded.errors

=============================================================================
