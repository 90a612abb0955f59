--------------------------- MODULE LoggerProofs -----------------------------
(***************************************************************************)
(* Proofs of the safety properties of Logger, for any finite number of     *)
(* threads, any number of messages and any number of changes of the level  *)
(* and the tag.                                                            *)
(***************************************************************************)
EXTENDS Logger, FiniteSetTheorems, TLAPS

\* The mutex belongs to the thread inside the critical section, or to one that was
\* cancelled there.
MutexHeld ==
  \A t \in All : /\ at[t] \in {"held", "wrote"} => lock = t
                 /\ lock = t => at[t] \in {"held", "wrote", "gone"}
                 /\ lock = t /\ at[t] = "gone" => call[t] = "output"

\* How far a thread is goes with the function it is in.
PlaceOfCall ==
  \A t \in All : /\ at[t] = "idle" => call[t] = "none"
                 /\ at[t] \in {"wait", "held", "wrote"} => call[t] # "none"
                 /\ at[t] = "wrote" => call[t] = "output"
                 /\ call[t] = "level" => reg[t] \in Levels
                 /\ call[t] = "tag" => reg[t] \in Tags \cup {NoTag}
                 /\ call[t] = "close" => t = Main /\ phase = "close"

\* What a thread has loaded under the mutex is still what the context holds.
Loaded ==
  \A t \in All :
    /\ call[t] = "drop" /\ at[t] = "held" => reg[t] = dropped_messages
    /\ call[t] = "output" /\ at[t] = "wrote" => reg[t] = total_messages
    /\ call[t] = "stats" /\ at[t] = "held" => reg[t] = total_messages + dropped_messages

\* Messages that met the logger and are not counted yet.
OnTheWay == {t \in All : call[t] \in {"drop", "output"}}

\* The tag is half written only while the thread that writes it has the mutex.
TagHalf ==
  context_tag = HalfTag => \E t \in All : lock = t /\ call[t] = "tag" /\ at[t] = "held"

\* main is alone before it starts the threads and after it has joined them.
ThreadsByPhase ==
  /\ phase = "start" => \A t \in All : at[t] = "idle"
  /\ phase \in {"close", "exit"} => \A t \in Threads : at[t] = "gone"
  /\ phase = "exit" => at[Main] = "idle" /\ ctx # "live"
  /\ ctx = "freed" => phase = "exit"

LInv ==
  /\ LogTypeOK /\ MutexHeld /\ PlaceOfCall /\ Loaded
  /\ CountsExact /\ TagHalf /\ WholeTag /\ ThreadsByPhase /\ NoLogAfterClose

LEMMA LogInitInv == LogInit => LInv
<1> SUFFICES ASSUME LogInit PROVE LInv
  OBVIOUS
<1> USE LoggerAssumption DEF LogInit
<1>1. LogTypeOK
  BY DEF LogTypeOK, Calls, Places, All, ULOG_LEVEL_INFO, NoTag
<1>2. OnTheWay = {}
  BY Zenon DEF OnTheWay
<1>3. CountsExact
  <2>1. Cardinality(OnTheWay) = 0
    BY <1>2, FS_EmptySet, Zenon
  <2>2. total_messages + dropped_messages + forgotten + Cardinality(OnTheWay) = made
    BY <2>1
  <2>3. stats.dropped_logs <= stats.total_logs
    OBVIOUS
  <2> QED
    BY <1>1, <2>2, <2>3, Zenon DEF CountsExact, OnTheWay
<1>4. MutexHeld /\ PlaceOfCall /\ Loaded /\ TagHalf /\ WholeTag /\ ThreadsByPhase
        /\ NoLogAfterClose
  BY DEF MutexHeld, PlaceOfCall, Loaded, TagHalf, WholeTag, ThreadsByPhase, NoLogAfterClose,
     All, NoTag, HalfTag
<1> QED
  BY <1>1, <1>3, <1>4, Zenon DEF LInv

\* A step of LogNext, action by action.
LogStep ==
  \/ log_init \/ log_info \/ JoinAll \/ log_close
  \/ \E t \in All : \/ Drop(t) \/ ulog_output(t) \/ ulog_set_level(t) \/ ulog_set_context_tag(t)
                    \/ ulog_stats(t) \/ ulog_stats_reset(t) \/ BeginChange(t) \/ ThreadEnds(t)
                    \/ CancelInSyslog(t) \/ \E l \in Levels : ulog_log_at(t, l)

\* How thread t gets on: it enters a function, takes the mutex, writes its line, leaves
\* the function and the mutex, ends, or is cancelled.
EnterStep(t) ==
  /\ at[t] = "idle" /\ at' = [at EXCEPT ![t] = "wait"]
  /\ \E c \in Calls \ {"none"} : call' = [call EXCEPT ![t] = c]
  /\ lock' = lock
LockStep(t) ==
  /\ at[t] = "wait" /\ at' = [at EXCEPT ![t] = "held"] /\ lock = Free /\ lock' = t /\ call' = call
WriteStep(t) ==
  /\ at[t] = "held" /\ call[t] = "output" /\ at' = [at EXCEPT ![t] = "wrote"] /\ UNCHANGED <<lock, call>>
LeaveStep(t) ==
  /\ at[t] \in {"held", "wrote"} /\ at' = [at EXCEPT ![t] = "idle"] /\ lock' = Free
  /\ call' = [call EXCEPT ![t] = "none"]
EndStep(t) ==
  /\ t \in Threads /\ phase = "run" /\ UNCHANGED <<lock, call>>
  /\ at[t] = "idle" \/ (at[t] = "held" /\ call[t] = "output")
  /\ at' = [at EXCEPT ![t] = "gone"]

LEMMA LogShape ==
  ASSUME LInv, LogStep
  PROVE  \/ UNCHANGED <<lock, call, at>>
         \/ \E t \in All : EnterStep(t) \/ LockStep(t) \/ WriteStep(t) \/ LeaveStep(t) \/ EndStep(t)
<1> USE DEF Calls, Goes, Locks, Unlocks, Enters, ctxVars
<1>0. Main \in All
  BY Zenon DEF All
<1>1. CASE log_init \/ JoinAll
  BY <1>1, Zenon DEF log_init, JoinAll
<1>2. CASE log_info
  BY <1>0, <1>2, Zenon DEF log_info, EnterStep
<1>3. CASE log_close
  BY <1>0, <1>3, Zenon DEF log_close, EnterStep, LockStep, LeaveStep
<1>4. ASSUME NEW t \in All, Drop(t) \/ ulog_set_level(t) \/ ulog_set_context_tag(t) \/ ulog_stats(t)
                              \/ ulog_stats_reset(t)
      PROVE  LockStep(t) \/ LeaveStep(t)
  BY <1>4, Zenon
     DEF Drop, ulog_set_level, ulog_set_context_tag, ulog_stats, ulog_stats_reset, LockStep,
     LeaveStep
<1>5. ASSUME NEW t \in All, ulog_output(t) PROVE LockStep(t) \/ WriteStep(t) \/ LeaveStep(t)
  BY <1>5, Zenon DEF ulog_output, LockStep, WriteStep, LeaveStep
<1>6. ASSUME NEW t \in All, BeginChange(t) PROVE EnterStep(t)
  BY <1>6, Zenon DEF BeginChange, Change, EnterStep
<1>7. ASSUME NEW t \in All, NEW l \in Levels, ulog_log_at(t, l) PROVE EnterStep(t)
  <2> DEFINE c == IF min_level > l THEN "drop" ELSE "output"
  <2>1. c \in Calls \ {"none"}
    OBVIOUS
  <2>2. call' = [call EXCEPT ![t] = c] /\ at[t] = "idle" /\ at' = [at EXCEPT ![t] = "wait"]
          /\ lock' = lock
    BY <1>7, Zenon DEF ulog_log_at
  <2> HIDE DEF c
  <2> QED
    BY <2>1, <2>2, Zenon DEF EnterStep
<1>8. ASSUME NEW t \in All, ThreadEnds(t) \/ CancelInSyslog(t) PROVE EndStep(t)
  <2>1. phase = "run"
    BY <1>8, LoggerAssumption, Zenon
       DEF ThreadEnds, CancelInSyslog, LInv, ThreadsByPhase, LogTypeOK
  <2> QED
    BY <1>8, <2>1, LoggerAssumption, Zenon DEF ThreadEnds, CancelInSyslog, EndStep
<1> QED
  BY <1>1, <1>2, <1>3, <1>4, <1>5, <1>6, <1>7, <1>8, Zenon DEF LogStep

\* The types of what LogShape speaks of.
LEMMA LogTypes ==
  ASSUME LInv
  PROVE  /\ call \in [All -> Calls] /\ at \in [All -> Places] /\ reg \in [All -> Nat]
         /\ line \in [All -> Tags \cup {NoTag, HalfTag}]
         /\ total_messages \in Nat /\ dropped_messages \in Nat /\ forgotten \in Nat /\ made \in Nat
         /\ Free \notin All /\ Main \in All /\ Main \notin Threads
BY LoggerAssumption DEF LInv, LogTypeOK, All

\* One thread at a time is between lock and unlock.
LEMMA MutexStep == ASSUME LInv, LogStep PROVE MutexHeld'
<1>0. MutexHeld /\ PlaceOfCall /\ at \in [All -> Places] /\ call \in [All -> Calls] /\ Free \notin All
  BY LogTypes, Zenon DEF LInv
<1> USE <1>0 DEF MutexHeld, PlaceOfCall
<1>1. CASE UNCHANGED <<lock, call, at>>
  BY <1>1, Zenon
<1>2. ASSUME NEW t \in All, EnterStep(t) PROVE MutexHeld'
  BY <1>2, Zenon DEF EnterStep
<1>3. ASSUME NEW t \in All, LockStep(t) PROVE MutexHeld'
  BY <1>3, Zenon DEF LockStep
<1>4. ASSUME NEW t \in All, WriteStep(t) PROVE MutexHeld'
  BY <1>4, Zenon DEF WriteStep
<1>5. ASSUME NEW t \in All, LeaveStep(t) PROVE MutexHeld'
  BY <1>5, Zenon DEF LeaveStep
<1>6. ASSUME NEW t \in All, EndStep(t) PROVE MutexHeld'
  BY <1>6, Zenon DEF EndStep
<1> QED
  BY <1>1, <1>2, <1>3, <1>4, <1>5, <1>6, LogShape, Zenon

\* What only the thread that enters, writes or leaves does to its own registers.
LEMMA PlaceStep == ASSUME LInv, LogStep PROVE PlaceOfCall'
<1>0. PlaceOfCall /\ at \in [All -> Places] /\ call \in [All -> Calls] /\ reg \in [All -> Nat] /\ Main \in All
  BY LogTypes, Zenon DEF LInv
<1> USE <1>0, LoggerAssumption DEF PlaceOfCall, Goes, Locks, Unlocks, Enters
<1>1. CASE log_init \/ JoinAll
  BY <1>1, Zenon DEF log_init, JoinAll
<1>2. CASE log_info
  BY <1>2, Zenon DEF log_info
<1>3. CASE log_close
  BY <1>3 DEF log_close
<1>4. ASSUME NEW t \in All, Drop(t) \/ ulog_stats(t) \/ ulog_stats_reset(t) PROVE PlaceOfCall'
  BY <1>4 DEF Drop, ulog_stats, ulog_stats_reset
<1>5. ASSUME NEW t \in All, ulog_set_level(t) \/ ulog_set_context_tag(t) PROVE PlaceOfCall'
  BY <1>5 DEF ulog_set_level, ulog_set_context_tag
<1>6. ASSUME NEW t \in All, ulog_output(t) PROVE PlaceOfCall'
  BY <1>6 DEF ulog_output
<1>7. ASSUME NEW t \in All, BeginChange(t) PROVE PlaceOfCall'
  BY <1>7 DEF BeginChange, Change, NoTag
<1>8. ASSUME NEW t \in All, NEW l \in Levels, ulog_log_at(t, l) PROVE PlaceOfCall'
  BY <1>8, Zenon DEF ulog_log_at
<1>9. ASSUME NEW t \in All, ThreadEnds(t) \/ CancelInSyslog(t) PROVE PlaceOfCall'
  BY <1>9 DEF ThreadEnds, CancelInSyslog
<1> QED
  BY <1>1, <1>2, <1>3, <1>4, <1>5, <1>6, <1>7, <1>8, <1>9, Zenon DEF LogStep

\* The threads are there between log_init and the joins, and so is the context as long as
\* one of them is in a call.
LEMMA PhaseStep == ASSUME LInv, LogStep PROVE ThreadsByPhase' /\ NoLogAfterClose'
<1>0. /\ ThreadsByPhase /\ NoLogAfterClose /\ PlaceOfCall /\ at \in [All -> Places] /\ Main \in All
      /\ phase \in {"start", "run", "close", "exit"} /\ ctx \in {"none", "live", "freed"}
      /\ All = Threads \cup {Main} /\ Main \notin Threads
  BY LogTypes, Zenon DEF LInv, LogTypeOK, All
<1> USE <1>0, LoggerAssumption DEF ThreadsByPhase, NoLogAfterClose, Goes, Locks, Unlocks, Enters, ctxVars
<1>1. CASE log_init
  BY <1>1, Zenon DEF log_init
<1>2. CASE log_info
  BY <1>2, Zenon DEF log_info
<1>3. CASE JoinAll
  BY <1>3, Zenon DEF JoinAll
<1>4. CASE log_close
  BY <1>4 DEF log_close, PlaceOfCall
<1>5. ASSUME NEW t \in All, InCall(t) PROVE ThreadsByPhase' /\ NoLogAfterClose'
  <2>1. UNCHANGED <<phase, ctx>> /\ at[t] \in {"wait", "held", "wrote"}
          /\ \E p \in {"held", "wrote", "idle"} : at' = [at EXCEPT ![t] = p]
    BY <1>5, Zenon
       DEF InCall, Drop, ulog_output, ulog_set_level, ulog_set_context_tag, ulog_stats,
       ulog_stats_reset
  <2> QED
    BY <2>1, Zenon
<1>6. ASSUME NEW t \in All, BeginChange(t) PROVE ThreadsByPhase' /\ NoLogAfterClose'
  <2>1. UNCHANGED <<phase, ctx>> /\ phase # "start" /\ ctx = "live" /\ at[t] = "idle"
          /\ (t = Main \/ phase = "run") /\ at' = [at EXCEPT ![t] = "wait"]
    BY <1>6, Zenon DEF BeginChange, Change, Runs
  <2> QED
    BY <2>1, Zenon
<1>7. ASSUME NEW t \in All, NEW l \in Levels, ulog_log_at(t, l)
      PROVE  ThreadsByPhase' /\ NoLogAfterClose'
  <2>1. UNCHANGED <<phase, ctx>> /\ phase # "start" /\ ctx = "live" /\ at[t] = "idle"
          /\ (t = Main \/ phase = "run") /\ at' = [at EXCEPT ![t] = "wait"]
    BY <1>7, Zenon DEF ulog_log_at, Runs
  <2> QED
    BY <2>1, Zenon
<1>8. ASSUME NEW t \in All, ThreadEnds(t) \/ CancelInSyslog(t)
      PROVE  ThreadsByPhase' /\ NoLogAfterClose'
  BY <1>8, Zenon DEF ThreadEnds, CancelInSyslog
<1> QED
  BY <1>1, <1>2, <1>3, <1>4, <1>5, <1>6, <1>7, <1>8, Zenon DEF LogStep, InCall

\* Whoever counts has the mutex, so nobody else is between its load and its store.
LEMMA LoadedStep == ASSUME LInv, LogStep PROVE Loaded'
<1>0. /\ Loaded /\ MutexHeld /\ PlaceOfCall /\ at \in [All -> Places] /\ call \in [All -> Calls]
      /\ reg \in [All -> Nat] /\ Main \in All /\ Free \notin All
      /\ total_messages \in Nat /\ dropped_messages \in Nat
  BY LogTypes, Zenon DEF LInv
<1> USE <1>0 DEF Loaded, MutexHeld, PlaceOfCall, Goes, Locks, Unlocks, Enters, ctxVars
<1>1. CASE log_init \/ JoinAll
  BY <1>1 DEF log_init, JoinAll
<1>2. CASE log_info
  BY <1>2, Zenon DEF log_info
<1>3. CASE log_close
  BY <1>3 DEF log_close
<1>4. ASSUME NEW t \in All, Drop(t) PROVE Loaded'
  BY <1>4 DEF Drop
<1>5. ASSUME NEW t \in All, ulog_output(t) PROVE Loaded'
  BY <1>5 DEF ulog_output
<1>6. ASSUME NEW t \in All, ulog_set_level(t) \/ ulog_set_context_tag(t) PROVE Loaded'
  BY <1>6 DEF ulog_set_level, ulog_set_context_tag
<1>7. ASSUME NEW t \in All, ulog_stats(t) PROVE Loaded'
  BY <1>7 DEF ulog_stats
<1>8. ASSUME NEW t \in All, ulog_stats_reset(t) PROVE Loaded'
  BY <1>8 DEF ulog_stats_reset
<1>9. ASSUME NEW t \in All, BeginChange(t) PROVE Loaded'
  BY <1>9 DEF BeginChange, Change
<1>10. ASSUME NEW t \in All, NEW l \in Levels, ulog_log_at(t, l) PROVE Loaded'
  BY <1>10 DEF ulog_log_at
<1>11. ASSUME NEW t \in All, ThreadEnds(t) \/ CancelInSyslog(t) PROVE Loaded'
  BY <1>11 DEF ThreadEnds, CancelInSyslog
<1> QED
  BY <1>1, <1>2, <1>3, <1>4, <1>5, <1>6, <1>7, <1>8, <1>9, <1>10, <1>11, Zenon DEF LogStep

\* Whoever writes a line has the mutex, so the tag is whole.
LEMMA TagStep == ASSUME LInv, LogStep PROVE TagHalf' /\ WholeTag'
<1>0. /\ TagHalf /\ WholeTag /\ MutexHeld /\ PlaceOfCall /\ at \in [All -> Places]
      /\ call \in [All -> Calls] /\ Main \in All /\ Free \notin All
      /\ line \in [All -> Tags \cup {NoTag, HalfTag}]
  BY LogTypes, Zenon DEF LInv
<1>h. HalfTag \notin Tags \cup {NoTag}
  BY LoggerAssumption DEF HalfTag, NoTag
<1> USE <1>0 DEF TagHalf, WholeTag, MutexHeld, PlaceOfCall, Goes, Locks, Unlocks, Enters, ctxVars
<1>1. CASE log_init \/ JoinAll
  BY <1>1 DEF log_init, JoinAll
<1>2. CASE log_info
  BY <1>2, Zenon DEF log_info
<1>3. CASE log_close
  BY <1>3 DEF log_close
<1>4. ASSUME NEW t \in All, Drop(t) \/ ulog_set_level(t) PROVE TagHalf' /\ WholeTag'
  BY <1>4 DEF Drop, ulog_set_level
<1>5. ASSUME NEW t \in All, ulog_output(t) PROVE TagHalf' /\ WholeTag'
  BY <1>5 DEF ulog_output
<1>6. ASSUME NEW t \in All, ulog_set_context_tag(t) PROVE TagHalf' /\ WholeTag'
  BY <1>6, <1>h DEF ulog_set_context_tag
<1>7. ASSUME NEW t \in All, ulog_stats(t) \/ ulog_stats_reset(t) PROVE TagHalf' /\ WholeTag'
  BY <1>7 DEF ulog_stats, ulog_stats_reset
<1>8. ASSUME NEW t \in All, BeginChange(t) PROVE TagHalf' /\ WholeTag'
  BY <1>8 DEF BeginChange, Change
<1>9. ASSUME NEW t \in All, NEW l \in Levels, ulog_log_at(t, l) PROVE TagHalf' /\ WholeTag'
  BY <1>9, Zenon DEF ulog_log_at
<1>10. ASSUME NEW t \in All, ThreadEnds(t) \/ CancelInSyslog(t) PROVE TagHalf' /\ WholeTag'
  BY <1>10 DEF ThreadEnds, CancelInSyslog
<1> QED
  BY <1>1, <1>2, <1>3, <1>4, <1>5, <1>6, <1>7, <1>8, <1>9, <1>10, Zenon DEF LogStep

\* What a step does to the sum of the counters and to the messages on their way: it
\* leaves both alone, brings a message, or counts one.
Counted == total_messages + dropped_messages + forgotten
KeepsCount == OnTheWay' = OnTheWay /\ Counted' = Counted /\ made' = made
Brings(t) ==
  /\ t \in All \ OnTheWay /\ OnTheWay' = OnTheWay \cup {t} /\ Counted' = Counted
  /\ made < MaxCalls /\ made' = made + 1
Counts(t) ==
  t \in OnTheWay /\ OnTheWay' = OnTheWay \ {t} /\ Counted' = Counted + 1 /\ made' = made

LEMMA CountEffect ==
  ASSUME LInv, LogStep
  PROVE  /\ KeepsCount \/ \E t \in All : Brings(t) \/ Counts(t)
         /\ total_messages' \in Nat /\ dropped_messages' \in Nat /\ forgotten' \in Nat
<1>0. /\ Loaded /\ PlaceOfCall /\ at \in [All -> Places] /\ call \in [All -> Calls]
      /\ reg \in [All -> Nat] /\ Main \in All /\ forgotten \in Nat /\ made \in Nat
      /\ total_messages \in Nat /\ dropped_messages \in Nat
  BY LogTypes, Zenon DEF LInv
<1> DEFINE Good == /\ KeepsCount \/ \E t \in All : Brings(t) \/ Counts(t)
                   /\ total_messages' \in Nat /\ dropped_messages' \in Nat /\ forgotten' \in Nat
<1> USE <1>0 DEF Loaded, PlaceOfCall, Goes, Locks, Unlocks, Enters, ctxVars, ghostVars, Counted, OnTheWay
<1>1. ASSUME log_init \/ JoinAll PROVE Good
  BY <1>1, Zenon DEF log_init, JoinAll, KeepsCount
<1>2. ASSUME log_info PROVE Good
  BY <1>2 DEF log_info, Brings
<1>3. ASSUME log_close PROVE Good
  BY <1>3, Zenon DEF log_close, KeepsCount
<1>4. ASSUME NEW t \in All, Drop(t) PROVE Good
  BY <1>4 DEF Drop, KeepsCount, Counts
<1>5. ASSUME NEW t \in All, ulog_output(t) PROVE Good
  BY <1>5 DEF ulog_output, KeepsCount, Counts
<1>6. ASSUME NEW t \in All, ulog_set_level(t) \/ ulog_set_context_tag(t) PROVE Good
  BY <1>6, Zenon DEF ulog_set_level, ulog_set_context_tag, KeepsCount
<1>7. ASSUME NEW t \in All, ulog_stats(t) \/ ulog_stats_reset(t) PROVE Good
  BY <1>7 DEF ulog_stats, ulog_stats_reset, KeepsCount
<1>8. ASSUME NEW t \in All, BeginChange(t) PROVE Good
  BY <1>8, Zenon DEF BeginChange, Change, KeepsCount
<1>9. ASSUME NEW t \in All, NEW l \in Levels, ulog_log_at(t, l) PROVE Good
  BY <1>9 DEF ulog_log_at, Brings
<1>10. ASSUME NEW t \in All, ThreadEnds(t) \/ CancelInSyslog(t) PROVE Good
  BY <1>10, Zenon DEF ThreadEnds, CancelInSyslog, KeepsCount
<1> HIDE DEF Good
<1>11. Good
  BY <1>1, <1>2, <1>3, <1>4, <1>5, <1>6, <1>7, <1>8, <1>9, <1>10, Zenon DEF LogStep
<1> QED
  BY <1>11, Zenon DEF Good

\* Every message is counted once or on its way, and the counters stay in range.
LEMMA TallyStep ==
  ASSUME LInv, LogStep
  PROVE  /\ Counted' + Cardinality(OnTheWay') = made'
         /\ total_messages' \in 0 .. MaxCalls /\ dropped_messages' \in 0 .. MaxCalls
         /\ forgotten' \in 0 .. MaxCalls /\ made' \in 0 .. MaxCalls
<1>1. IsFiniteSet(OnTheWay)
  BY LoggerAssumption, FS_AddElement, FS_Subset, Zenon DEF OnTheWay, All
<1>2. /\ Counted + Cardinality(OnTheWay) = made /\ made \in 0 .. MaxCalls /\ MaxCalls \in Nat
      /\ Counted \in Nat
  BY LoggerAssumption DEF LInv, CountsExact, LogTypeOK, Counted, OnTheWay
<1>3. /\ Cardinality(OnTheWay) \in Nat
      /\ \A t : IsFiniteSet(OnTheWay \cup {t}) /\ IsFiniteSet(OnTheWay \ {t})
  BY <1>1, FS_CardinalityType, FS_AddElement, FS_RemoveElement, Zenon
<1>4. Counted' + Cardinality(OnTheWay') = made' /\ made' \in 0 .. MaxCalls
        /\ Cardinality(OnTheWay') \in Nat
  <2>1. CASE KeepsCount
    BY <1>2, <1>3, <2>1, Zenon DEF KeepsCount
  <2>2. ASSUME NEW t \in All, Brings(t)
        PROVE  Counted' + Cardinality(OnTheWay') = made' /\ made' \in 0 .. MaxCalls
                 /\ Cardinality(OnTheWay') \in Nat
    <3>1. Cardinality(OnTheWay') = Cardinality(OnTheWay) + 1
      BY <1>1, <2>2, FS_AddElement, Zenon DEF Brings
    <3> QED
      BY <1>2, <1>3, <2>2, <3>1 DEF Brings
  <2>3. ASSUME NEW t \in All, Counts(t)
        PROVE  Counted' + Cardinality(OnTheWay') = made' /\ made' \in 0 .. MaxCalls
                 /\ Cardinality(OnTheWay') \in Nat
    <3>1. Cardinality(OnTheWay') = Cardinality(OnTheWay) - 1
      BY <1>1, <2>3, FS_RemoveElement, Zenon DEF Counts
    <3>2. Cardinality(OnTheWay') \in Nat
      BY <1>3, <2>3, FS_CardinalityType, Zenon DEF Counts
    <3> QED
      BY <1>2, <1>3, <2>3, <3>1, <3>2 DEF Counts
  <2> QED
    BY <2>1, <2>2, <2>3, CountEffect, Zenon
<1> QED
  BY <1>2, <1>4, CountEffect DEF Counted

\* ulog_stats never returns more dropped messages than messages.
LEMMA StatsStep ==
  ASSUME LInv, LogStep
  PROVE  /\ stats'.total_logs \in 0 .. MaxCalls /\ stats'.dropped_logs \in 0 .. MaxCalls
         /\ stats'.dropped_logs <= stats'.total_logs
<1>0. /\ Loaded /\ reg \in [All -> Nat] /\ total_messages \in Nat /\ dropped_messages \in Nat
      /\ Counted <= MaxCalls /\ forgotten \in Nat /\ MaxCalls \in Nat
  <2>1. IsFiniteSet(OnTheWay)
    BY LoggerAssumption, FS_AddElement, FS_Subset, Zenon DEF OnTheWay, All
  <2>2. Counted + Cardinality(OnTheWay) = made /\ made \in 0 .. MaxCalls
    BY Zenon DEF LInv, CountsExact, LogTypeOK, Counted, OnTheWay
  <2> QED
    BY <2>1, <2>2, FS_CardinalityType, LogTypes, LoggerAssumption DEF LInv, Counted
<1>1. CASE UNCHANGED stats
  BY <1>1, Zenon DEF LInv, LogTypeOK, CountsExact
<1>2. ASSUME NEW t \in All, ulog_stats(t), stats' # stats
      PROVE  /\ stats'.total_logs \in 0 .. MaxCalls /\ stats'.dropped_logs \in 0 .. MaxCalls
             /\ stats'.dropped_logs <= stats'.total_logs
  BY <1>0, <1>2 DEF ulog_stats, Unlocks, Goes, Loaded, Counted
<1>3. ASSUME NEW t \in All
      PROVE  /\ Drop(t) \/ ulog_output(t) \/ ulog_set_level(t) \/ ulog_set_context_tag(t)
                  \/ ulog_stats_reset(t) => UNCHANGED stats
             /\ BeginChange(t) \/ ThreadEnds(t) \/ CancelInSyslog(t) => UNCHANGED stats
             /\ \A l \in Levels : ulog_log_at(t, l) => UNCHANGED stats
  BY Zenon DEF Drop, ulog_output, ulog_set_level, ulog_set_context_tag, ulog_stats_reset,
     BeginChange,
     Change, ThreadEnds, CancelInSyslog, ulog_log_at
<1>4. log_init \/ log_info \/ JoinAll \/ log_close => UNCHANGED stats
  BY Zenon DEF log_init, log_info, JoinAll, log_close
<1> QED
  BY <1>1, <1>2, <1>3, <1>4, Zenon DEF LogStep

\* The rest of the type invariant.
LEMMA LogTypeStep == ASSUME LInv, LogStep PROVE LogTypeOK'
<1> DEFINE Rest == /\ phase \in {"start", "run", "close", "exit"} /\ ctx \in {"none", "live", "freed"}
                   /\ lock \in All \cup {Free} /\ min_level \in Levels \cup {ULOG_LEVEL_INFO}
                   /\ context_tag \in Tags \cup {NoTag, HalfTag}
                   /\ call \in [All -> Calls] /\ at \in [All -> Places]
                   /\ reg \in [All -> Nat] /\ line \in [All -> Tags \cup {NoTag, HalfTag}]
                   /\ changes \in 0 .. MaxChanges
<1>0. /\ Rest /\ PlaceOfCall /\ Main \in All /\ total_messages \in Nat /\ dropped_messages \in Nat
      /\ MaxChanges \in Nat /\ Levels \subseteq Nat /\ Tags \cup {NoTag} \subseteq Nat
  BY LogTypes, LoggerAssumption DEF LInv, LogTypeOK, NoTag
<1> USE <1>0 DEF PlaceOfCall, Goes, Locks, Unlocks, Enters, ctxVars, ghostVars, Calls, Places
<1>1. ASSUME log_init \/ JoinAll PROVE Rest'
  BY <1>1, Zenon DEF log_init, JoinAll
<1>2. ASSUME log_info PROVE Rest'
  BY <1>2, Zenon DEF log_info
<1>3. ASSUME log_close PROVE Rest'
  BY <1>3 DEF log_close
<1>4. ASSUME NEW t \in All, Drop(t) PROVE Rest'
  BY <1>4 DEF Drop
<1>5. ASSUME NEW t \in All, ulog_output(t) PROVE Rest'
  BY <1>5 DEF ulog_output
<1>6. ASSUME NEW t \in All, ulog_set_level(t) \/ ulog_set_context_tag(t) PROVE Rest'
  BY <1>6 DEF ulog_set_level, ulog_set_context_tag
<1>7. ASSUME NEW t \in All, ulog_stats(t) \/ ulog_stats_reset(t) PROVE Rest'
  BY <1>7 DEF ulog_stats, ulog_stats_reset
<1>8. ASSUME NEW t \in All, BeginChange(t) PROVE Rest'
  BY <1>8 DEF BeginChange, Change
<1>9. ASSUME NEW t \in All, NEW l \in Levels, ulog_log_at(t, l) PROVE Rest'
  BY <1>9, Zenon DEF ulog_log_at
<1>10. ASSUME NEW t \in All, ThreadEnds(t) \/ CancelInSyslog(t) PROVE Rest'
  BY <1>10 DEF ThreadEnds, CancelInSyslog
<1> HIDE DEF Rest
<1>11. Rest'
  BY <1>1, <1>2, <1>3, <1>4, <1>5, <1>6, <1>7, <1>8, <1>9, <1>10, Zenon DEF LogStep
<1> QED
  BY <1>11, TallyStep, StatsStep, Zenon DEF Rest, LogTypeOK

LEMMA LogInvariant == LogSpec => []LInv
<1>1. LInv /\ [LogNext]_logVars => LInv'
  <2> SUFFICES ASSUME LInv, [LogNext]_logVars PROVE LInv'
    OBVIOUS
  <2>1. CASE LogNext
    <3>1. LogStep
      BY <2>1, Zenon DEF LogNext, LogStep, InCall
    <3>2. CountsExact'
      BY <3>1, LogTypeStep, TallyStep, StatsStep, Zenon DEF CountsExact, Counted, OnTheWay
    <3> QED
      BY <3>1, <3>2, LogTypeStep, MutexStep, PlaceStep, LoadedStep, TagStep, PhaseStep,
         Zenon DEF LInv
  <2>2. CASE UNCHANGED logVars
    BY <2>2
       DEF logVars, ctxVars, ghostVars, LInv, LogTypeOK, MutexHeld, PlaceOfCall, Loaded,
       CountsExact, TagHalf, WholeTag, ThreadsByPhase, NoLogAfterClose
  <2> QED
    BY <2>1, <2>2, Zenon
<1> QED
  BY <1>1, LogInitInv, PTL DEF LogSpec

\* The statistics lose no message and count none twice, however many threads log and
\* change the level, and whether or not one is cancelled (unified_logger.c:95-156,
\* 250-252, 391-409).
THEOREM LogCountsExact == LogSpec => []CountsExact
<1>1. LInv => CountsExact
  BY Zenon DEF LInv
<1> QED
  BY <1>1, LogInvariant, PTL

\* No line carries a half-written tag (unified_logger.c:125-129, 419-428).
THEOREM LogWholeTag == LogSpec => []WholeTag
<1>1. LInv => WholeTag
  BY Zenon DEF LInv
<1> QED
  BY <1>1, LogInvariant, PTL

\* The context is not freed under a thread that logs (unified_logger.c:200-218).
THEOREM LogNotAfterClose == LogSpec => []NoLogAfterClose
<1>1. LInv => NoLogAfterClose
  BY Zenon DEF LInv
<1> QED
  BY <1>1, LogInvariant, PTL

=============================================================================
