------------------------------- MODULE Logger -------------------------------
(***************************************************************************)
(* The logger of a process (Common/src/unified_logger.c): one context with *)
(* a mutex, a minimum level, a tag and two counters.  main calls log_init  *)
(* before it starts a thread and log_close after it has joined them all;   *)
(* in between every thread logs.  The level is read before the mutex is    *)
(* taken, everything else under it.  The Router cancels its signal thread, *)
(* and syslog is a cancellation point inside the critical section.         *)
(*                                                                         *)
(* The text of a line is its tag.  The file output is left out: log_init   *)
(* passes no flags.                                                        *)
(***************************************************************************)
EXTENDS Integers, FiniteSets

CONSTANTS
  Threads,     \* the threads that main starts
  Main,        \* the main thread
  Cancelable,  \* the threads that are stopped by pthread_cancel
  Levels,      \* the levels in use
  Tags,        \* the context tags in use
  MaxCalls,    \* messages that are logged
  MaxChanges   \* calls of the other functions

ULOG_LEVEL_INFO == 2
NoTag == 0
HalfTag == -1
Free == "free"

ASSUME LoggerAssumption ==
  /\ Main \notin Threads /\ Cancelable \subseteq Threads /\ Free \notin Threads \cup {Main}
  /\ IsFiniteSet(Threads)
  /\ Levels \subseteq 0 .. 5 /\ Tags \subseteq Nat \ {NoTag}
  /\ MaxCalls \in Nat /\ MaxChanges \in Nat

VARIABLES
  phase,     \* main: "start", "run", "close" or "exit"
  ctx,       \* the context: "none", "live" or "freed"
  lock,      \* the holder of its mutex
  min_level, context_tag, total_messages, dropped_messages,  \* its fields
  call,      \* the function each thread is in
  at,        \* and how far: "idle", "wait" for the mutex, "held", "wrote", or "gone"
  reg,       \* what a thread has loaded and not stored yet, or is about to store
  line,      \* the tag of the last line a thread wrote to syslog
  stats,     \* what ulog_stats last returned: total_logs and dropped_logs
  made,      \* messages accepted or dropped so far
  forgotten, \* how many of them ulog_stats_reset has taken out of the counters
  changes    \* calls of the other functions so far

ctxVars == <<ctx, lock, min_level, context_tag, total_messages, dropped_messages>>
ghostVars == <<made, forgotten, changes>>
logVars == <<phase, ctxVars, call, at, reg, line, stats, ghostVars>>

All == Threads \cup {Main}
Calls == {"none", "drop", "output", "level", "tag", "stats", "reset", "close"}
Places == {"idle", "wait", "held", "wrote", "gone"}

LogTypeOK ==
  /\ phase \in {"start", "run", "close", "exit"} /\ ctx \in {"none", "live", "freed"}
  /\ lock \in All \cup {Free} /\ min_level \in Levels \cup {ULOG_LEVEL_INFO}
  /\ context_tag \in Tags \cup {NoTag, HalfTag}
  /\ total_messages \in 0 .. MaxCalls /\ dropped_messages \in 0 .. MaxCalls
  /\ call \in [All -> Calls] /\ at \in [All -> Places]
  /\ reg \in [All -> Nat] /\ line \in [All -> Tags \cup {NoTag, HalfTag}]
  /\ stats.total_logs \in 0 .. MaxCalls /\ stats.dropped_logs \in 0 .. MaxCalls
  /\ made \in 0 .. MaxCalls /\ forgotten \in 0 .. MaxCalls /\ changes \in 0 .. MaxChanges

LogInit ==
  /\ phase = "start" /\ ctx = "none" /\ lock = Free
  /\ min_level = ULOG_LEVEL_INFO /\ context_tag = NoTag
  /\ total_messages = 0 /\ dropped_messages = 0
  /\ call = [t \in All |-> "none"] /\ at = [t \in All |-> "idle"]
  /\ reg = [t \in All |-> 0] /\ line = [t \in All |-> NoTag]
  /\ stats = [total_logs |-> 0, dropped_logs |-> 0]
  /\ made = 0 /\ forgotten = 0 /\ changes = 0

\* A thread that main has started and that has not ended.
Runs(t) == at[t] # "gone" /\ (t = Main \/ phase = "run")

Enters(t, c) == call' = [call EXCEPT ![t] = c] /\ at' = [at EXCEPT ![t] = "wait"]
Goes(t, from, to) == at[t] = from /\ at' = [at EXCEPT ![t] = to]

\* pthread_mutex_lock, at the beginning of what a function does to the context.
Locks(t, c) == call[t] = c /\ Goes(t, "wait", "held") /\ lock = Free /\ lock' = t

\* pthread_mutex_unlock, at its end.
Unlocks(t, c, from) ==
  /\ call[t] = c /\ Goes(t, from, "idle") /\ lock' = Free
  /\ call' = [call EXCEPT ![t] = "none"]

-----------------------------------------------------------------------------
(* log_init, and the start of the threads after it. *)

\* ulog_init returns a context, or NULL when there is no memory.
log_init ==
  /\ phase = "start" /\ phase' = "run"
  /\ ctx' \in {"none", "live"}
  /\ UNCHANGED <<lock, min_level, context_tag, total_messages, dropped_messages, call, at,
                 reg, line, stats, ghostVars>>

-----------------------------------------------------------------------------
(* Logging. *)

\* ulog_trace, ..., ulog_fatal, ulog_log, ulog_log_at: the level is compared without
\* the mutex; without a context the message is lost.
ulog_log_at(t, level) ==
  /\ Runs(t) /\ at[t] = "idle" /\ phase # "start" /\ ctx = "live"
  /\ made < MaxCalls /\ made' = made + 1
  /\ Enters(t, IF min_level > level THEN "drop" ELSE "output")
  /\ UNCHANGED <<phase, ctxVars, reg, line, stats, forgotten, changes>>

\* log_info, log_warn, log_err, which only main calls: they make a context if there is
\* none, and compare no level.
log_info ==
  /\ phase \in {"run", "close"} /\ at[Main] = "idle"
  /\ made < MaxCalls
  /\ \/ ctx = "live" /\ UNCHANGED ctx
     \/ ctx = "none" /\ ctx' = "live"
  /\ made' = made + 1
  /\ Enters(Main, "output")
  /\ UNCHANGED <<phase, lock, min_level, context_tag, total_messages, dropped_messages, reg,
                 line, stats, forgotten, changes>>

\* A faulty drop that counts without the mutex.
DropUnlocked(t) ==
  /\ \/ /\ call[t] = "drop" /\ Goes(t, "wait", "held")
        /\ reg' = [reg EXCEPT ![t] = dropped_messages]
        /\ UNCHANGED <<lock, dropped_messages, call>>
     \/ /\ call[t] = "drop" /\ Goes(t, "held", "idle")
        /\ call' = [call EXCEPT ![t] = "none"]
        /\ dropped_messages' = reg[t] + 1
        /\ UNCHANGED <<lock, reg>>
  /\ UNCHANGED <<phase, ctx, min_level, context_tag, total_messages, line, stats, ghostVars>>

\* The early return of a message below the level: dropped_messages++ loads and stores.
Drop(t) ==
  /\ \/ /\ Locks(t, "drop")
        /\ reg' = [reg EXCEPT ![t] = dropped_messages]
        /\ UNCHANGED <<dropped_messages, call>>
     \/ /\ Unlocks(t, "drop", "held")
        /\ dropped_messages' = reg[t] + 1
        /\ UNCHANGED reg
  /\ UNCHANGED <<phase, ctx, min_level, context_tag, total_messages, line, stats, ghostVars>>

\* A faulty ulog_output that returns with the mutex when it has written to syslog.
OutputNoUnlock(t) ==
  /\ \/ Locks(t, "output") /\ UNCHANGED <<reg, line, total_messages, call>>
     \/ /\ call[t] = "output" /\ Goes(t, "held", "wrote")
        /\ line' = [line EXCEPT ![t] = context_tag]
        /\ reg' = [reg EXCEPT ![t] = total_messages]
        /\ UNCHANGED <<lock, total_messages, call>>
     \/ /\ call[t] = "output" /\ Goes(t, "wrote", "idle")
        /\ call' = [call EXCEPT ![t] = "none"]
        /\ total_messages' = reg[t] + 1
        /\ UNCHANGED <<lock, reg, line>>
  /\ UNCHANGED <<phase, ctx, min_level, context_tag, dropped_messages, stats, ghostVars>>

\* ulog_output: lock, format and write to syslog, total_messages++, unlock.
ulog_output(t) ==
  /\ \/ Locks(t, "output") /\ UNCHANGED <<reg, line, total_messages, call>>
     \/ /\ call[t] = "output" /\ Goes(t, "held", "wrote")
        /\ line' = [line EXCEPT ![t] = context_tag]
        /\ reg' = [reg EXCEPT ![t] = total_messages]
        /\ UNCHANGED <<lock, total_messages, call>>
     \/ /\ Unlocks(t, "output", "wrote")
        /\ total_messages' = reg[t] + 1
        /\ UNCHANGED <<reg, line>>
  /\ UNCHANGED <<phase, ctx, min_level, context_tag, dropped_messages, stats, ghostVars>>

-----------------------------------------------------------------------------
(* The other functions; with no context they return at once. *)

Change(t, c) ==
  /\ Runs(t) /\ at[t] = "idle" /\ phase # "start" /\ ctx = "live"
  /\ changes < MaxChanges /\ changes' = changes + 1
  /\ Enters(t, c)
  /\ UNCHANGED <<phase, ctxVars, line, stats, made, forgotten>>

BeginChange(t) ==
  \/ \E l \in Levels : Change(t, "level") /\ reg' = [reg EXCEPT ![t] = l]
  \/ \E s \in Tags \cup {NoTag} : Change(t, "tag") /\ reg' = [reg EXCEPT ![t] = s]
  \/ \E c \in {"stats", "reset"} : Change(t, c) /\ UNCHANGED reg

ulog_set_level(t) ==
  /\ \/ Locks(t, "level") /\ min_level' = reg[t] /\ UNCHANGED call
     \/ Unlocks(t, "level", "held") /\ UNCHANGED min_level
  /\ UNCHANGED <<phase, ctx, context_tag, total_messages, dropped_messages, reg, line, stats,
                 ghostVars>>

\* A faulty ulog_set_context_tag that copies without the mutex.
TagUnlocked(t) ==
  /\ \/ call[t] = "tag" /\ Goes(t, "wait", "held") /\ context_tag' = HalfTag /\ UNCHANGED call
     \/ /\ call[t] = "tag" /\ Goes(t, "held", "idle") /\ context_tag' = reg[t]
        /\ call' = [call EXCEPT ![t] = "none"]
  /\ UNCHANGED <<phase, ctx, lock, min_level, total_messages, dropped_messages, reg, line,
                 stats, ghostVars>>

\* strncpy copies byte by byte: the tag is half written in between.
ulog_set_context_tag(t) ==
  /\ \/ Locks(t, "tag") /\ context_tag' = HalfTag /\ UNCHANGED call
     \/ Unlocks(t, "tag", "held") /\ context_tag' = reg[t]
  /\ UNCHANGED <<phase, ctx, min_level, total_messages, dropped_messages, reg, line, stats,
                 ghostVars>>

ulog_stats(t) ==
  /\ \/ /\ Locks(t, "stats")
        /\ reg' = [reg EXCEPT ![t] = total_messages + dropped_messages]
        /\ UNCHANGED <<call, stats>>
     \/ /\ Unlocks(t, "stats", "held")
        /\ stats' = [total_logs |-> reg[t], dropped_logs |-> dropped_messages]
        /\ UNCHANGED reg
  /\ UNCHANGED <<phase, ctx, min_level, context_tag, total_messages, dropped_messages, line,
                 ghostVars>>

ulog_stats_reset(t) ==
  /\ \/ /\ Locks(t, "reset")
        /\ total_messages' = 0 /\ forgotten' = forgotten + total_messages
        /\ UNCHANGED <<dropped_messages, call>>
     \/ /\ Unlocks(t, "reset", "held")
        /\ dropped_messages' = 0 /\ forgotten' = forgotten + dropped_messages
        /\ UNCHANGED total_messages
  /\ UNCHANGED <<phase, ctx, min_level, context_tag, reg, line, stats, made, changes>>

-----------------------------------------------------------------------------
(* The end of the threads, and log_close after it. *)

\* A thread that is in no call of the logger ends.
ThreadEnds(t) ==
  /\ t \in Threads /\ phase = "run" /\ Goes(t, "idle", "gone")
  /\ UNCHANGED <<phase, ctxVars, call, reg, line, stats, ghostVars>>

\* pthread_cancel takes effect in syslog: nothing unlocks the mutex.
CancelInSyslog(t) ==
  /\ t \in Cancelable /\ call[t] = "output" /\ Goes(t, "held", "gone")
  /\ UNCHANGED <<phase, ctxVars, call, reg, line, stats, ghostVars>>

\* A faulty main that does not join the threads.
NoJoin ==
  /\ phase = "run" /\ phase' = "close"
  /\ at[Main] = "idle"
  /\ UNCHANGED <<ctxVars, call, at, reg, line, stats, ghostVars>>

\* main joins every thread before it goes on to log_close.
JoinAll ==
  /\ phase = "run" /\ \A t \in Threads : at[t] = "gone"
  /\ phase' = "close"
  /\ at[Main] = "idle"
  /\ UNCHANGED <<ctxVars, call, at, reg, line, stats, ghostVars>>

\* log_close and ulog_close: lock, unlock, destroy, free.
log_close ==
  /\ \/ /\ phase = "close" /\ at[Main] = "idle" /\ ctx = "live" /\ Enters(Main, "close")
        /\ UNCHANGED <<phase, ctx, lock>>
     \/ Locks(Main, "close") /\ UNCHANGED <<phase, ctx, call>>
     \/ Unlocks(Main, "close", "held") /\ ctx' = "freed" /\ phase' = "exit"
     \/ /\ phase = "close" /\ at[Main] = "idle" /\ ctx = "none" /\ phase' = "exit"
        /\ UNCHANGED <<ctx, lock, call, at>>
  /\ UNCHANGED <<min_level, context_tag, total_messages, dropped_messages, reg, line, stats,
                 ghostVars>>

\* What a thread inside a call does next.
InCall(t) ==
  \/ Drop(t) \/ ulog_output(t) \/ ulog_set_level(t) \/ ulog_set_context_tag(t)
  \/ ulog_stats(t) \/ ulog_stats_reset(t)

LogNext ==
  \/ log_init \/ log_info \/ JoinAll \/ log_close
  \/ \E t \in All :
       \/ InCall(t) \/ BeginChange(t) \/ ThreadEnds(t) \/ CancelInSyslog(t)
       \/ \E l \in Levels : ulog_log_at(t, l)

LogSpec == LogInit /\ [][LogNext]_logVars

-----------------------------------------------------------------------------
(* Properties. *)

\* Nothing is lost from the statistics and nothing counted twice: every message that met
\* the logger is in total_messages or dropped_messages, on its way there, or was
\* there when the statistics were reset (unified_logger.c:95-156, 250-252, 406-409).
\* ulog_stats reports a moment, never more dropped messages than messages (391-396).
CountsExact ==
  /\ LogTypeOK
  /\ total_messages + dropped_messages + forgotten
       + Cardinality({t \in All : call[t] \in {"drop", "output"}}) = made
  /\ stats.dropped_logs <= stats.total_logs

\* No line carries a tag that another thread is in the middle of changing
\* (unified_logger.c:125-129, 419-428).
WholeTag == \A t \in All : line[t] # HalfTag

\* The context is not freed under a thread that logs (unified_logger.c:200-218; the
\* joins before log_close in the main functions).
NoLogAfterClose ==
  \A t \in All : at[t] \in {"wait", "held", "wrote"} => ctx = "live"

\* The mutex is held by a thread that was cancelled while it wrote to syslog.
Abandoned == \E t \in Cancelable : lock = t /\ at[t] = "gone"

\* Every call of the logger returns, log_close included, unless a thread was cancelled
\* with the mutex: ulog_output has no cleanup handler (unified_logger.c:95-156; Router's
\* main.c:386).
LogCallsEnd ==
  \A t \in All : (call[t] # "none") ~> (call[t] = "none" \/ Abandoned)

=============================================================================
