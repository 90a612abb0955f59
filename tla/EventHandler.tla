---------------------------- MODULE EventHandler ----------------------------
(***************************************************************************)
(* The registry of management command handlers (Mgmt/src/event_handler.c): *)
(* an array of entries under one mutex.  Each section between lock and     *)
(* unlock is one step.  handler_dispatch has two, and between them, with   *)
(* no lock held, it reads the handler and the context of the entry it      *)
(* found and calls the handler.                                            *)
(*                                                                         *)
(* The header promises dynamic registration (event_handler.h:11-12).  The  *)
(* processes register their handlers before they start the thread that     *)
(* dispatches, and so do the callers here.  A name of 64 bytes or more is  *)
(* cut when it is stored (event_handler.c:97) and compared whole (:72);    *)
(* the names of the modules are short, and the keys here are whole.        *)
(***************************************************************************)
EXTENDS Integers, FiniteSetsExt

CONSTANTS
  Keys,        \* pairs of a module and a command type
  Owners,      \* who registers: a handler function and the context that goes with it
  Dispatchers, \* threads that dispatch
  MAX_EVENT_HANDLERS,
  MaxDispatches \* dispatches that find a handler, and registrations, at most

ASSUME EventHandlerAssumption ==
  /\ MAX_EVENT_HANDLERS \in Nat \ {0} /\ MaxDispatches \in Nat
  /\ IsFiniteSet(Dispatchers)

VARIABLES
  entries, entry_count,
  total_dispatches, total_failures,
  thr,      \* what each dispatching thread is doing
  called,   \* the calls of handlers made: the key asked for, the handler, the context
  started,  \* the dispatching threads run
  calls     \* dispatches and registrations so far

registry == <<entries, entry_count, total_dispatches, total_failures>>
regVars == <<registry, thr, called, started, calls>>

Slots == 1 .. MAX_EVENT_HANDLERS
Handler == Keys \X Owners
Null == <<0, 0>>
Idle == [pc |-> "idle", key |-> 0, slot |-> 0, handler |-> Null, context |-> Null]

\* An entry never written is all zero.
Entry == [key : Keys \cup {0}, handler : Handler \cup {Null}, context : Handler \cup {Null},
          invocation_count : Nat]
Empty == [key |-> 0, handler |-> Null, context |-> Null, invocation_count |-> 0]

RegTypeOK ==
  /\ entries \in [Slots -> Entry] /\ entry_count \in 0 .. MAX_EVENT_HANDLERS
  /\ total_dispatches \in 0 .. MaxDispatches /\ total_failures \in 0 .. MaxDispatches
  /\ thr \in [Dispatchers -> {Idle} \cup
       [pc : {"found", "handler_read", "context_read", "call", "record"}, key : Keys, slot : Slots,
        handler : Handler \cup {Null}, context : Handler \cup {Null}]]
  /\ called \subseteq [key : Keys, handler : Handler \cup {Null}, context : Handler \cup {Null}]
  /\ started \in BOOLEAN /\ calls \in 0 .. MaxDispatches

RegInit ==
  /\ entries = [i \in Slots |-> Empty] /\ entry_count = 0
  /\ total_dispatches = 0 /\ total_failures = 0
  /\ thr = [t \in Dispatchers |-> Idle] /\ called = {}
  /\ started = FALSE /\ calls = 0

\* The entries in use that serve key.
Match(key) == {i \in 1 .. entry_count : entries[i].key = key}

NewEntry(key, owner) ==
  [key |-> key, handler |-> <<key, owner>>, context |-> <<key, owner>>,
   invocation_count |-> 0]

\* A faulty registration that does not look for an entry of the same key.
AppendOnly(key, owner) ==
  /\ ~started
  /\ calls < MaxDispatches /\ calls' = calls + 1
  /\ entry_count < MAX_EVENT_HANDLERS
  /\ entries' = [entries EXCEPT ![entry_count + 1] = NewEntry(key, owner)]
  /\ entry_count' = entry_count + 1
  /\ UNCHANGED <<total_dispatches, total_failures, thr, called, started>>

\* A faulty caller that registers while others dispatch.
RegisterLate(key, owner) ==
  /\ calls < MaxDispatches /\ calls' = calls + 1
  /\ LET found == Match(key)
         i == IF found # {} THEN Min(found) ELSE entry_count + 1
     IN IF i <= MAX_EVENT_HANDLERS
          THEN /\ entries' = [entries EXCEPT ![i] = NewEntry(key, owner)]
               /\ entry_count' = IF found # {} THEN entry_count ELSE i
          ELSE UNCHANGED <<entries, entry_count>>
  /\ UNCHANGED <<total_dispatches, total_failures, thr, called, started>>

\* An entry of the same key is overwritten; a new one goes to the end, and a full
\* registry refuses it.
Register(key, owner) ==
  /\ ~started
  /\ calls < MaxDispatches /\ calls' = calls + 1
  /\ LET found == Match(key)
         i == IF found # {} THEN Min(found) ELSE entry_count + 1
     IN IF i <= MAX_EVENT_HANDLERS
          THEN /\ entries' = [entries EXCEPT ![i] = NewEntry(key, owner)]
               /\ entry_count' = IF found # {} THEN entry_count ELSE i
          ELSE UNCHANGED <<entries, entry_count>>
  /\ UNCHANGED <<total_dispatches, total_failures, thr, called, started>>

\* The entries behind the one removed move down; the last one leaves its copy.
Unregister(key) ==
  /\ ~started
  /\ Match(key) # {}
  /\ entries' = [j \in Slots |-> IF j \in Min(Match(key)) .. entry_count - 1
                                   THEN entries[j + 1] ELSE entries[j]]
  /\ entry_count' = entry_count - 1
  /\ UNCHANGED <<total_dispatches, total_failures, thr, called, started, calls>>

-----------------------------------------------------------------------------
(* handler_dispatch. *)

\* The first section: a request for a key nobody serves is refused, which changes
\* nothing; otherwise the thread keeps a pointer to the entry.
Find(t, key) ==
  /\ started /\ thr[t] = Idle
  /\ calls < MaxDispatches /\ calls' = calls + 1
  /\ Match(key) # {}
  /\ thr' = [thr EXCEPT ![t] = [pc |-> "found", key |-> key, slot |-> Min(Match(key)),
                handler |-> Null, context |-> Null]]
  /\ UNCHANGED <<registry, called, started>>

\* The handler and the context are two reads, in either order.
ReadHandler(t) ==
  /\ thr[t].pc \in {"found", "context_read"}
  /\ thr' = [thr EXCEPT ![t].handler = entries[thr[t].slot].handler,
       ![t].pc = IF @ = "found" THEN "handler_read" ELSE "call"]
  /\ UNCHANGED <<registry, called, started, calls>>

ReadContext(t) ==
  /\ thr[t].pc \in {"found", "handler_read"}
  /\ thr' = [thr EXCEPT ![t].context = entries[thr[t].slot].context,
       ![t].pc = IF @ = "found" THEN "context_read" ELSE "call"]
  /\ UNCHANGED <<registry, called, started, calls>>

\* The handler runs.
Call(t) ==
  /\ thr[t].pc = "call"
  /\ called' = called \cup {[key |-> thr[t].key, handler |-> thr[t].handler, context |-> thr[t].context]}
  /\ thr' = [thr EXCEPT ![t].pc = "record"]
  /\ UNCHANGED <<registry, started, calls>>

\* A faulty second section that counts no call of the entry for a failure.
RecordSuccess(t) ==
  /\ thr[t].pc = "record"
  /\ \E ok \in BOOLEAN :
       /\ total_dispatches' = total_dispatches + 1
       /\ total_failures' = total_failures + (IF ok THEN 0 ELSE 1)
       /\ entries' = [entries EXCEPT ![thr[t].slot].invocation_count = @ + (IF ok THEN 1 ELSE 0)]
  /\ thr' = [thr EXCEPT ![t] = Idle]
  /\ UNCHANGED <<entry_count, called, started, calls>>

\* The second section.
Record(t) ==
  /\ thr[t].pc = "record"
  /\ \E ok \in BOOLEAN :
       /\ total_dispatches' = total_dispatches + 1
       /\ total_failures' = total_failures + (IF ok THEN 0 ELSE 1)
  /\ entries' = [entries EXCEPT ![thr[t].slot].invocation_count = @ + 1]
  /\ thr' = [thr EXCEPT ![t] = Idle]
  /\ UNCHANGED <<entry_count, called, started, calls>>

\* handler_stats_reset.
StatsReset ==
  /\ started
  /\ total_dispatches' = 0 /\ total_failures' = 0
  /\ entries' = [i \in Slots |-> IF i <= entry_count
       THEN [entries[i] EXCEPT !.invocation_count = 0] ELSE entries[i]]
  /\ UNCHANGED <<entry_count, thr, called, started, calls>>

\* The threads that dispatch are created.
StartThreads == ~started /\ started' = TRUE /\ UNCHANGED <<registry, thr, called, calls>>

RegNext ==
  \/ \E key \in Keys, owner \in Owners : Register(key, owner)
  \/ \E key \in Keys : Unregister(key)
  \/ \E t \in Dispatchers, key \in Keys : Find(t, key)
  \/ \E t \in Dispatchers : ReadHandler(t) \/ ReadContext(t) \/ Call(t) \/ Record(t)
  \/ StatsReset \/ StartThreads

RegSpec == RegInit /\ [][RegNext]_regVars

-----------------------------------------------------------------------------
(* Properties. *)

\* The table is well formed, and one entry at most serves a module's command, whatever
\* was registered, replaced and removed before: "most recent registration wins"
\* (event_handler.h:72-73).
UniqueKeys ==
  RegTypeOK /\ \A i, j \in 1 .. entry_count : entries[i].key = entries[j].key => i = j

\* A handler is called for the command it was registered for, and with the context
\* it was registered with (event_handler.c:184).
RightHandler ==
  \A c \in called : c.handler = c.context /\ c.handler[1] = c.key

\* The registry's total is the sum of what its entries count, resets included
\* (event_handler.c:189-190, 284-291): adding them up one by one gives the total.
CountsAgree ==
  \E partial \in [0 .. entry_count -> 0 .. total_dispatches] :
    /\ partial[0] = 0 /\ partial[entry_count] = total_dispatches
    /\ \A i \in 1 .. entry_count : partial[i] = partial[i - 1] + entries[i].invocation_count

=============================================================================
