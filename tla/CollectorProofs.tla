-------------------------- MODULE CollectorProofs ---------------------------
(***************************************************************************)
(* Proofs of the safety properties of Collector, for any number of         *)
(* datagrams and requests and any set of calls that may fail, and of the   *)
(* registry of handlers it dispatches from, for any finite number of       *)
(* dispatching threads.                                                    *)
(***************************************************************************)
EXTENDS Collector, EventHandler, FiniteSetTheorems, TLAPS

-----------------------------------------------------------------------------
(* The collector. *)

\* What main holds is a matter of where it is.
HeldByPlace ==
  held = IF cpc = "exit" THEN {}
         ELSE {"log"} \cup (IF cpc \in {"msgget", "shm"} THEN {} ELSE {"shm"})
                \cup (IF cpc \in {"msgget", "shm", "registry"} THEN {} ELSE {"registry"})
                \cup (IF cpc \in Calls \ {"udp"} THEN {} ELSE {"mgmt_socket"})
                \cup (IF cpc \in Calls THEN {} ELSE {"udp"})

\* main returns 1 after a failure of the start that it cannot do without, and no other.
FailureReported ==
  /\ cpc # "exit" => failed \subseteq {"msgget"}
  /\ cpc = "exit" => (ret = 1 <=> failed \ {"msgget"} # {})

\* A request is in the socket, in hand, or answered.
OneInHand ==
  /\ answers["taken"] = answers["given"] + (IF cpc \in {"shutdown", "reply"} THEN 1 ELSE 0)
  /\ answers["taken"] + waiting["mgmt"] <= sent["mgmt"]
  /\ waiting["udp"] <= sent["udp"]

\* What poll has reported is there to be read: nobody else reads the sockets.
ReportedIsThere ==
  /\ cpc = "handle_udp" => \A f \in revents : waiting[f] > 0
  /\ cpc \in {"shm_write", "handle_mgmt"} /\ "mgmt" \in revents => waiting["mgmt"] > 0

CInv == TypeOK /\ HeldByPlace /\ FailureReported /\ OneInHand /\ ReportedIsThere

-----------------------------------------------------------------------------
\* The calls of the start and their order.
LEMMA StartOrder ==
  /\ Calls = {"msgget", "shm", "registry", "register", "mgmt_socket", "udp"}
  /\ After("msgget") = "shm" /\ After("shm") = "registry" /\ After("registry") = "register"
  /\ After("register") = "mgmt_socket" /\ After("mgmt_socket") = "udp"
  /\ After("udp") = "while"
<1>1. Calls = {"msgget", "shm", "registry", "register", "mgmt_socket", "udp"}
  BY DEF Calls, Start
<1>2. \A i \in 1 .. 6 : (CHOOSE j \in 1 .. 6 : Start[j] = Start[i]) = i
  BY DEF Start
<1> QED
  BY <1>1, <1>2 DEF After, Start

LEMMA InitInv == Init => CInv
<1> SUFFICES ASSUME Init PROVE CInv
  OBVIOUS
<1>1. TypeOK
  <2>1. 0 \in 0 .. MaxEvents
    BY CollectorAssumption
  <2>2. answers \in [{"taken", "given"} -> 0 .. MaxEvents]
    BY <2>1 DEF Init
  <2>3. waiting \in [Fds -> 0 .. MaxEvents] /\ sent \in [Fds -> 0 .. MaxEvents]
    BY <2>1, Zenon DEF Init
  <2>4. cpc \in Calls /\ held = {"log"}
    BY StartOrder, Zenon DEF Init
  <2> QED
    BY <2>2, <2>3, <2>4, Zenon DEF Init, TypeOK
<1>2. HeldByPlace /\ FailureReported
  BY StartOrder DEF Init, HeldByPlace, FailureReported
<1>3. OneInHand /\ ReportedIsThere
  BY DEF Init, OneInHand, ReportedIsThere, Fds
<1> QED
  BY <1>1, <1>2, <1>3, Zenon DEF CInv

\* One step per action: the type invariant.
LEMMA TypeStep == CInv /\ [Next]_vars => TypeOK'
<1> SUFFICES ASSUME CInv, [Next]_vars PROVE TypeOK'
  OBVIOUS
<1> USE StartOrder, CollectorAssumption DEF CInv, TypeOK, Fds
<1>1. CASE Acquire
  BY <1>1, Zenon DEF Acquire
<1>2. CASE AcquireFails
  BY <1>2, Zenon DEF AcquireFails
<1>3. CASE While
  BY <1>3, Zenon DEF While
<1>4. CASE Poll
  BY <1>4, Zenon DEF Poll
<1>5. CASE HandleUdp
  BY <1>5 DEF HandleUdp, ReportedIsThere
<1>6. CASE HandleMgmt
  BY <1>6 DEF HandleMgmt, ReportedIsThere, OneInHand
<1>7. CASE HandlerShutdown
  BY <1>7, Zenon DEF HandlerShutdown
<1>8. CASE Reply
  BY <1>8, Zenon DEF Reply, OneInHand
<1>9. CASE Close
  BY <1>9, Zenon DEF Close
<1>10. CASE Signal
  BY <1>10, Zenon DEF Signal
<1>11. ASSUME NEW f \in Fds, Arrive(f) PROVE TypeOK'
  BY <1>11 DEF Arrive, OneInHand
<1>12. CASE ShmWrite
  BY <1>12, Zenon DEF ShmWrite
<1>13. CASE OwnerKilled
  BY <1>13, Zenon DEF OwnerKilled
<1>14. CASE UNCHANGED vars
  BY <1>14, Zenon DEF vars
<1> QED
  BY <1>1, <1>2, <1>3, <1>4, <1>5, <1>6, <1>7, <1>8, <1>9, <1>10, <1>11, <1>12, <1>13,
     <1>14, Zenon DEF Next, Main

\* What is held, and what is reported, goes with the place.
LEMMA HeldStep == CInv /\ [Next]_vars => HeldByPlace' /\ FailureReported'
<1> SUFFICES ASSUME CInv, [Next]_vars PROVE HeldByPlace' /\ FailureReported'
  OBVIOUS
<1> USE StartOrder DEF CInv, TypeOK, HeldByPlace, FailureReported
<1>1. CASE Acquire
  BY <1>1 DEF Acquire
<1>2. CASE AcquireFails
  BY <1>2 DEF AcquireFails, Released
<1>3. CASE While \/ Poll \/ HandleUdp \/ ShmWrite \/ HandleMgmt \/ HandlerShutdown \/ Reply
  BY <1>3, Zenon DEF While, Poll, HandleUdp, ShmWrite, HandleMgmt, HandlerShutdown, Reply
<1>4. CASE Close
  <2>1. held' = {}
    BY <1>4, Zenon DEF Close
  <2>2. failed' \ {"msgget"} = {} /\ ret' = 0 /\ cpc' = "exit"
    BY <1>4, Zenon DEF Close
  <2>3. HeldByPlace'
    BY <2>1, <2>2, Zenon
  <2>4. FailureReported'
    <3> HIDE DEF CInv, TypeOK, HeldByPlace
    <3> QED
      BY <2>2
  <2> QED
    BY <2>3, <2>4, Zenon
<1>5. CASE Signal \/ OwnerKilled
  BY <1>5, Zenon DEF Signal, OwnerKilled
<1>6. ASSUME NEW f \in Fds, Arrive(f) PROVE HeldByPlace' /\ FailureReported'
  BY <1>6, Zenon DEF Arrive
<1>7. CASE UNCHANGED vars
  BY <1>7, Zenon DEF vars
<1> QED
  BY <1>1, <1>2, <1>3, <1>4, <1>5, <1>6, <1>7, Zenon DEF Next, Main

\* Requests are taken only when poll has reported one, and one at a time.
LEMMA RequestStep == CInv /\ [Next]_vars => OneInHand' /\ ReportedIsThere'
<1> SUFFICES ASSUME CInv, [Next]_vars PROVE OneInHand' /\ ReportedIsThere'
  OBVIOUS
<1> USE StartOrder, CollectorAssumption DEF CInv, TypeOK, Fds, OneInHand, ReportedIsThere
<1>1. CASE Acquire \/ AcquireFails
  BY <1>1, Zenon DEF Acquire, AcquireFails
<1>2. CASE While \/ ShmWrite \/ HandlerShutdown \/ Close \/ Signal \/ OwnerKilled
  BY <1>2, Zenon DEF While, ShmWrite, HandlerShutdown, Close, Signal, OwnerKilled
<1>3. CASE Poll
  BY <1>3, Zenon DEF Poll
<1>4. CASE HandleUdp
  BY <1>4 DEF HandleUdp
<1>5. CASE HandleMgmt
  BY <1>5 DEF HandleMgmt
<1>6. CASE Reply
  BY <1>6 DEF Reply
<1>7. ASSUME NEW f \in Fds, Arrive(f) PROVE OneInHand' /\ ReportedIsThere'
  BY <1>7 DEF Arrive
<1>8. CASE UNCHANGED vars
  BY <1>8, Zenon DEF vars
<1> QED
  BY <1>1, <1>2, <1>3, <1>4, <1>5, <1>6, <1>7, <1>8, Zenon DEF Next, Main

-----------------------------------------------------------------------------
LEMMA Invariant == Spec => []CInv
<1>1. CInv /\ [Next]_vars => CInv'
  BY TypeStep, HeldStep, RequestStep, Zenon DEF CInv
<1> QED
  BY InitInv, <1>1, PTL DEF Spec

\* The counts of datagrams and requests keep within what arrived: main takes nothing from
\* a socket that is empty, and answers nothing twice (poll_io.c, mgmt_socket_process_one).
THEOREM CollectorType == Spec => []TypeOK
BY Invariant, PTL DEF CInv

\* Whichever call of the start fails and however the loop ends, main releases all it
\* acquired, has answered every request it took and reports a failure of the start.
THEOREM CollectorCleanExit == Spec => []CleanExit
<1>1. CInv => CleanExit
  BY StartOrder DEF CInv, TypeOK, HeldByPlace, FailureReported, OneInHand, CleanExit
<1> QED
  BY Invariant, <1>1, PTL

\* What poll reported is still in the socket when main reads it: the loop is the only reader
\* of both sockets (poll_io.c:117-135).
THEOREM CollectorReadsReported == Spec => []ReportedIsThere
BY Invariant, PTL DEF CInv

-----------------------------------------------------------------------------
(* The registry of handlers. *)

\* An entry in use has the handler of its key and the context that goes with it.
WellMade ==
  \A i \in 1 .. entry_count :
    /\ entries[i].key \in Keys /\ entries[i].handler = entries[i].context
    /\ entries[i].handler \in Handler /\ entries[i].handler[1] = entries[i].key

\* Until the dispatching threads are there, nothing is counted or called.
Registering ==
  ~started => /\ total_dispatches = 0 /\ total_failures = 0 /\ called = {}
              /\ \A i \in Slots : entries[i].invocation_count = 0
              /\ \A t \in Dispatchers : thr[t] = Idle

\* A thread that has found an entry points to it still, and what it has read is there.
PointsTo(w) ==
  /\ w.slot \in 1 .. entry_count /\ entries[w.slot].key = w.key
  /\ w.pc \in {"handler_read", "call", "record"} => w.handler = entries[w.slot].handler
  /\ w.pc \in {"context_read", "call", "record"} => w.context = entries[w.slot].context

Pointing == \A t \in Dispatchers : thr[t] # Idle => PointsTo(thr[t])

\* The threads in a dispatch.
Busy == {t \in Dispatchers : thr[t] # Idle}

\* A dispatch is counted once, when it ends.
Dispatched ==
  total_dispatches + Cardinality(Busy) <= calls /\ total_failures <= total_dispatches

RInv ==
  /\ UniqueKeys /\ WellMade /\ Registering /\ Pointing /\ Dispatched
  /\ RightHandler /\ CountsAgree

\* The counts of the first n entries of e add up to total, as CountsAgree says.
SumsTo(e, n, total) ==
  \E partial \in [0 .. n -> 0 .. total] :
    /\ partial[0] = 0 /\ partial[n] = total
    /\ \A i \in 1 .. n : partial[i] = partial[i - 1] + e[i].invocation_count

LEMMA NothingCounted ==
  ASSUME NEW n \in Nat, NEW e, \A i \in 1 .. n : e[i].invocation_count = 0
  PROVE  SumsTo(e, n, 0)
<1> DEFINE p == [j \in 0 .. n |-> 0]
<1>1. p \in [0 .. n -> 0 .. 0] /\ p[0] = 0 /\ p[n] = 0
  OBVIOUS
<1>2. \A i \in 1 .. n : p[i] = p[i - 1] + e[i].invocation_count
  OBVIOUS
<1> HIDE DEF p
<1> QED
  BY <1>1, <1>2, Zenon DEF SumsTo

\* One more is counted in entry k.
LEMMA OneMoreFrom ==
  ASSUME NEW u \in Nat, NEW v \in Nat, NEW c \in Nat, NEW i \in Nat, NEW k \in Nat, u = v + c
  PROVE  (IF i >= k THEN u + 1 ELSE u)
           = (IF i - 1 >= k THEN v + 1 ELSE v) + (c + (IF i = k THEN 1 ELSE 0))
OBVIOUS

LEMMA OneMoreCounted ==
  ASSUME NEW n \in Nat, NEW k \in 1 .. n, NEW total \in Nat, NEW e, NEW f,
         \A i \in 1 .. n : e[i].invocation_count \in Nat,
         \A i \in 1 .. n : f[i].invocation_count = e[i].invocation_count + (IF i = k THEN 1 ELSE 0),
         SumsTo(e, n, total)
  PROVE  SumsTo(f, n, total + 1)
<1>1. PICK p \in [0 .. n -> 0 .. total] :
           /\ p[0] = 0 /\ p[n] = total
           /\ \A i \in 1 .. n : p[i] = p[i - 1] + e[i].invocation_count
  BY Zenon DEF SumsTo
<1> DEFINE q == [j \in 0 .. n |-> IF j >= k THEN p[j] + 1 ELSE p[j]]
<1>2. q \in [0 .. n -> 0 .. total + 1] /\ q[0] = 0 /\ q[n] = total + 1
  BY <1>1
<1>3. ASSUME NEW i \in 1 .. n PROVE q[i] = q[i - 1] + f[i].invocation_count
  <2> DEFINE c == e[i].invocation_count
             d == f[i].invocation_count
  <2>1. i - 1 \in 0 .. n /\ i \in 0 .. n
    OBVIOUS
  <2>2. /\ q[i] = IF i >= k THEN p[i] + 1 ELSE p[i]
        /\ q[i - 1] = IF i - 1 >= k THEN p[i - 1] + 1 ELSE p[i - 1]
    BY <2>1, Zenon
  <2>3. p[i] = p[i - 1] + c /\ d = c + (IF i = k THEN 1 ELSE 0) /\ c \in Nat
    BY <1>1, Zenon
  <2> HIDE DEF q, c, d
  <2>4. p[i] \in Nat /\ p[i - 1] \in Nat
    BY <2>1
  <2>5. i \in Nat /\ k \in Nat
    OBVIOUS
  <2>6. q[i] = q[i - 1] + d
    <3>1. (IF i >= k THEN p[i] + 1 ELSE p[i])
            = (IF i - 1 >= k THEN p[i - 1] + 1 ELSE p[i - 1]) + (c + (IF i = k THEN 1 ELSE 0))
      BY <2>3, <2>4, <2>5, OneMoreFrom
    <3> QED
      BY <2>2, <2>3, <3>1, Zenon
  <2> QED
    BY <2>6, Zenon DEF d
<1> HIDE DEF q
<1> QED
  BY <1>2, <1>3, Zenon DEF SumsTo

\* With unique keys the search finds the one entry of its key.
LEMMA MinOfMatch ==
  ASSUME UniqueKeys, NEW key, Match(key) # {}
  PROVE  Min(Match(key)) \in 1 .. entry_count /\ entries[Min(Match(key))].key = key
<1>1. PICK i \in 1 .. entry_count : entries[i].key = key
  BY Zenon DEF Match
<1>2. Match(key) = {i}
  BY <1>1, Zenon DEF Match, UniqueKeys
<1>3. Min({i}) = i
  BY DEF Min
<1> QED
  BY <1>1, <1>2, <1>3, Zenon

\* What registering and unregistering do to the table.
AddsTo(i, key, owner) ==
  /\ i \in Slots /\ entries' = [entries EXCEPT ![i] = NewEntry(key, owner)]
  /\ \/ i \in 1 .. entry_count /\ entries[i].key = key /\ entry_count' = entry_count
     \/ i = entry_count + 1 /\ Match(key) = {} /\ entry_count' = i
Removes(k) ==
  /\ k \in 1 .. entry_count /\ entry_count' = entry_count - 1
  /\ entries' = [j \in Slots |-> IF j \in k .. entry_count - 1 THEN entries[j + 1] ELSE entries[j]]

LEMMA RegisterEffect ==
  ASSUME RInv, NEW key \in Keys, NEW owner \in Owners, Register(key, owner)
  PROVE  UNCHANGED <<entries, entry_count>> \/ \E i \in Slots : AddsTo(i, key, owner)
<1>0. UniqueKeys /\ entry_count \in 0 .. MAX_EVENT_HANDLERS /\ MAX_EVENT_HANDLERS \in Nat
  BY EventHandlerAssumption, Zenon DEF RInv, UniqueKeys, RegTypeOK
<1> DEFINE i == IF Match(key) # {} THEN Min(Match(key)) ELSE entry_count + 1
<1>1. CASE i <= MAX_EVENT_HANDLERS
  <2>1. /\ entries' = [entries EXCEPT ![i] = NewEntry(key, owner)]
        /\ entry_count' = IF Match(key) # {} THEN entry_count ELSE i
    BY <1>1, Zenon DEF Register
  <2>2. Match(key) # {} => i \in 1 .. entry_count /\ entries[i].key = key
    BY <1>0, MinOfMatch, Zenon
  <2>3. Match(key) = {} => i = entry_count + 1
    OBVIOUS
  <2> HIDE DEF i
  <2>4. i \in Slots
    BY <1>0, <1>1, <2>2, <2>3 DEF Slots
  <2> QED
    BY <2>1, <2>2, <2>3, <2>4, Zenon DEF AddsTo
<1>2. CASE ~(i <= MAX_EVENT_HANDLERS)
  BY <1>2, Zenon DEF Register
<1> QED
  BY <1>1, <1>2, Zenon

LEMMA UnregisterEffect ==
  ASSUME RInv, NEW key \in Keys, Unregister(key) PROVE \E k \in Slots : Removes(k)
<1>1. Min(Match(key)) \in 1 .. entry_count
  BY MinOfMatch, Zenon DEF Unregister, RInv
<1>2. Min(Match(key)) \in Slots
  BY <1>1, EventHandlerAssumption DEF RInv, UniqueKeys, RegTypeOK, Slots
<1> QED
  BY <1>1, <1>2, Zenon DEF Unregister, Removes

\* What the table is typed as.
LEMMA TableTypes ==
  ASSUME RInv
  PROVE  /\ entries \in [Slots -> Entry] /\ entry_count \in 0 .. MAX_EVENT_HANDLERS
         /\ MAX_EVENT_HANDLERS \in Nat \ {0} /\ Slots = 1 .. MAX_EVENT_HANDLERS
         /\ \A i \in 1 .. entry_count : i \in Slots
BY EventHandlerAssumption DEF RInv, UniqueKeys, RegTypeOK, Slots

\* The table stays well formed when an entry is added or replaced.
LEMMA AddKeeps ==
  ASSUME RInv, ~started, NEW key \in Keys, NEW owner \in Owners, NEW i \in Slots, AddsTo(i, key, owner)
  PROVE  /\ entries' \in [Slots -> Entry] /\ entry_count' \in 0 .. MAX_EVENT_HANDLERS
         /\ \A j, k \in 1 .. entry_count' : entries'[j].key = entries'[k].key => j = k
         /\ WellMade' /\ \A j \in Slots : entries'[j].invocation_count = 0
<1> DEFINE w == NewEntry(key, owner)
<1>0. /\ w \in Entry /\ w.key = key /\ w.handler = w.context /\ w.handler \in Handler
      /\ w.handler[1] = key /\ w.invocation_count = 0
  BY Zenon DEF NewEntry, Entry, Handler
<1>1. /\ entries' = [entries EXCEPT ![i] = w]
      /\ \/ i \in 1 .. entry_count /\ entries[i].key = key /\ entry_count' = entry_count
         \/ i = entry_count + 1 /\ Match(key) = {} /\ entry_count' = i
  BY Zenon DEF AddsTo
<1> HIDE DEF w
<1>2. entries' \in [Slots -> Entry] /\ entry_count' \in 0 .. MAX_EVENT_HANDLERS
  BY <1>0, <1>1, TableTypes
<1>3. \A j \in Slots : entries'[j] = IF j = i THEN w ELSE entries[j]
  BY <1>1, TableTypes, Zenon
<1>4. \A j \in 1 .. entry_count' : j # i => j \in 1 .. entry_count /\ entries[j].key # key
  BY <1>1, TableTypes DEF Match, RInv, UniqueKeys
<1>5. \A j \in 1 .. entry_count' : j \in Slots
  BY <1>2, TableTypes
<1>6. \A j, k \in 1 .. entry_count' : entries'[j].key = entries'[k].key => j = k
  BY <1>0, <1>3, <1>4, <1>5 DEF RInv, UniqueKeys
<1>7. WellMade'
  BY <1>0, <1>3, <1>4, <1>5 DEF RInv, WellMade
<1>8. \A j \in Slots : entries'[j].invocation_count = 0
  BY <1>0, <1>3, Zenon DEF RInv, Registering
<1> QED
  BY <1>2, <1>6, <1>7, <1>8, Zenon

\* It stays well formed when the entries behind the one removed move down.
LEMMA RemoveKeeps ==
  ASSUME RInv, ~started, NEW k \in Slots, Removes(k)
  PROVE  /\ entries' \in [Slots -> Entry] /\ entry_count' \in 0 .. MAX_EVENT_HANDLERS
         /\ \A i, j \in 1 .. entry_count' : entries'[i].key = entries'[j].key => i = j
         /\ WellMade' /\ \A j \in Slots : entries'[j].invocation_count = 0
<1> DEFINE from(j) == IF j \in k .. entry_count - 1 THEN j + 1 ELSE j
<1>0. k \in 1 .. entry_count /\ entry_count' = entry_count - 1
  BY Zenon DEF Removes
<1>1. \A j \in Slots : from(j) \in Slots
  BY <1>0, TableTypes
<1>2. entries' = [j \in Slots |-> entries[from(j)]]
  BY Zenon DEF Removes
<1>3. \A j \in 1 .. entry_count' : from(j) \in 1 .. entry_count /\ j \in Slots
  BY <1>0, TableTypes
<1>4. \A i, j \in 1 .. entry_count' : from(i) = from(j) => i = j
  BY <1>0, TableTypes
<1> HIDE DEF from
<1>5. entries' \in [Slots -> Entry] /\ entry_count' \in 0 .. MAX_EVENT_HANDLERS
  BY <1>0, <1>1, <1>2, TableTypes
<1>6. \A i, j \in 1 .. entry_count' : entries'[i].key = entries'[j].key => i = j
  BY <1>2, <1>3, <1>4, Zenon DEF RInv, UniqueKeys
<1>7. WellMade'
  BY <1>2, <1>3, Zenon DEF RInv, WellMade
<1>8. \A j \in Slots : entries'[j].invocation_count = 0
  BY <1>1, <1>2, Zenon DEF RInv, Registering
<1> QED
  BY <1>5, <1>6, <1>7, <1>8, Zenon

\* What holds as long as the table is filled.
LEMMA FillingKeeps ==
  ASSUME RInv, ~started, UNCHANGED <<total_dispatches, total_failures, thr, called, started>>,
         entries' \in [Slots -> Entry], entry_count' \in 0 .. MAX_EVENT_HANDLERS,
         \A i, j \in 1 .. entry_count' : entries'[i].key = entries'[j].key => i = j,
         WellMade', \A j \in Slots : entries'[j].invocation_count = 0,
         calls' \in 0 .. MaxDispatches, calls <= calls'
  PROVE  RInv'
<1>1. UniqueKeys'
  BY Zenon DEF RInv, UniqueKeys, RegTypeOK
<1>2. Registering' /\ Pointing' /\ RightHandler'
  BY Zenon DEF RInv, Registering, Pointing, PointsTo, RightHandler
<1>3. Dispatched'
  <2>1. Busy' = {} /\ Busy = {} /\ total_dispatches' = 0 /\ total_failures' = 0
    BY Zenon DEF RInv, Registering, Busy
  <2> QED
    BY <2>1, FS_EmptySet DEF Dispatched
<1>4. CountsAgree'
  <2>1. entry_count' \in Nat /\ total_dispatches' = 0 /\ \A i \in 1 .. entry_count' : i \in Slots
    BY TableTypes DEF RInv, Registering
  <2>2. \A i \in 1 .. entry_count' : entries'[i].invocation_count = 0
    BY <2>1, Zenon
  <2>3. SumsTo(entries', entry_count', total_dispatches')
    BY <2>1, <2>2, NothingCounted, Zenon
  <2> QED
    BY <2>3, Zenon DEF CountsAgree, SumsTo
<1> QED
  BY <1>1, <1>2, <1>3, <1>4, Zenon DEF RInv

\* A dispatch in progress, and what each of its steps makes of it.
Dispatch ==
  [pc : {"found", "handler_read", "context_read", "call", "record"}, key : Keys, slot : Slots,
   handler : Handler \cup {Null}, context : Handler \cup {Null}]

LEMMA DispatchTypes ==
  ASSUME RInv
  PROVE  /\ thr \in [Dispatchers -> {Idle} \cup Dispatch] /\ Idle \notin Dispatch
         /\ \A t \in Dispatchers : thr[t].pc # "idle" => thr[t] \in Dispatch
BY DEF RInv, UniqueKeys, RegTypeOK, Dispatch, Idle

LEMMA FindEffect ==
  ASSUME RInv, NEW t \in Dispatchers, NEW key \in Keys, Find(t, key)
  PROVE  \E w \in Dispatch : thr' = [thr EXCEPT ![t] = w] /\ w.pc = "found" /\ w.key = key
                               /\ w.slot \in 1 .. entry_count /\ entries[w.slot].key = key
<1> DEFINE w == [pc |-> "found", key |-> key, slot |-> Min(Match(key)), handler |-> Null,
                 context |-> Null]
<1>1. Min(Match(key)) \in 1 .. entry_count /\ entries[Min(Match(key))].key = key
  BY MinOfMatch, Zenon DEF Find, RInv
<1>2. Min(Match(key)) \in Slots
  BY <1>1, TableTypes, Zenon
<1>3. w \in Dispatch
  BY <1>2, Zenon DEF Dispatch
<1>4. thr' = [thr EXCEPT ![t] = w] /\ w.pc = "found" /\ w.key = key /\ w.slot = Min(Match(key))
  BY Zenon DEF Find
<1> HIDE DEF w
<1> QED
  BY <1>1, <1>3, <1>4, Zenon

LEMMA ReadHandlerEffect ==
  ASSUME RInv, NEW t \in Dispatchers, ReadHandler(t)
  PROVE  \E w \in Dispatch :
           /\ thr[t] # Idle /\ thr' = [thr EXCEPT ![t] = w] /\ w.key = thr[t].key /\ w.slot = thr[t].slot
           /\ w.handler = entries[w.slot].handler /\ w.context = thr[t].context
           /\ (thr[t].pc = "found" /\ w.pc = "handler_read") \/ (thr[t].pc = "context_read" /\ w.pc = "call")
<1> DEFINE w == [thr[t] EXCEPT !.handler = entries[thr[t].slot].handler,
                               !.pc = IF @ = "found" THEN "handler_read" ELSE "call"]
<1>1. thr[t] \in Dispatch /\ thr[t].pc \in {"found", "context_read"} /\ thr[t] # Idle
  BY DispatchTypes, Zenon DEF ReadHandler
<1>2. thr' = [thr EXCEPT ![t] = w]
  BY DispatchTypes, Zenon DEF ReadHandler
<1>3. entries[thr[t].slot].handler \in Handler \cup {Null}
  BY <1>1, TableTypes, Zenon DEF Dispatch, Entry
<1>4. w \in Dispatch
  BY <1>1, <1>3, Zenon DEF Dispatch
<1>5. /\ w.key = thr[t].key /\ w.slot = thr[t].slot /\ w.handler = entries[thr[t].slot].handler
      /\ w.context = thr[t].context
      /\ w.pc = IF thr[t].pc = "found" THEN "handler_read" ELSE "call"
  BY <1>1, Zenon DEF Dispatch
<1> HIDE DEF w
<1>6. (thr[t].pc = "found" /\ w.pc = "handler_read") \/ (thr[t].pc = "context_read" /\ w.pc = "call")
  BY <1>1, <1>5, Zenon
<1> QED
  BY <1>1, <1>2, <1>4, <1>5, <1>6, Zenon

LEMMA ReadContextEffect ==
  ASSUME RInv, NEW t \in Dispatchers, ReadContext(t)
  PROVE  \E w \in Dispatch :
           /\ thr[t] # Idle /\ thr' = [thr EXCEPT ![t] = w] /\ w.key = thr[t].key /\ w.slot = thr[t].slot
           /\ w.handler = thr[t].handler /\ w.context = entries[w.slot].context
           /\ (thr[t].pc = "found" /\ w.pc = "context_read") \/ (thr[t].pc = "handler_read" /\ w.pc = "call")
<1> DEFINE w == [thr[t] EXCEPT !.context = entries[thr[t].slot].context,
                               !.pc = IF @ = "found" THEN "context_read" ELSE "call"]
<1>1. thr[t] \in Dispatch /\ thr[t].pc \in {"found", "handler_read"} /\ thr[t] # Idle
  BY DispatchTypes, Zenon DEF ReadContext
<1>2. thr' = [thr EXCEPT ![t] = w]
  BY DispatchTypes, Zenon DEF ReadContext
<1>3. entries[thr[t].slot].context \in Handler \cup {Null}
  BY <1>1, TableTypes, Zenon DEF Dispatch, Entry
<1>4. w \in Dispatch
  BY <1>1, <1>3, Zenon DEF Dispatch
<1>5. /\ w.key = thr[t].key /\ w.slot = thr[t].slot /\ w.context = entries[thr[t].slot].context
      /\ w.handler = thr[t].handler
      /\ w.pc = IF thr[t].pc = "found" THEN "context_read" ELSE "call"
  BY <1>1, Zenon DEF Dispatch
<1> HIDE DEF w
<1>6. (thr[t].pc = "found" /\ w.pc = "context_read") \/ (thr[t].pc = "handler_read" /\ w.pc = "call")
  BY <1>1, <1>5, Zenon
<1> QED
  BY <1>1, <1>2, <1>4, <1>5, <1>6, Zenon

LEMMA CallEffect ==
  ASSUME RInv, NEW t \in Dispatchers, Call(t)
  PROVE  \E w \in Dispatch :
           /\ thr[t] # Idle /\ thr' = [thr EXCEPT ![t] = w] /\ w.key = thr[t].key /\ w.slot = thr[t].slot
           /\ w.handler = thr[t].handler /\ w.context = thr[t].context
           /\ thr[t].pc = "call" /\ w.pc = "record"
<1> DEFINE w == [thr[t] EXCEPT !.pc = "record"]
<1>1. thr[t] \in Dispatch /\ thr[t].pc = "call" /\ thr[t] # Idle
  BY DispatchTypes, Zenon DEF Call
<1>2. thr' = [thr EXCEPT ![t] = w]
  BY DispatchTypes, Zenon DEF Call
<1>3. w \in Dispatch
  BY <1>1, Zenon DEF Dispatch
<1>4. /\ w.key = thr[t].key /\ w.slot = thr[t].slot /\ w.handler = thr[t].handler
      /\ w.context = thr[t].context /\ w.pc = "record"
  BY <1>1, Zenon DEF Dispatch
<1> HIDE DEF w
<1> QED
  BY <1>1, <1>2, <1>3, <1>4, Zenon

\* A thread that enters, or goes on in, a dispatch.
LEMMA AdvanceKeeps ==
  ASSUME RInv, started, NEW t \in Dispatchers, NEW w \in Dispatch,
         thr' = [thr EXCEPT ![t] = w], UNCHANGED <<registry, started>>, PointsTo(w),
         \/ thr[t] = Idle /\ calls < MaxDispatches /\ calls' = calls + 1
         \/ thr[t] # Idle /\ calls' = calls,
         called' \subseteq [key : Keys, handler : Handler \cup {Null}, context : Handler \cup {Null}],
         RightHandler'
  PROVE  RInv'
<1>0. /\ thr \in [Dispatchers -> {Idle} \cup Dispatch] /\ Idle \notin Dispatch
      /\ calls \in 0 .. MaxDispatches /\ MaxDispatches \in Nat /\ total_dispatches \in Nat
      /\ \A u \in Dispatchers : thr'[u] = IF u = t THEN w ELSE thr[u]
      /\ thr' \in [Dispatchers -> {Idle} \cup Dispatch]
  BY DispatchTypes, EventHandlerAssumption DEF RInv, UniqueKeys, RegTypeOK
<1>1. UniqueKeys'
  <2>1. calls' \in 0 .. MaxDispatches
    BY <1>0
  <2> QED
    BY <1>0, <2>1, Zenon DEF RInv, UniqueKeys, RegTypeOK, registry, Dispatch
<1>2. WellMade' /\ Registering' /\ CountsAgree'
  BY Zenon DEF RInv, WellMade, Registering, CountsAgree, registry
<1>3. Pointing'
  BY <1>0 DEF RInv, Pointing, PointsTo, registry
<1>4. Dispatched'
  <2>1. IsFiniteSet(Busy)
    BY EventHandlerAssumption, FS_Subset, Zenon DEF Busy
  <2>2. CASE thr[t] = Idle
    <3>1. Busy' = Busy \cup {t} /\ t \notin Busy
      BY <1>0, <2>2, Zenon DEF Busy
    <3>2. Cardinality(Busy') = Cardinality(Busy) + 1
      BY <2>1, <3>1, FS_AddElement, Zenon
    <3>3. Cardinality(Busy) \in Nat
      BY <2>1, FS_CardinalityType, Zenon
    <3> QED
      BY <1>0, <2>2, <3>2, <3>3 DEF RInv, Dispatched, registry
  <2>3. CASE thr[t] # Idle
    <3>1. Busy' = Busy
      BY <1>0, <2>3, Zenon DEF Busy
    <3> QED
      BY <2>3, <3>1, Zenon DEF RInv, Dispatched, registry
  <2> QED
    BY <2>2, <2>3, Zenon
<1> QED
  BY <1>1, <1>2, <1>3, <1>4, Zenon DEF RInv

\* The second section counts the dispatch once in the total and once in its entry.
LEMMA RecordCounts == ASSUME RInv, NEW t \in Dispatchers, Record(t) PROVE RInv'
<1> DEFINE k == thr[t].slot
<1>0. /\ thr[t] # Idle /\ thr[t] \in Dispatch /\ k \in 1 .. entry_count /\ k \in Slots
      /\ entries \in [Slots -> Entry] /\ entry_count \in Nat /\ started
  BY DispatchTypes, TableTypes DEF Record, RInv, Pointing, PointsTo, Registering
<1>1. /\ thr' = [thr EXCEPT ![t] = Idle] /\ UNCHANGED <<entry_count, called, started, calls>>
      /\ total_dispatches' = total_dispatches + 1
      /\ total_failures' \in {total_failures, total_failures + 1}
  <2>1. total_failures \in Nat
    BY EventHandlerAssumption DEF RInv, UniqueKeys, RegTypeOK
  <2>2. PICK ok \in BOOLEAN : total_failures' = total_failures + (IF ok THEN 0 ELSE 1)
    BY Zenon DEF Record
  <2>3. total_failures' \in {total_failures, total_failures + 1}
    BY <2>1, <2>2
  <2> QED
    BY <2>3, Zenon DEF Record
<1>2. /\ entries' \in [Slots -> Entry]
      /\ \A i \in Slots : /\ entries'[i].key = entries[i].key /\ entries'[i].handler = entries[i].handler
                          /\ entries'[i].context = entries[i].context
                          /\ entries'[i].invocation_count
                               = entries[i].invocation_count + (IF i = k THEN 1 ELSE 0)
                          /\ entries[i].invocation_count \in Nat
  <2> DEFINE w == [entries[k] EXCEPT !.invocation_count = @ + 1]
  <2>1. entries' = [entries EXCEPT ![k] = w]
    BY <1>0, Zenon DEF Record
  <2>2. entries[k] \in Entry
    BY <1>0, Zenon
  <2>3. /\ w \in Entry /\ w.key = entries[k].key /\ w.handler = entries[k].handler
        /\ w.context = entries[k].context /\ w.invocation_count = entries[k].invocation_count + 1
    BY <2>2 DEF Entry
  <2> HIDE DEF w, k
  <2>4. \A i \in Slots : entries'[i] = IF i = k THEN w ELSE entries[i]
    BY <1>0, <2>1, Zenon
  <2>5. \A i \in Slots : entries[i].invocation_count \in Nat
    BY <1>0, Zenon DEF Entry
  <2>6. entries' \in [Slots -> Entry]
    BY <1>0, <2>1, <2>3, Zenon
  <2> QED
    BY <2>3, <2>4, <2>5, <2>6
<1>3. /\ \A u \in Dispatchers : thr'[u] = IF u = t THEN Idle ELSE thr[u]
      /\ thr' \in [Dispatchers -> {Idle} \cup Dispatch]
  BY <1>1, DispatchTypes, Zenon
<1>4. /\ total_dispatches \in Nat /\ total_failures \in Nat /\ calls \in 0 .. MaxDispatches
      /\ MaxDispatches \in Nat
  BY EventHandlerAssumption DEF RInv, UniqueKeys, RegTypeOK
<1> HIDE DEF k
<1>5. Dispatched' /\ total_dispatches' <= calls
  <2>1. IsFiniteSet(Busy)
    BY EventHandlerAssumption, FS_Subset, Zenon DEF Busy
  <2>2. Busy' = Busy \ {t} /\ t \in Busy
    BY <1>0, <1>3, Zenon DEF Busy
  <2>3. Cardinality(Busy') = Cardinality(Busy) - 1 /\ IsFiniteSet(Busy')
    BY <2>1, <2>2, FS_RemoveElement, Zenon
  <2>4. Cardinality(Busy) \in Nat /\ Cardinality(Busy') \in Nat
    BY <2>1, <2>3, FS_CardinalityType, Zenon
  <2> QED
    BY <1>1, <1>4, <2>3, <2>4 DEF RInv, Dispatched
<1>6. UniqueKeys'
  <2>1. /\ total_dispatches' \in 0 .. MaxDispatches /\ total_failures' \in 0 .. MaxDispatches
    BY <1>1, <1>4, <1>5 DEF Dispatched
  <2>2. \A i, j \in 1 .. entry_count' : entries'[i].key = entries'[j].key => i = j
    BY <1>1, <1>2, TableTypes DEF RInv, UniqueKeys
  <2> QED
    BY <1>1, <1>2, <1>3, <2>1, <2>2, Zenon DEF RInv, UniqueKeys, RegTypeOK, Dispatch
<1>7. WellMade'
  BY <1>1, <1>2, TableTypes DEF RInv, WellMade
<1>8. Registering' /\ RightHandler'
  BY <1>0, <1>1, Zenon DEF RInv, Registering, RightHandler
<1>9. Pointing'
  BY <1>1, <1>2, <1>3, TableTypes DEF RInv, Pointing, PointsTo
<1>10. CountsAgree'
  <2>1. SumsTo(entries, entry_count, total_dispatches)
    BY Zenon DEF RInv, CountsAgree, SumsTo
  <2>2. /\ \A i \in 1 .. entry_count : entries[i].invocation_count \in Nat
        /\ \A i \in 1 .. entry_count : entries'[i].invocation_count
                                         = entries[i].invocation_count + (IF i = k THEN 1 ELSE 0)
    BY <1>2, TableTypes, Zenon
  <2>3. SumsTo(entries', entry_count, total_dispatches + 1)
    BY <1>0, <1>4, <2>1, <2>2, OneMoreCounted, Zenon
  <2> QED
    BY <1>1, <2>3, Zenon DEF CountsAgree, SumsTo
<1> QED
  BY <1>5, <1>6, <1>7, <1>8, <1>9, <1>10, Zenon DEF RInv

\* handler_stats_reset clears the total and every entry in use.
LEMMA ResetKeeps == ASSUME RInv, StatsReset PROVE RInv'
<1>1. /\ total_dispatches' = 0 /\ total_failures' = 0 /\ started
      /\ UNCHANGED <<entry_count, thr, called, started, calls>>
  BY Zenon DEF StatsReset
<1>2. /\ entries' \in [Slots -> Entry]
      /\ \A i \in Slots : /\ entries'[i].key = entries[i].key /\ entries'[i].handler = entries[i].handler
                          /\ entries'[i].context = entries[i].context
                          /\ i <= entry_count => entries'[i].invocation_count = 0
  BY TableTypes, Zenon DEF StatsReset, Entry
<1>3. UniqueKeys'
  <2>1. \A i, j \in 1 .. entry_count' : entries'[i].key = entries'[j].key => i = j
    BY <1>1, <1>2, TableTypes, Zenon DEF RInv, UniqueKeys
  <2> QED
    BY <1>1, <1>2, <2>1, EventHandlerAssumption DEF RInv, UniqueKeys, RegTypeOK
<1>4. WellMade'
  BY <1>1, <1>2, TableTypes, Zenon DEF RInv, WellMade
<1>5. Registering' /\ RightHandler'
  BY <1>1, Zenon DEF RInv, Registering, RightHandler
<1>6. Pointing'
  BY <1>1, <1>2, TableTypes DEF RInv, Pointing, PointsTo
<1>7. Dispatched'
  <2>1. IsFiniteSet(Busy) /\ Busy' = Busy
    BY <1>1, EventHandlerAssumption, FS_Subset, Zenon DEF Busy
  <2>2. Cardinality(Busy) \in Nat /\ total_dispatches \in Nat /\ calls \in Nat
    BY <2>1, FS_CardinalityType, EventHandlerAssumption DEF RInv, UniqueKeys, RegTypeOK
  <2> QED
    BY <1>1, <2>1, <2>2 DEF RInv, Dispatched
<1>8. CountsAgree'
  <2>1. \A i \in 1 .. entry_count : entries'[i].invocation_count = 0
    BY <1>2, TableTypes
  <2>2. SumsTo(entries', entry_count, 0)
    BY <2>1, NothingCounted, TableTypes
  <2> QED
    BY <1>1, <2>2, Zenon DEF CountsAgree, SumsTo
<1> QED
  BY <1>3, <1>4, <1>5, <1>6, <1>7, <1>8, Zenon DEF RInv

LEMMA RegInitInv == RegInit => RInv
<1> SUFFICES ASSUME RegInit PROVE RInv
  OBVIOUS
<1> USE EventHandlerAssumption DEF RegInit
<1>1. Empty \in Entry /\ Empty.invocation_count = 0
  BY Zenon DEF Empty, Entry
<1>2. /\ entries \in [Slots -> Entry] /\ \A i \in Slots : entries[i].invocation_count = 0
      /\ thr = [t \in Dispatchers |-> Idle]
  BY <1>1, Zenon
<1>3. UniqueKeys
  <2>1. 0 \in 0 .. MAX_EVENT_HANDLERS /\ 0 \in 0 .. MaxDispatches /\ 1 .. 0 = {}
    OBVIOUS
  <2> QED
    BY <1>2, <2>1, Zenon DEF UniqueKeys, RegTypeOK
<1>4. WellMade /\ Registering /\ Pointing /\ RightHandler
  BY <1>2 DEF WellMade, Registering, Pointing, RightHandler
<1>5. Dispatched
  <2>1. Busy = {}
    BY Zenon DEF Busy
  <2> QED
    BY <2>1, FS_EmptySet DEF Dispatched
<1>6. SumsTo(entries, entry_count, total_dispatches)
  <2>1. \A i \in 1 .. 0 : entries[i].invocation_count = 0
    OBVIOUS
  <2> QED
    BY <2>1, NothingCounted, Zenon
<1> QED
  BY <1>3, <1>4, <1>5, <1>6, Zenon DEF RInv, CountsAgree, SumsTo

LEMMA RegInvariant == RegSpec => []RInv
<1>1. RInv /\ [RegNext]_regVars => RInv'
  <2> SUFFICES ASSUME RInv, [RegNext]_regVars PROVE RInv'
    OBVIOUS
  <2>0. /\ calls \in 0 .. MaxDispatches /\ MaxDispatches \in Nat /\ RightHandler
        /\ called \subseteq [key : Keys, handler : Handler \cup {Null}, context : Handler \cup {Null}]
    BY EventHandlerAssumption, Zenon DEF RInv, UniqueKeys, RegTypeOK
  <2>1. ASSUME NEW key \in Keys, NEW owner \in Owners, Register(key, owner) PROVE RInv'
    <3>1. /\ ~started /\ UNCHANGED <<total_dispatches, total_failures, thr, called, started>>
          /\ calls' \in 0 .. MaxDispatches /\ calls <= calls'
      BY <2>0, <2>1 DEF Register
    <3>2. CASE UNCHANGED <<entries, entry_count>>
      <4>1. WellMade' /\ \A j \in Slots : entries'[j].invocation_count = 0
        BY <3>1, <3>2, Zenon DEF RInv, WellMade, Registering
      <4>2. \A i, j \in 1 .. entry_count' : entries'[i].key = entries'[j].key => i = j
        BY <3>2, Zenon DEF RInv, UniqueKeys
      <4> QED
        BY <3>1, <3>2, <4>1, <4>2, TableTypes, FillingKeeps, Zenon
    <3>3. CASE \E i \in Slots : AddsTo(i, key, owner)
      BY <3>1, <3>3, AddKeeps, FillingKeeps, Zenon
    <3> QED
      BY <2>1, <3>2, <3>3, RegisterEffect, Zenon
  <2>2. ASSUME NEW key \in Keys, Unregister(key) PROVE RInv'
    <3>1. /\ ~started /\ UNCHANGED <<total_dispatches, total_failures, thr, called, started>>
          /\ calls' \in 0 .. MaxDispatches /\ calls <= calls'
      BY <2>0, <2>2 DEF Unregister
    <3>2. PICK k \in Slots : Removes(k)
      BY <2>2, UnregisterEffect, Zenon
    <3> QED
      BY <3>1, <3>2, RemoveKeeps, FillingKeeps, Zenon
  <2>3. ASSUME NEW t \in Dispatchers, NEW key \in Keys, Find(t, key) PROVE RInv'
    <3>1. PICK w \in Dispatch : /\ thr' = [thr EXCEPT ![t] = w] /\ w.pc = "found" /\ w.key = key
                                /\ w.slot \in 1 .. entry_count /\ entries[w.slot].key = key
      BY <2>3, FindEffect
    <3>2. PointsTo(w)
      BY <3>1, Zenon DEF PointsTo
    <3>3. /\ UNCHANGED <<registry, started>> /\ called' = called /\ started
          /\ thr[t] = Idle /\ calls < MaxDispatches /\ calls' = calls + 1
      BY <2>3, Zenon DEF Find
    <3>4. RightHandler'
      BY <2>0, <3>3, Zenon DEF RightHandler
    <3> QED
      BY <2>0, <3>1, <3>2, <3>3, <3>4, AdvanceKeeps, Zenon
  <2>4. ASSUME NEW t \in Dispatchers, ReadHandler(t) \/ ReadContext(t) PROVE RInv'
    <3>1. PICK w \in Dispatch : thr[t] # Idle /\ thr' = [thr EXCEPT ![t] = w] /\ PointsTo(w)
      <4>1. CASE ReadHandler(t)
        <5>1. PICK w \in Dispatch :
                /\ thr[t] # Idle /\ thr' = [thr EXCEPT ![t] = w]
                /\ w.key = thr[t].key /\ w.slot = thr[t].slot
                /\ w.handler = entries[w.slot].handler /\ w.context = thr[t].context
                /\ (thr[t].pc = "found" /\ w.pc = "handler_read")
                     \/ (thr[t].pc = "context_read" /\ w.pc = "call")
          BY <4>1, ReadHandlerEffect, Zenon
        <5>2. PointsTo(thr[t])
          BY <5>1, Zenon DEF RInv, Pointing
        <5>3. PointsTo(w)
          BY <5>1, <5>2, Zenon DEF PointsTo
        <5> QED
          BY <5>1, <5>3, Zenon
      <4>2. CASE ReadContext(t)
        <5>1. PICK w \in Dispatch :
                /\ thr[t] # Idle /\ thr' = [thr EXCEPT ![t] = w]
                /\ w.key = thr[t].key /\ w.slot = thr[t].slot
                /\ w.handler = thr[t].handler /\ w.context = entries[w.slot].context
                /\ (thr[t].pc = "found" /\ w.pc = "context_read")
                     \/ (thr[t].pc = "handler_read" /\ w.pc = "call")
          BY <4>2, ReadContextEffect, Zenon
        <5>2. PointsTo(thr[t])
          BY <5>1, Zenon DEF RInv, Pointing
        <5>3. PointsTo(w)
          BY <5>1, <5>2, Zenon DEF PointsTo
        <5> QED
          BY <5>1, <5>3, Zenon
      <4> QED
        BY <2>4, <4>1, <4>2, Zenon
    <3>2. UNCHANGED <<registry, started>> /\ called' = called /\ calls' = calls
      BY <2>4, Zenon DEF ReadHandler, ReadContext
    <3>3. RightHandler' /\ started
      BY <2>0, <3>1, <3>2, Zenon DEF RightHandler, RInv, Registering
    <3> QED
      BY <2>0, <3>1, <3>2, <3>3, AdvanceKeeps, Zenon
  <2>5. ASSUME NEW t \in Dispatchers, Call(t) PROVE RInv'
    <3>1. PICK w \in Dispatch :
            /\ thr[t] # Idle /\ thr' = [thr EXCEPT ![t] = w] /\ w.key = thr[t].key /\ w.slot = thr[t].slot
            /\ w.handler = thr[t].handler /\ w.context = thr[t].context
            /\ thr[t].pc = "call" /\ w.pc = "record"
      BY <2>5, CallEffect, Zenon
    <3>2. PointsTo(thr[t]) /\ started
      BY <3>1, Zenon DEF RInv, Pointing, Registering
    <3>3. PointsTo(w)
      BY <3>1, <3>2, Zenon DEF PointsTo
    <3> DEFINE c == [key |-> w.key, handler |-> w.handler, context |-> w.context]
    <3>4. /\ UNCHANGED <<registry, started>> /\ calls' = calls /\ called' = called \cup {c}
      BY <2>5, <3>1, Zenon DEF Call
    <3>5. c \in [key : Keys, handler : Handler \cup {Null}, context : Handler \cup {Null}]
      BY Zenon DEF Dispatch
    <3>6. c.handler = c.context /\ c.handler[1] = c.key
      BY <3>1, <3>3, Zenon DEF PointsTo, RInv, WellMade
    <3> HIDE DEF c
    <3>7. RightHandler'
      BY <2>0, <3>4, <3>6, Zenon DEF RightHandler
    <3> QED
      BY <2>0, <3>1, <3>2, <3>3, <3>4, <3>5, <3>7, AdvanceKeeps, Zenon
  <2>6. ASSUME NEW t \in Dispatchers, Record(t) PROVE RInv'
    BY <2>6, RecordCounts, Zenon
  <2>7. CASE StatsReset
    BY <2>7, ResetKeeps, Zenon
  <2>8. CASE StartThreads
    BY <2>8, Zenon DEF StartThreads, registry, RInv, UniqueKeys, RegTypeOK, WellMade,
       Registering, Pointing,
       PointsTo, Dispatched, Busy, RightHandler, CountsAgree
  <2>9. CASE UNCHANGED regVars
    BY <2>9, Zenon
       DEF regVars, registry, RInv, UniqueKeys, RegTypeOK, WellMade, Registering, Pointing,
       PointsTo, Dispatched, Busy, RightHandler, CountsAgree
  <2> QED
    BY <2>1, <2>2, <2>3, <2>4, <2>5, <2>6, <2>7, <2>8, <2>9, Zenon DEF RegNext
<1> QED
  BY <1>1, RegInitInv, PTL DEF RegSpec

\* One entry at most serves a module's command (event_handler.h:72-73), in a table of any
\* size.
THEOREM RegUniqueKeys == RegSpec => []UniqueKeys
<1>1. RInv => UniqueKeys
  BY Zenon DEF RInv
<1> QED
  BY <1>1, RegInvariant, PTL

\* handler_dispatch calls the handler of the command with its own context, although it
\* reads both without the mutex (event_handler.c:184): nothing is registered any more.
THEOREM RegRightHandler == RegSpec => []RightHandler
<1>1. RInv => RightHandler
  BY Zenon DEF RInv
<1> QED
  BY <1>1, RegInvariant, PTL

\* The total of the registry is the sum of its entries' counts (event_handler.c:189-190,
\* 284-291).
THEOREM RegCountsAgree == RegSpec => []CountsAgree
<1>1. RInv => CountsAgree
  BY Zenon DEF RInv
<1> QED
  BY <1>1, RegInvariant, PTL

=============================================================================
