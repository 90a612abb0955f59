----------------------------- MODULE MgmtSocket -----------------------------
(***************************************************************************)
(* The management socket of one program and the mgmtctl processes that     *)
(* send it commands over UNIX datagrams (Mgmt/src/mgmt_socket.c,           *)
(* Mgmt/src/mgmt_worker.c, MgmtCtl/src).  Both sides name their sockets by *)
(* files: an instance of the program by a fixed path, mgmtctl by a path    *)
(* that contains its pid.  Instances may overlap, every process may be     *)
(* killed, and a pid may be used again.                                    *)
(***************************************************************************)
EXTENDS Integers, Sequences

CONSTANTS
  Instances, \* how many instances of the program are started, one after the other
  Clients,   \* the pids mgmtctl gets
  Runs,      \* how many mgmtctl processes get pid c, for each c
  cmd,       \* the command that each of them is to send
  Capacity,  \* of the queue of a server's socket
  MaxSignals \* how many processes are killed or told to stop

\* Commands of mgmtctl: all programs register "ping" and "shutdown"; "metrics"
\* stands for the commands none of them registers.
Commands == {"ping", "shutdown", "metrics"}
Registered == {"ping", "shutdown"}

\* A request is the n-th process of pid c: mgmtctl sends one.  Its request_id is
\* always 0, so a request and its answer are told apart by the client's path alone.
Requests == UNION {{c} \X (1 .. Runs[c]) : c \in Clients}
NoRequest == <<>>

ASSUME MgmtAssumption ==
  /\ Instances \in Nat
  /\ Runs \in [Clients -> Nat] /\ cmd \in [Requests -> Commands]
  /\ Capacity \in Nat \ {0} /\ MaxSignals \in Nat

Servers == 1 .. Instances
NoServer == 0

VARIABLES
  path,     \* the instance whose socket the program's socket file names
  spc,      \* where an instance is
  keep_running, \* its flag
  inbox,    \* the queue of its socket
  inhand,   \* the request it works on
  rival,    \* whether another instance ran at the same time
  cpath,    \* the process of pid c whose socket the file of that pid names, or 0
  cpc,      \* where the process of pid c is
  run,      \* which process of that pid it is
  target,   \* the instance its sendto has found
  answers,  \* the queue of its socket
  got,      \* the request whose answer it has received
  exit,     \* its exit status, -1 before
  fate,     \* history: what has become of a request
  signals   \* processes killed or told to stop so far

serverVars == <<path, spc, keep_running, inbox, inhand, rival>>
clientVars == <<cpath, cpc, run, target, answers, got, exit>>
vars == <<serverVars, clientVars, fate, signals>>

Handled == {"handled", "answered", "misdelivered"}
Serving == {"serve", "reply"}
Alive == Serving \cup {"unlink", "bind", "close", "unlink_end"}
HasSocket == {"sendto", "blocked", "poll", "cleanup"}

TypeOK ==
  /\ path \in Servers \cup {NoServer}
  /\ spc \in [Servers -> Alive \cup {"off", "in_use", "ended", "killed"}]
  /\ keep_running \in [Servers -> BOOLEAN] /\ rival \in [Servers -> BOOLEAN]
  /\ inbox \in [Servers -> Seq(Requests)]
  /\ \A s \in Servers : Len(inbox[s]) <= Capacity
  /\ inhand \in [Servers -> Requests \cup {NoRequest}]
  /\ cpc \in [Clients -> HasSocket \cup {"off", "ended", "killed"}]
  /\ \A c \in Clients : {run[c], cpath[c]} \subseteq 0 .. Runs[c]
  /\ target \in [Clients -> Servers \cup {NoServer}]
  /\ answers \in [Clients -> Seq(Requests)]
  /\ got \in [Clients -> Requests \cup {NoRequest}] /\ exit \in [Clients -> {-1, 0, 1}]
  /\ fate \in [Requests -> Handled \cup {"none", "sent"}]
  /\ signals \in 0 .. MaxSignals

Init ==
  /\ path = NoServer /\ spc = [s \in Servers |-> "off"]
  /\ keep_running = [s \in Servers |-> TRUE] /\ rival = [s \in Servers |-> FALSE]
  /\ inbox = [s \in Servers |-> <<>>] /\ inhand = [s \in Servers |-> NoRequest]
  /\ cpath = [c \in Clients |-> 0] /\ cpc = [c \in Clients |-> "off"]
  /\ run = [c \in Clients |-> 0] /\ target = [c \in Clients |-> NoServer]
  /\ answers = [c \in Clients |-> <<>>] /\ got = [c \in Clients |-> NoRequest]
  /\ exit = [c \in Clients |-> -1]
  /\ fate = [r \in Requests |-> "none"]
  /\ signals = 0

-----------------------------------------------------------------------------
(* The program: mgmt_socket_create, the loop, mgmt_socket_destroy. *)

SGoes(s, from, to) == spc[s] = from /\ spc' = [spc EXCEPT ![s] = to]

\* The next instance starts and gets its socket.  rival notes who overlaps.  One that
\* gets no socket, like a mgmtctl that gets none or whose arguments are refused, ends
\* without a trace and is left out; one whose bind fails for want of a directory or of
\* permission is like one killed before it.
SStart(s) ==
  LET others == {t \in Servers : spc[t] \in Alive}
      overlap == IF others = {} THEN {} ELSE others \cup {s}
  IN /\ SGoes(s, "off", "unlink") /\ \A t \in 1 .. s - 1 : spc[t] # "off"
     /\ rival' = [t \in Servers |-> rival[t] \/ t \in overlap]
     /\ UNCHANGED <<path, keep_running, inbox, inhand, clientVars, fate, signals>>

\* A faulty start that leaves the file where it is.
SNoUnlink(s) ==
  /\ SGoes(s, "unlink", "bind")
  /\ UNCHANGED <<path, keep_running, inbox, inhand, rival, clientVars, fate, signals>>

\* "Remove stale socket file if it exists".
SUnlink(s) ==
  /\ SGoes(s, "unlink", "bind") /\ path' = NoServer
  /\ UNCHANGED <<keep_running, inbox, inhand, rival, clientVars, fate, signals>>

\* bind creates the file, and fails if there is one again (EADDRINUSE).
SBind(s) ==
  /\ \/ path = NoServer /\ SGoes(s, "bind", "serve") /\ path' = s
     \/ path # NoServer /\ SGoes(s, "bind", "in_use") /\ UNCHANGED path
  /\ UNCHANGED <<keep_running, inbox, inhand, rival, clientVars, fate, signals>>

\* The loop ends when the flag is down.
SLeave(s) ==
  /\ SGoes(s, "serve", "close") /\ ~keep_running[s]
  /\ UNCHANGED <<path, keep_running, inbox, inhand, rival, clientVars, fate, signals>>

\* Otherwise recvfrom takes a request, which is dispatched.  A command nobody registered
\* gets MODULE_NOT_FOUND; the handler of "shutdown" clears the flag in the Collector and
\* the Viewer.  That of the Router only posts an event to main, which clears it later:
\* for this module a "ping", and then SStop.  A round in which
\* recvfrom times out changes nothing: the statistics have no reader and are left out.
\* A flag cleared while recvfrom waits is as one cleared after the request is taken.
SRecv(s) ==
  /\ keep_running[s] /\ inbox[s] # <<>> /\ SGoes(s, "serve", "reply")
  /\ LET r == Head(inbox[s])
     IN /\ inhand' = [inhand EXCEPT ![s] = r]
        /\ keep_running' = [keep_running EXCEPT ![s] = cmd[r] # "shutdown"]
        /\ fate' = [fate EXCEPT ![r] = "handled"]
  /\ inbox' = [inbox EXCEPT ![s] = Tail(@)]
  /\ UNCHANGED <<path, rival, clientVars, signals>>

\* The file of pid c names the socket of a process that is still there.
Listens(c) == cpath[c] = run[c] /\ cpc[c] \in HasSocket

\* A faulty sendto whose address is that of the next request in the queue.
ReplyAddressNext(s) ==
  IF inbox[s] # <<>> THEN Head(inbox[s])[1] ELSE inhand[s][1]

\* The path recvfrom stored is that of the client in hand.
ReplyAddress(s) == inhand[s][1]

\* A faulty answer that, when the client is gone, puts the request back to try again.
SReplyRetry(s) ==
  LET c == ReplyAddress(s)
  IN /\ SGoes(s, "reply", "serve")
     /\ IF Listens(c)
          THEN /\ answers' = [answers EXCEPT ![c] = Append(@, inhand[s])]
               /\ UNCHANGED <<inbox, fate>>
          ELSE /\ UNCHANGED answers /\ fate' = [fate EXCEPT ![inhand[s]] = "sent"]
               /\ inbox' = [inbox EXCEPT ![s] = Append(@, inhand[s])]
     /\ inhand' = [inhand EXCEPT ![s] = NoRequest]
     /\ UNCHANGED <<path, keep_running, rival, cpath, cpc, run, target, got, exit,
                    signals>>

\* sendto finds the socket that the client's path names now, or fails.
SReply(s) ==
  LET c == ReplyAddress(s)
  IN /\ SGoes(s, "reply", "serve")
     /\ IF Listens(c)
          THEN answers' = [answers EXCEPT ![c] = Append(@, inhand[s])]
          ELSE UNCHANGED answers
     /\ inhand' = [inhand EXCEPT ![s] = NoRequest]
     /\ UNCHANGED <<path, keep_running, inbox, rival, cpath, cpc, run, target, got, exit,
                    fate, signals>>

\* The kernel frees a socket with what is queued in it, as if it had not been sent.
Dropped(s) ==
  /\ inbox' = [inbox EXCEPT ![s] = <<>>]
  /\ fate' = [r \in Requests |->
               IF \E i \in 1 .. Len(inbox[s]) : inbox[s][i] = r THEN "none" ELSE fate[r]]

SClose(s) ==
  /\ SGoes(s, "close", "unlink_end") /\ Dropped(s)
  /\ UNCHANGED <<path, keep_running, inhand, rival, clientVars, signals>>

\* The file is removed, whoever's socket it names by now.
SUnlinkEnd(s) ==
  /\ SGoes(s, "unlink_end", "ended") /\ path' = NoServer
  /\ UNCHANGED <<keep_running, inbox, inhand, rival, clientVars, fate, signals>>

Server(s) == SUnlink(s) \/ SBind(s) \/ SLeave(s) \/ SRecv(s) \/ SReply(s)
               \/ SClose(s) \/ SUnlinkEnd(s)

\* The program is told to stop by a signal.  An earlier one is noticed no earlier.
SStop(s) ==
  /\ spc[s] \in Serving /\ keep_running[s] /\ signals < MaxSignals
  /\ keep_running' = [keep_running EXCEPT ![s] = FALSE] /\ signals' = signals + 1
  /\ UNCHANGED <<path, spc, inbox, inhand, rival, clientVars, fate>>

\* SIGKILL: the file stays.
SKill(s) ==
  /\ spc[s] \in Alive /\ signals < MaxSignals /\ signals' = signals + 1
  /\ spc' = [spc EXCEPT ![s] = "killed"] /\ Dropped(s)
  /\ UNCHANGED <<path, keep_running, inhand, rival, clientVars>>

-----------------------------------------------------------------------------
(* mgmtctl: main and mgmt_send_command. *)

CGoes(c, from, to) == cpc[c] = from /\ cpc' = [cpc EXCEPT ![c] = to]

Own(c) == <<c, run[c]>>

\* A process gets pid c, removes the file of an earlier process of this pid and binds
\* the path.  Nobody else uses the path, so this is one step.
CStart(c) ==
  /\ cpc[c] \in {"off", "ended", "killed"} /\ run[c] < Runs[c]
  /\ cpc' = [cpc EXCEPT ![c] = "sendto"] /\ run' = [run EXCEPT ![c] = @ + 1]
  /\ cpath' = [cpath EXCEPT ![c] = run'[c]]
  /\ got' = [got EXCEPT ![c] = NoRequest] /\ exit' = [exit EXCEPT ![c] = -1]
  /\ UNCHANGED <<serverVars, target, answers, fate, signals>>

\* The socket that was bound to the program's path is open.
Bound(s) == s # NoServer /\ spc[s] \in Serving \cup {"close"}

\* A request enters the queue of instance s.
Enqueue(c, s) ==
  /\ Len(inbox[s]) < Capacity
  /\ inbox' = [inbox EXCEPT ![s] = Append(@, Own(c))]
  /\ fate' = [fate EXCEPT ![Own(c)] = "sent"]

\* sendto fails if there is no file or its socket is closed, and waits for room in the
\* queue.
CSend(c) ==
  /\ \/ Bound(path) /\ Enqueue(c, path) /\ CGoes(c, "sendto", "poll") /\ UNCHANGED target
     \/ /\ Bound(path) /\ Len(inbox[path]) = Capacity /\ CGoes(c, "sendto", "blocked")
        /\ target' = [target EXCEPT ![c] = path] /\ UNCHANGED <<inbox, fate>>
     \/ ~Bound(path) /\ CGoes(c, "sendto", "cleanup") /\ UNCHANGED <<target, inbox, fate>>
  /\ UNCHANGED <<path, spc, keep_running, inhand, rival, cpath, run, answers, got,
                 exit, signals>>

\* It waits on the socket it found, whatever becomes of the file, and looks the path up
\* again when that socket is closed.
CBlocked(c) ==
  /\ \/ Bound(target[c]) /\ Enqueue(c, target[c]) /\ CGoes(c, "blocked", "poll")
     \/ ~Bound(target[c]) /\ CGoes(c, "blocked", "sendto") /\ UNCHANGED <<inbox, fate>>
  /\ target' = [target EXCEPT ![c] = NoServer]
  /\ UNCHANGED <<path, spc, keep_running, inhand, rival, cpath, run, answers, got,
                 exit, signals>>

\* poll reports an answer, which recv takes.
CRecv(c) ==
  /\ CGoes(c, "poll", "cleanup") /\ answers[c] # <<>>
  /\ got' = [got EXCEPT ![c] = Head(answers[c])]
  /\ answers' = [answers EXCEPT ![c] = Tail(@)]
  /\ fate' = [fate EXCEPT ![Head(answers[c])] =
               IF Head(answers[c]) = Own(c) THEN "answered" ELSE "misdelivered"]
  /\ UNCHANGED <<serverVars, cpath, run, target, exit, signals>>

\* A faulty poll that waits for ever: only an answer ends it.
CTimeoutNever(c) ==
  /\ CGoes(c, "poll", "cleanup") /\ answers[c] # <<>>
  /\ UNCHANGED <<serverVars, cpath, run, target, answers, got, exit, fate, signals>>

\* poll times out.
CTimeout(c) ==
  /\ CGoes(c, "poll", "cleanup") /\ answers[c] = <<>>
  /\ UNCHANGED <<serverVars, cpath, run, target, answers, got, exit, fate, signals>>

\* A faulty main that returns the status of the answer as it is.
StatusRaw(c) == IF got[c] = NoRequest THEN 1 ELSE IF cmd[got[c]] \in Registered THEN 0 ELSE 3

\* main's exit status: 0 if there is an answer and it is OK.
Status(c) == IF got[c] # NoRequest /\ cmd[got[c]] \in Registered THEN 0 ELSE 1

\* A faulty client that removes its file only after an answer.
CCleanupShort(c) ==
  /\ CGoes(c, "cleanup", "ended") /\ exit' = [exit EXCEPT ![c] = Status(c)]
  /\ cpath' = [cpath EXCEPT ![c] = IF got[c] = NoRequest THEN @ ELSE 0]
  /\ answers' = [answers EXCEPT ![c] = <<>>]
  /\ UNCHANGED <<serverVars, run, target, got, fate, signals>>

\* The file is removed and the socket closed.  No answer arrives in between, so this is
\* one step.
CCleanup(c) ==
  /\ CGoes(c, "cleanup", "ended") /\ exit' = [exit EXCEPT ![c] = Status(c)]
  /\ cpath' = [cpath EXCEPT ![c] = 0] /\ answers' = [answers EXCEPT ![c] = <<>>]
  /\ UNCHANGED <<serverVars, run, target, got, fate, signals>>

Client(c) == CSend(c) \/ CBlocked(c) \/ CRecv(c) \/ CTimeout(c) \/ CCleanup(c)

\* SIGKILL: the file stays, the socket goes with its queue.
CKill(c) ==
  /\ cpc[c] \in HasSocket /\ signals < MaxSignals /\ signals' = signals + 1
  /\ cpc' = [cpc EXCEPT ![c] = "killed"] /\ answers' = [answers EXCEPT ![c] = <<>>]
  /\ target' = [target EXCEPT ![c] = NoServer]
  /\ UNCHANGED <<serverVars, cpath, run, got, exit, fate>>

-----------------------------------------------------------------------------
(* The specification. *)

Next ==
  \/ \E s \in Servers : SStart(s) \/ Server(s) \/ SStop(s) \/ SKill(s)
  \/ \E c \in Clients : CStart(c) \/ Client(c) \/ CKill(c)

Spec == Init /\ [][Next]_vars

\* The scheduler runs every process that is not blocked, and the time-out of poll
\* expires.  Nobody has to start, stop or kill a process.
FairSpec == Spec /\ (\A s \in Servers : WF_vars(Server(s)))
                 /\ (\A c \in Clients : WF_vars(Client(c)))

-----------------------------------------------------------------------------
(* Properties. *)

\* mgmtctl reports success only if the command it sent was carried out and this is
\* the answer to it, although several clients, instances, time-outs and signals
\* interleave and request_id is never set (mgmt_request_init).  The one exception: an
\* earlier process of the same pid gave up, and its late answer came here.
SuccessIsTrue ==
  \A c \in Clients :
    exit[c] = 0 => \/ fate[Own(c)] = "answered" /\ cmd[Own(c)] \in Registered
                   \/ \E n \in 1 .. run[c] - 1 : fate[<<c, n>>] = "misdelivered"

\* A command is carried out at most once: whatever becomes of the answer, a request
\* that was dispatched is never taken or dispatched again (mgmt_socket_process_one).
AtMostOnce ==
  [][\A r \in Requests :
       fate[r] \in Handled =>
         fate'[r] = fate[r] \/ fate'[r] \in {"answered", "misdelivered"}]_vars

\* An instance that never ran beside another one gets the socket file, even if a
\* killed instance left its own, and keeps it as long as it serves
\* (mgmt_socket_create, mgmt_socket_destroy).
Reachable ==
  \A s \in Servers :
    ~rival[s] => spc[s] # "in_use" /\ (spc[s] \in Serving => path = s)

\* Only a kill leaves a socket file behind: an instance removes its own in
\* mgmt_socket_destroy, mgmtctl on every way out of mgmt_send_command.
NoFileLeft ==
  /\ path # NoServer => spc[path] \in Alive \cup {"killed"}
  /\ \A c \in Clients : cpath[c] = run[c] /\ run[c] > 0 => cpc[c] \in HasSocket \cup {"killed"}

\* Every mgmtctl ends, with an answer or without one, even if the queue of the program
\* is full (sendto has no time-out) or the program ends or is killed meanwhile: a socket
\* is drained as long as it is open, and is closed in the end.
ClientEnds ==
  \A c \in Clients : (cpc[c] \in HasSocket) ~> (cpc[c] \in {"ended", "killed"})

=============================================================================
