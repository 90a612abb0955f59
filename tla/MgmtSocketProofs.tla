-------------------------- MODULE MgmtSocketProofs --------------------------
(***************************************************************************)
(* Proofs of the safety properties of MgmtSocket, for any number of        *)
(* instances, clients, uses of a pid and signals, any capacity of the      *)
(* queues and whatever commands are sent.                                  *)
(***************************************************************************)
EXTENDS MgmtSocket, TLAPS

\* Instances that are there at the same time know it.
Overlap ==
  \A s, t \in Servers : s # t /\ spc[s] \in Alive /\ spc[t] \in Alive => rival[s]

\* The file names the instance that has bound it, until that one removes it.
FileIsBound ==
  path # NoServer => spc[path] \in {"serve", "reply", "close", "unlink_end", "killed"}

\* An instance without a rival finds no file when it binds, and its own while it serves.
FileIsOwn ==
  \A s \in Servers :
    ~rival[s] => /\ spc[s] # "in_use"
                 /\ spc[s] = "bind" => path = NoServer
                 /\ spc[s] \in Serving => path = s

\* A process of mgmtctl that is there has a number.
Numbered ==
  /\ run \in [Clients -> Nat] /\ cpath \in [Clients -> Nat]
  /\ \A c \in Clients : cpc[c] # "off" => run[c] > 0

\* What is in the queue of an instance is waiting for it, and is there once.
InboxSent ==
  \A s \in Servers : \A i \in 1 .. Len(inbox[s]) : fate[inbox[s][i]] = "sent"

InboxOnce ==
  \A s, t \in Servers : \A i \in 1 .. Len(inbox[s]), j \in 1 .. Len(inbox[t]) :
    inbox[s][i] = inbox[t][j] => s = t /\ i = j

\* What an instance works on, or has answered, was handled; the answer went to the path
\* of the client it came from.
InhandHandled ==
  \A s \in Servers : /\ spc[s] = "reply" => inhand[s] # NoRequest
                     /\ inhand[s] # NoRequest => fate[inhand[s]] \in Handled

AnswersHandled ==
  \A c \in Clients : \A i \in 1 .. Len(answers[c]) :
    answers[c][i][1] = c /\ fate[answers[c][i]] \in Handled

\* A request that was not sent yet has no history.
NotSentYet ==
  \A c \in Clients : \A n \in 1 .. Runs[c] :
    n > run[c] \/ (n = run[c] /\ cpc[c] \in {"sendto", "blocked"}) => fate[<<c, n>>] = "none"

\* What a client has received is the answer to its own request, or a late one to an
\* earlier process of its pid.
GotIs(c) ==
  /\ got[c][1] = c
  /\ IF got[c] = Own(c) THEN fate[Own(c)] = "answered"
     ELSE got[c][2] \in 1 .. run[c] - 1 /\ fate[got[c]] = "misdelivered"

GotRight ==
  \A c \in Clients :
    /\ cpc[c] \in {"sendto", "blocked", "poll"} => got[c] = NoRequest
    /\ cpc[c] \in {"cleanup", "ended"} /\ got[c] # NoRequest => GotIs(c)
    /\ exit[c] # -1 => cpc[c] = "ended" /\ exit[c] = Status(c)

MInv ==
  /\ TypeOK /\ Numbered
  /\ Overlap /\ FileIsBound /\ FileIsOwn /\ NoFileLeft
  /\ InboxSent /\ InboxOnce /\ InhandHandled /\ AnswersHandled /\ NotSentYet /\ GotRight

-----------------------------------------------------------------------------
(* Requests and queues. *)

LEMMA RequestIs ==
  /\ \A c \in Clients : \A n \in 1 .. Runs[c] : <<c, n>> \in Requests
  /\ \A r \in Requests : /\ r[1] \in Clients /\ r[2] \in 1 .. Runs[r[1]]
                         /\ r = <<r[1], r[2]>> /\ r # NoRequest
BY DEF Requests, NoRequest

\* What the operations do to a queue of requests.
LEMMA EmptyQueue == << >> \in Seq(Requests) /\ Len(<< >>) = 0
OBVIOUS

LEMMA QueueIs ==
  ASSUME NEW q \in Seq(Requests)
  PROVE  Len(q) \in Nat /\ \A i \in 1 .. Len(q) : q[i] \in Requests
OBVIOUS

LEMMA TailIs ==
  ASSUME NEW q \in Seq(Requests), q # << >>
  PROVE  /\ Head(q) \in Requests /\ Head(q) = q[1] /\ 1 \in 1 .. Len(q)
         /\ Tail(q) \in Seq(Requests) /\ Len(Tail(q)) = Len(q) - 1
         /\ \A i \in 1 .. Len(Tail(q)) : Tail(q)[i] = q[i + 1] /\ i + 1 \in 1 .. Len(q)
OBVIOUS

LEMMA AppendIs ==
  ASSUME NEW q \in Seq(Requests), NEW r \in Requests
  PROVE  /\ Append(q, r) \in Seq(Requests) /\ Len(Append(q, r)) = Len(q) + 1
         /\ \A i \in 1 .. Len(q) : Append(q, r)[i] = q[i]
         /\ Append(q, r)[Len(q) + 1] = r
OBVIOUS

\* A process of mgmtctl that is there stands for a request.
LEMMA OwnIs ==
  ASSUME TypeOK, Numbered, NEW c \in Clients, cpc[c] # "off"
  PROVE  Own(c) \in Requests /\ Own(c)[1] = c /\ Own(c)[2] = run[c]
BY RequestIs, MgmtAssumption DEF TypeOK, Numbered, Own

\* A request that is about to be sent has no history.
LEMMA FreshOwn ==
  ASSUME TypeOK, Numbered, NotSentYet, NEW c \in Clients, cpc[c] \in {"sendto", "blocked"}
  PROVE  fate[Own(c)] = "none"
<1>1. Own(c) \in Requests /\ run[c] \in 1 .. Runs[c]
  BY OwnIs, RequestIs, Zenon
<1> QED
  BY <1>1, Zenon DEF NotSentYet, Own

LEMMA InitInv == Init => MInv
<1> SUFFICES ASSUME Init PROVE MInv
  OBVIOUS
<1> USE MgmtAssumption DEF Init
<1>1. TypeOK /\ Numbered
  BY EmptyQueue DEF TypeOK, Numbered, Servers
<1>2. Overlap /\ FileIsBound /\ FileIsOwn /\ NoFileLeft
  BY DEF Overlap, FileIsBound, FileIsOwn, NoFileLeft, Alive, Serving
<1>3. InboxSent /\ InboxOnce /\ InhandHandled /\ AnswersHandled /\ NotSentYet /\ GotRight
  BY RequestIs DEF InboxSent, InboxOnce, InhandHandled, AnswersHandled, NotSentYet, GotRight
<1> QED
  BY <1>1, <1>2, <1>3, Zenon DEF MInv

-----------------------------------------------------------------------------
(* What the steps do to the queues and to the history. *)

LEMMA EnqueueEffect ==
  ASSUME TypeOK, Numbered, NEW c \in Clients, NEW s \in Servers, cpc[c] # "off", Enqueue(c, s)
  PROVE  /\ inbox' \in [Servers -> Seq(Requests)]
         /\ \A t \in Servers : Len(inbox'[t]) <= Capacity
         /\ \A t \in Servers : t # s => inbox'[t] = inbox[t]
         /\ inbox'[s] = Append(inbox[s], Own(c))
         /\ fate' \in [Requests -> Handled \cup {"none", "sent"}]
         /\ \A r \in Requests : fate'[r] = IF r = Own(c) THEN "sent" ELSE fate[r]
<1>1. Own(c) \in Requests /\ inbox \in [Servers -> Seq(Requests)] /\ inbox[s] \in Seq(Requests)
  BY OwnIs, Zenon DEF TypeOK
<1>2. Append(inbox[s], Own(c)) \in Seq(Requests) /\ Len(Append(inbox[s], Own(c))) <= Capacity
  BY <1>1, AppendIs, QueueIs, MgmtAssumption DEF Enqueue
<1>3. inbox' = [inbox EXCEPT ![s] = Append(inbox[s], Own(c))]
  BY Zenon DEF Enqueue
<1>4. inbox' \in [Servers -> Seq(Requests)] /\ (\A t \in Servers : t # s => inbox'[t] = inbox[t])
        /\ inbox'[s] = Append(inbox[s], Own(c))
  BY <1>1, <1>2, <1>3, Zenon
<1>5. \A t \in Servers : Len(inbox'[t]) <= Capacity
  BY <1>2, <1>4, Zenon DEF TypeOK
<1>6. /\ fate' \in [Requests -> Handled \cup {"none", "sent"}]
      /\ \A r \in Requests : fate'[r] = IF r = Own(c) THEN "sent" ELSE fate[r]
  BY <1>1, Zenon DEF TypeOK, Enqueue
<1> QED
  BY <1>4, <1>5, <1>6, Zenon

\* sendto succeeds at once, succeeds after a wait, or does nothing to the queues.
LEMMA SendEffect ==
  ASSUME TypeOK, NEW c \in Clients, CSend(c) \/ CBlocked(c)
  PROVE  /\ \/ \E s \in Servers : Enqueue(c, s) /\ cpc' = [cpc EXCEPT ![c] = "poll"]
            \/ UNCHANGED <<inbox, fate>> /\ cpc' = [cpc EXCEPT ![c] = "blocked"]
            \/ UNCHANGED <<inbox, fate>> /\ cpc' = [cpc EXCEPT ![c] = "cleanup"] /\ cpc[c] = "sendto"
            \/ UNCHANGED <<inbox, fate>> /\ cpc' = [cpc EXCEPT ![c] = "sendto"]
         /\ cpc[c] \in {"sendto", "blocked"}
         /\ target' \in [Clients -> Servers \cup {NoServer}]
         /\ UNCHANGED <<path, spc, keep_running, inhand, rival, cpath, run, answers, got, exit, signals>>
<1> USE DEF TypeOK, CGoes, Bound
<1>1. CASE CSend(c)
  BY <1>1, ZenonT(30) DEF CSend
<1>2. CASE CBlocked(c)
  BY <1>2, Zenon DEF CBlocked
<1> QED
  BY <1>1, <1>2, Zenon

\* An instance takes the head of its queue.
LEMMA RecvEffect ==
  ASSUME TypeOK, NEW s \in Servers, SRecv(s)
  PROVE  /\ inbox[s] \in Seq(Requests) /\ inbox[s] # << >> /\ Head(inbox[s]) \in Requests
         /\ inbox' \in [Servers -> Seq(Requests)]
         /\ \A t \in Servers : Len(inbox'[t]) <= Capacity
         /\ \A t \in Servers : t # s => inbox'[t] = inbox[t]
         /\ inbox'[s] = Tail(inbox[s])
         /\ inhand' = [inhand EXCEPT ![s] = Head(inbox[s])]
         /\ fate' = [fate EXCEPT ![Head(inbox[s])] = "handled"]
<1>1. inbox[s] \in Seq(Requests) /\ inbox[s] # << >> /\ Len(inbox[s]) <= Capacity
  BY Zenon DEF TypeOK, SRecv
<1>2. Tail(inbox[s]) \in Seq(Requests) /\ Len(Tail(inbox[s])) <= Capacity
  BY <1>1, TailIs, QueueIs, MgmtAssumption
<1>3. inbox' = [inbox EXCEPT ![s] = Tail(inbox[s])]
  BY Zenon DEF SRecv
<1>4. /\ inbox' \in [Servers -> Seq(Requests)]
      /\ \A t \in Servers : t # s => inbox'[t] = inbox[t]
      /\ inbox'[s] = Tail(inbox[s])
  BY <1>2, <1>3, Zenon DEF TypeOK
<1>5. \A t \in Servers : Len(inbox'[t]) <= Capacity
  BY <1>2, <1>4, Zenon DEF TypeOK
<1> QED
  BY <1>1, <1>4, <1>5, TailIs, Zenon DEF SRecv

\* A socket goes with its queue.
LEMMA DropEffect ==
  ASSUME TypeOK, NEW s \in Servers, Dropped(s)
  PROVE  /\ inbox' \in [Servers -> Seq(Requests)]
         /\ \A t \in Servers : Len(inbox'[t]) <= Capacity
         /\ \A t \in Servers : t # s => inbox'[t] = inbox[t]
         /\ inbox'[s] = << >>
         /\ fate' \in [Requests -> Handled \cup {"none", "sent"}]
         /\ \A r \in Requests :
              IF \E i \in 1 .. Len(inbox[s]) : inbox[s][i] = r
                THEN fate'[r] = "none" ELSE fate'[r] = fate[r]
<1>1. /\ inbox' \in [Servers -> Seq(Requests)]
      /\ \A t \in Servers : t # s => inbox'[t] = inbox[t]
      /\ inbox'[s] = << >>
  BY EmptyQueue, Zenon DEF TypeOK, Dropped
<1>2. Len(<< >>) <= Capacity
  BY EmptyQueue, MgmtAssumption
<1>3. \A t \in Servers : Len(inbox'[t]) <= Capacity
  BY <1>1, <1>2, Zenon DEF TypeOK
<1>4. /\ fate' \in [Requests -> Handled \cup {"none", "sent"}]
      /\ \A r \in Requests :
           IF \E i \in 1 .. Len(inbox[s]) : inbox[s][i] = r
             THEN fate'[r] = "none" ELSE fate'[r] = fate[r]
  BY Zenon DEF TypeOK, Dropped
<1> QED
  BY <1>1, <1>3, <1>4, Zenon

\* An answer goes to the end of the queue of the client it is addressed to, or is lost.
LEMMA ReplyEffect ==
  ASSUME TypeOK, InhandHandled, NEW s \in Servers, SReply(s)
  PROVE  /\ inhand[s] \in Requests /\ inhand[s][1] \in Clients
         /\ answers' \in [Clients -> Seq(Requests)]
         /\ \A c \in Clients : c # inhand[s][1] => answers'[c] = answers[c]
         /\ answers'[inhand[s][1]] \in
              {answers[inhand[s][1]], Append(answers[inhand[s][1]], inhand[s])}
<1> DEFINE c == inhand[s][1]
<1>1. inhand[s] \in Requests /\ c \in Clients
  BY RequestIs, Zenon DEF SReply, SGoes, TypeOK, InhandHandled
<1>2. answers \in [Clients -> Seq(Requests)]
  BY Zenon DEF TypeOK
<1>3. Append(answers[c], inhand[s]) \in Seq(Requests)
  BY <1>1, <1>2, AppendIs, Zenon
<1>4. answers' \in {answers, [answers EXCEPT ![c] = Append(answers[c], inhand[s])]}
  BY Zenon DEF SReply, ReplyAddress
<1> QED
  BY <1>1, <1>2, <1>3, <1>4, Zenon

-----------------------------------------------------------------------------
(* What a step leaves alone. *)

\* The steps of an instance, those of its environment included.
SStep(s) == SStart(s) \/ Server(s) \/ SStop(s) \/ SKill(s)
CStep(c) == CStart(c) \/ Client(c) \/ CKill(c)

LEMMA ServerFrame ==
  ASSUME NEW s \in Servers, SStep(s)
  PROVE  UNCHANGED <<cpath, cpc, run, target, got, exit>>
BY Zenon
   DEF SStep, Server, SStart, SUnlink, SBind, SLeave, SRecv, SReply, SClose, SUnlinkEnd,
   SStop, SKill, clientVars

LEMMA ClientFrame ==
  ASSUME NEW c \in Clients, CStep(c)
  PROVE  UNCHANGED <<path, spc, keep_running, inhand, rival>>
BY Zenon
   DEF CStep, Client, CStart, CSend, CBlocked, CRecv, CTimeout, CCleanup, CKill, serverVars

-----------------------------------------------------------------------------
(* One lemma for each part of the invariant, with a step for each action that can
   disturb it. *)

\* The variables of the instances keep their types.
LEMMA TypeServer == ASSUME MInv, NEW s \in Servers, SStep(s) PROVE TypeOK' /\ Numbered'
<1> USE DEF SGoes
<1>0. TypeOK /\ InhandHandled /\ Numbered'
  BY ServerFrame, Zenon DEF Numbered, MInv
<1>1. CASE SStart(s)
  BY <1>0, <1>1, Zenon DEF TypeOK, Alive, SStart, clientVars
<1>2. CASE SUnlink(s)
  BY <1>0, <1>2, Zenon DEF TypeOK, Alive, SUnlink, clientVars
<1>3. CASE SLeave(s)
  BY <1>0, <1>3, Zenon DEF TypeOK, Alive, SLeave, clientVars
<1>4. CASE SUnlinkEnd(s)
  BY <1>0, <1>4, Zenon DEF TypeOK, Alive, SUnlinkEnd, clientVars
<1>5. CASE SBind(s)
  BY <1>0, <1>5, Zenon DEF TypeOK, Alive, Serving, SBind, clientVars
<1>6. CASE SRecv(s)
  BY <1>0, <1>6, RecvEffect, Zenon DEF TypeOK, SRecv, clientVars, Handled, Alive, Serving
<1>7. CASE SReply(s)
  BY <1>0, <1>7, ReplyEffect, Zenon DEF TypeOK, SReply, Alive, Serving
<1>8. CASE SClose(s)
  BY <1>0, <1>8, DropEffect, Zenon DEF TypeOK, SClose, clientVars, Alive
<1>9. CASE SStop(s)
  BY <1>0, <1>9, MgmtAssumption DEF TypeOK, SStop, clientVars
<1>10. CASE SKill(s)
  BY <1>0, <1>10, DropEffect, MgmtAssumption DEF TypeOK, SKill, clientVars
<1> QED
  BY <1>1, <1>2, <1>3, <1>4, <1>5, <1>6, <1>7, <1>8, <1>9, <1>10, Zenon DEF SStep, Server

\* And those of the clients.
LEMMA TypeClient == ASSUME MInv, NEW c \in Clients, CStep(c) PROVE TypeOK' /\ Numbered'
<1> USE MgmtAssumption DEF HasSocket, CGoes
<1>0. TypeOK /\ Numbered
  BY Zenon DEF MInv
<1>1. CASE CStart(c)
  BY <1>0, <1>1 DEF TypeOK, Numbered, CStart, serverVars
<1>2. CASE CSend(c) \/ CBlocked(c)
  <2> DEFINE Typed(i, f) == /\ i \in [Servers -> Seq(Requests)]
                            /\ \A t \in Servers : Len(i[t]) <= Capacity
                            /\ f \in [Requests -> Handled \cup {"none", "sent"}]
  <2>1. Typed(inbox', fate')
    <3>1. CASE UNCHANGED <<inbox, fate>>
      BY <1>0, <3>1, Zenon DEF TypeOK
    <3>2. ASSUME NEW s \in Servers, Enqueue(c, s) PROVE Typed(inbox', fate')
      BY <1>0, <1>2, <3>2, SendEffect, EnqueueEffect, Zenon
    <3>3. UNCHANGED <<inbox, fate>> \/ \E s \in Servers : Enqueue(c, s)
      BY <1>0, <1>2, SendEffect, Zenon
    <3> HIDE DEF Typed
    <3> QED
      BY <3>1, <3>2, <3>3, Zenon
  <2>2. cpc' \in [Clients -> HasSocket \cup {"off", "ended", "killed"}] 
          /\ \A d \in Clients : cpc'[d] # "off" => run[d] > 0
    BY <1>0, <1>2, SendEffect, ZenonT(30) DEF TypeOK, Numbered
  <2> QED
    BY <1>0, <1>2, <2>1, <2>2, SendEffect DEF TypeOK, Numbered
<1>3. CASE CRecv(c)
  BY <1>0, <1>3, TailIs, Zenon DEF TypeOK, Numbered, CRecv, serverVars, Handled
<1>4. CASE CTimeout(c)
  BY <1>0, <1>4, Zenon DEF TypeOK, Numbered, CTimeout, serverVars
<1>5. CASE CCleanup(c)
  BY <1>0, <1>5, EmptyQueue DEF TypeOK, Numbered, CCleanup, serverVars, Status
<1>6. CASE CKill(c)
  BY <1>0, <1>6, EmptyQueue DEF TypeOK, Numbered, CKill, serverVars
<1> QED
  BY <1>1, <1>2, <1>3, <1>4, <1>5, <1>6, Zenon DEF CStep, Client

\* An instance goes from place to place.
LEMMA Moves ==
  ASSUME TypeOK, NEW s \in Servers, SStep(s)
  PROVE  /\ \A t \in Servers : t # s => spc'[t] = spc[t]
         /\ spc'[s] \in Alive /\ spc[s] # "off" => spc[s] \in Alive
         /\ spc[s] = "off" /\ spc'[s] # "off" => SStart(s)
         /\ rival' = rival \/ SStart(s)
<1>1. spc \in [Servers -> Alive \cup {"off", "in_use", "ended", "killed"}]
  BY Zenon DEF TypeOK
<1>2. CASE SStart(s)
  BY <1>1, <1>2, Zenon DEF SStart, SGoes
<1>3. CASE SUnlink(s) \/ SBind(s) \/ SLeave(s) \/ SRecv(s) \/ SReply(s)
  BY <1>1, <1>3, Zenon DEF SUnlink, SBind, SLeave, SRecv, SReply, SGoes, Alive, Serving
<1>4. CASE SClose(s) \/ SUnlinkEnd(s) \/ SStop(s) \/ SKill(s)
  BY <1>1, <1>4, Zenon DEF SClose, SUnlinkEnd, SStop, SKill, SGoes, Alive, Serving
<1> QED
  BY <1>2, <1>3, <1>4, Zenon DEF SStep, Server

\* An instance that starts beside others, and they, are rivals from then on.
LEMMA OverlapStep == ASSUME MInv, NEW s \in Servers, SStep(s) PROVE Overlap'
<1>0. TypeOK /\ Overlap /\ rival \in [Servers -> BOOLEAN]
  BY Zenon DEF MInv, TypeOK
<1>1. CASE SStart(s)
  <2> DEFINE others == {t \in Servers : spc[t] \in Alive}
             overlap == IF others = {} THEN {} ELSE others \cup {s}
  <2>1. \A t \in Servers : rival'[t] <=> rival[t] \/ t \in overlap
    BY <1>1, Zenon DEF SStart
  <2> SUFFICES ASSUME NEW t \in Servers, NEW u \in Servers, t # u,
                      spc'[t] \in Alive, spc'[u] \in Alive
               PROVE  rival'[t]
    BY Zenon DEF Overlap
  <2>2. t \in others \/ u \in others
    BY <1>0, <1>1, Moves, Zenon
  <2>3. t \in others \cup {s}
    BY <1>0, <1>1, Moves, Zenon
  <2> QED
    BY <2>1, <2>2, <2>3, Zenon
<1>2. CASE ~SStart(s)
  <2>1. rival' = rival /\ \A t \in Servers : spc'[t] \in Alive => spc[t] \in Alive
    BY <1>0, <1>2, Moves, Zenon DEF Alive
  <2> QED
    BY <1>0, <2>1, Zenon DEF Overlap
<1> QED
  BY <1>1, <1>2, Zenon

\* Only the instance the file names changes its place while the file is there, and it
\* removes the file before it ends.
LEMMA FileBoundStep == ASSUME MInv, NEW s \in Servers, SStep(s) PROVE FileIsBound'
<1>0. FileIsBound /\ path \in Servers \cup {NoServer}
        /\ spc \in [Servers -> Alive \cup {"off", "in_use", "ended", "killed"}]
  BY Zenon DEF MInv, TypeOK
<1> USE <1>0 DEF FileIsBound, SGoes
<1>1. CASE SStart(s) \/ SUnlink(s) \/ SUnlinkEnd(s)
  BY <1>1, Zenon DEF SStart, SUnlink, SUnlinkEnd
<1>2. CASE SBind(s)
  BY <1>2, Zenon DEF SBind
<1>3. CASE SLeave(s) \/ SRecv(s) \/ SReply(s) \/ SClose(s)
  BY <1>3 DEF SLeave, SRecv, SReply, SClose
<1>4. CASE SStop(s) \/ SKill(s)
  BY <1>4, Zenon DEF SStop, SKill
<1> QED
  BY <1>1, <1>2, <1>3, <1>4, Zenon DEF SStep, Server

\* Nobody else binds or removes the file of an instance that is alone.
LEMMA FileOwnStep == ASSUME MInv, NEW s \in Servers, SStep(s) PROVE FileIsOwn'
<1>0. TypeOK /\ Overlap /\ FileIsOwn /\ rival \in [Servers -> BOOLEAN]
  BY Zenon DEF MInv, TypeOK
<1> SUFFICES ASSUME NEW u \in Servers, ~rival'[u]
             PROVE  /\ spc'[u] # "in_use"
                    /\ spc'[u] = "bind" => path' = NoServer
                    /\ spc'[u] \in Serving => path' = u
  BY Zenon DEF FileIsOwn
<1>1. ~rival[u]
  BY <1>0, Moves, Zenon DEF SStart
<1>2. /\ spc[u] # "in_use"
      /\ spc[u] = "bind" => path = NoServer
      /\ spc[u] \in Serving => path = u
  BY <1>0, <1>1, Zenon DEF FileIsOwn
<1>3. CASE u = s
  <2> USE <1>0, <1>2, <1>3 DEF TypeOK, SGoes, Serving
  <2>1. CASE SStart(s) \/ SUnlink(s) \/ SBind(s) \/ SUnlinkEnd(s)
    BY <2>1, Zenon DEF SStart, SUnlink, SBind, SUnlinkEnd
  <2>2. CASE SLeave(s) \/ SRecv(s) \/ SReply(s) \/ SClose(s)
    BY <2>2, Zenon DEF SLeave, SRecv, SReply, SClose
  <2>3. CASE SStop(s) \/ SKill(s)
    BY <2>3, Zenon DEF SStop, SKill
  <2> QED
    BY <2>1, <2>2, <2>3, Zenon DEF SStep, Server
<1>4. CASE u # s
  <2>1. spc'[u] = spc[u]
    BY <1>0, <1>4, Moves, Zenon
  <2>2. CASE path' = path
    BY <1>2, <2>1, <2>2, Zenon
  <2>3. CASE path' # path
    <3>1. spc[s] \in Alive
      BY <2>3, Zenon
         DEF SStep, Server, SStart, SUnlink, SBind, SLeave, SRecv, SReply, SClose,
         SUnlinkEnd, SStop, SKill, SGoes, Alive
    <3>2. spc[u] \notin Alive
      BY <1>0, <1>1, <1>4, <3>1, Zenon DEF Overlap
    <3> QED
      BY <1>2, <2>1, <3>2, Zenon DEF Alive, Serving
  <2> QED
    BY <2>2, <2>3, Zenon
<1> QED
  BY <1>3, <1>4, Zenon

\* mgmtctl leaves no file behind either; what an instance does to the file is FileIsBound.
LEMMA NoFileLeftClient == ASSUME MInv, NEW c \in Clients, CStep(c) PROVE NoFileLeft'
<1>0. NoFileLeft /\ TypeOK /\ Numbered /\ UNCHANGED <<path, spc>>
  BY ClientFrame, Zenon DEF MInv
<1>1. cpc \in [Clients -> HasSocket \cup {"off", "ended", "killed"}]
        /\ run \in [Clients -> Nat] /\ cpath \in [Clients -> Nat]
  BY <1>0, Zenon DEF TypeOK, Numbered
<1> USE <1>0, <1>1 DEF NoFileLeft, HasSocket, CGoes
<1>2. CASE CStart(c)
  BY <1>2, Zenon DEF CStart
<1>3. CASE CSend(c) \/ CBlocked(c)
  BY <1>3, SendEffect, Zenon
<1>4. CASE CRecv(c) \/ CTimeout(c)
  BY <1>4, Zenon DEF CRecv, CTimeout
<1>5. CASE CCleanup(c)
  BY <1>5 DEF CCleanup
<1>6. CASE CKill(c)
  BY <1>6, Zenon DEF CKill
<1> QED
  BY <1>2, <1>3, <1>4, <1>5, <1>6, Zenon DEF CStep, Client

LEMMA NoFileLeftServer == ASSUME MInv, NEW s \in Servers, SStep(s) PROVE NoFileLeft'
<1>1. NoFileLeft /\ UNCHANGED <<cpath, cpc, run>>
  BY ServerFrame, Zenon DEF MInv
<1>2. FileIsBound'
  BY FileBoundStep, Zenon
<1> QED
  BY <1>1, <1>2, Zenon DEF NoFileLeft, FileIsBound, Alive, Serving

-----------------------------------------------------------------------------
(* The history of a request. *)

\* An instance changes the history of a request only if the request waits for it.
LEMMA FateServer ==
  ASSUME MInv, NEW s \in Servers, SStep(s)
  PROVE  \A r \in Requests : fate'[r] = fate[r] \/ (fate[r] = "sent" /\ fate'[r] \in {"handled", "none"})
<1>0. TypeOK /\ InboxSent /\ fate \in [Requests -> Handled \cup {"none", "sent"}]
  BY Zenon DEF MInv, TypeOK
<1>1. CASE SRecv(s)
  <2>1. fate[Head(inbox[s])] = "sent"
    BY <1>0, <1>1, RecvEffect, TailIs DEF InboxSent
  <2> QED
    BY <1>0, <1>1, <2>1, RecvEffect, Zenon
<1>2. CASE SClose(s) \/ SKill(s)
  <2>1. Dropped(s)
    BY <1>2, Zenon DEF SClose, SKill
  <2> QED
    BY <1>0, <2>1, DropEffect DEF InboxSent
<1>3. CASE UNCHANGED fate
  BY <1>3, Zenon
<1> QED
  BY <1>1, <1>2, <1>3, Zenon
     DEF SStep, Server, SStart, SUnlink, SBind, SLeave, SReply, SUnlinkEnd, SStop

\* A client sends its own request, which has no history, and receives the head of its
\* queue.
LEMMA FateClient ==
  ASSUME MInv, NEW c \in Clients, CStep(c)
  PROVE  \A r \in Requests :
           \/ fate'[r] = fate[r]
           \/ /\ r = Own(c) /\ fate[r] = "none" /\ fate'[r] = "sent" /\ cpc'[c] = "poll"
              /\ cpc[c] \in {"sendto", "blocked"}
           \/ /\ CRecv(c) /\ r = Head(answers[c]) /\ r[1] = c /\ fate[r] \in Handled
              /\ fate'[r] = IF r = Own(c) THEN "answered" ELSE "misdelivered"
<1>0. TypeOK /\ Numbered /\ AnswersHandled /\ NotSentYet
        /\ fate \in [Requests -> Handled \cup {"none", "sent"}]
        /\ cpc \in [Clients -> HasSocket \cup {"off", "ended", "killed"}]
  BY Zenon DEF MInv, TypeOK
<1>1. CASE CSend(c) \/ CBlocked(c)
  <2>1. cpc[c] \in {"sendto", "blocked"}
    BY <1>0, <1>1, SendEffect, Zenon
  <2>3. fate[Own(c)] = "none"
    BY <1>0, <2>1, FreshOwn, Zenon
  <2>4. UNCHANGED <<inbox, fate>> \/ \E s \in Servers : Enqueue(c, s) /\ cpc' = [cpc EXCEPT ![c] = "poll"]
    BY <1>0, <1>1, SendEffect, Zenon
  <2> QED
    BY <1>0, <2>1, <2>3, <2>4, EnqueueEffect, Zenon
<1>2. CASE CRecv(c)
  <2>1. answers[c] \in Seq(Requests) /\ answers[c] # << >>
    BY <1>0, <1>2, Zenon DEF TypeOK, CRecv
  <2>2. Head(answers[c])[1] = c /\ fate[Head(answers[c])] \in Handled /\ Head(answers[c]) \in Requests
    BY <1>0, <2>1, TailIs DEF AnswersHandled
  <2> QED
    BY <1>0, <1>2, <2>2, Zenon DEF CRecv
<1>3. CASE UNCHANGED fate
  BY <1>3, Zenon
<1> QED
  BY <1>1, <1>2, <1>3, Zenon DEF CStep, Client, CStart, CTimeout, CCleanup, CKill

\* What was handled stays handled.
LEMMA HandledStays ==
  ASSUME MInv, [Next]_vars
  PROVE  \A r \in Requests : fate[r] \in Handled => fate'[r] \in Handled
           /\ (fate'[r] = fate[r] \/ fate'[r] \in {"answered", "misdelivered"})
<1>1. ASSUME NEW s \in Servers, SStep(s)
      PROVE  \A r \in Requests : fate[r] \in Handled => fate'[r] = fate[r]
  BY <1>1, FateServer, Zenon DEF Handled
<1>2. ASSUME NEW c \in Clients, CStep(c)
      PROVE  \A r \in Requests : fate[r] \in Handled => fate'[r] \in Handled
               /\ (fate'[r] = fate[r] \/ fate'[r] \in {"answered", "misdelivered"})
  BY <1>2, FateClient, Zenon DEF Handled
<1>3. CASE UNCHANGED vars
  BY <1>3, Zenon DEF vars
<1> QED
  BY <1>1, <1>2, <1>3, Zenon DEF Next, SStep, CStep

\* The queues of the instances: a request enters when it has no history, and leaves with
\* a history of another kind.
LEMMA InboxServer == ASSUME MInv, NEW s \in Servers, SStep(s) PROVE InboxSent' /\ InboxOnce'
<1>0. TypeOK /\ InboxSent /\ InboxOnce /\ inbox \in [Servers -> Seq(Requests)]
        /\ fate \in [Requests -> Handled \cup {"none", "sent"}]
  BY Zenon DEF MInv, TypeOK
<1>q. \A t \in Servers : Len(inbox[t]) \in Nat /\ \A i \in 1 .. Len(inbox[t]) : inbox[t][i] \in Requests
  BY <1>0, QueueIs, Zenon
<1>1. CASE SRecv(s)
  <2> DEFINE q == inbox[s]
  <2>1. q \in Seq(Requests) /\ q # << >>
    BY <1>1, <1>0, RecvEffect, Zenon
  <2>2. Head(q) = q[1] /\ 1 \in 1 .. Len(q) /\ Len(Tail(q)) = Len(q) - 1
          /\ \A i \in 1 .. Len(Tail(q)) : Tail(q)[i] = q[i + 1] /\ i + 1 \in 1 .. Len(q)
    BY <2>1, TailIs, Zenon
  <2>3. inbox'[s] = Tail(q) /\ \A t \in Servers : t # s => inbox'[t] = inbox[t]
    BY <1>0, <1>1, RecvEffect
  \* Each position is one of before, and none of them is that of the head., Zenon
  <2>4. ASSUME NEW t \in Servers, NEW i \in 1 .. Len(inbox'[t])
        PROVE  \E j \in 1 .. Len(inbox[t]) : /\ inbox'[t][i] = inbox[t][j]
                                             /\ j = IF t = s THEN i + 1 ELSE i
    BY <2>2, <2>3, Zenon
  <2>5. InboxOnce'
    <3> SUFFICES ASSUME NEW t \in Servers, NEW u \in Servers,
                        NEW i \in 1 .. Len(inbox'[t]), NEW j \in 1 .. Len(inbox'[u]),
                        inbox'[t][i] = inbox'[u][j]
                 PROVE  t = u /\ i = j
      BY Zenon DEF InboxOnce
    <3>1. PICK k \in 1 .. Len(inbox[t]) : inbox'[t][i] = inbox[t][k] /\ k = IF t = s THEN i + 1 ELSE i
      BY <2>4, Zenon
    <3>2. PICK l \in 1 .. Len(inbox[u]) : inbox'[u][j] = inbox[u][l] /\ l = IF u = s THEN j + 1 ELSE j
      BY <2>4, Zenon
    <3>0. inbox[t][k] = inbox[u][l]
      BY <3>1, <3>2, Zenon
    <3>3. t = u /\ k = l
      BY <1>0, <3>0 DEF InboxOnce
    <3>4. i \in Int /\ j \in Int
      OBVIOUS
    <3> QED
      BY <3>1, <3>2, <3>3, <3>4
  <2>6. InboxSent'
    <3> SUFFICES ASSUME NEW t \in Servers, NEW i \in 1 .. Len(inbox'[t])
                 PROVE  fate'[inbox'[t][i]] = "sent"
      BY Zenon DEF InboxSent
    <3>1. PICK j \in 1 .. Len(inbox[t]) : inbox'[t][i] = inbox[t][j] /\ j = IF t = s THEN i + 1 ELSE i
      BY <2>4, Zenon
    <3>2. t # s \/ j # 1
      BY <3>1
    <3>3. inbox[t][j] # Head(q)
      BY <1>0, <2>2, <3>2 DEF InboxOnce
    <3>4. fate'[inbox[t][j]] = fate[inbox[t][j]]
      BY <1>0, <1>1, <1>q, <3>3, RecvEffect
    <3> QED
      BY <1>0, <3>1, <3>4, Zenon DEF InboxSent
  <2> QED
    BY <2>5, <2>6, Zenon
<1>2. CASE SClose(s) \/ SKill(s)
  <2>1. Dropped(s)
    BY <1>2, Zenon DEF SClose, SKill
  <2>2. inbox'[s] = << >> /\ \A t \in Servers : t # s => inbox'[t] = inbox[t]
    BY <1>0, <2>1, DropEffect, Zenon
  <2>3. InboxOnce'
    BY <1>0, <2>2, EmptyQueue DEF InboxOnce
  <2>4. ASSUME NEW t \in Servers, NEW i \in 1 .. Len(inbox'[t])
        PROVE  fate'[inbox'[t][i]] = "sent"
    <3>1. t # s /\ inbox'[t] = inbox[t]
      BY <2>2, EmptyQueue
    <3>2. inbox[t][i] \in Requests /\ ~ \E j \in 1 .. Len(inbox[s]) : inbox[s][j] = inbox[t][i]
      BY <1>0, <1>q, <3>1, Zenon DEF InboxOnce
    <3>3. fate'[inbox[t][i]] = fate[inbox[t][i]]
      <4> HIDE DEF Dropped
      <4>1. \A r \in Requests : IF \E j \in 1 .. Len(inbox[s]) : inbox[s][j] = r
                               THEN fate'[r] = "none" ELSE fate'[r] = fate[r]
        BY <1>0, <2>1, DropEffect, Zenon
      <4> QED
        BY <3>2, <4>1, Zenon
    <3> QED
      BY <1>0, <3>1, <3>3, Zenon DEF InboxSent
  <2> QED
    BY <2>3, <2>4, Zenon DEF InboxSent
<1>3. CASE UNCHANGED <<inbox, fate>>
  BY <1>0, <1>3 DEF InboxSent, InboxOnce
<1> QED
  BY <1>1, <1>2, <1>3, Zenon
     DEF SStep, Server, SStart, SUnlink, SBind, SLeave, SReply, SUnlinkEnd, SStop

LEMMA InboxClient == ASSUME MInv, NEW c \in Clients, CStep(c) PROVE InboxSent' /\ InboxOnce'
<1>0. TypeOK /\ Numbered /\ InboxSent /\ InboxOnce /\ NotSentYet /\ inbox \in [Servers -> Seq(Requests)]
  BY Zenon DEF MInv, TypeOK
<1>q. \A t \in Servers : Len(inbox[t]) \in Nat /\ \A i \in 1 .. Len(inbox[t]) : inbox[t][i] \in Requests
  BY <1>0, QueueIs, Zenon
<1>1. CASE CSend(c) \/ CBlocked(c)
  <2>1. CASE UNCHANGED <<inbox, fate>>
    BY <1>0, <2>1 DEF InboxSent, InboxOnce
  <2>2. ASSUME NEW s \in Servers, Enqueue(c, s) PROVE InboxSent' /\ InboxOnce'
    <3>1. Own(c) \in Requests /\ cpc[c] # "off"
      BY <1>0, <1>1, SendEffect, OwnIs, Zenon
    <3>2. /\ \A t \in Servers : t # s => inbox'[t] = inbox[t]
          /\ inbox'[s] = Append(inbox[s], Own(c))
          /\ \A r \in Requests : fate'[r] = IF r = Own(c) THEN "sent" ELSE fate[r]
      BY <1>0, <2>2, <3>1, EnqueueEffect, Zenon
    <3>3. fate[Own(c)] # "sent"
      BY <1>0, <1>1, SendEffect, FreshOwn, Zenon
    <3>4. \A t \in Servers : \A i \in 1 .. Len(inbox[t]) : inbox[t][i] # Own(c)
      BY <1>0, <3>3, Zenon DEF InboxSent
    <3>5. /\ inbox[s] \in Seq(Requests) /\ Len(inbox'[s]) = Len(inbox[s]) + 1
          /\ \A i \in 1 .. Len(inbox[s]) : inbox'[s][i] = inbox[s][i]
          /\ inbox'[s][Len(inbox[s]) + 1] = Own(c)
      BY <1>0, <3>1, <3>2, AppendIs
    <3>6. ASSUME NEW t \in Servers, NEW i \in 1 .. Len(inbox'[t])
          PROVE  \/ i \in 1 .. Len(inbox[t]) /\ inbox'[t][i] = inbox[t][i]
                 \/ t = s /\ i = Len(inbox[s]) + 1 /\ inbox'[t][i] = Own(c)
      BY <1>q, <3>2, <3>5
    <3>7. InboxSent'
      <4> SUFFICES ASSUME NEW t \in Servers, NEW i \in 1 .. Len(inbox'[t])
                   PROVE  fate'[inbox'[t][i]] = "sent"
        BY Zenon DEF InboxSent
      <4>1. CASE i \in 1 .. Len(inbox[t]) /\ inbox'[t][i] = inbox[t][i]
        BY <1>0, <1>q, <3>2, <4>1, Zenon DEF InboxSent
      <4>2. CASE inbox'[t][i] = Own(c)
        BY <3>1, <3>2, <4>2, Zenon
      <4> QED
        BY <3>6, <4>1, <4>2, Zenon
    <3>8. InboxOnce'
      <4> SUFFICES ASSUME NEW t \in Servers, NEW u \in Servers,
                          NEW i \in 1 .. Len(inbox'[t]), NEW j \in 1 .. Len(inbox'[u]),
                          inbox'[t][i] = inbox'[u][j]
                   PROVE  t = u /\ i = j
        BY Zenon DEF InboxOnce
      <4>1. CASE i \in 1 .. Len(inbox[t]) /\ inbox'[t][i] = inbox[t][i]
                   /\ j \in 1 .. Len(inbox[u]) /\ inbox'[u][j] = inbox[u][j]
        <5>1. inbox[t][i] = inbox[u][j]
          BY <4>1, Zenon
        <5> QED
          BY <1>0, <4>1, <5>1 DEF InboxOnce
      <4>2. CASE inbox'[t][i] = Own(c)
        <5>1. t = s /\ i = Len(inbox[s]) + 1
          BY <3>4, <3>6, <4>2, Zenon
        <5>2. u = s /\ j = Len(inbox[s]) + 1
          BY <3>4, <3>6, <4>2, Zenon
        <5> QED
          BY <5>1, <5>2, Zenon
      <4> QED
        BY <3>6, <4>1, <4>2, Zenon
    <3> QED
      BY <3>7, <3>8, Zenon
  <2>3. UNCHANGED <<inbox, fate>> \/ \E s \in Servers : Enqueue(c, s)
    BY <1>0, <1>1, SendEffect, Zenon
  <2> QED
    BY <2>1, <2>2, <2>3, Zenon
<1>2. CASE UNCHANGED inbox
  <2>1. ASSUME NEW t \in Servers, NEW i \in 1 .. Len(inbox[t]) PROVE fate'[inbox[t][i]] = "sent"
    <3>1. inbox[t][i] \in Requests /\ fate[inbox[t][i]] = "sent"
      BY <1>0, <1>q, Zenon DEF InboxSent
    <3> QED
      BY <3>1, FateClient, Zenon DEF Handled
  <2> QED
    BY <1>0, <1>2, <2>1 DEF InboxSent, InboxOnce
<1> QED
  BY <1>1, <1>2, Zenon
     DEF CStep, Client, CStart, CRecv, CTimeout, CCleanup, CKill, serverVars

\* What is in hand and what is in the queues of the clients was handled, and stays so.
LEMMA HandledServer == ASSUME MInv, NEW s \in Servers, SStep(s) PROVE InhandHandled' /\ AnswersHandled'
<1>0. TypeOK /\ InhandHandled /\ AnswersHandled /\ [Next]_vars
        /\ inhand \in [Servers -> Requests \cup {NoRequest}]
        /\ answers \in [Clients -> Seq(Requests)]
        /\ spc \in [Servers -> Alive \cup {"off", "in_use", "ended", "killed"}]
  BY Zenon DEF MInv, TypeOK, Next, SStep
<1>1. \A r \in Requests : fate[r] \in Handled => fate'[r] \in Handled
  BY <1>0, HandledStays, Zenon
<1>2. \A c \in Clients : \A i \in 1 .. Len(answers[c]) :
        answers[c][i] \in Requests /\ answers[c][i][1] = c /\ fate'[answers[c][i]] \in Handled
  BY <1>0, <1>1, QueueIs, Zenon DEF AnswersHandled
<1>3. \A t \in Servers : inhand[t] # NoRequest => fate'[inhand[t]] \in Handled
  BY <1>0, <1>1, Zenon DEF InhandHandled
<1>4. CASE SRecv(s)
  <2>1. fate'[Head(inbox[s])] = "handled" /\ Head(inbox[s]) # NoRequest /\ answers' = answers
    BY <1>0, <1>4, RecvEffect, RequestIs, Zenon DEF SRecv, clientVars, TypeOK
  <2>2. \A t \in Servers : inhand'[t] = IF t = s THEN Head(inbox[s]) ELSE inhand[t]
    BY <1>0, <1>4, RecvEffect, Zenon
  <2>3. \A t \in Servers : t # s => spc'[t] = spc[t]
    BY <1>0, Moves, Zenon
  <2> QED
    BY <1>0, <1>2, <1>3, <2>1, <2>2, <2>3 DEF InhandHandled, AnswersHandled, Handled
<1>5. CASE SReply(s)
  <2> DEFINE c == inhand[s][1]
  <2>1. inhand[s] \in Requests /\ c \in Clients /\ fate'[inhand[s]] \in Handled
    BY <1>0, <1>3, <1>5, ReplyEffect, RequestIs, Zenon
  <2>2. InhandHandled'
    BY <1>0, <1>3, <1>5, Zenon DEF SReply, SGoes, InhandHandled
  <2>3. ASSUME NEW d \in Clients, NEW i \in 1 .. Len(answers'[d])
        PROVE  answers'[d][i][1] = d /\ fate'[answers'[d][i]] \in Handled
    <3>1. CASE answers'[d] = answers[d]
      BY <1>2, <3>1, Zenon
    <3>2. CASE d = c /\ answers'[d] = Append(answers[d], inhand[s])
      <4>1. Len(answers[d]) \in Nat /\ (i \in 1 .. Len(answers[d]) \/ i = Len(answers[d]) + 1)
        BY <1>0, <2>1, <3>2, AppendIs, QueueIs
      <4>2. CASE i \in 1 .. Len(answers[d])
        BY <1>0, <1>2, <2>1, <3>2, <4>2, AppendIs
      <4>3. CASE i = Len(answers[d]) + 1
        BY <1>0, <2>1, <3>2, <4>3, AppendIs
      <4> QED
        BY <4>1, <4>2, <4>3, Zenon
    <3> QED
      BY <1>0, <1>5, <3>1, <3>2, ReplyEffect, Zenon
  <2> QED
    BY <2>2, <2>3, Zenon DEF AnswersHandled
<1>6. CASE ~SRecv(s) /\ ~SReply(s)
  <2>1. \/ UNCHANGED <<inhand, answers>> /\ spc'[s] # "reply"
        \/ UNCHANGED <<inhand, answers, spc>>
    BY <1>0, <1>6, Zenon
       DEF SStep, Server, SStart, SUnlink, SBind, SLeave, SClose, SUnlinkEnd, SStop, SKill,
       SGoes, clientVars
  <2> QED
    BY <1>0, <1>2, <1>3, <2>1, Moves, Zenon DEF InhandHandled, AnswersHandled
<1> QED
  BY <1>4, <1>5, <1>6, Zenon

LEMMA HandledClient == ASSUME MInv, NEW c \in Clients, CStep(c) PROVE InhandHandled' /\ AnswersHandled'
<1>0. TypeOK /\ InhandHandled /\ AnswersHandled /\ [Next]_vars
        /\ inhand \in [Servers -> Requests \cup {NoRequest}]
        /\ answers \in [Clients -> Seq(Requests)]
  BY Zenon DEF MInv, TypeOK, Next, CStep
<1>1. \A r \in Requests : fate[r] \in Handled => fate'[r] \in Handled
  BY <1>0, HandledStays, Zenon
<1>2. \A d \in Clients : \A i \in 1 .. Len(answers[d]) :
        answers[d][i] \in Requests /\ answers[d][i][1] = d /\ fate'[answers[d][i]] \in Handled
  BY <1>0, <1>1, QueueIs, Zenon DEF AnswersHandled
<1>3. InhandHandled'
  BY <1>0, <1>1, ClientFrame, Zenon DEF InhandHandled
<1>4. /\ \A d \in Clients : d # c => answers'[d] = answers[d]
      /\ \/ answers'[c] = answers[c]
         \/ answers'[c] = << >>
         \/ answers[c] # << >> /\ answers'[c] = Tail(answers[c])
  BY <1>0, Zenon DEF CStep, Client, CStart, CSend, CBlocked, CRecv, CTimeout, CCleanup,
     CKill, serverVars
<1>5. AnswersHandled'
  <2> SUFFICES ASSUME NEW d \in Clients, NEW i \in 1 .. Len(answers'[d])
               PROVE  answers'[d][i][1] = d /\ fate'[answers'[d][i]] \in Handled
    BY Zenon DEF AnswersHandled
  <2>1. \E j \in 1 .. Len(answers[d]) : answers'[d][i] = answers[d][j]
    <3>1. CASE answers'[d] = answers[d]
      BY <3>1, Zenon
    <3>2. CASE answers'[d] = << >>
      BY <3>2, EmptyQueue
    <3>3. CASE answers[d] # << >> /\ answers'[d] = Tail(answers[d])
      BY <1>0, <3>3, TailIs
    <3> QED
      BY <1>4, <3>1, <3>2, <3>3, Zenon
  <2> QED
    BY <1>2, <2>1
<1> QED
  BY <1>3, <1>5, Zenon

\* A request has no history before it is sent.
LEMMA NotSentServer == ASSUME MInv, NEW s \in Servers, SStep(s) PROVE NotSentYet'
<1>1. NotSentYet /\ UNCHANGED <<cpc, run>>
  BY ServerFrame, Zenon DEF MInv
<1>2. \A r \in Requests : fate[r] = "none" => fate'[r] = "none"
  BY FateServer, Zenon
<1> QED
  BY <1>1, <1>2, RequestIs, Zenon DEF NotSentYet

LEMMA NotSentClient == ASSUME MInv, NEW c \in Clients, CStep(c) PROVE NotSentYet'
<1>0. TypeOK /\ Numbered /\ NotSentYet /\ run \in [Clients -> Nat]
        /\ cpc \in [Clients -> HasSocket \cup {"off", "ended", "killed"}]
  BY Zenon DEF MInv, TypeOK, Numbered
<1> SUFFICES ASSUME NEW d \in Clients, NEW n \in 1 .. Runs[d],
                    n > run'[d] \/ (n = run'[d] /\ cpc'[d] \in {"sendto", "blocked"})
             PROVE  fate'[<<d, n>>] = "none"
  BY Zenon DEF NotSentYet
<1>1. n > run[d] \/ (n = run[d] /\ cpc[d] \in {"sendto", "blocked"})
  <2>1. CASE CStart(c)
    BY <1>0, <2>1 DEF CStart
  <2>2. CASE CSend(c) \/ CBlocked(c)
    BY <1>0, <2>2, SendEffect, Zenon
  <2>3. CASE CRecv(c) \/ CTimeout(c) \/ CCleanup(c) \/ CKill(c)
    BY <1>0, <2>3, Zenon DEF CRecv, CTimeout, CCleanup, CKill, CGoes
  <2> QED
    BY <2>1, <2>2, <2>3, Zenon DEF CStep, Client
<1>2. fate[<<d, n>>] = "none" /\ <<d, n>> \in Requests
  BY <1>0, <1>1, RequestIs, Zenon DEF NotSentYet
<1>3. CASE fate'[<<d, n>>] = fate[<<d, n>>]
  BY <1>2, <1>3, Zenon
<1>4. CASE <<d, n>> = Own(c) /\ cpc'[c] = "poll" /\ cpc[c] \in {"sendto", "blocked"}
  <2>1. d = c /\ n = run[c]
    BY <1>4, Zenon DEF Own
  <2>2. run' = run
    BY <1>4, Zenon
       DEF CStep, Client, CStart, CSend, CBlocked, CRecv, CTimeout, CCleanup, CKill
  <2> QED
    BY <1>0, <1>4, <2>1, <2>2
<1> QED
  BY <1>2, <1>3, <1>4, FateClient DEF Handled

\* What a client has got stays what it is while instances and other clients go on.
LEMMA GotServer == ASSUME MInv, NEW s \in Servers, SStep(s) PROVE GotRight'
<1>0. TypeOK /\ Numbered /\ GotRight /\ UNCHANGED <<cpc, run, got, exit>>
        /\ got \in [Clients -> Requests \cup {NoRequest}]
  BY ServerFrame, Zenon DEF MInv, TypeOK
<1>1. ASSUME NEW c \in Clients, got[c] # NoRequest, GotIs(c) PROVE GotIs(c)'
  <2>1. fate'[got[c]] = fate[got[c]]
    BY <1>0, <1>1, FateServer, Zenon DEF GotIs
  <2> QED
    BY <1>0, <1>1, <2>1, Zenon DEF GotIs, Own
<1> QED
  BY <1>0, <1>1, Zenon DEF GotRight, Status

\* It gets an answer once, and reports what that answer says.
LEMMA GotClient == ASSUME MInv, NEW c \in Clients, CStep(c) PROVE GotRight'
<1>0. TypeOK /\ Numbered /\ GotRight /\ NotSentYet
        /\ got \in [Clients -> Requests \cup {NoRequest}] /\ run \in [Clients -> Nat]
        /\ exit \in [Clients -> {-1, 0, 1}]
        /\ cpc \in [Clients -> HasSocket \cup {"off", "ended", "killed"}]
  BY Zenon DEF MInv, TypeOK, Numbered
<1> SUFFICES ASSUME NEW d \in Clients
             PROVE  /\ cpc'[d] \in {"sendto", "blocked", "poll"} => got'[d] = NoRequest
                    /\ cpc'[d] \in {"cleanup", "ended"} /\ got'[d] # NoRequest => GotIs(d)'
                    /\ exit'[d] # -1 => cpc'[d] = "ended" /\ exit'[d] = Status(d)'
  BY Zenon DEF GotRight
<1>g. /\ cpc[d] \in {"sendto", "blocked", "poll"} => got[d] = NoRequest
      /\ cpc[d] \in {"cleanup", "ended"} /\ got[d] # NoRequest => GotIs(d)
      /\ exit[d] # -1 => cpc[d] = "ended" /\ exit[d] = Status(d)
  BY <1>0, Zenon DEF GotRight
<1>1. CASE d # c
  <2>1. got'[d] = got[d] /\ exit'[d] = exit[d] /\ cpc'[d] = cpc[d] /\ run'[d] = run[d]
    BY <1>0, <1>1, Zenon
       DEF CStep, Client, CStart, CSend, CBlocked, CRecv, CTimeout, CCleanup, CKill, CGoes
  <2>2. ASSUME got[d] # NoRequest, GotIs(d) PROVE GotIs(d)'
    <3>1. got[d] \in Requests /\ got[d] # Own(c) /\ got[d][1] # c
      BY <1>0, <1>1, <2>2 DEF GotIs, Own
    <3>2. fate'[got[d]] = fate[got[d]]
      BY <3>1, FateClient, Zenon
    <3> QED
      BY <2>1, <2>2, <3>2, Zenon DEF GotIs, Own
  <2> QED
    BY <1>g, <2>1, <2>2, Zenon DEF Status
<1>2. CASE d = c
  <2> USE <1>0, <1>g, <1>2 DEF CGoes, HasSocket
  <2>1. CASE CStart(c)
    BY <2>1, Zenon DEF CStart
  <2>2. CASE CSend(c) \/ CBlocked(c)
    BY <2>2, SendEffect, Zenon
  <2>3. CASE CRecv(c)
    <3> DEFINE r == Head(answers[c])
    <3>1. answers[c] \in Seq(Requests) /\ answers[c] # << >> /\ cpc[c] = "poll"
      BY <2>3, Zenon DEF CRecv, TypeOK
    <3>2. r \in Requests /\ r[1] = c /\ fate[r] \in Handled
      BY <3>1, TailIs DEF MInv, AnswersHandled
    <3>3. r[2] \in 1 .. run[c]
      <4>1. r = <<c, r[2]>> /\ r[2] \in 1 .. Runs[c] /\ fate[<<c, r[2]>>] # "none"
        BY <3>2, RequestIs, Zenon DEF Handled
      <4>2. ~(r[2] > run[c])
        BY <4>1, Zenon DEF NotSentYet
      <4> QED
        BY <4>1, <4>2, MgmtAssumption
    <3>4. Own(c) \in Requests /\ Own(c) = <<c, run[c]>>
      BY <3>1, OwnIs, Zenon DEF Own
    <3>5. r # Own(c) => r[2] \in 1 .. run[c] - 1
      <4>1. r = <<c, r[2]>>
        BY <3>2, RequestIs, Zenon
      <4> QED
        BY <3>3, <3>4, <4>1
    <3>6. got'[c] = r /\ run' = run /\ cpc'[c] = "cleanup" /\ exit'[c] = -1
      BY <2>3, <3>1, <3>2, Zenon DEF CRecv
    <3>7. fate'[r] = IF r = Own(c) THEN "answered" ELSE "misdelivered"
      BY <2>3, <3>2, Zenon DEF CRecv, TypeOK
    <3>8. GotIs(c)'
      BY <3>2, <3>4, <3>5, <3>6, <3>7, Zenon DEF GotIs, Own
    <3> QED
      BY <3>6, <3>8, Zenon
  <2>4. CASE CTimeout(c)
    BY <2>4, Zenon DEF CTimeout
  <2>5. CASE CCleanup(c)
    <3>1. cpc[c] = "cleanup" /\ cpc'[c] = "ended" /\ exit'[c] = Status(c) /\ UNCHANGED <<got, run, fate>>
      BY <2>5, Zenon DEF CCleanup
    <3> QED
      BY <3>1, Zenon DEF GotIs, Own, Status
  <2>6. CASE CKill(c)
    BY <2>6, Zenon DEF CKill
  <2> QED
    BY <2>1, <2>2, <2>3, <2>4, <2>5, <2>6, Zenon DEF CStep, Client
<1> QED
  BY <1>1, <1>2, Zenon

-----------------------------------------------------------------------------
(* The theorems. *)

LEMMA NextInv == MInv /\ [Next]_vars => MInv'
<1> SUFFICES ASSUME MInv, [Next]_vars PROVE MInv'
  OBVIOUS
<1>1. ASSUME NEW s \in Servers, SStep(s) PROVE MInv'
  BY <1>1, TypeServer, OverlapStep, FileBoundStep, FileOwnStep, NoFileLeftServer,
     InboxServer,
     HandledServer, NotSentServer, GotServer, Zenon DEF MInv
<1>2. ASSUME NEW c \in Clients, CStep(c) PROVE MInv'
  <2>1. Overlap' /\ FileIsBound' /\ FileIsOwn'
    BY <1>2, ClientFrame, Zenon DEF MInv, Overlap, FileIsBound, FileIsOwn
  <2> QED
    BY <1>2, <2>1, TypeClient, NoFileLeftClient, InboxClient, HandledClient, NotSentClient,
       GotClient, Zenon DEF MInv
<1>3. CASE UNCHANGED vars
  BY <1>3 DEF vars, serverVars, clientVars, MInv, TypeOK, Numbered, Overlap, FileIsBound,
     FileIsOwn, NoFileLeft, InboxSent, InboxOnce, InhandHandled, AnswersHandled, NotSentYet,
     GotRight, GotIs, Own, Status
<1> QED
  BY <1>1, <1>2, <1>3, Zenon DEF Next, SStep, CStep

LEMMA Invariant == Spec => []MInv
BY InitInv, NextInv, PTL DEF Spec

\* The queues keep within their capacity and hold requests, and every process is at a
\* place of its code, whatever the interleaving (mgmt_socket.c, mgmt_send.c).
THEOREM MgmtType == Spec => []TypeOK
BY Invariant, PTL DEF MInv

\* mgmtctl exits with 0 only if its command was carried out and this is the answer to it;
\* the exception is the late answer to an earlier process of the same pid.
THEOREM MgmtSuccessIsTrue == Spec => []SuccessIsTrue
<1>1. MInv => SuccessIsTrue
  <2> SUFFICES ASSUME MInv, NEW c \in Clients, exit[c] = 0
               PROVE  \/ fate[Own(c)] = "answered" /\ cmd[Own(c)] \in Registered
                      \/ \E n \in 1 .. run[c] - 1 : fate[<<c, n>>] = "misdelivered"
    BY Zenon DEF SuccessIsTrue
  <2>1. cpc[c] = "ended" /\ got[c] # NoRequest /\ cmd[got[c]] \in Registered
    BY DEF MInv, GotRight, Status
  <2>2. GotIs(c) /\ got[c] \in Requests
    BY <2>1, Zenon DEF MInv, TypeOK, GotRight
  <2>3. got[c] = <<c, got[c][2]>>
    BY <2>2, RequestIs, Zenon DEF GotIs
  <2> QED
    BY <2>1, <2>2, <2>3, Zenon DEF GotIs
<1> QED
  BY Invariant, <1>1, PTL

\* A request that was dispatched is never taken or dispatched again, whatever becomes of
\* its answer, of the instance and of the client.
THEOREM MgmtAtMostOnce == Spec => AtMostOnce
<1> DEFINE Once == \A r \in Requests :
                     fate[r] \in Handled =>
                       fate'[r] = fate[r] \/ fate'[r] \in {"answered", "misdelivered"}
<1>1. MInv /\ [Next]_vars => [Once]_vars
  BY HandledStays, Zenon
<1> QED
  BY Invariant, <1>1, PTL DEF Spec, AtMostOnce

\* An instance that never ran beside another one gets the socket file, even one that a
\* killed instance left behind, and keeps it while it serves.
THEOREM MgmtReachable == Spec => []Reachable
<1>1. MInv => Reachable
  BY Zenon DEF MInv, FileIsOwn, Reachable
<1> QED
  BY Invariant, <1>1, PTL

\* Only a kill leaves a socket file behind, of an instance or of mgmtctl.
THEOREM MgmtNoFileLeft == Spec => []NoFileLeft
BY Invariant, PTL DEF MInv

=============================================================================
