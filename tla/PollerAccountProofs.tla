------------------------ MODULE PollerAccountProofs -------------------------
(***************************************************************************)
(* The sockets, the entries of m_pfds and the stack of Poller are in order *)
(* for every value of the constants: Accounts of PollerInvariant is        *)
(* inductive relative to Inv, and the properties follow from both.  Poller *)
(* then implements Exchange: a step of the loop, of a client or of a CGI   *)
(* program is a step of Exchange or one that it does not see.              *)
(***************************************************************************)
EXTENDS PollerProofs, FiniteSetTheorems

USE FdAssumption, ClientAssumption, SizeAssumption, KindAssumption DEF BadFd, NoFd

-----------------------------------------------------------------------------
(* What kinds of steps there are. *)

\* A handler, or the end of a send that has blocked.
Handles(i) == Handler(i) \/ FinishSend(i)

\* What every handler does to the entries and the events.
LEMMA HandlesEvents ==
    ASSUME Inv, NEW i \in DOMAIN m_pfds, Handles(i)
    PROVE  /\ Busy /\ Reached(i) /\ UNCHANGED <<m_pfds, m_clients>>
           /\ pc' \in {"scan", "send", "waitpid", "decode", "dead"}
           /\ UNCHANGED revents \/ Handled(i)
BY DEF Handles, Handler, Busy, HangUp, Accept, AcceptFails, RecvData, RecvNothing,
   RecvNoConnection, ReadCGI, CollectCGI, RespondNothing, RespondBadRequest, RespondAbsent,
   RespondFile, SendBlocks, StartCGI, StartCGIFails, AwaitCGI, ParseEndless, FinishSend, Handling, Asks,
   Answer, Send

\* What a handler pushes on the stack.
LEMMA HandlesStack ==
    ASSUME Inv, NEW i \in DOMAIN m_pfds, Handles(i)
    PROVE  \/ UNCHANGED m_dropped_fds
           \/ m_dropped_fds' = Cons(m_pfds[i], m_dropped_fds) /\ revents[i] \in {"hup", "out"}
           \/ m_dropped_fds' = Cons(m_pfds[i], m_dropped_fds) /\ m_pfds[i] \in m_clients
           \/ \E k \in m_clients :
                 /\ conn[k].pipeFd = m_pfds[i]
                 /\ m_dropped_fds' = Cons(k, Cons(m_pfds[i], m_dropped_fds))
<1>1. Busy /\ Reached(i)
  BY HandlesEvents
<1>2. CASE FinishSend(i)
  BY <1>1, <1>2 DEF FinishSend, Answer, Inv, Loop
<1>3. CASE HangUp(i) \/ RespondNothing(i) \/ RespondAbsent(i) \/ RespondFile(i)
  BY <1>3 DEF HangUp, RespondNothing, RespondAbsent, RespondFile, Handling, Asks, Answer
<1>4. CASE RecvNothing(i)
  BY <1>4 DEF RecvNothing
<1>5. CASE CollectCGI(i)
  BY <1>5 DEF CollectCGI
<1>6. CASE \/ Accept(i) \/ AcceptFails(i) \/ RecvData(i) \/ RecvNoConnection(i) \/ ReadCGI(i)
           \/ RespondBadRequest(i) \/ SendBlocks(i) \/ StartCGI(i) \/ StartCGIFails(i)
           \/ AwaitCGI(i) \/ ParseEndless(i)
  BY <1>6 DEF Accept, AcceptFails, RecvData, RecvNoConnection, ReadCGI, RespondBadRequest,
     SendBlocks, StartCGI, StartCGIFails, AwaitCGI, ParseEndless
<1> QED
  BY <1>2, <1>3, <1>4, <1>5, <1>6 DEF Handles, Handler

\* A handler takes free descriptors only, and only Accept makes a socket.
LEMMA HandlesTable ==
    ASSUME Inv, NEW i \in DOMAIN m_pfds, Handles(i)
    PROVE  /\ \A f \in Fd : fdTable[f].kind # "free" => fdTable'[f] = fdTable[f]
           /\ ~Accept(i) => SockFd' = SockFd
<1>1. fdTable \in [Fd -> FdEntry]
  BY DEF Inv, TypeOK
<1>2. CASE Accept(i)
  <2>1. \E g \in FreeFd : \E e : fdTable' = [fdTable EXCEPT ![g] = e]
    BY <1>2 DEF Accept
  <2> QED
    BY <1>1, <1>2, <2>1 DEF FreeFd
<1>3. CASE RespondFile(i) \/ SendBlocks(i)
  <2>1. UNCHANGED fdTable \/ \E g \in FreeFd : fdTable' = [fdTable EXCEPT ![g] = Held]
    BY <1>3 DEF RespondFile, SendBlocks
  <2>2. \A f \in Fd : \/ fdTable'[f] = fdTable[f]
                      \/ fdTable[f].kind = "free" /\ fdTable'[f] = Held
    BY <2>1, HeldFacts
  <2>3. \A f \in Fd : fdTable[f].kind # "free" => fdTable'[f] = fdTable[f]
    BY <2>2
  <2>4. Held.kind = "held"
    BY DEF Held
  <2>5. SockFd' = SockFd
    BY <2>2, <2>4 DEF SockFd
  <2> QED
    BY <2>3, <2>5
<1>4. CASE StartCGI(i)
  <2> DEFINE e == [kind |-> "pipe", owner |-> fdTable[m_pfds[i]].owner]
  <2>1. PICK a, b, r, w \in FreeFd :
           fdTable' = [fdTable EXCEPT ![a] = Held, ![b] = Held, ![w] = Held, ![r] = e]
    BY <1>4 DEF StartCGI
  <2>2. e.kind = "pipe" /\ Held.kind = "held"
    BY DEF Held
  <2> HIDE DEF e
  <2>3. \A f \in Fd : \/ fdTable'[f] = fdTable[f]
                      \/ fdTable[f].kind = "free" /\ fdTable'[f] \in {e, Held}
    BY <1>1, <2>1 DEF FreeFd
  <2> QED
    BY <2>2, <2>3 DEF SockFd
<1>5. CASE \/ HangUp(i) \/ AcceptFails(i) \/ RecvData(i) \/ RecvNothing(i)
           \/ RecvNoConnection(i) \/ ReadCGI(i) \/ CollectCGI(i) \/ RespondNothing(i)
           \/ RespondBadRequest(i) \/ RespondAbsent(i) \/ StartCGIFails(i) \/ AwaitCGI(i) \/ ParseEndless(i)
           \/ FinishSend(i)
  BY <1>5 DEF HangUp, AcceptFails, RecvData, RecvNothing, RecvNoConnection, ReadCGI,
     CollectCGI, RespondNothing, RespondBadRequest, RespondAbsent, StartCGIFails, AwaitCGI, ParseEndless,
     FinishSend, SockFd
<1> QED
  BY <1>2, <1>3, <1>4, <1>5 DEF Handles, Handler

\* A handler that starts no program leaves every connection its pipe.
LEMMA HandlesPipe ==
    ASSUME Inv, NEW i \in DOMAIN m_pfds, Handles(i), ~StartCGI(i), NEW k \in Open
    PROVE  /\ conn'[k].m_cgi_added = conn[k].m_cgi_added
           /\ conn'[k].pipeFd = conn[k].pipeFd /\ conn'[k].isCGI = conn[k].isCGI
<1> DEFINE SamePipe == /\ conn'[k].m_cgi_added = conn[k].m_cgi_added
                       /\ conn'[k].pipeFd = conn[k].pipeFd /\ conn'[k].isCGI = conn[k].isCGI
<1>1. Busy /\ Reached(i) /\ m_pfds[i] \in Fd
  BY HandlesEvents, ReachedFacts
<1>2. /\ conn \in [Fd \cup {BadFd} -> Connection] /\ k \in Fd \cup {BadFd}
      /\ conn[k] \in Connection
  BY OpenFacts DEF Inv, TypeOK
<1>3. CASE \/ HangUp(i) \/ Accept(i) \/ AcceptFails(i) \/ RecvNothing(i) \/ RecvNoConnection(i)
           \/ CollectCGI(i) \/ RespondNothing(i) \/ StartCGIFails(i) \/ AwaitCGI(i) \/ ParseEndless(i)
  BY <1>3 DEF HangUp, Accept, AcceptFails, RecvNothing, RecvNoConnection, CollectCGI,
     RespondNothing, StartCGIFails, AwaitCGI, ParseEndless
<1>4. ASSUME NEW m, conn' = [conn EXCEPT ![m_pfds[i]].m_request = m]
      PROVE  SamePipe
  BY <1>2, <1>4 DEF Connection
<1>5. CASE RecvData(i)
  <2>1. \E m : conn' = [conn EXCEPT ![m_pfds[i]].m_request = m]
    BY <1>5 DEF RecvData
  <2> QED
    BY <1>4, <2>1
<1>6. ASSUME NEW g \in m_clients, NEW n, conn' = [conn EXCEPT ![g].got = n]
      PROVE  SamePipe
  BY <1>2, <1>6 DEF Connection
<1>7. CASE ReadCGI(i)
  <2>1. \E g \in m_clients : \E n : conn' = [conn EXCEPT ![g].got = n]
    BY <1>7 DEF ReadCGI
  <2> QED
    BY <1>6, <2>1
<1>8. CASE \/ RespondBadRequest(i) \/ RespondAbsent(i) \/ RespondFile(i) \/ SendBlocks(i)
           \/ FinishSend(i)
  <2>1. conn' = [conn EXCEPT ![m_pfds[i]] = Parsed(m_pfds[i])]
    BY <1>8 DEF RespondBadRequest, RespondAbsent, RespondFile, SendBlocks, FinishSend, Answer
  <2>2. /\ Parsed(k).m_cgi_added = conn[k].m_cgi_added /\ Parsed(k).pipeFd = conn[k].pipeFd
        /\ Parsed(k).isCGI = conn[k].isCGI
    BY <1>2 DEF Connection, Parsed
  <2> QED
    BY <1>2, <2>1, <2>2
<1> QED
  BY <1>3, <1>5, <1>7, <1>8 DEF Handles, Handler

\* A handler starts at most one connection's pipe, and adds none to m_pfds.
LEMMA HandlesConn ==
    ASSUME Inv, NEW i \in DOMAIN m_pfds, Handles(i), NEW k \in Open
    PROVE  /\ conn'[k].m_cgi_added = conn[k].m_cgi_added
           /\ \/ conn'[k].pipeFd = conn[k].pipeFd
              \/ /\ conn[k].pipeFd = NoFd /\ UNCHANGED m_dropped_fds
                 /\ conn'[k].pipeFd \in FreeFd /\ fdTable'[conn'[k].pipeFd].kind = "pipe"
<1>1. Busy /\ Reached(i) /\ m_pfds[i] \in Fd
  BY HandlesEvents, ReachedFacts
<1>2. /\ conn \in [Fd \cup {BadFd} -> Connection] /\ k \in Fd \cup {BadFd}
      /\ conn[k] \in Connection
  BY OpenFacts DEF Inv, TypeOK
<1>3. CASE StartCGI(i)
  <2> DEFINE e == [kind |-> "pipe", owner |-> fdTable[m_pfds[i]].owner]
             y(r) == [Parsed(m_pfds[i]) EXCEPT !.isCGI = TRUE, !.pipeFd = r]
  <2>1. PICK r \in FreeFd :
           /\ \E a, b, w \in FreeFd :
                 /\ a < b /\ b < r /\ r < w
                 /\ fdTable' = [fdTable EXCEPT ![a] = Held, ![b] = Held, ![w] = Held, ![r] = e]
           /\ conn' = [conn EXCEPT ![m_pfds[i]] = y(r)]
    BY <1>3 DEF StartCGI
  <2>2. ~conn[m_pfds[i]].isCGI /\ revents[i] = "out" /\ UNCHANGED m_dropped_fds
    BY <1>3 DEF StartCGI, Asks, Handling
  <2>3. fdTable'[r] = e /\ e.kind = "pipe"
    BY <2>1 DEF FreeFd, Inv, TypeOK
  <2>4. m_pfds[i] \in Open
    BY <1>1, <2>2, ReachedFacts
  <2>5. conn[m_pfds[i]].pipeFd = NoFd
    BY <2>2, <2>4 DEF Inv, Pipes
  <2>6. conn[m_pfds[i]] \in Connection
    BY <2>4, OpenFacts
  <2>7. y(r).m_cgi_added = conn[m_pfds[i]].m_cgi_added /\ y(r).pipeFd = r
    BY <2>6 DEF Connection, Parsed
  <2> HIDE DEF e, y
  <2>8. CASE k = m_pfds[i]
    BY <1>2, <2>1, <2>2, <2>3, <2>5, <2>7, <2>8
  <2>9. CASE k # m_pfds[i]
    BY <1>2, <2>1, <2>9
  <2> QED
    BY <2>8, <2>9
<1> QED
  BY <1>3, HandlesPipe

-----------------------------------------------------------------------------
(* The loop stops where nothing is left to drop. *)

\* A step keeps Quiet: poll is where the thread stops (Poller.cpp:58-63).
LEMMA QuietStep == Inv /\ [Next]_vars /\ Quiet => Quiet'
<1> SUFFICES ASSUME Inv, [Next]_vars, Quiet, pc' = "stopped", NEW f \in SockFd'
             PROVE  reply'[Owner(f)'] = <<>>
  BY DEF Quiet
<1>1. CASE UNCHANGED vars
  BY <1>1 DEF Quiet, SockFd, Owner, vars, threadVars
<1>2. CASE Next
  <2>1. pc # "stopped"
    BY <1>2 DEF Next, Running
  <2>2. ASSUME NEW i \in DOMAIN m_pfds, Handles(i) PROVE FALSE
    BY <2>2, HandlesEvents
  <2>3. Stop
    BY <1>2, <2>1, <2>2 DEF Next, Thread, Environment, Handles, Poll, EndScan, DropFd,
       AddNew, AddPipe, EndPass, Connect, SendSegment, Finish, Abort, ChildWrite, ChildExit,
       Signal, threadVars
  <2>4. pc = "poll" /\ UNCHANGED <<reply, fdTable>>
    BY <2>3 DEF Stop
  <2>5. f \in SockFd /\ Owner(f)' = Owner(f)
    BY <2>4 DEF SockFd, Owner
  <2>6. m_dropped_fds = <<>> /\ Running
    BY <2>4 DEF Inv, Loop, Running
  <2> QED
    BY <2>4, <2>5, <2>6 DEF Inv, Once, Range
<1> QED
  BY <1>1, <1>2

-----------------------------------------------------------------------------
(* Every accepted connection has its socket until it is closed. *)

\* A step that opens and closes no socket keeps Owned.
LEMMA OwnedFrame ==
    ASSUME Inv, Owned, UNCHANGED backlog, SockFd' = SockFd,
           \A f \in SockFd : fdTable'[f] = fdTable[f],
           \A c \in Client : /\ sock'[c] = "away" <=> sock[c] = "away"
                             /\ sock'[c] = "closed" <=> sock[c] = "closed"
    PROVE  Owned'
<1>1. \A f \in SockFd : Owner(f)' = Owner(f) /\ Owner(f) \in Client
  BY DEF Owner, SockFd, Inv, Descriptors
<1>2. \A i \in DOMAIN backlog : backlog[i] \in Client
  BY DEF Inv, TypeOK
<1> QED
  BY <1>1, <1>2 DEF Owned

\* A client that connects waits in the backlog.
LEMMA ConnectOwned ==
    ASSUME Inv, Owned, NEW c \in Client, Connect(c)
    PROVE  Owned'
<1>1. /\ backlog \in Seq(Client) /\ backlog' = Append(backlog, c) /\ sock[c] = "away"
      /\ UNCHANGED fdTable /\ \A d \in Client : sock'[d] = IF d = c THEN "open" ELSE sock[d]
  BY DEF Inv, TypeOK, Connect
<1>2. /\ Len(backlog') = Len(backlog) + 1 /\ DOMAIN backlog' = 1..Len(backlog) + 1
      /\ DOMAIN backlog = 1..Len(backlog) /\ Len(backlog) \in Nat
      /\ backlog'[Len(backlog) + 1] = c /\ \A j \in 1..Len(backlog) : backlog'[j] = backlog[j]
  BY <1>1
<1>3. c \in Range(backlog') /\ Range(backlog) \subseteq Range(backlog')
  BY <1>2 DEF Range
<1>4. \A j \in DOMAIN backlog' : sock'[backlog'[j]] # "closed"
  <2> SUFFICES ASSUME NEW j \in DOMAIN backlog' PROVE sock'[backlog'[j]] # "closed"
    OBVIOUS
  <2>1. CASE j = Len(backlog) + 1
    BY <1>1, <1>2, <2>1
  <2>2. CASE j # Len(backlog) + 1
    <3>1. j \in DOMAIN backlog /\ backlog'[j] = backlog[j] /\ backlog[j] \in Client
      BY <1>1, <1>2, <2>2
    <3> QED
      BY <1>1, <3>1 DEF Owned
  <2> QED
    BY <2>1, <2>2
<1>5. SockFd' = SockFd /\ \A f \in SockFd : Owner(f)' = Owner(f) /\ Owner(f) \in Client
  BY <1>1 DEF SockFd, Owner, Inv, Descriptors
<1> QED
  BY <1>1, <1>3, <1>4, <1>5 DEF Owned

\* accept gives the head of the backlog a socket (ServerSocket.cpp, Poller.cpp:118).
LEMMA AcceptOwned ==
    ASSUME Inv, Owned, NEW i \in DOMAIN m_pfds, Accept(i)
    PROVE  Owned'
<1>1. PICK g \in FreeFd :
         fdTable' = [fdTable EXCEPT ![g] = [kind |-> "sock", owner |-> Head(backlog)]]
  BY DEF Accept
<1>2. /\ backlog \in Seq(Client) /\ backlog # <<>> /\ backlog' = Tail(backlog)
      /\ UNCHANGED sock /\ fdTable \in [Fd -> FdEntry] /\ g \in Fd /\ fdTable[g].kind = "free"
  BY DEF Accept, Inv, TypeOK, FreeFd
<1>3. /\ Head(backlog) = backlog[1] /\ 1 \in DOMAIN backlog
      /\ \A j \in DOMAIN backlog' : j + 1 \in DOMAIN backlog /\ backlog'[j] = backlog[j + 1]
      /\ \A j \in DOMAIN backlog : j # 1 => j - 1 \in DOMAIN backlog'
                                           /\ backlog'[j - 1] = backlog[j]
  BY <1>2, HeadTailProperties
<1> DEFINE h == backlog[1]
<1>4. h \in Client /\ sock[h] # "closed"
  BY <1>2, <1>3 DEF Owned
<1>5. SockFd' = SockFd \cup {g} /\ Owner(g)' = h /\ \A f \in SockFd : Owner(f)' = Owner(f)
  <2>1. fdTable'[g] = [kind |-> "sock", owner |-> h]
    BY <1>1, <1>2, <1>3
  <2>2. \A f \in Fd : f # g => fdTable'[f] = fdTable[f]
    BY <1>1, <1>2
  <2> HIDE DEF h
  <2>3. fdTable'[g].kind = "sock" /\ fdTable'[g].owner = h
    BY <2>1
  <2> QED
    BY <1>2, <2>2, <2>3 DEF SockFd, Owner
<1>6. \A c \in Client : c \in Range(backlog) => c = h \/ c \in Range(backlog')
  BY <1>3 DEF Range
<1> HIDE DEF h
<1>7. \A c \in Client : \/ sock'[c] \in {"away", "closed"} \/ c \in Range(backlog')
                        \/ \E f \in SockFd' : Owner(f)' = c
  BY <1>2, <1>5, <1>6 DEF Owned
<1>8. \A f \in SockFd' : sock'[Owner(f)'] # "closed"
  BY <1>2, <1>4, <1>5 DEF Owned
<1>9. \A j \in DOMAIN backlog' : sock'[backlog'[j]] # "closed"
  BY <1>2, <1>3 DEF Owned
<1> QED
  BY <1>7, <1>8, <1>9 DEF Owned

\* Deleting the Connection closes its client's only socket (Socket.cpp:29-35).
LEMMA DropFdOwned ==
    ASSUME Inv, Owned, DropFd
    PROVE  Owned'
<1> DEFINE f == Head(m_dropped_fds)
           c == Owner(f)
<1>1. UNCHANGED backlog
  BY DEF DropFd
<1>2. CASE f \notin m_clients
  <2>1. UNCHANGED <<sock, fdTable>>
    BY <1>2 DEF DropFd
  <2> QED
    BY <1>1, <2>1, OwnedFrame DEF SockFd
<1>3. CASE f \in m_clients
  <2>1. sock' = [sock EXCEPT ![c] = "closed"] /\ fdTable' = [fdTable EXCEPT ![f] = Free]
    BY <1>3 DEF DropFd, Owner
  <2>2. f \in Open
    <3>1. m_dropped_fds \in Seq(Fd \cup {BadFd}) /\ m_dropped_fds # <<>>
          /\ \A j \in DOMAIN m_dropped_fds : m_dropped_fds[j] # BadFd
      BY DEF DropFd, Inv, TypeOK, Loop
    <3> QED
      BY <1>3, <3>1 DEF Open
  <2>3. f \in Fd /\ f \in SockFd /\ c \in Client
    BY <2>2, OpenFacts
  <2>4. SockFd' = SockFd \ {f} /\ \A g \in SockFd' : Owner(g)' = Owner(g)
    <3>1. fdTable \in [Fd -> FdEntry] /\ Free.kind = "free"
      BY DEF Inv, TypeOK, Free
    <3> QED
      BY <2>1, <2>3, <3>1 DEF SockFd, Owner
  <2>5. \A d \in Client : sock'[d] = IF d = c THEN "closed" ELSE sock[d]
    BY <2>1, <2>3 DEF Inv, TypeOK
  <2>6. \A d \in Client : \/ sock'[d] \in {"away", "closed"} \/ d \in Range(backlog')
                          \/ \E g \in SockFd' : Owner(g)' = d
    <3> SUFFICES ASSUME NEW d \in Client, d # c, sock[d] \notin {"away", "closed"},
                        d \notin Range(backlog)
                 PROVE  \E g \in SockFd' : Owner(g)' = d
      BY <1>1, <2>5
    <3>1. PICK g \in SockFd : Owner(g) = d
      BY DEF Owned
    <3> QED
      BY <2>4, <3>1
  <2>7. \A g \in SockFd' : sock'[Owner(g)'] # "closed"
    <3> SUFFICES ASSUME NEW g \in SockFd, g # f PROVE sock'[Owner(g)] # "closed"
      BY <2>4
    <3>1. Owner(g) # c /\ Owner(g) \in Client
      BY <2>3 DEF Inv, Sockets, Descriptors, SockFd
    <3> QED
      BY <2>5, <3>1 DEF Owned
  <2>8. \A j \in DOMAIN backlog' : sock'[backlog'[j]] # "closed"
    <3> SUFFICES ASSUME NEW j \in DOMAIN backlog PROVE sock'[backlog[j]] # "closed"
      BY <1>1
    <3>1. backlog[j] \in Client /\ backlog[j] \in Range(backlog)
      BY DEF Inv, TypeOK, Range
    <3>2. backlog[j] # c
      BY <2>3, <3>1 DEF Inv, Sockets
    <3> QED
      BY <2>5, <3>1, <3>2 DEF Owned
  <2> QED
    BY <2>6, <2>7, <2>8 DEF Owned
<1> QED
  BY <1>2, <1>3

\* Every step keeps Owned.
LEMMA OwnedStep == Inv /\ [Next]_vars /\ Owned => Owned'
<1> SUFFICES ASSUME Inv, [Next]_vars, Owned PROVE Owned'
  OBVIOUS
<1>1. CASE UNCHANGED vars
  BY <1>1, OwnedFrame DEF vars, clientVars, SockFd
<1>2. CASE \E c \in Client : Connect(c)
  BY <1>2, ConnectOwned
<1>3. CASE \E c \in Client : Finish(c) \/ Abort(c)
  <2>1. UNCHANGED <<backlog, fdTable>>
    BY <1>3 DEF Finish, Abort
  <2>2. \A d \in Client : /\ sock'[d] = "away" <=> sock[d] = "away"
                          /\ sock'[d] = "closed" <=> sock[d] = "closed"
    BY <1>3 DEF Finish, Abort, Inv, TypeOK
  <2> QED
    BY <2>1, <2>2, OwnedFrame DEF SockFd
<1>4. CASE \/ \E c \in Client : SendSegment(c) \/ ChildWrite(c) \/ ChildExit(c)
           \/ Signal \/ Poll \/ Stop \/ EndScan \/ AddNew \/ AddPipe \/ EndPass
  <2>1. UNCHANGED <<sock, backlog, fdTable>>
    BY <1>4 DEF SendSegment, ChildWrite, ChildExit, Signal, Poll, Stop, EndScan, AddNew,
       AddPipe, EndPass, clientVars
  <2> QED
    BY <2>1, OwnedFrame DEF SockFd
<1>5. CASE DropFd
  BY <1>5, DropFdOwned
<1>6. ASSUME NEW i \in DOMAIN m_pfds, Handles(i), ~Accept(i) PROVE Owned'
  <2>1. SockFd' = SockFd /\ \A f \in SockFd : fdTable'[f] = fdTable[f]
    <3>1. \A f \in SockFd : f \in Fd /\ fdTable[f].kind # "free"
      BY DEF SockFd
    <3> QED
      BY <1>6, <3>1, HandlesTable
  <2>2. CASE RecvNothing(i)
    <3>1. UNCHANGED backlog
      BY <2>2 DEF RecvNothing
    <3>2. \A d \in Client : /\ sock'[d] = "away" <=> sock[d] = "away"
                            /\ sock'[d] = "closed" <=> sock[d] = "closed"
      BY <2>2 DEF RecvNothing, Inv, TypeOK
    <3> QED
      BY <2>1, <3>1, <3>2, OwnedFrame
  <2>3. CASE ~RecvNothing(i)
    <3>1. UNCHANGED <<sock, backlog>>
      BY <1>6, <2>3 DEF Handles, Handler, HangUp, AcceptFails, RecvData, RecvNoConnection,
         ReadCGI, CollectCGI, RespondNothing, RespondBadRequest, RespondAbsent, RespondFile,
         SendBlocks, StartCGI, StartCGIFails, AwaitCGI, ParseEndless, FinishSend, clientVars
    <3> QED
      BY <2>1, <3>1, OwnedFrame
  <2> QED
    BY <2>2, <2>3
<1>7. ASSUME NEW i \in DOMAIN m_pfds, Accept(i) PROVE Owned'
  BY <1>7, AcceptOwned
<1> QED
  BY <1>1, <1>2, <1>3, <1>4, <1>5, <1>6, <1>7 DEF Next, Thread, Environment, Handles

-----------------------------------------------------------------------------
(* The stack: the listener is never on it, and a pipe follows its client. *)

\* What pushing a descriptor does to the places of the others.
LEMMA ConsFacts ==
    ASSUME NEW S, NEW s \in Seq(S), NEW e \in S
    PROVE  /\ Cons(e, s) \in Seq(S) /\ Cons(e, s)[1] = e /\ Len(Cons(e, s)) = Len(s) + 1
           /\ 1 \in DOMAIN Cons(e, s)
           /\ \A j \in DOMAIN s : j + 1 \in DOMAIN Cons(e, s) /\ Cons(e, s)[j + 1] = s[j]
           /\ \A j \in DOMAIN Cons(e, s) : j # 1 => j - 1 \in DOMAIN s
                                                    /\ Cons(e, s)[j] = s[j - 1]
BY DEF Cons

\* What popping one does.
LEMMA PopFacts ==
    ASSUME NEW S, NEW s \in Seq(S), s # <<>>
    PROVE  /\ Head(s) = s[1] /\ 1 \in DOMAIN s /\ Tail(s) \in Seq(S)
           /\ \A j \in DOMAIN Tail(s) : j + 1 \in DOMAIN s /\ Tail(s)[j] = s[j + 1]
           /\ \A j \in DOMAIN s : j # 1 => j - 1 \in DOMAIN Tail(s) /\ Tail(s)[j - 1] = s[j]
BY HeadTailProperties

\* What erasing a descriptor leaves in its place.
LEMMA EraseKeeps ==
    ASSUME Inv, NEW f \in Fd, Erase(f)
    PROVE  /\ \A g \in Range(m_pfds) : g # f => g \in Range(m_pfds')
           /\ (m_pfds # <<>> /\ f # m_pfds[1]) => m_pfds' # <<>> /\ m_pfds'[1] = m_pfds[1]
<1>1. m_pfds \in Seq(Fd \cup {BadFd})
  BY DEF Inv, TypeOK
<1>2. CASE UNCHANGED m_pfds
  BY <1>2
<1>3. ASSUME NEW i \in DOMAIN m_pfds, m_pfds[i] = f, m_pfds' = RemoveAt(m_pfds, i)
      PROVE  /\ \A g \in Range(m_pfds) : g # f => g \in Range(m_pfds')
             /\ f # m_pfds[1] => m_pfds' # <<>> /\ m_pfds'[1] = m_pfds[1]
  <2>1. i \in 1..Len(m_pfds) /\ Len(m_pfds) \in Nat /\ DOMAIN m_pfds = 1..Len(m_pfds)
    BY <1>1
  <2>2. /\ m_pfds' \in Seq(Fd \cup {BadFd}) /\ Len(m_pfds') = Len(m_pfds) - 1
        /\ \A j \in 1..Len(m_pfds) - 1 : m_pfds'[j] = IF j < i THEN m_pfds[j] ELSE m_pfds[j + 1]
    BY <1>1, <1>3, <2>1, RemoveAtFacts
  <2>3. DOMAIN m_pfds' = 1..Len(m_pfds) - 1
    BY <2>1, <2>2
  <2>4. ASSUME NEW l \in DOMAIN m_pfds, l # i
        PROVE  \E j \in DOMAIN m_pfds' : m_pfds'[j] = m_pfds[l]
    <3>1. CASE l < i
      <4>1. l \in DOMAIN m_pfds' /\ m_pfds'[l] = m_pfds[l]
        BY <2>1, <2>2, <2>3, <3>1
      <4> QED
        BY <4>1
    <3>2. CASE l > i
      <4>1. l - 1 \in DOMAIN m_pfds' /\ m_pfds'[l - 1] = m_pfds[l]
        BY <2>1, <2>2, <2>3, <3>2
      <4> QED
        BY <4>1
    <3> QED
      BY <2>1, <2>4, <3>1, <3>2
  <2>5. \A g \in Range(m_pfds) : g # f => g \in Range(m_pfds')
    BY <1>3, <2>4 DEF Range
  <2>6. ASSUME f # m_pfds[1] PROVE m_pfds' # <<>> /\ m_pfds'[1] = m_pfds[1]
    <3>1. i > 1 /\ 1 \in 1..Len(m_pfds) - 1
      BY <1>3, <2>1, <2>6
    <3> QED
      BY <2>2, <2>3, <3>1
  <2> QED
    BY <2>5, <2>6
<1> QED
  BY <1>2, <1>3 DEF Erase

\* What a handler pushes is the descriptor of a client's socket or pipe.
LEMMA PushedKind ==
    ASSUME Inv, ListenerFirst, NEW i \in DOMAIN m_pfds, Handles(i),
           NEW j \in DOMAIN m_dropped_fds'
    PROVE  m_dropped_fds'[j] \in Fd /\ fdTable[m_dropped_fds'[j]].kind \in {"sock", "pipe"}
<1> DEFINE S == Fd \cup {BadFd}
           Kept(f) == f \in Fd /\ fdTable[f].kind \in {"sock", "pipe"}
<1>1. Busy /\ Reached(i) /\ i \in DOMAIN revents /\ m_pfds[i] \in Fd
  BY HandlesEvents, ReachedFacts
<1>2. /\ m_dropped_fds \in Seq(S)
      /\ \A l \in DOMAIN m_dropped_fds : Kept(m_dropped_fds[l])
  BY <1>1 DEF Inv, TypeOK, Loop, ListenerFirst, Busy
<1>3. \A k \in Open : Kept(k)
  BY OpenFacts DEF SockFd
<1>4. m_pfds[i] \in m_clients => Kept(m_pfds[i])
  BY <1>1, <1>3 DEF Open
<1>5. revents[i] \in {"hup", "out"} => m_pfds[i] \in m_clients
  BY <1>1 DEF ListenerFirst, Inv, Loop, Busy
<1>6. ASSUME NEW k \in m_clients, conn[k].pipeFd = m_pfds[i]
      PROVE  Kept(k) /\ Kept(m_pfds[i])
  <2>1. k \in Open
    BY <1>1, <1>6, PipeFacts
  <2>2. conn[k].pipeFd # NoFd
    BY <1>1, <1>6
  <2>3. fdTable[m_pfds[i]].kind = "pipe"
    BY <1>6, <2>1, <2>2, OpenFacts
  <2> QED
    BY <1>1, <1>3, <2>1, <2>3
<1>7. m_clients \subseteq S
  BY DEF Inv, TypeOK
<1> HIDE DEF S, Kept
<1>8. ASSUME NEW s \in Seq(S), NEW e \in S, Kept(e), \A l \in DOMAIN s : Kept(s[l])
      PROVE  \A l \in DOMAIN Cons(e, s) : Kept(Cons(e, s)[l])
  <2> SUFFICES ASSUME NEW l \in DOMAIN Cons(e, s) PROVE Kept(Cons(e, s)[l])
    OBVIOUS
  <2>1. /\ Cons(e, s)[1] = e
        /\ l # 1 => l - 1 \in DOMAIN s /\ Cons(e, s)[l] = s[l - 1]
    BY ConsFacts
  <2> QED
    BY <1>8, <2>1
<1>9. m_pfds[i] \in S
  BY <1>1 DEF S
<1>10. Kept(m_dropped_fds'[j])
  <2>1. CASE UNCHANGED m_dropped_fds
    BY <1>2, <2>1
  <2>2. CASE m_dropped_fds' = Cons(m_pfds[i], m_dropped_fds) /\ Kept(m_pfds[i])
    BY <1>2, <1>8, <1>9, <2>2
  <2>3. CASE \E k \in m_clients :
                /\ conn[k].pipeFd = m_pfds[i]
                /\ m_dropped_fds' = Cons(k, Cons(m_pfds[i], m_dropped_fds))
    <3>1. PICK k \in m_clients :
             /\ conn[k].pipeFd = m_pfds[i]
             /\ m_dropped_fds' = Cons(k, Cons(m_pfds[i], m_dropped_fds))
      BY <2>3
    <3>2. Kept(k) /\ Kept(m_pfds[i]) /\ k \in S
      BY <1>6, <1>7, <3>1
    <3>3. Cons(m_pfds[i], m_dropped_fds) \in Seq(S)
      BY <1>2, <1>9, ConsFacts
    <3>4. \A l \in DOMAIN Cons(m_pfds[i], m_dropped_fds) :
             Kept(Cons(m_pfds[i], m_dropped_fds)[l])
      BY <1>2, <1>8, <1>9, <3>2
    <3> QED
      BY <1>8, <3>1, <3>2, <3>3, <3>4
  <2> QED
    BY <1>4, <1>5, <2>1, <2>2, <2>3, HandlesStack
<1> QED
  BY <1>10 DEF Kept

\* A handler keeps the listener where it is.
LEMMA HandlesListener ==
    ASSUME Inv, ListenerFirst, NEW i \in DOMAIN m_pfds, Handles(i)
    PROVE  ListenerFirst'
<1>1. Busy /\ Reached(i) /\ UNCHANGED <<m_pfds, m_clients>> /\ (UNCHANGED revents \/ Handled(i))
  BY HandlesEvents
<1>2. \A f \in Fd : fdTable[f].kind # "free" => fdTable'[f] = fdTable[f]
  BY HandlesTable
<1>3. fdTable[Listener].kind = "listener" /\ Listener \in Fd
  BY DEF ListenerFirst
<1>4. \A j \in DOMAIN m_dropped_fds' :
         /\ m_dropped_fds'[j] # Listener
         /\ fdTable'[m_dropped_fds'[j]].kind \in {"sock", "pipe"}
  <2> SUFFICES ASSUME NEW j \in DOMAIN m_dropped_fds'
               PROVE  /\ m_dropped_fds'[j] # Listener
                      /\ fdTable'[m_dropped_fds'[j]].kind \in {"sock", "pipe"}
    OBVIOUS
  <2>1. m_dropped_fds'[j] \in Fd /\ fdTable[m_dropped_fds'[j]].kind \in {"sock", "pipe"}
    BY PushedKind
  <2> QED
    BY <1>2, <1>3, <2>1
<1>5. \A j \in DOMAIN revents' : revents'[j] = "hup" => m_pfds'[j] \in m_clients'
  <2>1. \A j \in DOMAIN revents' : j \in DOMAIN revents /\ (revents'[j] = "hup" => revents[j] = "hup")
    BY <1>1, HandledFacts
  <2> QED
    BY <1>1, <2>1 DEF ListenerFirst, Busy
<1> QED
  BY <1>1, <1>2, <1>3, <1>4, <1>5 DEF ListenerFirst

\* poll reports a hang-up for sockets only (Poller.cpp:76).
LEMMA PollListener ==
    ASSUME Inv, ListenerFirst, Poll
    PROVE  ListenerFirst'
<1>1. /\ revents' = [i \in DOMAIN m_pfds |-> Revents(m_pfds[i])] /\ m_dropped_fds = <<>>
      /\ UNCHANGED <<fdTable, m_pfds, m_clients, m_dropped_fds>>
  BY DEF Poll, Inv, Loop
<1>2. ASSUME NEW i \in DOMAIN m_pfds, Revents(m_pfds[i]) = "hup"
      PROVE  m_pfds[i] \in m_clients
  <2>1. m_pfds[i] # BadFd /\ m_pfds[i] \in Fd
    BY <1>2 DEF Revents, Inv, TypeOK
  <2>2. fdTable[m_pfds[i]].kind = "sock"
    BY <1>2, <2>1 DEF Revents, Inv, TypeOK, FdEntry
  <2> QED
    BY <2>1, <2>2 DEF Inv, Polled, SockFd
<1> QED
  BY <1>1, <1>2 DEF ListenerFirst

\* Dropping a descriptor leaves the listener first (Poller.cpp:173-201).
LEMMA DropFdListener ==
    ASSUME Inv, ListenerFirst, DropFd
    PROVE  ListenerFirst'
<1> DEFINE f == Head(m_dropped_fds)
<1>1. /\ pc' = "drop" /\ m_dropped_fds # <<>> /\ Erase(f) /\ m_dropped_fds' = Tail(m_dropped_fds)
      /\ m_dropped_fds \in Seq(Fd \cup {BadFd})
      /\ UNCHANGED fdTable \/ fdTable' = [fdTable EXCEPT ![f] = Free]
  BY DEF DropFd, Inv, TypeOK
<1>2. f = m_dropped_fds[1] /\ 1 \in DOMAIN m_dropped_fds
  BY <1>1, PopFacts
<1>3. f \in Fd /\ f # Listener
  BY <1>1, <1>2 DEF ListenerFirst, Inv, Loop
<1>4. m_pfds' # <<>> /\ m_pfds'[1] = Listener
  BY <1>1, <1>3, EraseKeeps DEF ListenerFirst
<1>5. fdTable'[Listener].kind = "listener"
  BY <1>1, <1>3 DEF ListenerFirst, Inv, TypeOK
<1>6. \A j \in DOMAIN m_dropped_fds' : m_dropped_fds'[j] # Listener
  BY <1>1, PopFacts DEF ListenerFirst
<1> QED
  BY <1>1, <1>4, <1>5, <1>6 DEF ListenerFirst

\* Every step keeps ListenerFirst.
LEMMA ListenerStep == Inv /\ [Next]_vars /\ ListenerFirst => ListenerFirst'
<1> SUFFICES ASSUME Inv, [Next]_vars, ListenerFirst PROVE ListenerFirst'
  OBVIOUS
<1>1. CASE \/ \E c \in Client : \/ Connect(c) \/ SendSegment(c) \/ Finish(c) \/ Abort(c)
                                \/ ChildWrite(c) \/ ChildExit(c)
           \/ Signal \/ UNCHANGED vars
  <2>1. UNCHANGED <<fdTable, pc, m_pfds, m_clients, m_dropped_fds, revents>>
    BY <1>1 DEF Connect, SendSegment, Finish, Abort, ChildWrite, ChildExit, Signal, vars,
       threadVars
  <2> QED
    BY <2>1 DEF ListenerFirst
<1>2. CASE Stop \/ EndScan \/ EndPass
  BY <1>2 DEF ListenerFirst, Stop, EndScan, EndPass
<1>3. CASE AddNew \/ AddPipe
  <2>1. /\ pc' = "add" /\ UNCHANGED <<fdTable, m_dropped_fds>>
        /\ UNCHANGED m_pfds \/ \E f : m_pfds' = Append(m_pfds, f)
    BY <1>3 DEF AddNew, AddPipe
  <2>2. m_pfds \in Seq(Fd \cup {BadFd}) /\ m_pfds # <<>>
    BY DEF ListenerFirst, Inv, TypeOK
  <2>3. m_pfds' # <<>> /\ m_pfds'[1] = m_pfds[1]
    BY <2>1, <2>2
  <2> QED
    BY <2>1, <2>3 DEF ListenerFirst
<1>4. CASE Poll \/ DropFd
  BY <1>4, PollListener, DropFdListener
<1>5. CASE \E i \in DOMAIN m_pfds : Handles(i)
  BY <1>5, HandlesListener
<1> QED
  BY <1>1, <1>2, <1>3, <1>4, <1>5 DEF Next, Thread, Environment, Handles

\* In the sequence s, every p comes after a k.
After(k, p, s) == \A j \in DOMAIN s : s[j] = p => \E l \in 1..j - 1 : s[l] = k

\* Pushing something else keeps the order, and pushing k itself makes it.
LEMMA ConsAfter ==
    ASSUME NEW S, NEW s \in Seq(S), NEW e \in S, NEW k, NEW p, e # p,
           After(k, p, s) \/ e = k
    PROVE  After(k, p, Cons(e, s))
<1> SUFFICES ASSUME NEW j \in DOMAIN Cons(e, s), Cons(e, s)[j] = p
             PROVE  \E l \in 1..j - 1 : Cons(e, s)[l] = k
  BY DEF After
<1>1. j \in Nat /\ j # 1 /\ j - 1 \in DOMAIN s /\ s[j - 1] = p /\ Cons(e, s)[1] = e
  <2>1. Cons(e, s) \in Seq(S) /\ Cons(e, s)[1] = e
    BY ConsFacts
  <2>2. j \in Nat /\ j # 1
    BY <2>1
  <2>3. \A l \in DOMAIN Cons(e, s) : l # 1 => l - 1 \in DOMAIN s /\ Cons(e, s)[l] = s[l - 1]
    BY ConsFacts
  <2>4. j - 1 \in DOMAIN s /\ Cons(e, s)[j] = s[j - 1]
    BY <2>2, <2>3, Zenon
  <2> QED
    BY <2>1, <2>2, <2>4
<1>2. CASE e = k
  <2>1. 1 \in 1..j - 1
    BY <1>1
  <2> QED
    BY <1>1, <1>2, <2>1
<1>3. CASE After(k, p, s)
  <2>1. PICK l \in 1..(j - 1) - 1 : s[l] = k
    BY <1>1, <1>3 DEF After
  <2>2. l \in DOMAIN s /\ l + 1 \in 1..j - 1
    BY <1>1, <2>1
  <2>3. Cons(e, s)[l + 1] = k
    BY <2>1, <2>2, ConsFacts
  <2> QED
    BY <2>2, <2>3
<1> QED
  BY <1>2, <1>3

\* A handler pushes a pipe under the connection it belongs to (Poller.cpp:310-322).
LEMMA HandlesBefore ==
    ASSUME Inv, ListenerFirst, ClientBeforePipe, NEW i \in DOMAIN m_pfds, Handles(i)
    PROVE  ClientBeforePipe'
<1> DEFINE S == Fd \cup {BadFd}
<1>1. Busy /\ Reached(i) /\ i \in DOMAIN revents /\ m_pfds[i] \in Fd /\ Open' = Open
  BY HandlesEvents, ReachedFacts DEF Open
<1>2. /\ m_dropped_fds \in Seq(S) /\ m_pfds[i] \in S
      /\ \A j \in DOMAIN m_dropped_fds : m_dropped_fds[j] \in Fd
                                         /\ fdTable[m_dropped_fds[j]].kind # "free"
  <2>1. m_dropped_fds \in Seq(S) /\ m_pfds[i] \in S
    BY <1>1 DEF Inv, TypeOK
  <2>2. \A j \in DOMAIN m_dropped_fds : m_dropped_fds[j] \in Fd
    BY <2>1 DEF Inv, Loop
  <2>3. \A j \in DOMAIN m_dropped_fds : fdTable[m_dropped_fds[j]].kind # "free"
    BY <1>1 DEF ListenerFirst, Busy
  <2> QED
    BY <2>1, <2>2, <2>3
<1> SUFFICES ASSUME NEW k \in Open
             PROVE  After(k, conn'[k].pipeFd, m_dropped_fds')
  BY <1>1 DEF ClientBeforePipe, After
<1>3. After(k, conn[k].pipeFd, m_dropped_fds)
  BY DEF ClientBeforePipe, After
<1>4. CASE conn'[k].pipeFd # conn[k].pipeFd
  <2>1. conn'[k].pipeFd \in FreeFd /\ UNCHANGED m_dropped_fds
    BY <1>4, HandlesConn
  <2> QED
    BY <1>2, <2>1 DEF FreeFd, After
<1>5. CASE conn'[k].pipeFd = conn[k].pipeFd
  <2> DEFINE p == conn[k].pipeFd
  <2>1. p # NoFd => fdTable[p].kind = "pipe"
    BY OpenFacts
  <2>2. ASSUME NEW g \in Open PROVE g # p /\ g \in S
    <3>1. g \in Fd /\ fdTable[g].kind = "sock"
      BY OpenFacts DEF SockFd
    <3> QED
      BY <2>1, <3>1
  <2>3. revents[i] \in {"hup", "out"} => m_pfds[i] \in m_clients
    BY <1>1 DEF ListenerFirst, Inv, Loop, Busy
  <2>4. CASE UNCHANGED m_dropped_fds
    BY <1>3, <1>5, <2>4
  <2>5. CASE m_dropped_fds' = Cons(m_pfds[i], m_dropped_fds) /\ m_pfds[i] \in m_clients
    <3>1. m_pfds[i] # p
      BY <1>1, <2>2, <2>5 DEF Open
    <3>2. After(k, p, Cons(m_pfds[i], m_dropped_fds))
      BY <1>2, <1>3, <3>1, ConsAfter
    <3> QED
      BY <1>5, <2>5, <3>2
  <2>6. ASSUME NEW g \in m_clients, conn[g].pipeFd = m_pfds[i],
               m_dropped_fds' = Cons(g, Cons(m_pfds[i], m_dropped_fds))
        PROVE  After(k, p, m_dropped_fds')
    <3> DEFINE t == Cons(m_pfds[i], m_dropped_fds)
    <3>1. g \in Open /\ fdTable[m_pfds[i]].owner = Owner(g)
      BY <1>1, <2>6, PipeFacts
    <3>2. g # p /\ g \in S /\ t \in Seq(S)
      BY <1>2, <2>2, <3>1, ConsFacts
    <3>3. CASE m_pfds[i] = p
      <4>1. fdTable[p].owner = Owner(k)
        BY <1>1, <3>3, PipeFacts DEF Open
      <4>2. k \in SockFd /\ g \in SockFd /\ Owner(g) = Owner(k)
        BY <3>1, <3>3, <4>1, OpenFacts
      <4>3. g = k
        BY <4>2 DEF Inv, Sockets
      <4> HIDE DEF t
      <4>4. After(k, p, Cons(g, t))
        BY <3>2, <4>3, ConsAfter
      <4> QED
        BY <2>6, <4>4 DEF t
    <3>4. CASE m_pfds[i] # p
      <4>1. After(k, p, t)
        BY <1>2, <1>3, <3>4, ConsAfter
      <4> HIDE DEF t
      <4>2. After(k, p, Cons(g, t))
        BY <3>2, <4>1, ConsAfter
      <4> QED
        BY <2>6, <4>2 DEF t
    <3> QED
      BY <3>3, <3>4
  <2>7. After(k, p, m_dropped_fds')
    BY <1>5, <2>3, <2>4, <2>5, <2>6, HandlesStack
  <2> QED
    BY <1>5, <2>7
<1> QED
  BY <1>4, <1>5

\* What dropping a descriptor does to the connections that stay.
LEMMA DropFdFacts ==
    ASSUME Inv, DropFd
    PROVE  /\ m_dropped_fds # <<>> /\ m_dropped_fds' = Tail(m_dropped_fds)
           /\ m_dropped_fds \in Seq(Fd \cup {BadFd})
           /\ m_dropped_fds[1] \in Fd /\ Erase(m_dropped_fds[1]) /\ 1 \in DOMAIN m_dropped_fds
           /\ Open' = Open \ {m_dropped_fds[1]}
           /\ \A k \in Open' : conn'[k] = conn[k]
<1> DEFINE f == Head(m_dropped_fds)
<1>1. /\ m_dropped_fds # <<>> /\ Erase(f) /\ m_dropped_fds' = Tail(m_dropped_fds)
      /\ m_dropped_fds \in Seq(Fd \cup {BadFd})
  BY DEF DropFd, Inv, TypeOK
<1>2. f = m_dropped_fds[1] /\ 1 \in DOMAIN m_dropped_fds /\ f \in Fd
  <2>1. f = m_dropped_fds[1] /\ 1 \in DOMAIN m_dropped_fds
    BY <1>1, PopFacts
  <2> QED
    BY <1>1, <2>1 DEF Inv, Loop
<1>3. Open' = Open \ {f}
  BY <1>2 DEF DropFd, Open
<1>4. \A k \in Open' : conn'[k] = conn[k]
  <2>1. UNCHANGED conn \/ conn' = [conn EXCEPT ![f] = NewConnection]
    BY DEF DropFd
  <2>2. conn \in [Fd \cup {BadFd} -> Connection] /\ Open \subseteq Fd
    BY OpenFacts DEF Inv, TypeOK
  <2> HIDE DEF f
  <2> QED
    BY <1>3, <2>1, <2>2
<1> QED
  BY <1>1, <1>2, <1>3, <1>4

\* Popping a connection that is not k leaves k above its pipe (Poller.cpp:176-198).
LEMMA DropFdBefore ==
    ASSUME Inv, ClientBeforePipe, DropFd
    PROVE  ClientBeforePipe'
<1> SUFFICES ASSUME NEW k \in Open', NEW j \in DOMAIN m_dropped_fds',
                    m_dropped_fds'[j] = conn'[k].pipeFd
             PROVE  \E l \in 1..j - 1 : m_dropped_fds'[l] = k
  BY DEF ClientBeforePipe
<1>1. k \in Open /\ k # m_dropped_fds[1] /\ conn'[k] = conn[k]
  BY DropFdFacts
<1>2. /\ j \in Nat /\ j + 1 \in DOMAIN m_dropped_fds
      /\ m_dropped_fds[j + 1] = conn[k].pipeFd
      /\ \A l \in DOMAIN m_dropped_fds : l # 1 => l - 1 \in DOMAIN m_dropped_fds'
                                            /\ m_dropped_fds'[l - 1] = m_dropped_fds[l]
  <2>1. m_dropped_fds' \in Seq(Fd \cup {BadFd})
    BY DropFdFacts, PopFacts
  <2> QED
    BY <1>1, <2>1, DropFdFacts, PopFacts
<1>3. PICK l \in 1..(j + 1) - 1 : m_dropped_fds[l] = k
  BY <1>1, <1>2 DEF ClientBeforePipe
<1>4. l # 1 /\ l \in DOMAIN m_dropped_fds /\ l - 1 \in 1..j - 1
  BY <1>1, <1>2, <1>3, DropFdFacts
<1> QED
  BY <1>2, <1>3, <1>4

\* Every step keeps the order of the stack.
LEMMA BeforeStep ==
    Inv /\ [Next]_vars /\ ListenerFirst /\ ClientBeforePipe => ClientBeforePipe'
<1> SUFFICES ASSUME Inv, [Next]_vars, ListenerFirst, ClientBeforePipe
             PROVE  ClientBeforePipe'
  OBVIOUS
<1>1. CASE \/ \E c \in Client : \/ Connect(c) \/ SendSegment(c) \/ Finish(c) \/ Abort(c)
                                \/ ChildWrite(c) \/ ChildExit(c)
           \/ Signal \/ UNCHANGED vars \/ Poll \/ Stop \/ EndScan
  <2>1. UNCHANGED <<m_clients, conn, m_dropped_fds>>
    BY <1>1 DEF Connect, SendSegment, Finish, Abort, ChildWrite, ChildExit, Signal, vars,
       threadVars, Poll, Stop, EndScan
  <2> QED
    BY <2>1 DEF ClientBeforePipe, Open
<1>2. CASE AddNew \/ AddPipe \/ EndPass
  <2>1. m_dropped_fds' = <<>>
    BY <1>2 DEF AddNew, AddPipe, EndPass, Inv, Loop
  <2> QED
    BY <2>1 DEF ClientBeforePipe
<1>3. CASE DropFd
  BY <1>3, DropFdBefore
<1>4. CASE \E i \in DOMAIN m_pfds : Handles(i)
  BY <1>4, HandlesBefore
<1> QED
  BY <1>1, <1>2, <1>3, <1>4 DEF Next, Thread, Environment, Handles

-----------------------------------------------------------------------------
(* Every connection is polled, and so is its pipe. *)

\* What Listed says of one connection.
Lists(k) ==
    /\ k \in Range(m_pfds)
    /\ conn[k].m_cgi_added => conn[k].pipeFd # NoFd /\ conn[k].pipeFd \in Range(m_pfds)

\* Appending an entry keeps the others.
LEMMA AppendKeeps ==
    ASSUME NEW S, NEW s \in Seq(S), NEW e
    PROVE  Range(Append(s, e)) = Range(s) \cup {e}
<1>1. /\ DOMAIN Append(s, e) = 1..Len(s) + 1 /\ DOMAIN s = 1..Len(s) /\ Len(s) \in Nat
      /\ Append(s, e)[Len(s) + 1] = e /\ \A j \in 1..Len(s) : Append(s, e)[j] = s[j]
  OBVIOUS
<1>2. Range(Append(s, e)) \subseteq Range(s) \cup {e}
  <2> SUFFICES ASSUME NEW j \in DOMAIN Append(s, e)
               PROVE  Append(s, e)[j] \in Range(s) \cup {e}
    BY DEF Range
  <2>1. j = Len(s) + 1 \/ j \in DOMAIN s
    BY <1>1
  <2> QED
    BY <1>1, <2>1 DEF Range
<1>3. Len(s) + 1 \in DOMAIN Append(s, e) /\ \A j \in DOMAIN s : j \in DOMAIN Append(s, e)
  BY <1>1
<1>4. Range(s) \cup {e} \subseteq Range(Append(s, e))
  BY <1>1, <1>3 DEF Range
<1> QED
  BY <1>2, <1>4

\* Dropping a descriptor keeps the entries of the connections that stay.
LEMMA DropFdListed ==
    ASSUME Inv, ListenerFirst, ClientBeforePipe, Listed, DropFd
    PROVE  Listed'
<1> SUFFICES ASSUME NEW k \in Open' PROVE Lists(k)'
  BY DEF Listed, Lists, DropFd
<1> DEFINE f == m_dropped_fds[1]
<1>1. k \in Open /\ k # f /\ conn'[k] = conn[k] /\ f \in Fd /\ Erase(f) /\ 1 \in DOMAIN m_dropped_fds
  BY DropFdFacts
<1>2. \A g \in Range(m_pfds) : g # f => g \in Range(m_pfds')
  BY <1>1, EraseKeeps
<1>3. conn[k].pipeFd # f
  BY <1>1 DEF ClientBeforePipe
<1> QED
  BY <1>1, <1>2, <1>3 DEF Listed, Lists

\* A connection that is added is polled from then on (Poller.cpp:148-160).
LEMMA AddNewListed ==
    ASSUME Inv, Listed, AddNew
    PROVE  Listed'
<1>1. pc = "drop" /\ pc' = "add" /\ UNCHANGED conn
  BY DEF AddNew
<1> SUFFICES ASSUME NEW k \in Open' PROVE Lists(k)'
  BY <1>1 DEF Listed, Lists
<1>2. m_pfds \in Seq(Fd \cup {BadFd})
  BY DEF Inv, TypeOK
<1>3. CASE m_new_connection = NoFd
  BY <1>1, <1>3 DEF AddNew, Open, Listed, Lists
<1>4. CASE m_new_connection # NoFd
  <2>1. /\ Open' = (Open \cup {m_new_connection}) \ {BadFd}
        /\ m_pfds' = Append(m_pfds, m_new_connection)
    BY <1>4 DEF AddNew, Open
  <2>2. Range(m_pfds') = Range(m_pfds) \cup {m_new_connection}
    BY <1>2, <2>1, AppendKeeps
  <2>3. CASE k \in Open
    BY <1>1, <2>2, <2>3 DEF Listed, Lists
  <2>4. CASE k \notin Open
    <3>1. k = m_new_connection /\ k \in Fd
      BY <1>4, <2>1, <2>4 DEF Inv, TypeOK
    <3>2. ~conn[k].m_cgi_added
      BY <2>4, <3>1 DEF Inv, Pipes, NewConnection
    <3> QED
      BY <1>1, <2>2, <3>1, <3>2 DEF Lists
  <2> QED
    BY <2>3, <2>4
<1> QED
  BY <1>3, <1>4

\* So is a pipe (Poller.cpp:162-170).
LEMMA AddPipeListed ==
    ASSUME Inv, Listed, AddPipe
    PROVE  Listed'
<1>1. pc' = "add" /\ Open' = Open /\ m_pfds \in Seq(Fd \cup {BadFd})
  BY DEF AddPipe, Open, Inv, TypeOK
<1> SUFFICES ASSUME NEW k \in Open PROVE Lists(k)'
  BY <1>1 DEF Listed, Lists
<1>2. PICK g \in Unadded : /\ m_pfds' = Append(m_pfds, conn[g].pipeFd)
                           /\ conn' = [conn EXCEPT ![g].m_cgi_added = TRUE]
  BY DEF AddPipe
<1>3. conn[g].pipeFd # NoFd
  BY DEF Unadded
<1>4. /\ conn \in [Fd \cup {BadFd} -> Connection] /\ k \in Fd \cup {BadFd}
      /\ conn[k] \in Connection
  BY OpenFacts DEF Inv, TypeOK
<1>5. Range(m_pfds') = Range(m_pfds) \cup {conn[g].pipeFd}
  BY <1>1, <1>2, AppendKeeps
<1>6. conn'[k].pipeFd = conn[k].pipeFd
  BY <1>2, <1>4 DEF Connection
<1>7. k # g => conn'[k] = conn[k]
  BY <1>2, <1>4
<1> QED
  BY <1>3, <1>5, <1>6, <1>7 DEF Listed, Lists

\* Every step keeps Listed.
LEMMA ListedStep ==
    Inv /\ [Next]_vars /\ ListenerFirst /\ ClientBeforePipe /\ Listed => Listed'
<1> SUFFICES ASSUME Inv, [Next]_vars, ListenerFirst, ClientBeforePipe, Listed PROVE Listed'
  OBVIOUS
<1>1. CASE \/ \E c \in Client : \/ Connect(c) \/ SendSegment(c) \/ Finish(c) \/ Abort(c)
                                \/ ChildWrite(c) \/ ChildExit(c)
           \/ Signal \/ UNCHANGED vars
  <2>1. UNCHANGED <<pc, m_pfds, m_clients, conn>>
    BY <1>1 DEF Connect, SendSegment, Finish, Abort, ChildWrite, ChildExit, Signal, vars,
       threadVars
  <2> QED
    BY <2>1 DEF Listed, Open, Unadded
<1>2. CASE Poll \/ Stop \/ EndScan \/ EndPass
  <2>1. UNCHANGED <<m_pfds, m_clients, conn>> /\ (pc' = "poll" => Unadded = {})
    BY <1>2 DEF Poll, Stop, EndScan, EndPass
  <2> QED
    BY <2>1 DEF Listed, Open, Unadded
<1>3. CASE DropFd \/ AddNew \/ AddPipe
  BY <1>3, DropFdListed, AddNewListed, AddPipeListed
<1>4. ASSUME NEW i \in DOMAIN m_pfds, Handles(i) PROVE Listed'
  <2>1. UNCHANGED <<m_pfds, m_clients>> /\ pc' # "poll" /\ Open' = Open
    BY <1>4, HandlesEvents DEF Open
  <2>2. ASSUME NEW k \in Open PROVE Lists(k)'
    <3>1. Lists(k)
      BY DEF Listed, Lists
    <3>2. conn'[k].m_cgi_added = conn[k].m_cgi_added
          /\ (conn'[k].pipeFd = conn[k].pipeFd \/ conn[k].pipeFd = NoFd)
      BY <1>4, HandlesConn
    <3> QED
      BY <2>1, <3>1, <3>2 DEF Lists
  <2> QED
    BY <2>1, <2>2 DEF Listed, Lists
<1> QED
  BY <1>1, <1>2, <1>3, <1>4 DEF Next, Thread, Environment, Handles

-----------------------------------------------------------------------------
(* Together. *)

\* The loop starts with the listener alone (Poller.cpp:124-141).
LEMMA InitAccounts == Init => Accounts
<1> SUFFICES ASSUME Init PROVE Accounts
  OBVIOUS
<1>1. Listener \in Fd /\ fdTable[Listener].kind = "listener" /\ SockFd = {} /\ Open = {}
  BY DEF Init, SockFd, Free, Open
<1>2. m_pfds # <<>> /\ m_pfds[1] = Listener /\ m_dropped_fds = <<>>
  BY DEF Init
<1>3. Unadded = {}
  BY DEF Init, Unadded
<1> QED
  BY <1>1, <1>2, <1>3 DEF Init, Accounts, Owned, Quiet, ListenerFirst, ClientBeforePipe, Listed

\* Every step keeps Accounts.
LEMMA AccountsStep == Inv /\ [Next]_vars /\ Accounts => Accounts'
BY OwnedStep, QuietStep, ListenerStep, BeforeStep, ListedStep DEF Accounts

\* The sockets, the entries of m_pfds and the stack are in order in every state
\* (Poller.cpp:42-201, Socket.cpp:29-35).
THEOREM Accounted == Spec => []Accounts
<1>1. Init => Accounts
  BY InitAccounts
<1>2. Inv /\ [Next]_vars /\ Accounts => Accounts'
  BY AccountsStep
<1> QED
  BY <1>1, <1>2, Invariance, PTL DEF Spec

\* No socket leaks, whatever the clients do and however descriptors are reused:
\* every accepted connection has one socket, in the map or about to be added,
\* until its Connection is deleted (Socket.cpp:29-35, Poller.cpp:118-201).
THEOREM SocketsAccounted == Spec => []SocketAccounted
<1>1. ASSUME Inv, Accounts PROVE SocketAccounted
  <2> DEFINE Of(c) == {f \in Fd : fdTable[f].kind = "sock" /\ Owner(f) = c}
             None(c) == \/ sock[c] \in {"away", "closed"}
                        \/ \E i \in DOMAIN backlog : backlog[i] = c
  <2>1. SockFd = (m_clients \cup {m_new_connection}) \ {BadFd, NoFd}
    <3>1. m_clients \subseteq Fd \cup {BadFd} /\ m_new_connection \in Fd \cup {BadFd, NoFd}
      BY <1>1 DEF Inv, TypeOK
    <3>2. SockFd \subseteq Fd /\ BadFd \notin Fd /\ NoFd \notin Fd
      BY DEF SockFd
    <3>3. /\ m_clients \ {BadFd} \subseteq SockFd
          /\ SockFd \subseteq (m_clients \ {BadFd}) \cup {m_new_connection}
          /\ m_new_connection \in Fd => m_new_connection \in SockFd
      BY <1>1 DEF Inv, Descriptors, Open
    <3> HIDE DEF BadFd, NoFd
    <3> QED
      BY <3>1, <3>2, <3>3
  <2>2. ASSUME NEW c \in Client, None(c) PROVE Of(c) = {}
    <3>1. \A f \in SockFd : Owner(f) # c
      BY <1>1, <2>2 DEF Accounts, Owned, Inv, Sockets, Range
    <3> QED
      BY <3>1 DEF SockFd
  <2>3. ASSUME NEW c \in Client, ~None(c) PROVE \E f : Of(c) = {f}
    <3>1. PICK f \in SockFd : Owner(f) = c
      BY <1>1, <2>3 DEF Accounts, Owned, Range
    <3>2. \A g \in SockFd : Owner(g) = c => g = f
      BY <1>1, <3>1 DEF Inv, Sockets
    <3>3. Of(c) = {f}
      BY <3>1, <3>2 DEF SockFd
    <3> QED
      BY <3>3
  <2> HIDE DEF Of, None
  <2>4. ASSUME NEW c \in Client PROVE Cardinality(Of(c)) = IF None(c) THEN 0 ELSE 1
    BY <2>2, <2>3, FS_EmptySet, FS_Singleton
  <2> QED
    BY <2>1, <2>4 DEF SocketAccounted, SockFd, Of, None
<1> QED
  BY <1>1, Invariance, Accounted, PTL

\* A client that has been answered is on the stack until it is dropped, even
\* while other handlers run, so it is neither answered again nor kept
\* (Poller.cpp:106, 321).
THEOREM AnsweredAreDropped == Spec => []AnsweredIsDropped
<1>1. ASSUME Inv, Accounts PROVE AnsweredIsDropped
  <2> SUFFICES ASSUME NEW c \in Client, reply[c] # <<>>, sock[c] # "closed", pc # "dead"
               PROVE  \E i \in DOMAIN m_dropped_fds :
                         fdTable[m_dropped_fds[i]] = [kind |-> "sock", owner |-> c]
    BY DEF AnsweredIsDropped
  <2>1. sock[c] # "away" /\ c \notin Range(backlog)
    BY <1>1 DEF Inv, Sockets
  <2>2. PICK f \in SockFd : Owner(f) = c
    BY <1>1, <2>1 DEF Accounts, Owned
  <2>3. Running
    BY <1>1, <2>2 DEF Running, Accounts, Quiet
  <2>4. PICK i \in DOMAIN m_dropped_fds : m_dropped_fds[i] = f
    BY <1>1, <2>2, <2>3 DEF Inv, Once, Range
  <2>5. fdTable[f] = [kind |-> "sock", owner |-> c]
    BY <1>1, <2>2 DEF SockFd, Owner, Inv, TypeOK, FdEntry
  <2> QED
    BY <2>4, <2>5
<1> QED
  BY <1>1, Invariance, Accounted, PTL

\* At the head of the loop m_pfds names the listener first, every connection
\* and every started pipe once, and nothing closed (Poller.cpp:42-58, 148-201).
THEOREM PolledExactlyOnce == Spec => []PolledOnce
<1>1. ASSUME Inv, Accounts PROVE PolledOnce
  <2> SUFFICES ASSUME pc = "poll" PROVE PolledOnce
    BY DEF PolledOnce
  <2>1. \A i, j \in DOMAIN m_pfds : m_pfds[i] = m_pfds[j] /\ m_pfds[i] # BadFd => i = j
    BY <1>1 DEF Inv, Polled
  <2>2. ASSUME NEW f \in Fd, NEW i \in DOMAIN m_pfds, m_pfds[i] = f PROVE Entries(f) = {i}
    BY <2>1, <2>2 DEF Entries
  <2>3. Entries(Listener) = {1}
    <3>1. m_pfds # <<>> /\ m_pfds[1] = Listener /\ m_pfds \in Seq(Fd \cup {BadFd})
      BY <1>1 DEF Accounts, ListenerFirst, Inv, TypeOK
    <3>2. 1 \in DOMAIN m_pfds
      BY <3>1
    <3> QED
      BY <2>2, <3>1, <3>2
  <2>4. ASSUME NEW f \in Fd, f \in Range(m_pfds) PROVE Cardinality(Entries(f)) = 1
    <3>1. PICK i \in DOMAIN m_pfds : m_pfds[i] = f
      BY <2>4 DEF Range
    <3>2. Entries(f) = {i}
      BY <2>2, <3>1
    <3> QED
      BY <3>2, FS_Singleton
  <2>5. ASSUME NEW k \in Open
        PROVE  /\ Cardinality(Entries(k)) = 1
               /\ conn[k].pipeFd # NoFd => Cardinality(Entries(conn[k].pipeFd)) = 1
    <3>1. k \in Fd /\ k \in m_clients /\ conn[k] \in Connection
      BY <1>1, OpenFacts
    <3>2. k \in Range(m_pfds)
      BY <1>1 DEF Accounts, Listed
    <3>3. ASSUME conn[k].pipeFd # NoFd
          PROVE  conn[k].pipeFd \in Fd /\ conn[k].pipeFd \in Range(m_pfds)
      BY <1>1, <3>1, <3>3 DEF Accounts, Listed, Unadded, Connection
    <3> QED
      BY <2>4, <3>1, <3>2, <3>3
  <2>6. \A i \in DOMAIN m_pfds : m_pfds[i] # BadFd => fdTable[m_pfds[i]].kind # "free"
    BY <1>1 DEF Inv, Polled
  <2> QED
    BY <2>3, <2>5, <2>6 DEF PolledOnce, Open
<1> QED
  BY <1>1, Invariance, Accounted, PTL

-----------------------------------------------------------------------------
(* What a CGI program is answered with. *)

\* A child stays with its connection in a step that takes neither away and leaves
\* no event that was not there.
LEMMA ChildedKept ==
    ASSUME Running, NEW f, Childed(f), Owner(f)' = Owner(f),
           conn'[f].isCGI = conn[f].isCGI, conn'[f].pipeFd = conn[f].pipeFd,
           f \in Range(m_dropped_fds) => f \in Range(m_dropped_fds)',
           \/ cgi'[Owner(f)].state = cgi[Owner(f)].state
           \/ cgi[Owner(f)].state = "running" /\ cgi'[Owner(f)].state \in {"ok", "failed"},
           \A j \in DOMAIN revents' \cap DOMAIN m_pfds' : revents'[j] = "in" =>
               j \in DOMAIN revents \cap DOMAIN m_pfds /\ revents[j] = "in" /\ m_pfds[j] = m_pfds'[j]
    PROVE  Childed(f)'
BY DEF Childed

\* A handler takes nothing off the stack and adds no event.
LEMMA HandlesLeaves ==
    ASSUME Inv, NEW i \in DOMAIN m_pfds, Handles(i)
    PROVE  /\ Range(m_dropped_fds) \subseteq Range(m_dropped_fds)' /\ UNCHANGED m_pfds
           /\ \A j \in DOMAIN revents' : j \in DOMAIN revents
                                         /\ (revents'[j] # "none" => revents'[j] = revents[j])
<1>1. /\ Busy /\ Reached(i) /\ UNCHANGED m_pfds /\ (UNCHANGED revents \/ Handled(i))
      /\ m_pfds[i] \in Fd /\ m_dropped_fds \in Stack
  BY HandlesEvents, ReachedFacts, StackFacts
<1>2. \A j \in DOMAIN revents' : j \in DOMAIN revents
                                 /\ (revents'[j] # "none" => revents'[j] = revents[j])
  BY <1>1, HandledFacts
<1>3. CASE m_dropped_fds' = Cons(m_pfds[i], m_dropped_fds)
  BY <1>1, <1>2, <1>3, PushFacts
<1>4. CASE \E k \in m_clients : /\ conn[k].pipeFd = m_pfds[i]
                               /\ m_dropped_fds' = Cons(k, Cons(m_pfds[i], m_dropped_fds))
  <2>1. PICK k \in m_clients : /\ conn[k].pipeFd = m_pfds[i]
                               /\ m_dropped_fds' = Cons(k, Cons(m_pfds[i], m_dropped_fds))
    BY <1>4
  <2>2. k \in Fd
    BY <1>1, <2>1, PipeFacts, OpenFacts
  <2>3. /\ Cons(m_pfds[i], m_dropped_fds) \in Stack
        /\ Range(m_dropped_fds) \subseteq Range(Cons(m_pfds[i], m_dropped_fds))
    BY <1>1, PushFacts
  <2>4. Range(Cons(m_pfds[i], m_dropped_fds)) \subseteq Range(m_dropped_fds')
    BY <2>1, <2>2, <2>3, PushFacts
  <2> QED
    BY <1>1, <1>2, <2>3, <2>4
<1>5. CASE UNCHANGED m_dropped_fds
  BY <1>1, <1>2, <1>5
<1> QED
  BY <1>3, <1>4, <1>5, HandlesStack

\* A handler other than the two about children leaves their states, and what is
\* read from a pipe was there.
LEMMA HandlesChild ==
    ASSUME Inv, NEW i \in DOMAIN m_pfds, Handles(i), ~StartCGI(i), ~CollectCGI(i),
           NEW c \in Client
    PROVE  /\ cgi'[c].state = cgi[c].state
           /\ cgi[c].piped = 0 => cgi'[c].piped = 0
<1>1. cgi \in [Client -> Child] /\ cgi[c].piped \in Nat /\ ReadSize \in Nat \ {0}
  BY SizeAssumption DEF Inv, TypeOK, Child
<1>2. CASE UNCHANGED cgi
  BY <1>2
<1>3. CASE ReadCGI(i)
  <2> DEFINE d == fdTable[m_pfds[i]].owner
             n == IF cgi[d].piped < ReadSize THEN cgi[d].piped ELSE ReadSize
  <2>1. cgi' = [cgi EXCEPT ![d].piped = @ - n]
    BY <1>3 DEF ReadCGI
  <2>2. cgi'[c].state = cgi[c].state
    BY <1>1, <2>1 DEF Child
  <2>3. cgi'[c].piped = cgi[c].piped \/ (c = d /\ cgi'[c].piped = cgi[c].piped - n)
    BY <1>1, <2>1 DEF Child
  <2>4. cgi[c].piped = 0 /\ c = d => n = 0
    BY <1>1
  <2> HIDE DEF d, n
  <2> QED
    BY <1>1, <2>2, <2>3, <2>4
<1>4. CASE \/ HangUp(i) \/ Accept(i) \/ AcceptFails(i) \/ RecvData(i) \/ RecvNothing(i)
           \/ RecvNoConnection(i) \/ RespondNothing(i) \/ RespondBadRequest(i)
           \/ ParseEndless(i) \/ RespondAbsent(i) \/ RespondFile(i) \/ SendBlocks(i)
           \/ StartCGIFails(i) \/ AwaitCGI(i) \/ FinishSend(i)
  BY <1>2, <1>4 DEF HangUp, Accept, AcceptFails, RecvData, RecvNothing, RecvNoConnection,
     RespondNothing, RespondBadRequest, ParseEndless, RespondAbsent, RespondFile, SendBlocks,
     StartCGIFails, AwaitCGI, FinishSend
<1> QED
  BY <1>3, <1>4 DEF Handles, Handler

\* A handler makes no client arrive.
LEMMA HandlesArrivals ==
    ASSUME Inv, NEW i \in DOMAIN m_pfds, Handles(i), NEW c \in Client,
           sock'[c] = "away" \/ c \in Range(backlog)'
    PROVE  sock[c] = "away" \/ c \in Range(backlog)
<1>1. CASE Accept(i)
  <2>1. /\ backlog \in Seq(Client) /\ backlog # <<>> /\ backlog' = Tail(backlog)
        /\ UNCHANGED sock
    BY <1>1 DEF Accept, Inv, TypeOK
  <2>2. \A j \in DOMAIN backlog' : j + 1 \in DOMAIN backlog /\ backlog'[j] = backlog[j + 1]
    BY <2>1, PopFacts
  <2> QED
    BY <2>1, <2>2 DEF Range
<1>2. CASE RecvNothing(i)
  <2>1. UNCHANGED backlog /\ sock'[c] = "away" => sock[c] = "away"
    BY <1>2 DEF RecvNothing, Inv, TypeOK
  <2>2. UNCHANGED backlog
    BY <1>2 DEF RecvNothing
  <2> QED
    BY <2>1, <2>2
<1>3. CASE \/ HangUp(i) \/ AcceptFails(i) \/ RecvData(i) \/ RecvNoConnection(i) \/ ReadCGI(i)
           \/ CollectCGI(i) \/ RespondNothing(i) \/ RespondBadRequest(i) \/ ParseEndless(i)
           \/ RespondAbsent(i) \/ RespondFile(i) \/ SendBlocks(i) \/ StartCGI(i)
           \/ StartCGIFails(i) \/ AwaitCGI(i) \/ FinishSend(i)
  <2>1. UNCHANGED <<sock, backlog>>
    BY <1>3 DEF HangUp, AcceptFails, RecvData, RecvNoConnection, ReadCGI, CollectCGI,
       RespondNothing, RespondBadRequest, ParseEndless, RespondAbsent, RespondFile,
       SendBlocks, StartCGI, StartCGIFails, AwaitCGI, FinishSend, clientVars
  <2> QED
    BY <2>1
<1> QED
  BY <1>1, <1>2, <1>3 DEF Handles, Handler

\* A handler keeps the child of a connection, if it is not about that child.
LEMMA HandlesOthers ==
    ASSUME Inv, NEW i \in DOMAIN m_pfds, Handles(i), NEW f \in SockFd, Childed(f),
           cgi'[Owner(f)].state = cgi[Owner(f)].state,
           conn'[f].isCGI = conn[f].isCGI, conn'[f].pipeFd = conn[f].pipeFd
    PROVE  Childed(f)'
<1>1. Running
  BY HandlesEvents DEF Busy, Running
<1>2. Owner(f)' = Owner(f)
  BY HandlesTable DEF Owner, SockFd
<1>3. \A j \in DOMAIN revents' \cap DOMAIN m_pfds' : revents'[j] = "in" =>
         j \in DOMAIN revents \cap DOMAIN m_pfds /\ revents[j] = "in" /\ m_pfds[j] = m_pfds'[j]
  BY HandlesLeaves
<1>4. f \in Range(m_dropped_fds) => f \in Range(m_dropped_fds)'
  BY HandlesLeaves
<1> QED
  BY <1>1, <1>2, <1>3, <1>4, ChildedKept

\* A Connection that is not in the map has been given nothing yet.
LEMMA NotAdded == ASSUME Inv, NEW f \in SockFd, f \notin Open PROVE conn[f] = NewConnection
BY DEF Inv, Pipes, SockFd

\* Every handler but two leaves the children with their connections.
LEMMA HandlesReaping ==
    ASSUME Inv, Inv', Reaping, NEW i \in DOMAIN m_pfds, Handles(i), ~StartCGI(i),
           ~CollectCGI(i), NEW f \in SockFd'
    PROVE  Childed(f)'
<1>1. CASE f \in SockFd
  <2>1. cgi'[Owner(f)].state = cgi[Owner(f)].state
    <3>1. Owner(f) \in Client
      BY <1>1 DEF Inv, Descriptors, SockFd
    <3> QED
      BY <3>1, HandlesChild
  <2>2. conn'[f].isCGI = conn[f].isCGI /\ conn'[f].pipeFd = conn[f].pipeFd
    <3>1. Open' = Open
      BY HandlesEvents DEF Open
    <3>2. CASE f \in Open
      BY <3>2, HandlesPipe
    <3>3. CASE f \notin Open
      <4>1. conn[f] = NewConnection
        BY <1>1, <3>3, NotAdded
      <4>2. conn'[f] = NewConnection
        BY <3>1, <3>3 DEF Inv, Pipes, SockFd
      <4> QED
        BY <4>1, <4>2
    <3> QED
      BY <3>2, <3>3
  <2> QED
    BY <1>1, <2>1, <2>2, HandlesOthers DEF Reaping
<1>2. CASE f \notin SockFd
  <2>1. Accept(i)
    BY <1>2, HandlesTable
  <2>2. PICK g \in FreeFd :
           fdTable' = [fdTable EXCEPT ![g] = [kind |-> "sock", owner |-> Head(backlog)]]
    BY <2>1 DEF Accept
  <2>3. /\ fdTable \in [Fd -> FdEntry] /\ backlog \in Seq(Client) /\ backlog # <<>>
        /\ UNCHANGED <<cgi, conn, m_pfds, m_clients>>
    BY <2>1 DEF Accept, Inv, TypeOK
  <2>4. f = g /\ Owner(f)' = Head(backlog)
    <3>1. f \in Fd /\ fdTable'[f].kind = "sock" /\ fdTable[f].kind # "sock"
      BY <1>2 DEF SockFd
    <3> QED
      BY <2>2, <2>3, <3>1 DEF Owner
  <2>5. Head(backlog) \in Client /\ Head(backlog) \in Range(backlog)
    BY <2>3, PopFacts DEF Range
  <2>6. cgi'[Owner(f)'].state = "none"
    BY <2>3, <2>4, <2>5 DEF Reaping, Childless
  <2>7. conn'[f].pipeFd = NoFd
    <3>1. f \notin Open
      BY <1>2 DEF Inv, Descriptors
    <3>2. conn[f] = NewConnection
      BY <3>1 DEF Inv, Pipes, SockFd
    <3> QED
      BY <2>3, <3>2 DEF NewConnection
  <2>8. \A j \in DOMAIN m_pfds' : m_pfds'[j] # NoFd
    BY FdAssumption DEF Inv, TypeOK
  <2> QED
    BY <2>6, <2>7, <2>8 DEF Childed
<1> QED
  BY <1>1, <1>2

\* A child that has been waited for leaves with its connection (Poller.cpp:310-322).
LEMMA CollectReaping ==
    ASSUME Inv, Reaping, NEW i \in DOMAIN m_pfds, CollectCGI(i)
    PROVE  Childless' /\ \A f \in SockFd' : Childed(f)'
<1> DEFINE d == fdTable[m_pfds[i]].owner
<1>1. /\ Handles(i) /\ Reached(i) /\ Busy /\ m_pfds[i] \in Fd /\ Handled(i)
  <2>1. Handles(i)
    BY DEF Handles, Handler
  <2> QED
    BY <2>1, HandlesEvents, ReachedFacts DEF CollectCGI
<1>2. PICK k \in m_clients :
         /\ conn[k].pipeFd = m_pfds[i] /\ cgi' = [cgi EXCEPT ![d].state = "reaped"]
         /\ m_dropped_fds' = Cons(k, Cons(m_pfds[i], m_dropped_fds))
  BY DEF CollectCGI
<1>3. /\ k \in Open /\ k \in SockFd /\ k \in Fd /\ d = Owner(k) /\ d \in Client
      /\ conn[k].isCGI
  BY <1>1, <1>2, PipeFacts, OpenFacts
<1>4. UNCHANGED <<clientVars, fdTable, m_pfds, m_clients, conn>>
  BY DEF CollectCGI
<1>5. /\ cgi \in [Client -> Child] /\ cgi'[d].state = "reaped"
      /\ \A c \in Client : c # d => cgi'[c] = cgi[c]
  BY <1>2, <1>3 DEF Inv, TypeOK, Child
<1> HIDE DEF d
<1>6. SockFd' = SockFd /\ \A f \in SockFd : Owner(f)' = Owner(f) /\ Owner(f) \in Client
  BY <1>4 DEF SockFd, Owner, Inv, Descriptors
<1>7. Childless'
  <2>1. ~(sock[d] = "away" \/ d \in Range(backlog))
    BY <1>3 DEF Inv, Sockets
  <2> QED
    BY <1>4, <1>5, <2>1 DEF Reaping, Childless, clientVars
<1>8. ASSUME NEW f \in SockFd, f # k PROVE Childed(f)'
  <2>1. Owner(f) # d
    BY <1>3, <1>8 DEF Inv, Sockets
  <2> QED
    BY <1>1, <1>4, <1>5, <1>6, <2>1, <1>8, HandlesOthers DEF Reaping
<1>9. Childed(k)'
  <2>1. k \in Range(m_dropped_fds)'
    <3>1. Cons(m_pfds[i], m_dropped_fds) \in Stack
      BY <1>1, StackFacts, PushFacts
    <3> QED
      BY <1>2, <1>3, <3>1, PushFacts
  <2>2. ASSUME NEW j \in DOMAIN revents' \cap DOMAIN m_pfds', revents'[j] = "in",
               m_pfds'[j] = conn'[k].pipeFd
        PROVE  FALSE
    <3>1. m_pfds[j] = m_pfds[i] /\ j \in DOMAIN m_pfds
      BY <1>2, <1>4, <2>2
    <3>2. j = i
      BY <1>1, <3>1 DEF Inv, Polled
    <3>3. revents'[i] = "none"
      BY <1>1, HandledFacts, ReachedFacts
    <3> QED
      BY <2>2, <3>2, <3>3
  <2>3. Owner(k)' = d /\ conn'[k].isCGI
    BY <1>3, <1>4, <1>6
  <2> QED
    BY <2>1, <2>2, <2>3 DEF Childed
<1> QED
  BY <1>6, <1>7, <1>8, <1>9

\* A connection's program is started when it has none (Poller.cpp:221-232).
LEMMA StartReaping ==
    ASSUME Inv, Reaping, NEW i \in DOMAIN m_pfds, StartCGI(i)
    PROVE  /\ Childless' /\ \A f \in SockFd' : Childed(f)'
           /\ cgi[Owner(m_pfds[i])].state = "none"
<1> DEFINE k == m_pfds[i]
           c == fdTable[m_pfds[i]].owner
<1>1. /\ Handles(i) /\ Reached(i) /\ Busy /\ revents[i] = "out" /\ ~conn[k].isCGI
      /\ UNCHANGED <<clientVars, m_pfds, m_clients>>
  <2>1. Handles(i)
    BY DEF Handles, Handler
  <2> QED
    BY <2>1, HandlesEvents DEF StartCGI, Asks, Handling
<1>2. k \in Open /\ k \in SockFd /\ k \in Fd /\ c = Owner(k) /\ c \in Client
  BY <1>1, ReachedFacts DEF Owner
<1>3. cgi[c].state = "none"
  BY <1>1, <1>2 DEF Reaping, Childed
<1>4. PICK r \in FreeFd : conn' = [conn EXCEPT ![k] = [Parsed(k) EXCEPT !.isCGI = TRUE,
                                                                        !.pipeFd = r]]
  BY DEF StartCGI
<1>5. /\ conn \in [Fd \cup {BadFd} -> Connection] /\ conn[k] \in Connection
  BY <1>2 DEF Inv, TypeOK
<1>6. conn'[k].isCGI /\ conn'[k].pipeFd = r
  <2> DEFINE x == [Parsed(k) EXCEPT !.isCGI = TRUE, !.pipeFd = r]
  <2>1. x.isCGI /\ x.pipeFd = r
    BY <1>5 DEF Parsed, Connection
  <2>2. conn'[k] = x
    BY <1>2, <1>4, <1>5
  <2> QED
    BY <2>1, <2>2
<1>7. \A f \in SockFd : f # k => conn'[f] = conn[f]
  BY <1>4, <1>5 DEF SockFd
<1>8. /\ cgi'[c].state = "running" \/ cgi'[c] = cgi[c]
      /\ \A d \in Client : d # c => cgi'[d] = cgi[d]
  <2>1. \/ \E n : cgi' = [cgi EXCEPT ![c] = [state |-> "running", unwritten |-> n, piped |-> 0]]
        \/ UNCHANGED cgi
    BY DEF StartCGI
  <2>2. cgi \in [Client -> Child]
    BY DEF Inv, TypeOK
  <2> HIDE DEF c
  <2> QED
    BY <1>2, <2>1, <2>2
<1>9. SockFd' = SockFd /\ \A f \in SockFd : Owner(f)' = Owner(f) /\ Owner(f) \in Client
  <2>1. ~Accept(i)
    BY <1>1 DEF Accept, Handling
  <2> QED
    BY <1>1, <2>1, HandlesTable DEF SockFd, Owner, Inv, Descriptors
<1>10. Childless'
  <2>1. ~(sock[c] = "away" \/ c \in Range(backlog))
    BY <1>2 DEF Inv, Sockets
  <2> QED
    BY <1>1, <1>8, <2>1 DEF Reaping, Childless, clientVars
<1>11. ASSUME NEW f \in SockFd, f # k PROVE Childed(f)'
  <2>1. Owner(f) # c
    BY <1>2, <1>11 DEF Inv, Sockets
  <2> QED
    BY <1>1, <1>7, <1>8, <1>9, <2>1, <1>11, HandlesOthers DEF Reaping
<1>12. ASSUME NEW f \in SockFd, f = k PROVE Childed(f)'
  <2>1. \A j \in DOMAIN m_pfds' : m_pfds'[j] # r
    BY <1>1, FdAssumption DEF Inv, Polled, FreeFd
  <2>2. conn'[f].isCGI /\ conn'[f].pipeFd = r
    BY <1>6, <1>12
  <2>3. Owner(f)' = c
    BY <1>2, <1>9, <1>12
  <2>4. cgi'[c].state \in {"running", "none"}
    BY <1>3, <1>8
  <2> HIDE DEF c, k
  <2> QED
    BY <2>1, <2>2, <2>3, <2>4 DEF Childed
<1> QED
  <2>1. ASSUME NEW f \in SockFd PROVE Childed(f)'
    BY <1>11, <1>12
  <2>2. cgi[Owner(m_pfds[i])].state = "none"
    BY <1>2, <1>3
  <2> QED
    BY <1>9, <1>10, <2>1, <2>2

\* poll finds no pipe ready whose child has been waited for (Poller.cpp:66-75).
LEMMA PollReaping ==
    ASSUME Inv, Reaping, Poll
    PROVE  Childless' /\ \A f \in SockFd' : Childed(f)'
<1>1. /\ pc = "poll" /\ revents' = [j \in DOMAIN m_pfds |-> Revents(m_pfds[j])]
      /\ UNCHANGED <<clientVars, reply, cgi, fdTable, m_pfds, m_clients, conn, m_dropped_fds>>
  BY DEF Poll
<1>2. m_dropped_fds = <<>> /\ Running
  BY <1>1 DEF Inv, Loop, Running
<1>3. Childless'
  BY <1>1 DEF Reaping, Childless, clientVars
<1>4. SockFd' = SockFd /\ \A f \in SockFd : Owner(f)' = Owner(f) /\ Owner(f) \in Client
  BY <1>1 DEF SockFd, Owner, Inv, Descriptors
<1>5. ASSUME NEW f \in SockFd PROVE Childed(f)'
  <2>1. cgi[Owner(f)].state # "reaped" /\ (cgi[Owner(f)].state # "none" => conn[f].isCGI)
    BY <1>2 DEF Reaping, Childed, Range
  <2>2. ASSUME NEW j \in DOMAIN m_pfds, Revents(m_pfds[j]) = "in", m_pfds[j] = conn[f].pipeFd
        PROVE  cgi[Owner(f)].state \in {"running", "ok", "failed"}
    <3>1. m_pfds[j] # NoFd /\ m_pfds[j] \in Fd \cup {BadFd}
      BY FdAssumption DEF Inv, TypeOK
    <3>2. f \in Open
      BY <2>2, <3>1, NotAdded DEF NewConnection
    <3>3. fdTable[m_pfds[j]] = [kind |-> "pipe", owner |-> Owner(f)]
      BY <2>2, <3>1, <3>2 DEF Inv, Pipes
    <3>4. cgi[Owner(f)].piped > 0
      BY <2>2, <3>3 DEF Revents
    <3>5. cgi[Owner(f)] \in Child /\ Owner(f) \in Client
      BY <1>4 DEF Inv, TypeOK
    <3> QED
      BY <2>1, <3>4, <3>5 DEF Reaping, Childless, Child
  <2>3. \A j \in DOMAIN revents' : j \in DOMAIN m_pfds /\ revents'[j] = Revents(m_pfds[j])
    BY <1>1
  <2> QED
    BY <1>1, <1>4, <2>1, <2>2, <2>3 DEF Childed
<1> QED
  BY <1>3, <1>4, <1>5

\* A connection that is deleted takes its child's account along (Connection.cpp:25-33).
LEMMA DropFdReaping ==
    ASSUME Inv, Reaping, DropFd
    PROVE  Childless' /\ \A f \in SockFd' : Childed(f)'
<1> DEFINE d == m_dropped_fds[1]
<1>1. /\ m_dropped_fds # <<>> /\ m_dropped_fds' = Tail(m_dropped_fds) /\ d = Head(m_dropped_fds)
      /\ m_dropped_fds \in Seq(Fd \cup {BadFd}) /\ d \in Fd
      /\ pc = "drop" /\ UNCHANGED <<backlog, cgi, revents, pc>> /\ revents = <<>>
  BY DropFdFacts, PopFacts DEF DropFd, Inv, Loop
<1>2. \/ UNCHANGED <<sock, fdTable, conn, m_clients>> /\ d \notin m_clients
      \/ /\ d \in m_clients /\ conn' = [conn EXCEPT ![d] = NewConnection]
         /\ sock' = [sock EXCEPT ![Owner(d)] = "closed"] /\ fdTable' = [fdTable EXCEPT ![d] = Free]
  BY <1>1 DEF DropFd, Owner
<1> HIDE DEF d
<1>3. /\ conn \in [Fd \cup {BadFd} -> Connection] /\ fdTable \in [Fd -> FdEntry]
      /\ sock \in [Client -> {"away", "open", "fin", "rst", "broken", "closed"}]
  BY DEF Inv, TypeOK
<1>4. Childless'
  <2>1. \A c \in Client : sock'[c] = "away" => sock[c] = "away"
    BY <1>2, <1>3
  <2> QED
    BY <1>1, <2>1 DEF Reaping, Childless
<1>5. ASSUME NEW f \in SockFd' PROVE Childed(f)'
  <2>1. f \in SockFd /\ Owner(f)' = Owner(f) /\ conn'[f] = conn[f] /\ (f = d => d \notin m_clients)
    <3>1. f \in Fd /\ fdTable'[f].kind = "sock"
      BY DEF SockFd
    <3>2. Free.kind # "sock"
      BY DEF Free
    <3> QED
      BY <1>2, <1>3, <3>1, <3>2 DEF SockFd, Owner
  <2>2. cgi[Owner(f)].state = "reaped" => f # d
    <3>1. f = d => conn[f] = NewConnection
      BY <2>1, NotAdded DEF Open
    <3> QED
      BY <2>1, <3>1 DEF Reaping, Childed, NewConnection
  <2>3. f \in Range(m_dropped_fds) /\ f # d => f \in Range(m_dropped_fds)'
    <3>1. \A j \in DOMAIN m_dropped_fds : j # 1 =>
             j - 1 \in DOMAIN m_dropped_fds' /\ m_dropped_fds'[j - 1] = m_dropped_fds[j]
      BY <1>1, PopFacts
    <3> QED
      BY <3>1 DEF Range, d
  <2>4. Running
    BY <1>1 DEF Running
  <2> QED
    BY <1>1, <2>1, <2>2, <2>3, <2>4 DEF Reaping, Childed
<1> QED
  BY <1>4, <1>5

\* The ends of a pass touch no child.
LEMMA EndsReaping ==
    ASSUME Inv, Inv', Reaping, Stop \/ EndScan \/ AddNew \/ AddPipe \/ EndPass
    PROVE  Childless' /\ \A f \in SockFd' : Childed(f)'
<1>1. /\ UNCHANGED <<clientVars, cgi, fdTable, m_dropped_fds>> /\ Running
      /\ \/ revents' = <<>> \/ UNCHANGED <<revents, m_pfds>>
  BY DEF Stop, EndScan, AddNew, AddPipe, EndPass, Running, Inv, Loop
<1>2. Childless'
  BY <1>1 DEF Reaping, Childless, clientVars
<1>3. SockFd' = SockFd /\ \A f \in SockFd : Owner(f)' = Owner(f)
  BY <1>1 DEF SockFd, Owner
<1>4. ASSUME NEW f \in SockFd PROVE conn'[f].isCGI = conn[f].isCGI /\ conn'[f].pipeFd = conn[f].pipeFd
  <2>1. UNCHANGED conn \/ \E k : conn' = [conn EXCEPT ![k].m_cgi_added = TRUE]
    BY DEF Stop, EndScan, AddNew, AddPipe, EndPass
  <2>2. conn \in [Fd \cup {BadFd} -> Connection] /\ f \in Fd
    BY DEF Inv, TypeOK, SockFd
  <2>3. conn[f] \in Connection
    BY <2>2
  <2>4. CASE UNCHANGED conn
    BY <2>4
  <2>5. ASSUME NEW k, conn' = [conn EXCEPT ![k].m_cgi_added = TRUE]
        PROVE  conn'[f].isCGI = conn[f].isCGI /\ conn'[f].pipeFd = conn[f].pipeFd
    <3>1. conn'[f] = conn[f] \/ conn'[f] = [conn[f] EXCEPT !.m_cgi_added = TRUE]
      BY <2>2, <2>5
    <3> QED
      BY <2>3, <3>1 DEF Connection
  <2> QED
    BY <2>1, <2>4, <2>5
<1>5. ASSUME NEW f \in SockFd PROVE Childed(f)'
  BY <1>1, <1>3, <1>4, ChildedKept DEF Reaping
<1> QED
  BY <1>2, <1>3, <1>5

\* Clients and children act on what they have.
LEMMA EnvironmentReaping ==
    ASSUME Inv, Running, Reaping, NEW c \in Client,
           \/ Connect(c) \/ SendSegment(c) \/ Finish(c) \/ Abort(c)
           \/ ChildWrite(c) \/ ChildExit(c) \/ Signal
    PROVE  Childless' /\ \A f \in SockFd' : Childed(f)'
<1>1. UNCHANGED <<fdTable, threadVars>> /\ cgi \in [Client -> Child]
  BY DEF Connect, SendSegment, Finish, Abort, ChildWrite, ChildExit, Signal, Inv, TypeOK
<1>2. \A d \in Client : \/ cgi'[d] = cgi[d]
                        \/ /\ cgi[d].state = "running"
                           /\ cgi'[d].state \in {"running", "ok", "failed"}
  <2>1. CASE Connect(c) \/ SendSegment(c) \/ Finish(c) \/ Abort(c) \/ Signal
    BY <2>1 DEF Connect, SendSegment, Finish, Abort, Signal
  <2>2. CASE ChildWrite(c)
    <3>1. cgi[c].state = "running"
          /\ \E n : cgi' = [cgi EXCEPT ![c].unwritten = @ - n, ![c].piped = @ + n]
      BY <2>2 DEF ChildWrite
    <3> QED
      BY <1>1, <3>1 DEF Child
  <2>3. CASE ChildExit(c)
    <3>1. cgi[c].state = "running"
          /\ \E s \in {"ok", "failed"} : cgi' = [cgi EXCEPT ![c].state = s]
      BY <2>3 DEF ChildExit
    <3> QED
      BY <1>1, <3>1 DEF Child
  <2> QED
    BY <2>1, <2>2, <2>3
<1>3. Childless'
  <2>1. ASSUME NEW d \in Client, sock'[d] = "away" \/ d \in Range(backlog)'
        PROVE  sock[d] = "away" \/ d \in Range(backlog)
    <3>1. CASE Connect(c)
      <4>1. /\ sock[c] = "away" /\ backlog' = Append(backlog, c) /\ backlog \in Seq(Client)
            /\ sock' = [sock EXCEPT ![c] = "open"]
            /\ sock \in [Client -> {"away", "open", "fin", "rst", "broken", "closed"}]
        BY <3>1 DEF Connect, Inv, TypeOK
      <4>2. \A j \in DOMAIN backlog' : backlog'[j] = c \/ (j \in DOMAIN backlog /\ backlog'[j] = backlog[j])
        BY <4>1
      <4> QED
        BY <2>1, <4>1, <4>2 DEF Range
    <3>2. CASE SendSegment(c) \/ Finish(c) \/ Abort(c) \/ ChildWrite(c) \/ ChildExit(c) \/ Signal
      BY <2>1, <3>2 DEF SendSegment, Finish, Abort, ChildWrite, ChildExit, Signal, clientVars,
         Inv, TypeOK
    <3> QED
      BY <3>1, <3>2
  <2> QED
    BY <1>2, <2>1 DEF Reaping, Childless
<1>4. SockFd' = SockFd /\ \A f \in SockFd : Owner(f)' = Owner(f) /\ Owner(f) \in Client
  BY <1>1 DEF SockFd, Owner, Inv, Descriptors
<1>5. ASSUME NEW f \in SockFd PROVE Childed(f)'
  <2>1. \/ cgi'[Owner(f)].state = cgi[Owner(f)].state
        \/ cgi[Owner(f)].state = "running" /\ cgi'[Owner(f)].state \in {"ok", "failed"}
    BY <1>2, <1>4
  <2> QED
    BY <1>1, <1>4, <2>1, ChildedKept DEF Reaping, threadVars
<1> QED
  BY <1>3, <1>4, <1>5

\* The thread comes to waitpid from reading a connection's pipe (Poller.cpp:301-312).
LEMMA WaitsStep ==
    ASSUME Inv, Next, WaitsForPipe
    PROVE  WaitsForPipe'
<1> SUFFICES ASSUME pc' = "waitpid", NEW j \in DOMAIN m_pfds', Reached(j)'
             PROVE  IsCGIFd(m_pfds[j])'
  BY DEF WaitsForPipe
<1>1. CASE UNCHANGED threadVars
  BY <1>1 DEF WaitsForPipe, threadVars, Reached, IsCGIFd
<1>2. ASSUME NEW i \in DOMAIN m_pfds, ReadCGI(i), ~Handled(i)
      PROVE  IsCGIFd(m_pfds[j])'
  <2>1. Handles(i)
    BY <1>2 DEF Handles, Handler
  <2>2. Busy /\ Reached(i) /\ UNCHANGED <<m_pfds, m_clients, revents>>
    BY <1>2, <2>1, HandlesEvents
  <2>3. j = i
    BY <2>2, ReachedFacts DEF Reached
  <2>4. PICK k \in m_clients : m_pfds[i] # NoFd /\ conn[k].pipeFd = m_pfds[i]
    BY <1>2 DEF ReadCGI
  <2>5. k \in Open
    BY <2>2, <2>4, ReachedFacts, PipeFacts
  <2>6. ~StartCGI(i)
    BY <1>2 DEF ReadCGI, StartCGI, Asks, Handling
  <2>7. conn'[k].pipeFd = conn[k].pipeFd
    BY <2>1, <2>5, <2>6, HandlesPipe
  <2> QED
    BY <2>2, <2>3, <2>4, <2>7 DEF IsCGIFd
<1>3. ASSUME NEW i \in DOMAIN m_pfds, Handles(i), ~ReadCGI(i) PROVE FALSE
  <2>1. CASE FinishSend(i) \/ CollectCGI(i) \/ RespondAbsent(i) \/ RespondFile(i)
    BY <2>1 DEF FinishSend, CollectCGI, RespondAbsent, RespondFile, Answer, Send, Asks, Handling
  <2>2. CASE \/ HangUp(i) \/ Accept(i) \/ AcceptFails(i) \/ RecvData(i) \/ RecvNothing(i)
             \/ RecvNoConnection(i) \/ RespondNothing(i) \/ RespondBadRequest(i)
             \/ ParseEndless(i) \/ SendBlocks(i) \/ StartCGI(i) \/ StartCGIFails(i)
             \/ AwaitCGI(i)
    BY <2>2 DEF HangUp, Accept, AcceptFails, RecvData, RecvNothing, RecvNoConnection,
       RespondNothing, RespondBadRequest, ParseEndless, SendBlocks, StartCGI, StartCGIFails,
       AwaitCGI, Asks, Handling
  <2> QED
    BY <1>3, <2>1, <2>2 DEF Handles, Handler
<1>4. ASSUME NEW i \in DOMAIN m_pfds, ReadCGI(i), Handled(i) PROVE IsCGIFd(m_pfds[j])'
  <2>1. Handles(i)
    BY <1>4 DEF Handles, Handler
  <2>2. Busy /\ Reached(i) /\ UNCHANGED m_pfds /\ revents[i] # "none"
    BY <2>1, HandlesEvents DEF Reached
  <2>3. revents' # revents
    BY <2>2, <1>4, HandledFacts, ReachedFacts
  <2>4. UNCHANGED pc /\ pc = "scan"
    BY <1>4, <2>3 DEF ReadCGI, Handling
  <2> QED
    BY <2>4
<1>5. CASE Poll \/ Stop \/ EndScan \/ DropFd \/ AddNew \/ AddPipe \/ EndPass
  BY <1>5 DEF Poll, Stop, EndScan, DropFd, AddNew, AddPipe, EndPass
<1>6. CASE \/ \E c \in Client : \/ Connect(c) \/ SendSegment(c) \/ Finish(c) \/ Abort(c)
                                \/ ChildWrite(c) \/ ChildExit(c)
           \/ Signal
  <2>1. UNCHANGED threadVars
    BY <1>6 DEF Connect, SendSegment, Finish, Abort, ChildWrite, ChildExit, Signal
  <2> QED
    BY <1>1, <2>1
<1>7. ASSUME NEW i \in DOMAIN m_pfds, Handles(i) PROVE IsCGIFd(m_pfds[j])'
  BY <1>2, <1>3, <1>4, <1>7
<1> QED
  BY <1>5, <1>6, <1>7 DEF Next, Thread, Environment, Handles

\* Every step keeps Reaping.
LEMMA ReapingStep == Inv /\ Inv' /\ Reaping /\ [Next]_vars => Reaping'
<1> SUFFICES ASSUME Inv, Inv', Reaping, [Next]_vars PROVE Reaping'
  OBVIOUS
<1>1. CASE UNCHANGED vars
  BY <1>1 DEF vars, clientVars, threadVars, Reaping, Childless, Childed, WaitsForPipe, SockFd,
     Owner, Running, Reached, IsCGIFd
<1>2. CASE Next
  <2>1. WaitsForPipe'
    BY <1>2, WaitsStep DEF Reaping
  <2>2. ASSUME NEW i \in DOMAIN m_pfds, Handles(i), ~StartCGI(i), ~CollectCGI(i)
        PROVE  Childless' /\ \A f \in SockFd' : Childed(f)'
    <3>1. ASSUME NEW c \in Client
          PROVE  /\ cgi'[c].state = "none" => cgi'[c].piped = 0
                 /\ sock'[c] = "away" \/ c \in Range(backlog)' => cgi'[c].state = "none"
      BY <2>2, HandlesChild, HandlesArrivals DEF Reaping, Childless
    <3>2. Childless'
      BY <3>1 DEF Childless
    <3> QED
      BY <2>2, <3>2, HandlesReaping
  <2>3. ASSUME NEW i \in DOMAIN m_pfds, Handles(i)
        PROVE  Childless' /\ \A f \in SockFd' : Childed(f)'
    BY <2>2, <2>3, CollectReaping, StartReaping
  <2>4. Running
    BY <1>2 DEF Next
  <2>5. CASE Poll \/ DropFd
    BY <2>5, <2>1, PollReaping, DropFdReaping DEF Reaping
  <2>6. CASE Stop \/ EndScan \/ AddNew \/ AddPipe \/ EndPass
    BY <2>6, <2>1, EndsReaping DEF Reaping
  <2>7. CASE \E c \in Client : \/ Connect(c) \/ SendSegment(c) \/ Finish(c) \/ Abort(c)
                               \/ ChildWrite(c) \/ ChildExit(c)
    BY <2>7, <2>1, <2>4, EnvironmentReaping DEF Reaping
  <2>8. CASE Signal
    <3>1. UNCHANGED <<clientVars, cgi, fdTable, threadVars>>
      BY <2>8 DEF Signal
    <3> QED
      BY <2>1, <3>1 DEF clientVars, threadVars, Reaping, Childless, Childed, SockFd, Owner, Running
  <2>9. (\E i \in DOMAIN m_pfds : Handles(i)) => Reaping'
    BY <2>1, <2>3 DEF Reaping
  <2> QED
    BY <1>2, <2>5, <2>6, <2>7, <2>8, <2>9 DEF Next, Thread, Environment, Handles
<1> QED
  BY <1>1, <1>2

\* The child of every connection is where the connection says (Connection.hpp, CGI.hpp).
LEMMA Reaped == Spec => []Reaping
<1>1. Init => Reaping
  <2>1. Init => SockFd = {} /\ backlog = <<>> /\ pc = "poll"
    BY DEF Init, SockFd, Free
  <2> QED
    BY <2>1 DEF Init, Reaping, Childless, WaitsForPipe
<1>2. Inv /\ Inv' /\ Reaping /\ [Next]_vars => Reaping'
  BY ReapingStep
<1> QED
  BY <1>1, <1>2, Invariance, PTL DEF Spec

\* What the thread waits for, and what a step does to a child and its client's answer.
WaitsForOwn ==
    pc = "waitpid" =>
        \A i \in DOMAIN m_pfds : Reached(i) =>
            \E k \in m_clients : /\ conn[k].pipeFd = m_pfds[i]
                                 /\ cgi[Owner(k)].state \in {"running", "ok", "failed"}
Answered(c) ==
    /\ cgi'[c].state = "reaped" => cgi[c].state \in {"ok", "failed", "reaped"}
    /\ cgi[c].state = "reaped" => cgi'[c].state = "reaped"
    /\ reply'[c] # reply[c] =>
          LET what == reply'[c][Len(reply'[c])].what
          IN  /\ what = "serverError" <=> Reaps(c, "failed")
              /\ what \in {"output", "partOutput"} <=> Reaps(c, "ok")

\* A client that gets an answer is the one it is sent to, and it is the last.
LEMMA SendLast ==
    ASSUME Inv, NEW k, Owner(k) \in Client, NEW answer, Send(k, answer),
           NEW c \in Client, reply'[c] # reply[c]
    PROVE  c = Owner(k) /\ reply'[c][Len(reply'[c])] = answer
<1>1. reply \in [Client -> Seq(Reply)] /\ reply[c] \in Seq(Reply)
  BY DEF Inv, TypeOK
<1>2. UNCHANGED reply \/ reply' = [reply EXCEPT ![Owner(k)] = Append(@, answer)]
  BY DEF Send, Owner
<1>3. c = Owner(k) /\ reply'[c] = Append(reply[c], answer)
  BY <1>1, <1>2
<1>4. Append(reply[c], answer)[Len(reply[c]) + 1] = answer
      /\ Len(Append(reply[c], answer)) = Len(reply[c]) + 1
  BY <1>1
<1> QED
  BY <1>3, <1>4

\* A handler's answer is a program's only where its child is waited for.
LEMMA HandlesAnswered ==
    ASSUME Inv, Reaping, NEW i \in DOMAIN m_pfds, Handles(i), NEW c \in Client
    PROVE  Answered(c)
<1>1. Busy /\ Reached(i) /\ i \in DOMAIN revents /\ m_pfds[i] \in Fd
  BY HandlesEvents, ReachedFacts
<1>2. cgi \in [Client -> Child]
  BY DEF Inv, TypeOK
<1>3. CASE RespondAbsent(i) \/ RespondFile(i) \/ FinishSend(i)
  <2>1. UNCHANGED cgi /\ revents[i] = "out"
    BY <1>1, <1>3 DEF RespondAbsent, RespondFile, FinishSend, Asks, Handling, Inv, Loop
  <2>2. \E kind \in AllKinds : \E what \in {"page", "empty", "notFound"} : Answer(i, kind, what)
    BY <1>3 DEF RespondAbsent, RespondFile, FinishSend, AllKinds
  <2>3. PICK kind \in AllKinds : \E what \in {"page", "empty", "notFound"} : Answer(i, kind, what)
    BY <2>2
  <2>4. PICK what \in {"page", "empty", "notFound"} : Answer(i, kind, what)
    BY <2>3
  <2>5. PICK answer : Send(m_pfds[i], answer) /\ answer.what \in {"page", "empty", "notFound"}
    BY <2>4 DEF Answer
  <2>6. Owner(m_pfds[i]) \in Client
    BY <1>1, <2>1, ReachedFacts
  <2>7. reply'[c] # reply[c] => reply'[c][Len(reply'[c])] = answer
    BY <2>5, <2>6, SendLast
  <2> QED
    BY <2>1, <2>5, <2>7 DEF Answered, Reaps
<1>4. CASE CollectCGI(i)
  <2> DEFINE d == fdTable[m_pfds[i]].owner
             what == IF cgi[d].state = "failed" THEN "serverError"
                     ELSE IF cgi[d].piped = 0 THEN "output" ELSE "partOutput"
  <2>1. PICK k \in m_clients :
           /\ conn[k].pipeFd = m_pfds[i] /\ cgi[d].state \in {"ok", "failed"}
           /\ cgi' = [cgi EXCEPT ![d].state = "reaped"]
           /\ Send(k, [from |-> Range(conn[k].parsed) \cup {d}, asked |-> "cgi", what |-> what])
    BY <1>4 DEF CollectCGI
  <2>2. d = Owner(k) /\ Owner(k) \in Client
    BY <1>1, <2>1, PipeFacts, OpenFacts
  <2>3. cgi'[d].state = "reaped" /\ (c # d => cgi'[c] = cgi[c])
    BY <1>2, <2>1, <2>2 DEF Child
  <2>4. /\ what = "serverError" <=> cgi[d].state = "failed"
        /\ what \in {"output", "partOutput"} <=> cgi[d].state = "ok"
    BY <2>1
  <2> DEFINE answer == [from |-> Range(conn[k].parsed) \cup {d}, asked |-> "cgi", what |-> what]
  <2>5. answer.what = what
    OBVIOUS
  <2>6. Send(k, answer)
    BY <2>1
  <2> HIDE DEF d, what, answer
  <2>7. reply'[c] # reply[c] => c = d /\ reply'[c][Len(reply'[c])] = answer
    BY <2>2, <2>6, SendLast
  <2> QED
    BY <2>1, <2>3, <2>4, <2>5, <2>7 DEF Answered, Reaps
<1>5. CASE StartCGI(i)
  <2>1. UNCHANGED reply /\ cgi[Owner(m_pfds[i])].state = "none"
        /\ (UNCHANGED cgi \/ \E n : cgi' = [cgi EXCEPT ![Owner(m_pfds[i])] =
               [state |-> "running", unwritten |-> n, piped |-> 0]])
    BY <1>5, StartReaping DEF StartCGI, Owner
  <2>2. cgi'[c] = cgi[c] \/ (cgi[c].state = "none" /\ cgi'[c].state = "running")
    BY <1>2, <2>1
  <2> QED
    BY <2>1, <2>2 DEF Answered
<1>6. CASE ReadCGI(i)
  <2>1. ~StartCGI(i) /\ ~CollectCGI(i) /\ UNCHANGED reply
    BY <1>6 DEF ReadCGI, StartCGI, CollectCGI, Asks, Handling
  <2> QED
    BY <2>1, HandlesChild DEF Answered
<1>7. CASE \/ HangUp(i) \/ Accept(i) \/ AcceptFails(i) \/ RecvData(i) \/ RecvNothing(i)
           \/ RecvNoConnection(i) \/ RespondNothing(i) \/ RespondBadRequest(i)
           \/ ParseEndless(i) \/ SendBlocks(i) \/ StartCGIFails(i) \/ AwaitCGI(i)
  <2>1. UNCHANGED <<reply, cgi>>
    BY <1>7 DEF HangUp, Accept, AcceptFails, RecvData, RecvNothing, RecvNoConnection,
       RespondNothing, RespondBadRequest, ParseEndless, SendBlocks, StartCGIFails, AwaitCGI
  <2> QED
    BY <2>1 DEF Answered
<1> QED
  BY <1>3, <1>4, <1>5, <1>6, <1>7 DEF Handles, Handler

\* For any number of clients, descriptors and programs: waitpid is called for the
\* child of the connection whose pipe was read, never twice and never for one that
\* was not forked; it returns after the child's exit; and a client is answered 500,
\* or with output, in that step and according to the exit (Poller.cpp:294-326).
THEOREM RepliesAfterExit == Spec => CGIReplyAfterExit
<1>1. Inv /\ Reaping => WaitsForOwn
  <2> SUFFICES ASSUME Inv, Reaping, pc = "waitpid", NEW i \in DOMAIN m_pfds, Reached(i)
               PROVE  \E k \in m_clients : /\ conn[k].pipeFd = m_pfds[i]
                                           /\ cgi[Owner(k)].state \in {"running", "ok", "failed"}
    BY DEF WaitsForOwn
  <2>1. Busy /\ revents[i] = "in" /\ i \in DOMAIN revents /\ m_pfds[i] \in Fd
    BY ReachedFacts DEF Busy, Inv, Loop
  <2>2. PICK k \in m_clients : conn[k].pipeFd = m_pfds[i]
    BY DEF Reaping, WaitsForPipe, IsCGIFd
  <2>3. k \in SockFd
    BY <2>1, <2>2, PipeFacts, OpenFacts
  <2>4. cgi[Owner(k)].state \in {"running", "ok", "failed"}
    BY <2>1, <2>2, <2>3 DEF Reaping, Childed
  <2> QED
    BY <2>2, <2>4
<1>2. ASSUME Inv, Reaping, [Next]_vars, NEW c \in Client PROVE Answered(c) \/ UNCHANGED vars
  <2>1. CASE \/ \E d \in Client : Connect(d) \/ SendSegment(d) \/ Finish(d) \/ Abort(d)
             \/ Signal \/ Poll \/ Stop \/ EndScan \/ DropFd \/ AddNew \/ AddPipe \/ EndPass
    <3>1. UNCHANGED <<reply, cgi>>
      BY <2>1 DEF Connect, SendSegment, Finish, Abort, Signal, Poll, Stop, EndScan, DropFd,
         AddNew, AddPipe, EndPass
    <3> QED
      BY <3>1 DEF Answered
  <2>2. ASSUME NEW d \in Client, ChildWrite(d) \/ ChildExit(d) PROVE Answered(c)
    <3>1. /\ UNCHANGED reply /\ cgi[d].state = "running" /\ cgi'[d].state # "reaped"
          /\ \A e \in Client : e # d => cgi'[e] = cgi[e]
      <4>1. cgi \in [Client -> Child]
        BY <1>2 DEF Inv, TypeOK
      <4>2. CASE ChildWrite(d)
        BY <4>1, <4>2 DEF ChildWrite, Child
      <4>3. CASE ChildExit(d)
        BY <4>1, <4>3 DEF ChildExit, Child
      <4> QED
        BY <2>2, <4>2, <4>3
    <3> QED
      BY <3>1 DEF Answered
  <2>3. ASSUME NEW i \in DOMAIN m_pfds, Handles(i) PROVE Answered(c)
    BY <1>2, <2>3, HandlesAnswered
  <2> QED
    BY <1>2, <2>1, <2>2, <2>3 DEF Next, Thread, Environment, Handles
<1>3. Inv /\ Reaping /\ [Next]_vars => [\A c \in Client : Answered(c)]_vars
  BY <1>2
<1>4. CGIReplyAfterExit <=> []WaitsForOwn /\ [][\A c \in Client : Answered(c)]_vars
  BY DEF CGIReplyAfterExit, WaitsForOwn, Answered
<1> QED
  BY <1>1, <1>3, <1>4, Invariance, Reaped, PTL DEF Spec

-----------------------------------------------------------------------------
(* The steps of Exchange.                                                  *)

\* The names that Exchange gives to what a client and its answers are.
LEMMA PhaseFacts ==
    /\ PhaseOf("away") = "away" /\ PhaseOf("open") = "open" /\ PhaseOf("fin") = "open"
    /\ PhaseOf("rst") = "reset" /\ PhaseOf("broken") = "reset" /\ PhaseOf("closed") = "gone"
BY DEF PhaseOf

\* A step that neither moves a client nor answers is the end, or unseen.
LEMMA Unseen ==
    ASSUME Running, UNCHANGED reply, \A c \in Client : PhaseOf(sock'[c]) = PhaseOf(sock[c])
    PROVE  [Promised!Next]_(Promised!vars)
<1>1. UNCHANGED <<phaseBar, answersBar>>
  BY DEF phaseBar, answersBar
<1>2. CASE Running'
  BY <1>1, <1>2 DEF Promised!vars
<1>3. CASE ~Running'
  BY <1>1, <1>3 DEF Promised!Next, Promised!End
<1> QED
  BY <1>2, <1>3

\* A step that moves one client on and answers nobody.
LEMMA Moves ==
    ASSUME NEW c \in Client, NEW new, UNCHANGED reply,
           \A d \in Client : PhaseOf(sock'[d]) = IF d = c THEN new ELSE PhaseOf(sock[d])
    PROVE  phaseBar' = [phaseBar EXCEPT ![c] = new] /\ UNCHANGED answersBar
BY DEF phaseBar, answersBar

\* An answer made from the client's own data is one that Exchange promises.
LEMMA SendPromised ==
    ASSUME Inv, Running, NEW k \in Open, NEW answer \in Reply, answer.from = {Owner(k)},
           reply[Owner(k)] = <<>>, Send(k, answer), UNCHANGED sock
    PROVE  [Promised!Next]_(Promised!vars)
<1>1. Owner(k) \in Client
  BY OpenFacts
<1>2. reply \in [Client -> Seq(Reply)]
  BY DEF Inv, TypeOK
<1>3. CASE UNCHANGED reply
  BY <1>3, Unseen
<1>4. CASE /\ sock[Owner(k)] \in {"open", "fin"} /\ pc' = "scan"
           /\ reply' = [reply EXCEPT ![Owner(k)] = Append(@, answer)]
  <2>1. Append(reply[Owner(k)], answer) = <<answer>>
    BY <1>1, <1>2
  <2>2. reply' = [reply EXCEPT ![Owner(k)] = <<answer>>]
    BY <1>1, <1>2, <1>4, <2>1
  <2> DEFINE e == [from |-> answer.from, what |-> answer.what]
  <2>3. AnswersOf(<<answer>>) = <<e>>
    <3>1. AnswersOf(<<answer>>) = [i \in 1..1 |-> e]
      <4>1. PICK s : s = <<answer>>
        OBVIOUS
      <4>2. DOMAIN s = 1..1 /\ \A i \in 1..1 : s[i] = answer
        BY <4>1
      <4>3. AnswersOf(s) = [i \in 1..1 |-> [from |-> s[i].from, what |-> s[i].what]]
        BY <4>2 DEF AnswersOf
      <4> QED
        BY <4>1, <4>2, <4>3
    <3>2. \A x : [i \in 1..1 |-> x] = <<x>>
      OBVIOUS
    <3> QED
      BY <3>1, <3>2
  <2>4. answersBar' = [answersBar EXCEPT ![Owner(k)] = AnswersOf(<<answer>>)]
    BY <1>1, <1>2, <2>2 DEF answersBar
  <2>5. answersBar[Owner(k)] = <<>>
    <3>1. AnswersOf(<<>>) = <<>>
      BY DEF AnswersOf
    <3> QED
      BY <1>1, <3>1 DEF answersBar
  <2>6. phaseBar[Owner(k)] = "open" /\ UNCHANGED phaseBar
    BY <1>1, <1>4, PhaseFacts DEF phaseBar
  <2>7. answer.what \in Bodies
    BY DEF Reply
  <2>8. Running'
    BY <1>4 DEF Running
  <2>9. Promised!Reply(Owner(k))
    BY <2>3, <2>4, <2>5, <2>6, <2>7, <2>8 DEF Promised!Reply, e
  <2> QED
    BY <1>1, <2>9 DEF Promised!Next
<1> QED
  BY <1>3, <1>4 DEF Send, Owner

-----------------------------------------------------------------------------
(* The steps of the loop. *)

\* An answer to a parsed request (Connection.cpp:187-209, Poller.cpp:203-232).
LEMMA AnswerPromised ==
    ASSUME Inv, NEW i \in DOMAIN m_pfds,
           RespondAbsent(i) \/ RespondFile(i) \/ FinishSend(i)
    PROVE  [Promised!Next]_(Promised!vars)
<1> DEFINE k == m_pfds[i]
<1>1. Busy /\ Reached(i) /\ i \in DOMAIN revents
  BY HandlesEvents, ReachedFacts DEF Handles, Handler
<1>2. /\ revents[i] = "out" /\ ~conn[k].isCGI /\ Request(k) # <<>> /\ UNCHANGED sock
      /\ \E kind \in AllKinds : \E what \in Bodies : Answer(i, kind, what)
  <2>1. CASE RespondAbsent(i)
    BY <2>1 DEF RespondAbsent, Asks, Handling, AllKinds, Bodies, clientVars
  <2>2. CASE RespondFile(i)
    BY <2>2 DEF RespondFile, Asks, Handling, AllKinds, Bodies, clientVars
  <2>3. CASE FinishSend(i)
    <3>1. revents[i] = "out" /\ ~conn[k].isCGI /\ conn[k].parsed # <<>>
      BY <2>3 DEF FinishSend, Inv, Loop
    <3> QED
      BY <2>3, <3>1 DEF FinishSend, Request, AllKinds, Bodies, clientVars
  <2> QED
    BY <2>1, <2>2, <2>3
<1>3. PICK kind \in AllKinds : \E what \in Bodies : Answer(i, kind, what)
  BY <1>2
<1>4. PICK what \in Bodies : Answer(i, kind, what)
  BY <1>3
<1> DEFINE answer == [from |-> Range(Request(k)), asked |-> kind, what |-> what]
<1>5. k \in Open /\ k \in SockFd /\ Owner(k) \in Client
  BY <1>1, <1>2, ReachedFacts
<1>6. Range(Request(k)) = {Owner(k)}
  BY <1>2, <1>5, ParsedFacts
<1>7. reply[Owner(k)] = <<>>
  BY <1>1, <1>2, <1>5 DEF Inv, Once
<1>8. answer \in Reply /\ answer.from = {Owner(k)}
  BY <1>5, <1>6 DEF Reply
<1>9. Send(k, answer)
  BY <1>4 DEF Answer
<1>10. Running
  BY <1>1 DEF Busy, Running
<1> HIDE DEF answer
<1> QED
  BY <1>2, <1>5, <1>7, <1>8, <1>9, <1>10, SendPromised

\* The output of a CGI program that has exited (Poller.cpp:294-326).
LEMMA CollectPromised ==
    ASSUME Inv, NEW i \in DOMAIN m_pfds, CollectCGI(i)
    PROVE  [Promised!Next]_(Promised!vars)
<1> DEFINE f == m_pfds[i]
           c == fdTable[f].owner
<1>1. Busy /\ Reached(i) /\ i \in DOMAIN revents /\ f \in Fd
  BY HandlesEvents, ReachedFacts DEF Handles, Handler
<1>2. revents[i] # "none" /\ UNCHANGED sock
  BY <1>1 DEF CollectCGI, Reached, clientVars
<1>3. PICK k \in m_clients, what \in Bodies :
         /\ conn[k].pipeFd = f
         /\ Send(k, [from |-> Range(conn[k].parsed) \cup {c}, asked |-> "cgi", what |-> what])
  BY DEF CollectCGI, Bodies
<1> DEFINE answer == [from |-> Range(conn[k].parsed) \cup {c}, asked |-> "cgi", what |-> what]
<1>4. k \in Open /\ k \in SockFd /\ c = Owner(k) /\ c \in Client
  <2>1. k \in Open /\ c = Owner(k)
    BY <1>1, <1>3, PipeFacts
  <2> QED
    BY <2>1, OpenFacts
<1>5. answer \in Reply /\ answer.from = {Owner(k)}
  <2>1. Range(conn[k].parsed) \subseteq {c}
    BY <1>4 DEF Inv, OwnData, Range
  <2> QED
    BY <1>4, <2>1 DEF Reply, AllKinds
<1>6. reply[Owner(k)] = <<>>
  BY <1>1, <1>2, <1>3, <1>4 DEF Inv, Once
<1>7. Running /\ Send(k, answer)
  BY <1>1, <1>3 DEF Busy, Running
<1> HIDE DEF answer
<1> QED
  BY <1>2, <1>4, <1>5, <1>6, <1>7, SendPromised

\* The other handlers answer nobody.
LEMMA HandlerPromised ==
    ASSUME Inv, NEW i \in DOMAIN m_pfds, Handles(i)
    PROVE  [Promised!Next]_(Promised!vars)
<1>1. Running
  BY HandlesEvents DEF Busy, Running
<1>2. CASE RespondAbsent(i) \/ RespondFile(i) \/ FinishSend(i) \/ CollectCGI(i)
  BY <1>2, AnswerPromised, CollectPromised
<1>3. CASE RecvNothing(i)
  <2>1. /\ UNCHANGED reply
        /\ \E c : sock' = [sock EXCEPT ![c] = IF @ = "rst" THEN "broken" ELSE @]
    BY <1>3 DEF RecvNothing
  <2>2. \A d \in Client : PhaseOf(sock'[d]) = PhaseOf(sock[d])
    BY <2>1, PhaseFacts DEF Inv, TypeOK
  <2> QED
    BY <1>1, <2>1, <2>2, Unseen
<1>4. CASE \/ HangUp(i) \/ Accept(i) \/ AcceptFails(i) \/ RecvData(i) \/ RecvNoConnection(i)
           \/ ReadCGI(i) \/ RespondNothing(i) \/ RespondBadRequest(i) \/ SendBlocks(i)
           \/ StartCGI(i) \/ StartCGIFails(i) \/ AwaitCGI(i) \/ ParseEndless(i)
  <2>1. UNCHANGED <<sock, reply>>
    BY <1>4 DEF HangUp, Accept, AcceptFails, RecvData, RecvNoConnection, ReadCGI,
       RespondNothing, RespondBadRequest, SendBlocks, StartCGI, StartCGIFails, AwaitCGI, ParseEndless,
       clientVars
  <2> QED
    BY <1>1, <2>1, Unseen
<1> QED
  BY <1>2, <1>3, <1>4 DEF Handles, Handler

\* Deleting a Connection is the end of its client's exchange (Socket.cpp:29-35).
LEMMA DropFdPromised ==
    ASSUME Inv, Owned, DropFd
    PROVE  [Promised!Next]_(Promised!vars)
<1> DEFINE f == Head(m_dropped_fds)
           c == Owner(f)
<1>1. Running /\ Running' /\ UNCHANGED reply
  BY DEF DropFd, Running
<1>2. CASE f \notin m_clients
  BY <1>1, <1>2, Unseen DEF DropFd
<1>3. CASE f \in m_clients
  <2>1. f \in Open
    <3>1. f = m_dropped_fds[1] /\ m_dropped_fds[1] \in Fd
      BY DropFdFacts, PopFacts
    <3> QED
      BY <1>3, <3>1, FdAssumption DEF Open, BadFd
  <2>2. f \in SockFd /\ c \in Client
    BY <2>1, OpenFacts
  <2>3. /\ sock' = [sock EXCEPT ![c] = "closed"]
        /\ sock \in [Client -> {"away", "open", "fin", "rst", "broken", "closed"}]
    BY <1>3 DEF DropFd, Owner, Inv, TypeOK
  <2>4. sock[c] \in {"open", "fin", "rst", "broken"}
    BY <2>2, <2>3 DEF Owned, Inv, Sockets
  <2>5. \A d \in Client : PhaseOf(sock'[d]) = IF d = c THEN "gone" ELSE PhaseOf(sock[d])
    BY <2>2, <2>3, PhaseFacts
  <2>6. phaseBar' = [phaseBar EXCEPT ![c] = "gone"] /\ UNCHANGED answersBar
    BY <1>1, <2>2, <2>5, Moves
  <2>7. phaseBar[c] \in {"open", "reset"}
    BY <2>2, <2>4, PhaseFacts DEF phaseBar
  <2>8. Promised!Close(c)
    BY <1>1, <2>6, <2>7 DEF Promised!Close
  <2> QED
    BY <1>1, <2>2, <2>8 DEF Promised!Next
<1> QED
  BY <1>2, <1>3

-----------------------------------------------------------------------------
(* The steps of the clients, and all of them together. *)

\* A client arrives, half-closes or resets its connection.
LEMMA ClientPromised ==
    ASSUME Inv, Running, NEW c \in Client, Connect(c) \/ Finish(c) \/ Abort(c)
    PROVE  [Promised!Next]_(Promised!vars)
<1>1. /\ UNCHANGED <<reply, pc>> /\ Running'
      /\ sock \in [Client -> {"away", "open", "fin", "rst", "broken", "closed"}]
  BY DEF Connect, Finish, Abort, threadVars, Running, Inv, TypeOK
<1>2. CASE Connect(c)
  <2>1. sock[c] = "away" /\ sock' = [sock EXCEPT ![c] = "open"]
    BY <1>2 DEF Connect
  <2>2. \A d \in Client : PhaseOf(sock'[d]) = IF d = c THEN "open" ELSE PhaseOf(sock[d])
    BY <1>1, <2>1, PhaseFacts
  <2>3. phaseBar' = [phaseBar EXCEPT ![c] = "open"] /\ UNCHANGED answersBar
    BY <1>1, <2>2, Moves
  <2>4. phaseBar[c] = "away"
    BY <2>1, PhaseFacts DEF phaseBar
  <2> QED
    BY <1>1, <2>3, <2>4 DEF Promised!Next, Promised!Arrive
<1>3. CASE Finish(c)
  <2>1. sock[c] = "open" /\ sock' = [sock EXCEPT ![c] = "fin"]
    BY <1>3 DEF Finish
  <2>2. \A d \in Client : PhaseOf(sock'[d]) = PhaseOf(sock[d])
    BY <1>1, <2>1, PhaseFacts
  <2> QED
    BY <1>1, <2>2, Unseen
<1>4. CASE Abort(c)
  <2>1. /\ sock[c] \in {"open", "fin"}
        /\ \E s \in {"rst", "broken"} : sock' = [sock EXCEPT ![c] = s]
    BY <1>4 DEF Abort
  <2>2. \A d \in Client : PhaseOf(sock'[d]) = IF d = c THEN "reset" ELSE PhaseOf(sock[d])
    BY <1>1, <2>1, PhaseFacts
  <2>3. phaseBar' = [phaseBar EXCEPT ![c] = "reset"] /\ UNCHANGED answersBar
    BY <1>1, <2>2, Moves
  <2>4. phaseBar[c] = "open"
    BY <2>1, PhaseFacts DEF phaseBar
  <2> QED
    BY <1>1, <2>3, <2>4 DEF Promised!Next, Promised!Reset
<1> QED
  BY <1>2, <1>3, <1>4

\* Every step is one of Exchange, or one that it does not see.
LEMMA StepPromised == Inv /\ Owned /\ [Next]_vars => [Promised!Next]_(Promised!vars)
<1> SUFFICES ASSUME Inv, Owned, [Next]_vars PROVE [Promised!Next]_(Promised!vars)
  OBVIOUS
<1>1. CASE UNCHANGED vars
  <2>1. UNCHANGED <<sock, reply, pc>>
    BY <1>1 DEF vars, clientVars, threadVars
  <2> QED
    BY <2>1 DEF Promised!vars, phaseBar, answersBar, Running
<1>2. CASE Next
  <2>1. Running
    BY <1>2 DEF Next
  <2>2. CASE \E c \in Client : Connect(c) \/ Finish(c) \/ Abort(c)
    BY <2>1, <2>2, ClientPromised
  <2>3. CASE DropFd
    BY <2>3, DropFdPromised
  <2>4. CASE \E i \in DOMAIN m_pfds : Handles(i)
    BY <2>4, HandlerPromised
  <2>5. CASE \/ \E c \in Client : SendSegment(c) \/ ChildWrite(c) \/ ChildExit(c)
             \/ Signal \/ Poll \/ Stop \/ EndScan \/ AddNew \/ AddPipe \/ EndPass
    <3>1. UNCHANGED <<sock, reply>>
      BY <2>5 DEF SendSegment, ChildWrite, ChildExit, Signal, Poll, Stop, EndScan, AddNew,
         AddPipe, EndPass, clientVars
    <3> QED
      BY <2>1, <3>1, Unseen
  <2> QED
    BY <1>2, <2>2, <2>3, <2>4, <2>5 DEF Next, Thread, Environment, Handles
<1> QED
  BY <1>1, <1>2

\* The server of a port keeps what Exchange promises, for any number of clients,
\* descriptors and CGI programs: at most one answer, of the client's own
\* request, sent before the connection is reset or closed (Poller.cpp:42-116).
THEOREM Implementation == Spec => ImplementsExchange
<1>1. Init => Promised!Init
  <2> SUFFICES ASSUME Init PROVE Promised!Init
    OBVIOUS
  <2>1. phaseBar = [c \in Client |-> "away"]
    BY PhaseFacts DEF Init, phaseBar
  <2>2. AnswersOf(<<>>) = <<>>
    BY DEF AnswersOf
  <2>3. answersBar = [c \in Client |-> <<>>]
    BY <2>2 DEF Init, answersBar
  <2>4. Running = TRUE
    BY DEF Init, Running
  <2> QED
    BY <2>1, <2>3, <2>4 DEF Promised!Init
<1>2. Inv /\ Owned /\ [Next]_vars => [Promised!Next]_(Promised!vars)
  BY StepPromised
<1>3. Accounts => Owned
  BY DEF Accounts
<1> QED
  BY <1>1, <1>2, <1>3, Invariance, Accounted, PTL DEF Spec, ImplementsExchange, Promised!Spec
=============================================================================
