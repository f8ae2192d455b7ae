------------------------------- MODULE Poller -------------------------------
(***************************************************************************)
(* The event loop of one port (Poller.cpp, Connection.cpp, CGI.cpp and the *)
(* socket classes) together with what it runs against: the clients, their  *)
(* TCP sockets, the process's descriptor table and the CGI child processes.*)
(*                                                                         *)
(* The loop is one thread: poll, then one handler per ready descriptor,    *)
(* then the deletions, then the additions.  Clients and CGI children act   *)
(* between any two of its steps, so a handler works on revents that may be *)
(* out of date.                                                            *)
(*                                                                         *)
(* What a request asks for is revealed when it is parsed: Kinds is the set *)
(* of requests the clients may make.  A segment is what one recv returns,  *)
(* and is represented by the client that sent it.                          *)
(***************************************************************************)
EXTENDS Integers, FiniteSets, SequencesExt

CONSTANTS
    Client,         \* the clients; each connects at most once
    NoClient,       \* the owner of a descriptor that belongs to no client
    Fd,             \* the descriptors the process may have open
    Listener,       \* the listening socket's descriptor
    RLimit,         \* RLIMIT_NOFILE: poll refuses a longer array
    Kinds,          \* what requests may ask for, see AllKinds
    RequestLength,  \* the number of segments of a complete request
    MaxSegments,    \* bound: segments a client sends
    OutputSizes,    \* the sizes of a CGI program's output
    ReadSize,       \* RECV_SIZE, in the same units
    PipeSize,       \* the capacity of a pipe, in the same units
    Faults          \* what else may happen, see AllFaults

BadFd == -1         \* what accept returns when it fails
NoFd == 0           \* no pipe yet (m_pipe_out is zeroed), no new connection

AllKinds == {"file", "bigfile", "absent", "nohost", "chunked", "cgi", "cgifail"}
AllFaults == {"fin", "rst", "fork", "signal"}

ASSUME FdAssumption == Fd \subseteq Nat \ {0} /\ Listener \in Fd
ASSUME ClientAssumption == NoClient \notin Client
ASSUME SizeAssumption ==
    /\ RequestLength \in Nat \ {0} /\ MaxSegments \in Nat
    /\ OutputSizes \subseteq Nat /\ RLimit \in Nat
    /\ ReadSize \in Nat \ {0} /\ PipeSize \in Nat \ {0}
ASSUME KindAssumption == Kinds \subseteq AllKinds /\ Faults \subseteq AllFaults

VARIABLES
    \* clients and kernel
    sock,           \* the TCP state of each client's connection
    sent,           \* how many segments each client has sent
    inbox,          \* how many of them wait in the socket's receive queue
    backlog,        \* the connections the listener has not accepted
    reply,          \* what each client has been answered
    cgi,            \* the CGI process of each client's request, and its pipe
    fdTable,        \* the process's descriptor table
    signalled,      \* ConfigUtil::m_signal # 0
    \* the poller thread
    pc,
    m_pfds,
    m_clients,      \* the keys of the map
    conn,           \* its values; NewConnection at the other keys
    m_dropped_fds,  \* the stack, its top first
    m_new_connection,
    revents         \* the branch the handler takes for each entry of m_pfds

clientVars == <<sock, sent, inbox, backlog>>
threadVars == <<pc, m_pfds, m_clients, conn, m_dropped_fds, m_new_connection,
                revents>>
vars == <<clientVars, reply, cgi, fdTable, signalled, threadVars>>

-----------------------------------------------------------------------------
Bodies == {"page", "empty", "notFound", "output", "partOutput", "serverError"}
Reply == [from : SUBSET Client, asked : AllKinds, what : Bodies]

FdEntry == [kind : {"free", "listener", "sock", "pipe", "held"},
            owner : Client \cup {NoClient}]
Free == [kind |-> "free", owner |-> NoClient]
Held == [kind |-> "held", owner |-> NoClient]

Connection == [m_request : Seq(Client), parsed : Seq(Client), isCGI : BOOLEAN,
               pipeFd : Fd \cup {NoFd}, got : Nat, m_cgi_added : BOOLEAN]
NewConnection == [m_request |-> <<>>, parsed |-> <<>>, isCGI |-> FALSE,
                  pipeFd |-> NoFd, got |-> 0, m_cgi_added |-> FALSE]

Child == [state : {"none", "running", "ok", "failed", "reaped"},
          unwritten : Nat, piped : Nat]

TypeOK ==
    /\ sock \in [Client -> {"away", "open", "fin", "rst", "broken", "closed"}]
    /\ sent \in [Client -> 0..MaxSegments]
    /\ inbox \in [Client -> Nat]
    /\ backlog \in Seq(Client)
    /\ reply \in [Client -> Seq(Reply)]
    /\ cgi \in [Client -> Child]
    /\ fdTable \in [Fd -> FdEntry]
    /\ signalled \in BOOLEAN
    /\ pc \in {"poll", "scan", "send", "waitpid", "decode", "drop", "add", "dead",
               "stopped"}
    /\ m_pfds \in Seq(Fd \cup {BadFd})
    /\ m_clients \subseteq Fd \cup {BadFd}
    /\ conn \in [Fd \cup {BadFd} -> Connection]
    /\ m_dropped_fds \in Seq(Fd \cup {BadFd})
    /\ m_new_connection \in Fd \cup {BadFd, NoFd}
    /\ revents \in Seq({"none", "hup", "in", "out"})

Init ==
    /\ sock = [c \in Client |-> "away"]
    /\ sent = [c \in Client |-> 0]
    /\ inbox = [c \in Client |-> 0]
    /\ backlog = <<>>
    /\ reply = [c \in Client |-> <<>>]
    /\ cgi = [c \in Client |-> [state |-> "none", unwritten |-> 0, piped |-> 0]]
    /\ fdTable = [f \in Fd |-> IF f = Listener
                               THEN [kind |-> "listener", owner |-> NoClient]
                               ELSE Free]
    /\ signalled = FALSE
    /\ pc = "poll"
    /\ m_pfds = <<Listener>>
    /\ m_clients = {}
    /\ conn = [k \in Fd \cup {BadFd} |-> NewConnection]
    /\ m_dropped_fds = <<>>
    /\ m_new_connection = NoFd
    /\ revents = <<>>

-----------------------------------------------------------------------------
(* Clients.  A close or shutdown shows as "fin"; a reset as "rst" while the *)
(* error is pending and as "broken" once it is consumed, or at once when    *)
(* the reset follows a fin.                                                 *)

Connect(c) ==
    /\ sock[c] = "away"
    /\ sock' = [sock EXCEPT ![c] = "open"]
    /\ backlog' = Append(backlog, c)
    /\ UNCHANGED <<sent, inbox, reply, cgi, fdTable, signalled, threadVars>>

SendSegment(c) ==
    /\ sock[c] = "open" /\ sent[c] < MaxSegments
    /\ sent' = [sent EXCEPT ![c] = @ + 1]
    /\ inbox' = [inbox EXCEPT ![c] = @ + 1]
    /\ UNCHANGED <<sock, backlog, reply, cgi, fdTable, signalled, threadVars>>

Finish(c) ==
    /\ "fin" \in Faults /\ sock[c] = "open"
    /\ sock' = [sock EXCEPT ![c] = "fin"]
    /\ UNCHANGED <<sent, inbox, backlog, reply, cgi, fdTable, signalled, threadVars>>

Abort(c) ==
    /\ "rst" \in Faults /\ sock[c] \in {"open", "fin"}
    /\ sock' = [sock EXCEPT ![c] = IF sock[c] = "open" THEN "rst" ELSE "broken"]
    /\ UNCHANGED <<sent, inbox, backlog, reply, cgi, fdTable, signalled, threadVars>>

(* The CGI process of c's request writes to its pipe, blocking while the   *)
(* pipe is full, and exits when it has written everything.                 *)
ChildWrite(c) ==
    /\ cgi[c].state = "running"
    /\ \E n \in 1..cgi[c].unwritten :
          /\ cgi[c].piped + n =< PipeSize
          /\ cgi' = [cgi EXCEPT ![c].unwritten = @ - n, ![c].piped = @ + n]
    /\ UNCHANGED <<clientVars, reply, fdTable, signalled, threadVars>>

ChildExit(c) ==
    /\ cgi[c].state = "running" /\ cgi[c].unwritten = 0
    /\ \/ "cgi" \in Kinds /\ cgi' = [cgi EXCEPT ![c].state = "ok"]
       \/ "cgifail" \in Kinds /\ cgi' = [cgi EXCEPT ![c].state = "failed"]
    /\ UNCHANGED <<clientVars, reply, fdTable, signalled, threadVars>>

(* The signal handler, or the poller of another port whose poll failed.    *)
Signal ==
    /\ "signal" \in Faults /\ ~signalled
    /\ signalled' = TRUE
    /\ UNCHANGED <<clientVars, reply, cgi, fdTable, threadVars>>

-----------------------------------------------------------------------------
(* poll and the loop over m_pfds.                                          *)

(* The branch pollPort takes for an entry: POLLHUP before POLLIN before    *)
(* POLLOUT, which is asked for client sockets only.  A negative descriptor *)
(* is ignored; a pipe never hangs up, for the server holds its write end.  *)
Revents(f) ==
    IF f = BadFd THEN "none"
    ELSE LET entry == fdTable[f]
             c == entry.owner
         IN  CASE entry.kind = "listener" ->
                    IF backlog # <<>> THEN "in" ELSE "none"
               [] entry.kind = "pipe" ->
                    IF cgi[c].piped > 0 THEN "in" ELSE "none"
               [] entry.kind = "sock" ->
                    IF sock[c] \in {"rst", "broken"} THEN "hup"
                    ELSE IF inbox[c] > 0 \/ sock[c] = "fin" THEN "in"
                    ELSE "out"
               [] OTHER -> "none"

(* A mutant of Poll: the signal flag is not looked at.                     *)
PollUnsignalled ==
    /\ pc = "poll" /\ Len(m_pfds) =< RLimit
    /\ revents' = [i \in DOMAIN m_pfds |-> Revents(m_pfds[i])]
    /\ \E i \in DOMAIN m_pfds : Revents(m_pfds[i]) # "none"
    /\ pc' = "scan"
    /\ UNCHANGED <<clientVars, reply, cgi, fdTable, signalled, m_pfds, m_clients,
                   conn, m_dropped_fds, m_new_connection>>

Poll ==
    /\ pc = "poll" /\ ~signalled /\ Len(m_pfds) =< RLimit
    /\ revents' = [i \in DOMAIN m_pfds |-> Revents(m_pfds[i])]
    /\ \E i \in DOMAIN m_pfds : Revents(m_pfds[i]) # "none"
    /\ pc' = "scan"
    /\ UNCHANGED <<clientVars, reply, cgi, fdTable, signalled, m_pfds, m_clients,
                   conn, m_dropped_fds, m_new_connection>>

(* A failing poll raises the signal flag itself, and every poller stops.   *)
Stop ==
    /\ pc = "poll" /\ (signalled \/ Len(m_pfds) > RLimit)
    /\ signalled' = TRUE
    /\ pc' = "stopped"
    /\ UNCHANGED <<clientVars, reply, cgi, fdTable, m_pfds, m_clients, conn,
                   m_dropped_fds, m_new_connection, revents>>

(* Entry i is the one the loop has reached.                                *)
Reached(i) ==
    /\ i \in DOMAIN revents \cap DOMAIN m_pfds /\ revents[i] # "none"
    /\ \A j \in DOMAIN revents : j < i => revents[j] = "none"

Handling(i, event) == pc = "scan" /\ Reached(i) /\ revents[i] = event

Handled(i) == revents' = [revents EXCEPT ![i] = "none"]

HangUp(i) ==
    /\ Handling(i, "hup") /\ Handled(i)
    /\ m_dropped_fds' = Cons(m_pfds[i], m_dropped_fds)
    /\ UNCHANGED <<clientVars, reply, cgi, fdTable, signalled, pc, m_pfds,
                   m_clients, conn, m_new_connection>>

-----------------------------------------------------------------------------
(* POLLIN on the listener: _getNewConnection.                              *)

FreeFd == {f \in Fd : fdTable[f].kind = "free"}
IsLowest(f) == f \in FreeFd /\ \A g \in FreeFd : f =< g

Accept(i) ==
    /\ Handling(i, "in") /\ Handled(i) /\ m_pfds[i] = Listener
    /\ backlog # <<>>
    /\ \E f \in FreeFd :
          /\ IsLowest(f)
          /\ fdTable' = [fdTable EXCEPT ![f] = [kind |-> "sock",
                                                owner |-> Head(backlog)]]
          /\ m_new_connection' = f
    /\ backlog' = Tail(backlog)
    /\ UNCHANGED <<sock, sent, inbox, reply, cgi, signalled, pc, m_pfds,
                   m_clients, conn, m_dropped_fds>>

(* accept fails for want of a descriptor; a connection is made of the -1.  *)
AcceptFails(i) ==
    /\ Handling(i, "in") /\ Handled(i) /\ m_pfds[i] = Listener
    /\ FreeFd = {} \/ backlog = <<>>
    /\ m_new_connection' = BadFd
    /\ UNCHANGED <<clientVars, reply, cgi, fdTable, signalled, pc, m_pfds,
                   m_clients, conn, m_dropped_fds>>

-----------------------------------------------------------------------------
(* POLLIN on a client's socket: _readConnectionData.                       *)

RecvData(i) ==
    /\ Handling(i, "in") /\ Handled(i)
    /\ LET k == m_pfds[i]
           c == fdTable[k].owner
       IN  /\ k \in m_clients /\ inbox[c] > 0
           /\ inbox' = [inbox EXCEPT ![c] = @ - 1]
           /\ conn' = [conn EXCEPT ![k].m_request = Append(@, c)]
    /\ UNCHANGED <<sock, sent, backlog, reply, cgi, fdTable, signalled, pc,
                   m_pfds, m_clients, m_dropped_fds, m_new_connection>>

(* End of file or an error: the connection goes if it holds no unparsed    *)
(* data, which is also the case of one whose CGI is running.               *)
RecvNothing(i) ==
    /\ Handling(i, "in") /\ Handled(i)
    /\ LET k == m_pfds[i]
           c == fdTable[k].owner
       IN  /\ k \in m_clients /\ inbox[c] = 0
           /\ sock' = [sock EXCEPT ![c] = IF @ = "rst" THEN "broken" ELSE @]
           /\ m_dropped_fds' = IF conn[k].m_request = <<>>
                               THEN Cons(k, m_dropped_fds) ELSE m_dropped_fds
    /\ UNCHANGED <<sent, inbox, backlog, reply, cgi, fdTable, signalled, pc,
                   m_pfds, m_clients, conn, m_new_connection>>

IsCGIFd(f) == f # NoFd /\ \E k \in m_clients : conn[k].pipeFd = f

(* A pipe whose connection is gone is taken for a client's socket, and the *)
(* NULL that the search returns is used.                                   *)
RecvNoConnection(i) ==
    /\ Handling(i, "in") /\ Handled(i)
    /\ m_pfds[i] \notin m_clients \cup {Listener} /\ ~IsCGIFd(m_pfds[i])
    /\ pc' = "dead"
    /\ UNCHANGED <<clientVars, reply, cgi, fdTable, signalled, m_pfds,
                   m_clients, conn, m_dropped_fds, m_new_connection>>

-----------------------------------------------------------------------------
(* Answers.  sendResponse and send hand the reply to the socket: it is     *)
(* lost when a reset is pending, and a socket whose error has been         *)
(* consumed raises SIGPIPE, which is not ignored.                          *)

Send(k, answer) ==
    LET c == fdTable[k].owner
    IN  \/ /\ sock[c] \in {"open", "fin"}
           /\ reply' = [reply EXCEPT ![c] = Append(@, answer)]
           /\ pc' = "scan"
        \/ sock[c] = "rst" /\ pc' = "scan" /\ UNCHANGED reply
        \/ sock[c] = "broken" /\ pc' = "dead" /\ UNCHANGED reply

(* POLLIN on a CGI pipe: _readCGIData.  A read that does not fill the      *)
(* buffer is taken for the last one.                                       *)
ReadCGI(i) ==
    /\ Handling(i, "in")
    /\ \E k \in m_clients :
          LET f == m_pfds[i]
              c == fdTable[f].owner
              n == IF cgi[c].piped < ReadSize THEN cgi[c].piped ELSE ReadSize
          IN  /\ f # NoFd /\ conn[k].pipeFd = f
              /\ cgi' = [cgi EXCEPT ![c].piped = @ - n]
              /\ conn' = [conn EXCEPT ![k].got = @ + n]
              /\ \/ n < ReadSize /\ pc' = "waitpid" /\ UNCHANGED revents
                 \/ n = ReadSize /\ Handled(i) /\ UNCHANGED pc
    /\ UNCHANGED <<clientVars, reply, fdTable, signalled, m_pfds, m_clients,
                   m_dropped_fds, m_new_connection>>

(* A mutant of CollectCGI: waitpid with WNOHANG, so nobody waits.          *)
CollectCGIUnwaited(i) ==
    /\ pc = "waitpid" /\ Reached(i) /\ Handled(i)
    /\ \E k \in m_clients :
          LET f == m_pfds[i]
              c == fdTable[f].owner
          IN  /\ f # NoFd /\ conn[k].pipeFd = f
              /\ cgi' = [cgi EXCEPT ![c].state = IF @ = "running" THEN @ ELSE "reaped"]
              /\ Send(k, [from |-> Range(conn[k].parsed) \cup {c},
                          asked |-> "cgi", what |-> "output"])
              /\ m_dropped_fds' = Cons(k, Cons(f, m_dropped_fds))
    /\ UNCHANGED <<clientVars, fdTable, signalled, m_pfds, m_clients, conn,
                   m_new_connection>>

(* A mutant of CollectCGI: only the pipe is dropped.                       *)
CollectCGIKeepsClient(i) ==
    /\ pc = "waitpid" /\ Reached(i) /\ Handled(i)
    /\ \E k \in m_clients :
          LET f == m_pfds[i]
              c == fdTable[f].owner
          IN  /\ f # NoFd /\ conn[k].pipeFd = f
              /\ cgi[c].state \in {"ok", "failed"}
              /\ cgi' = [cgi EXCEPT ![c].state = "reaped"]
              /\ Send(k, [from |-> Range(conn[k].parsed) \cup {c},
                          asked |-> "cgi", what |-> "output"])
              /\ m_dropped_fds' = Cons(f, m_dropped_fds)
    /\ UNCHANGED <<clientVars, fdTable, signalled, m_pfds, m_clients, conn,
                   m_new_connection>>

(* waitpid returns when the child has exited; the answer is sent and both  *)
(* the pipe and the connection are dropped.                                *)
CollectCGI(i) ==
    /\ pc = "waitpid" /\ Reached(i) /\ Handled(i)
    /\ \E k \in m_clients :
          LET f == m_pfds[i]
              c == fdTable[f].owner
              what == IF cgi[c].state = "failed" THEN "serverError"
                      ELSE IF cgi[c].piped = 0 THEN "output" ELSE "partOutput"
          IN  /\ f # NoFd /\ conn[k].pipeFd = f
              /\ cgi[c].state \in {"ok", "failed"}
              /\ cgi' = [cgi EXCEPT ![c].state = "reaped"]
              /\ Send(k, [from |-> Range(conn[k].parsed) \cup {c},
                          asked |-> "cgi", what |-> what])
              /\ m_dropped_fds' = Cons(k, Cons(f, m_dropped_fds))
    /\ UNCHANGED <<clientVars, fdTable, signalled, m_pfds, m_clients, conn,
                   m_new_connection>>

-----------------------------------------------------------------------------
(* POLLOUT on a client's socket: _parse, _matchRoute and then _respond or  *)
(* _initAndExecCGI.  Nothing checks that the request is complete.          *)

Request(k) == IF conn[k].parsed = <<>> THEN conn[k].m_request
              ELSE conn[k].parsed

(* The request of entry i is parsed, and asks for kind.                    *)
Asks(i, kind) ==
    /\ Handling(i, "out")
    /\ ~conn[m_pfds[i]].isCGI /\ Request(m_pfds[i]) # <<>>
    /\ kind \in Kinds

\* The connection when parse has returned.
Parsed(k) == [conn[k] EXCEPT !.parsed = Request(k),
                             !.m_request = IF conn[k].parsed = <<>> THEN <<>> ELSE @]

(* A mutant of Answer: the answered connection is not put on the stack.    *)
AnswerKeepsOpen(i, kind, what) ==
    LET k == m_pfds[i]
    IN  /\ Handled(i)
        /\ conn' = [conn EXCEPT ![k] = Parsed(k)]
        /\ Send(k, [from |-> Range(Request(k)), asked |-> kind, what |-> what])
        /\ UNCHANGED m_dropped_fds

Answer(i, kind, what) ==
    LET k == m_pfds[i]
    IN  /\ Handled(i)
        /\ conn' = [conn EXCEPT ![k] = Parsed(k)]
        /\ Send(k, [from |-> Range(Request(k)), asked |-> kind, what |-> what])
        /\ m_dropped_fds' = Cons(k, m_dropped_fds)

(* Nothing has arrived yet: 204, for which nothing is sent.                *)
RespondNothing(i) ==
    /\ Handling(i, "out") /\ Handled(i)
    /\ Request(m_pfds[i]) = <<>>
    /\ m_dropped_fds' = Cons(m_pfds[i], m_dropped_fds)
    /\ UNCHANGED <<clientVars, reply, cgi, fdTable, signalled, pc, m_pfds,
                   m_clients, conn, m_new_connection>>

(* A request without Host, or cut before it: 400, for which the answer is  *)
(* built from the route that was never matched.                            *)
RespondBadRequest(i) ==
    /\ Handling(i, "out") /\ Handled(i)
    /\ LET k == m_pfds[i]
       IN  /\ ~conn[k].isCGI /\ Request(k) # <<>>
           /\ "nohost" \in Kinds \/ Len(Request(k)) < RequestLength
           /\ conn' = [conn EXCEPT ![k] = Parsed(k)]
    /\ pc' = "dead"
    /\ UNCHANGED <<clientVars, reply, cgi, fdTable, signalled, m_pfds,
                   m_clients, m_dropped_fds, m_new_connection>>

(* A chunked body that is cut before its last chunk: its decoder goes round *)
(* for ever (see Request), and the thread with it.  A whole one is answered *)
(* like the other requests.                                                 *)
ParseEndless(i) ==
    /\ Asks(i, "chunked") /\ Handled(i)
    /\ conn[m_pfds[i]].parsed = <<>>
    /\ Len(Request(m_pfds[i])) < RequestLength
    /\ pc' = "decode"
    /\ UNCHANGED <<clientVars, reply, cgi, fdTable, signalled, m_pfds, m_clients,
                   conn, m_dropped_fds, m_new_connection>>

RespondAbsent(i) ==
    /\ Asks(i, "absent") /\ Answer(i, "absent", "notFound")
    /\ UNCHANGED <<clientVars, cgi, fdTable, signalled, m_pfds, m_clients,
                   m_new_connection>>

(* searchFile opens the file to see that it exists and never closes it;    *)
(* the body is then read through a second descriptor, opened and closed.   *)
RespondFile(i) ==
    /\ \E kind \in {"file", "bigfile"} :
          /\ Asks(i, kind)
          /\ \/ FreeFd = {} /\ UNCHANGED fdTable /\ Answer(i, kind, "notFound")
             \/ \E f \in FreeFd :
                   /\ IsLowest(f)
                   /\ fdTable' = [fdTable EXCEPT ![f] = Held]
                   /\ \/ FreeFd = {f} /\ Answer(i, kind, "empty")
                      \/ FreeFd # {f} /\ kind = "file" /\ Answer(i, kind, "page")
    /\ UNCHANGED <<clientVars, cgi, signalled, m_pfds, m_clients, m_new_connection>>

(* A reply larger than the socket's send buffer: the accepted socket is a  *)
(* blocking one, and send returns when the client has read enough.         *)
SendBlocks(i) ==
    /\ Asks(i, "bigfile")
    /\ conn' = [conn EXCEPT ![m_pfds[i]] = Parsed(m_pfds[i])]
    /\ \E f \in FreeFd :
          /\ IsLowest(f) /\ FreeFd # {f}
          /\ fdTable' = [fdTable EXCEPT ![f] = Held]
    /\ pc' = "send"
    /\ UNCHANGED <<clientVars, reply, cgi, signalled, m_pfds, m_clients,
                   m_dropped_fds, m_new_connection, revents>>

(* The client reads, or resets the connection.                             *)
FinishSend(i) ==
    /\ pc = "send" /\ Reached(i)
    /\ Answer(i, "bigfile", "page")
    /\ UNCHANGED <<clientVars, cgi, fdTable, signalled, m_pfds, m_clients,
                   m_new_connection>>

(* initCGI makes two pipes, of which the parent closes no end, and exec    *)
(* forks.  When fork fails the connection waits for a child it never had.  *)
StartCGI(i) ==
    /\ Asks(i, "cgi") \/ Asks(i, "cgifail")
    /\ Handled(i)
    /\ LET k == m_pfds[i]
           c == fdTable[k].owner
       IN  \E a, b, r, w \in FreeFd :
             /\ a < b /\ b < r /\ r < w
             /\ \A g \in FreeFd : g \in {a, b, r, w} \/ w < g
             /\ fdTable' = [fdTable EXCEPT ![a] = Held, ![b] = Held, ![w] = Held,
                                           ![r] = [kind |-> "pipe", owner |-> c]]
             /\ conn' = [conn EXCEPT ![k] = [Parsed(k) EXCEPT !.isCGI = TRUE,
                                                              !.pipeFd = r]]
             /\ \/ \E n \in OutputSizes :
                      cgi' = [cgi EXCEPT ![c] = [state |-> "running",
                                                 unwritten |-> n, piped |-> 0]]
                \/ "fork" \in Faults /\ UNCHANGED cgi
    /\ UNCHANGED <<clientVars, reply, signalled, pc, m_pfds, m_clients,
                   m_dropped_fds, m_new_connection>>

(* pipe fails: the exception leaves the thread's start routine.            *)
StartCGIFails(i) ==
    /\ Asks(i, "cgi") \/ Asks(i, "cgifail")
    /\ Handled(i)
    /\ Cardinality(FreeFd) < 4
    /\ pc' = "dead"
    /\ UNCHANGED <<clientVars, reply, cgi, fdTable, signalled, m_pfds,
                   m_clients, conn, m_dropped_fds, m_new_connection>>

(* The CGI of this connection has been started: nothing is done again.     *)
AwaitCGI(i) ==
    /\ Handling(i, "out") /\ Handled(i)
    /\ conn[m_pfds[i]].isCGI
    /\ UNCHANGED <<clientVars, reply, cgi, fdTable, signalled, pc, m_pfds,
                   m_clients, conn, m_dropped_fds, m_new_connection>>

EndScan ==
    /\ pc = "scan" /\ \A i \in DOMAIN revents : revents[i] = "none"
    /\ revents' = <<>>
    /\ pc' = "drop"
    /\ UNCHANGED <<clientVars, reply, cgi, fdTable, signalled, m_pfds,
                   m_clients, conn, m_dropped_fds, m_new_connection>>

-----------------------------------------------------------------------------
(* _deletePollFds and _addPollFds.                                         *)

(* The first entry of m_pfds with the descriptor, if any, is erased.       *)
Erase(f) ==
    \/ \E i \in DOMAIN m_pfds :
          /\ m_pfds[i] = f /\ \A j \in DOMAIN m_pfds : j < i => m_pfds[j] # f
          /\ m_pfds' = RemoveAt(m_pfds, i)
    \/ (\A i \in DOMAIN m_pfds : m_pfds[i] # f) /\ UNCHANGED m_pfds

(* A mutant of DropFd: the map keeps the Connection that was deleted.      *)
DropFdKeepsClient ==
    /\ pc = "drop" /\ m_dropped_fds # <<>>
    /\ LET f == Head(m_dropped_fds)
       IN  /\ Erase(f)
           /\ IF f \in m_clients
              THEN /\ sock' = [sock EXCEPT ![fdTable[f].owner] = "closed"]
                   /\ fdTable' = [fdTable EXCEPT ![f] = Free]
                   /\ UNCHANGED <<m_clients, conn>>
              ELSE UNCHANGED <<sock, fdTable, m_clients, conn>>
    /\ m_dropped_fds' = Tail(m_dropped_fds)
    /\ UNCHANGED <<sent, inbox, backlog, reply, cgi, signalled, pc,
                   m_new_connection, revents>>

(* A mutant of DropFd: the descriptor stays in m_pfds.                     *)
DropFdLeavesEntry ==
    /\ pc = "drop" /\ m_dropped_fds # <<>>
    /\ LET f == Head(m_dropped_fds)
       IN  /\ UNCHANGED m_pfds
           /\ IF f \in m_clients
              THEN /\ sock' = [sock EXCEPT ![fdTable[f].owner] = "closed"]
                   /\ fdTable' = [fdTable EXCEPT ![f] = Free]
                   /\ m_clients' = m_clients \ {f}
                   /\ conn' = [conn EXCEPT ![f] = NewConnection]
              ELSE UNCHANGED <<sock, fdTable, m_clients, conn>>
    /\ m_dropped_fds' = Tail(m_dropped_fds)
    /\ UNCHANGED <<sent, inbox, backlog, reply, cgi, signalled, pc,
                   m_new_connection, revents>>

(* A mutant of DropFd: the Connection leaves the map and is not deleted.   *)
DropFdLeaksSocket ==
    /\ pc = "drop" /\ m_dropped_fds # <<>>
    /\ LET f == Head(m_dropped_fds)
       IN  /\ Erase(f)
           /\ IF f \in m_clients
              THEN /\ m_clients' = m_clients \ {f}
                   /\ conn' = [conn EXCEPT ![f] = NewConnection]
                   /\ UNCHANGED <<sock, fdTable>>
              ELSE UNCHANGED <<sock, fdTable, m_clients, conn>>
    /\ m_dropped_fds' = Tail(m_dropped_fds)
    /\ UNCHANGED <<sent, inbox, backlog, reply, cgi, signalled, pc,
                   m_new_connection, revents>>

(* Deleting the Connection closes its socket; a pipe stays open.           *)
DropFd ==
    /\ pc = "drop" /\ m_dropped_fds # <<>>
    /\ LET f == Head(m_dropped_fds)
       IN  /\ Erase(f)
           /\ IF f \in m_clients
              THEN /\ sock' = [sock EXCEPT ![fdTable[f].owner] = "closed"]
                   /\ fdTable' = [fdTable EXCEPT ![f] = Free]
                   /\ m_clients' = m_clients \ {f}
                   /\ conn' = [conn EXCEPT ![f] = NewConnection]
              ELSE UNCHANGED <<sock, fdTable, m_clients, conn>>
    /\ m_dropped_fds' = Tail(m_dropped_fds)
    /\ UNCHANGED <<sent, inbox, backlog, reply, cgi, signalled, pc,
                   m_new_connection, revents>>

(* The new connection is added once the stack is empty.  Inserting a key   *)
(* the map already holds changes nothing.                                  *)
AddNew ==
    /\ pc = "drop" /\ m_dropped_fds = <<>>
    /\ IF m_new_connection # NoFd
       THEN /\ m_pfds' = Append(m_pfds, m_new_connection)
            /\ m_clients' = m_clients \cup {m_new_connection}
       ELSE UNCHANGED <<m_pfds, m_clients>>
    /\ pc' = "add"
    /\ UNCHANGED <<clientVars, reply, cgi, fdTable, signalled, conn,
                   m_dropped_fds, m_new_connection, revents>>

Unadded == {k \in m_clients : conn[k].pipeFd # NoFd /\ ~conn[k].m_cgi_added}

AddPipe ==
    /\ pc = "add"
    /\ \E k \in Unadded :
          /\ \A j \in Unadded : k =< j
          /\ m_pfds' = Append(m_pfds, conn[k].pipeFd)
          /\ conn' = [conn EXCEPT ![k].m_cgi_added = TRUE]
    /\ UNCHANGED <<clientVars, reply, cgi, fdTable, signalled, pc, m_clients,
                   m_dropped_fds, m_new_connection, revents>>

(* A mutant of EndPass: pipes may be left unadded.                         *)
EndPassUnadded ==
    /\ pc = "add"
    /\ m_new_connection' = NoFd
    /\ pc' = "poll"
    /\ UNCHANGED <<clientVars, reply, cgi, fdTable, signalled, m_pfds,
                   m_clients, conn, m_dropped_fds, revents>>

EndPass ==
    /\ pc = "add" /\ Unadded = {}
    /\ m_new_connection' = NoFd
    /\ pc' = "poll"
    /\ UNCHANGED <<clientVars, reply, cgi, fdTable, signalled, m_pfds,
                   m_clients, conn, m_dropped_fds, revents>>

-----------------------------------------------------------------------------
Handler(i) ==
    \/ HangUp(i) \/ Accept(i) \/ AcceptFails(i)
    \/ RecvData(i) \/ RecvNothing(i) \/ RecvNoConnection(i)
    \/ ReadCGI(i) \/ CollectCGI(i)
    \/ RespondNothing(i) \/ RespondBadRequest(i) \/ ParseEndless(i)
    \/ RespondAbsent(i) \/ RespondFile(i) \/ SendBlocks(i)
    \/ StartCGI(i) \/ StartCGIFails(i) \/ AwaitCGI(i)

\* What the thread does by itself; a blocked send is up to the client.
Thread == \/ Poll \/ Stop \/ EndScan \/ DropFd \/ AddNew \/ AddPipe \/ EndPass
          \/ \E i \in DOMAIN m_pfds : Handler(i)

Running == pc \notin {"dead", "stopped"}

Environment ==
    \/ \E c \in Client : \/ Connect(c) \/ SendSegment(c) \/ Finish(c) \/ Abort(c)
                         \/ ChildWrite(c) \/ ChildExit(c)
    \/ \E i \in DOMAIN m_pfds : FinishSend(i)
    \/ Signal

Next == Running /\ (Thread \/ Environment)

Spec == Init /\ [][Next]_vars

(* The thread is scheduled, unless it waits in send, waitpid or the        *)
(* decoder, and a CGI process runs, unless its pipe is full.  Nothing is   *)
(* assumed of the clients: no fairness of FinishSend.                      *)
Fairness == /\ WF_vars(Running /\ Thread)
            /\ \A c \in Client : WF_vars(Running /\ (ChildWrite(c) \/ ChildExit(c)))

FairSpec == Spec /\ Fairness
=============================================================================
