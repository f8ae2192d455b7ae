-------------------------- MODULE PollerInvariant ---------------------------
(***************************************************************************)
(* The inductive invariant of Poller: TypeOK and OwnAnswer strengthened    *)
(* until every step preserves it.  TLC checks it on small instances, and   *)
(* PollerProofs proves it.                                                 *)
(***************************************************************************)
EXTENDS PollerProperties

Open == m_clients \ {BadFd}             \* the connections that have a socket
SockFd == {f \in Fd : fdTable[f].kind = "sock"}

\* Sockets and pipes belong to clients; sockets are the Connections' sockets.
Descriptors ==
    /\ \A f \in Fd : fdTable[f].kind \in {"sock", "pipe"} => Owner(f) \in Client
    /\ Open \subseteq SockFd
    /\ SockFd \subseteq Open \cup {m_new_connection}
    /\ m_new_connection \in Fd =>
          /\ m_new_connection \in SockFd
          /\ m_new_connection \in Open <=> pc = "add"

\* One socket for each client, and none before it is accepted.
Sockets ==
    /\ \A f, g \in SockFd : Owner(f) = Owner(g) => f = g
    /\ \A c \in Client : (sock[c] = "away" \/ c \in Range(backlog)) =>
          reply[c] = <<>> /\ \A f \in SockFd : Owner(f) # c
    /\ \A i \in DOMAIN backlog : sock[backlog[i]] # "away"
    /\ \A i, j \in DOMAIN backlog : backlog[i] = backlog[j] => i = j

\* No entry of m_pfds is stale, and none is there twice.
Polled ==
    /\ \A i \in DOMAIN m_pfds : m_pfds[i] # BadFd =>
          /\ fdTable[m_pfds[i]].kind \notin {"free", "held"}
          /\ m_pfds[i] \in SockFd => m_pfds[i] \in m_clients
    /\ \A i, j \in DOMAIN m_pfds :
          m_pfds[i] = m_pfds[j] /\ m_pfds[i] # BadFd => i = j

\* A connection's pipe is its own client's, and unpolled until it is added.
Pipes ==
    /\ \A k \in Open :
          /\ conn[k].isCGI <=> conn[k].pipeFd # NoFd
          /\ conn[k].isCGI => conn[k].parsed # <<>>
          /\ conn[k].pipeFd # NoFd =>
                /\ fdTable[conn[k].pipeFd] = [kind |-> "pipe", owner |-> Owner(k)]
                /\ ~conn[k].m_cgi_added =>
                      \A i \in DOMAIN m_pfds : m_pfds[i] # conn[k].pipeFd
    /\ \A k \in Fd \cup {BadFd} : k \notin Open => conn[k] = NewConnection

\* What a connection has read came from its own client.
OwnData ==
    \A k \in Open : /\ \A i \in DOMAIN conn[k].m_request : conn[k].m_request[i] = Owner(k)
                    /\ \A i \in DOMAIN conn[k].parsed : conn[k].parsed[i] = Owner(k)

\* Where the loop is, and what revents can say there.
Loop ==
    /\ pc \in {"poll", "add"} => m_dropped_fds = <<>>
    /\ pc \in {"poll", "drop", "add"} => revents = <<>>
    /\ pc \in {"scan", "send", "waitpid"} => DOMAIN revents = DOMAIN m_pfds
    /\ pc = "poll" => m_new_connection = NoFd
    /\ \A i \in DOMAIN m_dropped_fds : m_dropped_fds[i] # BadFd
    /\ pc \in {"scan", "send", "waitpid"} =>
          \A i \in DOMAIN revents : revents[i] # "none" =>
              /\ m_pfds[i] # BadFd
              /\ revents[i] = "out" => m_pfds[i] \in m_clients
              /\ m_pfds[i] = Listener => m_new_connection = NoFd
    /\ \A i \in DOMAIN m_pfds : Reached(i) =>
          /\ pc = "send" => /\ revents[i] = "out" /\ ~conn[m_pfds[i]].isCGI
                            /\ conn[m_pfds[i]].parsed # <<>>
          /\ pc = "waitpid" => revents[i] = "in"

\* Nothing that could answer a client again is left in the pass.
Once ==
    \A k \in SockFd : reply[Owner(k)] # <<>> =>
        /\ k \in m_clients
        /\ k \in Range(m_dropped_fds) \/ ~Running
        /\ \A i \in DOMAIN revents \cap DOMAIN m_pfds :
              (m_pfds[i] = conn[k].pipeFd \/ (m_pfds[i] = k /\ ~conn[k].isCGI))
                  => revents[i] = "none"

Inv == /\ TypeOK /\ Descriptors /\ Sockets /\ Polled /\ Pipes /\ OwnData
       /\ Loop /\ Once /\ OwnAnswer

-----------------------------------------------------------------------------
(* Inductive relative to Inv: what the account of the sockets, the entries *)
(* of m_pfds and the stack rests on.                                       *)

\* An accepted connection has a socket until it is closed.
Owned ==
    /\ \A c \in Client : \/ sock[c] \in {"away", "closed"}
                          \/ c \in Range(backlog)
                          \/ \E f \in SockFd : Owner(f) = c
    /\ \A f \in SockFd : sock[Owner(f)] # "closed"
    /\ \A i \in DOMAIN backlog : sock[backlog[i]] # "closed"

\* A loop that has stopped had nothing left to drop.
Quiet == pc = "stopped" => \A f \in SockFd : reply[Owner(f)] = <<>>

\* The listener is the first entry, and only sockets and pipes are dropped.
ListenerFirst ==
    /\ m_pfds # <<>> /\ m_pfds[1] = Listener
    /\ fdTable[Listener].kind = "listener"
    /\ \A i \in DOMAIN m_dropped_fds : m_dropped_fds[i] # Listener
    /\ pc \in {"scan", "send", "waitpid"} =>
          /\ \A i \in DOMAIN m_dropped_fds :
                fdTable[m_dropped_fds[i]].kind \in {"sock", "pipe"}
          /\ \A i \in DOMAIN revents : revents[i] = "hup" => m_pfds[i] \in m_clients

\* A pipe is dropped after the connection it belongs to.
ClientBeforePipe ==
    \A k \in Open : \A j \in DOMAIN m_dropped_fds :
        m_dropped_fds[j] = conn[k].pipeFd =>
            \E i \in 1..j - 1 : m_dropped_fds[i] = k

\* Every connection is polled, and so is a pipe once it has been added.
Listed ==
    /\ \A k \in Open :
          /\ k \in Range(m_pfds)
          /\ conn[k].m_cgi_added =>
                conn[k].pipeFd # NoFd /\ conn[k].pipeFd \in Range(m_pfds)
    /\ pc = "poll" => Unadded = {}

\* A client whose connection has not been accepted has no child.
Childless ==
    \A c \in Client : /\ cgi[c].state = "none" => cgi[c].piped = 0
                      /\ sock[c] = "away" \/ c \in Range(backlog) => cgi[c].state = "none"

\* A child is that of a connection which is waiting for it, or which is dropped in
\* this pass when the child has been waited for; then no event of its pipe is left.
Childed(f) ==
    /\ cgi[Owner(f)].state # "none" => conn[f].isCGI
    /\ cgi[Owner(f)].state = "reaped" => f \in Range(m_dropped_fds) \/ ~Running
    /\ \A i \in DOMAIN revents \cap DOMAIN m_pfds :
          revents[i] = "in" /\ m_pfds[i] = conn[f].pipeFd
              => cgi[Owner(f)].state \in {"running", "ok", "failed"}

\* Only the pipe of a connection takes the thread to waitpid.
WaitsForPipe ==
    pc = "waitpid" => \A i \in DOMAIN m_pfds : Reached(i) => IsCGIFd(m_pfds[i])

Reaping == Childless /\ WaitsForPipe /\ \A f \in SockFd : Childed(f)

Accounts == Owned /\ Quiet /\ ListenerFirst /\ ClientBeforePipe /\ Listed
=============================================================================
