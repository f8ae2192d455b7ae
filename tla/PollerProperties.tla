-------------------------- MODULE PollerProperties --------------------------
(***************************************************************************)
(* What the event loop of Poller.tla guarantees, what it guarantees only   *)
(* when clients and CGI programs behave, and what its documentation says   *)
(* and it does not do.                                                     *)
(***************************************************************************)
EXTENDS Poller

Owner(f) == fdTable[f].owner

(* A client is answered at most once, and with nothing but what it sent or *)
(* its own CGI program wrote: descriptors and map entries that are reused  *)
(* never mix two clients (m_clients is keyed by descriptor, Poller.cpp:38, *)
(* and descriptors are reused as soon as a connection is deleted).         *)
OwnAnswer ==
    \A c \in Client : /\ Len(reply[c]) =< 1
                      /\ \A i \in DOMAIN reply[c] : reply[c][i].from = {c}

Entries(f) == {i \in DOMAIN m_pfds : m_pfds[i] = f}

(* At the head of the loop, the descriptors polled are the open ones: each *)
(* connection exactly once, each pipe of a started CGI exactly once, the   *)
(* listener first, and never a descriptor that has been closed             *)
(* (_addPollFds and _deletePollFds, Poller.cpp:148-201).                   *)
PolledOnce ==
    pc = "poll" =>
        /\ Entries(Listener) = {1}
        /\ \A k \in m_clients \ {BadFd} :
              /\ Cardinality(Entries(k)) = 1
              /\ conn[k].pipeFd # NoFd => Cardinality(Entries(conn[k].pipeFd)) = 1
        /\ \A i \in DOMAIN m_pfds :
              m_pfds[i] # BadFd => fdTable[m_pfds[i]].kind # "free"

(* No socket leaks: an open client socket always has its Connection, in    *)
(* the map or about to be added, and every connection that was accepted    *)
(* and not yet closed has exactly one socket (Socket.cpp:29-35 closes it). *)
SocketAccounted ==
    /\ {f \in Fd : fdTable[f].kind = "sock"}
          = (m_clients \cup {m_new_connection}) \ {BadFd, NoFd}
    /\ \A c \in Client :
          Cardinality({f \in Fd : fdTable[f].kind = "sock" /\ Owner(f) = c})
             = IF sock[c] \in {"away", "closed"} \/ \E i \in DOMAIN backlog : backlog[i] = c
               THEN 0 ELSE 1

(* Once a client has been answered its connection goes in the same pass:   *)
(* until then its descriptor is on the stack, so that no later handler of  *)
(* the pass deletes something else in its place (Poller.cpp:106, 321).     *)
AnsweredIsDropped ==
    \A c \in Client :
        (reply[c] # <<>> /\ sock[c] # "closed" /\ pc # "dead") =>
            \E i \in DOMAIN m_dropped_fds :
               fdTable[m_dropped_fds[i]] = [kind |-> "sock", owner |-> c]

(* A descriptor that m_pfds names is not given to another client while it  *)
(* is there, so an entry and the revents that poll left in it keep meaning *)
(* the same socket.                                                        *)
EntryKeepsOwner ==
    [][\A i \in DOMAIN m_pfds, j \in DOMAIN m_pfds' :
          (m_pfds[i] = m_pfds'[j] /\ m_pfds[i] # BadFd)
             => fdTable'[m_pfds[i]] = fdTable[m_pfds[i]]]_vars

\* The child of c's request is waited for, and had exited like this.
Reaps(c, state) == cgi[c].state = state /\ cgi'[c].state = "reaped"

(* waitpid is called for the child of the connection whose pipe was read,  *)
(* never for one that fork did not make or that has been waited for        *)
(* already, however the events of a pass and the ends of the connections   *)
(* fall; it returns after the child's exit, once; and the answer of that   *)
(* step is 500 for a child that failed and its output for one that did     *)
(* not; no answer to another GET carries either (Poller.cpp:294-326).      *)
CGIReplyAfterExit ==
    /\ [](pc = "waitpid" =>
             \A i \in DOMAIN m_pfds : Reached(i) =>
                 \E k \in m_clients : /\ conn[k].pipeFd = m_pfds[i]
                                      /\ cgi[Owner(k)].state \in {"running", "ok", "failed"})
    /\ [][\A c \in Client :
             /\ cgi'[c].state = "reaped" => cgi[c].state \in {"ok", "failed", "reaped"}
             /\ cgi[c].state = "reaped" => cgi'[c].state = "reaped"
             /\ reply'[c] # reply[c] =>
                   LET what == reply'[c][Len(reply'[c])].what
                   IN  /\ what = "serverError" <=> Reaps(c, "failed")
                       /\ what \in {"output", "partOutput"} <=> Reaps(c, "ok")]_vars

\* How far Exchange takes a client to be, and what it takes it to be answered.
PhaseOf(state) == CASE state = "away" -> "away"
                    [] state \in {"open", "fin"} -> "open"
                    [] state \in {"rst", "broken"} -> "reset"
                    [] state = "closed" -> "gone"
AnswersOf(s) == [i \in DOMAIN s |-> [from |-> s[i].from, what |-> s[i].what]]

phaseBar == [c \in Client |-> PhaseOf(sock[c])]
answersBar == [c \in Client |-> AnswersOf(reply[c])]

(* The loop implements Exchange: at most one answer, made from the         *)
(* client's own request, before the connection's end and never after it.   *)
Promised == INSTANCE Exchange WITH
    Body <- Bodies, up <- Running, phase <- phaseBar, answers <- answersBar

ImplementsExchange == Promised!Spec

-----------------------------------------------------------------------------
(* Under fairness of the thread and of the CGI programs.                   *)

\* The thread waits for a client that does not read (ClientSocket.cpp:46), for the
\* exit of a child whose pipe is full (Poller.cpp:312), or for the end of a chunked
\* body that was cut (Decoder.cpp:11-18).
Blocked ==
    \/ pc \in {"send", "decode"}
    \/ pc = "waitpid" /\ \E c \in Client : /\ cgi[c].state = "running"
                                           /\ cgi[c].unwritten > 0
                                           /\ cgi[c].piped = PipeSize

\* The program of c's request has written nothing, or nothing that a short read
\* would end (CGI.cpp:86), or it was never forked: its pipe is never ready again.
Uncollected(c) ==
    \E k \in m_clients : /\ conn[k].isCGI /\ Owner(k) = c
                         /\ cgi[c].unwritten = 0 /\ cgi[c].piped = 0
                         /\ conn[k].got % ReadSize = 0

(* No client waits for ever: a connection that its client keeps open is    *)
(* let go of in the end, answered or not, though others half-close theirs  *)
(* and make the loop busy.  What can keep it is the end of the server, a   *)
(* thread that is blocked for ever, whoever it is that blocks it, and the  *)
(* client's own program, if the loop never comes to collect it.            *)
EveryoneLetGo ==
    \A c \in Client :
        sock[c] = "open" ~> sock[c] # "open" \/ ~Running \/ []Blocked \/ []Uncollected(c)

(* A signal stops the loop (Poller.cpp:61-63), whatever the clients do, if *)
(* the thread is not blocked for ever: neither a busy loop nor a program   *)
(* that is never collected keeps it from the flag.                         *)
SignalStops == signalled ~> ~Running \/ []Blocked

-----------------------------------------------------------------------------
(* What the documentation says.                                            *)

(* Connection.hpp:12-16: a Connection "holds connection information while  *)
(* poll returns POLLIN or a CGI process is still running in the            *)
(* background".                                                            *)
ConnectionOutlivesCGI ==
    \A c \in Client : cgi[c].state = "running" =>
        \E k \in m_clients \ {BadFd} : Owner(k) = c
=============================================================================
