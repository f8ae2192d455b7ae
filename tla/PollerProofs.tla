---------------------------- MODULE PollerProofs ----------------------------
(***************************************************************************)
(* Inv of PollerInvariant is inductive, for every value of the constants.  *)
(***************************************************************************)
EXTENDS PollerInvariant, SequenceTheorems, TLAPS

\* What SubSeq and RemoveAt return.
LEMMA PartFacts ==
    ASSUME NEW S, NEW s \in Seq(S), NEW m \in Nat, NEW n \in Nat, m >= 1, m =< n + 1, n =< Len(s)
    PROVE  /\ SubSeq(s, m, n) \in Seq(S) /\ Len(SubSeq(s, m, n)) = n - m + 1
           /\ \A j \in 1..n - m + 1 : SubSeq(s, m, n)[j] = s[m + j - 1]
<1>1. \A j \in m..n : s[j] \in S
  OBVIOUS
<1>2. /\ SubSeq(s, m, n) \in Seq(S)
      /\ Len(SubSeq(s, m, n)) = IF m <= n THEN n - m + 1 ELSE 0
      /\ \A j \in 1..n - m + 1 : SubSeq(s, m, n)[j] = s[m + j - 1]
  BY <1>1, SubSeqProperties
<1>3. (IF m <= n THEN n - m + 1 ELSE 0) = n - m + 1
  OBVIOUS
<1> QED
  BY <1>2, <1>3, Zenon

\* What RemoveAt leaves of a sequence, which erase does to m_pfds (Poller.cpp:189).
LEMMA RemoveAtFacts ==
    ASSUME NEW S, NEW s \in Seq(S), NEW i \in 1..Len(s)
    PROVE  /\ RemoveAt(s, i) \in Seq(S) /\ Len(RemoveAt(s, i)) = Len(s) - 1
           /\ \A j \in 1..Len(s) - 1 : RemoveAt(s, i)[j] = IF j < i THEN s[j] ELSE s[j + 1]
<1>0. Len(s) \in Nat /\ i \in Nat /\ 1 =< i /\ i =< Len(s)
  OBVIOUS
<1>1. PICK a : a = SubSeq(s, 1, i - 1)
  OBVIOUS
<1>2. PICK b : b = SubSeq(s, i + 1, Len(s))
  OBVIOUS
<1>3. a \in Seq(S) /\ Len(a) = i - 1 /\ \A j \in 1..i - 1 : a[j] = s[j]
  <2>1. /\ a \in Seq(S) /\ Len(a) = (i - 1) - 1 + 1
        /\ \A j \in 1..(i - 1) - 1 + 1 : a[j] = s[1 + j - 1]
    BY <1>0, <1>1, PartFacts
  <2> QED
    BY <1>0, <2>1
<1>4. b \in Seq(S) /\ Len(b) = Len(s) - i /\ \A j \in 1..Len(s) - i : b[j] = s[i + j]
  <2>1. /\ b \in Seq(S) /\ Len(b) = Len(s) - (i + 1) + 1
        /\ \A j \in 1..Len(s) - (i + 1) + 1 : b[j] = s[(i + 1) + j - 1]
    BY <1>0, <1>2, PartFacts
  <2> QED
    BY <1>0, <2>1
<1>5. /\ a \o b \in Seq(S) /\ Len(a \o b) = Len(a) + Len(b)
      /\ \A j \in 1..Len(a) + Len(b) : (a \o b)[j] = IF j <= Len(a) THEN a[j] ELSE b[j - Len(a)]
  BY <1>3, <1>4, ConcatProperties
<1>6. PICK c : c = a \o b
  OBVIOUS
<1>7. RemoveAt(s, i) = c
  BY <1>1, <1>2, <1>6 DEF RemoveAt
<1>8. c \in Seq(S) /\ Len(c) = Len(s) - 1
  <2>1. c \in Seq(S) /\ Len(c) = Len(a) + Len(b)
    BY <1>5, <1>6
  <2>2. Len(a) + Len(b) = Len(s) - 1
    BY <1>0, <1>3, <1>4
  <2> QED
    BY <2>1, <2>2
<1>9. \A j \in 1..Len(s) - 1 : c[j] = IF j < i THEN a[j] ELSE b[j - (i - 1)]
  BY <1>0, <1>3, <1>4, <1>5, <1>6
<1>10. ASSUME NEW j \in 1..Len(s) - 1 PROVE RemoveAt(s, i)[j] = IF j < i THEN s[j] ELSE s[j + 1]
  <2>1. CASE j < i
    BY <1>0, <1>3, <1>7, <1>9, <2>1
  <2>2. CASE ~(j < i)
    <3>1. j - (i - 1) \in 1..Len(s) - i /\ i + (j - (i - 1)) = j + 1
      BY <1>0, <2>2
    <3> QED
      BY <1>4, <1>7, <1>9, <2>2, <3>1
  <2> QED
    BY <2>1, <2>2
<1>11. RemoveAt(s, i) \in Seq(S) /\ Len(RemoveAt(s, i)) = Len(s) - 1
  BY <1>7, <1>8
<1> QED
  BY <1>10, <1>11

USE FdAssumption, ClientAssumption, SizeAssumption, KindAssumption DEF BadFd, NoFd

\* The poller starts with the listening socket alone (Poller.cpp:124-141).
LEMMA InitInv == Init => Inv
<1> SUFFICES ASSUME Init PROVE Inv
  OBVIOUS
<1>1. TypeOK
  <2>1. Free \in FdEntry /\ [kind |-> "listener", owner |-> NoClient] \in FdEntry
    BY DEF Free, FdEntry
  <2>2. NewConnection \in Connection
    BY DEF NewConnection, Connection
  <2>3. [state |-> "none", unwritten |-> 0, piped |-> 0] \in Child
    BY DEF Child
  <2>4. /\ sock \in [Client -> {"away", "open", "fin", "rst", "broken", "closed"}]
        /\ inbox \in [Client -> Nat] /\ sent \in [Client -> 0..MaxSegments]
    BY DEF Init
  <2>5. cgi \in [Client -> Child] /\ fdTable \in [Fd -> FdEntry]
    BY <2>1, <2>3 DEF Init
  <2>6. conn \in [Fd \cup {BadFd} -> Connection]
    BY <2>2 DEF Init
  <2>7. reply \in [Client -> Seq(Reply)]
    BY DEF Init
  <2>8. m_pfds \in Seq(Fd \cup {BadFd})
    BY FdAssumption DEF Init
  <2>9. /\ backlog \in Seq(Client) /\ m_dropped_fds \in Seq(Fd \cup {BadFd})
        /\ revents \in Seq({"none", "hup", "in", "out"})
    BY DEF Init
  <2>10. /\ signalled \in BOOLEAN /\ m_clients \subseteq Fd \cup {BadFd}
         /\ pc \in {"poll", "scan", "send", "waitpid", "decode", "drop", "add", "dead",
                    "stopped"}
         /\ m_new_connection \in Fd \cup {BadFd, NoFd}
    BY DEF Init
  <2> QED
    BY <2>4, <2>5, <2>6, <2>7, <2>8, <2>9, <2>10 DEF TypeOK
<1>2. m_clients = {} /\ SockFd = {}
  BY DEF Init, SockFd, Free
<1>3. Descriptors /\ Sockets /\ OwnData /\ Once
  BY <1>2 DEF Init, Descriptors, Sockets, OwnData, Once, Open, SockFd, Owner, Free, Range
<1>4. Polled /\ Pipes
  BY <1>2 DEF Init, Polled, Pipes, Open, NewConnection, Free
<1>5. Loop /\ OwnAnswer
  BY DEF Init, Loop, OwnAnswer, Reached
<1> QED
  BY <1>1, <1>3, <1>4, <1>5 DEF Inv

-----------------------------------------------------------------------------
(* The clients and the CGI processes. *)

\* A step that changes only counts and processes keeps everything but types.
LEMMA CountsFrame ==
    ASSUME Inv, TypeOK', UNCHANGED <<sock, backlog, reply, fdTable, threadVars>>
    PROVE  Inv'
BY DEF Inv, Descriptors, Sockets, Polled, Pipes, OwnData, Loop, Once, OwnAnswer,
       threadVars, Open, SockFd, Owner, Reached, Running

\* So does one that moves a client that has connected on.
LEMMA SockFrame ==
    ASSUME Inv, TypeOK', Sockets', UNCHANGED <<reply, fdTable, threadVars>>
    PROVE  Inv'
BY DEF Inv, Descriptors, Polled, Pipes, OwnData, Loop, Once, OwnAnswer,
       threadVars, Open, SockFd, Owner, Reached, Running

\* A client that connects waits in the backlog, and disturbs no entry.
LEMMA ConnectInv ==
    ASSUME Inv, NEW c \in Client, Connect(c)
    PROVE  Inv'
<1>1. backlog \in Seq(Client) /\ backlog' = Append(backlog, c)
  BY DEF Inv, TypeOK, Connect
<1>2. TypeOK'
  <2>1. backlog' \in Seq(Client)
    BY <1>1, AppendProperties
  <2>2. sock' \in [Client -> {"away", "open", "fin", "rst", "broken", "closed"}]
    BY DEF Inv, TypeOK, Connect
  <2> QED
    BY <2>1, <2>2 DEF Inv, TypeOK, Connect, threadVars
<1>3. \A d \in Client : d \in Range(backlog') => d \in Range(backlog) \/ d = c
  BY <1>1 DEF Range
<1>4. sock[c] = "away" /\ \A d \in Client : sock'[d] = IF d = c THEN "open" ELSE sock[d]
  BY DEF Inv, TypeOK, Connect
<1>5. Sockets'
  <2>1. \A d \in Client : (sock'[d] = "away" \/ d \in Range(backlog')) =>
            reply'[d] = <<>> /\ \A f \in SockFd' : Owner(f)' # d
    BY <1>3, <1>4 DEF Inv, Sockets, SockFd, Owner, Connect
  <2>2. \A i \in DOMAIN backlog' : sock'[backlog'[i]] # "away"
    BY <1>1, <1>4 DEF Inv, Sockets
  <2>3. \A i, j \in DOMAIN backlog' : backlog'[i] = backlog'[j] => i = j
    BY <1>1, <1>4 DEF Inv, Sockets
  <2> QED
    BY <2>1, <2>2, <2>3 DEF Inv, Sockets, SockFd, Owner, Connect
<1> QED
  BY <1>2, <1>5, SockFrame DEF Connect

\* A client that sends changes what its own connection has not read.
LEMMA SendSegmentInv ==
    ASSUME Inv, NEW c \in Client, SendSegment(c)
    PROVE  Inv'
<1>1. sent' \in [Client -> 0..MaxSegments] /\ inbox' \in [Client -> Nat]
  <2>1. sent \in [Client -> 0..MaxSegments] /\ inbox \in [Client -> Nat]
    BY DEF Inv, TypeOK
  <2>2. sent[c] + 1 \in 0..MaxSegments /\ inbox[c] + 1 \in Nat
    BY <2>1, SizeAssumption DEF SendSegment
  <2> QED
    BY <2>1, <2>2 DEF SendSegment
<1>2. TypeOK'
  BY <1>1 DEF Inv, TypeOK, SendSegment, threadVars
<1> QED
  BY <1>2, CountsFrame DEF SendSegment

\* A client that closes or resets changes the state of its own connection.
LEMMA FinishAbortInv ==
    ASSUME Inv, NEW c \in Client, Finish(c) \/ Abort(c)
    PROVE  Inv'
<1>1. /\ sock' \in [Client -> {"away", "open", "fin", "rst", "broken", "closed"}]
      /\ \A d \in Client : sock'[d] = "away" <=> sock[d] = "away"
  BY DEF Inv, TypeOK, Finish, Abort
<1>2. UNCHANGED <<sent, inbox, backlog, reply, cgi, fdTable, signalled, threadVars>>
  BY DEF Finish, Abort
<1>3. TypeOK'
  BY <1>1, <1>2 DEF Inv, TypeOK, threadVars
<1>4. Sockets'
  BY <1>1, <1>2 DEF Inv, Sockets, SockFd, Owner, TypeOK
<1> QED
  BY <1>2, <1>3, <1>4, SockFrame

\* A CGI program writes to its own pipe and exits (CGI.cpp:188-239).
LEMMA ChildInv ==
    ASSUME Inv, NEW c \in Client, ChildWrite(c) \/ ChildExit(c)
    PROVE  Inv'
<1>1. cgi' \in [Client -> Child]
  <2> cgi \in [Client -> Child]
    BY DEF Inv, TypeOK
  <2>1. CASE ChildWrite(c)
    <3>1. PICK n \in 1..cgi[c].unwritten :
             cgi' = [cgi EXCEPT ![c].unwritten = @ - n, ![c].piped = @ + n]
      BY <2>1 DEF ChildWrite
    <3>2. cgi[c] \in Child /\ cgi[c].unwritten - n \in Nat /\ cgi[c].piped + n \in Nat
      BY DEF Child
    <3> QED
      BY <3>1, <3>2 DEF Child
  <2>2. CASE ChildExit(c)
    BY <2>2 DEF Child, ChildExit
  <2> QED
    BY <2>1, <2>2
<1>2. UNCHANGED <<clientVars, reply, fdTable, signalled, threadVars>>
  BY DEF ChildWrite, ChildExit
<1>3. TypeOK'
  BY <1>1, <1>2 DEF Inv, TypeOK, clientVars, threadVars
<1> QED
  BY <1>2, <1>3, CountsFrame DEF clientVars

\* A signal raises the flag, and nothing else (Signals.cpp:11-18).
LEMMA SignalInv == Inv /\ Signal => Inv'
<1> SUFFICES ASSUME Inv, Signal PROVE Inv'
  OBVIOUS
<1>1. TypeOK'
  BY DEF Inv, TypeOK, Signal, clientVars, threadVars
<1> QED
  BY <1>1, CountsFrame DEF Signal, clientVars

-----------------------------------------------------------------------------
(* The head of the loop. *)

\* poll sets the events of the entries and starts a pass (Poller.cpp:56-66).
LEMMA PollInv == Inv /\ Poll => Inv'
<1> SUFFICES ASSUME Inv, Poll PROVE Inv'
  OBVIOUS
<1> DEFINE Event == {"none", "hup", "in", "out"}
<1>1. \A i \in DOMAIN m_pfds :
         /\ Revents(m_pfds[i]) \in Event
         /\ Revents(m_pfds[i]) # "none" => m_pfds[i] # BadFd
         /\ Revents(m_pfds[i]) = "out" => m_pfds[i] \in SockFd
  BY DEF Inv, TypeOK, Revents, SockFd
<1>2. revents' \in Seq(Event) /\ DOMAIN revents' = DOMAIN m_pfds
  <2>1. m_pfds \in Seq(Fd \cup {BadFd})
    BY DEF Inv, TypeOK
  <2>2. Len(m_pfds) \in Nat /\ revents' \in [1..Len(m_pfds) -> Event]
    BY <1>1, <2>1 DEF Poll
  <2> QED
    BY <2>1, <2>2, SeqDef
<1>3. UNCHANGED <<sock, backlog, reply, fdTable, m_pfds, m_clients, conn, m_dropped_fds,
                  m_new_connection>> /\ pc = "poll" /\ pc' = "scan"
  BY DEF Poll, clientVars
<1>4. TypeOK'
  BY <1>2 DEF Inv, TypeOK, Poll, clientVars
<1>5. Descriptors' /\ Sockets' /\ Polled' /\ Pipes' /\ OwnData' /\ OwnAnswer'
  BY <1>3 DEF Inv, Descriptors, Sockets, Polled, Pipes, OwnData, OwnAnswer, Open, SockFd, Owner
<1>6. Loop'
  BY <1>1, <1>2, <1>3 DEF Inv, Loop, Polled, Poll, Reached
<1>7. Once'
  BY <1>3 DEF Inv, Loop, Once, Open, SockFd, Owner, Running, Range
<1> QED
  BY <1>4, <1>5, <1>6, <1>7 DEF Inv

\* A poll that fails, or a signal, ends the loop (Poller.cpp:57-63).
LEMMA StopInv == Inv /\ Stop => Inv'
<1> SUFFICES ASSUME Inv, Stop PROVE Inv'
  OBVIOUS
<1>1. TypeOK'
  BY DEF Inv, TypeOK, Stop, clientVars
<1> QED
  BY <1>1 DEF Inv, Stop, clientVars, Descriptors, Sockets, Polled, Pipes, OwnData, Loop,
     Once, OwnAnswer, Open, SockFd, Owner, Reached, Running

\* The end of the loop over m_pfds changes no entry (Poller.cpp:67, 110).
LEMMA EndScanInv == Inv /\ EndScan => Inv'
<1> SUFFICES ASSUME Inv, EndScan PROVE Inv'
  OBVIOUS
<1>1. TypeOK'
  BY DEF Inv, TypeOK, EndScan, clientVars
<1> QED
  BY <1>1 DEF Inv, EndScan, clientVars, Descriptors, Sockets, Polled, Pipes, OwnData, Loop,
     Once, OwnAnswer, Open, SockFd, Owner, Reached, Running

-----------------------------------------------------------------------------
(* The handlers. *)

Busy == pc \in {"scan", "send", "waitpid"}

\* The entry a handler works on.
LEMMA ReachedFacts ==
    ASSUME Inv, Busy, NEW i, Reached(i)
    PROVE  /\ i \in DOMAIN m_pfds /\ i \in DOMAIN revents /\ m_pfds[i] \in Fd
           /\ revents[i] = "out" => /\ m_pfds[i] \in Open /\ m_pfds[i] \in SockFd
                                    /\ Owner(m_pfds[i]) \in Client
           /\ \A j : Reached(j) => j = i
<1>1. i \in DOMAIN m_pfds /\ i \in DOMAIN revents /\ revents[i] # "none"
  BY DEF Reached
<1>2. m_pfds[i] \in Fd
  BY <1>1 DEF Inv, TypeOK, Loop, Busy
<1>3. revents[i] = "out" => m_pfds[i] \in Open
  BY <1>1, <1>2 DEF Inv, Loop, Busy, Open
<1>4. m_pfds[i] \in Open => m_pfds[i] \in SockFd /\ Owner(m_pfds[i]) \in Client
  BY DEF Inv, Descriptors, SockFd
<1>5. ASSUME NEW j, Reached(j) PROVE j = i
  <2>1. j \in Int /\ i \in Int
    BY <1>1, <1>5 DEF Reached, Inv, TypeOK
  <2> QED
    BY <1>1, <1>5, <2>1 DEF Reached
<1> QED
  BY <1>1, <1>2, <1>3, <1>4, <1>5

\* An entry that is handled is passed, and the rest stay.
LEMMA HandledFacts ==
    ASSUME Inv, NEW i, Reached(i), Handled(i)
    PROVE  /\ revents' \in Seq({"none", "hup", "in", "out"})
           /\ DOMAIN revents' = DOMAIN revents
           /\ \A j \in DOMAIN revents : revents'[j] = IF j = i THEN "none" ELSE revents[j]
<1> DEFINE Event == {"none", "hup", "in", "out"}
<1>1. revents \in Seq(Event) /\ i \in 1..Len(revents)
  BY DEF Inv, TypeOK, Reached
<1>2. revents' = [revents EXCEPT ![i] = "none"]
  BY DEF Handled
<1>3. "none" \in Event
  OBVIOUS
<1> HIDE DEF Event
<1>4. revents' \in Seq(Event)
  BY <1>1, <1>2, <1>3, ExceptSeq
<1> QED
  BY <1>2, <1>4 DEF Event

\* What can be on the stack, and what pushing a descriptor does.
Stack == {s \in Seq(Fd \cup {BadFd}) : \A j \in DOMAIN s : s[j] # BadFd}

\* Pushing a descriptor keeps what the stack of dropped ones holds.
LEMMA PushFacts ==
    ASSUME NEW s \in Stack, NEW f \in Fd
    PROVE  Cons(f, s) \in Stack /\ Range(Cons(f, s)) = Range(s) \cup {f}
<1> DEFINE S == Fd \cup {BadFd}
<1>0. s \in Seq(S) /\ f \in S /\ f # BadFd
  BY FdAssumption DEF Stack
<1>1. Cons(f, s) \in Seq(S) /\ Len(Cons(f, s)) = Len(s) + 1
  BY <1>0 DEF Cons
<1>2. \A j \in 1..Len(s) + 1 : Cons(f, s)[j] = IF j = 1 THEN f ELSE s[j - 1]
  BY <1>0 DEF Cons
<1>3. Range(Cons(f, s)) = Range(s) \cup {f}
  <2>1. Range(Cons(f, s)) \subseteq Range(s) \cup {f}
    BY <1>1, <1>2 DEF Range
  <2>2. f \in Range(Cons(f, s))
    <3>1. 1 \in DOMAIN Cons(f, s) /\ Cons(f, s)[1] = f
      BY <1>1, <1>2
    <3> QED
      BY <3>1 DEF Range
  <2>3. ASSUME NEW j \in DOMAIN s PROVE s[j] \in Range(Cons(f, s))
    <3>1. j + 1 \in DOMAIN Cons(f, s) /\ Cons(f, s)[j + 1] = s[j]
      BY <1>1, <1>2
    <3> QED
      BY <3>1 DEF Range
  <2> QED
    BY <2>1, <2>2, <2>3 DEF Range
<1>4. \A j \in DOMAIN Cons(f, s) : Cons(f, s)[j] # BadFd
  <2> SUFFICES ASSUME NEW j \in DOMAIN Cons(f, s) PROVE Cons(f, s)[j] # BadFd
    OBVIOUS
  <2>1. j \in 1..Len(s) + 1
    BY <1>1
  <2>2. CASE j = 1
    BY <1>0, <1>2, <2>1, <2>2
  <2>3. CASE j # 1
    <3>1. j - 1 \in DOMAIN s
      BY <1>0, <2>1, <2>3
    <3>2. Cons(f, s)[j] = s[j - 1]
      BY <1>2, <2>1, <2>3
    <3> QED
      BY <3>1, <3>2 DEF Stack
  <2> QED
    BY <2>2, <2>3
<1> QED
  BY <1>1, <1>3, <1>4 DEF Stack

\* The stack of dropped descriptors is a sequence of descriptors.
LEMMA StackFacts == Inv => m_dropped_fds \in Stack
BY DEF Inv, TypeOK, Loop, Stack

\* The position in m_pfds stays within it when an entry is handled.
LEMMA HandledLoop ==
    ASSUME Inv, Busy, NEW i, Reached(i), Handled(i),
           UNCHANGED <<m_pfds, m_clients>>, pc' \in {"scan", "decode", "dead"},
           m_dropped_fds' \in Stack,
           m_new_connection' = m_new_connection \/ m_pfds[i] = Listener
    PROVE  Loop'
<1>1. \A j \in DOMAIN m_pfds : m_pfds[j] = m_pfds[i] => j = i
  BY ReachedFacts DEF Inv, Polled
<1>2. ~(\E j : Reached(j)' /\ pc' \in {"send", "waitpid"})
  OBVIOUS
<1> QED
  BY <1>1, <1>2, HandledFacts DEF Inv, Loop, Busy, Reached, Stack

\* What handling an entry keeps of Once, for the connections it does not touch.
LEMMA OnceHandled ==
    ASSUME Inv, Busy, NEW i, Reached(i), Handled(i), UNCHANGED <<m_pfds, m_clients>>,
           Range(m_dropped_fds) \subseteq Range(m_dropped_fds'),
           NEW k \in SockFd, reply[Owner(k)] # <<>>,
           conn'[k].pipeFd = conn[k].pipeFd, conn'[k].isCGI = conn[k].isCGI
    PROVE  /\ k \in m_clients' /\ k \in Range(m_dropped_fds')
           /\ \A j \in DOMAIN revents' \cap DOMAIN m_pfds' :
                 (m_pfds'[j] = conn'[k].pipeFd \/ (m_pfds'[j] = k /\ ~conn'[k].isCGI))
                     => revents'[j] = "none"
<1>1. Running
  BY DEF Busy, Running
<1>2. k \in m_clients /\ k \in Range(m_dropped_fds)
  BY <1>1 DEF Inv, Once
<1>3. ASSUME NEW j \in DOMAIN revents' \cap DOMAIN m_pfds',
             m_pfds'[j] = conn'[k].pipeFd \/ (m_pfds'[j] = k /\ ~conn'[k].isCGI)
      PROVE  revents'[j] = "none"
  <2>1. j \in DOMAIN revents /\ revents'[j] = IF j = i THEN "none" ELSE revents[j]
    BY HandledFacts
  <2>2. revents[j] = "none"
    BY <1>3, <2>1 DEF Inv, Once
  <2> QED
    BY <2>1, <2>2
<1> QED
  BY <1>2, <1>3

\* A handler that changes at most the stack and the state of a TCP connection.
LEMMA HandlerFrame ==
    ASSUME Inv, Busy, NEW i, Reached(i), Handled(i), pc' \in {"scan", "decode", "dead"},
           UNCHANGED <<sent, inbox, backlog, reply, cgi, fdTable, signalled, m_pfds,
                       m_clients, conn, m_new_connection>>,
           m_dropped_fds' \in Stack, Range(m_dropped_fds) \subseteq Range(m_dropped_fds'),
           sock' \in [Client -> {"away", "open", "fin", "rst", "broken", "closed"}],
           \A c \in Client : sock'[c] = "away" <=> sock[c] = "away"
    PROVE  Inv'
<1>1. TypeOK'
  BY HandledFacts DEF Inv, TypeOK, Stack
<1>2. Sockets'
  <2>1. \A j \in DOMAIN backlog : backlog[j] \in Client
    BY DEF Inv, TypeOK
  <2>2. SockFd' = SockFd /\ \A k \in SockFd : Owner(k)' = Owner(k)
    BY DEF SockFd, Owner
  <2> QED
    BY <2>1, <2>2 DEF Inv, Sockets
<1>3. Descriptors' /\ Polled' /\ Pipes' /\ OwnData' /\ OwnAnswer'
  BY DEF Inv, Descriptors, Polled, Pipes, OwnData, OwnAnswer, Open, SockFd, Owner, Busy
<1>4. Loop'
  BY HandledLoop
<1>5. Once'
  <2>1. SockFd' = SockFd /\ \A k \in SockFd : Owner(k)' = Owner(k)
    BY DEF SockFd, Owner
  <2> QED
    BY <2>1, OnceHandled DEF Once
<1> QED
  BY <1>1, <1>2, <1>3, <1>4, <1>5 DEF Inv

\* A hang-up puts the descriptor on the stack (Poller.cpp:76-78).
LEMMA HangUpInv ==
    ASSUME Inv, NEW i, HangUp(i)
    PROVE  Inv'
<1>1. Busy /\ Reached(i) /\ Handled(i) /\ pc = "scan" /\ pc' = "scan"
  BY DEF HangUp, Handling, Busy
<1>2. m_dropped_fds' \in Stack /\ Range(m_dropped_fds) \subseteq Range(m_dropped_fds')
  BY <1>1, ReachedFacts, StackFacts, PushFacts DEF HangUp
<1> QED
  BY <1>1, <1>2, HandlerFrame DEF HangUp, clientVars, Inv, TypeOK

\* A connection with no request is dropped (Connection.cpp:107-120).
LEMMA RespondNothingInv ==
    ASSUME Inv, NEW i, RespondNothing(i)
    PROVE  Inv'
<1>1. Busy /\ Reached(i) /\ Handled(i) /\ pc = "scan" /\ pc' = "scan"
  BY DEF RespondNothing, Handling, Busy
<1>2. m_dropped_fds' \in Stack /\ Range(m_dropped_fds) \subseteq Range(m_dropped_fds')
  BY <1>1, ReachedFacts, StackFacts, PushFacts DEF RespondNothing
<1> QED
  BY <1>1, <1>2, HandlerFrame DEF RespondNothing, clientVars, Inv, TypeOK

\* A connection that reads nothing, with no request, is dropped (Poller.cpp:289-291).
LEMMA RecvNothingInv ==
    ASSUME Inv, NEW i, RecvNothing(i)
    PROVE  Inv'
<1>1. Busy /\ Reached(i) /\ Handled(i) /\ pc = "scan" /\ pc' = "scan"
  BY DEF RecvNothing, Handling, Busy
<1>2. m_dropped_fds' \in Stack /\ Range(m_dropped_fds) \subseteq Range(m_dropped_fds')
  <2>1. m_dropped_fds' = Cons(m_pfds[i], m_dropped_fds) \/ m_dropped_fds' = m_dropped_fds
    BY DEF RecvNothing
  <2>2. m_pfds[i] \in Fd /\ m_dropped_fds \in Stack
    BY <1>1, ReachedFacts, StackFacts
  <2>3. /\ Cons(m_pfds[i], m_dropped_fds) \in Stack
        /\ Range(Cons(m_pfds[i], m_dropped_fds)) = Range(m_dropped_fds) \cup {m_pfds[i]}
    BY <2>2, PushFacts
  <2> QED
    BY <2>1, <2>2, <2>3
<1>3. /\ sock' \in [Client -> {"away", "open", "fin", "rst", "broken", "closed"}]
      /\ \A c \in Client : sock'[c] = "away" <=> sock[c] = "away"
  BY DEF RecvNothing, Inv, TypeOK
<1> QED
  BY <1>1, <1>2, <1>3, HandlerFrame DEF RecvNothing

\* The handlers that end the process, or find nothing to do.
LEMMA NothingDoneInv ==
    ASSUME Inv, NEW i, RecvNoConnection(i) \/ StartCGIFails(i) \/ AwaitCGI(i) \/ ParseEndless(i)
    PROVE  Inv'
<1>1. Busy /\ Reached(i) /\ Handled(i) /\ pc' \in {"scan", "decode", "dead"}
  BY DEF RecvNoConnection, StartCGIFails, AwaitCGI, ParseEndless, Asks, Handling, Busy
<1>2. UNCHANGED <<clientVars, reply, cgi, fdTable, signalled, m_pfds, m_clients, conn,
                  m_dropped_fds, m_new_connection>>
  BY DEF RecvNoConnection, StartCGIFails, AwaitCGI, ParseEndless
<1> QED
  BY <1>1, <1>2, StackFacts, HandlerFrame DEF clientVars, Inv, TypeOK

-----------------------------------------------------------------------------
(* New connections. *)

\* An accept that fails adds an entry for -1 (ServerSocket.cpp:102-127).
LEMMA AcceptFailsInv ==
    ASSUME Inv, NEW i, AcceptFails(i)
    PROVE  Inv'
<1>1. Busy /\ Reached(i) /\ Handled(i) /\ pc = "scan" /\ pc' = "scan" /\ m_pfds[i] = Listener
  BY DEF AcceptFails, Handling, Busy
<1>2. UNCHANGED <<clientVars, reply, cgi, fdTable, signalled, m_pfds, m_clients, conn,
                  m_dropped_fds>> /\ m_new_connection' = BadFd
  BY DEF AcceptFails
<1>3. m_new_connection = NoFd
  BY <1>1 DEF Inv, Loop, Reached
<1>4. TypeOK'
  BY <1>1, <1>2, HandledFacts DEF Inv, TypeOK, clientVars
<1>5. /\ SockFd' = SockFd /\ Open' = Open /\ \A k \in Fd : Owner(k)' = Owner(k)
      /\ BadFd \notin Fd /\ NoFd \notin Fd
  BY <1>2 DEF SockFd, Owner, Open
<1>8. Descriptors'
  BY <1>1, <1>2, <1>3, <1>5 DEF Inv, Descriptors, SockFd
<1>9. Sockets'
  <2>1. Sockets
    BY DEF Inv
  <2>2. UNCHANGED <<sock, backlog, reply, fdTable>>
    BY <1>2 DEF clientVars
  <2> QED
    BY <2>1, <2>2 DEF Sockets, SockFd, Owner
<1>10. Polled' /\ Pipes' /\ OwnData' /\ OwnAnswer'
  BY <1>2 DEF Inv, Polled, Pipes, OwnData, OwnAnswer, Open, SockFd, Owner
<1>6. Loop'
  BY <1>1, <1>2, StackFacts, HandledLoop
<1>7. Once'
  BY <1>1, <1>2, <1>5, OnceHandled DEF Once, SockFd
<1> QED
  BY <1>4, <1>6, <1>7, <1>8, <1>9, <1>10 DEF Inv

\* An accept takes a free descriptor for one waiting client (Poller.cpp:243-255).
LEMMA AcceptInv ==
    ASSUME Inv, NEW i, Accept(i)
    PROVE  Inv'
<1>1. Busy /\ Reached(i) /\ Handled(i) /\ pc = "scan" /\ pc' = "scan" /\ m_pfds[i] = Listener
  BY DEF Accept, Handling, Busy
<1>2. PICK f \in FreeFd :
         /\ fdTable' = [fdTable EXCEPT ![f] = [kind |-> "sock", owner |-> Head(backlog)]]
         /\ m_new_connection' = f
  BY DEF Accept
<1>3. /\ UNCHANGED <<sock, sent, inbox, reply, cgi, signalled, m_pfds, m_clients, conn,
                     m_dropped_fds>>
      /\ backlog # <<>> /\ backlog' = Tail(backlog)
  BY DEF Accept
<1>4. m_new_connection = NoFd /\ f \in Fd /\ fdTable[f].kind = "free"
  BY <1>1 DEF Inv, Loop, Reached, FreeFd
<1> DEFINE c == Head(backlog)
<1>5. /\ backlog \in Seq(Client) /\ c \in Client /\ backlog' \in Seq(Client)
      /\ c = backlog[1] /\ 1 \in DOMAIN backlog
      /\ Len(backlog') = Len(backlog) - 1
      /\ \A j \in DOMAIN backlog' : j + 1 \in DOMAIN backlog /\ backlog'[j] = backlog[j + 1]
  <2>1. backlog \in Seq(Client) /\ backlog # <<>>
    BY <1>3 DEF Inv, TypeOK
  <2> QED
    BY <1>3, <2>1, HeadTailProperties
<1>6. TypeOK'
  <2>1. fdTable' \in [Fd -> FdEntry]
    BY <1>2, <1>5 DEF Inv, TypeOK, FdEntry
  <2> QED
    BY <1>1, <1>2, <1>3, <1>4, <1>5, <2>1, HandledFacts DEF Inv, TypeOK
<1>7. /\ SockFd' = SockFd \cup {f} /\ f \notin SockFd /\ Owner(f)' = c
      /\ \A g \in Fd : g # f => fdTable'[g] = fdTable[g]
      /\ Open' = Open
  BY <1>2, <1>3, <1>4 DEF SockFd, Owner, Open, Inv, TypeOK
<1>8. Descriptors'
  BY <1>1, <1>2, <1>4, <1>5, <1>7 DEF Inv, Descriptors, Owner, SockFd
<1>9. Sockets'
  <2>1. c \in Range(backlog) /\ reply[c] = <<>> /\ \A g \in SockFd : Owner(g) # c
    BY <1>5 DEF Inv, Sockets, Range
  <2>2. \A g, h \in SockFd' : Owner(g)' = Owner(h)' => g = h
    BY <1>7, <2>1 DEF Inv, Sockets, Owner, SockFd
  <2>3. sock[c] # "away" /\ c \notin Range(backlog')
    BY <1>5 DEF Inv, Sockets, Range
  <2>4. Range(backlog') \subseteq Range(backlog)
    BY <1>5 DEF Range
  <2>5. \A d \in Client : (sock'[d] = "away" \/ d \in Range(backlog')) =>
            reply'[d] = <<>> /\ \A g \in SockFd' : Owner(g)' # d
    BY <1>3, <1>7, <2>3, <2>4 DEF Inv, Sockets, Owner, SockFd
  <2>6. \A j \in DOMAIN backlog' : sock'[backlog'[j]] # "away"
    BY <1>3, <1>5 DEF Inv, Sockets
  <2>7. \A j, l \in DOMAIN backlog' : backlog'[j] = backlog'[l] => j = l
    <3> SUFFICES ASSUME NEW j \in DOMAIN backlog', NEW l \in DOMAIN backlog',
                        backlog'[j] = backlog'[l]
                 PROVE  j = l
      OBVIOUS
    <3>1. j + 1 = l + 1
      BY <1>5 DEF Inv, Sockets
    <3> QED
      BY <3>1, <1>5
  <2> QED
    BY <2>2, <2>5, <2>6, <2>7 DEF Sockets
<1>10. /\ \A j \in DOMAIN m_pfds : m_pfds[j] # f
       /\ \A k \in Open : conn[k].pipeFd # f /\ k # f
       /\ \A k \in Open : Owner(k)' = Owner(k)
  <2>1. \A j \in DOMAIN m_pfds : m_pfds[j] # f
    BY <1>4 DEF Inv, Polled
  <2>2. \A k \in Open : k \in Fd /\ k # f
    BY <1>4, <1>7 DEF Inv, Descriptors, SockFd
  <2>3. ASSUME NEW k \in Open PROVE conn[k].pipeFd # f
    <3>1. CASE conn[k].pipeFd = NoFd
      BY <1>4, <3>1
    <3>2. CASE conn[k].pipeFd # NoFd
      <4>1. fdTable[conn[k].pipeFd] = [kind |-> "pipe", owner |-> Owner(k)]
        BY <3>2 DEF Inv, Pipes
      <4>2. fdTable[conn[k].pipeFd].kind = "pipe"
        BY <4>1
      <4> QED
        BY <1>4, <4>2
    <3> QED
      BY <3>1, <3>2
  <2> QED
    BY <1>7, <2>1, <2>2, <2>3 DEF Owner
<1>14. Polled'
  <2>1. ASSUME NEW j \in DOMAIN m_pfds, m_pfds[j] # BadFd
        PROVE  /\ fdTable'[m_pfds[j]] = fdTable[m_pfds[j]]
               /\ m_pfds[j] \in SockFd' => m_pfds[j] \in SockFd
    <3>1. m_pfds[j] \in Fd /\ m_pfds[j] # f
      BY <1>10, <2>1 DEF Inv, TypeOK
    <3> QED
      BY <1>7, <3>1
  <2> QED
    BY <1>3, <2>1 DEF Inv, Polled
<1>15. Pipes'
  <2>1. \A k \in Open : conn[k].pipeFd # NoFd => fdTable'[conn[k].pipeFd] = fdTable[conn[k].pipeFd]
    <3>1. \A k \in Open : k \in Fd /\ conn[k].pipeFd \in Fd \cup {NoFd}
      BY DEF Inv, TypeOK, Connection, Descriptors, SockFd
    <3> QED
      BY <1>7, <1>10, <3>1
  <2>2. Pipes
    BY DEF Inv
  <2>3. ASSUME NEW k \in Open, conn[k].pipeFd # NoFd
        PROVE  fdTable'[conn[k].pipeFd] = [kind |-> "pipe", owner |-> Owner(k)']
    <3>1. fdTable[conn[k].pipeFd] = [kind |-> "pipe", owner |-> Owner(k)]
      BY <2>2, <2>3 DEF Pipes
    <3> QED
      BY <1>10, <2>1, <2>3, <3>1
  <2>4. UNCHANGED <<conn, m_pfds, Open>>
    BY <1>3, <1>7
  <2> QED
    BY <2>2, <2>3, <2>4 DEF Pipes
<1>16. OwnData'
  BY <1>3, <1>7, <1>10 DEF Inv, OwnData
<1>11. Loop'
  BY <1>1, <1>3, StackFacts, HandledLoop
<1>12. Once'
  <2>1. reply'[Owner(f)'] = <<>>
    BY <1>3, <1>5, <1>7 DEF Inv, Sockets, Range
  <2>2. \A k \in SockFd : Owner(k)' = Owner(k)
    BY <1>7 DEF Owner, SockFd
  <2> QED
    BY <1>1, <1>3, <1>7, <2>1, <2>2, OnceHandled DEF Once
<1>13. OwnAnswer'
  BY <1>3 DEF Inv, OwnAnswer
<1> QED
  BY <1>6, <1>8, <1>9, <1>11, <1>12, <1>13, <1>14, <1>15, <1>16 DEF Inv
-----------------------------------------------------------------------------
(* Reading and answering. *)

\* A step that takes free descriptors for other uses than sockets.
LEMMA TableFrame ==
    ASSUME Inv, UNCHANGED <<sock, backlog, m_pfds, m_clients, m_new_connection>>,
           pc' = "add" <=> pc = "add",
           \A f \in Fd : \/ fdTable'[f] = fdTable[f]
                         \/ /\ fdTable[f].kind = "free"
                            /\ fdTable'[f].kind \in {"held", "pipe"}
                            /\ fdTable'[f].kind = "pipe" => fdTable'[f].owner \in Client,
           \A c \in Client : reply'[c] = reply[c] \/ \E f \in SockFd : Owner(f) = c
    PROVE  /\ SockFd' = SockFd /\ Open' = Open
           /\ \A f \in SockFd : Owner(f)' = Owner(f)
           /\ Descriptors' /\ Sockets' /\ Polled'
<1>1. SockFd' = SockFd /\ Open' = Open
  BY DEF SockFd, Open
<1>2. \A f \in SockFd : Owner(f)' = Owner(f)
  BY DEF SockFd, Owner
<1>3. Descriptors'
  <2>1. \A f \in Fd : fdTable'[f].kind \in {"sock", "pipe"} => Owner(f)' \in Client
    BY DEF Inv, Descriptors, Owner
  <2> QED
    BY <1>1, <2>1 DEF Inv, Descriptors
<1>4. Sockets'
  <2>1. \A c \in Client : (sock'[c] = "away" \/ c \in Range(backlog')) =>
            reply'[c] = <<>> /\ \A f \in SockFd' : Owner(f)' # c
    BY <1>1, <1>2 DEF Inv, Sockets
  <2> QED
    BY <1>1, <1>2, <2>1 DEF Inv, Sockets
<1>5. Polled'
  <2>1. ASSUME NEW j \in DOMAIN m_pfds, m_pfds[j] # BadFd
        PROVE  fdTable'[m_pfds[j]] = fdTable[m_pfds[j]]
    <3>1. m_pfds[j] \in Fd /\ fdTable[m_pfds[j]].kind # "free"
      BY <2>1 DEF Inv, TypeOK, Polled
    <3> QED
      BY <3>1
  <2> QED
    BY <1>1, <2>1 DEF Inv, Polled
<1> QED
  BY <1>1, <1>2, <1>3, <1>4, <1>5

\* What is known of an open connection.
LEMMA OpenFacts ==
    ASSUME Inv, NEW k \in Open
    PROVE  /\ k \in Fd /\ k \in SockFd /\ k \in m_clients /\ Owner(k) \in Client
           /\ conn[k] \in Connection
           /\ conn[k].pipeFd # NoFd => fdTable[conn[k].pipeFd].kind = "pipe"
<1>1. k \in Fd /\ k \in SockFd /\ k \in m_clients /\ Owner(k) \in Client
  BY DEF Inv, Descriptors, SockFd, Open
<1>2. conn[k] \in Connection
  BY <1>1 DEF Inv, TypeOK
<1>3. ASSUME conn[k].pipeFd # NoFd PROVE fdTable[conn[k].pipeFd].kind = "pipe"
  <2>1. fdTable[conn[k].pipeFd] = [kind |-> "pipe", owner |-> Owner(k)]
    BY <1>3 DEF Inv, Pipes
  <2> QED
    BY <2>1
<1> QED
  BY <1>1, <1>2, <1>3

\* A step that changes what a connection has read or parsed, not its pipe.
LEMMA ConnFrame ==
    ASSUME Inv, NEW k \in Open, NEW x \in Connection, conn' = [conn EXCEPT ![k] = x],
           Open' = Open, UNCHANGED m_pfds,
           \A f \in Fd : fdTable[f].kind # "free" => fdTable'[f] = fdTable[f],
           x.isCGI = conn[k].isCGI, x.pipeFd = conn[k].pipeFd,
           x.m_cgi_added = conn[k].m_cgi_added, x.isCGI => x.parsed # <<>>,
           \A j \in DOMAIN x.m_request : x.m_request[j] = Owner(k),
           \A j \in DOMAIN x.parsed : x.parsed[j] = Owner(k)
    PROVE  conn' \in [Fd \cup {BadFd} -> Connection] /\ Pipes' /\ OwnData'
<1>1. conn \in [Fd \cup {BadFd} -> Connection] /\ k \in Fd
  BY OpenFacts DEF Inv, TypeOK
<1>2. conn' \in [Fd \cup {BadFd} -> Connection]
  BY <1>1
<1>3. /\ conn'[k] = x
      /\ \A g \in Fd \cup {BadFd} : g # k => conn'[g] = conn[g]
  BY <1>1
<1>4. \A g \in Open : Owner(g)' = Owner(g)
  BY OpenFacts DEF SockFd, Owner
<1>5. \A g \in Open : /\ conn'[g].pipeFd = conn[g].pipeFd /\ conn'[g].isCGI = conn[g].isCGI
                      /\ conn'[g].m_cgi_added = conn[g].m_cgi_added
                      /\ conn'[g].isCGI => conn'[g].parsed # <<>>
  <2>1. \A g \in Open : g \in Fd
    BY OpenFacts
  <2>2. \A g \in Open : conn[g].isCGI => conn[g].parsed # <<>>
    BY DEF Inv, Pipes
  <2> QED
    BY <1>3, <2>1, <2>2
<1>6. \A g \in Open : conn[g].pipeFd # NoFd =>
         /\ conn[g].pipeFd \in Fd /\ fdTable'[conn[g].pipeFd] = fdTable[conn[g].pipeFd]
  <2> SUFFICES ASSUME NEW g \in Open, conn[g].pipeFd # NoFd
               PROVE  conn[g].pipeFd \in Fd /\ fdTable'[conn[g].pipeFd] = fdTable[conn[g].pipeFd]
    OBVIOUS
  <2>1. conn[g].pipeFd \in Fd
    BY OpenFacts DEF Connection
  <2> QED
    BY <2>1, OpenFacts
<1>7. Pipes'
  <2>1. \A g \in Open : /\ conn'[g].isCGI <=> conn'[g].pipeFd # NoFd
                        /\ conn'[g].isCGI => conn'[g].parsed # <<>>
    <3>1. \A g \in Open : conn[g].isCGI <=> conn[g].pipeFd # NoFd
      BY DEF Inv, Pipes
    <3> QED
      BY <1>5, <3>1
  <2>2. \A g \in Open : conn'[g].pipeFd # NoFd =>
          /\ fdTable'[conn'[g].pipeFd] = [kind |-> "pipe", owner |-> Owner(g)']
          /\ ~conn'[g].m_cgi_added => \A j \in DOMAIN m_pfds' : m_pfds'[j] # conn'[g].pipeFd
    <3>1. \A g \in Open : conn[g].pipeFd # NoFd =>
            /\ fdTable[conn[g].pipeFd] = [kind |-> "pipe", owner |-> Owner(g)]
            /\ ~conn[g].m_cgi_added => \A j \in DOMAIN m_pfds : m_pfds[j] # conn[g].pipeFd
      BY DEF Inv, Pipes
    <3> QED
      BY <1>4, <1>5, <1>6, <3>1
  <2>3. \A g \in Fd \cup {BadFd} : g \notin Open => conn'[g] = NewConnection
    BY <1>3 DEF Inv, Pipes
  <2> QED
    BY <2>1, <2>2, <2>3 DEF Pipes
<1>8. OwnData'
  <2> SUFFICES ASSUME NEW g \in Open
               PROVE  /\ \A j \in DOMAIN conn'[g].m_request : conn'[g].m_request[j] = Owner(g)'
                      /\ \A j \in DOMAIN conn'[g].parsed : conn'[g].parsed[j] = Owner(g)'
    BY DEF OwnData
  <2>1. CASE g = k
    BY <1>3, <1>4, <2>1
  <2>2. CASE g # k
    <3>1. conn'[g] = conn[g]
      BY <1>3, <2>2, OpenFacts
    <3> QED
      BY <1>4, <3>1 DEF Inv, OwnData
  <2> QED
    BY <2>1, <2>2
<1> QED
  BY <1>2, <1>7, <1>8

\* readSocket adds what a client sent to its own request (Connection.cpp:85-105).
LEMMA RecvDataInv ==
    ASSUME Inv, NEW i, RecvData(i)
    PROVE  Inv'
<1> DEFINE k == m_pfds[i]
           c == Owner(k)
           x == [conn[k] EXCEPT !.m_request = Append(@, c)]
<1>1. Busy /\ Reached(i) /\ Handled(i) /\ pc = "scan" /\ pc' = "scan"
  BY DEF RecvData, Handling, Busy
<1>2. /\ UNCHANGED <<sock, sent, backlog, reply, cgi, fdTable, signalled, m_pfds, m_clients,
                     m_dropped_fds, m_new_connection>>
      /\ inbox[c] > 0 /\ inbox' = [inbox EXCEPT ![c] = @ - 1] /\ conn' = [conn EXCEPT ![k] = x]
      /\ k \in Open
  BY <1>1, ReachedFacts DEF RecvData, Owner, Open
<1>3. c \in Client /\ conn[k] \in Connection /\ k \in Fd
  BY <1>2, OpenFacts
<1>4. x \in Connection
  BY <1>3, AppendProperties DEF Connection
<1>5. inbox' \in [Client -> Nat]
  <2>1. inbox \in [Client -> Nat] /\ inbox[c] \in Nat
    BY <1>3 DEF Inv, TypeOK
  <2> QED
    BY <1>2, <1>3, <2>1
<1>6. \A j \in DOMAIN x.m_request : x.m_request[j] = c
  <2>1. conn[k].m_request \in Seq(Client) /\ x.m_request = Append(conn[k].m_request, c)
    BY <1>3 DEF Connection
  <2>2. \A j \in DOMAIN conn[k].m_request : conn[k].m_request[j] = c
    BY <1>2 DEF Inv, OwnData
  <2> QED
    BY <2>1, <2>2, AppendProperties
<1>7. /\ x.isCGI = conn[k].isCGI /\ x.pipeFd = conn[k].pipeFd /\ x.parsed = conn[k].parsed
      /\ x.m_cgi_added = conn[k].m_cgi_added
  BY <1>3 DEF Connection
<1>8. x.isCGI => x.parsed # <<>>
  BY <1>2, <1>7 DEF Inv, Pipes
<1>9. \A j \in DOMAIN x.parsed : x.parsed[j] = c
  BY <1>2, <1>7 DEF Inv, OwnData
<1>10. SockFd' = SockFd /\ Open' = Open /\ (\A f \in SockFd : Owner(f)' = Owner(f))
       /\ Descriptors' /\ Sockets' /\ Polled'
  BY <1>1, <1>2, TableFrame
<1> HIDE DEF x
<1>11. conn' \in [Fd \cup {BadFd} -> Connection] /\ Pipes' /\ OwnData'
  BY <1>2, <1>4, <1>6, <1>7, <1>8, <1>9, <1>10, ConnFrame
<1>12. TypeOK'
  BY <1>1, <1>2, <1>5, <1>11, HandledFacts DEF Inv, TypeOK
<1>13. Loop'
  BY <1>1, <1>2, StackFacts, HandledLoop
<1>14. Once'
  <2>1. \A g \in SockFd : g \in Fd \cup {BadFd}
    BY DEF SockFd
  <2>2. \A g \in SockFd : conn'[g].isCGI = conn[g].isCGI /\ conn'[g].pipeFd = conn[g].pipeFd
    BY <1>2, <1>7, <2>1 DEF Inv, TypeOK
  <2> QED
    BY <1>1, <1>2, <1>10, <2>2, OnceHandled DEF Once
<1>15. OwnAnswer'
  BY <1>2 DEF Inv, OwnAnswer
<1> QED
  BY <1>10, <1>11, <1>12, <1>13, <1>14, <1>15 DEF Inv

\* What Request and Parsed give: the connection's own data, whole.
LEMMA ParsedFacts ==
    ASSUME Inv, NEW k \in Open, ~conn[k].isCGI, Request(k) # <<>>
    PROVE  /\ Parsed(k) \in Connection /\ Parsed(k).parsed # <<>>
           /\ Parsed(k).isCGI = conn[k].isCGI /\ Parsed(k).pipeFd = conn[k].pipeFd
           /\ Parsed(k).m_cgi_added = conn[k].m_cgi_added
           /\ \A j \in DOMAIN Parsed(k).m_request : Parsed(k).m_request[j] = Owner(k)
           /\ \A j \in DOMAIN Parsed(k).parsed : Parsed(k).parsed[j] = Owner(k)
           /\ Range(Request(k)) = {Owner(k)}
<1>1. conn[k] \in Connection
  BY OpenFacts
<1>2. /\ conn[k].m_request \in Seq(Client) /\ conn[k].parsed \in Seq(Client)
      /\ Request(k) \in Seq(Client)
  BY <1>1 DEF Connection, Request
<1>3. /\ Parsed(k).parsed = Request(k)
      /\ Parsed(k).m_request = IF conn[k].parsed = <<>> THEN <<>> ELSE conn[k].m_request
      /\ Parsed(k).isCGI = conn[k].isCGI /\ Parsed(k).pipeFd = conn[k].pipeFd
      /\ Parsed(k).m_cgi_added = conn[k].m_cgi_added
  BY <1>1 DEF Connection, Parsed
<1>4. Parsed(k) \in Connection
  <2>1. <<>> \in Seq(Client)
    OBVIOUS
  <2> QED
    BY <1>1, <1>2, <2>1 DEF Connection, Parsed
<1>5. \A j \in DOMAIN Request(k) : Request(k)[j] = Owner(k)
  BY DEF Request, Inv, OwnData
<1>6. \A j \in DOMAIN Parsed(k).m_request : Parsed(k).m_request[j] = Owner(k)
  BY <1>3 DEF Inv, OwnData
<1>7. Range(Request(k)) = {Owner(k)}
  <2>1. 1 \in DOMAIN Request(k)
    BY <1>2
  <2> QED
    BY <1>5, <2>1 DEF Range
<1> QED
  BY <1>3, <1>4, <1>5, <1>6, <1>7

\* What sending an answer to a client that has none changes.
LEMMA SendFacts ==
    ASSUME Inv, NEW k \in Open, NEW answer \in Reply, answer.from = {Owner(k)},
           reply[Owner(k)] = <<>>, Send(k, answer)
    PROVE  /\ reply' \in [Client -> Seq(Reply)] /\ OwnAnswer' /\ pc' \in {"scan", "dead"}
           /\ \A c \in Client : c # Owner(k) => reply'[c] = reply[c]
<1>1. Owner(k) \in Client
  BY OpenFacts
<1>2. reply \in [Client -> Seq(Reply)]
  BY DEF Inv, TypeOK
<1>3. pc' \in {"scan", "dead"} /\ (UNCHANGED reply
         \/ reply' = [reply EXCEPT ![Owner(k)] = Append(@, answer)])
  BY DEF Send, Owner
<1>4. Append(reply[Owner(k)], answer) = <<answer>>
  BY <1>1, <1>2
<1>5. UNCHANGED reply \/ reply' = [reply EXCEPT ![Owner(k)] = <<answer>>]
  BY <1>1, <1>2, <1>3, <1>4
<1>6. <<answer>> \in Seq(Reply) /\ Len(<<answer>>) = 1 /\ \A j \in DOMAIN <<answer>> : <<answer>>[j] = answer
  OBVIOUS
<1>7. /\ reply' \in [Client -> Seq(Reply)]
      /\ \A c \in Client : reply'[c] = reply[c] \/ (c = Owner(k) /\ reply'[c] = <<answer>>)
  BY <1>1, <1>2, <1>5, <1>6
<1>8. OwnAnswer'
  <2> SUFFICES ASSUME NEW c \in Client
               PROVE  Len(reply'[c]) =< 1 /\ \A j \in DOMAIN reply'[c] : reply'[c][j].from = {c}
    BY DEF OwnAnswer
  <2>1. CASE reply'[c] = reply[c]
    BY <2>1 DEF Inv, OwnAnswer
  <2>2. CASE c = Owner(k) /\ reply'[c] = <<answer>>
    BY <1>6, <2>2
  <2> QED
    BY <1>7, <2>1, <2>2
<1> QED
  BY <1>3, <1>7, <1>8

\* A handler that parses the request and answers it.
LEMMA AnswerInv ==
    ASSUME Inv, Busy, NEW i, Reached(i), revents[i] = "out", ~conn[m_pfds[i]].isCGI,
           Request(m_pfds[i]) # <<>>, NEW kind \in AllKinds, NEW what \in Bodies,
           Answer(i, kind, what),
           UNCHANGED <<clientVars, cgi, signalled, m_pfds, m_clients, m_new_connection>>,
           fdTable' \in [Fd -> FdEntry],
           \A f \in Fd : fdTable'[f] = fdTable[f] \/ (fdTable[f].kind = "free" /\ fdTable'[f] = Held)
    PROVE  Inv'
<1> DEFINE k == m_pfds[i]
           answer == [from |-> Range(Request(k)), asked |-> kind, what |-> what]
<1>1. k \in Open /\ k \in Fd /\ k \in SockFd /\ Owner(k) \in Client
  BY ReachedFacts
<1>2. Range(Request(k)) = {Owner(k)}
  BY <1>1, ParsedFacts
<1>3. reply[Owner(k)] = <<>>
  <2>1. i \in DOMAIN revents \cap DOMAIN m_pfds
    BY DEF Reached
  <2> QED
    BY <1>1, <2>1 DEF Inv, Once
<1>4. /\ Handled(i) /\ conn' = [conn EXCEPT ![k] = Parsed(k)] /\ Send(k, answer)
      /\ m_dropped_fds' = Cons(k, m_dropped_fds)
  BY DEF Answer
<1>5. answer \in Reply /\ answer.from = {Owner(k)}
  BY <1>1, <1>2 DEF Reply
<1> HIDE DEF answer
<1>6. /\ reply' \in [Client -> Seq(Reply)] /\ OwnAnswer' /\ pc' \in {"scan", "dead"}
      /\ \A c \in Client : c # Owner(k) => reply'[c] = reply[c]
  BY <1>1, <1>3, <1>4, <1>5, SendFacts
<1>7. SockFd' = SockFd /\ Open' = Open /\ (\A f \in SockFd : Owner(f)' = Owner(f))
      /\ Descriptors' /\ Sockets' /\ Polled'
  <2>1. \A c \in Client : reply'[c] = reply[c] \/ \E f \in SockFd : Owner(f) = c
    BY <1>1, <1>6
  <2>2. pc' = "add" <=> pc = "add"
    BY <1>6 DEF Busy
  <2> QED
    BY <2>1, <2>2, TableFrame DEF clientVars, Held
<1>8. /\ Parsed(k) \in Connection /\ Parsed(k).parsed # <<>>
      /\ Parsed(k).isCGI = conn[k].isCGI /\ Parsed(k).pipeFd = conn[k].pipeFd
      /\ Parsed(k).m_cgi_added = conn[k].m_cgi_added
      /\ \A j \in DOMAIN Parsed(k).m_request : Parsed(k).m_request[j] = Owner(k)
      /\ \A j \in DOMAIN Parsed(k).parsed : Parsed(k).parsed[j] = Owner(k)
  BY <1>1, ParsedFacts
<1>9. conn' \in [Fd \cup {BadFd} -> Connection] /\ Pipes' /\ OwnData'
  BY <1>1, <1>4, <1>7, <1>8, ConnFrame
<1>10. m_dropped_fds' \in Stack /\ Range(m_dropped_fds') = Range(m_dropped_fds) \cup {k}
  BY <1>1, <1>4, StackFacts, PushFacts
<1>11. TypeOK'
  BY <1>4, <1>6, <1>9, <1>10, HandledFacts DEF Inv, TypeOK, clientVars, Stack
<1>12. Loop'
  BY <1>4, <1>6, <1>10, HandledLoop
<1>13. Once'
  <2> SUFFICES ASSUME NEW g \in SockFd', reply'[Owner(g)'] # <<>>
               PROVE  /\ g \in m_clients' /\ (g \in Range(m_dropped_fds') \/ ~Running')
                      /\ \A j \in DOMAIN revents' \cap DOMAIN m_pfds' :
                            (m_pfds'[j] = conn'[g].pipeFd \/ (m_pfds'[j] = g /\ ~conn'[g].isCGI))
                                => revents'[j] = "none"
    BY DEF Once
  <2>0. g \in SockFd /\ g \in Fd /\ Owner(g)' = Owner(g)
    BY <1>7 DEF SockFd
  <2>1. CASE g = k
    <3>1. conn'[g].pipeFd = NoFd
      BY <1>1, <1>4, <1>8, <2>1 DEF Inv, TypeOK, Pipes
    <3>2. ASSUME NEW j \in DOMAIN revents' \cap DOMAIN m_pfds',
                 m_pfds'[j] = conn'[g].pipeFd \/ (m_pfds'[j] = g /\ ~conn'[g].isCGI)
          PROVE  revents'[j] = "none"
      <4>1. m_pfds[j] \in Fd \cup {BadFd} /\ j \in DOMAIN revents
        BY <1>4, <3>2, HandledFacts DEF Inv, TypeOK
      <4>2. m_pfds[j] = m_pfds[i] /\ j \in DOMAIN m_pfds /\ i \in DOMAIN m_pfds
        BY <2>1, <3>1, <3>2, <4>1, ReachedFacts
      <4>3. j = i
        BY <1>1, <4>2 DEF Inv, Polled
      <4> QED
        BY <1>4, <4>1, <4>3, HandledFacts
    <3> QED
      BY <1>1, <1>4, <1>10, <2>1, <3>2 DEF Open
  <2>2. CASE g # k
    <3>1. conn'[g] = conn[g]
      BY <1>4, <2>0, <2>2 DEF Inv, TypeOK
    <3>2. Owner(g) # Owner(k)
      BY <1>1, <2>0, <2>2 DEF Inv, Sockets
    <3>3. Owner(g) \in Client
      BY <2>0 DEF SockFd, Inv, Descriptors
    <3>4. reply[Owner(g)] # <<>>
      BY <1>6, <2>0, <3>2, <3>3
    <3> QED
      BY <1>4, <1>10, <2>0, <3>1, <3>4, OnceHandled
  <2> QED
    BY <2>1, <2>2
<1> QED
  BY <1>6, <1>7, <1>9, <1>11, <1>12, <1>13 DEF Inv

\* A missing file is answered and nothing stays open (Connection.cpp:245-276).
LEMMA RespondAbsentInv ==
    ASSUME Inv, NEW i, RespondAbsent(i)
    PROVE  Inv'
<1>1. Busy /\ Reached(i) /\ revents[i] = "out"
  BY DEF RespondAbsent, Asks, Handling, Busy
<1>2. ~conn[m_pfds[i]].isCGI /\ Request(m_pfds[i]) # <<>> /\ Answer(i, "absent", "notFound")
  BY DEF RespondAbsent, Asks
<1>3. UNCHANGED <<clientVars, cgi, fdTable, signalled, m_pfds, m_clients, m_new_connection>>
  BY DEF RespondAbsent
<1>4. "absent" \in AllKinds /\ "notFound" \in Bodies /\ fdTable' \in [Fd -> FdEntry]
  BY <1>3 DEF AllKinds, Bodies, Inv, TypeOK
<1> QED
  BY <1>1, <1>2, <1>3, <1>4, AnswerInv

\* Taking one free descriptor.
LEMMA HeldFacts ==
    ASSUME Inv, UNCHANGED fdTable \/ \E f \in FreeFd : fdTable' = [fdTable EXCEPT ![f] = Held]
    PROVE  /\ fdTable' \in [Fd -> FdEntry]
           /\ \A f \in Fd : \/ fdTable'[f] = fdTable[f]
                            \/ fdTable[f].kind = "free" /\ fdTable'[f] = Held
<1>1. Held \in FdEntry
  BY DEF Held, FdEntry
<1>2. fdTable \in [Fd -> FdEntry]
  BY DEF Inv, TypeOK
<1> QED
  BY <1>1, <1>2 DEF FreeFd

\* A file is answered, and its descriptor is left open (Connection.cpp:250, 268).
LEMMA RespondFileInv ==
    ASSUME Inv, NEW i, RespondFile(i)
    PROVE  Inv'
<1>1. PICK kind \in {"file", "bigfile"} :
         /\ Asks(i, kind)
         /\ \E what \in Bodies : Answer(i, kind, what)
         /\ UNCHANGED fdTable \/ \E f \in FreeFd : fdTable' = [fdTable EXCEPT ![f] = Held]
  BY DEF RespondFile, Bodies
<1>2. /\ Busy /\ Reached(i) /\ revents[i] = "out"
      /\ ~conn[m_pfds[i]].isCGI /\ Request(m_pfds[i]) # <<>>
  BY <1>1 DEF Asks, Handling, Busy
<1>3. UNCHANGED <<clientVars, cgi, signalled, m_pfds, m_clients, m_new_connection>>
  BY DEF RespondFile
<1>4. kind \in AllKinds
  BY DEF AllKinds
<1>5. /\ fdTable' \in [Fd -> FdEntry]
      /\ \A f \in Fd : fdTable'[f] = fdTable[f] \/ (fdTable[f].kind = "free" /\ fdTable'[f] = Held)
  BY <1>1, HeldFacts
<1> QED
  BY <1>1, <1>2, <1>3, <1>4, <1>5, AnswerInv

\* The end of a send that blocked drops the connection (Poller.cpp:213-219).
LEMMA FinishSendInv ==
    ASSUME Inv, NEW i \in DOMAIN m_pfds, FinishSend(i)
    PROVE  Inv'
<1>1. Busy /\ Reached(i) /\ pc = "send" /\ Answer(i, "bigfile", "page")
  BY DEF FinishSend, Busy
<1>2. revents[i] = "out" /\ ~conn[m_pfds[i]].isCGI /\ conn[m_pfds[i]].parsed # <<>>
  BY <1>1 DEF Inv, Loop
<1>3. Request(m_pfds[i]) # <<>>
  BY <1>2 DEF Request
<1>4. UNCHANGED <<clientVars, cgi, fdTable, signalled, m_pfds, m_clients, m_new_connection>>
  BY DEF FinishSend
<1>5. "bigfile" \in AllKinds /\ "page" \in Bodies /\ fdTable' \in [Fd -> FdEntry]
  BY <1>4 DEF AllKinds, Bodies, Inv, TypeOK
<1> QED
  BY <1>1, <1>2, <1>3, <1>4, <1>5, AnswerInv
\* An answer of status 400 is sent without a route (Connection.cpp:115-133).
LEMMA RespondBadRequestInv ==
    ASSUME Inv, NEW i, RespondBadRequest(i)
    PROVE  Inv'
<1> DEFINE k == m_pfds[i]
<1>1. /\ Busy /\ Reached(i) /\ Handled(i) /\ revents[i] = "out" /\ pc = "scan" /\ pc' = "dead"
      /\ ~conn[k].isCGI /\ Request(k) # <<>> /\ conn' = [conn EXCEPT ![k] = Parsed(k)]
      /\ UNCHANGED <<clientVars, reply, cgi, fdTable, signalled, m_pfds, m_clients,
                     m_dropped_fds, m_new_connection>>
  BY DEF RespondBadRequest, Handling, Busy
<1>2. k \in Open /\ k \in Fd
  BY <1>1, ReachedFacts
<1>3. SockFd' = SockFd /\ Open' = Open /\ (\A f \in SockFd : Owner(f)' = Owner(f))
      /\ Descriptors' /\ Sockets' /\ Polled'
  BY <1>1, TableFrame DEF clientVars
<1>4. /\ Parsed(k) \in Connection /\ Parsed(k).parsed # <<>>
      /\ Parsed(k).isCGI = conn[k].isCGI /\ Parsed(k).pipeFd = conn[k].pipeFd
      /\ Parsed(k).m_cgi_added = conn[k].m_cgi_added
      /\ \A j \in DOMAIN Parsed(k).m_request : Parsed(k).m_request[j] = Owner(k)
      /\ \A j \in DOMAIN Parsed(k).parsed : Parsed(k).parsed[j] = Owner(k)
  BY <1>1, <1>2, ParsedFacts
<1>5. conn' \in [Fd \cup {BadFd} -> Connection] /\ Pipes' /\ OwnData'
  BY <1>1, <1>2, <1>3, <1>4, ConnFrame
<1>6. TypeOK'
  BY <1>1, <1>5, HandledFacts DEF Inv, TypeOK, clientVars
<1>7. Loop'
  BY <1>1, StackFacts, HandledLoop
<1>8. Once'
  <2>1. \A g \in SockFd : conn'[g].isCGI = conn[g].isCGI /\ conn'[g].pipeFd = conn[g].pipeFd
    BY <1>1, <1>4 DEF Inv, TypeOK, SockFd
  <2> QED
    BY <1>1, <1>3, <2>1, OnceHandled DEF Once
<1>9. OwnAnswer'
  BY <1>1 DEF Inv, OwnAnswer
<1> QED
  BY <1>3, <1>5, <1>6, <1>7, <1>8, <1>9 DEF Inv

\* A step that handles nothing, of a thread that stays within its loop.
LEMMA OnceStays ==
    ASSUME Inv, Busy, UNCHANGED <<reply, revents, m_pfds, m_clients, m_dropped_fds>>,
           SockFd' = SockFd,
           \A f \in SockFd : /\ Owner(f)' = Owner(f) /\ conn'[f].isCGI = conn[f].isCGI
                             /\ conn'[f].pipeFd = conn[f].pipeFd
    PROVE  Once'
<1> SUFFICES ASSUME NEW k \in SockFd, reply[Owner(k)] # <<>>
             PROVE  /\ k \in m_clients' /\ k \in Range(m_dropped_fds')
                    /\ \A j \in DOMAIN revents' \cap DOMAIN m_pfds' :
                          (m_pfds'[j] = conn'[k].pipeFd \/ (m_pfds'[j] = k /\ ~conn'[k].isCGI))
                              => revents'[j] = "none"
  BY DEF Once
<1>1. Running
  BY DEF Busy, Running
<1> QED
  BY <1>1 DEF Inv, Once

\* A send that blocks keeps the loop where it is (ClientSocket.cpp:30-49).
LEMMA SendBlocksInv ==
    ASSUME Inv, NEW i, SendBlocks(i)
    PROVE  Inv'
<1> DEFINE k == m_pfds[i]
<1>1. /\ Busy /\ Reached(i) /\ revents[i] = "out" /\ pc = "scan" /\ pc' = "send"
      /\ ~conn[k].isCGI /\ Request(k) # <<>> /\ conn' = [conn EXCEPT ![k] = Parsed(k)]
      /\ UNCHANGED <<clientVars, reply, cgi, signalled, m_pfds, m_clients,
                     m_dropped_fds, m_new_connection, revents>>
  BY DEF SendBlocks, Asks, Handling, Busy
<1>2. k \in Open /\ k \in Fd
  BY <1>1, ReachedFacts
<1>3. /\ fdTable' \in [Fd -> FdEntry]
      /\ \A f \in Fd : fdTable'[f] = fdTable[f] \/ (fdTable[f].kind = "free" /\ fdTable'[f] = Held)
  <2>1. \E f \in FreeFd : fdTable' = [fdTable EXCEPT ![f] = Held]
    BY DEF SendBlocks
  <2> QED
    BY <2>1, HeldFacts
<1>4. SockFd' = SockFd /\ Open' = Open /\ (\A f \in SockFd : Owner(f)' = Owner(f))
      /\ Descriptors' /\ Sockets' /\ Polled'
  BY <1>1, <1>3, TableFrame DEF clientVars, Held
<1>5. /\ Parsed(k) \in Connection /\ Parsed(k).parsed # <<>>
      /\ Parsed(k).isCGI = conn[k].isCGI /\ Parsed(k).pipeFd = conn[k].pipeFd
      /\ Parsed(k).m_cgi_added = conn[k].m_cgi_added
      /\ \A j \in DOMAIN Parsed(k).m_request : Parsed(k).m_request[j] = Owner(k)
      /\ \A j \in DOMAIN Parsed(k).parsed : Parsed(k).parsed[j] = Owner(k)
  BY <1>1, <1>2, ParsedFacts
<1>6. conn' \in [Fd \cup {BadFd} -> Connection] /\ Pipes' /\ OwnData'
  BY <1>1, <1>2, <1>3, <1>4, <1>5, ConnFrame
<1>7. TypeOK'
  BY <1>1, <1>3, <1>6 DEF Inv, TypeOK, clientVars
<1>8. Loop'
  <2>1. \A j \in DOMAIN m_pfds : Reached(j)' => j = i
    BY <1>1, ReachedFacts DEF Reached
  <2>2. ~conn'[k].isCGI /\ conn'[k].parsed # <<>>
    BY <1>1, <1>2, <1>5 DEF Inv, TypeOK
  <2> QED
    BY <1>1, <2>1, <2>2 DEF Inv, Loop
<1>9. Once'
  <2>1. \A g \in SockFd : conn'[g].isCGI = conn[g].isCGI /\ conn'[g].pipeFd = conn[g].pipeFd
    BY <1>1, <1>5 DEF Inv, TypeOK, SockFd
  <2> QED
    BY <1>1, <1>4, <2>1, OnceStays
<1>10. OwnAnswer'
  BY <1>1 DEF Inv, OwnAnswer
<1> QED
  BY <1>4, <1>6, <1>7, <1>8, <1>9, <1>10 DEF Inv

-----------------------------------------------------------------------------
(* CGI. *)

\* The connection whose pipe a handler reads.
LEMMA PipeFacts ==
    ASSUME Inv, NEW f \in Fd, NEW k \in m_clients, conn[k].pipeFd = f
    PROVE  /\ k \in Open /\ fdTable[f].owner = Owner(k) /\ conn[k].isCGI
           /\ conn[k].parsed # <<>>
<1>1. f # NoFd
  BY FdAssumption
<1>2. k \in Open
  <2>1. k \in Fd \cup {BadFd}
    BY DEF Inv, TypeOK
  <2>2. k \notin Open => conn[k].pipeFd = NoFd
    BY <2>1 DEF Inv, Pipes, NewConnection
  <2> QED
    BY <1>1, <2>2
<1>3. fdTable[f] = [kind |-> "pipe", owner |-> Owner(k)]
  BY <1>1, <1>2 DEF Inv, Pipes
<1>4. conn[k].isCGI /\ conn[k].parsed # <<>>
  BY <1>1, <1>2 DEF Inv, Pipes
<1> QED
  BY <1>2, <1>3, <1>4

\* Reading a pipe adds to its own connection's body (CGI.cpp:73-91).
LEMMA ReadCGIInv ==
    ASSUME Inv, NEW i, ReadCGI(i)
    PROVE  Inv'
<1> DEFINE f == m_pfds[i]
           c == fdTable[f].owner
           n == IF cgi[c].piped < ReadSize THEN cgi[c].piped ELSE ReadSize
<1>1. Busy /\ Reached(i) /\ revents[i] = "in" /\ pc = "scan" /\ f \in Fd
  <2>1. Busy /\ Reached(i) /\ revents[i] = "in" /\ pc = "scan"
    BY DEF ReadCGI, Handling, Busy
  <2> QED
    BY <2>1, ReachedFacts
<1>2. PICK k \in m_clients :
         /\ conn[k].pipeFd = f /\ cgi' = [cgi EXCEPT ![c].piped = @ - n]
         /\ conn' = [conn EXCEPT ![k].got = @ + n]
         /\ \/ pc' = "waitpid" /\ UNCHANGED revents
            \/ Handled(i) /\ UNCHANGED pc
  BY DEF ReadCGI
<1>3. UNCHANGED <<clientVars, reply, fdTable, signalled, m_pfds, m_clients, m_dropped_fds,
                  m_new_connection>>
  BY DEF ReadCGI
<1>4. k \in Open /\ c = Owner(k) /\ c \in Client /\ conn[k] \in Connection /\ k \in Fd
  <2>1. k \in Open /\ c = Owner(k)
    BY <1>1, <1>2, PipeFacts
  <2> QED
    BY <2>1, OpenFacts
<1>5. cgi \in [Client -> Child] /\ cgi[c] \in Child /\ n \in Nat /\ n =< cgi[c].piped
  <2>1. cgi \in [Client -> Child] /\ cgi[c] \in Child
    BY <1>4 DEF Inv, TypeOK
  <2>2. cgi[c].piped \in Nat
    BY <2>1 DEF Child
  <2> QED
    BY <2>1, <2>2, SizeAssumption
<1> HIDE DEF n
<1>6. cgi' \in [Client -> Child]
  BY <1>2, <1>4, <1>5 DEF Child
<1> DEFINE x == [conn[k] EXCEPT !.got = @ + n]
<1>7. conn' = [conn EXCEPT ![k] = x] /\ x \in Connection
  <2>1. conn[k].got \in Nat /\ conn[k].got + n \in Nat
    BY <1>4, <1>5 DEF Connection
  <2>2. x \in Connection
    BY <1>4, <2>1 DEF Connection
  <2>3. conn' = [conn EXCEPT ![k] = x]
    BY <1>2, <1>4 DEF Inv, TypeOK
  <2> QED
    BY <2>2, <2>3
<1>8. /\ x.m_request = conn[k].m_request /\ x.parsed = conn[k].parsed /\ x.isCGI = conn[k].isCGI
      /\ x.pipeFd = conn[k].pipeFd /\ x.m_cgi_added = conn[k].m_cgi_added
  BY <1>4 DEF Connection
<1> HIDE DEF x
<1>9. SockFd' = SockFd /\ Open' = Open /\ (\A g \in SockFd : Owner(g)' = Owner(g))
      /\ Descriptors' /\ Sockets' /\ Polled'
  <2>1. pc' = "add" <=> pc = "add"
    BY <1>1, <1>2
  <2> QED
    BY <1>3, <2>1, TableFrame DEF clientVars
<1>10. conn' \in [Fd \cup {BadFd} -> Connection] /\ Pipes' /\ OwnData'
  <2>1. /\ \A j \in DOMAIN x.m_request : x.m_request[j] = Owner(k)
        /\ \A j \in DOMAIN x.parsed : x.parsed[j] = Owner(k)
    BY <1>4, <1>8 DEF Inv, OwnData
  <2>2. x.isCGI => x.parsed # <<>>
    BY <1>4, <1>8 DEF Inv, Pipes
  <2> QED
    BY <1>3, <1>4, <1>7, <1>8, <1>9, <2>1, <2>2, ConnFrame
<1>11. \A g \in SockFd : conn'[g].isCGI = conn[g].isCGI /\ conn'[g].pipeFd = conn[g].pipeFd
  BY <1>7, <1>8 DEF Inv, TypeOK, SockFd
<1>12. OwnAnswer'
  BY <1>3 DEF Inv, OwnAnswer
<1>13. CASE pc' = "waitpid" /\ UNCHANGED revents
  <2>1. TypeOK'
    BY <1>3, <1>6, <1>10, <1>13 DEF Inv, TypeOK, clientVars
  <2>2. Loop'
    <3>1. \A j \in DOMAIN m_pfds : Reached(j)' => j = i
      BY <1>1, <1>3, <1>13, ReachedFacts DEF Reached
    <3> QED
      BY <1>1, <1>3, <1>13, <3>1 DEF Inv, Loop
  <2>3. Once'
    BY <1>1, <1>3, <1>9, <1>11, <1>13, OnceStays
  <2> QED
    BY <1>9, <1>10, <1>12, <2>1, <2>2, <2>3 DEF Inv
<1>14. CASE Handled(i) /\ UNCHANGED pc
  <2>1. TypeOK'
    BY <1>1, <1>3, <1>6, <1>10, <1>14, HandledFacts DEF Inv, TypeOK, clientVars
  <2>2. Loop'
    BY <1>1, <1>3, <1>14, StackFacts, HandledLoop
  <2>3. Once'
    BY <1>1, <1>3, <1>9, <1>11, <1>14, OnceHandled DEF Once
  <2> QED
    BY <1>9, <1>10, <1>12, <2>1, <2>2, <2>3 DEF Inv
<1> QED
  BY <1>2, <1>13, <1>14
\* A CGI program that has exited is collected and answered (Poller.cpp:294-326).
LEMMA CollectCGIInv ==
    ASSUME Inv, NEW i, CollectCGI(i)
    PROVE  Inv'
<1> DEFINE f == m_pfds[i]
           c == fdTable[f].owner
<1>1. /\ Busy /\ Reached(i) /\ Handled(i) /\ pc = "waitpid"
      /\ UNCHANGED <<clientVars, fdTable, signalled, m_pfds, m_clients, conn, m_new_connection>>
  BY DEF CollectCGI, Busy
<1>2. i \in DOMAIN m_pfds /\ i \in DOMAIN revents /\ f \in Fd /\ revents[i] = "in"
  BY <1>1, ReachedFacts DEF Inv, Loop
<1>3. PICK k \in m_clients, what \in Bodies :
         /\ conn[k].pipeFd = f /\ cgi' = [cgi EXCEPT ![c].state = "reaped"]
         /\ Send(k, [from |-> Range(conn[k].parsed) \cup {c}, asked |-> "cgi", what |-> what])
         /\ m_dropped_fds' = Cons(k, Cons(f, m_dropped_fds))
  BY DEF CollectCGI, Bodies
<1> DEFINE answer == [from |-> Range(conn[k].parsed) \cup {c}, asked |-> "cgi", what |-> what]
<1>4. /\ k \in Open /\ k \in Fd /\ k \in SockFd /\ c = Owner(k) /\ c \in Client
      /\ conn[k].isCGI
  <2>1. k \in Open /\ c = Owner(k) /\ conn[k].isCGI
    BY <1>2, <1>3, PipeFacts
  <2> QED
    BY <2>1, OpenFacts
<1>5. answer \in Reply /\ answer.from = {Owner(k)}
  <2>1. Range(conn[k].parsed) \subseteq {c}
    BY <1>4 DEF Inv, OwnData, Range
  <2> QED
    BY <1>4, <2>1 DEF Reply, AllKinds
<1> HIDE DEF answer
<1>6. reply[Owner(k)] = <<>>
  BY <1>2, <1>3, <1>4 DEF Inv, Once
<1>7. /\ reply' \in [Client -> Seq(Reply)] /\ OwnAnswer' /\ pc' \in {"scan", "dead"}
      /\ \A d \in Client : d # Owner(k) => reply'[d] = reply[d]
  <2>1. Send(k, answer)
    BY <1>3 DEF answer
  <2> QED
    BY <1>4, <1>5, <1>6, <2>1, SendFacts
<1>8. SockFd' = SockFd /\ Open' = Open /\ (\A g \in SockFd : Owner(g)' = Owner(g))
      /\ Descriptors' /\ Sockets' /\ Polled'
  <2>1. \A d \in Client : reply'[d] = reply[d] \/ \E g \in SockFd : Owner(g) = d
    BY <1>4, <1>7
  <2>2. pc' = "add" <=> pc = "add"
    BY <1>1, <1>7
  <2> QED
    BY <1>1, <2>1, <2>2, TableFrame DEF clientVars
<1>9. Pipes' /\ OwnData'
  BY <1>1 DEF Inv, Pipes, OwnData, Open, Owner
<1>10. /\ m_dropped_fds' \in Stack
       /\ Range(m_dropped_fds') = Range(m_dropped_fds) \cup {f, k}
  <2>1. Cons(f, m_dropped_fds) \in Stack /\ Range(Cons(f, m_dropped_fds)) = Range(m_dropped_fds) \cup {f}
    BY <1>2, StackFacts, PushFacts
  <2>2. /\ Cons(k, Cons(f, m_dropped_fds)) \in Stack
        /\ Range(Cons(k, Cons(f, m_dropped_fds))) = Range(Cons(f, m_dropped_fds)) \cup {k}
    BY <1>4, <2>1, PushFacts
  <2> QED
    BY <1>3, <2>1, <2>2
<1>11. TypeOK'
  <2>1. cgi \in [Client -> Child] /\ cgi[c] \in Child
    BY <1>4 DEF Inv, TypeOK
  <2>2. cgi' \in [Client -> Child]
    BY <1>3, <1>4, <2>1 DEF Child
  <2> QED
    BY <1>1, <1>7, <1>10, <2>2, HandledFacts DEF Inv, TypeOK, clientVars, Stack
<1>12. Loop'
  BY <1>1, <1>7, <1>10, HandledLoop
<1>13. Once'
  <2> SUFFICES ASSUME NEW g \in SockFd', reply'[Owner(g)'] # <<>>
               PROVE  /\ g \in m_clients' /\ (g \in Range(m_dropped_fds') \/ ~Running')
                      /\ \A j \in DOMAIN revents' \cap DOMAIN m_pfds' :
                            (m_pfds'[j] = conn'[g].pipeFd \/ (m_pfds'[j] = g /\ ~conn'[g].isCGI))
                                => revents'[j] = "none"
    BY DEF Once
  <2>0. g \in SockFd /\ g \in Fd /\ Owner(g)' = Owner(g)
    BY <1>8 DEF SockFd
  <2>1. CASE g = k
    <3>1. ASSUME NEW j \in DOMAIN revents' \cap DOMAIN m_pfds',
                 m_pfds'[j] = conn'[g].pipeFd \/ (m_pfds'[j] = g /\ ~conn'[g].isCGI)
          PROVE  revents'[j] = "none"
      <4>1. m_pfds[j] = m_pfds[i] /\ j \in DOMAIN m_pfds
        BY <1>1, <1>3, <1>4, <2>1, <3>1
      <4>2. j = i
        BY <1>2, <4>1 DEF Inv, Polled
      <4> QED
        BY <1>1, <1>2, <4>2, HandledFacts
    <3> QED
      BY <1>1, <1>3, <1>10, <2>1, <3>1
  <2>2. CASE g # k
    <3>1. Owner(g) # Owner(k)
      BY <1>4, <2>0, <2>2 DEF Inv, Sockets
    <3>2. Owner(g) \in Client
      BY <2>0 DEF SockFd, Inv, Descriptors
    <3>3. reply[Owner(g)] # <<>>
      BY <1>7, <2>0, <3>1, <3>2
    <3> QED
      BY <1>1, <1>10, <2>0, <3>3, OnceHandled
  <2> QED
    BY <2>1, <2>2
<1> QED
  BY <1>7, <1>8, <1>9, <1>11, <1>12, <1>13 DEF Inv

\* A CGI program gets a pipe of its own, from free descriptors (CGI.cpp:133-245).
LEMMA StartCGIInv ==
    ASSUME Inv, NEW i, StartCGI(i)
    PROVE  Inv'
<1> DEFINE k == m_pfds[i]
           c == Owner(k)
<1>1. /\ Busy /\ Reached(i) /\ Handled(i) /\ revents[i] = "out" /\ pc = "scan" /\ pc' = "scan"
      /\ ~conn[k].isCGI /\ Request(k) # <<>>
      /\ UNCHANGED <<clientVars, reply, signalled, m_pfds, m_clients, m_dropped_fds,
                     m_new_connection>>
  BY DEF StartCGI, Asks, Handling, Busy
<1>2. k \in Open /\ k \in Fd /\ k \in SockFd /\ c \in Client /\ i \in DOMAIN m_pfds
  BY <1>1, ReachedFacts
<1>3. PICK a, b, r, w \in FreeFd :
         /\ a < b /\ b < r /\ r < w
         /\ fdTable' = [fdTable EXCEPT ![a] = Held, ![b] = Held, ![w] = Held,
                                       ![r] = [kind |-> "pipe", owner |-> c]]
         /\ conn' = [conn EXCEPT ![k] = [Parsed(k) EXCEPT !.isCGI = TRUE, !.pipeFd = r]]
         /\ \/ \E n \in OutputSizes :
                  cgi' = [cgi EXCEPT ![c] = [state |-> "running", unwritten |-> n, piped |-> 0]]
            \/ UNCHANGED cgi
  BY DEF StartCGI, Owner
<1> DEFINE entry == [kind |-> "pipe", owner |-> c]
           x == [Parsed(k) EXCEPT !.isCGI = TRUE, !.pipeFd = r]
<1>4. /\ fdTable' \in [Fd -> FdEntry] /\ fdTable'[r] = entry /\ r \in Fd
      /\ fdTable[r].kind = "free"
      /\ \A f \in Fd : \/ fdTable'[f] = fdTable[f]
                       \/ fdTable[f].kind = "free" /\ fdTable'[f] \in {Held, entry}
  <2>1. Held \in FdEntry /\ entry \in FdEntry
    BY <1>2 DEF Held, FdEntry
  <2>2. fdTable \in [Fd -> FdEntry]
    BY DEF Inv, TypeOK
  <2>3. \A f \in FreeFd : f \in Fd /\ fdTable[f].kind = "free"
    BY DEF FreeFd
  <2>4. r # w /\ r # a /\ r # b
    BY <1>3, <2>3
  <2> QED
    BY <1>3, <2>1, <2>2, <2>3, <2>4
<1>5. SockFd' = SockFd /\ Open' = Open /\ (\A f \in SockFd : Owner(f)' = Owner(f))
      /\ Descriptors' /\ Sockets' /\ Polled'
  <2>1. Held.kind = "held" /\ entry.kind = "pipe" /\ entry.owner \in Client
    BY <1>2 DEF Held
  <2>2. \A f \in Fd :
           \/ fdTable'[f] = fdTable[f]
           \/ /\ fdTable[f].kind = "free"
              /\ fdTable'[f].kind \in {"held", "pipe"}
              /\ fdTable'[f].kind = "pipe" => fdTable'[f].owner \in Client
    BY <1>4, <2>1
  <2> QED
    BY <1>1, <2>2, TableFrame DEF clientVars
<1>6. /\ Parsed(k) \in Connection /\ Parsed(k).parsed # <<>>
      /\ \A j \in DOMAIN Parsed(k).m_request : Parsed(k).m_request[j] = c
      /\ \A j \in DOMAIN Parsed(k).parsed : Parsed(k).parsed[j] = c
  BY <1>1, <1>2, ParsedFacts
<1>7. /\ x \in Connection /\ x.isCGI /\ x.pipeFd = r /\ x.parsed = Parsed(k).parsed
      /\ x.m_request = Parsed(k).m_request
  BY <1>4, <1>6 DEF Connection
<1> HIDE DEF x
<1>8. conn' \in [Fd \cup {BadFd} -> Connection] /\ conn'[k] = x
      /\ \A g \in Fd \cup {BadFd} : g # k => conn'[g] = conn[g]
  <2>1. conn' = [conn EXCEPT ![k] = x]
    BY <1>3 DEF x
  <2> QED
    BY <1>2, <1>7, <2>1 DEF Inv, TypeOK
<1>9. Pipes'
  <2>1. ASSUME NEW g \in Open'
        PROVE  /\ conn'[g].isCGI <=> conn'[g].pipeFd # NoFd
               /\ conn'[g].isCGI => conn'[g].parsed # <<>>
               /\ conn'[g].pipeFd # NoFd =>
                     /\ fdTable'[conn'[g].pipeFd] = [kind |-> "pipe", owner |-> Owner(g)']
                     /\ ~conn'[g].m_cgi_added => \A j \in DOMAIN m_pfds' : m_pfds'[j] # conn'[g].pipeFd
    <3>0. g \in Open /\ g \in Fd /\ g \in SockFd /\ Owner(g)' = Owner(g)
      BY <1>5, OpenFacts
    <3>1. CASE g = k
      <4>1. \A j \in DOMAIN m_pfds : m_pfds[j] # r
        BY <1>4 DEF Inv, Polled
      <4>2. r # NoFd
        BY <1>4, FdAssumption
      <4> QED
        BY <1>1, <1>4, <1>6, <1>7, <1>8, <3>0, <3>1, <4>1, <4>2
    <3>2. CASE g # k
      <4>1. conn'[g] = conn[g]
        BY <1>8, <3>0, <3>2
      <4>2. /\ conn[g].isCGI <=> conn[g].pipeFd # NoFd
            /\ conn[g].isCGI => conn[g].parsed # <<>>
        BY <3>0 DEF Inv, Pipes
      <4>3. ASSUME conn[g].pipeFd # NoFd
            PROVE  /\ fdTable'[conn[g].pipeFd] = [kind |-> "pipe", owner |-> Owner(g)]
                   /\ ~conn[g].m_cgi_added => \A j \in DOMAIN m_pfds : m_pfds[j] # conn[g].pipeFd
        <5>1. conn[g].pipeFd \in Fd /\ fdTable[conn[g].pipeFd].kind = "pipe"
          BY <3>0, <4>3, OpenFacts DEF Connection
        <5>2. fdTable'[conn[g].pipeFd] = fdTable[conn[g].pipeFd]
          BY <1>4, <5>1
        <5> QED
          BY <3>0, <4>3, <5>2 DEF Inv, Pipes
      <4> QED
        BY <1>1, <3>0, <4>1, <4>2, <4>3
    <3> QED
      BY <3>1, <3>2
  <2>2. \A g \in Fd \cup {BadFd} : g \notin Open => conn'[g] = NewConnection
    BY <1>2, <1>8 DEF Inv, Pipes
  <2> QED
    BY <1>5, <2>1, <2>2 DEF Pipes
<1>10. OwnData'
  <2> SUFFICES ASSUME NEW g \in Open
               PROVE  /\ \A j \in DOMAIN conn'[g].m_request : conn'[g].m_request[j] = Owner(g)'
                      /\ \A j \in DOMAIN conn'[g].parsed : conn'[g].parsed[j] = Owner(g)'
    BY <1>5 DEF OwnData
  <2>0. g \in Fd /\ Owner(g)' = Owner(g)
    BY <1>5, OpenFacts
  <2>1. CASE g = k
    BY <1>6, <1>7, <1>8, <2>0, <2>1
  <2>2. CASE g # k
    <3>1. conn'[g] = conn[g]
      BY <1>8, <2>0, <2>2
    <3> QED
      BY <2>0, <3>1 DEF Inv, OwnData
  <2> QED
    BY <2>1, <2>2
<1>11. TypeOK'
  <2>1. cgi' \in [Client -> Child]
    <3>1. \A n \in OutputSizes : [state |-> "running", unwritten |-> n, piped |-> 0] \in Child
      BY SizeAssumption DEF Child
    <3>2. cgi \in [Client -> Child]
      BY DEF Inv, TypeOK
    <3> QED
      BY <1>3, <3>1, <3>2
  <2> QED
    BY <1>1, <1>4, <1>8, <2>1, HandledFacts DEF Inv, TypeOK, clientVars
<1>12. Loop'
  BY <1>1, StackFacts, HandledLoop
<1>13. Once'
  <2>1. reply[c] = <<>>
    <3>1. i \in DOMAIN revents \cap DOMAIN m_pfds
      BY <1>1 DEF Reached
    <3> QED
      BY <1>1, <1>2, <3>1 DEF Inv, Once
  <2>2. \A g \in SockFd : g # k => conn'[g] = conn[g]
    BY <1>8 DEF SockFd
  <2> QED
    BY <1>1, <1>5, <2>1, <2>2, OnceHandled DEF Once
<1>14. OwnAnswer'
  BY <1>1 DEF Inv, OwnAnswer
<1> QED
  BY <1>5, <1>9, <1>10, <1>11, <1>12, <1>13, <1>14 DEF Inv
-----------------------------------------------------------------------------
(* The end of a pass. *)

\* Erasing a descriptor leaves the other entries, each once.
LEMMA EraseFacts ==
    ASSUME Inv, NEW f \in Fd, Erase(f)
    PROVE  /\ m_pfds' \in Seq(Fd \cup {BadFd})
           /\ \A j \in DOMAIN m_pfds' : /\ m_pfds'[j] # f
                                        /\ \E l \in DOMAIN m_pfds : m_pfds[l] = m_pfds'[j]
           /\ \A j, l \in DOMAIN m_pfds' :
                 m_pfds'[j] = m_pfds'[l] /\ m_pfds'[j] # BadFd => j = l
<1> DEFINE S == Fd \cup {BadFd}
<1>1. m_pfds \in Seq(S)
  BY DEF Inv, TypeOK
<1>2. \A j, l \in DOMAIN m_pfds : m_pfds[j] = m_pfds[l] /\ m_pfds[j] # BadFd => j = l
  BY DEF Inv, Polled
<1>3. CASE (\A j \in DOMAIN m_pfds : m_pfds[j] # f) /\ UNCHANGED m_pfds
  BY <1>1, <1>2, <1>3
<1>4. ASSUME NEW i \in DOMAIN m_pfds, m_pfds[i] = f, m_pfds' = RemoveAt(m_pfds, i)
      PROVE  /\ m_pfds' \in Seq(S)
             /\ \A j \in DOMAIN m_pfds' : /\ m_pfds'[j] # f
                                          /\ \E l \in DOMAIN m_pfds : m_pfds[l] = m_pfds'[j]
             /\ \A j, l \in DOMAIN m_pfds' :
                   m_pfds'[j] = m_pfds'[l] /\ m_pfds'[j] # BadFd => j = l
  <2> HIDE DEF S
  <2>1. /\ m_pfds' \in Seq(S) /\ Len(m_pfds') = Len(m_pfds) - 1
        /\ \A j \in 1..Len(m_pfds) - 1 : m_pfds'[j] = IF j < i THEN m_pfds[j] ELSE m_pfds[j + 1]
    <3>1. i \in 1..Len(m_pfds)
      BY <1>1, <1>4
    <3>2. /\ RemoveAt(m_pfds, i) \in Seq(S) /\ Len(RemoveAt(m_pfds, i)) = Len(m_pfds) - 1
          /\ \A j \in 1..Len(m_pfds) - 1 :
                RemoveAt(m_pfds, i)[j] = IF j < i THEN m_pfds[j] ELSE m_pfds[j + 1]
      BY <1>1, <3>1, RemoveAtFacts
    <3> QED
      BY <1>4, <3>2
  <2> DEFINE before(j) == IF j < i THEN j ELSE j + 1
  <2>2. \A j \in DOMAIN m_pfds' : /\ before(j) \in DOMAIN m_pfds /\ before(j) # i
                                  /\ m_pfds'[j] = m_pfds[before(j)]
    BY <1>1, <1>4, <2>1
  <2>3. \A j, l \in DOMAIN m_pfds' : before(j) = before(l) => j = l
    BY <1>1, <1>4, <2>1
  <2> HIDE DEF before
  <2>4. f # BadFd
    BY FdAssumption
  <2>5. \A j \in DOMAIN m_pfds' : m_pfds'[j] # f
    BY <1>2, <1>4, <2>2, <2>4
  <2> QED
    BY <1>2, <2>1, <2>2, <2>3, <2>5
<1> QED
  BY <1>3, <1>4 DEF Erase

\* A dropped descriptor loses its entry, client and socket (Poller.cpp:173-201).
LEMMA DropFdInv == Inv /\ DropFd => Inv'
<1> SUFFICES ASSUME Inv, DropFd PROVE Inv'
  OBVIOUS
<1> DEFINE f == Head(m_dropped_fds)
           c == Owner(f)
<1>1. /\ pc = "drop" /\ pc' = "drop" /\ m_dropped_fds # <<>> /\ Erase(f)
      /\ m_dropped_fds' = Tail(m_dropped_fds)
      /\ UNCHANGED <<sent, inbox, backlog, reply, cgi, signalled, m_new_connection, revents>>
  BY DEF DropFd
<1>2. /\ f \in Fd /\ m_dropped_fds' \in Stack
      /\ Range(m_dropped_fds) \subseteq Range(m_dropped_fds') \cup {f}
  <2>1. m_dropped_fds \in Seq(Fd \cup {BadFd}) /\ \A j \in DOMAIN m_dropped_fds : m_dropped_fds[j] # BadFd
    BY StackFacts DEF Stack
  <2>2. /\ m_dropped_fds' \in Seq(Fd \cup {BadFd}) /\ Len(m_dropped_fds') = Len(m_dropped_fds) - 1
        /\ \A j \in DOMAIN m_dropped_fds' : /\ j + 1 \in DOMAIN m_dropped_fds
                                            /\ m_dropped_fds'[j] = m_dropped_fds[j + 1]
        /\ f = m_dropped_fds[1] /\ 1 \in DOMAIN m_dropped_fds
    BY <1>1, <2>1, HeadTailProperties
  <2>3. ASSUME NEW j \in DOMAIN m_dropped_fds
        PROVE  m_dropped_fds[j] \in Range(m_dropped_fds') \cup {f}
    <3>1. CASE j = 1
      BY <2>2, <3>1
    <3>2. CASE j # 1
      <4>1. j - 1 \in DOMAIN m_dropped_fds' /\ m_dropped_fds[j] = m_dropped_fds'[j - 1]
        BY <2>1, <2>2, <3>2
      <4> QED
        BY <4>1 DEF Range
    <3> QED
      BY <3>1, <3>2
  <2>4. Range(m_dropped_fds) \subseteq Range(m_dropped_fds') \cup {f}
    BY <2>3 DEF Range
  <2>5. f \in Fd
    BY <2>1, <2>2
  <2>6. \A j \in DOMAIN m_dropped_fds' : m_dropped_fds'[j] # BadFd
    BY <2>1, <2>2
  <2> QED
    BY <2>2, <2>4, <2>5, <2>6 DEF Stack
<1>3. /\ m_pfds' \in Seq(Fd \cup {BadFd})
      /\ \A j \in DOMAIN m_pfds' : /\ m_pfds'[j] # f
                                   /\ \E l \in DOMAIN m_pfds : m_pfds[l] = m_pfds'[j]
      /\ \A j, l \in DOMAIN m_pfds' : m_pfds'[j] = m_pfds'[l] /\ m_pfds'[j] # BadFd => j = l
  BY <1>1, <1>2, EraseFacts
<1>4. revents = <<>> /\ revents' = <<>>
  BY <1>1 DEF Inv, Loop
<1>5. Loop' /\ OwnAnswer'
  BY <1>1, <1>2, <1>4 DEF Inv, Loop, OwnAnswer, Stack, Reached
\* What stays of the table, in both cases.
<1>6. /\ fdTable' \in [Fd -> FdEntry] /\ conn' \in [Fd \cup {BadFd} -> Connection]
      /\ sock' \in [Client -> {"away", "open", "fin", "rst", "broken", "closed"}]
      /\ \A d \in Client : sock'[d] = "away" <=> sock[d] = "away"
      /\ m_clients' = m_clients \ {f} /\ Open' = Open \ {f}
      /\ \A g \in Fd : g # f => fdTable'[g] = fdTable[g]
      /\ \A g \in Fd \cup {BadFd} : g # f => conn'[g] = conn[g]
      /\ f \notin Open => fdTable'[f] = fdTable[f] /\ conn'[f] = conn[f]
      /\ f \in Open => fdTable'[f].kind = "free" /\ conn'[f] = NewConnection
  <2>1. CASE f \in m_clients
    <3>1. f \in Open /\ c \in Client /\ f \in SockFd
      <4>1. f \in Open
        BY <1>2, <2>1, FdAssumption DEF Open
      <4> QED
        BY <4>1, OpenFacts
    <3>2. /\ sock' = [sock EXCEPT ![c] = "closed"] /\ fdTable' = [fdTable EXCEPT ![f] = Free]
          /\ m_clients' = m_clients \ {f} /\ conn' = [conn EXCEPT ![f] = NewConnection]
      BY <2>1 DEF DropFd, Owner
    <3>3. sock[c] # "away"
      BY <3>1 DEF Inv, Sockets
    <3>4. Free \in FdEntry /\ Free.kind = "free" /\ NewConnection \in Connection
      BY DEF Free, FdEntry, NewConnection, Connection
    <3>5. /\ sock' \in [Client -> {"away", "open", "fin", "rst", "broken", "closed"}]
          /\ \A d \in Client : sock'[d] = "away" <=> sock[d] = "away"
      BY <3>1, <3>2, <3>3 DEF Inv, TypeOK
    <3>6. /\ fdTable' \in [Fd -> FdEntry] /\ fdTable'[f] = Free
          /\ \A g \in Fd : g # f => fdTable'[g] = fdTable[g]
      BY <1>2, <3>2, <3>4 DEF Inv, TypeOK
    <3>7. /\ conn' \in [Fd \cup {BadFd} -> Connection] /\ conn'[f] = NewConnection
          /\ \A g \in Fd \cup {BadFd} : g # f => conn'[g] = conn[g]
      BY <1>2, <3>2, <3>4 DEF Inv, TypeOK
    <3> QED
      BY <3>1, <3>2, <3>4, <3>5, <3>6, <3>7 DEF Open
  <2>2. CASE f \notin m_clients
    <3>1. UNCHANGED <<sock, fdTable, m_clients, conn>>
      BY <2>2 DEF DropFd
    <3>2. f \notin Open /\ m_clients \ {f} = m_clients /\ Open \ {f} = Open /\ Open' = Open
      BY <2>2, <3>1 DEF Open
    <3> QED
      BY <3>1, <3>2 DEF Inv, TypeOK
  <2> QED
    BY <2>1, <2>2
<1> HIDE DEF f
<1>7. /\ SockFd' \subseteq SockFd /\ SockFd \ {f} \subseteq SockFd'
      /\ f \in SockFd' => f \notin Open
      /\ \A g \in SockFd' : Owner(g)' = Owner(g)
  BY <1>2, <1>6 DEF SockFd, Owner
<1>8. TypeOK'
  BY <1>1, <1>2, <1>3, <1>6 DEF Inv, TypeOK, Stack
<1>9. Descriptors'
  <2>1. \A g \in Fd : fdTable'[g].kind \in {"sock", "pipe"} => Owner(g)' \in Client
    BY <1>6 DEF Inv, Descriptors, Owner
  <2>2. Open' \subseteq SockFd'
    BY <1>6, <1>7 DEF Inv, Descriptors
  <2>3. SockFd' \subseteq Open' \cup {m_new_connection'}
    BY <1>1, <1>6, <1>7 DEF Inv, Descriptors
  <2>4. m_new_connection' \in Fd => /\ m_new_connection' \in SockFd'
                                    /\ m_new_connection' \in Open' <=> pc' = "add"
    <3>1. m_new_connection \in Fd => m_new_connection \in SockFd /\ m_new_connection \notin Open
      BY <1>1 DEF Inv, Descriptors
    <3>2. m_new_connection \in Fd => fdTable'[m_new_connection] = fdTable[m_new_connection]
      BY <1>6, <3>1
    <3>3. m_new_connection \in Fd => m_new_connection \in SockFd'
      BY <3>1, <3>2 DEF SockFd
    <3> QED
      BY <1>1, <1>6, <3>1, <3>3
  <2> QED
    BY <2>1, <2>2, <2>3, <2>4 DEF Descriptors
<1>10. Sockets'
  <2>1. \A g, h \in SockFd' : Owner(g)' = Owner(h)' => g = h
    BY <1>7 DEF Inv, Sockets
  <2>2. \A d \in Client : (sock'[d] = "away" \/ d \in Range(backlog')) =>
            reply'[d] = <<>> /\ \A g \in SockFd' : Owner(g)' # d
    BY <1>1, <1>6, <1>7 DEF Inv, Sockets
  <2>3. \A j \in DOMAIN backlog' : sock'[backlog'[j]] # "away"
    <3>1. \A j \in DOMAIN backlog : backlog[j] \in Client
      BY DEF Inv, TypeOK
    <3> QED
      BY <1>1, <1>6, <3>1 DEF Inv, Sockets
  <2>4. \A j, l \in DOMAIN backlog' : backlog'[j] = backlog'[l] => j = l
    BY <1>1 DEF Inv, Sockets
  <2> QED
    BY <2>1, <2>2, <2>3, <2>4 DEF Sockets
<1>11. Polled'
  <2>1. ASSUME NEW j \in DOMAIN m_pfds', m_pfds'[j] # BadFd
        PROVE  /\ fdTable'[m_pfds'[j]].kind \notin {"free", "held"}
               /\ m_pfds'[j] \in SockFd' => m_pfds'[j] \in m_clients'
    <3>1. PICK l \in DOMAIN m_pfds : m_pfds[l] = m_pfds'[j]
      BY <1>3
    <3>2. m_pfds[l] \in Fd /\ m_pfds[l] # f
      BY <1>3, <2>1, <3>1 DEF Inv, TypeOK
    <3> QED
      BY <1>6, <1>7, <2>1, <3>1, <3>2 DEF Inv, Polled
  <2> QED
    BY <1>3, <2>1 DEF Polled
<1>12. Pipes'
  <2>1. ASSUME NEW g \in Open'
        PROVE  /\ conn'[g].isCGI <=> conn'[g].pipeFd # NoFd
               /\ conn'[g].isCGI => conn'[g].parsed # <<>>
               /\ conn'[g].pipeFd # NoFd =>
                     /\ fdTable'[conn'[g].pipeFd] = [kind |-> "pipe", owner |-> Owner(g)']
                     /\ ~conn'[g].m_cgi_added => \A j \in DOMAIN m_pfds' : m_pfds'[j] # conn'[g].pipeFd
    <3>1. g \in Open /\ g # f /\ g \in SockFd'
      BY <1>6, <1>9 DEF Descriptors
    <3>2. conn'[g] = conn[g] /\ Owner(g)' = Owner(g)
      BY <1>6, <1>7, <3>1, OpenFacts
    <3>3. /\ conn[g].isCGI <=> conn[g].pipeFd # NoFd
          /\ conn[g].isCGI => conn[g].parsed # <<>>
      BY <3>1 DEF Inv, Pipes
    <3>4. ASSUME conn[g].pipeFd # NoFd
          PROVE  /\ fdTable'[conn[g].pipeFd] = [kind |-> "pipe", owner |-> Owner(g)]
                 /\ ~conn[g].m_cgi_added => \A j \in DOMAIN m_pfds' : m_pfds'[j] # conn[g].pipeFd
      <4>1. conn[g].pipeFd \in Fd /\ fdTable[conn[g].pipeFd].kind = "pipe"
        BY <3>1, <3>4, OpenFacts DEF Connection
      <4>2. fdTable'[conn[g].pipeFd] = fdTable[conn[g].pipeFd]
        <5>1. CASE conn[g].pipeFd # f
          BY <1>6, <4>1, <5>1
        <5>2. CASE conn[g].pipeFd = f
          <6>1. f \notin Open
            BY <4>1, <5>2, OpenFacts DEF SockFd
          <6> QED
            BY <1>6, <5>2, <6>1
        <5> QED
          BY <5>1, <5>2
      <4>3. ~conn[g].m_cgi_added => \A j \in DOMAIN m_pfds : m_pfds[j] # conn[g].pipeFd
        BY <3>1, <3>4 DEF Inv, Pipes
      <4>4. fdTable[conn[g].pipeFd] = [kind |-> "pipe", owner |-> Owner(g)]
        BY <3>1, <3>4 DEF Inv, Pipes
      <4> QED
        BY <1>3, <4>2, <4>3, <4>4
    <3> QED
      BY <3>2, <3>3, <3>4
  <2>2. \A g \in Fd \cup {BadFd} : g \notin Open' => conn'[g] = NewConnection
    BY <1>6 DEF Inv, Pipes
  <2> QED
    BY <2>1, <2>2 DEF Pipes
<1>13. OwnData'
  <2>1. \A g \in Open' : g \in Open /\ conn'[g] = conn[g] /\ Owner(g)' = Owner(g)
    BY <1>6, <1>7, <1>9, OpenFacts DEF Descriptors
  <2> QED
    BY <2>1 DEF Inv, OwnData
<1>14. Once'
  <2> SUFFICES ASSUME NEW g \in SockFd', reply'[Owner(g)'] # <<>>
               PROVE  g \in m_clients' /\ g \in Range(m_dropped_fds')
    BY <1>4 DEF Once
  <2>1. g \in SockFd /\ reply[Owner(g)] # <<>>
    BY <1>1, <1>7
  <2>2. g \in m_clients /\ g \in Range(m_dropped_fds) /\ g \in Fd
    BY <1>1, <2>1 DEF Inv, Once, Running, SockFd
  <2>3. g # f
    BY <1>7, <2>2, FdAssumption DEF Open
  <2> QED
    BY <1>2, <1>6, <2>2, <2>3
<1> QED
  BY <1>5, <1>8, <1>9, <1>10, <1>11, <1>12, <1>13, <1>14 DEF Inv
\* A new client gets an entry of m_pfds (Poller.cpp:148-161).
LEMMA AddNewInv == Inv /\ AddNew => Inv'
<1> SUFFICES ASSUME Inv, AddNew PROVE Inv'
  OBVIOUS
<1> DEFINE f == m_new_connection
<1>1. /\ pc = "drop" /\ pc' = "add" /\ m_dropped_fds = <<>>
      /\ UNCHANGED <<clientVars, reply, cgi, fdTable, signalled, conn, m_dropped_fds,
                     m_new_connection, revents>>
  BY DEF AddNew
<1>2. \/ f = NoFd /\ UNCHANGED <<m_pfds, m_clients>>
      \/ /\ f \in Fd \cup {BadFd} /\ m_pfds' = Append(m_pfds, f)
         /\ m_clients' = m_clients \cup {f}
  BY DEF AddNew, Inv, TypeOK
<1>3. SockFd' = SockFd /\ \A g \in Fd : Owner(g)' = Owner(g)
  BY <1>1 DEF SockFd, Owner
<1>4. \A k \in SockFd : reply[Owner(k)] = <<>>
  <2>1. Range(m_dropped_fds) = {}
    BY <1>1 DEF Range
  <2> QED
    BY <1>1, <2>1 DEF Inv, Once, Running
<1>5. f \in Fd => f \in SockFd /\ f \notin Open /\ f \notin m_clients
  BY <1>1, FdAssumption DEF Inv, Descriptors, Open
<1>6. /\ Open' = IF f \in Fd THEN Open \cup {f} ELSE Open
      /\ m_clients \subseteq m_clients' /\ m_clients' \subseteq Fd \cup {BadFd}
      /\ f \in Fd \cup {BadFd} => f \in m_clients'
  <2>1. m_clients \subseteq Fd \cup {BadFd} /\ BadFd \notin Fd /\ NoFd \notin Fd \cup {BadFd}
    BY FdAssumption DEF Inv, TypeOK
  <2>2. CASE f = NoFd /\ m_clients' = m_clients
    BY <2>1, <2>2 DEF Open
  <2>3. CASE f \in Fd \cup {BadFd} /\ m_clients' = m_clients \cup {f}
    BY <2>1, <2>3 DEF Open
  <2> QED
    BY <1>2, <2>2, <2>3
<1>7. /\ m_pfds \in Seq(Fd \cup {BadFd}) /\ m_pfds' \in Seq(Fd \cup {BadFd})
      /\ \A j \in DOMAIN m_pfds' : \/ j \in DOMAIN m_pfds /\ m_pfds'[j] = m_pfds[j]
                                   \/ j = Len(m_pfds) + 1 /\ m_pfds'[j] = f /\ f \in Fd \cup {BadFd}
  <2>1. m_pfds \in Seq(Fd \cup {BadFd})
    BY DEF Inv, TypeOK
  <2>2. CASE m_pfds' = m_pfds
    BY <2>1, <2>2
  <2>3. CASE f \in Fd \cup {BadFd} /\ m_pfds' = Append(m_pfds, f)
    BY <2>1, <2>3, AppendProperties
  <2> QED
    BY <1>2, <2>2, <2>3
<1>8. \A j \in DOMAIN m_pfds : f \in Fd => m_pfds[j] # f
  BY <1>5, FdAssumption DEF Inv, Polled
<1>9. TypeOK'
  BY <1>1, <1>6, <1>7 DEF Inv, TypeOK, clientVars
<1>10. Descriptors'
  <2>1. \A g \in Fd : fdTable'[g].kind \in {"sock", "pipe"} => Owner(g)' \in Client
    BY <1>1, <1>3 DEF Inv, Descriptors
  <2>2. Open' \subseteq SockFd'
    BY <1>3, <1>5, <1>6 DEF Inv, Descriptors
  <2>3. SockFd' \subseteq Open' \cup {m_new_connection'}
    BY <1>1, <1>3, <1>6 DEF Inv, Descriptors
  <2> QED
    BY <1>1, <1>3, <1>5, <1>6, <2>1, <2>2, <2>3 DEF Descriptors
<1>11. Sockets'
  BY <1>1, <1>3 DEF Inv, Sockets, clientVars, SockFd
<1>12. Polled'
  <2>1. ASSUME NEW j \in DOMAIN m_pfds', m_pfds'[j] # BadFd
        PROVE  /\ fdTable'[m_pfds'[j]].kind \notin {"free", "held"}
               /\ m_pfds'[j] \in SockFd' => m_pfds'[j] \in m_clients'
    <3>1. CASE j \in DOMAIN m_pfds /\ m_pfds'[j] = m_pfds[j]
      BY <1>1, <1>3, <1>6, <2>1, <3>1 DEF Inv, Polled
    <3>2. CASE m_pfds'[j] = f /\ f \in Fd \cup {BadFd}
      <4>1. f \in SockFd
        BY <1>5, <2>1, <3>2
      <4> QED
        BY <1>1, <1>6, <3>2, <4>1 DEF SockFd
    <3> QED
      BY <1>7, <3>1, <3>2
  <2>2. ASSUME NEW j \in DOMAIN m_pfds', NEW l \in DOMAIN m_pfds',
               m_pfds'[j] = m_pfds'[l], m_pfds'[j] # BadFd
        PROVE  j = l
    <3>1. CASE /\ j \in DOMAIN m_pfds /\ m_pfds'[j] = m_pfds[j]
               /\ l \in DOMAIN m_pfds /\ m_pfds'[l] = m_pfds[l]
      BY <2>2, <3>1 DEF Inv, Polled
    <3>2. CASE j \in DOMAIN m_pfds /\ m_pfds'[j] = m_pfds[j] /\ m_pfds'[l] = f /\ f \in Fd \cup {BadFd}
      BY <1>8, <2>2, <3>2
    <3>3. CASE l \in DOMAIN m_pfds /\ m_pfds'[l] = m_pfds[l] /\ m_pfds'[j] = f /\ f \in Fd \cup {BadFd}
      BY <1>8, <2>2, <3>3
    <3>4. CASE j = Len(m_pfds) + 1 /\ l = Len(m_pfds) + 1
      BY <3>4
    <3> QED
      BY <1>7, <3>1, <3>2, <3>3, <3>4
  <2> QED
    BY <2>1, <2>2 DEF Polled
\* The connection that is added is a new one.
<1>13. f \in Fd => conn[f] = NewConnection
  BY <1>5 DEF Inv, Pipes
<1>14. /\ NewConnection.isCGI = FALSE /\ NewConnection.pipeFd = NoFd
       /\ NewConnection.m_request = <<>> /\ NewConnection.parsed = <<>>
  BY DEF NewConnection
<1>15. Pipes'
  <2>1. ASSUME NEW g \in Open'
        PROVE  /\ conn[g].isCGI <=> conn[g].pipeFd # NoFd
               /\ conn[g].isCGI => conn[g].parsed # <<>>
               /\ conn[g].pipeFd # NoFd =>
                     /\ fdTable[conn[g].pipeFd] = [kind |-> "pipe", owner |-> Owner(g)]
                     /\ ~conn[g].m_cgi_added => \A j \in DOMAIN m_pfds' : m_pfds'[j] # conn[g].pipeFd
    <3>1. CASE g = f /\ f \in Fd
      BY <1>13, <1>14, <3>1
    <3>2. CASE g \in Open
      <4>1. /\ conn[g].isCGI <=> conn[g].pipeFd # NoFd
            /\ conn[g].isCGI => conn[g].parsed # <<>>
        BY <3>2 DEF Inv, Pipes
      <4>2. ASSUME conn[g].pipeFd # NoFd
            PROVE  /\ fdTable[conn[g].pipeFd] = [kind |-> "pipe", owner |-> Owner(g)]
                   /\ ~conn[g].m_cgi_added => \A j \in DOMAIN m_pfds' : m_pfds'[j] # conn[g].pipeFd
        <5>1. conn[g].pipeFd \in Fd /\ fdTable[conn[g].pipeFd].kind = "pipe"
          BY <3>2, <4>2, OpenFacts DEF Connection
        <5>2. conn[g].pipeFd # f
          BY <1>5, <5>1 DEF SockFd
        <5>3. /\ fdTable[conn[g].pipeFd] = [kind |-> "pipe", owner |-> Owner(g)]
              /\ ~conn[g].m_cgi_added => \A j \in DOMAIN m_pfds : m_pfds[j] # conn[g].pipeFd
          BY <3>2, <4>2 DEF Inv, Pipes
        <5> QED
          BY <1>7, <5>2, <5>3
      <4> QED
        BY <4>1, <4>2
    <3> QED
      BY <1>6, <3>1, <3>2
  <2>2. \A g \in Fd \cup {BadFd} : g \notin Open' => conn[g] = NewConnection
    BY <1>6 DEF Inv, Pipes
  <2>3. \A g \in Open' : Owner(g)' = Owner(g)
    BY <1>1 DEF Owner
  <2> QED
    BY <1>1, <2>1, <2>2, <2>3 DEF Pipes
<1>16. OwnData'
  <2> SUFFICES ASSUME NEW g \in Open'
               PROVE  /\ \A j \in DOMAIN conn[g].m_request : conn[g].m_request[j] = Owner(g)
                      /\ \A j \in DOMAIN conn[g].parsed : conn[g].parsed[j] = Owner(g)
    BY <1>1 DEF OwnData, Owner
  <2>1. CASE g = f /\ f \in Fd
    BY <1>13, <1>14, <2>1
  <2>2. CASE g \in Open
    BY <2>2 DEF Inv, OwnData
  <2> QED
    BY <1>6, <2>1, <2>2
<1>17. Loop'
  BY <1>1 DEF Inv, Loop, Reached
<1>18. Once'
  BY <1>1, <1>3, <1>4 DEF Once, SockFd
<1>19. OwnAnswer'
  BY <1>1 DEF Inv, OwnAnswer
<1> QED
  BY <1>9, <1>10, <1>11, <1>12, <1>15, <1>16, <1>17, <1>18, <1>19 DEF Inv

\* A new pipe gets an entry of m_pfds (Poller.cpp:162-171).
LEMMA AddPipeInv == Inv /\ AddPipe => Inv'
<1> SUFFICES ASSUME Inv, AddPipe PROVE Inv'
  OBVIOUS
<1>1. PICK k \in Unadded : /\ m_pfds' = Append(m_pfds, conn[k].pipeFd)
                           /\ conn' = [conn EXCEPT ![k].m_cgi_added = TRUE]
  BY DEF AddPipe
<1> DEFINE f == conn[k].pipeFd
           x == [conn[k] EXCEPT !.m_cgi_added = TRUE]
<1>2. /\ pc = "add" /\ pc' = "add"
      /\ UNCHANGED <<clientVars, reply, cgi, fdTable, signalled, m_clients, m_dropped_fds,
                     m_new_connection, revents>>
  BY DEF AddPipe
<1>3. /\ k \in Open /\ k \in Fd /\ k \in SockFd /\ conn[k] \in Connection
      /\ f \in Fd /\ f # NoFd /\ fdTable[f].kind = "pipe" /\ fdTable[f].owner = Owner(k)
      /\ ~conn[k].m_cgi_added
  <2>1. k \in m_clients /\ f # NoFd /\ ~conn[k].m_cgi_added
    BY DEF Unadded
  <2>2. k \in Fd \cup {BadFd}
    BY <2>1 DEF Inv, TypeOK
  <2>3. f \in Fd
    BY <2>1, <2>2 DEF Inv, TypeOK, Connection
  <2>4. k \in Open /\ fdTable[f].owner = Owner(k)
    BY <2>1, <2>3, PipeFacts
  <2> QED
    BY <2>1, <2>3, <2>4, OpenFacts
<1>4. \A j \in DOMAIN m_pfds : m_pfds[j] # f
  BY <1>3 DEF Inv, Pipes
<1>5. /\ m_pfds \in Seq(Fd \cup {BadFd}) /\ m_pfds' \in Seq(Fd \cup {BadFd})
      /\ \A j \in DOMAIN m_pfds' : \/ j \in DOMAIN m_pfds /\ m_pfds'[j] = m_pfds[j]
                                   \/ j = Len(m_pfds) + 1 /\ m_pfds'[j] = f
  <2>1. m_pfds \in Seq(Fd \cup {BadFd})
    BY DEF Inv, TypeOK
  <2> QED
    BY <1>1, <1>3, <2>1, AppendProperties
<1>6. /\ x \in Connection /\ x.m_cgi_added /\ x.m_request = conn[k].m_request
      /\ x.parsed = conn[k].parsed /\ x.isCGI = conn[k].isCGI /\ x.pipeFd = f
  BY <1>3 DEF Connection
<1>7. conn' = [conn EXCEPT ![k] = x]
  BY <1>1, <1>3 DEF Inv, TypeOK
<1> HIDE DEF x, f
<1>8. /\ conn' \in [Fd \cup {BadFd} -> Connection] /\ conn'[k] = x
      /\ \A g \in Fd \cup {BadFd} : g # k => conn'[g] = conn[g]
  BY <1>3, <1>6, <1>7 DEF Inv, TypeOK
<1>9. TypeOK'
  BY <1>2, <1>5, <1>8 DEF Inv, TypeOK, clientVars
<1>10. SockFd' = SockFd /\ Open' = Open /\ \A g \in Fd : Owner(g)' = Owner(g)
  BY <1>2 DEF SockFd, Open, Owner
<1>11. Descriptors' /\ Sockets'
  BY <1>2, <1>10 DEF Inv, Descriptors, Sockets, clientVars, SockFd
<1>12. Polled'
  <2>1. ASSUME NEW j \in DOMAIN m_pfds', m_pfds'[j] # BadFd
        PROVE  /\ fdTable'[m_pfds'[j]].kind \notin {"free", "held"}
               /\ m_pfds'[j] \in SockFd' => m_pfds'[j] \in m_clients'
    <3>1. CASE j \in DOMAIN m_pfds /\ m_pfds'[j] = m_pfds[j]
      BY <1>2, <1>10, <2>1, <3>1 DEF Inv, Polled
    <3>2. CASE m_pfds'[j] = f
      BY <1>2, <1>3, <3>2 DEF SockFd
    <3> QED
      BY <1>5, <3>1, <3>2
  <2>2. ASSUME NEW j \in DOMAIN m_pfds', NEW l \in DOMAIN m_pfds',
               m_pfds'[j] = m_pfds'[l], m_pfds'[j] # BadFd
        PROVE  j = l
    <3>1. CASE /\ j \in DOMAIN m_pfds /\ m_pfds'[j] = m_pfds[j]
               /\ l \in DOMAIN m_pfds /\ m_pfds'[l] = m_pfds[l]
      BY <2>2, <3>1 DEF Inv, Polled
    <3>2. CASE j \in DOMAIN m_pfds /\ m_pfds'[j] = m_pfds[j] /\ m_pfds'[l] = f
      BY <1>4, <2>2, <3>2
    <3>3. CASE l \in DOMAIN m_pfds /\ m_pfds'[l] = m_pfds[l] /\ m_pfds'[j] = f
      BY <1>4, <2>2, <3>3
    <3>4. CASE j = Len(m_pfds) + 1 /\ l = Len(m_pfds) + 1
      BY <3>4
    <3> QED
      BY <1>5, <3>1, <3>2, <3>3, <3>4
  <2> QED
    BY <2>1, <2>2 DEF Polled
<1>13. Pipes'
  <2>1. ASSUME NEW g \in Open
        PROVE  /\ conn'[g].isCGI <=> conn'[g].pipeFd # NoFd
               /\ conn'[g].isCGI => conn'[g].parsed # <<>>
               /\ conn'[g].pipeFd # NoFd =>
                     /\ fdTable[conn'[g].pipeFd] = [kind |-> "pipe", owner |-> Owner(g)]
                     /\ ~conn'[g].m_cgi_added => \A j \in DOMAIN m_pfds' : m_pfds'[j] # conn'[g].pipeFd
    <3>1. CASE g = k
      BY <1>6, <1>8, <3>1 DEF Inv, Pipes, f
    <3>2. CASE g # k
      <4>1. conn'[g] = conn[g] /\ g \in SockFd
        BY <1>8, <3>2, OpenFacts
      <4>2. /\ conn[g].isCGI <=> conn[g].pipeFd # NoFd
            /\ conn[g].isCGI => conn[g].parsed # <<>>
        BY DEF Inv, Pipes
      <4>3. ASSUME conn[g].pipeFd # NoFd
            PROVE  /\ fdTable[conn[g].pipeFd] = [kind |-> "pipe", owner |-> Owner(g)]
                   /\ ~conn[g].m_cgi_added => \A j \in DOMAIN m_pfds' : m_pfds'[j] # conn[g].pipeFd
        <5>1. /\ fdTable[conn[g].pipeFd] = [kind |-> "pipe", owner |-> Owner(g)]
              /\ ~conn[g].m_cgi_added => \A j \in DOMAIN m_pfds : m_pfds[j] # conn[g].pipeFd
          BY <4>3 DEF Inv, Pipes
        <5>2. Owner(g) # Owner(k)
          BY <1>3, <3>2, <4>1 DEF Inv, Sockets
        <5>3. fdTable[conn[g].pipeFd].owner = Owner(g)
          BY <5>1
        <5>4. conn[g].pipeFd # f
          BY <1>3, <5>2, <5>3
        <5> QED
          BY <1>5, <5>1, <5>4
      <4> QED
        BY <4>1, <4>2, <4>3
    <3> QED
      BY <3>1, <3>2
  <2>2. \A g \in Fd \cup {BadFd} : g \notin Open => conn'[g] = NewConnection
    BY <1>3, <1>8 DEF Inv, Pipes
  <2>3. \A g \in Open : Owner(g)' = Owner(g)
    BY <1>2 DEF Owner
  <2> QED
    BY <1>2, <1>10, <2>1, <2>2, <2>3 DEF Pipes
<1>14. OwnData'
  <2> SUFFICES ASSUME NEW g \in Open
               PROVE  /\ \A j \in DOMAIN conn'[g].m_request : conn'[g].m_request[j] = Owner(g)
                      /\ \A j \in DOMAIN conn'[g].parsed : conn'[g].parsed[j] = Owner(g)
    BY <1>2, <1>10 DEF OwnData, Owner
  <2>1. CASE g = k
    BY <1>6, <1>8, <2>1 DEF Inv, OwnData
  <2>2. CASE g # k
    <3>1. conn'[g] = conn[g]
      BY <1>8, <2>2, OpenFacts
    <3> QED
      BY <3>1 DEF Inv, OwnData
  <2> QED
    BY <2>1, <2>2
<1>15. Loop'
  BY <1>2 DEF Inv, Loop, Reached
<1>16. Once'
  <2>1. revents' = <<>>
    BY <1>2 DEF Inv, Loop
  <2> QED
    BY <1>2, <1>10, <2>1 DEF Inv, Once, Running, SockFd
<1>17. OwnAnswer'
  BY <1>2 DEF Inv, OwnAnswer
<1> QED
  BY <1>9, <1>11, <1>12, <1>13, <1>14, <1>15, <1>16, <1>17 DEF Inv

\* The end of a pass leaves nothing to add or to drop (Poller.cpp:110-113).
LEMMA EndPassInv == Inv /\ EndPass => Inv'
<1> SUFFICES ASSUME Inv, EndPass PROVE Inv'
  OBVIOUS
<1>1. /\ pc = "add" /\ pc' = "poll" /\ m_new_connection' = NoFd
      /\ UNCHANGED <<clientVars, reply, cgi, fdTable, signalled, m_pfds, m_clients, conn,
                     m_dropped_fds, revents>>
  BY DEF EndPass
<1>2. SockFd' = SockFd /\ Open' = Open /\ \A g \in Fd : Owner(g)' = Owner(g)
  BY <1>1 DEF SockFd, Open, Owner
<1>3. TypeOK'
  BY <1>1 DEF Inv, TypeOK, clientVars
<1>4. Descriptors'
  <2>1. SockFd \subseteq Open
    BY <1>1 DEF Inv, Descriptors, SockFd
  <2>2. m_new_connection' \notin Fd
    BY <1>1, FdAssumption
  <2> QED
    BY <1>1, <1>2, <2>1, <2>2 DEF Inv, Descriptors
<1>5. Sockets' /\ Polled' /\ Pipes' /\ OwnData' /\ OwnAnswer'
  BY <1>1 DEF Inv, Sockets, Polled, Pipes, OwnData, OwnAnswer, Open, SockFd, Owner, clientVars
<1>6. Loop' /\ Once'
  BY <1>1 DEF Inv, Loop, Once, Reached, SockFd, Owner, Running
<1> QED
  BY <1>3, <1>4, <1>5, <1>6 DEF Inv

-----------------------------------------------------------------------------
(* The invariant, and what follows from it. *)

\* Every step of the system preserves Inv.
LEMMA NextInv == Inv /\ [Next]_vars => Inv'
<1> SUFFICES ASSUME Inv, [Next]_vars PROVE Inv'
  OBVIOUS
<1>1. CASE UNCHANGED vars
  <2>1. TypeOK'
    BY <1>1 DEF Inv, TypeOK, vars, clientVars, threadVars
  <2> QED
    BY <1>1, <2>1, CountsFrame DEF vars, clientVars
<1>2. CASE \E c \in Client : \/ Connect(c) \/ SendSegment(c) \/ Finish(c) \/ Abort(c)
                             \/ ChildWrite(c) \/ ChildExit(c)
  BY <1>2, ConnectInv, SendSegmentInv, FinishAbortInv, ChildInv
<1>3. CASE Signal \/ \E i \in DOMAIN m_pfds : FinishSend(i)
  BY <1>3, SignalInv, FinishSendInv
<1>4. ASSUME NEW i \in DOMAIN m_pfds, Handler(i)
      PROVE  Inv'
  <2>1. CASE HangUp(i) \/ Accept(i) \/ AcceptFails(i) \/ RecvData(i) \/ RecvNothing(i)
    BY <2>1, HangUpInv, AcceptInv, AcceptFailsInv, RecvDataInv, RecvNothingInv
  <2>2. CASE RecvNoConnection(i) \/ StartCGIFails(i) \/ AwaitCGI(i) \/ ParseEndless(i)
    BY <2>2, NothingDoneInv
  <2>3. CASE ReadCGI(i) \/ CollectCGI(i) \/ StartCGI(i)
    BY <2>3, ReadCGIInv, CollectCGIInv, StartCGIInv
  <2>4. CASE RespondNothing(i) \/ RespondBadRequest(i) \/ RespondAbsent(i) \/ RespondFile(i)
    BY <2>4, RespondNothingInv, RespondBadRequestInv, RespondAbsentInv, RespondFileInv
  <2>5. CASE SendBlocks(i)
    BY <2>5, SendBlocksInv
  <2> QED
    BY <1>4, <2>1, <2>2, <2>3, <2>4, <2>5 DEF Handler
<1>5. CASE Poll \/ Stop \/ EndScan
  BY <1>5, PollInv, StopInv, EndScanInv
<1>6. CASE DropFd \/ AddNew \/ AddPipe \/ EndPass
  BY <1>6, DropFdInv, AddNewInv, AddPipeInv, EndPassInv
<1> QED
  BY <1>1, <1>2, <1>3, <1>4, <1>5, <1>6 DEF Next, Thread, Environment

(* m_pfds, the clients and the connections' pipes agree in every state of  *)
(* the loop of pollPort, whatever the clients, CGI programs and system do. *)
THEOREM Invariance == Spec => []Inv
<1>1. Init => Inv
  BY InitInv
<1>2. Inv /\ [Next]_vars => Inv'
  BY NextInv
<1> QED
  BY <1>1, <1>2, PTL DEF Spec

\* The variables keep their types: descriptors are valid, counts are not
\* negative, and the stack and m_pfds hold descriptors (Poller.hpp, Connection.hpp).
THEOREM TypeCorrect == Spec => []TypeOK
<1>1. Inv => TypeOK
  BY DEF Inv
<1> QED
  BY <1>1, Invariance, PTL

\* No client is answered twice, and none with data of another: for any number
\* of clients and descriptors, whatever order the loop, the clients and the CGI
\* programs take, and however descriptors are reused (Poller.cpp:42-116).
THEOREM OwnAnswers == Spec => []OwnAnswer
<1>1. Inv => OwnAnswer
  BY DEF Inv
<1> QED
  BY <1>1, Invariance, PTL

\* A step leaves alone the table's entry of every descriptor that m_pfds
\* names before and after it.
LEMMA StepKeepsOwner ==
    ASSUME Inv, [Next]_vars, NEW i \in DOMAIN m_pfds, NEW j \in DOMAIN m_pfds',
           m_pfds[i] = m_pfds'[j], m_pfds[i] # BadFd
    PROVE  fdTable'[m_pfds[i]] = fdTable[m_pfds[i]]
<1> DEFINE f == m_pfds[i]
<1>1. f \in Fd /\ fdTable[f].kind # "free" /\ fdTable \in [Fd -> FdEntry]
  BY DEF Inv, TypeOK, Polled
<1>2. \A g \in FreeFd : g # f
  BY <1>1 DEF FreeFd
<1>3. CASE DropFd
  <2> DEFINE d == Head(m_dropped_fds)
  <2>1. m_dropped_fds \in Seq(Fd \cup {BadFd}) /\ m_dropped_fds # <<>> /\ Erase(d)
    BY <1>3 DEF Inv, TypeOK, DropFd
  <2>2. d \in Fd
    <3>1. d = m_dropped_fds[1] /\ 1 \in DOMAIN m_dropped_fds
      BY <2>1
    <3>2. d # BadFd
      BY <3>1 DEF Inv, Loop
    <3> QED
      BY <2>1, <3>1, <3>2
  <2>3. f # d
    BY <2>1, <2>2, EraseFacts
  <2>4. UNCHANGED fdTable \/ fdTable' = [fdTable EXCEPT ![d] = Free]
    BY <1>3 DEF DropFd
  <2> HIDE DEF d
  <2> QED
    BY <1>1, <2>3, <2>4
<1>4. ASSUME NEW l \in DOMAIN m_pfds, Handler(l) PROVE fdTable'[f] = fdTable[f]
  <2>1. CASE Accept(l)
    <3>1. \E g \in FreeFd : \E e : fdTable' = [fdTable EXCEPT ![g] = e]
      BY <2>1 DEF Accept
    <3> QED
      BY <1>1, <1>2, <3>1
  <2>2. CASE RespondFile(l) \/ SendBlocks(l)
    <3>1. UNCHANGED fdTable \/ \E g \in FreeFd : fdTable' = [fdTable EXCEPT ![g] = Held]
      BY <2>2 DEF RespondFile, SendBlocks
    <3> QED
      BY <1>1, <1>2, <3>1
  <2>3. CASE StartCGI(l)
    <3> DEFINE e == [kind |-> "pipe", owner |-> fdTable[m_pfds[l]].owner]
    <3>1. \E a, b, r, w \in FreeFd :
             fdTable' = [fdTable EXCEPT ![a] = Held, ![b] = Held, ![w] = Held, ![r] = e]
      BY <2>3 DEF StartCGI
    <3> HIDE DEF e
    <3> QED
      BY <1>1, <1>2, <3>1
  <2>4. CASE \/ HangUp(l) \/ AcceptFails(l) \/ RecvData(l) \/ RecvNothing(l)
             \/ RecvNoConnection(l) \/ ReadCGI(l) \/ CollectCGI(l) \/ RespondNothing(l)
             \/ RespondBadRequest(l) \/ RespondAbsent(l) \/ StartCGIFails(l) \/ AwaitCGI(l) \/ ParseEndless(l)
    BY <2>4 DEF HangUp, AcceptFails, RecvData, RecvNothing, RecvNoConnection, ReadCGI,
       CollectCGI, RespondNothing, RespondBadRequest, RespondAbsent, StartCGIFails, AwaitCGI, ParseEndless
  <2> QED
    BY <1>4, <2>1, <2>2, <2>3, <2>4 DEF Handler
<1>5. CASE Poll \/ Stop \/ EndScan \/ AddNew \/ AddPipe \/ EndPass
  BY <1>5 DEF Poll, Stop, EndScan, AddNew, AddPipe, EndPass
<1>6. CASE Environment
  BY <1>6 DEF Environment, Connect, SendSegment, Finish, Abort, ChildWrite, ChildExit,
     Signal, FinishSend
<1>7. CASE UNCHANGED vars
  BY <1>7 DEF vars
<1> QED
  BY <1>3, <1>4, <1>5, <1>6, <1>7 DEF Next, Thread

\* An entry of m_pfds, and the revents poll leaves in it, mean one and the same
\* socket or pipe for as long as the entry is there (Poller.cpp:66-110).
THEOREM EntriesKeepOwner == Spec => EntryKeepsOwner
<1>1. Inv /\ [Next]_vars =>
        [\A i \in DOMAIN m_pfds, j \in DOMAIN m_pfds' :
            (m_pfds[i] = m_pfds'[j] /\ m_pfds[i] # BadFd)
               => fdTable'[m_pfds[i]] = fdTable[m_pfds[i]]]_vars
  BY StepKeepsOwner
<1> QED
  BY <1>1, Invariance, PTL DEF Spec, EntryKeepsOwner
=============================================================================
