--------------------------------- MODULE CGI ---------------------------------
(***************************************************************************)
(* CGI programs as the system sees them: CGI.cpp, and what Poller.cpp and  *)
(* Connection.cpp do with it.  For a request the server makes two pipes    *)
(* and forks; the child writes the request's body into its own standard    *)
(* input and becomes the program.  The child starts with a copy of every   *)
(* descriptor the process has, and the server closes no end of a pipe.     *)
(*                                                                         *)
(* The threads of all ports are here, for a fork copies the descriptors of *)
(* all of them.  Clients that leave early are in Poller.tla.               *)
(***************************************************************************)
EXTENDS Integers

CONSTANTS
    Request,        \* the requests for a program, each on a connection
    Server,         \* the server's process
    Port,
    Runs,           \* what each request and its program may be, see Behaviour
    ReadSize,       \* RECV_SIZE
    PipeSize,       \* MAX_PIPE_SIZE, the capacity of a pipe
    Faults          \* what else may happen

(* A request comes to a port.  A program reads nothing of its input, as    *)
(* much as CONTENT_LENGTH says or up to the end, then writes its output,   *)
(* in one write or in several, and exits with a code.  A child may also    *)
(* find no program to run, or fail before it looks for one.                *)
Behaviour == [port : Port, body : Nat, declared : Nat,
              reads : {"none", "declared", "end"},
              output : Nat, atOnce : BOOLEAN, code : Nat,
              child : {"runs", "missing", "fails"}]

EXIT_FAILURE == 1
ErrorText == 1      \* the size of "ERROR", in the same units

ASSUME ProcessAssumption == Server \notin Request
ASSUME NoPortAssumption == "free" \notin Request
ASSUME SizeAssumption == ReadSize \in Nat \ {0} /\ PipeSize \in Nat \ {0}
ASSUME RunsAssumption == Runs \subseteq [Request -> Behaviour]
ASSUME FaultAssumption == Faults \subseteq {"fork", "read"}

VARIABLES
    run,            \* the behaviour of each request's program
    conn,           \* where each connection is
    thread,         \* the request whose child each port's thread waits for
    got,            \* the size of m_response
    m_status,
    answer,
    child,          \* where each child process is
    bodyLeft,       \* what a child has not written of the body
    inPipe, outPipe,
    taken,          \* what a program has read
    outLeft,        \* what a program has not written
    holds           \* the ends and sockets that each process holds

serverVars == <<conn, thread, got, m_status, answer>>
childVars == <<child, bodyLeft, inPipe, taken, outLeft>>
vars == <<run, serverVars, childVars, outPipe, holds>>

Process == Request \cup {Server}

\* The write ends of the two pipes, and the socket, of a request.
Ends == {"in", "out", "sock"} \X Request
Pipes(r) == {<<"in", r>>, <<"out", r>>}

OutputOf(b) == CASE b.child = "runs" -> b.output
                 [] b.child = "missing" -> ErrorText
                 [] b.child = "fails" -> 0

Output(r) == OutputOf(run[r])

ExitCode(r) == IF run[r].child = "runs" THEN run[r].code ELSE EXIT_FAILURE

TypeOK ==
    /\ run \in Runs
    /\ conn \in [Request -> {"away", "open", "started", "answered", "closed"}]
    /\ thread \in [Port -> Request \cup {"free"}]
    /\ got \in [Request -> Nat]
    /\ m_status \in [Request -> {200, 500}]
    /\ answer \in [Request -> {"none", "output", "error"}]
    /\ child \in [Request -> {"none", "body", "read", "write", "exited", "reaped"}]
    /\ bodyLeft \in [Request -> Nat] /\ inPipe \in [Request -> Nat]
    /\ taken \in [Request -> Nat] /\ outLeft \in [Request -> Nat]
    /\ outPipe \in [Request -> Nat]
    /\ holds \in [Process -> SUBSET Ends]

Init ==
    /\ run \in Runs
    /\ conn = [r \in Request |-> "away"]
    /\ thread = [p \in Port |-> "free"]
    /\ got = [r \in Request |-> 0]
    /\ m_status = [r \in Request |-> 200]
    /\ answer = [r \in Request |-> "none"]
    /\ child = [r \in Request |-> "none"]
    /\ bodyLeft = [r \in Request |-> run[r].body]
    /\ inPipe = [r \in Request |-> 0]
    /\ taken = [r \in Request |-> 0]
    /\ outLeft = [r \in Request |-> Output(r)]
    /\ outPipe = [r \in Request |-> 0]
    /\ holds = [q \in Process |-> {}]

-----------------------------------------------------------------------------
(* The server.                                                             *)

Free(r) == thread[run[r].port] = "free"

Accept(r) ==
    /\ conn[r] = "away" /\ Free(r)
    /\ conn' = [conn EXCEPT ![r] = "open"]
    /\ holds' = [holds EXCEPT ![Server] = @ \cup {<<"sock", r>>}]
    /\ UNCHANGED <<run, thread, got, m_status, answer, childVars, outPipe>>

\* A mutant of Start: the server closes its write end of the input.
StartClosed(r) ==
    /\ conn[r] = "open" /\ Free(r)
    /\ conn' = [conn EXCEPT ![r] = "started"]
    /\ child' = [child EXCEPT ![r] = "body"]
    /\ holds' = [holds EXCEPT ![Server] = @ \cup {<<"out", r>>},
                              ![r] = holds[Server] \cup Pipes(r)]
    /\ UNCHANGED <<run, thread, got, m_status, answer, bodyLeft, inPipe, taken,
                   outLeft, outPipe>>

\* _initAndExecCGI: init makes the pipes, exec forks.
Start(r) ==
    /\ conn[r] = "open" /\ Free(r)
    /\ conn' = [conn EXCEPT ![r] = "started"]
    /\ child' = [child EXCEPT ![r] = "body"]
    /\ holds' = [holds EXCEPT ![Server] = @ \cup Pipes(r),
                              ![r] = holds[Server] \cup Pipes(r)]
    /\ UNCHANGED <<run, thread, got, m_status, answer, bodyLeft, inPipe, taken,
                   outLeft, outPipe>>

\* fork fails: what exec returns is not looked at.
StartFails(r) ==
    /\ "fork" \in Faults
    /\ conn[r] = "open" /\ Free(r)
    /\ conn' = [conn EXCEPT ![r] = "started"]
    /\ holds' = [holds EXCEPT ![Server] = @ \cup Pipes(r)]
    /\ UNCHANGED <<run, thread, got, m_status, answer, childVars, outPipe>>

\* A mutant of Read: one read is taken to be all.
ReadOnce(r) ==
    /\ conn[r] = "started" /\ Free(r) /\ outPipe[r] > 0
    /\ LET n == IF outPipe[r] < ReadSize THEN outPipe[r] ELSE ReadSize
       IN  /\ got' = [got EXCEPT ![r] = @ + n]
           /\ outPipe' = [outPipe EXCEPT ![r] = @ - n]
           /\ thread' = [thread EXCEPT ![run[r].port] = r]
    /\ UNCHANGED <<run, conn, m_status, answer, childVars, holds>>

\* A mutant of Read: an empty read is waited for.
ReadUntilEmpty(r) ==
    /\ conn[r] = "started" /\ Free(r) /\ outPipe[r] > 0
    /\ LET n == IF outPipe[r] < ReadSize THEN outPipe[r] ELSE ReadSize
       IN  /\ got' = [got EXCEPT ![r] = @ + n]
           /\ outPipe' = [outPipe EXCEPT ![r] = @ - n]
           /\ thread' = [thread EXCEPT ![run[r].port] = IF n = 0 THEN r ELSE @]
    /\ UNCHANGED <<run, conn, m_status, answer, childVars, holds>>

(* _readCGIData on POLLIN.  A read that does not fill the buffer is taken  *)
(* for the last one, and waitpid follows.                                  *)
Read(r) ==
    /\ conn[r] = "started" /\ Free(r) /\ outPipe[r] > 0
    /\ LET n == IF outPipe[r] < ReadSize THEN outPipe[r] ELSE ReadSize
       IN  /\ got' = [got EXCEPT ![r] = @ + n]
           /\ outPipe' = [outPipe EXCEPT ![r] = @ - n]
           /\ thread' = [thread EXCEPT ![run[r].port] = IF n < ReadSize THEN r ELSE @]
    /\ UNCHANGED <<run, conn, m_status, answer, childVars, holds>>

\* read fails: the output is taken to be at its end.
ReadFails(r) ==
    /\ "read" \in Faults
    /\ conn[r] = "started" /\ Free(r) /\ outPipe[r] > 0
    /\ m_status' = [m_status EXCEPT ![r] = 500]
    /\ thread' = [thread EXCEPT ![run[r].port] = r]
    /\ UNCHANGED <<run, conn, got, answer, childVars, outPipe, holds>>

\* A mutant of Collect: the child is not waited for.
CollectUnwaited(r) ==
    /\ thread[run[r].port] = r
    /\ thread' = [thread EXCEPT ![run[r].port] = "free"]
    /\ conn' = [conn EXCEPT ![r] = "answered"]
    /\ answer' = [answer EXCEPT ![r] = "output"]
    /\ UNCHANGED <<run, got, m_status, childVars, outPipe, holds>>

(* waitpid returns.  Only the exit code decides what is sent: 500, or what *)
(* has been read, even if the status is 500.                               *)
Collect(r) ==
    /\ thread[run[r].port] = r /\ child[r] = "exited"
    /\ thread' = [thread EXCEPT ![run[r].port] = "free"]
    /\ child' = [child EXCEPT ![r] = "reaped"]
    /\ conn' = [conn EXCEPT ![r] = "answered"]
    /\ IF ExitCode(r) = EXIT_FAILURE
       THEN /\ m_status' = [m_status EXCEPT ![r] = 500]
            /\ answer' = [answer EXCEPT ![r] = "error"]
       ELSE /\ answer' = [answer EXCEPT ![r] = "output"]
            /\ UNCHANGED m_status
    /\ UNCHANGED <<run, got, bodyLeft, inPipe, taken, outLeft, outPipe, holds>>

\* A mutant of Drop: the socket stays open.
DropUnclosed(r) ==
    /\ conn[r] = "answered" /\ Free(r)
    /\ conn' = [conn EXCEPT ![r] = "closed"]
    /\ UNCHANGED <<run, thread, got, m_status, answer, childVars, outPipe, holds>>

\* _deletePollFds: the connection closes its socket, and nothing its pipes.
Drop(r) ==
    /\ conn[r] = "answered" /\ Free(r)
    /\ conn' = [conn EXCEPT ![r] = "closed"]
    /\ holds' = [holds EXCEPT ![Server] = @ \ {<<"sock", r>>}]
    /\ UNCHANGED <<run, thread, got, m_status, answer, childVars, outPipe>>

-----------------------------------------------------------------------------
(* The child, up to execve.                                                *)

\* A dup2 or the write fails: "ERROR" goes to the server's own output.
ChildFails(r) ==
    /\ child[r] = "body" /\ run[r].child = "fails"
    /\ child' = [child EXCEPT ![r] = "exited"]
    /\ holds' = [holds EXCEPT ![r] = {}]
    /\ UNCHANGED <<run, serverVars, bodyLeft, inPipe, taken, outLeft, outPipe>>

\* The write of the body blocks while the pipe is full.
WriteBody(r) ==
    /\ child[r] = "body" /\ run[r].child # "fails"
    /\ bodyLeft[r] > 0 /\ inPipe[r] < PipeSize
    /\ LET room == PipeSize - inPipe[r]
           n == IF bodyLeft[r] < room THEN bodyLeft[r] ELSE room
       IN  /\ bodyLeft' = [bodyLeft EXCEPT ![r] = @ - n]
           /\ inPipe' = [inPipe EXCEPT ![r] = @ + n]
    /\ UNCHANGED <<run, serverVars, child, taken, outLeft, outPipe, holds>>

\* The child closes its write end of the input; execve runs the program, or
\* "ERROR" becomes the output.
Exec(r) ==
    /\ child[r] = "body" /\ run[r].child # "fails" /\ bodyLeft[r] = 0
    /\ holds' = [holds EXCEPT ![r] = @ \ {<<"in", r>>}]
    /\ child' = [child EXCEPT ![r] = IF run[r].child = "missing" THEN "write"
                                     ELSE "read"]
    /\ UNCHANGED <<run, serverVars, bodyLeft, inPipe, taken, outLeft, outPipe>>

-----------------------------------------------------------------------------
(* The program.                                                            *)

\* read returns 0 on an empty pipe whose write end nobody holds.
AtEnd(r) == inPipe[r] = 0 /\ \A q \in Process : <<"in", r>> \notin holds[q]

HasRead(r) == CASE run[r].reads = "none" -> TRUE
                [] run[r].reads = "declared" -> taken[r] >= run[r].declared
                [] run[r].reads = "end" -> AtEnd(r)

ReadInput(r) ==
    /\ child[r] = "read" /\ inPipe[r] > 0 /\ ~HasRead(r)
    /\ taken' = [taken EXCEPT ![r] = @ + inPipe[r]]
    /\ inPipe' = [inPipe EXCEPT ![r] = 0]
    /\ UNCHANGED <<run, serverVars, child, bodyLeft, outLeft, outPipe, holds>>

EndInput(r) ==
    /\ child[r] = "read" /\ HasRead(r)
    /\ child' = [child EXCEPT ![r] = "write"]
    /\ UNCHANGED <<run, serverVars, bodyLeft, inPipe, taken, outLeft, outPipe, holds>>

\* A write blocks while the pipe is full; one that fits is not divided.
WriteOutput(r) ==
    /\ child[r] = "write"
    /\ \E n \in 1..outLeft[r] :
          /\ outPipe[r] + n =< PipeSize
          /\ (run[r].child = "runs" /\ run[r].atOnce) =>
                n = outLeft[r] \/ outPipe[r] + n = PipeSize
          /\ outLeft' = [outLeft EXCEPT ![r] = @ - n]
          /\ outPipe' = [outPipe EXCEPT ![r] = @ + n]
    /\ UNCHANGED <<run, serverVars, child, bodyLeft, inPipe, taken, holds>>

Exit(r) ==
    /\ child[r] = "write" /\ outLeft[r] = 0
    /\ child' = [child EXCEPT ![r] = "exited"]
    /\ holds' = [holds EXCEPT ![r] = {}]
    /\ UNCHANGED <<run, serverVars, bodyLeft, inPipe, taken, outLeft, outPipe>>

-----------------------------------------------------------------------------
Handler(r) == \/ Accept(r) \/ Start(r) \/ StartFails(r) \/ Read(r) \/ ReadFails(r)
              \/ Collect(r) \/ Drop(r)

Child(r) == \/ ChildFails(r) \/ WriteBody(r) \/ Exec(r) \/ ReadInput(r) \/ EndInput(r)
            \/ WriteOutput(r) \/ Exit(r)

Next == \E r \in Request : Handler(r) \/ Child(r)

Spec == Init /\ [][Next]_vars

Thread(p) == \E r \in Request : run[r].port = p /\ Handler(r)

\* The threads are scheduled, and so are the children.
Fairness == (\A p \in Port : WF_vars(Thread(p))) /\ (\A r \in Request : WF_vars(Child(r)))

FairSpec == Spec /\ Fairness
=============================================================================
