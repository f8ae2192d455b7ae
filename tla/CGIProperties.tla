---------------------------- MODULE CGIProperties ----------------------------
(***************************************************************************)
(* What becomes of a CGI program, its output and its client's connection,  *)
(* and which programs and bodies leave a client waiting for ever.          *)
(***************************************************************************)
EXTENDS CGI

Started(r) == conn[r] \in {"started", "answered", "closed"}
Alive(r) == child[r] \in {"body", "read", "write"}

\* Nothing of the output is lost or made up on its way.
Conserved == \A r \in Request : got[r] + outPipe[r] + outLeft[r] = Output(r)

(* The server keeps its write end of every input pipe, so that a program   *)
(* that reads to the end never gets there (CGI.cpp:182, 223).              *)
NoInputEnds ==
    \A r \in Request :
        /\ Started(r) => <<"in", r>> \in holds[Server]
        /\ (child[r] \in {"write", "exited", "reaped"} /\ run[r].child = "runs")
              => run[r].reads # "end"

\* The thread waits for a child of its own port, which it has forked.
WaitsForOwn ==
    \A r \in Request : thread[run[r].port] = r =>
        conn[r] = "started" /\ child[r] \notin {"none", "reaped"}

\* Who is where in an exchange, and what it has sent.
Stages ==
    \A r \in Request :
        /\ conn[r] \in {"away", "open"} => child[r] = "none"
        /\ conn[r] \in {"answered", "closed"} <=> answer[r] # "none"
        /\ answer[r] # "none" <=> child[r] = "reaped"
        /\ child[r] = "none" => outLeft[r] = Output(r)
        /\ child[r] \in {"exited", "reaped"} => outLeft[r] = 0

(* The server holds the socket of an open connection, and no process one   *)
(* that has not been accepted; who has exited holds nothing.               *)
Sockets ==
    \A r \in Request :
        /\ <<"sock", r>> \in holds[Server] <=> conn[r] \in {"open", "started", "answered"}
        /\ conn[r] = "away" => \A q \in Process : <<"sock", r>> \notin holds[q]
        /\ ~Alive(r) => holds[r] = {}

(* The inductive invariant: the output is conserved, no input pipe comes   *)
(* to its end, a thread waits for its own child, and sockets are held by   *)
(* the server and by living children only (CGI.cpp, Poller.cpp:295-322).   *)
Inv == TypeOK /\ Conserved /\ NoInputEnds /\ WaitsForOwn /\ Stages /\ Sockets

(* A program that writes its output at once, into a pipe that can take it, *)
(* is answered with all of it, over any number of reads, though a short    *)
(* read is taken for the end (CGI.cpp:86); unless a read has failed.       *)
WholeIfAtOnce ==
    \A r \in Request :
        (answer[r] = "output" /\ m_status[r] = 200
            /\ run[r].atOnce /\ Output(r) =< PipeSize) => got[r] = Output(r)

OutputSizes == {OutputOf(b[r]) : b \in Runs, r \in Request}

(* To the loop these processes are the programs of Program, from the fork  *)
(* on: what happens before execve is a program that has not written yet.   *)
Loop == INSTANCE Program WITH
    Outputs <- OutputSizes,
    state <- [r \in Request |->
                 IF Alive(r) THEN "running" ELSE child[r]],
    left <- [r \in Request |-> IF child[r] = "none" THEN 0 ELSE outLeft[r]],
    piped <- outPipe

ImplementsProgram == Loop!Spec

-----------------------------------------------------------------------------
(* Under fairness of the threads and of the children.                      *)

\* A child that waits for ever: its body does not fit the pipe of which it
\* has the read end too, or the program wants more of it than there is.
Hangs(r) ==
    run[r].child # "fails" /\
        \/ run[r].body > PipeSize
        \/ /\ run[r].child = "runs"
           /\ \/ run[r].reads = "end"
              \/ run[r].reads = "declared" /\ run[r].declared > run[r].body

\* The output may fill the pipe after the last read, which blocks the thread.
Overflows(r) == Output(r) > PipeSize

\* The reads may all be full, or there is none.
FillsReads(r) == Output(r) % ReadSize = 0

(* Every request for a program is answered, but for these: fork failed,    *)
(* the child hangs, the output fills its reads, or the thread of its port  *)
(* waits for a program that is blocked on its pipe (CGI.cpp:86, 182, 211,  *)
(* 221, Poller.cpp:312).                                                   *)
EveryProgramAnswered ==
    \A r \in Request :
        conn[r] = "started" ~>
            \/ conn[r] \in {"answered", "closed"}
            \/ child[r] = "none" \/ Hangs(r) \/ FillsReads(r)
            \/ \E q \in Request : run[q].port = run[r].port /\ Overflows(q)

\* The client reads the end of its connection: nobody holds the socket.
Ended(r) == conn[r] = "closed" /\ \A q \in Process : <<"sock", r>> \notin holds[q]

(* Once answered, a client sees its connection closed, unless a child that *)
(* was forked meanwhile, on any port, hangs with a copy of the socket, or  *)
(* is blocked on its output (CGI.cpp:211).                                 *)
ConnectionsEnd ==
    \A r \in Request :
        conn[r] = "answered" ~>
            Ended(r) \/ \E q \in Request : Hangs(q) \/ Overflows(q)

-----------------------------------------------------------------------------
(* CGI.cpp:196-200: "If the request body has a size large than             *)
(* MAX_PIPE_SIZE, then a file will be used instead".                       *)
LargeBodyRead ==
    \A r \in Request : (child[r] = "body" /\ run[r].body > PipeSize) ~> child[r] = "read"
=============================================================================
