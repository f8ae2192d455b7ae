------------------------------ MODULE CGIProofs ------------------------------
(***************************************************************************)
(* Proofs about CGI.tla, for any number of requests, ports and bytes.      *)
(***************************************************************************)
EXTENDS CGIProperties, TLAPS

USE ProcessAssumption, NoPortAssumption, SizeAssumption, RunsAssumption

(* The fields of a run, and the size of its output, have their types.      *)
LEMMA RunFields ==
    ASSUME run \in Runs, NEW r \in Request
    PROVE  /\ run[r].port \in Port /\ run[r].body \in Nat
           /\ run[r].output \in Nat /\ run[r].code \in Nat /\ run[r].declared \in Nat
           /\ run[r].child \in {"runs", "missing", "fails"}
           /\ Output(r) \in Nat
<1>1. run[r] \in Behaviour
  OBVIOUS
<1>2. /\ run[r].port \in Port /\ run[r].body \in Nat
      /\ run[r].output \in Nat /\ run[r].code \in Nat /\ run[r].declared \in Nat
      /\ run[r].child \in {"runs", "missing", "fails"}
  BY <1>1 DEF Behaviour
<1>3. Output(r) \in Nat
  BY <1>2 DEF Output, OutputOf, ErrorText
<1>4. QED
  BY <1>2, <1>3

(* No input ends if the server drops no write end of one, has that of each *)
(* child it starts, and no program comes past its input but by not reading *)
(* to the end.                                                             *)
PastInput(r) == child[r] \in {"write", "exited", "reaped"} /\ run[r].child = "runs"

LEMMA NoInputEndsKept ==
    ASSUME NoInputEnds, UNCHANGED run,
           \A q \in Request :
              /\ <<"in", q>> \in holds[Server] => <<"in", q>> \in holds'[Server]
              /\ Started(q)' => Started(q) \/ <<"in", q>> \in holds'[Server]
              /\ PastInput(q)' => PastInput(q) \/ run[q].reads # "end"
    PROVE  NoInputEnds'
  BY DEF NoInputEnds, PastInput

LEMMA AcceptInv ==
    ASSUME Inv, NEW r \in Request, Accept(r) PROVE Inv'
<1>1. TypeOK /\ run[r].port \in Port /\ Output(r) \in Nat
  BY RunFields DEF Inv, TypeOK
<1>2. TypeOK'
  BY <1>1 DEF TypeOK, Accept, serverVars, childVars, Process, Ends, Pipes
<1>3. NoInputEnds'
  <2>1. \A q \in Request :
           <<"in", q>> \in holds[Server] => <<"in", q>> \in holds'[Server]
    BY <1>1 DEF TypeOK, Accept, Process
  <2>2. \A q \in Request :
           Started(q)' => Started(q) \/ <<"in", q>> \in holds'[Server]
    BY <1>1 DEF TypeOK, Accept, Started, serverVars, Process, Pipes
  <2>3. \A q \in Request : PastInput(q)' => PastInput(q)
    BY <1>1 DEF TypeOK, Accept, PastInput, childVars
  <2>4. UNCHANGED run
    BY DEF Accept
  <2>5. QED
    BY <2>1, <2>2, <2>3, <2>4, NoInputEndsKept DEF Inv
<1>4. WaitsForOwn'
  BY <1>1 DEF Inv, TypeOK, WaitsForOwn, Accept, serverVars, childVars, Output,
       Free
<1>5. Stages'
  BY <1>1 DEF Inv, TypeOK, Stages, Accept, serverVars, childVars, Output
<1>6. Sockets'
  <2>1. Server \in Process /\ r \in Process /\ r # Server
    BY DEF Process
  <2>2. \A p \in Process, q \in Request :
           <<"sock", q>> \in holds'[p]
               <=> <<"sock", q>> \in holds[p] \/ (p = Server /\ q = r)
    BY <1>1, <2>1 DEF TypeOK, Accept
  <2>3. \A q \in Request : holds'[q] = holds[q] /\ (Alive(q)' <=> Alive(q))
    BY <1>1, <2>1 DEF TypeOK, Accept, Alive, childVars, Process
  <2>4. \A q \in Request : conn'[q] = IF q = r THEN "open" ELSE conn[q]
    BY <1>1 DEF TypeOK, Accept
  <2>5. conn[r] = "away" /\ Sockets
    BY DEF Accept, Inv
  <2>6. QED
    BY <2>1, <2>2, <2>3, <2>4, <2>5 DEF Sockets
<1>7. Conserved'
  BY DEF Inv, Conserved, Accept, serverVars, childVars, Output
<1>8. QED
  BY <1>2, <1>3, <1>4, <1>5, <1>6, <1>7 DEF Inv

LEMMA StartInv ==
    ASSUME Inv, NEW r \in Request, Start(r) PROVE Inv'
<1>1. TypeOK /\ run[r].port \in Port /\ Output(r) \in Nat
  BY RunFields DEF Inv, TypeOK
<1>2. TypeOK'
  BY <1>1 DEF TypeOK, Start, serverVars, childVars, Process, Ends, Pipes
<1>3. NoInputEnds'
  <2>1. \A q \in Request :
           <<"in", q>> \in holds[Server] => <<"in", q>> \in holds'[Server]
    BY <1>1 DEF TypeOK, Start, Process
  <2>2. \A q \in Request :
           Started(q)' => Started(q) \/ <<"in", q>> \in holds'[Server]
    BY <1>1 DEF TypeOK, Start, Started, serverVars, Process, Pipes
  <2>3. \A q \in Request : PastInput(q)' => PastInput(q)
    BY <1>1 DEF TypeOK, Start, PastInput, childVars
  <2>4. UNCHANGED run
    BY DEF Start
  <2>5. QED
    BY <2>1, <2>2, <2>3, <2>4, NoInputEndsKept DEF Inv
<1>4. WaitsForOwn'
  BY <1>1 DEF Inv, TypeOK, WaitsForOwn, Start, serverVars, childVars, Output,
       Free
<1>5. Stages'
  BY <1>1 DEF Inv, TypeOK, Stages, Start, serverVars, childVars, Output
<1>6. Sockets'
  <2>1. Sockets /\ Server \in Process /\ r \in Process /\ r # Server
    BY DEF Inv, Process
  <2>2. /\ holds'[Server] = holds[Server] \cup Pipes(r)
        /\ holds'[r] = holds[Server] \cup Pipes(r)
        /\ \A q \in Process \ {r, Server} : holds'[q] = holds[q]
    BY <1>1, <2>1 DEF TypeOK, Start
  <2>3. \A q \in Request : <<"sock", q>> \notin Pipes(r)
    BY DEF Pipes
  <2>4. ASSUME NEW q \in Request
        PROVE  /\ conn'[q] \in {"open", "started", "answered"}
                     <=> conn[q] \in {"open", "started", "answered"}
               /\ conn'[q] = "away" <=> conn[q] = "away"
               /\ Alive(q)' <=> Alive(q) \/ q = r
    BY <1>1 DEF TypeOK, Alive, Start
  <2>5. ASSUME NEW q \in Request
        PROVE  /\ <<"sock", q>> \in holds'[Server]
                     <=> conn'[q] \in {"open", "started", "answered"}
               /\ ~Alive(q)' => holds'[q] = {}
    BY <2>1, <2>2, <2>3, <2>4 DEF Sockets, Process
  <2>6. ASSUME NEW q \in Request, conn'[q] = "away", NEW p \in Process
        PROVE  <<"sock", q>> \notin holds'[p]
    BY <2>1, <2>2, <2>3, <2>4, <2>6 DEF Sockets
  <2>7. QED
    BY <2>5, <2>6 DEF Sockets
<1>7. Conserved'
  BY DEF Inv, Conserved, Start, serverVars, childVars, Output
<1>8. QED
  BY <1>2, <1>3, <1>4, <1>5, <1>6, <1>7 DEF Inv

LEMMA StartFailsInv ==
    ASSUME Inv, NEW r \in Request, StartFails(r) PROVE Inv'
<1>1. TypeOK /\ run[r].port \in Port /\ Output(r) \in Nat
  BY RunFields DEF Inv, TypeOK
<1>2. TypeOK'
  BY <1>1 DEF TypeOK, StartFails, serverVars, childVars, Process, Ends, Pipes
<1>3. NoInputEnds'
  <2>1. \A q \in Request :
           <<"in", q>> \in holds[Server] => <<"in", q>> \in holds'[Server]
    BY <1>1 DEF TypeOK, StartFails, Process
  <2>2. \A q \in Request :
           Started(q)' => Started(q) \/ <<"in", q>> \in holds'[Server]
    BY <1>1 DEF TypeOK, StartFails, Started, serverVars, Process, Pipes
  <2>3. \A q \in Request : PastInput(q)' => PastInput(q)
    BY <1>1 DEF TypeOK, StartFails, PastInput, childVars
  <2>4. UNCHANGED run
    BY DEF StartFails
  <2>5. QED
    BY <2>1, <2>2, <2>3, <2>4, NoInputEndsKept DEF Inv
<1>4. WaitsForOwn'
  BY <1>1 DEF Inv, TypeOK, WaitsForOwn, StartFails, serverVars, childVars,
       Output, Free
<1>5. Stages'
  BY <1>1 DEF Inv, TypeOK, Stages, StartFails, serverVars, childVars, Output
<1>6. Sockets'
  <2>1. Server \in Process /\ r \in Process /\ r # Server
    BY DEF Process
  <2>2. \A p \in Process, q \in Request :
           <<"sock", q>> \in holds'[p] <=> <<"sock", q>> \in holds[p]
    BY <1>1, <2>1 DEF TypeOK, StartFails, Pipes
  <2>3. \A q \in Request : holds'[q] = holds[q] /\ (Alive(q)' <=> Alive(q))
    BY <1>1, <2>1 DEF TypeOK, StartFails, Alive, childVars, Process
  <2>4. \A q \in Request : conn'[q] = IF q = r THEN "started" ELSE conn[q]
    BY <1>1 DEF TypeOK, StartFails
  <2>5. conn[r] = "open" /\ Sockets
    BY DEF StartFails, Inv
  <2>6. QED
    BY <2>1, <2>2, <2>3, <2>4, <2>5 DEF Sockets
<1>7. Conserved'
  BY DEF Inv, Conserved, StartFails, serverVars, childVars, Output
<1>8. QED
  BY <1>2, <1>3, <1>4, <1>5, <1>6, <1>7 DEF Inv

LEMMA ReadInv ==
    ASSUME Inv, NEW r \in Request, Read(r) PROVE Inv'
<1>1. TypeOK /\ run[r].port \in Port /\ Output(r) \in Nat
  BY RunFields DEF Inv, TypeOK
<1>2. TypeOK'
  BY <1>1 DEF TypeOK, Read, serverVars, childVars, Process, Ends, Pipes
<1>3. Conserved'
  BY <1>1 DEF Inv, TypeOK, Conserved, Read, serverVars, childVars, Output
<1>4. WaitsForOwn'
  <2>1. child[r] \notin {"none", "reaped"}
    BY <1>1 DEF Inv, TypeOK, Conserved, Stages, Read
  <2>2. QED
    BY <1>1, <2>1 DEF Inv, TypeOK, WaitsForOwn, Read, childVars, Free
<1>5. NoInputEnds' /\ Stages' /\ Sockets'
  BY DEF Inv, NoInputEnds, Stages, Sockets, Read, serverVars, childVars, Output, Started, Alive
<1>6. QED
  BY <1>2, <1>3, <1>4, <1>5 DEF Inv

LEMMA ReadFailsInv ==
    ASSUME Inv, NEW r \in Request, ReadFails(r) PROVE Inv'
<1>1. TypeOK /\ run[r].port \in Port /\ Output(r) \in Nat
  BY RunFields DEF Inv, TypeOK
<1>2. TypeOK'
  BY <1>1 DEF TypeOK, ReadFails, serverVars, childVars, Process, Ends, Pipes
<1>3. WaitsForOwn'
  <2>1. child[r] \notin {"none", "reaped"}
    BY <1>1 DEF Inv, TypeOK, Conserved, Stages, ReadFails
  <2>2. QED
    BY <1>1, <2>1 DEF Inv, TypeOK, WaitsForOwn, ReadFails, childVars, Free
<1>4. Conserved' /\ NoInputEnds' /\ Stages' /\ Sockets'
  BY DEF Inv, Conserved, NoInputEnds, Stages, Sockets, ReadFails, serverVars, childVars, Output, Started, Alive
<1>5. QED
  BY <1>2, <1>3, <1>4 DEF Inv

LEMMA CollectInv ==
    ASSUME Inv, NEW r \in Request, Collect(r) PROVE Inv'
<1>1. TypeOK /\ run[r].port \in Port /\ Output(r) \in Nat
  BY RunFields DEF Inv, TypeOK
<1>2. TypeOK'
  BY <1>1 DEF TypeOK, Collect, serverVars, childVars, Process, Ends, Pipes
<1>3. NoInputEnds'
  <2>1. holds' = holds /\ run' = run
    BY DEF Collect
  <2>2. NoInputEnds /\ Started(r)
    BY <1>1 DEF Inv, TypeOK, Stages, Started, Collect
  <2>3. \A q \in Request : Started(q)' => Started(q)
    BY <1>1, <2>2 DEF TypeOK, Started, Collect
  <2>4. \A q \in Request : child'[q] \in {"write", "exited", "reaped"}
                              => child[q] \in {"write", "exited", "reaped"}
    BY <1>1 DEF TypeOK, Collect
  <2>5. QED
    BY <2>1, <2>2, <2>3, <2>4 DEF NoInputEnds
<1>4. WaitsForOwn'
  BY <1>1 DEF Inv, TypeOK, WaitsForOwn, Collect, serverVars, childVars,
       Output, Free
<1>5. Stages'
  BY <1>1 DEF Inv, TypeOK, Stages, Collect, serverVars, childVars, Output
<1>6. Sockets'
  <2>1. holds' = holds /\ Sockets
    BY DEF Inv, Collect
  <2>2. conn[r] = "started" /\ ~Alive(r)
    BY <1>1 DEF Inv, TypeOK, WaitsForOwn, Alive, Collect
  <2>3. ASSUME NEW q \in Request
        PROVE  /\ conn'[q] \in {"open", "started", "answered"}
                     <=> conn[q] \in {"open", "started", "answered"}
               /\ conn'[q] = "away" <=> conn[q] = "away"
               /\ Alive(q)' = Alive(q)
    BY <1>1, <2>2 DEF TypeOK, Alive, Collect
  <2>4. QED
    BY <2>1, <2>3 DEF Sockets
<1>7. Conserved'
  BY DEF Inv, Conserved, Collect, serverVars, childVars, Output
<1>8. QED
  BY <1>2, <1>3, <1>4, <1>5, <1>6, <1>7 DEF Inv

LEMMA DropInv ==
    ASSUME Inv, NEW r \in Request, Drop(r) PROVE Inv'
<1>1. TypeOK /\ run[r].port \in Port /\ Output(r) \in Nat
  BY RunFields DEF Inv, TypeOK
<1>2. TypeOK'
  BY <1>1 DEF TypeOK, Drop, serverVars, childVars, Process, Ends, Pipes
<1>3. NoInputEnds'
  <2>1. \A q \in Request :
           <<"in", q>> \in holds[Server] => <<"in", q>> \in holds'[Server]
    BY <1>1 DEF TypeOK, Drop, Process
  <2>2. \A q \in Request :
           Started(q)' => Started(q) \/ <<"in", q>> \in holds'[Server]
    BY <1>1 DEF TypeOK, Drop, Started, serverVars, Process, Pipes
  <2>3. \A q \in Request : PastInput(q)' => PastInput(q)
    BY <1>1 DEF TypeOK, Drop, PastInput, childVars
  <2>4. UNCHANGED run
    BY DEF Drop
  <2>5. QED
    BY <2>1, <2>2, <2>3, <2>4, NoInputEndsKept DEF Inv
<1>4. WaitsForOwn'
  BY <1>1 DEF Inv, TypeOK, WaitsForOwn, Drop, serverVars, childVars, Output,
       Free
<1>5. Stages'
  BY <1>1 DEF Inv, TypeOK, Stages, Drop, serverVars, childVars, Output
<1>6. Sockets'
  <2>1. Server \in Process /\ r \in Process /\ r # Server
    BY DEF Process
  <2>2. \A p \in Process, q \in Request :
           <<"sock", q>> \in holds'[p]
               <=> <<"sock", q>> \in holds[p] /\ ~(p = Server /\ q = r)
    BY <1>1, <2>1 DEF TypeOK, Drop
  <2>3. \A q \in Request : holds'[q] = holds[q] /\ (Alive(q)' <=> Alive(q))
    BY <1>1, <2>1 DEF TypeOK, Drop, Alive, childVars, Process
  <2>4. \A q \in Request : conn'[q] = IF q = r THEN "closed" ELSE conn[q]
    BY <1>1 DEF TypeOK, Drop
  <2>5. conn[r] = "answered" /\ Sockets
    BY DEF Drop, Inv
  <2>6. QED
    BY <2>1, <2>2, <2>3, <2>4, <2>5 DEF Sockets
<1>7. Conserved'
  BY DEF Inv, Conserved, Drop, serverVars, childVars, Output
<1>8. QED
  BY <1>2, <1>3, <1>4, <1>5, <1>6, <1>7 DEF Inv

LEMMA ChildFailsInv ==
    ASSUME Inv, NEW r \in Request, ChildFails(r) PROVE Inv'
<1>1. TypeOK /\ run[r].port \in Port /\ Output(r) \in Nat
  BY RunFields DEF Inv, TypeOK
<1>2. TypeOK'
  BY <1>1 DEF TypeOK, ChildFails, serverVars, childVars, Process, Ends, Pipes
<1>3. NoInputEnds'
  <2>1. \A q \in Request :
           <<"in", q>> \in holds[Server] => <<"in", q>> \in holds'[Server]
    BY <1>1 DEF TypeOK, ChildFails, Process
  <2>2. \A q \in Request :
           Started(q)' => Started(q) \/ <<"in", q>> \in holds'[Server]
    BY <1>1 DEF TypeOK, ChildFails, Started, serverVars, Process, Pipes
  <2>3. \A q \in Request : PastInput(q)' => PastInput(q)
    BY <1>1 DEF TypeOK, ChildFails, PastInput, childVars
  <2>4. UNCHANGED run
    BY DEF ChildFails
  <2>5. QED
    BY <2>1, <2>2, <2>3, <2>4, NoInputEndsKept DEF Inv
<1>4. WaitsForOwn'
  BY <1>1 DEF Inv, TypeOK, WaitsForOwn, ChildFails, serverVars, childVars,
       Output, Free
<1>5. Stages'
  <2>1. outLeft[r] = 0
    <3>1. Output(r) = 0
      BY DEF ChildFails, Output, OutputOf
    <3>2. got[r] + outPipe[r] + outLeft[r] = 0
      BY <3>1 DEF Inv, Conserved
    <3>3. got[r] \in Nat /\ outPipe[r] \in Nat /\ outLeft[r] \in Nat
      BY <1>1 DEF TypeOK
    <3>4. QED
      BY <3>2, <3>3
  <2>2. QED
    BY <1>1, <2>1 DEF Inv, TypeOK, Stages, ChildFails, serverVars, Output
<1>6. Sockets'
  <2>1. Server \in Process /\ r \in Process /\ r # Server
    BY DEF Process
  <2>2. \A p \in Process : holds'[p] = IF p = r THEN {} ELSE holds[p]
    BY <1>1, <2>1 DEF TypeOK, ChildFails
  <2>3. \A q \in Request : ~Alive(q)' => ~Alive(q) \/ q = r
    BY <1>1 DEF TypeOK, ChildFails, Alive
  <2>4. Sockets /\ UNCHANGED conn
    BY DEF Inv, ChildFails, serverVars
  <2>5. QED
    BY <2>1, <2>2, <2>3, <2>4 DEF Sockets, Process
<1>7. Conserved'
  BY DEF Inv, Conserved, ChildFails, serverVars, childVars, Output
<1>8. QED
  BY <1>2, <1>3, <1>4, <1>5, <1>6, <1>7 DEF Inv

LEMMA WriteBodyInv ==
    ASSUME Inv, NEW r \in Request, WriteBody(r) PROVE Inv'
<1>1. TypeOK /\ run[r].port \in Port /\ Output(r) \in Nat
  BY RunFields DEF Inv, TypeOK
<1>2. TypeOK'
  BY <1>1 DEF TypeOK, WriteBody, serverVars, childVars, Process, Ends, Pipes
<1>3. Conserved' /\ NoInputEnds' /\ WaitsForOwn' /\ Stages' /\ Sockets'
  BY DEF Inv, Conserved, NoInputEnds, WaitsForOwn, Stages, Sockets, WriteBody, serverVars, childVars, Output, Started, Alive
<1>4. QED
  BY <1>2, <1>3 DEF Inv

LEMMA ExecInv ==
    ASSUME Inv, NEW r \in Request, Exec(r) PROVE Inv'
<1>1. TypeOK /\ run[r].port \in Port /\ Output(r) \in Nat
  BY RunFields DEF Inv, TypeOK
<1>2. TypeOK'
  BY <1>1 DEF TypeOK, Exec, serverVars, childVars, Process, Ends, Pipes
<1>3. NoInputEnds'
  <2>1. holds'[Server] = holds[Server]
    BY <1>1 DEF TypeOK, Exec, Process
  <2>2. conn' = conn /\ run' = run
    BY DEF Exec, serverVars
  <2>3. NoInputEnds
    BY DEF Inv
  <2>4. ASSUME NEW q \in Request, child'[q] \in {"write", "exited", "reaped"},
               run[q].child = "runs"
        PROVE  child[q] \in {"write", "exited", "reaped"}
    BY <1>1, <2>4 DEF TypeOK, Exec
  <2>5. QED
    BY <2>1, <2>2, <2>3, <2>4 DEF NoInputEnds, Started
<1>4. WaitsForOwn'
  BY <1>1 DEF Inv, TypeOK, WaitsForOwn, Exec, serverVars, childVars, Output,
       Free
<1>5. Stages'
  BY <1>1 DEF Inv, TypeOK, Stages, Exec, serverVars, childVars, Output
<1>6. Sockets'
  <2>1. /\ holds'[Server] = holds[Server] /\ Server \in Process
        /\ \A q \in Process : holds'[q] \subseteq holds[q]
    BY <1>1 DEF TypeOK, Exec, Process
  <2>2. conn' = conn /\ Sockets
    BY DEF Inv, Exec, serverVars
  <2>3. ASSUME NEW q \in Request, ~Alive(q)' PROVE holds'[q] = {}
    <3>1. CASE q = r
      <4>1. Alive(r)'
        BY <1>1 DEF TypeOK, Exec, Alive, Process
      <4>2. QED
        BY <2>3, <3>1, <4>1
    <3>2. CASE q # r
      <4>1. child'[q] = child[q] /\ holds'[q] = holds[q]
        BY <1>1, <3>2 DEF TypeOK, Exec, Process
      <4>2. QED
        BY <2>2, <2>3, <4>1 DEF Sockets, Alive
    <3>3. QED
      BY <3>1, <3>2
  <2>4. QED
    BY <2>1, <2>2, <2>3 DEF Sockets
<1>7. Conserved'
  BY DEF Inv, Conserved, Exec, serverVars, childVars, Output
<1>8. QED
  BY <1>2, <1>3, <1>4, <1>5, <1>6, <1>7 DEF Inv

LEMMA ReadInputInv ==
    ASSUME Inv, NEW r \in Request, ReadInput(r) PROVE Inv'
<1>1. TypeOK /\ run[r].port \in Port /\ Output(r) \in Nat
  BY RunFields DEF Inv, TypeOK
<1>2. TypeOK'
  BY <1>1 DEF TypeOK, ReadInput, serverVars, childVars, Process, Ends, Pipes
<1>3. Conserved' /\ NoInputEnds' /\ WaitsForOwn' /\ Stages' /\ Sockets'
  BY DEF Inv, Conserved, NoInputEnds, WaitsForOwn, Stages, Sockets, ReadInput, serverVars, childVars, Output, Started, Alive
<1>4. QED
  BY <1>2, <1>3 DEF Inv

LEMMA EndInputInv ==
    ASSUME Inv, NEW r \in Request, EndInput(r) PROVE Inv'
<1>1. TypeOK /\ run[r].port \in Port /\ Output(r) \in Nat
  BY RunFields DEF Inv, TypeOK
<1>2. TypeOK'
  BY <1>1 DEF TypeOK, EndInput, serverVars, childVars, Process, Ends, Pipes
<1>3. NoInputEnds'
  <2>1. Started(r) /\ <<"in", r>> \in holds[Server]
    BY <1>1 DEF Inv, TypeOK, Stages, NoInputEnds, Started, EndInput
  <2>2. run[r].reads # "end"
    BY <2>1 DEF EndInput, HasRead, AtEnd, Process
  <2>3. QED
    <3>1. \A q \in Request : PastInput(q)' => PastInput(q) \/ run[q].reads # "end"
      BY <1>1, <2>2 DEF TypeOK, EndInput, PastInput
    <3>2. UNCHANGED <<run, conn, holds>>
      BY DEF EndInput, serverVars
    <3>3. QED
      BY <3>1, <3>2, NoInputEndsKept DEF Inv, Started
<1>4. WaitsForOwn'
  BY <1>1 DEF Inv, TypeOK, WaitsForOwn, EndInput, serverVars, childVars,
       Output, Free
<1>5. Stages'
  BY <1>1 DEF Inv, TypeOK, Stages, EndInput, serverVars, childVars, Output
<1>6. Sockets'
  <2>1. \A q \in Request : Alive(q)' <=> Alive(q)
    BY <1>1 DEF TypeOK, EndInput, Alive
  <2>2. Sockets /\ UNCHANGED <<conn, holds>>
    BY DEF Inv, EndInput, serverVars
  <2>3. QED
    BY <2>1, <2>2 DEF Sockets
<1>7. Conserved'
  BY DEF Inv, Conserved, EndInput, serverVars, childVars, Output
<1>8. QED
  BY <1>2, <1>3, <1>4, <1>5, <1>6, <1>7 DEF Inv

LEMMA WriteOutputInv ==
    ASSUME Inv, NEW r \in Request, WriteOutput(r) PROVE Inv'
<1>1. TypeOK /\ run[r].port \in Port /\ Output(r) \in Nat
  BY RunFields DEF Inv, TypeOK
<1>2. TypeOK'
  BY <1>1 DEF TypeOK, WriteOutput, serverVars, childVars, Process, Ends, Pipes
<1>3. Conserved'
  BY <1>1 DEF Inv, TypeOK, Conserved, WriteOutput, serverVars, childVars, Output
<1>4. Stages'
  BY <1>1 DEF Inv, TypeOK, Stages, WriteOutput, serverVars, childVars, Output
<1>5. NoInputEnds' /\ WaitsForOwn' /\ Sockets'
  BY DEF Inv, NoInputEnds, WaitsForOwn, Sockets, WriteOutput, serverVars, childVars, Output, Started, Alive
<1>6. QED
  BY <1>2, <1>3, <1>4, <1>5 DEF Inv

LEMMA ExitInv ==
    ASSUME Inv, NEW r \in Request, Exit(r) PROVE Inv'
<1>1. TypeOK /\ run[r].port \in Port /\ Output(r) \in Nat
  BY RunFields DEF Inv, TypeOK
<1>2. TypeOK'
  BY <1>1 DEF TypeOK, Exit, serverVars, childVars, Process, Ends, Pipes
<1>3. NoInputEnds'
  <2>1. holds'[Server] = holds[Server]
    BY <1>1 DEF TypeOK, Exit, Process
  <2>2. conn' = conn /\ run' = run
    BY DEF Exit, serverVars
  <2>3. NoInputEnds
    BY DEF Inv
  <2>4. ASSUME NEW q \in Request, child'[q] \in {"write", "exited", "reaped"},
               run[q].child = "runs"
        PROVE  child[q] \in {"write", "exited", "reaped"}
    BY <1>1, <2>4 DEF TypeOK, Exit
  <2>5. QED
    BY <2>1, <2>2, <2>3, <2>4 DEF NoInputEnds, Started
<1>4. WaitsForOwn'
  BY <1>1 DEF Inv, TypeOK, WaitsForOwn, Exit, serverVars, childVars, Output,
       Free
<1>5. Stages'
  BY <1>1 DEF Inv, TypeOK, Stages, Exit, serverVars, childVars, Output
<1>6. Sockets'
  <2>1. /\ holds'[Server] = holds[Server] /\ Server \in Process
        /\ \A q \in Process : holds'[q] \subseteq holds[q]
    BY <1>1 DEF TypeOK, Exit, Process
  <2>2. conn' = conn /\ Sockets
    BY DEF Inv, Exit, serverVars
  <2>3. ASSUME NEW q \in Request, ~Alive(q)' PROVE holds'[q] = {}
    <3>1. CASE q = r
      <4>1. holds'[r] = {}
        BY <1>1 DEF TypeOK, Exit, Alive, Process
      <4>2. QED
        BY <2>3, <3>1, <4>1
    <3>2. CASE q # r
      <4>1. child'[q] = child[q] /\ holds'[q] = holds[q]
        BY <1>1, <3>2 DEF TypeOK, Exit, Process
      <4>2. QED
        BY <2>2, <2>3, <4>1 DEF Sockets, Alive
    <3>3. QED
      BY <3>1, <3>2
  <2>4. QED
    BY <2>1, <2>2, <2>3 DEF Sockets
<1>7. Conserved'
  BY DEF Inv, Conserved, Exit, serverVars, childVars, Output
<1>8. QED
  BY <1>2, <1>3, <1>4, <1>5, <1>6, <1>7 DEF Inv

(* Initially nothing is held, waited for or written.                       *)
LEMMA InitInv ==
    ASSUME Init PROVE Inv
<1>1. run \in Runs
  BY DEF Init
<1>2. \A r \in Request : Output(r) \in Nat /\ run[r].body \in Nat
  BY <1>1, RunFields
<1>3. TypeOK
  BY <1>1, <1>2 DEF Init, TypeOK
<1>4. Conserved
  <2>1. SUFFICES ASSUME NEW r \in Request
                 PROVE  got[r] + outPipe[r] + outLeft[r] = Output(r)
    BY DEF Conserved
  <2>2. got[r] = 0 /\ outPipe[r] = 0 /\ outLeft[r] = Output(r)
    BY DEF Init
  <2>3. QED
    BY <1>2, <2>2
<1>5. NoInputEnds /\ WaitsForOwn /\ Stages /\ Sockets
  <2>1. \A r \in Request : run[r].port \in Port /\ r # "free"
    BY <1>1, RunFields
  <2>2. QED
    BY <2>1 DEF Init, NoInputEnds, WaitsForOwn, Stages, Sockets, Started,
         Process
<1>6. QED
  BY <1>3, <1>4, <1>5 DEF Inv

LEMMA StutterInv ==
    ASSUME Inv, UNCHANGED vars PROVE Inv'
BY DEF Inv, TypeOK, Conserved, NoInputEnds, WaitsForOwn, Stages, Sockets, Started,
       Alive, Output, vars, serverVars, childVars

(* Nothing of an output is lost, an input pipe never comes to its end, a   *)
(* thread waits for its own child, and a socket is held by the server and  *)
(* living children only, in every state (CGI.cpp, Poller.cpp:295-322).     *)
THEOREM Invariance == Spec => []Inv
<1>1. Init => Inv
  BY InitInv
<1>2. Inv /\ [Next]_vars => Inv'
  <2>1. SUFFICES ASSUME Inv, Next PROVE Inv'
    BY StutterInv
  <2>2. PICK r \in Request : Handler(r) \/ Child(r)
    BY <2>1 DEF Next
  <2>3. CASE Handler(r)
    BY <2>1, <2>3, AcceptInv, StartInv, StartFailsInv, ReadInv, ReadFailsInv, CollectInv,
       DropInv DEF Handler
  <2>4. CASE Child(r)
    BY <2>1, <2>4, ChildFailsInv, WriteBodyInv, ExecInv, ReadInputInv, EndInputInv,
       WriteOutputInv, ExitInv DEF Child
  <2>5. QED
    BY <2>2, <2>3, <2>4
<1>3. QED
  BY <1>1, <1>2, PTL DEF Spec

-----------------------------------------------------------------------------
(* The refinement.  A step of a process or of the server is one of Program,*)
(* or changes nothing that Program speaks of.                              *)

Places == {"none", "body", "read", "write", "exited", "reaped"}
stateBar == [r \in Request |-> IF Alive(r) THEN "running" ELSE child[r]]
leftBar == [r \in Request |-> IF child[r] = "none" THEN 0 ELSE outLeft[r]]

LEMMA StartStep ==
    ASSUME Inv, NEW r \in Request, Start(r) PROVE Loop!Start(r)
<1>1. /\ run \in Runs /\ child[r] = "none" /\ outLeft[r] = Output(r)
      /\ child' = [child EXCEPT ![r] = "body"] /\ child \in [Request -> Places]
      /\ UNCHANGED <<outLeft, outPipe, got, answer>>
  BY DEF Inv, TypeOK, Stages, Start, Places
<1>2. stateBar[r] = "none" /\ stateBar' = [stateBar EXCEPT ![r] = "running"]
  BY <1>1 DEF stateBar, Alive
<1>3. leftBar' = [leftBar EXCEPT ![r] = OutputOf(run[r])]
  BY <1>1 DEF leftBar, Output
<1>4. OutputOf(run[r]) \in OutputSizes
  BY <1>1 DEF OutputSizes
<1>5. \E n \in OutputSizes : leftBar' = [leftBar EXCEPT ![r] = n]
  BY <1>3, <1>4
<1>6. QED
  BY <1>1, <1>2, <1>5 DEF Loop!Start, stateBar, leftBar

LEMMA WriteStep ==
    ASSUME Inv, NEW r \in Request, WriteOutput(r) PROVE Loop!Write(r)
<1>1. /\ child[r] = "write" /\ outLeft \in [Request -> Nat] /\ outPipe \in [Request -> Nat]
      /\ UNCHANGED <<child, got, answer>>
  BY DEF Inv, TypeOK, WriteOutput, serverVars
<1>2. stateBar[r] = "running" /\ stateBar' = stateBar /\ leftBar[r] = outLeft[r]
  BY <1>1 DEF stateBar, leftBar, Alive
<1>3. PICK n \in 1..outLeft[r] :
          /\ outPipe[r] + n =< PipeSize
          /\ outLeft' = [outLeft EXCEPT ![r] = @ - n]
          /\ outPipe' = [outPipe EXCEPT ![r] = @ + n]
  BY DEF WriteOutput
<1>4. leftBar' = [leftBar EXCEPT ![r] = leftBar[r] - n]
  BY <1>1, <1>2, <1>3 DEF leftBar
<1>5. outPipe' = [outPipe EXCEPT ![r] = outPipe[r] + n]
  BY <1>3
<1>6. QED
  BY <1>1, <1>2, <1>3, <1>4, <1>5 DEF Loop!Write, stateBar, leftBar

LEMMA ExitStep ==
    ASSUME Inv, NEW r \in Request, Exit(r) \/ ChildFails(r) PROVE Loop!Exit(r)
<1>1. /\ child[r] \in {"body", "write"} /\ child' = [child EXCEPT ![r] = "exited"]
      /\ child \in [Request -> Places] /\ UNCHANGED <<outLeft, outPipe, got, answer>>
  BY DEF Inv, TypeOK, Exit, ChildFails, serverVars, Places
<1>2. outLeft[r] = 0
  BY <1>1, ExitInv, ChildFailsInv DEF Inv, TypeOK, Stages
<1>3. stateBar[r] = "running" /\ stateBar' = [stateBar EXCEPT ![r] = "exited"]
  BY <1>1 DEF stateBar, Alive
<1>4. leftBar[r] = 0 /\ leftBar' = leftBar
  BY <1>1, <1>2 DEF leftBar
<1>5. QED
  BY <1>1, <1>3, <1>4 DEF Loop!Exit, stateBar, leftBar

LEMMA ReadStep ==
    ASSUME Inv, NEW r \in Request, Read(r) PROVE Loop!Read(r)
<1>1. answer[r] = "none" /\ outPipe[r] > 0 /\ UNCHANGED <<child, outLeft, answer>>
  BY DEF Inv, TypeOK, Stages, Read, childVars
<1>2. stateBar' = stateBar /\ leftBar' = leftBar
  BY <1>1 DEF stateBar, leftBar, Alive
<1>3. QED
  BY <1>1, <1>2 DEF Loop!Read, Read, stateBar, leftBar

LEMMA CollectStep ==
    ASSUME Inv, NEW r \in Request, Collect(r) PROVE Loop!Collect(r)
<1>1. /\ child[r] = "exited" /\ child' = [child EXCEPT ![r] = "reaped"]
      /\ child \in [Request -> Places] /\ UNCHANGED <<outLeft, outPipe, got>>
  BY DEF Inv, TypeOK, Collect, Places
<1>2. stateBar[r] = "exited" /\ stateBar' = [stateBar EXCEPT ![r] = "reaped"]
  BY <1>1 DEF stateBar, Alive
<1>3. leftBar' = leftBar
  BY <1>1 DEF leftBar
<1>4. \E what \in {"output", "error"} : answer' = [answer EXCEPT ![r] = what]
  BY DEF Collect
<1>5. QED
  BY <1>1, <1>2, <1>3, <1>4 DEF Loop!Collect, stateBar, leftBar

\* What the other actions of a child leave as it is.
LEMMA QuietStep ==
    ASSUME Inv, NEW r \in Request,
           \/ Accept(r) \/ StartFails(r) \/ ReadFails(r) \/ Drop(r)
           \/ WriteBody(r) \/ Exec(r) \/ ReadInput(r) \/ EndInput(r)
    PROVE  UNCHANGED <<stateBar, leftBar, outPipe, got, answer>>
<1>1. UNCHANGED <<outLeft, outPipe, got, answer>>
  BY DEF Accept, StartFails, ReadFails, Drop, WriteBody, Exec, ReadInput, EndInput,
         serverVars, childVars
<1>2. child' = child \/ (Alive(r) /\ child' \in {[child EXCEPT ![r] = "write"],
                                                  [child EXCEPT ![r] = "read"]})
  BY DEF Accept, StartFails, ReadFails, Drop, WriteBody, Exec, ReadInput, EndInput,
         serverVars, childVars, Alive
<1>3. child \in [Request -> Places]
  BY DEF Inv, TypeOK, Places
<1>4. stateBar' = stateBar /\ leftBar' = leftBar
  BY <1>1, <1>2, <1>3 DEF stateBar, leftBar, Alive
<1>5. QED
  BY <1>1, <1>4

(* Whatever a program reads, writes and exits with, and whatever fails on  *)
(* the way to it, the loop sees one of the programs that Poller is written *)
(* against (CGI.cpp:204-245, Poller.cpp:295-322).                          *)
THEOREM Implementation == Spec => ImplementsProgram
<1>1. ASSUME Init PROVE Loop!Init
  <2>1. /\ child = [r \in Request |-> "none"] /\ outPipe = [r \in Request |-> 0]
        /\ got = [r \in Request |-> 0] /\ answer = [r \in Request |-> "none"]
    BY <1>1 DEF Init
  <2>2. stateBar = [r \in Request |-> "none"] /\ leftBar = [r \in Request |-> 0]
    BY <2>1 DEF stateBar, leftBar, Alive
  <2>3. QED
    BY <2>1, <2>2 DEF Loop!Init, stateBar, leftBar
<1>2. Inv /\ [Next]_vars => [Loop!Next]_(Loop!vars)
  <2>1. SUFFICES ASSUME Inv, [Next]_vars
                 PROVE  Loop!Next \/ UNCHANGED <<stateBar, leftBar, outPipe, got, answer>>
    BY DEF Loop!vars, stateBar, leftBar
  <2>2. CASE UNCHANGED vars
    BY <2>2 DEF vars, serverVars, childVars, stateBar, leftBar, Alive
  <2>3. CASE Next
    <3>1. PICK r \in Request : Handler(r) \/ Child(r)
      BY <2>3 DEF Next
    <3>2. CASE \/ Accept(r) \/ StartFails(r) \/ ReadFails(r) \/ Drop(r)
               \/ WriteBody(r) \/ Exec(r) \/ ReadInput(r) \/ EndInput(r)
      BY <2>1, <3>2, QuietStep
    <3>3. CASE Start(r)
      BY <2>1, <3>3, StartStep DEF Loop!Next
    <3>4. CASE WriteOutput(r)
      BY <2>1, <3>4, WriteStep DEF Loop!Next
    <3>5. CASE Exit(r) \/ ChildFails(r)
      BY <2>1, <3>5, ExitStep DEF Loop!Next
    <3>6. CASE Read(r)
      BY <2>1, <3>6, ReadStep DEF Loop!Next
    <3>7. CASE Collect(r)
      BY <2>1, <3>7, CollectStep DEF Loop!Next
    <3>8. QED
      BY <3>1, <3>2, <3>3, <3>4, <3>5, <3>6, <3>7 DEF Handler, Child
  <2>4. QED
    BY <2>1, <2>2, <2>3
<1>3. QED
  BY <1>1, <1>2, Invariance, PTL DEF Spec, ImplementsProgram, Loop!Spec

-----------------------------------------------------------------------------
(* Output that is written at once.                                         *)

Small(r) == run[r].atOnce /\ Output(r) =< PipeSize

\* All or nothing is written, and a short read comes after all.
WrittenAtOnce ==
    \A r \in Request : Small(r) =>
        /\ outLeft[r] \in {0, Output(r)}
        /\ (thread[run[r].port] = r /\ m_status[r] = 200) => outLeft[r] = 0 /\ outPipe[r] = 0
        /\ (answer[r] = "output" /\ m_status[r] = 200) => outLeft[r] = 0 /\ outPipe[r] = 0

LEMMA WriteAtOnce ==
    ASSUME Inv, WrittenAtOnce, NEW r \in Request, WriteOutput(r) PROVE WrittenAtOnce'
<1>1. /\ run' = run /\ thread' = thread /\ m_status' = m_status /\ answer' = answer
      /\ \A q \in Request \ {r} : outLeft'[q] = outLeft[q] /\ outPipe'[q] = outPipe[q]
  BY DEF Inv, TypeOK, WriteOutput, serverVars
<1>2. ASSUME Small(r) PROVE outLeft[r] # 0 /\ outLeft'[r] = 0
  <2>1. PICK n \in 1..outLeft[r] :
            /\ outPipe[r] + n =< PipeSize
            /\ (run[r].child = "runs" /\ run[r].atOnce) =>
                  n = outLeft[r] \/ outPipe[r] + n = PipeSize
            /\ outLeft' = [outLeft EXCEPT ![r] = @ - n]
    BY DEF WriteOutput
  <2>2. outLeft \in [Request -> Nat] /\ outPipe[r] \in Nat /\ got[r] \in Nat /\ Output(r) \in Nat
    BY RunFields DEF Inv, TypeOK
  <2>3. outLeft[r] = Output(r) /\ outLeft[r] > 0 /\ Output(r) =< PipeSize
    BY <1>2, <2>1, <2>2 DEF WrittenAtOnce, Small
  <2>4. outPipe[r] = 0
    BY <2>2, <2>3 DEF Inv, Conserved
  <2>5. n = outLeft[r]
    <3>1. CASE run[r].child = "runs"
      BY <1>2, <2>1, <2>2, <2>3, <2>4, <3>1 DEF Small
    <3>2. CASE run[r].child # "runs"
      <4>1. Output(r) =< 1
        BY <3>2, RunFields DEF Output, OutputOf, ErrorText, Inv, TypeOK
      <4>2. QED
        BY <2>1, <2>2, <2>3, <4>1
    <3>3. QED
      BY <3>1, <3>2
  <2>6. QED
    BY <2>1, <2>2, <2>3, <2>5
<1>3. SUFFICES ASSUME NEW q \in Request, Small(q)
               PROVE  /\ outLeft'[q] \in {0, Output(q)}
                      /\ (thread[run[q].port] = q /\ m_status[q] = 200)
                            => outLeft'[q] = 0 /\ outPipe'[q] = 0
                      /\ (answer[q] = "output" /\ m_status[q] = 200)
                            => outLeft'[q] = 0 /\ outPipe'[q] = 0
  BY <1>1 DEF WrittenAtOnce, Small, Output
<1>4. CASE q = r
  BY <1>2, <1>3, <1>4 DEF WrittenAtOnce
<1>5. CASE q # r
  BY <1>1, <1>3, <1>5 DEF WrittenAtOnce
<1>6. QED
  BY <1>4, <1>5

LEMMA ReadAtOnce ==
    ASSUME Inv, WrittenAtOnce, NEW r \in Request, Read(r) PROVE WrittenAtOnce'
<1>1. /\ run' = run /\ m_status' = m_status /\ answer' = answer /\ outLeft' = outLeft
      /\ \A q \in Request \ {r} : outPipe'[q] = outPipe[q]
  BY DEF Inv, TypeOK, Read, childVars
<1>2. answer[r] = "none" /\ outPipe[r] > 0 /\ thread[run[r].port] = "free"
  BY DEF Inv, TypeOK, Stages, Read, Free
<1>3. \A q \in Request : run[q].port \in Port
  BY RunFields DEF Inv, TypeOK
<1>4. \A q \in Request \ {r} : thread'[run[q].port] = q => thread[run[q].port] = q
  BY <1>2, <1>3 DEF Inv, TypeOK, Read, Free
<1>5. thread'[run[r].port] = r => outPipe'[r] = 0
  BY <1>2, <1>3 DEF Inv, TypeOK, Read, Free
<1>6. Small(r) => outLeft[r] = 0
  <2>1. outLeft[r] \in Nat /\ outPipe[r] \in Nat /\ got[r] \in Nat
    BY DEF Inv, TypeOK
  <2>2. outLeft[r] # Output(r)
    BY <1>2, <2>1 DEF Inv, Conserved
  <2>3. QED
    BY <2>2 DEF WrittenAtOnce
<1>7. SUFFICES ASSUME NEW q \in Request, Small(q)
               PROVE  /\ outLeft[q] \in {0, Output(q)}
                      /\ (thread'[run[q].port] = q /\ m_status[q] = 200)
                            => outLeft[q] = 0 /\ outPipe'[q] = 0
                      /\ (answer[q] = "output" /\ m_status[q] = 200)
                            => outLeft[q] = 0 /\ outPipe'[q] = 0
  BY <1>1 DEF WrittenAtOnce, Small, Output
<1>8. CASE q = r
  BY <1>2, <1>5, <1>6, <1>7, <1>8
<1>9. CASE q # r
  BY <1>1, <1>4, <1>7, <1>9 DEF WrittenAtOnce
<1>10. QED
  BY <1>8, <1>9

LEMMA CollectAtOnce ==
    ASSUME Inv, WrittenAtOnce, NEW r \in Request, Collect(r) PROVE WrittenAtOnce'
<1>1. /\ run' = run /\ outLeft' = outLeft /\ outPipe' = outPipe
      /\ \A q \in Request \ {r} : answer'[q] = answer[q] /\ m_status'[q] = m_status[q]
      /\ thread[run[r].port] = r /\ m_status'[r] \in {m_status[r], 500}
  BY DEF Inv, TypeOK, Collect
<1>2. \A q \in Request : run[q].port \in Port /\ q # "free"
  BY RunFields DEF Inv, TypeOK
<1>3. \A q \in Request : thread'[run[q].port] = q => q # r /\ thread[run[q].port] = q
  BY <1>1, <1>2 DEF Inv, TypeOK, Collect
<1>4. SUFFICES ASSUME NEW q \in Request, Small(q)
               PROVE  /\ outLeft[q] \in {0, Output(q)}
                      /\ (thread'[run[q].port] = q /\ m_status'[q] = 200)
                            => outLeft[q] = 0 /\ outPipe[q] = 0
                      /\ (answer'[q] = "output" /\ m_status'[q] = 200)
                            => outLeft[q] = 0 /\ outPipe[q] = 0
  BY <1>1 DEF WrittenAtOnce, Small, Output
<1>5. CASE q = r
  BY <1>1, <1>3, <1>4, <1>5 DEF WrittenAtOnce
<1>6. CASE q # r
  BY <1>1, <1>3, <1>4, <1>6 DEF WrittenAtOnce
<1>7. QED
  BY <1>5, <1>6

LEMMA ReadFailsAtOnce ==
    ASSUME Inv, WrittenAtOnce, NEW r \in Request, ReadFails(r) PROVE WrittenAtOnce'
<1>1. /\ run' = run /\ outLeft' = outLeft /\ outPipe' = outPipe /\ answer' = answer
      /\ \A q \in Request \ {r} : m_status'[q] = m_status[q]
      /\ m_status'[r] = 500
  BY DEF Inv, TypeOK, ReadFails, childVars
<1>2. \A q \in Request : run[q].port \in Port
  BY RunFields DEF Inv, TypeOK
<1>3. \A q \in Request \ {r} : thread'[run[q].port] = q => thread[run[q].port] = q
  BY <1>2 DEF Inv, TypeOK, ReadFails, Free
<1>4. QED
  BY <1>1, <1>3 DEF WrittenAtOnce, Small, Output

(* Any output that is written at once, and fits the pipe, is answered      *)
(* whole, in however many reads it takes, if none of them fails            *)
(* (CGI.cpp:73-91, Poller.cpp:295-322).                                    *)
THEOREM AnsweredWhole == Spec => []WholeIfAtOnce
<1>1. Init => WrittenAtOnce
  BY InitInv DEF Init, WrittenAtOnce, Inv, WaitsForOwn
<1>2. Inv /\ WrittenAtOnce /\ [Next]_vars => WrittenAtOnce'
  <2>1. SUFFICES ASSUME Inv, WrittenAtOnce, [Next]_vars PROVE WrittenAtOnce'
    OBVIOUS
  <2>2. CASE UNCHANGED <<run, serverVars, outLeft, outPipe>>
    BY <2>1, <2>2 DEF WrittenAtOnce, Small, Output, serverVars
  <2>3. CASE UNCHANGED vars
    BY <2>2, <2>3 DEF vars, childVars
  <2>4. CASE Next
    <3>1. PICK r \in Request : Handler(r) \/ Child(r)
      BY <2>4 DEF Next
    <3>2. CASE Accept(r) \/ Start(r) \/ StartFails(r) \/ Drop(r)
      <4>1. UNCHANGED <<run, thread, m_status, answer, outLeft, outPipe>>
        BY <3>2 DEF Accept, Start, StartFails, Drop, childVars
      <4>2. QED
        BY <2>1, <4>1 DEF WrittenAtOnce, Small, Output
    <3>3. CASE ChildFails(r) \/ WriteBody(r) \/ Exec(r) \/ ReadInput(r) \/ EndInput(r)
               \/ Exit(r)
      BY <2>2, <3>3 DEF ChildFails, WriteBody, Exec, ReadInput, EndInput, Exit
    <3>4. QED
      BY <2>1, <3>1, <3>2, <3>3, WriteAtOnce, ReadAtOnce, CollectAtOnce, ReadFailsAtOnce
      DEF Handler, Child
  <2>5. QED
    BY <2>1, <2>3, <2>4
<1>3. Inv /\ WrittenAtOnce => WholeIfAtOnce
  <2>1. SUFFICES ASSUME Inv, WrittenAtOnce, NEW r \in Request, answer[r] = "output",
                        m_status[r] = 200, Small(r)
                 PROVE  got[r] = Output(r)
    BY DEF WholeIfAtOnce, Small
  <2>2. outLeft[r] = 0 /\ outPipe[r] = 0
    BY <2>1 DEF WrittenAtOnce
  <2>3. got[r] \in Nat /\ got[r] + outPipe[r] + outLeft[r] = Output(r)
    BY <2>1 DEF Inv, TypeOK, Conserved
  <2>4. QED
    BY <2>2, <2>3
<1>4. QED
  BY <1>1, <1>2, <1>3, Invariance, PTL DEF Spec
=============================================================================
