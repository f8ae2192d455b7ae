------------------------------- MODULE Program -------------------------------
(***************************************************************************)
(* What the event loop takes a CGI program for: it writes its output to a  *)
(* pipe, blocking while that is full, and exits; the loop takes at most    *)
(* ReadSize bytes at a time, and answers once the program has exited.      *)
(* Poller.tla is written against such programs; CGI.tla implements them.   *)
(***************************************************************************)
EXTENDS Integers

CONSTANTS Request, Outputs, ReadSize, PipeSize

VARIABLES state, left, piped, got, answer

vars == <<state, left, piped, got, answer>>

Init ==
    /\ state = [r \in Request |-> "none"]
    /\ left = [r \in Request |-> 0]
    /\ piped = [r \in Request |-> 0]
    /\ got = [r \in Request |-> 0]
    /\ answer = [r \in Request |-> "none"]

Start(r) ==
    /\ state[r] = "none"
    /\ state' = [state EXCEPT ![r] = "running"]
    /\ \E n \in Outputs : left' = [left EXCEPT ![r] = n]
    /\ UNCHANGED <<piped, got, answer>>

Write(r) ==
    /\ state[r] = "running"
    /\ \E n \in 1..left[r] :
          /\ piped[r] + n =< PipeSize
          /\ left' = [left EXCEPT ![r] = left[r] - n]
          /\ piped' = [piped EXCEPT ![r] = piped[r] + n]
    /\ UNCHANGED <<state, got, answer>>

Exit(r) ==
    /\ state[r] = "running" /\ left[r] = 0
    /\ state' = [state EXCEPT ![r] = "exited"]
    /\ UNCHANGED <<left, piped, got, answer>>

Read(r) ==
    /\ answer[r] = "none" /\ piped[r] > 0
    /\ LET n == IF piped[r] < ReadSize THEN piped[r] ELSE ReadSize
       IN  /\ piped' = [piped EXCEPT ![r] = piped[r] - n]
           /\ got' = [got EXCEPT ![r] = got[r] + n]
    /\ UNCHANGED <<state, left, answer>>

Collect(r) ==
    /\ state[r] = "exited"
    /\ state' = [state EXCEPT ![r] = "reaped"]
    /\ \E what \in {"output", "error"} : answer' = [answer EXCEPT ![r] = what]
    /\ UNCHANGED <<left, piped, got>>

Next == \E r \in Request : Start(r) \/ Write(r) \/ Exit(r) \/ Read(r) \/ Collect(r)

Spec == Init /\ [][Next]_vars
=============================================================================
