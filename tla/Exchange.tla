------------------------------ MODULE Exchange ------------------------------
(***************************************************************************)
(* What the server of one port promises each client, without descriptors,  *)
(* poll or processes: a client that has connected is answered at most      *)
(* once, with something made from its own request alone; then, or instead, *)
(* the server closes the connection and it is over.  Nobody is answered    *)
(* after resetting the connection, after it is over, or by a server that   *)
(* has stopped.                                                            *)
(***************************************************************************)
EXTENDS Naturals, Sequences

CONSTANTS Client, Body

VARIABLES phase,    \* "away", "open", "reset" or "gone", for each client
          answers,  \* what each client has been answered
          up        \* the server is running

vars == <<phase, answers, up>>

Answer == [from : SUBSET Client, what : Body]

Init ==
    /\ phase = [c \in Client |-> "away"]
    /\ answers = [c \in Client |-> <<>>]
    /\ up = TRUE

Arrive(c) ==
    /\ phase[c] = "away"
    /\ phase' = [phase EXCEPT ![c] = "open"]
    /\ UNCHANGED <<answers, up>>

Reset(c) ==
    /\ phase[c] = "open"
    /\ phase' = [phase EXCEPT ![c] = "reset"]
    /\ UNCHANGED <<answers, up>>

Reply(c) ==
    /\ phase[c] = "open" /\ answers[c] = <<>>
    /\ \E what \in Body :
          answers' = [answers EXCEPT ![c] = <<[from |-> {c}, what |-> what]>>]
    /\ UNCHANGED <<phase, up>>

Close(c) ==
    /\ phase[c] \in {"open", "reset"}
    /\ phase' = [phase EXCEPT ![c] = "gone"]
    /\ UNCHANGED <<answers, up>>

End == up' = FALSE /\ UNCHANGED <<phase, answers>>

Next == up /\ (End \/ \E c \in Client : Arrive(c) \/ Reset(c) \/ Reply(c) \/ Close(c))

Spec == Init /\ [][Next]_vars
=============================================================================
