-------------------------------- MODULE MCCGI --------------------------------
(* Instances of CGI for TLC.                                               *)
EXTENDS CGIProperties

CONSTANTS r1, r2

Short == [port |-> 1, body |-> 1, declared |-> 1, reads |-> "declared", output |-> 3,
          atOnce |-> FALSE, code |-> 0, child |-> "runs"]
AtOnce == [Short EXCEPT !.body = 2, !.reads = "none", !.atOnce = TRUE]
Even == [Short EXCEPT !.output = 2]
Blocking == [Short EXCEPT !.output = 5]
ReadsToEnd == [Short EXCEPT !.reads = "end"]
Failing == [AtOnce EXCEPT !.output = 1, !.code = EXIT_FAILURE]
Killed == [Short EXCEPT !.output = 1, !.code = 2]

Programs == {Short, AtOnce, Even, Blocking, ReadsToEnd, Failing, Killed,
             [Short EXCEPT !.declared = 2], [Short EXCEPT !.body = 4],
             [AtOnce EXCEPT !.child = "missing"], [AtOnce EXCEPT !.child = "fails"]}

\* Every program next to one that ends well, of the same port or another.
MixedRuns ==
    {[r \in Request |-> IF r = r1 THEN x ELSE [Short EXCEPT !.port = p]] :
        x \in Programs, p \in Port}

LargeRuns == {[r \in Request |-> [Short EXCEPT !.body = 4]]}
=============================================================================
