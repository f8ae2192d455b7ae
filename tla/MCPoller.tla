------------------------------ MODULE MCPoller ------------------------------
(* Instances of Poller for TLC.                                            *)
EXTENDS PollerInvariant, TLC

CONSTANTS c1, c2

Fd7 == 1..7
Fd11 == 1..11

\* The clients are interchangeable; used in the runs of safety properties only.
Symmetry == Permutations(Client)
=============================================================================
