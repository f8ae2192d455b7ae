--------------------------- MODULE MCConfiguration ---------------------------
(***************************************************************************)
(* Instances of Configuration for TLC.                                     *)
(***************************************************************************)
EXTENDS ConfigurationProperties

Arg(c, h, is, n) == [colons |-> c, host |-> h, isNumber |-> is, number |-> n]

(* *:82, a:82, a:81, 81, the name a, a port too large (alone and after a   *)
(* colon), the port 0 and two colons.                                      *)
EveryArg == {Arg(1, "*", TRUE, 82), Arg(1, "a", TRUE, 82), Arg(1, "a", TRUE, 81),
             Arg(0, "81", TRUE, 81), Arg(0, "a", FALSE, 0),
             Arg(0, "99999", TRUE, 99999), Arg(1, "a", TRUE, 99999),
             Arg(1, "*", TRUE, 0), Arg(2, "a", TRUE, 82)}
=============================================================================
