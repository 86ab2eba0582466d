-------------------------- MODULE MCExploitSession --------------------------
(* MSF sessions have two steps; ADCS sessions two to four, three here.       *)
EXTENDS ExploitSession, TLC

CONSTANTS c, r1, r2, r3, r4

Lengths == ("msf" :> 2) @@ ("adcs" :> 3)
=============================================================================
