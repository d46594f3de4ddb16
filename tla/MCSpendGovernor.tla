--------------------------- MODULE MCSpendGovernor ---------------------------
(***************************************************************************)
(* Three calls whose estimates fill the cap in two ways and exceed it      *)
(* together, and two days.  OneProcess: the panel of one brain; otherwise  *)
(* the first call belongs to a second process.                             *)
(***************************************************************************)
EXTENDS SpendGovernor

CONSTANTS c1, c2, c3, none, brain, other, OneProcess

MCProc     == IF OneProcess THEN {brain} ELSE {brain, other}
MCCall     == {c1, c2, c3}
MCProcOf   == [c \in MCCall |-> IF c = c1 /\ ~OneProcess THEN other ELSE brain]
MCEstimate == [c \in MCCall |-> IF c = c1 THEN 1 ELSE 2]

=============================================================================
