----------------------------- MODULE MCRiskState -----------------------------
(***************************************************************************)
(* The executor and the dashboard, a losing settlement that reaches the    *)
(* cap and a winning one, and two days.  Nothing tells the two processes   *)
(* apart, so they are symmetric; only safety is checked.                   *)
(***************************************************************************)
EXTENDS RiskState

LOCAL INSTANCE TLC

CONSTANTS s1, s2, executor, dashboard

MCProc       == {executor, dashboard}
MCSettlement == {s1, s2}
MCLossOf     == [s \in MCSettlement |-> IF s = s1 THEN 2 ELSE 0]
MCSymmetry   == Permutations(MCProc)

=============================================================================
