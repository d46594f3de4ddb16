--------------------------- MODULE MCLiveExecution ---------------------------
(***************************************************************************)
(* Two decisions of two contracts and one, at a limit of two cents.  With  *)
(* SameMarket they share market, side and position, so that the caps leave *)
(* no room to spare: the second order is admitted only while the exposure  *)
(* of the first is counted exactly.  Otherwise they are on two markets of  *)
(* one family, which only the correlated cap sees together.                *)
(***************************************************************************)
EXTENDS LiveRefinement

CONSTANTS d1, d2, none, SameMarket

MCDecision == {d1, d2}
MCMarketOf ==
  [d \in MCDecision |-> IF d = d1 \/ SameMarket THEN "KXSOL15M-A" ELSE "KXSOL15M-B"]
MCSideOf   == [d \in MCDecision |-> "yes"]
MCSizeOf   == [d \in MCDecision |-> IF d = d1 THEN 2 ELSE 1]
MCLimitOf  == [d \in MCDecision |-> 2]
MCFamilyOf == [m \in {"KXSOL15M-A", "KXSOL15M-B"} |-> "KXSOL15M"]

=============================================================================
