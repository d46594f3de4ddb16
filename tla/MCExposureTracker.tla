-------------------------- MODULE MCExposureTracker --------------------------
(***************************************************************************)
(* Two decisions on the same contract and side, so that their fills share  *)
(* one position; the prices 1 and 2 make averages that round and late      *)
(* reports that the delta checks refuse.                                   *)
(***************************************************************************)
EXTENDS ExposureTrackerApi

CONSTANTS d1, d2

MCDecision == {d1, d2}
MCMarketOf == [d \in MCDecision |-> "KXSOL15M-A"]
MCSideOf   == [d \in MCDecision |-> "yes"]
MCSizeOf   == [d \in MCDecision |-> IF d = d1 THEN 2 ELSE 1]
MCLimitOf  == [d \in MCDecision |-> 2]
MCWitness  == {NoPrice, 1, 2}

=============================================================================
