---------------------------- MODULE MCStageBudget ----------------------------
(***************************************************************************)
(* Three markets, two of one group.  The limits grow with the stage as     *)
(* those of STAGE_LIMITS do, with fewer slots and a total that the markets *)
(* together exceed, so that each of them binds with three markets.         *)
(***************************************************************************)
EXTENDS StageBudget, TLC

CONSTANTS m1, m2, m3, none

MCCandidate == {m1, m2, m3}
MCGroup     == {"a", "b"}
MCGroupOf   == m1 :> "a" @@ m2 :> "a" @@ m3 :> "b"
MCPriceOf   == m1 :> 20 @@ m2 :> 30 @@ m3 :> 30
MCWeightOf  == m1 :> 3 @@ m2 :> 1 @@ m3 :> 2

Limits(t, m, g, o, n, p) ==
  [total |-> t, market |-> m, group |-> g, order |-> o, markets |-> n, perGroup |-> p]

MCStageLimits ==
  0 :> Limits(0, 0, 0, 0, 0, 0) @@ 1 :> Limits(10, 5, 5, 30, 1, 1)
  @@ 2 :> Limits(25, 20, 20, 50, 2, 2) @@ 3 :> Limits(40, 20, 30, 60, 3, 3)

MCBalance     == {4000, 3500, 2600}
MCKellyBudget == {30, 5000}

=============================================================================
