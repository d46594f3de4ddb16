----------------------------- MODULE MCLiveSession -----------------------------
(***************************************************************************)
(* Two starts that trade at the same time, and two decisions: both may be  *)
(* between gate and broker, or one waits for its turn.                     *)
(***************************************************************************)
EXTENDS LiveSession, TLC

CONSTANTS d1, d2, t1, t2, none

MCDecision == {d1, d2}
MCTrader   == {t1, t2}

=============================================================================
