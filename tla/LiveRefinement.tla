---------------------------- MODULE LiveRefinement ----------------------------
(***************************************************************************)
(* LiveExecution implements OrderLife, and uses the exposure tracker as    *)
(* ExposureTrackerApi describes it.                                        *)
(***************************************************************************)
EXTENDS LiveExecution

Preparing == {"evaluate", "sink", "reserve", "send"}

\* Not decided yet, or decided in this cycle and not yet sent.
NotYetSent(d) == ledger[d].kind = "none" \/ (cur = d /\ pc \in Preparing)

LifeOf ==
  [d \in Decision |->
     IF MayStillFill(d) THEN "open" ELSE IF NotYetSent(d) THEN "new" ELSE "over"]

ReservedInFile == {d \in Decision : Present(disk, d)}

Life == INSTANCE OrderLife WITH life <- LifeOf, covered <- ReservedInFile

\* A decision is sent to the broker once at most, its reservation is in the
\* file before, and the file keeps it until the broker can no longer fill it:
\* through timeouts, late acceptances, failed writes, restarts and settlement.
ImplementsOrderLife == Life!Spec

\* The prices a poll reports: none, or no more than the limit of an order.
PolledPrice == UNION {NoPrice..LimitOf[d] : d \in Decision}

Tracker == INSTANCE ExposureTrackerApi WITH Witness <- PolledPrice

\* The brain, the firewall and the reconciler are callers that the tracker's
\* own model allows: no decision that was ever reserved is reserved again, and
\* every reported fill has the size and the price of a fill of some order, so
\* what holds of the tracker under every caller holds in live trading.
ImplementsTracker == Tracker!Spec

=============================================================================
