------------------------------ MODULE OrderLife ------------------------------
(***************************************************************************)
(* What live trading promises about one order, without saying how: it can  *)
(* cost money during one stretch of time at most, it is in the book before *)
(* that stretch begins, and it stays there until the stretch is over.      *)
(***************************************************************************)
CONSTANT Decision

VARIABLES
  life,      \* decision -> "new", "open" (the broker may fill it), "over"
  covered    \* the decisions a restarted process would count

lifeVars == <<life, covered>>

Over == {d \in Decision : life[d] = "over"}

Init ==
  /\ life    = [d \in Decision |-> "new"]
  /\ covered = {}

\* The book may change as it likes, but gives up only what is over.
Rebook ==
  /\ covered' \in SUBSET Decision
  /\ covered \ covered' \subseteq Over

Send(d) ==
  /\ life[d] = "new"
  /\ d \in covered
  /\ life' = [life EXCEPT ![d] = "open"]
  /\ UNCHANGED covered

\* Some orders end, sent or not; a settlement ends several at once.
End(ended) ==
  /\ ended \cap Over = {}
  /\ life' = [d \in Decision |-> IF d \in ended THEN "over" ELSE life[d]]
  /\ Rebook

Next == \/ \E d \in Decision : Send(d)
        \/ \E ended \in SUBSET Decision : End(ended)

Spec == Init /\ [][Next]_lifeVars

=============================================================================
