----------------------------- MODULE LoadOutcome -----------------------------
(***************************************************************************)
(* What the engine promises of patch loads, queues and threads aside: a    *)
(* load, once requested, is pending until it becomes the sounding one or   *)
(* is gone; the sounding load is only ever replaced by a later one; and a  *)
(* load that is gone never comes back.                                     *)
(***************************************************************************)
EXTENDS Naturals

CONSTANT MaxGen  \* bound of the model: load requests considered

VARIABLES
  requests,  \* how many loads were requested
  outcome    \* what became of each of them

Gens == 0 .. MaxGen

OutcomeInit ==
  /\ requests = 0
  /\ outcome = [g \in Gens |-> IF g = 0 THEN "sounding" ELSE "unrequested"]

Request ==
  /\ requests < MaxGen
  /\ requests' = requests + 1
  /\ outcome' = [outcome EXCEPT ![requests + 1] = "pending"]

\* A load fails, or a later one makes it obsolete, or a full queue loses it.
Drop(g) ==
  /\ outcome[g] = "pending"
  /\ outcome' = [outcome EXCEPT ![g] = "gone"]
  /\ UNCHANGED requests

\* Load g replaces the sounding load h, an earlier one.
Replace(h, g) ==
  /\ h < g
  /\ outcome[h] = "sounding"
  /\ outcome[g] = "pending"
  /\ outcome' = [outcome EXCEPT ![h] = "gone", ![g] = "sounding"]
  /\ UNCHANGED requests

OutcomeNext ==
  \/ Request
  \/ \E g \in Gens : Drop(g)
  \/ \E h, g \in Gens : Replace(h, g)

OutcomeSpec == OutcomeInit /\ [][OutcomeNext]_<<requests, outcome>>

=============================================================================
