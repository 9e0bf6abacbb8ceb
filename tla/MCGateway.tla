----------------------------- MODULE MCGateway -----------------------------
(* GatewayPolicies with one budget for the rotations of parents, begun or   *)
(* written, and their other changes: many of the one or many of the other,  *)
(* or some of both.                                                         *)
EXTENDS GatewayPolicies

CONSTANT MaxTotal   \* bound: tokens generated or about to be, and rows changed

Rotating == Cardinality({r \in Rotators : rotator[r].pc = "update"})

MCNext == PoliciesNext /\ minted' + Rotating' + changes' <= MaxTotal

MCSpec ==
    /\ PoliciesInit /\ [][MCNext]_allVars
    /\ WF_allVars(PollPolicies \/ PollLimits \/ PollAnswer \/ (TokenStep /\ poll' # poll))
============================================================================
