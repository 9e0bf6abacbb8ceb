---------------------------- MODULE MCSessions ----------------------------
(***************************************************************************)
(* Sessions in two scenes, so that TLC can exhaust both: the requests of   *)
(* all parents overlap with the cron and nothing fails, or the steps of    *)
(* the cron fail and blocks are lifted while a single request is under way *)
(* at a time.  At most one request takes longer than its minute.  Every    *)
(* step is a step of Sessions.                                             *)
(***************************************************************************)
EXTENDS Sessions

CONSTANT First    \* the caller that is alone in the second scene

VARIABLE scene    \* which of the two scenes this is

MCInit == Init /\ scene \in {"overlap", "faults"}

MCNext ==
    /\ \/ \E c \in Callers : /\ scene = "faults" => c = First
                             /\ CallerBegins(c) \/ CallerEnds(c)
       \/ \E j \in Jobs : JobStep(j)
       \/ scene = "faults" /\ ((\E j \in Jobs : JobFails(j)) \/ UnblockGaming \/ UnblockDevice)
       \/ Tick /\ Cardinality({c \in Callers : caller[c].pc # "idle"}) <= 1
    /\ scene = "overlap" => blocked' = blocked
    /\ UNCHANGED scene

MCSpec == MCInit /\ [][MCNext]_<<vars, scene>> /\ Fairness
============================================================================
