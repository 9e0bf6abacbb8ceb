----------------------------- MODULE MCReports -----------------------------
(***************************************************************************)
(* Reports in two scenes, so that TLC can exhaust both: rows are written   *)
(* over a calendar with a day of too many and one of too few hours and     *)
(* nobody asks for a report, or reports overlap while few rows change and  *)
(* the date changes once.  Every step is a step of Reports.                *)
(***************************************************************************)
EXTENDS Reports

CONSTANTS BusyChanges,   \* bound: changes of rows while reports overlap
          BusyTime       \* bound: the clock while reports overlap

VARIABLE scene           \* which of the two scenes this is

MCDayLength == <<2, 3, 2, 1, 2, 2, 2>>

MCInit == Init /\ scene \in {"calendar", "busy"}

MCNext ==
    /\ Next
    /\ scene = "calendar" => request' = request
    /\ scene = "busy" => changes' <= BusyChanges /\ now' <= BusyTime
    /\ UNCHANGED scene

MCSpec == MCInit /\ [][MCNext]_<<vars, scene>> /\ Fairness
============================================================================
