-------------------------- MODULE SchedulesProofs --------------------------
(***************************************************************************)
(* Proofs about Schedules, for days and weeks of any length, any bedtimes, *)
(* rule and limit, and any number of interventions and faults: the lock    *)
(* follows the bedtime past midnight, a parent's lock is kept, the daily   *)
(* limit is enforced, and a night of the rule is blocked throughout.       *)
(***************************************************************************)
EXTENDS Schedules, TLAPS

----------------------------------------------------------------------------
(* The window of a bedtime *)

\* A number below twice the length of a day, taken round the day.
LEMMA RoundTheDay ==
    ASSUME NEW a \in Nat, a < 2 * Day
    PROVE  a % Day = IF a < Day THEN a ELSE a - Day
<1>0. Day \in Nat /\ Day > 0
  BY SchedulesAssumption
<1>1. CASE a < Day
  BY <1>0, <1>1
<1>2. CASE a >= Day
  BY <1>0, <1>2
<1> QED BY <1>0, <1>1, <1>2

\* isWithinBedtime, with its two cases for a bedtime within a day and one past
\* midnight, says exactly which minutes lie between start and end on the clock.
LEMMA BedtimeIsWindow ==
    ASSUME NEW n \in 0 .. Day - 1, NEW s \in 0 .. Day - 1, NEW e \in 0 .. Day - 1
    PROVE  n \in WindowMinutes(s, e) <=> IsWithinBedtime(n, <<s, e>>)
<1> DEFINE length == (e + Day - s) % Day
<1>0. Day \in Nat /\ Day > 0 /\ n \in Nat /\ s \in Nat /\ e \in Nat /\ n < Day /\ s < Day /\ e < Day
  BY SchedulesAssumption
<1>1. length = IF s <= e THEN e - s ELSE e + Day - s
  <2>1. e + Day - s \in Nat /\ e + Day - s < 2 * Day
    BY <1>0
  <2> QED BY <1>0, <2>1, RoundTheDay
<1>2. length \in Nat /\ length <= Day
  BY <1>0, <1>1
<1>. HIDE DEF length
<1>3. \A i \in 0 .. length - 1 : (s + i) % Day = IF s + i < Day THEN s + i ELSE s + i - Day
  <2> SUFFICES ASSUME NEW i \in 0 .. length - 1
               PROVE  (s + i) % Day = IF s + i < Day THEN s + i ELSE s + i - Day
    OBVIOUS
  <2>1. s + i \in Nat /\ s + i < 2 * Day
    BY <1>0, <1>2
  <2> DEFINE a == s + i
  <2>2. a % Day = IF a < Day THEN a ELSE a - Day
    <3>1. a \in Nat /\ a < 2 * Day
      BY <2>1
    <3> HIDE DEF a
    <3> QED BY <3>1, RoundTheDay
  <2> QED BY <1>0, <2>1, <2>2
<1>4. n \in WindowMinutes(s, e) <=> \E i \in 0 .. length - 1 : n = (s + i) % Day
  BY DEF WindowMinutes, length
<1>5. IsWithinBedtime(n, <<s, e>>)
         <=> IF s <= e THEN s <= n /\ n < e ELSE s <= n \/ n < e
  BY DEF IsWithinBedtime
<1>6. ASSUME NEW i \in 0 .. length - 1, n = (s + i) % Day PROVE IsWithinBedtime(n, <<s, e>>)
  <2>1. n = IF s + i < Day THEN s + i ELSE s + i - Day
    BY <1>3, <1>6
  <2>2. i \in Nat /\ i < length
    BY <1>2
  <2> QED BY <1>0, <1>1, <1>5, <2>1, <2>2
<1>7. ASSUME IsWithinBedtime(n, <<s, e>>) PROVE \E i \in 0 .. length - 1 : n = (s + i) % Day
  <2> DEFINE i == IF s <= n THEN n - s ELSE n + Day - s
  <2>1. i \in 0 .. length - 1
    BY <1>0, <1>1, <1>5, <1>7
  <2>2. (IF s + i < Day THEN s + i ELSE s + i - Day) = n
    BY <1>0
  <2>3. (s + i) % Day = n
    BY <1>3, <2>1, <2>2
  <2> QED BY <2>1, <2>3
<1> QED BY <1>4, <1>6, <1>7

----------------------------------------------------------------------------
(* Types *)

JobState == [pc : {"idle", "lock", "daily", "category"}, row : DeviceRow, locked : BOOLEAN]

\* Which reasons begin with 'Bedtime'.
LEMMA ReasonFacts ==
    /\ NoReason \in Reasons /\ <<"parent">> \in Reasons /\ <<"Bedtime">> \in Reasons
    /\ \A w \in Windows : <<"Bedtime", w>> \in Reasons /\ <<"Bedtime", w>> # NoReason
                          /\ StartsWithBedtime(<<"Bedtime", w>>)
    /\ <<"parent">> # NoReason /\ <<"Bedtime">> # NoReason
    /\ ~StartsWithBedtime(NoReason) /\ ~StartsWithBedtime(<<"parent">>)
  BY DEF Reasons, NoReason, StartsWithBedtime

\* The initial values of rows and runs.
LEMMA UnsetTyped == Unset \in DeviceRow /\ IdleJob \in JobState
<1>1. Unset \in DeviceRow
  BY ReasonFacts DEF Unset, DeviceRow
<1> QED BY <1>1 DEF IdleJob, JobState

\* The updates of a device row and of a run.
LEMMA RowUpdates ==
    ASSUME NEW d \in DeviceRow
    PROVE  /\ \A b \in BOOLEAN, reason \in Reasons :
                 [d EXCEPT !.locked = b, !.reason = reason] \in DeviceRow
           /\ \A a \in BOOLEAN, bed \in Windows \cup {<<>>}, l \in {0, Limit} :
                 [d EXCEPT !.auto = a, !.bed = bed, !.limit = l] \in DeviceRow
  BY DEF DeviceRow

LEMMA JobUpdates ==
    ASSUME NEW x \in JobState, NEW pc \in {"idle", "lock", "daily", "category"},
           NEW d \in DeviceRow
    PROVE  /\ [x EXCEPT !.pc = pc] \in JobState
           /\ [x EXCEPT !.pc = pc, !.row = d] \in JobState
           /\ [x EXCEPT !.locked = TRUE] \in JobState
  BY DEF JobState

\* Every step keeps the types and the agreement of the lock columns.
LEMMA StepTyped == SchedulesTyped /\ [Next]_vars => SchedulesTyped'
<1> SUFFICES ASSUME SchedulesTyped, [Next]_vars PROVE SchedulesTyped' OBVIOUS
<1>0. /\ clock \in [day : 0 .. Week - 1, now : 0 .. Day - 1] /\ device \in DeviceRow
      /\ device.locked <=> device.reason # NoReason
      /\ blocked \in BOOLEAN /\ gaming \in BOOLEAN /\ granted \in 0 .. MaxChanges
      /\ job \in JobState /\ rule \in {"idle", "block"} /\ fired \subseteq Crons
      /\ changes \in 0 .. MaxChanges /\ faults \in 0 .. MaxFaults /\ granted <= changes
      /\ calm \in BOOLEAN /\ tonight \in BOOLEAN /\ held \in BOOLEAN
      /\ MaxChanges \in Nat /\ MaxFaults \in Nat
  BY SchedulesAssumption DEF SchedulesTyped, TypeOK, JobState
<1>g. ASSUME clock' \in [day : 0 .. Week - 1, now : 0 .. Day - 1], device' \in DeviceRow,
             device'.locked <=> device'.reason # NoReason,
             blocked' \in BOOLEAN, gaming' \in BOOLEAN, granted' \in 0 .. MaxChanges,
             job' \in JobState, rule' \in {"idle", "block"}, fired' \subseteq Crons,
             changes' \in 0 .. MaxChanges, faults' \in 0 .. MaxFaults, granted' <= changes',
             calm' \in BOOLEAN, tonight' \in BOOLEAN, held' \in BOOLEAN
      PROVE  SchedulesTyped'
  <2>1. job'.pc \in {"idle", "lock", "daily", "category"}
    BY <1>g DEF JobState
  <2> QED BY <1>g, <2>1 DEF SchedulesTyped, TypeOK, JobState
<1>1. ASSUME UNCHANGED <<clock, device, blocked, gaming, granted, rule, changes, tonight, held>>,
             job' \in JobState, fired' \subseteq Crons, faults' \in 0 .. MaxFaults, calm' \in BOOLEAN
      PROVE  SchedulesTyped'
  BY <1>0, <1>1, <1>g
<1>2. CASE JobScan
  <2>1. job' \in JobState
    BY <1>0, <1>2, UnsetTyped, JobUpdates DEF JobScan
  <2> QED BY <1>0, <1>1, <1>2, <2>1 DEF JobScan, bounds, Crons
<1>3. CASE JobLock
  <2>1. job.row.bed \in Windows
    BY <1>0, <1>3 DEF JobLock, MustLock, InBed, JobState, DeviceRow
  <2>2. device' \in DeviceRow /\ job' \in JobState
    BY <1>0, <1>3, <2>1, ReasonFacts, RowUpdates, UnsetTyped, JobUpdates DEF JobLock
  <2>3. device'.locked /\ device'.reason = <<"Bedtime", job.row.bed>>
    BY <1>0, <1>3 DEF JobLock, DeviceRow
  <2>4. device'.locked <=> device'.reason # NoReason
    BY <2>1, <2>3, ReasonFacts
  <2> QED BY <1>0, <1>3, <1>g, <2>2, <2>4 DEF JobLock, bounds
<1>4. CASE JobUnlock
  <2>1. device' \in DeviceRow /\ job' \in JobState
    BY <1>0, <1>4, ReasonFacts, RowUpdates, UnsetTyped, JobUpdates DEF JobUnlock
  <2>2. ~device'.locked /\ device'.reason = NoReason
    BY <1>0, <1>4 DEF JobUnlock, DeviceRow
  <2> QED BY <1>0, <1>4, <1>g, <2>1, <2>2 DEF JobUnlock, bounds
<1>5. CASE JobKeep
  BY <1>0, <1>1, <1>5, UnsetTyped, JobUpdates DEF JobKeep, bounds
<1>6. CASE JobDaily
  BY <1>0, <1>1, <1>6, UnsetTyped, JobUpdates DEF JobDaily, bounds
<1>7. CASE JobCategory
  BY <1>0, <1>g, <1>7, UnsetTyped DEF JobCategory, bounds
<1>8. CASE JobFails
  <2>1. faults' \in 0 .. MaxFaults
    BY <1>0, <1>8 DEF JobFails
  <2> QED BY <1>0, <1>1, <1>8, <2>1, UnsetTyped DEF JobFails
<1>9. CASE RuleScan
  BY <1>0, <1>g, <1>9 DEF RuleScan, bounds, Crons
<1>10. CASE RuleBlock
  BY <1>0, <1>g, <1>10 DEF RuleBlock, bounds
<1>11. CASE RuleRefused
  <2>1. faults' \in 0 .. MaxFaults
    BY <1>0, <1>11 DEF RuleRefused
  <2> QED BY <1>0, <1>g, <1>11, <2>1 DEF RuleRefused
<1>12. ASSUME NEW cron \in Crons, Missed(cron) PROVE SchedulesTyped'
  <2>1. faults' \in 0 .. MaxFaults /\ tonight' \in BOOLEAN /\ fired' \subseteq Crons
    BY <1>0, <1>12 DEF Missed
  <2> QED BY <1>0, <1>g, <1>12, <2>1 DEF Missed
<1>13. ASSUME Intervene PROVE /\ changes' \in 0 .. MaxChanges /\ changes' = changes + 1 /\ calm' = FALSE
                              /\ UNCHANGED <<clock, job, rule, fired, faults>>
                              /\ granted <= changes' /\ granted + 1 <= changes'
                              /\ granted + 1 \in 0 .. MaxChanges
  BY <1>0, <1>13 DEF Intervene
<1>14. ASSUME NEW reason \in {<<"parent">>, <<"Bedtime">>}, ParentLock(reason)
       PROVE  SchedulesTyped'
  <2>1. device' \in DeviceRow
    BY <1>0, <1>14, ReasonFacts, RowUpdates DEF ParentLock
  <2>2. device'.locked /\ device'.reason = reason
    BY <1>0, <1>14 DEF ParentLock, DeviceRow
  <2>3. device'.locked <=> device'.reason # NoReason
    BY <2>2, ReasonFacts
  <2> QED BY <1>0, <1>g, <1>13, <1>14, <2>1, <2>3 DEF ParentLock
<1>15. CASE UnlockInternet
  <2>1. device' \in DeviceRow
    BY <1>0, <1>15, ReasonFacts, RowUpdates DEF UnlockInternet
  <2>2. ~device'.locked /\ device'.reason = NoReason
    BY <1>0, <1>15 DEF UnlockInternet, DeviceRow
  <2> QED BY <1>0, <1>g, <1>13, <1>15, <2>1, <2>2 DEF UnlockInternet
<1>16. CASE UpsertSchedule
  <2>1. device' \in DeviceRow
    <3>1. PICK auto \in BOOLEAN, bed \in Windows \cup {<<>>}, limit \in {0, Limit} :
             device' = [device EXCEPT !.auto = auto, !.bed = bed, !.limit = limit]
      BY <1>16 DEF UpsertSchedule
    <3> QED BY <1>0, <3>1, RowUpdates
  <2>2. device'.locked = device.locked /\ device'.reason = device.reason
    BY <1>0, <1>16 DEF UpsertSchedule, DeviceRow
  <2> QED BY <1>0, <1>g, <1>13, <1>16, <2>1, <2>2 DEF UpsertSchedule
<1>17. CASE Unblock
  BY <1>0, <1>g, <1>13, <1>17 DEF Unblock
<1>18. CASE UnblockGaming
  BY <1>0, <1>g, <1>13, <1>18 DEF UnblockGaming
<1>19. CASE StartSession
  BY <1>0, <1>g, <1>13, <1>19 DEF StartSession
<1>20. CASE Tick
  <2>0. Day \in Nat /\ Day > 0 /\ Week \in Nat /\ Week > 0
    BY SchedulesAssumption
  <2>1. (clock.now + 1) % Day \in 0 .. Day - 1 /\ (clock.day + 1) % Week \in 0 .. Week - 1
        /\ clock.day \in 0 .. Week - 1
    BY <1>0, <2>0
  <2>2. clock' \in [day : 0 .. Week - 1, now : 0 .. Day - 1]
    BY <1>20, <2>1 DEF Tick
  <2>3. granted' \in 0 .. MaxChanges /\ granted' <= changes
    BY <1>0, <1>20 DEF Tick
  <2>4. tonight' \in BOOLEAN
    <3>1. CASE clock'.now = RuleStart
      <4>1. tonight' = (clock'.day \in RuleDays)
        BY <1>20, <3>1 DEF Tick
      <4> QED BY <4>1
    <3>2. CASE clock'.now # RuleStart
      <4>1. tonight' = (tonight /\ clock'.now \in WindowMinutes(RuleStart, RuleEnd))
        BY <1>20, <3>2 DEF Tick
      <4> QED BY <4>1
    <3> QED BY <3>1, <3>2
  <2>5. held' \in BOOLEAN
    BY <1>20 DEF Tick
  <2> QED BY <1>0, <1>g, <1>20, <2>2, <2>3, <2>4, <2>5, UnsetTyped DEF Tick, bounds
<1>21. CASE UNCHANGED vars
  BY <1>0, <1>g, <1>21 DEF vars, bounds
<1> QED BY <1>2, <1>3, <1>4, <1>5, <1>6, <1>7, <1>8, <1>9, <1>10, <1>11, <1>12, <1>14, <1>15,
           <1>16, <1>17, <1>18, <1>19, <1>20, <1>21
        DEF Next, JobStep, RuleStep, Parent

----------------------------------------------------------------------------
(* The rest of the invariant, action by action *)

\* A step that touches neither the clock, the device, the run nor GAMING.
RunUntouched == UNCHANGED <<clock, device, job, gaming, granted, calm, held>>

LEMMA RunFrame ==
    HeldIsSeen /\ CalmRow /\ CalmBed /\ CalmLimit /\ RunUntouched
        => (HeldIsSeen /\ CalmRow /\ CalmBed /\ CalmLimit)'
  BY DEF RunUntouched, HeldIsSeen, CalmRow, CalmBed, CalmLimit, InBed

\* A step that touches nothing the rule looks at.
LEMMA NightFrame ==
    NightHeld /\ UNCHANGED <<clock, tonight, blocked, fired, rule>> => NightHeld'
  BY DEF NightHeld

\* The columns of a device row after each kind of update.
LEMMA RowColumns ==
    ASSUME NEW d \in DeviceRow, NEW b \in BOOLEAN, NEW reason
    PROVE  LET e == [d EXCEPT !.locked = b, !.reason = reason]
           IN /\ e.auto = d.auto /\ e.bed = d.bed /\ e.limit = d.limit
              /\ e.locked = b /\ e.reason = reason
  BY DEF DeviceRow

\* The fields of a run after each kind of update.
LEMMA JobFields ==
    ASSUME NEW x \in JobState, NEW pc
    PROVE  LET y == [x EXCEPT !.pc = pc]
           IN y.pc = pc /\ y.row = x.row /\ y.locked = x.locked
  BY DEF JobState

LEMMA IdleFields == IdleJob.pc = "idle" /\ IdleJob.locked = FALSE
  BY DEF IdleJob

\* A run begins: it works on the row as it is.
LEMMA ScanKeeps == SchedulesInv /\ JobScan => (HeldIsSeen /\ CalmRow /\ CalmBed /\ CalmLimit)'
<1> SUFFICES ASSUME SchedulesInv, JobScan PROVE (HeldIsSeen /\ CalmRow /\ CalmBed /\ CalmLimit)'
  OBVIOUS
<1>0. device \in DeviceRow
  BY DEF SchedulesInv, SchedulesTyped, TypeOK
<1>1. UNCHANGED <<clock, device, gaming, granted, held>>
  BY DEF JobScan
<1>2. HeldIsSeen
  BY DEF SchedulesInv
<1>3. CASE device.auto
  <2>1. job'.pc = "lock" /\ job'.row = device /\ job'.locked = FALSE
    BY <1>3 DEF JobScan, IdleJob
  <2> QED BY <1>1, <1>2, <2>1, <1>3 DEF HeldIsSeen, CalmRow, CalmBed, CalmLimit
<1>4. CASE ~device.auto
  <2>1. job'.pc = "idle"
    BY <1>4, IdleFields DEF JobScan
  <2> QED BY <1>1, <1>2, <2>1, <1>4 DEF HeldIsSeen, CalmRow, CalmBed, CalmLimit
<1> QED BY <1>3, <1>4

\* The run locks the device, in bedtime.
LEMMA LockKeeps == SchedulesInv /\ JobLock => (HeldIsSeen /\ CalmRow /\ CalmBed /\ CalmLimit)'
<1> SUFFICES ASSUME SchedulesInv, JobLock PROVE (HeldIsSeen /\ CalmRow /\ CalmBed /\ CalmLimit)'
  OBVIOUS
<1>0. device \in DeviceRow
  BY DEF SchedulesInv, SchedulesTyped, TypeOK
<1>1. UNCHANGED <<clock, gaming, granted, calm>> /\ held' = FALSE
  BY DEF JobLock
<1>2. device'.auto = device.auto /\ device'.bed = device.bed /\ device'.locked = TRUE
  BY <1>0, RowColumns DEF JobLock
<1>3. job'.pc = "idle" /\ job'.locked = TRUE
  BY DEF JobLock, IdleJob
<1>4. calm => InBed(device, clock.now)
  BY DEF SchedulesInv, CalmRow, JobLock, MustLock
<1>5. InBed(device', clock'.now) <=> InBed(device, clock.now)
  BY <1>1, <1>2 DEF InBed
<1> QED BY <1>1, <1>2, <1>3, <1>4, <1>5 DEF HeldIsSeen, CalmRow, CalmBed, CalmLimit

\* The run unlocks the device, outside of bedtime.
LEMMA UnlockKeeps == SchedulesInv /\ JobUnlock => (HeldIsSeen /\ CalmRow /\ CalmBed /\ CalmLimit)'
<1> SUFFICES ASSUME SchedulesInv, JobUnlock PROVE (HeldIsSeen /\ CalmRow /\ CalmBed /\ CalmLimit)'
  OBVIOUS
<1>0. device \in DeviceRow /\ job \in JobState
  BY DEF SchedulesInv, SchedulesTyped, TypeOK, JobState
<1>1. UNCHANGED <<clock, gaming, granted, calm>> /\ held' = FALSE
  BY DEF JobUnlock
<1>2. /\ device'.auto = device.auto /\ device'.bed = device.bed /\ device'.limit = device.limit
      /\ device'.locked = FALSE /\ device'.reason = NoReason
  BY <1>0, RowColumns DEF JobUnlock
<1>3. job'.pc = "daily" /\ job'.row = job.row /\ job'.locked = job.locked
  BY <1>0, JobFields DEF JobUnlock
<1>4. calm => ~InBed(device, clock.now)
  BY DEF SchedulesInv, CalmRow, JobUnlock, MustUnlock
<1>5. InBed(device', clock'.now) <=> InBed(device, clock.now)
  BY <1>1, <1>2 DEF InBed
<1>6. CalmRow'
  BY <1>1, <1>2, <1>3 DEF SchedulesInv, CalmRow, JobUnlock
<1> QED BY <1>1, <1>2, <1>3, <1>4, <1>5, <1>6, ReasonFacts DEF HeldIsSeen, CalmBed, CalmLimit

\* The run finds the lock as it should be.
LEMMA KeepKeeps == SchedulesInv /\ JobKeep => (HeldIsSeen /\ CalmRow /\ CalmBed /\ CalmLimit)'
<1> SUFFICES ASSUME SchedulesInv, JobKeep PROVE (HeldIsSeen /\ CalmRow /\ CalmBed /\ CalmLimit)'
  OBVIOUS
<1>0. job \in JobState /\ (device.locked <=> device.reason # NoReason)
  BY DEF SchedulesInv, SchedulesTyped, TypeOK, JobState
<1>1. UNCHANGED <<clock, device, gaming, granted, calm, held>>
  BY DEF JobKeep
<1>2. job'.pc = "daily" /\ job'.row = job.row /\ job'.locked = job.locked
  BY <1>0, JobFields DEF JobKeep
<1>3. calm => job.row = device
  BY DEF SchedulesInv, CalmRow, JobKeep
<1>4. /\ calm /\ InBed(device, clock.now) => device.locked
      /\ calm /\ StartsWithBedtime(device.reason) => InBed(device, clock.now)
  BY <1>0, <1>3, ReasonFacts DEF JobKeep, MustLock, MustUnlock
<1>5. HeldIsSeen' /\ CalmRow'
  BY <1>1, <1>2 DEF SchedulesInv, HeldIsSeen, CalmRow, JobKeep
<1> QED BY <1>1, <1>2, <1>4, <1>5 DEF CalmBed, CalmLimit

\* The run compares the sessions of the day with the limit.
LEMMA DailyKeeps == SchedulesInv /\ JobDaily => (HeldIsSeen /\ CalmRow /\ CalmBed /\ CalmLimit)'
<1> SUFFICES ASSUME SchedulesInv, JobDaily PROVE (HeldIsSeen /\ CalmRow /\ CalmBed /\ CalmLimit)'
  OBVIOUS
<1>0. job \in JobState
  BY DEF SchedulesInv, SchedulesTyped, JobState
<1>1. UNCHANGED <<clock, device, gaming, granted, calm, held>> /\ job.pc = "daily"
  BY DEF JobDaily
<1>2. CalmBed'
  <2>1. job'.pc # "lock"
    BY <1>0, JobFields, IdleFields DEF JobDaily
  <2> QED BY <1>1, <2>1 DEF SchedulesInv, CalmBed
<1>3. CASE job.row.limit # 0 /\ granted >= job.row.limit
  <2>1. job'.pc = "category" /\ job'.row = job.row /\ job'.locked = job.locked
    BY <1>0, <1>3, JobFields DEF JobDaily
  <2> QED BY <1>1, <1>2, <2>1 DEF SchedulesInv, HeldIsSeen, CalmRow, CalmLimit
<1>4. CASE ~(job.row.limit # 0 /\ granted >= job.row.limit)
  <2>1. job'.pc = "idle"
    BY <1>4, IdleFields DEF JobDaily
  <2>2. calm => job.row.limit = device.limit
    BY <1>1 DEF SchedulesInv, CalmRow
  <2> QED BY <1>1, <1>2, <1>4, <2>1, <2>2 DEF SchedulesInv, HeldIsSeen, CalmRow, CalmLimit
<1> QED BY <1>3, <1>4

\* The run blocks GAMING.
LEMMA CategoryKeeps ==
    SchedulesInv /\ JobCategory => (HeldIsSeen /\ CalmRow /\ CalmBed /\ CalmLimit)'
<1> SUFFICES ASSUME SchedulesInv, JobCategory
             PROVE  (HeldIsSeen /\ CalmRow /\ CalmBed /\ CalmLimit)'
  OBVIOUS
<1>1. UNCHANGED <<clock, device, granted, calm, held>> /\ gaming' = TRUE /\ job.pc = "category"
  BY DEF JobCategory
<1>2. job'.pc = "idle"
  BY IdleFields DEF JobCategory
<1> QED BY <1>1, <1>2 DEF SchedulesInv, HeldIsSeen, CalmRow, CalmBed, CalmLimit

\* A parent intervenes: the minute is no longer calm, and a lock of an earlier
\* minute ends only through lockInternet and unlockInternet.
LEMMA ParentKeeps == SchedulesInv /\ Parent => SchedulesInv'
<1> SUFFICES ASSUME SchedulesInv, Parent PROVE SchedulesInv'
  OBVIOUS
<1>0. device \in DeviceRow /\ HeldIsSeen /\ NightHeld
  BY DEF SchedulesInv, SchedulesTyped, TypeOK
<1>1. calm' = FALSE /\ UNCHANGED <<clock, job, rule, fired>>
  BY DEF Parent, ParentLock, UnlockInternet, UpsertSchedule, Unblock, UnblockGaming,
         StartSession, Intervene
<1>2. SchedulesTyped'
  BY StepTyped DEF SchedulesInv, Next
<1>3. CalmRow' /\ CalmBed' /\ CalmLimit'
  BY <1>1 DEF CalmRow, CalmBed, CalmLimit
<1>4. HeldIsSeen'
  <2>1. CASE held' = FALSE
    BY <2>1 DEF HeldIsSeen
  <2>2. CASE UpsertSchedule
    <3>1. device'.locked = device.locked /\ device'.reason = device.reason
      BY <1>0, <2>2 DEF UpsertSchedule, DeviceRow
    <3>2. held' = held
      BY <2>2 DEF UpsertSchedule
    <3> QED BY <1>0, <1>1, <3>1, <3>2 DEF HeldIsSeen
  <2>3. CASE Unblock \/ UnblockGaming \/ StartSession
    <3>1. UNCHANGED <<device, held>>
      BY <2>3 DEF Unblock, UnblockGaming, StartSession
    <3> QED BY <1>0, <1>1, <3>1 DEF HeldIsSeen
  <2> QED BY <2>1, <2>2, <2>3 DEF Parent, ParentLock, UnlockInternet
<1>5. NightHeld'
  <2>1. CASE Unblock
    BY <2>1 DEF Unblock, NightHeld
  <2>2. CASE ~Unblock
    <3>1. UNCHANGED <<blocked, tonight>>
      BY <2>2 DEF Parent, ParentLock, UnlockInternet, UpsertSchedule, UnblockGaming, StartSession
    <3> QED BY <1>0, <1>1, <3>1, NightFrame
  <2> QED BY <2>1, <2>2
<1> QED BY <1>2, <1>3, <1>4, <1>5 DEF SchedulesInv

\* A minute ends: both crons have run, so a night that was about to be blocked
\* is blocked.
LEMMA TickKeeps == SchedulesInv /\ Tick => SchedulesInv'
<1> SUFFICES ASSUME SchedulesInv, Tick PROVE SchedulesInv'
  OBVIOUS
<1>1. SchedulesTyped'
  BY StepTyped DEF SchedulesInv, Next
<1>2. /\ calm' = FALSE /\ fired' = {} /\ UNCHANGED <<device, blocked>> /\ job'.pc = "idle"
      /\ held' = (device.locked /\ device.reason = <<"parent">>)
  BY IdleFields DEF Tick
<1>3. CalmRow' /\ CalmBed' /\ CalmLimit'
  BY <1>2 DEF CalmRow, CalmBed, CalmLimit
<1>4. HeldIsSeen'
  BY <1>2 DEF HeldIsSeen
<1>5. tonight => blocked
  BY DEF SchedulesInv, NightHeld, Tick, Crons
<1>6. NightHeld'
  <2>1. CASE clock'.now = RuleStart
    <3>1. tonight' = (clock'.day \in RuleDays)
      BY <2>1 DEF Tick
    <3> QED BY <1>2, <2>1, <3>1 DEF NightHeld
  <2>2. CASE clock'.now # RuleStart
    <3>1. tonight' = (tonight /\ clock'.now \in WindowMinutes(RuleStart, RuleEnd))
      BY <2>2 DEF Tick
    <3>2. tonight' => tonight
      BY <3>1
    <3> QED BY <1>2, <1>5, <3>2 DEF NightHeld
  <2> QED BY <2>1, <2>2
<1> QED BY <1>1, <1>3, <1>4, <1>6 DEF SchedulesInv

\* Every step keeps the invariant.
LEMMA StepKeeps == SchedulesInv /\ [Next]_vars => SchedulesInv'
<1> SUFFICES ASSUME SchedulesInv, [Next]_vars PROVE SchedulesInv'
  OBVIOUS
<1>1. SchedulesTyped'
  BY StepTyped DEF SchedulesInv
<1>2. HeldIsSeen /\ CalmRow /\ CalmBed /\ CalmLimit /\ NightHeld
  BY DEF SchedulesInv
<1>3. CASE JobStep
  <2>1. (HeldIsSeen /\ CalmRow /\ CalmBed /\ CalmLimit)'
    BY <1>3, ScanKeeps, LockKeeps, UnlockKeeps, KeepKeeps, DailyKeeps, CategoryKeeps DEF JobStep
  <2>2. UNCHANGED <<clock, tonight, blocked, rule>> /\ fired' \in {fired, fired \cup {"schedules"}}
    BY <1>3 DEF JobStep, JobScan, JobLock, JobUnlock, JobKeep, JobDaily, JobCategory
  <2>3. NightHeld'
    BY <1>2, <2>2 DEF NightHeld
  <2> QED BY <1>1, <2>1, <2>3 DEF SchedulesInv
<1>4. CASE JobFails
  <2>1. calm' = FALSE /\ job'.pc = "idle" /\ UNCHANGED <<clock, device, held>>
    BY <1>4, IdleFields DEF JobFails
  <2>2. NightHeld'
    BY <1>2, <1>4, NightFrame DEF JobFails
  <2> QED BY <1>1, <1>2, <2>1, <2>2 DEF SchedulesInv, HeldIsSeen, CalmRow, CalmBed, CalmLimit
<1>5. CASE RuleScan
  <2>1. RunUntouched
    BY <1>5 DEF RuleScan, RunUntouched
  <2>2. NightHeld'
    BY <1>2, <1>5 DEF RuleScan, NightHeld
  <2> QED BY <1>1, <1>2, <2>1, <2>2, RunFrame DEF SchedulesInv
<1>6. CASE RuleBlock
  <2>1. RunUntouched
    BY <1>6 DEF RuleBlock, RunUntouched
  <2>2. NightHeld'
    BY <1>6 DEF RuleBlock, NightHeld
  <2> QED BY <1>1, <1>2, <2>1, <2>2, RunFrame DEF SchedulesInv
<1>7. CASE RuleRefused
  <2>1. RunUntouched
    BY <1>7 DEF RuleRefused, RunUntouched
  <2>2. NightHeld'
    BY <1>7 DEF RuleRefused, NightHeld
  <2> QED BY <1>1, <1>2, <2>1, <2>2, RunFrame DEF SchedulesInv
<1>8. ASSUME NEW cron \in Crons, Missed(cron) PROVE SchedulesInv'
  <2>1. RunUntouched
    BY <1>8 DEF Missed, RunUntouched
  <2>2. NightHeld'
    <3>1. tonight' = (tonight /\ cron # "rules")
      BY <1>8 DEF Missed
    <3>2. CASE cron = "rules"
      BY <3>1, <3>2 DEF NightHeld
    <3>3. CASE cron = "schedules"
      <4>1. tonight' => tonight
        BY <3>1
      <4>2. UNCHANGED <<clock, blocked, rule>> /\ ("rules" \in fired' <=> "rules" \in fired)
        BY <1>8, <3>3 DEF Missed
      <4> QED BY <1>2, <4>1, <4>2 DEF NightHeld
    <3> QED BY <1>8, <3>2, <3>3 DEF Crons
  <2> QED BY <1>1, <1>2, <2>1, <2>2, RunFrame DEF SchedulesInv
<1>9. CASE UNCHANGED vars
  BY <1>1, <1>2, <1>9, RunFrame, NightFrame DEF SchedulesInv, RunUntouched, vars
<1> QED BY <1>3, <1>4, <1>5, <1>6, <1>7, <1>8, <1>9, ParentKeeps, TickKeeps DEF Next, RuleStep

----------------------------------------------------------------------------
(* Theorems *)

\* Whatever the crons and the parents do, a run that nothing disturbs works on
\* the row as it is, a parent's lock that was there when the minute began has
\* been seen, and a night of the rule is blocked or about to be.
THEOREM SchedulesInvariance == Spec => []SchedulesInv
<1>1. Init => SchedulesInv
  <2> SUFFICES ASSUME Init PROVE SchedulesInv
    OBVIOUS
  <2>1. PICK b \in Windows : device = [Unset EXCEPT !.auto = TRUE, !.bed = b]
    BY DEF Init
  <2>2. /\ device \in DeviceRow /\ device.locked = FALSE /\ device.reason = NoReason
    BY <2>1, ReasonFacts DEF Unset, DeviceRow
  <2>3. job \in JobState /\ job.pc = "idle"
    BY UnsetTyped, IdleFields DEF Init
  <2>4. /\ Day \in Nat /\ Day > 0 /\ Week \in Nat /\ Week > 0
        /\ MaxChanges \in Nat /\ MaxFaults \in Nat
    BY SchedulesAssumption
  <2>5. /\ clock = [day |-> 0, now |-> 0] /\ blocked = FALSE /\ gaming = FALSE /\ granted = 0
        /\ rule = "idle" /\ fired = {} /\ changes = 0 /\ faults = 0
        /\ calm = FALSE /\ tonight = FALSE /\ held = FALSE
    BY DEF Init
  <2>6. clock \in [day : 0 .. Week - 1, now : 0 .. Day - 1]
    <3>1. 0 \in 0 .. Week - 1 /\ 0 \in 0 .. Day - 1
      BY <2>4
    <3> QED BY <2>5, <3>1
  <2>7. /\ granted \in 0 .. MaxChanges /\ changes \in 0 .. MaxChanges /\ faults \in 0 .. MaxFaults
        /\ granted <= changes
    BY <2>4, <2>5
  <2>8. /\ blocked \in BOOLEAN /\ gaming \in BOOLEAN /\ calm \in BOOLEAN /\ tonight \in BOOLEAN
        /\ held \in BOOLEAN /\ rule \in {"idle", "block"} /\ fired \subseteq Crons
    BY <2>5, Zenon
  <2>9. device.locked <=> device.reason # NoReason
    BY <2>2, Zenon
  <2>10. TypeOK
    BY <2>2, <2>3, <2>6, <2>7, <2>8, <2>9, Zenon DEF TypeOK
  <2>11. SchedulesTyped
    BY <2>3, <2>7, <2>8, <2>10, Zenon DEF SchedulesTyped, JobState
  <2> QED BY <2>5, <2>11 DEF SchedulesInv, HeldIsSeen, CalmRow, CalmBed, CalmLimit, NightHeld
<1> QED BY <1>1, StepKeeps, PTL DEF Spec

\* Only Tick moves the clock.
LEMMA OnlyTickEnds == [Next]_vars /\ MinuteEnds => Tick
  BY DEF Next, vars, MinuteEnds, JobStep, JobScan, JobLock, JobUnlock, JobKeep, JobDaily,
         JobCategory, JobFails, RuleStep, RuleScan, RuleBlock, RuleRefused, Missed, Parent,
         ParentLock, UnlockInternet, UpsertSchedule, Unblock, UnblockGaming, StartSession, Intervene

\* enforceDeviceSchedules follows the schedule, past midnight too: for any length
\* of the day and any start and end, when an undisturbed minute ends a device
\* with auto-block is locked in its bedtime, and locked for a bedtime only then.
THEOREM BedtimeIsFollowed == Spec => BedtimeFollowed
<1> DEFINE inBed == /\ device.bed # <<>>
                    /\ clock.now \in WindowMinutes(device.bed[1], device.bed[2])
<1>1. ASSUME SchedulesInv, [Next]_vars, MinuteEnds, calm, device.auto
      PROVE  (inBed => device.locked) /\ (StartsWithBedtime(device.reason) => inBed)
  <2>1. job.pc = "idle"
    BY <1>1, OnlyTickEnds DEF Tick
  <2>2. /\ InBed(device, clock.now) => device.locked
        /\ StartsWithBedtime(device.reason) => InBed(device, clock.now)
    BY <1>1, <2>1 DEF SchedulesInv, CalmBed
  <2>3. clock.now \in 0 .. Day - 1 /\ device.bed \in Windows \cup {<<>>}
    BY <1>1 DEF SchedulesInv, SchedulesTyped, TypeOK, DeviceRow
  <2>4. InBed(device, clock.now) <=> inBed
    <3>1. CASE device.bed = <<>>
      BY <3>1 DEF InBed
    <3>2. CASE device.bed # <<>>
      <4>1. PICK s \in BedTimes, e \in BedTimes : device.bed = <<s, e>>
        BY <2>3, <3>2 DEF Windows
      <4>2. s \in 0 .. Day - 1 /\ e \in 0 .. Day - 1
        BY SchedulesAssumption
      <4>3. clock.now \in WindowMinutes(s, e) <=> IsWithinBedtime(clock.now, device.bed)
        BY <2>3, <4>1, <4>2, BedtimeIsWindow
      <4>4. device.bed[1] = s /\ device.bed[2] = e
        BY <4>1
      <4> QED BY <3>2, <4>3, <4>4 DEF InBed
    <3> QED BY <3>1, <3>2
  <2> QED BY <2>2, <2>4
<1>2. SchedulesInv /\ [Next]_vars =>
        [MinuteEnds /\ calm /\ device.auto =>
          (inBed => device.locked) /\ (StartsWithBedtime(device.reason) => inBed)]_vars
  BY <1>1
<1> QED BY <1>2, SchedulesInvariance, PTL DEF Spec, BedtimeFollowed

\* enforceDeviceSchedules never takes off, nor makes its own, a parent's lock
\* that was in place when the minute began.
THEOREM ParentsLockIsKept == Spec => ManualLockKept
<1>1. ASSUME SchedulesInv, [Next]_vars, held, device'.reason # <<"parent">>
      PROVE  changes' # changes
  <2>0. changes \in Nat
    BY <1>1, SchedulesAssumption DEF SchedulesInv, SchedulesTyped, TypeOK
  <2>1. /\ device.reason = <<"parent">>
        /\ job.pc # "idle" => job.row.locked /\ job.row.reason = <<"parent">>
    BY <1>1 DEF SchedulesInv, HeldIsSeen
  <2>2. ~JobLock /\ ~JobUnlock
    BY <2>1, ReasonFacts DEF JobLock, JobUnlock, MustLock, MustUnlock
  <2>3. device' # device
    BY <1>1, <2>1
  <2>4. Intervene
    BY <1>1, <2>2, <2>3
       DEF Next, vars, JobStep, JobScan, JobKeep, JobDaily, JobCategory, JobFails, RuleStep,
           RuleScan, RuleBlock, RuleRefused, Missed, Tick, Parent, ParentLock, UnlockInternet,
           UpsertSchedule, Unblock, UnblockGaming, StartSession
  <2> QED BY <2>0, <2>4 DEF Intervene
<1> QED BY <1>1, SchedulesInvariance, PTL DEF Spec, ManualLockKept

\* When an undisturbed minute ends, GAMING is blocked if the sessions of the day
\* reach the limit, unless the run has just locked the device.
THEOREM LimitIsFollowed == Spec => LimitFollowed
<1>1. ASSUME SchedulesInv, [Next]_vars, MinuteEnds, calm, device.auto, device.limit # 0,
             granted >= device.limit, ~job.locked
      PROVE  gaming
  BY <1>1, OnlyTickEnds DEF SchedulesInv, CalmLimit, Tick
<1> QED BY <1>1, SchedulesInvariance, PTL DEF Spec, LimitFollowed

\* A device stays blocked during all of the window of a BEDTIME rule, though the
\* cron acts in its first minute only.
THEOREM NightIsBlocked == Spec => NightBlocked
<1>1. ASSUME SchedulesInv, [Next]_vars, MinuteEnds, tonight PROVE blocked
  BY <1>1, OnlyTickEnds DEF SchedulesInv, NightHeld, Tick, Crons
<1> QED BY <1>1, SchedulesInvariance, PTL DEF Spec, NightBlocked
============================================================================
