----------------------------- MODULE Schedules -----------------------------
(***************************************************************************)
(* The two bedtime mechanisms of SchedulerService for one device:          *)
(* enforceDeviceSchedules, which locks and unlocks the internet by the     *)
(* device's own schedule and blocks GAMING at its daily limit, and         *)
(* checkRulesAndSchedules, which blocks the device at the start of a       *)
(* BEDTIME rule of the child.  Both are crons that fire once a minute; the *)
(* first works on a device row read at the start of its run.  Parents lock,*)
(* unlock and change the schedule at any moment.                           *)
(*                                                                         *)
(* The clock runs round a day of `Day` minutes and a week of `Week` days.  *)
(* A bedtime is a pair <<start, end>> of minutes, <<>> when not set.  The  *)
(* device has a child; blockingMode follows internetLocked and is left out.*)
(***************************************************************************)
EXTENDS Naturals

CONSTANTS Day, Week,
          BedTimes,             \* the minutes a schedule may name
          RuleStart, RuleEnd,   \* startTime and endTime of the BEDTIME rule
          RuleDays,             \* its daysOfWeek
          Limit,                \* dailyLimitMinutes of a schedule that has one
          MaxChanges,           \* bound: interventions of the parents
          MaxFaults             \* bound: failing, refused or missed runs

ASSUME SchedulesAssumption ==
    /\ Day \in Nat \ {0} /\ Week \in Nat \ {0} /\ Limit \in Nat \ {0}
    /\ BedTimes \subseteq 0 .. Day - 1
    /\ {RuleStart, RuleEnd} \subseteq 0 .. Day - 1 /\ RuleDays \subseteq 0 .. Week - 1
    /\ MaxChanges \in Nat /\ MaxFaults \in Nat

VARIABLES
    clock,     \* day of the week and minute of the day
    device,    \* auto, bed, limit (0: none), locked, reason
    blocked,   \* device.status = BLOCKED
    gaming,    \* the child's GAMING category block is active
    granted,   \* minutes of the sessions started today
    job,       \* the run of enforceDeviceSchedules
    rule,      \* the run of checkRulesAndSchedules
    fired,     \* the crons that have fired in this minute
    changes, faults,
    calm,      \* history: nothing has interfered with this minute's run
    tonight,   \* history: in the rule's window, and nothing has interfered
    held       \* history: a parent's lock from an earlier minute is in place

bounds == <<changes, faults>>
vars == <<clock, device, blocked, gaming, granted, job, rule, fired, bounds,
          calm, tonight, held>>

Windows == BedTimes \X BedTimes
Crons == {"schedules", "rules"}

\* internetLockedReason: null, a parent's text, a parent's text that begins
\* with 'Bedtime', or `Bedtime start-end`.
Reasons == {<<"null">>, <<"parent">>, <<"Bedtime">>} \cup ({"Bedtime"} \X Windows)
NoReason == <<"null">>
StartsWithBedtime(reason) == reason[1] = "Bedtime"

Unset == [auto |-> FALSE, bed |-> <<>>, limit |-> 0, locked |-> FALSE, reason |-> NoReason]
IdleJob == [pc |-> "idle", row |-> Unset, locked |-> FALSE]

Init ==
    /\ clock = [day |-> 0, now |-> 0]
    /\ device \in {[Unset EXCEPT !.auto = TRUE, !.bed = b] : b \in Windows}
    /\ blocked = FALSE /\ gaming = FALSE /\ granted = 0
    /\ job = IdleJob /\ rule = "idle" /\ fired = {}
    /\ changes = 0 /\ faults = 0
    /\ calm = FALSE /\ tonight = FALSE /\ held = FALSE

----------------------------------------------------------------------------
(* isWithinBedtime *)

\* Mutant: a bedtime that goes past midnight is not understood.
IsWithinSameDay(n, bed) == bed[1] <= n /\ n < bed[2]

IsWithinBedtime(n, bed) ==
    IF bed[1] <= bed[2] THEN bed[1] <= n /\ n < bed[2] ELSE bed[1] <= n \/ n < bed[2]

InBed(row, n) == row.bed # <<>> /\ IsWithinBedtime(n, row.bed)

\* What the row that was read says is to be done.
MustLock(row, n) == InBed(row, n) /\ ~row.locked

\* Mutant: only the lock of the schedule as it is now is taken off.
MustUnlockSameWindow(row, n) ==
    ~InBed(row, n) /\ row.locked /\ row.reason = <<"Bedtime", row.bed>>

\* Mutant: any lock is taken off outside of bedtime.
MustUnlockAny(row, n) == ~InBed(row, n) /\ row.locked

MustUnlock(row, n) == ~InBed(row, n) /\ row.locked /\ StartsWithBedtime(row.reason)

----------------------------------------------------------------------------
(* enforceDeviceSchedules *)

\* device.findMany where autoBlockEnabled
JobScan ==
    /\ "schedules" \notin fired
    /\ fired' = fired \cup {"schedules"}
    /\ job' = IF device.auto THEN [IdleJob EXCEPT !.pc = "lock", !.row = device] ELSE IdleJob
    /\ calm' = TRUE
    /\ UNCHANGED <<clock, device, blocked, gaming, granted, rule, bounds, tonight, held>>

\* Bedtime, and the row was not locked: lock, and go on with the next device.
JobLock ==
    /\ job.pc = "lock" /\ MustLock(job.row, clock.now)
    /\ device' = [device EXCEPT !.locked = TRUE, !.reason = <<"Bedtime", job.row.bed>>]
    /\ held' = FALSE
    /\ job' = [IdleJob EXCEPT !.locked = TRUE]
    /\ UNCHANGED <<clock, blocked, gaming, granted, rule, fired, bounds, calm, tonight>>

\* Bedtime is over, and the row was locked for a bedtime: unlock.
JobUnlock ==
    /\ job.pc = "lock" /\ MustUnlock(job.row, clock.now)
    /\ device' = [device EXCEPT !.locked = FALSE, !.reason = NoReason]
    /\ held' = FALSE
    /\ job' = [job EXCEPT !.pc = "daily"]
    /\ UNCHANGED <<clock, blocked, gaming, granted, rule, fired, bounds, calm, tonight>>

JobKeep ==
    /\ job.pc = "lock"
    /\ ~MustLock(job.row, clock.now) /\ ~MustUnlock(job.row, clock.now)
    /\ job' = [job EXCEPT !.pc = "daily"]
    /\ UNCHANGED <<clock, device, blocked, gaming, granted, rule, fired, bounds,
                   calm, tonight, held>>

\* Mutant: the limit itself is still allowed.
JobDailyOver ==
    /\ job.pc = "daily"
    /\ job' = IF job.row.limit # 0 /\ granted > job.row.limit
              THEN [job EXCEPT !.pc = "category"] ELSE IdleJob
    /\ UNCHANGED <<clock, device, blocked, gaming, granted, rule, fired, bounds,
                   calm, tonight, held>>

\* session.aggregate of today's durations against the limit.
JobDaily ==
    /\ job.pc = "daily"
    /\ job' = IF job.row.limit # 0 /\ granted >= job.row.limit
              THEN [job EXCEPT !.pc = "category"] ELSE IdleJob
    /\ UNCHANGED <<clock, device, blocked, gaming, granted, rule, fired, bounds,
                   calm, tonight, held>>

\* categoryBlock.upsert and the audit entry.
JobCategory ==
    /\ job.pc = "category"
    /\ gaming' = TRUE
    /\ job' = IdleJob
    /\ UNCHANGED <<clock, device, blocked, granted, rule, fired, bounds, calm, tonight, held>>

\* A statement throws: the catch of the loop.
JobFails ==
    /\ job.pc # "idle" /\ faults < MaxFaults
    /\ faults' = faults + 1
    /\ job' = IdleJob
    /\ calm' = FALSE
    /\ UNCHANGED <<clock, device, blocked, gaming, granted, rule, fired, changes, tonight, held>>

----------------------------------------------------------------------------
(* checkRulesAndSchedules *)

\* Mutant: counts the days of the week from one.
RuleScanFromOne ==
    /\ "rules" \notin fired
    /\ fired' = fired \cup {"rules"}
    /\ rule' = IF clock.now = RuleStart /\ clock.day + 1 \in RuleDays THEN "block" ELSE "idle"
    /\ UNCHANGED <<clock, device, blocked, gaming, granted, job, bounds, calm, tonight, held>>

\* rule.findMany where startTime is this minute; daysOfWeek has today.
RuleScan ==
    /\ "rules" \notin fired
    /\ fired' = fired \cup {"rules"}
    /\ rule' = IF clock.now = RuleStart /\ clock.day \in RuleDays THEN "block" ELSE "idle"
    /\ UNCHANGED <<clock, device, blocked, gaming, granted, job, bounds, calm, tonight, held>>

\* enforcementService.blockDevice
RuleBlock ==
    /\ rule = "block"
    /\ blocked' = TRUE
    /\ rule' = "idle"
    /\ UNCHANGED <<clock, device, gaming, granted, job, fired, bounds, calm, tonight, held>>

\* The adapter refuses, or blockDevice throws before or after its update.
RuleRefused ==
    /\ rule = "block" /\ faults < MaxFaults
    /\ faults' = faults + 1
    /\ blocked' \in {blocked, TRUE}
    /\ rule' = "idle"
    /\ tonight' = FALSE
    /\ UNCHANGED <<clock, device, gaming, granted, job, fired, changes, calm, held>>

\* A cron does not fire in this minute (no process is up).
Missed(cron) ==
    /\ cron \notin fired /\ faults < MaxFaults
    /\ faults' = faults + 1
    /\ fired' = fired \cup {cron}
    /\ tonight' = (tonight /\ cron # "rules")
    /\ UNCHANGED <<clock, device, blocked, gaming, granted, job, rule, changes, calm, held>>

----------------------------------------------------------------------------
(* Parents *)

Intervene ==
    /\ changes < MaxChanges
    /\ changes' = changes + 1
    /\ calm' = FALSE
    /\ UNCHANGED <<clock, job, rule, fired, faults>>

\* lockInternet, with the default reason or one of the parent's own.
ParentLock(reason) ==
    /\ Intervene
    /\ device' = [device EXCEPT !.locked = TRUE, !.reason = reason]
    /\ held' = FALSE
    /\ UNCHANGED <<blocked, gaming, granted, tonight>>

UnlockInternet ==
    /\ Intervene
    /\ device' = [device EXCEPT !.locked = FALSE, !.reason = NoReason]
    /\ held' = FALSE
    /\ UNCHANGED <<blocked, gaming, granted, tonight>>

\* upsertSchedule, any of its columns.
UpsertSchedule ==
    /\ Intervene
    /\ \E auto \in BOOLEAN, bed \in Windows \cup {<<>>}, limit \in {0, Limit} :
          device' = [device EXCEPT !.auto = auto, !.bed = bed, !.limit = limit]
    /\ UNCHANGED <<blocked, gaming, granted, tonight, held>>

\* unblockDevice; setCategoryBlock.
Unblock ==
    /\ Intervene
    /\ blocked' = FALSE /\ tonight' = FALSE
    /\ UNCHANGED <<device, gaming, granted, held>>

UnblockGaming ==
    /\ Intervene
    /\ gaming' = FALSE
    /\ UNCHANGED <<device, blocked, granted, tonight, held>>

\* A session of one minute is started.
StartSession ==
    /\ Intervene
    /\ granted' = granted + 1
    /\ UNCHANGED <<device, blocked, gaming, tonight, held>>

----------------------------------------------------------------------------
\* The minutes of the window of a bedtime, counted from its start.
WindowMinutes(s, e) == {(s + i) % Day : i \in 0 .. ((e + Day - s) % Day) - 1}

\* The next minute, once both crons have run.
Tick ==
    /\ fired = Crons /\ job.pc = "idle" /\ rule = "idle"
    /\ LET now == (clock.now + 1) % Day
           day == IF now = 0 THEN (clock.day + 1) % Week ELSE clock.day
       IN /\ clock' = [day |-> day, now |-> now]
          /\ granted' = IF now = 0 THEN 0 ELSE granted
          /\ tonight' = IF now = RuleStart THEN day \in RuleDays
                        ELSE tonight /\ now \in WindowMinutes(RuleStart, RuleEnd)
    /\ fired' = {} /\ calm' = FALSE
    /\ job' = IdleJob
    /\ held' = (device.locked /\ device.reason = <<"parent">>)
    /\ UNCHANGED <<device, blocked, gaming, rule, bounds>>

JobStep == JobScan \/ JobLock \/ JobUnlock \/ JobKeep \/ JobDaily \/ JobCategory
RuleStep == RuleScan \/ RuleBlock

Parent ==
    \/ \E reason \in {<<"parent">>, <<"Bedtime">>} : ParentLock(reason)
    \/ UnlockInternet \/ UpsertSchedule \/ Unblock \/ UnblockGaming \/ StartSession

Next ==
    \/ JobStep \/ JobFails \/ RuleStep \/ RuleRefused
    \/ \E cron \in Crons : Missed(cron)
    \/ Parent \/ Tick

Spec == Init /\ [][Next]_vars

\* The crons fire, their runs go on, and time passes.
FairSpec == Spec /\ WF_vars(JobStep) /\ WF_vars(RuleStep) /\ WF_vars(Tick)

----------------------------------------------------------------------------
(* Properties *)

\* A device row, as far as the schedules read it.
DeviceRow == [auto : BOOLEAN, bed : Windows \cup {<<>>}, limit : {0, Limit},
              locked : BOOLEAN, reason : Reasons]

\* The lock columns go together: a locked device has a reason, an unlocked one
\* has none.
TypeOK ==
    /\ clock \in [day : 0 .. Week - 1, now : 0 .. Day - 1]
    /\ device \in DeviceRow
    /\ device.locked <=> device.reason # NoReason
    /\ blocked \in BOOLEAN /\ gaming \in BOOLEAN /\ granted \in 0 .. MaxChanges
    /\ job.pc \in {"idle", "lock", "daily", "category"} /\ rule \in {"idle", "block"}
    /\ fired \subseteq Crons
    /\ changes \in 0 .. MaxChanges /\ faults \in 0 .. MaxFaults

\* A minute ends.
MinuteEnds == clock' # clock

\* enforceDeviceSchedules follows the schedule, past midnight too: when a minute
\* of undisturbed operation ends, a device with auto-block is locked if the
\* minute belongs to its bedtime, and is locked for a bedtime only then.
BedtimeFollowed ==
    [][MinuteEnds /\ calm /\ device.auto =>
          LET inBed == /\ device.bed # <<>>
                       /\ clock.now \in WindowMinutes(device.bed[1], device.bed[2])
          IN /\ inBed => device.locked
             /\ StartsWithBedtime(device.reason) => inBed]_vars

\* enforceDeviceSchedules may take off, or make its own, the lock of a parent
\* that came while it was running, but never one that was in place when the
\* minute began: only parents end it.
ManualLockKept ==
    [][held /\ device'.reason # <<"parent">> => changes' # changes]_vars

\* When a minute of undisturbed operation ends, GAMING is blocked for the child
\* if the sessions started today reach the limit, unless the run has just
\* locked the device and left the limit to the next minute (`continue`).
LimitFollowed ==
    [][MinuteEnds /\ calm /\ device.auto /\ device.limit # 0
       /\ granted >= device.limit /\ ~job.locked => gaming]_vars

\* checkRulesAndSchedules acts in the one minute in which a rule starts; still
\* the device is blocked during all of the rule's window, unless a parent
\* unblocked it or that one run was missed, failed or was refused.
NightBlocked == [][MinuteEnds /\ tonight => blocked]_vars

\* A bedtime lock does not stay for ever, whatever becomes of the schedule under
\* which it was set, as long as auto-block is on (with auto-block off the cron
\* no longer looks at the device, and the lock is the parent's to take off).
BedtimeLockEnds ==
    (device.locked /\ StartsWithBedtime(device.reason))
        ~> (~device.locked \/ ~device.auto \/ ~StartsWithBedtime(device.reason))

----------------------------------------------------------------------------
(* The inductive invariant behind the action properties *)

\* Every session started today was an intervention, and a run works on a row.
SchedulesTyped ==
    /\ TypeOK /\ granted <= changes
    /\ job \in [pc : {"idle", "lock", "daily", "category"}, row : DeviceRow, locked : BOOLEAN]
    /\ calm \in BOOLEAN /\ tonight \in BOOLEAN /\ held \in BOOLEAN

\* A parent's lock that was in place when the minute began is in place, and the
\* run of this minute has read it.
HeldIsSeen ==
    held => /\ device.locked /\ device.reason = <<"parent">>
            /\ job.pc # "idle" => job.row.locked /\ job.row.reason = <<"parent">>

\* While nothing interferes, the run works on the row as it is: all of it up to
\* its own lock or unlock, then on the columns of the schedule.
CalmRow ==
    calm /\ job.pc # "idle" =>
        /\ device.auto /\ job.row.bed = device.bed /\ job.row.limit = device.limit /\ ~job.locked
        /\ job.pc = "lock" => job.row = device

\* Past that point the lock follows the bedtime.
CalmBed ==
    calm /\ device.auto /\ job.pc # "lock" =>
        /\ InBed(device, clock.now) => device.locked
        /\ StartsWithBedtime(device.reason) => InBed(device, clock.now)

\* When the run is over, GAMING is blocked if the limit is reached.
CalmLimit ==
    calm /\ device.auto /\ job.pc = "idle" /\ ~job.locked
      /\ device.limit # 0 /\ granted >= device.limit => gaming

\* In a night of the rule the device is blocked, or about to be: this is the
\* minute in which the rule starts.
NightHeld ==
    tonight /\ ~blocked =>
        /\ clock.now = RuleStart /\ clock.day \in RuleDays
        /\ "rules" \notin fired \/ rule = "block"

SchedulesInv ==
    SchedulesTyped /\ HeldIsSeen /\ CalmRow /\ CalmBed /\ CalmLimit /\ NightHeld
============================================================================
