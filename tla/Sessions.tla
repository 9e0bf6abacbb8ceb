----------------------------- MODULE Sessions -----------------------------
(***************************************************************************)
(* SessionsService and the expiry cron of SchedulerService, for the        *)
(* sessions of one device and child on one day.  A parent's request reads  *)
(* the row, decides, and writes the columns it computed; the cron works    *)
(* through a snapshot of the ACTIVE rows.  Requests and cron runs overlap. *)
(*                                                                         *)
(* The clock counts minutes.  `ref` is resumedAt || startedAt, the point   *)
(* from which calculateElapsedMinutes measures.                            *)
(***************************************************************************)
EXTENDS Integers, FiniteSets, FiniteSetsExt

CONSTANTS Callers, Jobs,
          Durations, Extras,  \* minutes a parent may grant
          DailyLimit,         \* RulesService.getDailyLimit
          MaxSessions,        \* bound: sessions started
          MaxExtension,       \* bound: minutes added to one session
          LastAction,         \* bound: the minute of the last request
          MaxTime,            \* bound: minutes on the clock
          MaxFaults           \* bound: failing steps of the cron job

Ids == 1 .. MaxSessions
ASSUME SessionsAssumption ==
    /\ Durations \subseteq Nat /\ Extras \subseteq Nat
    /\ MaxSessions \in Nat /\ MaxExtension \in Nat /\ MaxTime \in Nat
    \* time enough for every session to run out
    /\ LastAction + Max(Durations) + MaxExtension <= MaxTime

VARIABLES
    session,   \* the session table; status NONE: not created
    created,   \* number of sessions created
    now,
    caller,    \* local state of every parent request
    job,       \* local state of every run of checkActiveSessions
    fired,     \* the minute of the latest run
    gaming,    \* the child's GAMING category block is active
    blocked,   \* device.status = BLOCKED
    faults,    \* failing steps so far
    used,      \* history: minutes each session has been ACTIVE
    late,      \* history: sessions with a resumedAt stored in a later minute
    aged       \* history: sessions kept in a snapshot over a minute without running

table == <<session, created>>
effects == <<gaming, blocked, faults>>
history == <<used, late, aged>>
vars == <<table, now, caller, job, fired, effects, history>>

Ops == {"pause", "resume", "extend", "stop"}
IdleCaller == [pc |-> "idle", op |-> "none", id |-> 0, dur |-> 0, ext |-> 0, rem |-> 0, ref |-> 0]
IdleJob == [pc |-> "idle", todo |-> {}, id |-> 0]
NoSession == [status |-> "NONE", dur |-> 0, ext |-> 0, rem |-> 0, started |-> 0, ref |-> 0]

Init ==
    /\ session = [s \in Ids |-> NoSession] /\ created = 0
    /\ now = 0
    /\ caller = [c \in Callers |-> IdleCaller]
    /\ job = [j \in Jobs |-> IdleJob] /\ fired = 0
    /\ gaming = FALSE /\ blocked = FALSE /\ faults = 0
    /\ used = [s \in Ids |-> 0] /\ late = {} /\ aged = {}

----------------------------------------------------------------------------
(* Time arithmetic *)

Elapsed(row) == now - row.ref
AtLeastZero(n) == IF n < 0 THEN 0 ELSE n

\* Mutant: ends every session a minute early.
RemainingOffByOne(row) == AtLeastZero(row.dur + row.ext - Elapsed(row) - 1)

\* What pause computes, and calculateRemainingMinutes of an ACTIVE row.
Remaining(row) == AtLeastZero(row.dur + row.ext - Elapsed(row))

UsedToday ==
    MapThenSumSet(LAMBDA s : session[s].dur + session[s].ext - session[s].rem,
                  {s \in Ids : session[s].status # "NONE"})

Active == {s \in Ids : session[s].status = "ACTIVE"}

----------------------------------------------------------------------------
(* Mutants: plausible mistakes in the code below, one per property *)

\* Mutant: the cron notifies but forgets to expire at zero.
JobNextStrict(j) ==
    /\ job[j].pc = "loop"
    /\ \E item \in job[j].todo :
          job' = [job EXCEPT ![j] =
              [pc |-> IF Remaining(item.row) < 0 THEN "expire" ELSE "loop",
               todo |-> @.todo \ {item}, id |-> item.id]]
    /\ UNCHANGED <<table, now, caller, fired, effects, history>>

\* Mutant: returns early when the device itself cannot be blocked.
JobEnforceOnly(j) ==
    /\ job[j].pc = "enforce"
    /\ \/ /\ blocked' = TRUE
          /\ job' = [job EXCEPT ![j].pc = "category"]
       \/ /\ job' = [job EXCEPT ![j].pc = "loop"]
          /\ UNCHANGED blocked
    /\ UNCHANGED <<table, now, caller, fired, gaming, faults, history>>

----------------------------------------------------------------------------
(* start: look for an ACTIVE session, check the daily limit, create *)

StartCheck(c, d) ==
    /\ caller[c].pc = "idle" /\ now <= LastAction
    /\ Active = {} /\ created < MaxSessions
    /\ caller' = [caller EXCEPT ![c] = [IdleCaller EXCEPT !.pc = "limit", !.dur = d]]
    /\ UNCHANGED <<table, now, job, fired, effects, history>>

StartLimit(c) ==
    /\ caller[c].pc = "limit"
    /\ \/ /\ UsedToday + caller[c].dur <= DailyLimit
          /\ caller' = [caller EXCEPT ![c].pc = "create"]
       \/ /\ UsedToday + caller[c].dur > DailyLimit
          /\ caller' = [caller EXCEPT ![c] = IdleCaller]
    /\ UNCHANGED <<table, now, job, fired, effects, history>>

StartCreate(c) ==
    /\ caller[c].pc = "create" /\ now <= LastAction
    /\ created < MaxSessions
    /\ created' = created + 1
    /\ session' = [session EXCEPT ![created + 1] =
            [status |-> "ACTIVE", dur |-> caller[c].dur, ext |-> 0,
             rem |-> caller[c].dur, started |-> now, ref |-> now]]
    /\ caller' = [caller EXCEPT ![c] = IdleCaller]
    /\ UNCHANGED <<now, job, fired, effects, history>>

----------------------------------------------------------------------------
(* pause, resume, extend, stop: read and check, then write *)

Permitted(op, row) ==
    CASE op = "pause"  -> row.status = "ACTIVE"
      [] op = "resume" -> row.status = "PAUSED"
      [] op = "extend" -> row.status \in {"ACTIVE", "PAUSED"}
      [] op = "stop"   -> row.status \notin {"NONE", "STOPPED"}

\* The columns each request is going to write.
Computed(op, row, x) ==
    CASE op = "pause"  -> [rem |-> Remaining(row), ext |-> 0, ref |-> 0]
      [] op = "resume" -> [rem |-> 0, ext |-> 0, ref |-> now]
      [] op = "extend" -> [rem |-> row.rem + x, ext |-> row.ext + x, ref |-> 0]
      [] op = "stop"   -> [rem |-> 0, ext |-> 0, ref |-> 0]

OpRead(c, op, s, x) ==
    /\ caller[c].pc = "idle" /\ now <= LastAction
    /\ Permitted(op, session[s])
    /\ op = "extend" => session[s].ext + x <= MaxExtension
    /\ LET new == Computed(op, session[s], x)
       IN caller' = [caller EXCEPT ![c] =
              [pc |-> "write", op |-> op, id |-> s, dur |-> 0,
               ext |-> new.ext, rem |-> new.rem, ref |-> new.ref]]
    /\ UNCHANGED <<table, now, job, fired, effects, history>>

\* session.update with only those columns.
Updated(row, w) ==
    CASE w.op = "pause"  -> [row EXCEPT !.status = "PAUSED", !.rem = w.rem]
      [] w.op = "resume" -> [row EXCEPT !.status = "ACTIVE", !.ref = w.ref]
      [] w.op = "extend" -> [row EXCEPT !.ext = w.ext, !.rem = w.rem]
      [] w.op = "stop"   -> [row EXCEPT !.status = "STOPPED", !.rem = 0]

OpWrite(c) ==
    /\ caller[c].pc = "write" /\ now <= LastAction
    /\ session' = [session EXCEPT ![caller[c].id] = Updated(@, caller[c])]
    /\ caller' = [caller EXCEPT ![c] = IdleCaller]
    /\ late' = late \cup (IF caller[c].op = "resume" /\ caller[c].ref # now
                          THEN {caller[c].id} ELSE {})
    /\ UNCHANGED <<created, now, job, fired, effects, used, aged>>

\* The request fails before its next statement.
CallerFails(c) ==
    /\ caller[c].pc # "idle"
    /\ caller' = [caller EXCEPT ![c] = IdleCaller]
    /\ UNCHANGED <<table, now, job, fired, effects, history>>

----------------------------------------------------------------------------
(* checkActiveSessions, every minute *)

\* One run a minute (at the bound of the clock, the cron goes on).  A run that
\* finds no session does nothing.
JobScan(j) ==
    /\ job[j].pc = "idle"
    /\ fired < now \/ now = MaxTime
    /\ Active # {}
    /\ fired' = now
    /\ job' = [job EXCEPT ![j] =
            [pc |-> "loop", todo |-> {[id |-> s, row |-> session[s]] : s \in Active}, id |-> 0]]
    /\ UNCHANGED <<table, now, caller, effects, history>>

\* The next row of the snapshot: expire it, or leave it (with a notification
\* when little time is left).
JobNext(j) ==
    /\ job[j].pc = "loop"
    /\ \E item \in job[j].todo :
          job' = [job EXCEPT ![j] =
              [pc |-> IF Remaining(item.row) <= 0 THEN "expire" ELSE "loop",
               todo |-> @.todo \ {item}, id |-> item.id]]
    /\ UNCHANGED <<table, now, caller, fired, effects, history>>

JobEnd(j) ==
    /\ job[j].pc = "loop" /\ job[j].todo = {}
    /\ job' = [job EXCEPT ![j] = IdleJob]
    /\ UNCHANGED <<table, now, caller, fired, effects, history>>

\* SessionsService.expire has no condition on the status.
JobExpire(j) ==
    /\ job[j].pc = "expire"
    /\ session' = [session EXCEPT ![job[j].id] = [@ EXCEPT !.status = "EXPIRED", !.rem = 0]]
    /\ job' = [job EXCEPT ![j].pc = "enforce"]
    /\ UNCHANGED <<created, now, caller, fired, effects, history>>

\* handleOfflineViolation: the device is blocked, unless it has no gateway or
\* the adapter answers without success.
JobEnforce(j) ==
    /\ job[j].pc = "enforce"
    /\ blocked' \in {blocked, TRUE}
    /\ job' = [job EXCEPT ![j].pc = "category"]
    /\ UNCHANGED <<table, now, caller, fired, gaming, faults, history>>

\* categoryBlock.upsert, then the notification and the audit entry.
JobCategory(j) ==
    /\ job[j].pc = "category"
    /\ gaming' = TRUE
    /\ job' = [job EXCEPT ![j].pc = "loop"]
    /\ UNCHANGED <<table, now, caller, fired, blocked, faults, history>>

\* A step of expireSession throws: the catch of the loop goes on with the
\* next row.  The block may have been stored when a later await of blockDevice
\* throws.  (A failing upsert has its own catch, to the same effect here.)
JobFails(j) ==
    /\ job[j].pc \in {"expire", "enforce", "category"}
    /\ faults < MaxFaults
    /\ faults' = faults + 1
    /\ blocked' \in {blocked, blocked \/ job[j].pc = "enforce"}
    /\ job' = [job EXCEPT ![j].pc = "loop"]
    /\ UNCHANGED <<table, now, caller, fired, gaming, history>>

----------------------------------------------------------------------------
\* "Parent must manually unblock to give more time."
UnblockGaming ==
    /\ gaming /\ now <= LastAction
    /\ gaming' = FALSE
    /\ UNCHANGED <<table, now, caller, job, fired, blocked, faults, history>>

\* EnforcementService.unblockDevice.
UnblockDevice ==
    /\ blocked /\ now <= LastAction
    /\ blocked' = FALSE
    /\ UNCHANGED <<table, now, caller, job, fired, gaming, faults, history>>

\* A minute passes, for requests and runs under way too (the bound on requests
\* ends those that are left).
Tick ==
    /\ now < MaxTime
    /\ now' = now + 1
    /\ used' = [s \in Ids |-> IF s \in Active THEN used[s] + 1 ELSE used[s]]
    /\ aged' = aged \cup {s \in Ids \ Active : \E j \in Jobs : \E item \in job[j].todo : item.id = s}
    /\ caller' = IF now = LastAction THEN [c \in Callers |-> IdleCaller] ELSE caller
    /\ UNCHANGED <<table, job, fired, effects, late>>

JobStep(j) ==
    \/ JobScan(j) \/ JobNext(j) \/ JobEnd(j)
    \/ JobExpire(j) \/ JobEnforce(j) \/ JobCategory(j)

CallerBegins(c) ==
    \/ \E d \in Durations : StartCheck(c, d)
    \/ \E op \in Ops, s \in Ids, x \in Extras : OpRead(c, op, s, x)

CallerEnds(c) == StartLimit(c) \/ StartCreate(c) \/ OpWrite(c) \/ CallerFails(c)

Next ==
    \/ \E c \in Callers : CallerBegins(c) \/ CallerEnds(c)
    \/ \E j \in Jobs : JobStep(j) \/ JobFails(j)
    \/ UnblockGaming \/ UnblockDevice \/ Tick

Spec == Init /\ [][Next]_vars

\* The cron fires every minute, a run that started goes on, and time passes.
\* Nothing is assumed of parents.
Fairness == WF_vars(Tick) /\ \A j \in Jobs : WF_vars(JobStep(j))
FairSpec == Spec /\ Fairness

----------------------------------------------------------------------------
(* Properties *)

Statuses == {"NONE", "ACTIVE", "PAUSED", "STOPPED", "EXPIRED"}
Row == [status : Statuses, dur : {0} \cup Durations, ext : 0 .. MaxExtension,
        rem : Nat, started : 0 .. MaxTime, ref : 0 .. MaxTime]

\* Every column the service writes stays in range; in particular the remaining
\* minutes that pause, extend, stop and expire write are never negative.
TypeOK ==
    /\ session \in [Ids -> Row] /\ created \in 0 .. MaxSessions
    /\ \A s \in Ids : (session[s].status = "NONE") <=> (s > created)
    /\ \A c \in Callers : caller[c].pc \in {"idle", "limit", "create", "write"}
    /\ \A j \in Jobs : /\ job[j].pc \in {"idle", "loop", "expire", "enforce", "category"}
                       /\ job[j].id \in 0 .. created

\* The cron never ends a running session before the child has had the minutes
\* first granted, however requests and runs overlap within and across minutes
\* (expire, checkActiveSessions), with two exceptions.  A snapshot read by a run
\* that takes longer than its minute goes on ageing while its session is paused,
\* and a resume that reaches the database late counts the minutes before it.
NoEarlyExpiry ==
    [][\A s \in Ids :
          session[s].status = "ACTIVE" /\ session'[s].status = "EXPIRED"
             => used[s] >= session[s].dur \/ s \in aged \cup late]_vars

\* A running session does not run for ever: it is paused, stopped or expired.
ActiveSessionsEnd ==
    \A s \in Ids : (session[s].status = "ACTIVE") ~> (session[s].status # "ACTIVE")

\* A run of the cron that has expired a session goes on to block GAMING for
\* the child ("so DNS keeps blocking online games even after the session ends"),
\* also when the device itself cannot be blocked.  Not so once a step of
\* expireSession has failed: the session is no longer ACTIVE, and no later run
\* selects it.
GamingBlockedAfterExpiry ==
    \A j \in Jobs : (job[j].pc = "enforce") ~> (gaming \/ faults > 0)

\* A running session never has fewer minutes left than were granted and not
\* used, and until its first resume exactly those (calculateRemainingMinutes):
\* concurrent pauses, extensions and stops lose none.  A resume counts from zero
\* again, so that minutes already used are granted a second time; one stored in
\* a later minute than it was computed in is the only way to lose any.
RemainingTracksUse ==
    \A s \in Active \ late :
        LET unused == AtLeastZero(session[s].dur + session[s].ext - used[s])
        IN IF session[s].ref = session[s].started THEN Remaining(session[s]) = unused
                                                  ELSE Remaining(session[s]) >= unused

----------------------------------------------------------------------------
(* The inductive invariant behind the safety properties *)

CallerState == [pc : {"idle", "limit", "create", "write"}, op : Ops \cup {"none"},
                id : 0 .. MaxSessions, dur : {0} \cup Durations, ext : 0 .. MaxExtension,
                rem : Nat, ref : 0 .. MaxTime]
JobState == [pc : {"idle", "loop", "expire", "enforce", "category"},
             todo : SUBSET [id : Ids, row : Row], id : 0 .. MaxSessions]

\* Requests and runs hold well-formed columns, of sessions that exist.
SessionsTyped ==
    /\ TypeOK /\ now \in 0 .. MaxTime /\ used \in [Ids -> Nat]
    /\ caller \in [Callers -> CallerState] /\ job \in [Jobs -> JobState]
    /\ \A c \in Callers : caller[c].pc = "write" => caller[c].op \in Ops /\ caller[c].id \in 1 .. created
    /\ \A j \in Jobs : /\ job[j].pc \in {"expire", "enforce", "category"} => job[j].id \in 1 .. created
                       /\ \A item \in job[j].todo : item.id \in 1 .. created

\* No session has been used for longer than it exists.
UseIsTime ==
    \A s \in Ids : IF s <= created THEN used[s] <= now - session[s].started ELSE used[s] = 0

\* A running session has been used since its reference point at least, and for
\* all of its time when that is still its start.
ActiveIsUsed ==
    \A s \in Active \ late :
        /\ used[s] >= now - session[s].ref
        /\ session[s].ref = session[s].started => used[s] = now - session[s].started

\* What a run of the cron has read still says how long a session has run, and
\* the session it is going to expire has had its minutes.
SnapshotIsFresh ==
    \A j \in Jobs : job[j].pc # "idle" =>
        /\ \A item \in job[j].todo : item.id \notin aged \cup late =>
              item.row.dur = session[item.id].dur /\ used[item.id] >= now - item.row.ref
        /\ job[j].pc = "expire" /\ job[j].id \notin aged \cup late
              => used[job[j].id] >= session[job[j].id].dur

SessionsInv == SessionsTyped /\ UseIsTime /\ ActiveIsUsed /\ SnapshotIsFresh
============================================================================
