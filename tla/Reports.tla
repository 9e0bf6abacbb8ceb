------------------------------- MODULE Reports -------------------------------
(***************************************************************************)
(* The usage pages of a household: reports over a rolling window with      *)
(* daily buckets, and the days and weeks of the usage logs.  Sessions and  *)
(* logs are written and children removed while a report is put together    *)
(* from several reads and kept in the cache, under a key that names        *)
(* neither the date nor the data.                                          *)
(*                                                                         *)
(* Time is counted in ticks; a day of the server's time zone has Usual of  *)
(* them, but for the days on which its clocks are changed.                 *)
(***************************************************************************)
EXTENDS Integers, Sequences, FiniteSetsExt

CONSTANTS Children, Null,
          Asked,      \* the scopes reports are asked for
          Requests,   \* bound: reports under way at a time
          Usual,      \* MS_PER_DAY
          DayLength,  \* the ticks of the days 1, 2, ...
          Week,       \* the days of a week, and of the window of a weekly report
          PerMinute,  \* the units of durationSec in a minute
          MaxChanges  \* bound: sessions and logs added, children removed

ASSUME ReportsAssumption ==
    /\ Null \notin Children /\ Asked \subseteq Children \cup {Null}
    /\ Usual \in Nat \ {0} /\ Week \in Nat \ {0} /\ PerMinute \in Nat \ {0}
    /\ DayLength \in Seq(Nat \ {0})

VARIABLES
    now,
    children,  \* the Child rows
    sessions,  \* Session rows: child, at (startedAt) and minutes
    logs,      \* UsageLog rows: child, at and sec
    cache,     \* the reports kept, by scope: a child, or Null for all
    request,   \* reports under way
    changes

vars == <<now, children, sessions, logs, cache, request, changes>>

----------------------------------------------------------------------------
(* Days and windows *)

LastDay == Len(DayLength)
Midnights == [day \in 1 .. LastDay + 1 |-> MapThenSumSet(LAMBDA d : DayLength[d], 1 .. day - 1)]

\* Midnight at the start of a day; days before the first are Usual ones.
StartOfDay(day) == IF day < 1 THEN (day - 1) * Usual ELSE Midnights[day]

Horizon == StartOfDay(LastDay + 1) - 1
DayOf(t) == CHOOSE day \in 1 .. LastDay : StartOfDay(day) <= t /\ t < StartOfDay(day + 1)

\* The dates are counted, not the milliseconds.
ResolveRange(days, offset) ==
    LET end == DayOf(now) + 1 - days * offset
    IN [first |-> end - days, start |-> StartOfDay(end - days), end |-> StartOfDay(end), days |-> days]

Within(t, range) == range.start <= t /\ t < range.end

\* Math.round of a quotient of naturals.
Round(n, d) == (2 * n + d) \div (2 * d)

\* Mutant: the afternoon counts for the day after.
BucketDailyNearest(items, range) ==
    [i \in 0 .. range.days - 1 |->
        MapThenSumSet(LAMBDA x : x.minutes, {x \in items : Round(x.at - range.start, Usual) = i})]

\* Here it is the milliseconds: items of an hour too many are left out.
BucketDaily(items, range) ==
    [i \in 0 .. range.days - 1 |->
        MapThenSumSet(LAMBDA x : x.minutes, {x \in items : (x.at - range.start) \div Usual = i})]

----------------------------------------------------------------------------
(* The usage pages *)

Seconds(xs) == MapThenSumSet(LAMBDA l : l.sec, xs)

\* getDailyUsage, from midnight to the last millisecond of the day.
DailyUsage(c, day) ==
    Seconds({l \in logs : l.child = c /\ StartOfDay(day) <= l.at /\ l.at < StartOfDay(day + 1)})

\* getWeeklyUsage, since the last day that starts a week.
WeekStart(day) == day - (day % Week)
WeeklyUsage(c) ==
    Seconds({l \in logs : l.child = c /\ l.at >= StartOfDay(WeekStart(DayOf(now)))})

----------------------------------------------------------------------------
Scopes == Children \cup {Null}
Parts == {"sessions", "tracked"}
IdleRequest == [pc |-> "idle"]

Init ==
    /\ now = 0
    /\ children = Children
    /\ \E sub \in SUBSET Children :
          sessions = {[id |-> 0, child |-> c, at |-> 0, minutes |-> 1] : c \in sub}
    /\ logs = {}
    /\ cache = [s \in Scopes |-> Null]
    /\ request = [q \in Requests |-> IdleRequest]
    /\ changes = 0

Tick ==
    /\ now < Horizon
    /\ now' = now + 1
    /\ UNCHANGED <<children, sessions, logs, cache, request, changes>>

\* The n-th change of the rows.
Change(n) ==
    /\ changes < MaxChanges /\ n = changes + 1
    /\ changes' = n
    /\ UNCHANGED <<now, cache, request>>

\* SessionsService.start.
StartSession(c, n) ==
    /\ Change(n) /\ c \in children
    /\ sessions' = sessions \cup {[id |-> n, child |-> c, at |-> now, minutes |-> 1]}
    /\ UNCHANGED <<children, logs>>

\* reportUsage, createLog: the agent names the child, and the row refers to it.
ReportUsage(c, n) ==
    /\ Change(n) /\ c \in children
    /\ logs' = logs \cup {[id |-> n, child |-> c, at |-> now, sec |-> 1]}
    /\ UNCHANGED <<children, sessions>>

\* ChildrenService.remove: sessions and logs go with the child.
RemoveChild(c, n) ==
    /\ Change(n) /\ c \in children
    /\ children' = children \ {c}
    /\ sessions' = {s \in sessions : s.child # c}
    /\ logs' = {l \in logs : l.child # c}

----------------------------------------------------------------------------
(* ReportsService.build *)

\* Mutant: one key for the whole household.
CacheKeyShared(scope) == Null

CacheKey(scope) == scope

Visible(scope) == IF scope = Null THEN children ELSE children \cap {scope}

\* A miss; the window is that of the day.
ReportBegin(q, scope) ==
    /\ request[q].pc = "idle"
    /\ cache[CacheKey(scope)] = Null
    /\ request' = [request EXCEPT ![q] =
                     [pc |-> "children", scope |-> scope, range |-> ResolveRange(Week, 0)]]
    /\ UNCHANGED <<now, children, sessions, logs, cache, changes>>

\* Whose logs are read is settled; a child that is gone is refused.
ReportChildren(q) ==
    /\ request[q].pc = "children"
    /\ LET r == request[q]
       IN request' = [request EXCEPT ![q] =
            IF r.scope # Null /\ Visible(r.scope) = {} THEN IdleRequest
            ELSE [pc |-> "read", scope |-> r.scope, range |-> r.range,
                  ids |-> Visible(r.scope), got |-> [p \in {} |-> 0]]]
    /\ UNCHANGED <<now, children, sessions, logs, cache, changes>>

SessionsIn(scope, range) ==
    {s \in sessions : Within(s.at, range) /\ (scope # Null => s.child = scope)}
LogsIn(ids, range) == {l \in logs : l.child \in ids /\ Within(l.at, range)}
Minutes(xs) == MapThenSumSet(LAMBDA s : s.minutes, xs)

\* What one of the parallel reads comes to.  Gaming minutes and top apps are
\* further sums over the logs, and are left out.
PartOf(part, scope, range, ids) ==
    CASE part = "sessions" ->
            LET xs == SessionsIn(scope, range)
            IN [screen |-> Minutes(xs), daily |-> BucketDaily(xs, range),
                byChild |-> {[child |-> c, minutes |-> Minutes({s \in xs : s.child = c})] :
                                c \in {s.child : s \in xs}}]
      [] part = "tracked" -> Round(Seconds(LogsIn(ids, range)), PerMinute)

\* Promise.all: the reads are answered in any order.
ReportRead(q, part) ==
    /\ request[q].pc = "read" /\ part \notin DOMAIN request[q].got
    /\ LET r == request[q]
       IN request' = [request EXCEPT ![q].got =
            [p \in DOMAIN r.got \cup {part} |->
                IF p = part THEN PartOf(p, r.scope, r.range, r.ids) ELSE r.got[p]]]
    /\ UNCHANGED <<now, children, sessions, logs, cache, changes>>

ReportStore(q) ==
    /\ request[q].pc = "read" /\ DOMAIN request[q].got = Parts
    /\ cache' = [cache EXCEPT ![CacheKey(request[q].scope)] =
                   [first |-> request[q].range.first, body |-> request[q].got]]
    /\ request' = [request EXCEPT ![q] = IdleRequest]
    /\ UNCHANGED <<now, children, sessions, logs, changes>>

\* REPORT_TTL_MS after it was stored.
ReportExpires(scope) ==
    /\ cache[scope] # Null
    /\ cache' = [cache EXCEPT ![scope] = Null]
    /\ UNCHANGED <<now, children, sessions, logs, request, changes>>

----------------------------------------------------------------------------
Next ==
    \/ Tick
    \/ \E n \in 1 .. MaxChanges, c \in Children :
          StartSession(c, n) \/ RemoveChild(c, n) \/ ReportUsage(c, n)
    \/ \E q \in Requests : \/ \E s \in Asked : ReportBegin(q, s)
                           \/ ReportChildren(q)
                           \/ \E p \in Parts : ReportRead(q, p)
                           \/ ReportStore(q)
    \/ \E s \in Scopes : ReportExpires(s)

Spec == Init /\ [][Next]_vars

\* The cache drops what is older than its time to live.
Fairness == \A s \in Scopes : WF_vars(ReportExpires(s))
FairSpec == Spec /\ Fairness

----------------------------------------------------------------------------
(* Properties *)

\* The report of the rows as they are.
ReportNow(scope) ==
    LET range == ResolveRange(Week, 0)
    IN [first |-> range.first, body |-> [p \in Parts |-> PartOf(p, scope, range, Visible(scope))]]

\* A report may mix reads from before and after a change, a slow build may replace
\* a newer report, and the key does not name the day; but none of this lasts: once
\* rows and date no longer change, what is kept for a scope is the report of the
\* rows as they are, and nothing is kept for a child that was removed.
ReportsCatchUp ==
    <>[](\A s \in Scopes : cache[s] # Null =>
            /\ s # Null => s \in children
            /\ cache[s] = ReportNow(s))

\* The windows of consecutive offsets miss no session and count none twice.  The
\* minutes of a day are those of the sessions that began on it, unless the clocks
\* were changed in the window: then a session may count for the day before or the
\* day after its own, and one of the last, added hours for none, so that only a
\* window with no hour too many adds up to its total.  The days of the usage page
\* add up to its week and to what the report tracks, whatever the clocks did.
ReportsAddUp ==
    LET today == DayOf(now)
        window == ResolveRange(Week, 0)
        usual == \A day \in window.first .. today : day >= 1 => DayLength[day] = Usual
        recent == SessionsIn(Null, window)
        daily == BucketDaily(recent, window)
        own(s) == DayOf(s.at) - window.first
        counted(s) == {i \in 0 .. Week - 1 : BucketDaily({s}, window)[i] # 0}
    IN /\ \A s \in sessions :
             Cardinality({o \in 0 .. today : Within(s.at, ResolveRange(Week, o))}) = 1
       /\ usual => \A i \in 0 .. Week - 1 :
                      daily[i] = Minutes({s \in sessions : DayOf(s.at) = window.first + i})
       /\ \A s \in recent : /\ counted(s) \subseteq own(s) - 1 .. own(s) + 1
                            /\ counted(s) = {} => own(s) = Week - 1
       /\ window.end - window.start <= Week * Usual =>
             MapThenSumSet(LAMBDA i : daily[i], 0 .. Week - 1) = Minutes(recent)
       /\ \A c \in children :
             LET days(first) == MapThenSumSet(LAMBDA day : DailyUsage(c, day), first .. today)
             IN /\ Seconds(LogsIn({c}, window)) = days(window.first)
                /\ WeeklyUsage(c) = days(WeekStart(today))
============================================================================
