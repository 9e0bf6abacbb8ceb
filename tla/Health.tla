------------------------------- MODULE Health -------------------------------
(***************************************************************************)
(* What the parent is told of a device and of the household: connection    *)
(* quality, the health verdict, the protection score with its insights,    *)
(* the offline set-up and the network health page.  Ages are in ticks; a   *)
(* device row has seen (the age of lastDnsSeenAt, Never if there is none), *)
(* configured, locked, status and attempts.                                *)
(***************************************************************************)
EXTENDS Integers, FiniteSetsExt

CONSTANTS Never, Minute,
          Excellent, Stale, Fresh, Poor, Day  \* 2, 10, 15 and 60 minutes, 24 hours

ASSUME HealthAssumption ==
    /\ Never \notin Nat
    /\ Minute \in Nat \ {0}
    /\ {Excellent, Stale, Fresh, Poor, Day} \subseteq Nat
    /\ Excellent < Stale /\ Stale < Fresh /\ Fresh < Poor /\ Poor < Day
    /\ Fresh % Minute = 0

\* Math.round of a quotient of naturals.
Round(n, d) == (2 * n + d) \div (2 * d)

ComputeConnectionQuality(age) ==
    IF age = Never THEN "OFFLINE"
    ELSE IF age <= Excellent THEN "EXCELLENT"
    ELSE IF age <= Fresh THEN "GOOD"
    ELSE IF age <= Poor THEN "POOR" ELSE "OFFLINE"

\* Mutant: fresh below the threshold only.
EvaluateStrict(row, active) ==
    CASE row.seen = Never -> IF row.configured THEN "NEVER_VERIFIED" ELSE "NOT_CONFIGURED"
      [] row.seen # Never /\ row.seen \div Minute < Fresh \div Minute -> "VERIFIED"
      [] OTHER -> IF row.locked \/ active THEN "NEEDS_ATTENTION" ELSE "IDLE"

\* The age is compared in whole minutes, rounded down.
EvaluateDeviceHealth(row, active) ==
    CASE row.seen = Never -> IF row.configured THEN "NEVER_VERIFIED" ELSE "NOT_CONFIGURED"
      [] row.seen # Never /\ row.seen \div Minute <= Fresh \div Minute -> "VERIFIED"
      [] OTHER -> IF row.locked \/ active THEN "NEEDS_ATTENTION" ELSE "IDLE"

\* getSummary and getForDevice: a session that is paused counts as one in use.
ActiveSession(session) == session \in {"ACTIVE", "PAUSED"}
GetForDevice(row, session) == EvaluateDeviceHealth(row, ActiveSession(session))

\* The two counts of getSummary, of a set of verdicts of distinct devices.
GetSummary(devices, verdict) ==
    [total          |-> Cardinality(devices),
     protected      |-> Cardinality({d \in devices : verdict[d] = "VERIFIED"}),
     needsAttention |-> Cardinality({d \in devices : verdict[d] \in {"NEEDS_ATTENTION", "NEVER_VERIFIED"}})]

\* ReportsService.build: is the device counted as protected?
ReportProtected(age) == age # Never /\ age <= Fresh

----------------------------------------------------------------------------
(* Offline control and protection score; setup has enabled, verified and   *)
(* the number of checklist items done.                                     *)

\* Any item may be ticked and taken back, and the parent's word is taken for the rest.
Checklist == 0 .. 6
Setups == [enabled : BOOLEAN, verified : BOOLEAN, done : Checklist]

SetupRequired(setup) == ~setup.enabled \/ setup.done < 4

RecommendNextStep(setup) ==
    CASE ~setup.enabled -> "guide"
      [] setup.enabled /\ setup.done < 6 -> "item"
      [] setup.enabled /\ setup.done = 6 /\ ~setup.verified -> "verify"
      [] OTHER -> IF SetupRequired(setup) THEN "continue" ELSE "complete"

DnsScore(row) ==
    LET age == CASE row.seen = Never -> 0 [] row.seen # Never /\ row.seen <= Stale -> 20
                 [] row.seen # Never /\ row.seen > Stale /\ row.seen <= Poor -> 10
                 [] OTHER -> IF row.seen <= Day THEN 5 ELSE 0
    IN age + (IF row.configured THEN 10 ELSE 0)

\* An unlocked device is in GAMING_ONLY mode.
LockScore(row) == IF row.locked THEN 15 ELSE 10

OfflineScore(setup) ==
    (IF setup.verified THEN 15 ELSE IF setup.enabled THEN 8 ELSE 0) + Round(15 * setup.done, 6)

BypassScore(row) ==
    LET base == CASE row.status = "COMPROMISED" -> 0
                  [] row.status = "POSSIBLE_DNS_BYPASS" -> 15
                  [] OTHER -> 25
        cost == Min({20, 3 * row.attempts})
    IN Max({0, base - cost})

CalculateProtectionScore(row, setup) ==
    Min({100, DnsScore(row) + LockScore(row) + OfflineScore(setup) + BypassScore(row)})

ProtectionLevel(score) == IF score >= 80 THEN "HIGH" ELSE IF score >= 50 THEN "MEDIUM" ELSE "LOW"

\* getInsights: what is recommended; nothing stands for "all signals look healthy".
Recommendations(row, setup) ==
    LET level == ProtectionLevel(CalculateProtectionScore(row, setup))
    IN {r \in {"dns", "guide", "checklist", "settings", "network", "lock"} :
          CASE r = "dns"       -> ~row.configured
            [] r = "guide"     -> ~setup.enabled
            [] r = "checklist" -> setup.done < 4
            [] r = "settings"  -> row.status = "POSSIBLE_DNS_BYPASS"
            [] r = "network"   -> row.status = "COMPROMISED"
            [] r = "lock"      -> ~row.locked /\ level = "LOW"}

----------------------------------------------------------------------------
(* computeNetworkHealth; the Router section is never measured, since no    *)
(* code writes lastTestResult.                                             *)

ColorForPercent(percent) == IF percent >= 80 THEN "green" ELSE IF percent >= 50 THEN "yellow" ELSE "red"

Security(input) ==
    LET vpn == IF input.vpn > 0 THEN 60 ELSE 100
        privateDns == IF input.bypassSuspected > 0 THEN 30 ELSE 100
        doh == IF input.doh > 0 THEN 60 ELSE 100
    IN Round(vpn + privateDns + doh, 3)

\* The sections of the page; one with nothing to measure is grey and has no weight.
Section(part, total, weight) ==
    IF total = 0 THEN [percent |-> 0, weight |-> 0]
    ELSE [percent |-> Round(100 * part, total), weight |-> weight]

Sections(input) ==
    << Section(input.protected, input.devices, 30),
       Section(input.succeeded, input.considered, 15),
       [percent |-> Security(input), weight |-> 20],
       Section(input.online, input.devices, 15) >>

WeightedSum(s) ==
    s[1].percent * s[1].weight + s[2].percent * s[2].weight
        + s[3].percent * s[3].weight + s[4].percent * s[4].weight

OverallProtection(input) ==
    LET s == Sections(input)
    IN Round(WeightedSum(s), s[1].weight + s[2].weight + s[3].weight + s[4].weight)
============================================================================
