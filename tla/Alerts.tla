------------------------------- MODULE Alerts -------------------------------
(***************************************************************************)
(* The watch over one device whose DNS is configured: queries refresh      *)
(* lastDnsSeenAt, at most once per Throttle, and two crons read it.        *)
(* detectDnsBypass counts the scans that find the device locked and silent *)
(* and escalates; monitorDeviceHealth warns of a live session without      *)
(* queries, once per window.  A cron fires whether or not its last run is  *)
(* through, and every replica has its own: runs overlap.                   *)
(*                                                                         *)
(* Time is kept as ages in ticks, cut off where nothing tells them apart.  *)
(***************************************************************************)
EXTENDS Health

CONSTANTS Runs,
          Throttle,     \* the ten seconds of the heartbeat key
          Threshold,    \* COMPROMISED_THRESHOLD
          MaxFailures   \* bound: statements that fail

ASSUME AlertsAssumption ==
    /\ IsFiniteSet(Runs)
    /\ Throttle \in Nat \ {0} /\ Throttle < Stale
    /\ Threshold \in Nat \ {0}

VARIABLES
    device,     \* the device row; lockAge is the age of internetLockedAt
    session,    \* the status of its session, "none" if it has none
    throttle,   \* ticks until the heartbeat key expires
    run,        \* the cron runs under way
    sent,       \* DEVICE_DISCONNECTED alerts in the last DEDUPE_HOURS
    query,      \* history: age of the last query of the device
    earned,     \* history: scans that counted a device really silent and locked
    repeated,   \* history: REPEATED_BYPASS was created
    failed      \* the statements that failed

alertsVars == <<device, session, throttle, run, sent, query, earned, repeated, failed>>

IdleRun == [pc |-> "idle", attempts |-> 0, real |-> FALSE]
Fail(what) == Cardinality(failed) < MaxFailures /\ failed' = failed \cup {what}
Older(age, cap) == IF age = Never THEN Never ELSE Min({age + 1, cap + 1})

AlertsInit ==
    /\ device = [seen |-> Never, configured |-> TRUE, locked |-> FALSE, lockAge |-> Never,
                 status |-> "NORMAL", attempts |-> 0]
    /\ session = "none"
    /\ throttle = 0
    /\ run = [r \in Runs |-> IdleRun]
    /\ sent = 0
    /\ query = Never /\ earned = 0 /\ repeated = FALSE /\ failed = {}

Tick ==
    /\ device' = [device EXCEPT !.seen = Older(@, Day),
                                !.lockAge = Older(@, Stale)]
    /\ query' = Older(query, Stale)
    /\ throttle' = Max({0, throttle - 1})
    /\ UNCHANGED <<session, run, sent, earned, repeated, failed>>

----------------------------------------------------------------------------
(* DNS heartbeats *)

TouchHeartbeat ==
    /\ device' = IF throttle > 0 THEN device ELSE [device EXCEPT !.seen = 0]
    /\ throttle' = IF throttle > 0 THEN throttle ELSE Throttle

\* checkPolicy, on a cache hit as on a miss.  (A hit needs the dnsdev key to know
\* the device.  The key is written just before the decision and lives as long:
\* the hit that comes between the ends of the two is left out.)
Query ==
    /\ query' = 0
    /\ TouchHeartbeat
    /\ UNCHANGED <<session, run, sent, earned, repeated, failed>>

\* The update of updateDnsSeen is lost; the key is set nevertheless.
HeartbeatLost ==
    /\ throttle = 0 /\ Fail("heartbeat")
    /\ query' = 0
    /\ throttle' = Throttle
    /\ UNCHANGED <<device, session, run, sent, earned, repeated>>

----------------------------------------------------------------------------
(* The parent: lockInternet, unlockInternet, sessions *)

SetLock(locked) ==
    /\ device' = [device EXCEPT !.locked = locked, !.lockAge = IF locked THEN 0 ELSE Never]
    /\ UNCHANGED <<session, throttle, run, sent, query, earned, repeated, failed>>

SetSession(status) ==
    /\ session # status
    /\ session' = status
    /\ UNCHANGED <<device, throttle, run, sent, query, earned, repeated, failed>>

----------------------------------------------------------------------------
(* detectDnsBypass *)

Quiet(age) == device.seen # Never => device.seen > age

Suspect == device.locked /\ device.lockAge > Stale /\ Quiet(Stale)

\* The device has really sent nothing, up to the throttle.
ReallyQuiet(age) == query # Never => query > age - Throttle

\* Mutant: a device that is flagged already is not scanned again.
ScanBypassOnce(r) ==
    /\ run[r].pc = "idle"
    /\ Suspect /\ device.status = "NORMAL"
    /\ run' = [run EXCEPT ![r] = [pc |-> "update", attempts |-> device.attempts,
                                  real |-> ReallyQuiet(Stale) \/ "heartbeat" \in failed]]
    /\ UNCHANGED <<device, session, throttle, sent, query, earned, repeated, failed>>

\* findMany: the row as it is now.
ScanBypass(r) ==
    /\ run[r].pc = "idle"
    /\ Suspect /\ device.status # "COMPROMISED"
    /\ run' = [run EXCEPT ![r] = [pc |-> "update", attempts |-> device.attempts,
                                  real |-> ReallyQuiet(Stale) \/ "heartbeat" \in failed]]
    /\ UNCHANGED <<device, session, throttle, sent, query, earned, repeated, failed>>

\* Mutant: escalates one scan early.
EscalatesEarly(attempts) == attempts >= Threshold - 1

Escalates(attempts) == attempts >= Threshold

\* device.update: status and count follow from the row that was read.
FlagBypass(r) ==
    /\ run[r].pc = "update"
    /\ LET new == run[r].attempts + 1
       IN /\ device' = [device EXCEPT !.attempts = new,
                          !.status = IF Escalates(new) THEN "COMPROMISED" ELSE "POSSIBLE_DNS_BYPASS"]
          /\ run' = [run EXCEPT ![r].pc = "notify", ![r].attempts = new]
    /\ earned' = IF run[r].real THEN Min({earned + 1, Threshold}) ELSE earned
    /\ UNCHANGED <<session, throttle, sent, query, repeated, failed>>

NotifyBypass(r) ==
    /\ run[r].pc = "notify"
    /\ repeated' = (repeated \/ Escalates(run[r].attempts))
    /\ run' = [run EXCEPT ![r] = IdleRun]
    /\ UNCHANGED <<device, session, throttle, sent, query, earned, failed>>

----------------------------------------------------------------------------
(* monitorDeviceHealth *)

ScanHealth(r) ==
    /\ run[r].pc = "idle"
    /\ session = "ACTIVE" /\ device.configured /\ Quiet(Fresh)
    /\ run' = [run EXCEPT ![r].pc = "check"]
    /\ UNCHANGED <<device, session, throttle, sent, query, earned, repeated, failed>>

\* findFirst of a recent alert.
CheckRecent(r) ==
    /\ run[r].pc = "check"
    /\ run' = [run EXCEPT ![r] = IF sent > 0 THEN IdleRun ELSE [@ EXCEPT !.pc = "create"]]
    /\ UNCHANGED <<device, session, throttle, sent, query, earned, repeated, failed>>

NotifyDisconnected(r) ==
    /\ run[r].pc = "create"
    /\ sent' = Min({sent + 1, Cardinality(Runs) + 1})
    /\ run' = [run EXCEPT ![r] = IdleRun]
    /\ UNCHANGED <<device, session, throttle, query, earned, repeated, failed>>

\* DEDUPE_HOURS are over: what was sent is no longer recent.
WindowEnds ==
    /\ sent > 0
    /\ sent' = 0
    /\ UNCHANGED <<device, session, throttle, run, query, earned, repeated, failed>>

\* A statement of a run rejects: the loop logs it and goes on.
RunFails(r) ==
    /\ run[r].pc # "idle" /\ Fail("run")
    /\ run' = [run EXCEPT ![r] = IdleRun]
    /\ UNCHANGED <<device, session, throttle, sent, query, earned, repeated>>

----------------------------------------------------------------------------
RunStep(r) == FlagBypass(r) \/ NotifyBypass(r) \/ CheckRecent(r) \/ NotifyDisconnected(r)

AlertsNext ==
    \/ Tick \/ Query \/ HeartbeatLost \/ WindowEnds
    \/ \E locked \in BOOLEAN : SetLock(locked)
    \/ \E status \in {"none", "ACTIVE", "PAUSED"} : SetSession(status)
    \/ \E r \in Runs : ScanBypass(r) \/ ScanHealth(r) \/ RunStep(r) \/ RunFails(r)

AlertsSpec == AlertsInit /\ [][AlertsNext]_alertsVars

\* The bypass cron fires again and again, and a run goes on.
AlertsFairSpec ==
    /\ AlertsSpec
    /\ SF_alertsVars(\E r \in Runs : ScanBypass(r))
    /\ \A r \in Runs : WF_alertsVars(RunStep(r))

----------------------------------------------------------------------------
(* Properties *)

AlertsTypeOK ==
    /\ device \in [seen : 0 .. (Day + 1) \cup {Never}, configured : BOOLEAN, locked : BOOLEAN,
                   lockAge : 0 .. (Stale + 1) \cup {Never},
                   status : {"NORMAL", "POSSIBLE_DNS_BYPASS", "COMPROMISED"},
                   attempts : 0 .. Threshold]
    /\ run \in [Runs -> [pc : {"idle", "update", "notify", "check", "create"},
                         attempts : 0 .. Threshold, real : BOOLEAN]]
    /\ query \in 0 .. (Stale + 1) \cup {Never} /\ throttle \in 0 .. Throttle
    /\ sent \in Nat /\ earned \in 0 .. Threshold /\ repeated \in BOOLEAN

\* Alarms are earned, however the runs of the crons overlap.  No device is called
\* COMPROMISED, no attempt is held against it and no REPEATED_BYPASS is created
\* unless that many scans found it locked and really without queries, up to the ten
\* seconds of the throttle: overlapping runs of detectDnsBypass may count two scans
\* as one, never one as two.  (A heartbeat whose update is lost voids this until the end of the
\* behaviour.)  And DEVICE_DISCONNECTED is sent at most once per window and run of
\* monitorDeviceHealth that can overlap.
AlertsEarned ==
    /\ device.attempts <= earned
    /\ device.status = "COMPROMISED" => earned >= Threshold
    /\ device.status = "NORMAL" <=> device.attempts = 0
    /\ repeated => earned >= Threshold
    /\ sent <= Cardinality(Runs)

\* A device that stays locked and silent ends up COMPROMISED with the strong alert
\* created, even where overlapping runs write back older counts.  A statement that
\* fails may cost the alert, as a COMPROMISED device is not scanned again, but not
\* the verdict.
SilentLockEscalates ==
    <>[]Suspect => <>(IF "run" \in failed THEN device.status = "COMPROMISED" ELSE repeated)

----------------------------------------------------------------------------
(* The inductive invariant of AlertsEarned *)

\* Until an update of it is lost, lastDnsSeenAt is behind the last query by no more
\* than the throttle: while the key is there the last heartbeat is that old at most.
HeartbeatFollows ==
    "heartbeat" \notin failed =>
        /\ throttle > 0 => device.seen # Never /\ device.seen + throttle <= Throttle
        /\ query # Never => device.seen # Never
        /\ query # Never /\ query <= Stale => device.seen <= query + Throttle

\* The status goes with the count.
StatusFollowsCount ==
    /\ device.status = "NORMAL" <=> device.attempts = 0
    /\ device.status = "COMPROMISED" <=> device.attempts = Threshold

\* The count in the row and the ones that runs under way have read or written, or
\* that an alert was created for, are all earned.
CountsEarned ==
    /\ device.attempts <= earned
    /\ \A r \in Runs :
          /\ run[r].pc = "update" => run[r].real /\ run[r].attempts < Threshold
          /\ run[r].pc \in {"update", "notify"} => run[r].attempts <= earned
    /\ repeated => earned >= Threshold

\* Alerts of this window and runs about to create one are together no more than
\* the runs.
Creating == {r \in Runs : run[r].pc = "create"}
RunsBoundAlerts == sent + Cardinality(Creating) <= Cardinality(Runs)

AlertsInv ==
    AlertsTypeOK /\ HeartbeatFollows /\ StatusFollowsCount /\ CountsEarned /\ RunsBoundAlerts

----------------------------------------------------------------------------
(* The screens *)

\* Offline set-ups on either side of what is required, and complete ones.
SetupCases == {setup \in Setups : setup.done \in {3, 4, 6}}

\* The input of the network health page: the device and a second one that is
\* protected, and detections and commands on the household's gateway, if any.
Inputs ==
    LET verdict == <<GetForDevice(device, session), "VERIFIED">>
        summary == GetSummary({1, 2}, verdict)
    IN {[protected |-> summary.protected, devices |-> summary.total,
         bypassSuspected |-> IF device.status = "NORMAL" THEN 0 ELSE 1,
         vpn |-> detections, doh |-> detections, online |-> 1,
         considered |-> commands, succeeded |-> 0] : detections \in 0..1, commands \in 0..1}

\* The screens tell one story.  Health page, weekly report and connection quality
\* call the device protected at the same times, but for the minute that the health
\* page rounds away; what the health page says of a lock is what the scan sees; a
\* COMPROMISED device is never rated HIGH and never leaves the Security section
\* green; insights ask for the offline set-up exactly if its own page does, and
\* without a recommendation never go with a LOW score; and the overall protection
\* lies between its sections.
ScreensAgree ==
    LET verdict == GetForDevice(device, session)
        minute == device.seen # Never /\ device.seen > Fresh /\ device.seen < Fresh + Minute
    IN /\ ~minute => /\ verdict = "VERIFIED" <=> ReportProtected(device.seen)
                     /\ verdict = "VERIFIED"
                          <=> ComputeConnectionQuality(device.seen) \in {"EXCELLENT", "GOOD"}
       /\ verdict = "NEEDS_ATTENTION" /\ device.locked /\ device.lockAge > Stale => Suspect
       /\ \A setup \in SetupCases :
             LET score == CalculateProtectionScore(device, setup)
                 advice == Recommendations(device, setup)
             IN /\ device.status = "COMPROMISED" => ProtectionLevel(score) # "HIGH"
                /\ advice = {} =>
                      ~SetupRequired(setup) /\ ProtectionLevel(score) # "LOW"
                /\ SetupRequired(setup) <=> advice \cap {"guide", "checklist"} # {}
                /\ RecommendNextStep(setup) = "complete" => ~SetupRequired(setup)
       /\ \A input \in Inputs :
             LET s == Sections(input)
                 percents == {s[i].percent : i \in {j \in DOMAIN s : s[j].weight > 0}}
             IN /\ OverallProtection(input) \in Min(percents)..Max(percents)
                /\ device.status # "NORMAL" => ColorForPercent(Security(input)) # "green"
============================================================================
