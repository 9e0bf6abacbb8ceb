# TLA+ verification of the parental-control backend

This directory holds TLA+ models of the NestJS backend under `src/`, the TLC
configurations that check them on small instances, and TLAPS proofs that carry the most
important results to every instance. `PROJECT.json` lists components, runs, mutants, the
map from definitions to source lines, hazards and theorems.

Run a check with `tlc -config <run>.cfg <module>` and a proof with `tlapm <module>.tla`
(module and configuration of every run are in `PROJECT.json`).

## 1. The system

A parent manages children, devices and sessions over a REST API. A DNS resolver asks the
backend for an ALLOW or BLOCK answer to every query of the household; a gateway agent
(router or Raspberry Pi) and an Android agent poll it for policies and commands. State
lives in Postgres (Prisma), Redis (cache-manager and BullMQ) and nowhere else: several
replicas of the Node process may serve the same household. Inside a process every `await`
is a point where another request, or a cron job, can run. Few operations use a
transaction, so most hazards lie between a read and the write that depends on it.

| Component | State | Operations | Interacts with |
|---|---|---|---|
| dns-policy | `dns:<ip>:<version>:<domain>` decisions (30 s), `dnsver:<ip>` versions (24 h) | `checkPolicy`, `invalidateSourceIps` | reads devices, sessions, blocked domains, category blocks; bumped by devices and enforcement |
| devices | device row: three addresses, `internetLocked`, status | `lockInternet`, `unlockInternet`, `update`, `remove` | bumps dns-policy |
| enforcement | `device.status`, adapters | `blockDevice`, `unblockDevice`, `handleOfflineViolation`, router sync | adapters, queue, dns-policy |
| sessions | session row: status, duration, extension, remaining, startedAt, resumedAt | `start`, `pause`, `resume`, `extend`, `stop`, `expire` | scheduler, dns-policy (with a formula of its own), rules (daily limit) |
| scheduler | none; works on snapshots | `checkActiveSessions`, `checkRulesAndSchedules`, `enforceDeviceSchedules`, `detectDnsBypass`, `monitorDeviceHealth`, `notifyLowProtection` | sessions, enforcement, category blocks, notifications |
| auth | user row: attempts, lockedUntil, refreshToken hash | `register`, `login`, `refresh`, `logout` | guards |
| pairing | pairing_sessions rows, device pairing columns, IP history | `startPairing`, `cancelPairing`, `confirmProbe` | the resolver, dns-policy (through `dnsSourceIp`) |
| queue, child-agent, router-command | Command and RouterCommand rows, BullMQ jobs | `enqueueCommand`, `getCommands` / `getPendingCommands`, `acknowledgeCommand`, the worker | Android adapter, gateway agent |
| gateway | token, previousToken, its expiry; discovered devices; VPN detections | `register`, `deleteGateway`, `rotateToken`, guard, `getPolicies`, discovery, VPN and DoH reports | gateway agent, devices, bandwidth |
| router-integration | DetectedRouter rows, router commands | `setup`, `recordDetection`, `endGamingSession`, MAC block and unblock, connection test; vendor resolution, strategies, score | enforcement (fast path of a block), gateway agent |
| bandwidth | BandwidthLimit rows | `create`, `update`, `remove` | handed to the agent by `getPolicies` |
| categories, rules, children, parents | configuration rows | CRUD | read by dns-policy, scheduler, gateway |
| push, notifications | push tokens, notification rows | `sendToUser`, multicast, pruning | FCM (external) |
| protection, device-health, network-health, offline-control | the offline checklist; otherwise derived values | verdicts, scores, recommendations | read the columns that resolver and scheduler write |
| reports, usage-logs | usage rows; reports cached for 5 minutes | `weekly`, `monthly`, `createLog`, daily and weekly usage | read sessions and logs |

What is hard here, and what makes each component correct:

* **Stale decisions.** A `checkPolicy` call reads the version, the cache, the device, the
  session, the block list and the category in separate awaits, and stores its answer
  under the version it read first. Correct: after an invalidation nothing older is served.
* **Lost updates.** Counters and flags written from an earlier read (failed logins, cache
  versions, bypass attempts). Correct: no attempt and no bump is lost.
* **Single use.** Refresh tokens and pairing tokens are presented by retries and
  duplicates. Correct: each takes effect once, and never after it was revoked.
* **Clocks.** Sessions are measured from columns that pause, resume and extend rewrite,
  by two formulas. Correct: a session lasts as long as granted and does end.
* **Partial failure.** Handlers of several statements without a transaction, and
  transactions with a statement outside of them.
* **Delivery.** Polls mark rows before the answer arrives; answers get lost.
* **Rotation.** An agent must never be left with a token the guard no longer takes.
* **Two ways to the router.** A block is a status that the agent polls, and a command
  that the agent runs later. Correct: both end up saying the same, and what a deleted
  gateway leaves behind is bounded.
* **One timestamp, many judges.** Six pages and two crons read `lastDnsSeenAt`, with
  thresholds and roundings of their own. Correct: they do not contradict each other, and
  no alarm is raised that the device did not earn.
* **Calendars.** Windows of whole days are cut into buckets of milliseconds, and cached
  under a key without a date. Correct: nothing is counted twice or lost, and no old
  report stays.

## 2. Modules

| Module | Models | State and actions |
|---|---|---|
| `DnsPolicy` | the decision of `checkPolicy` | `Decide` over a snapshot, in the order of the code |
| `DnsCache` | cache, versions, `checkPolicy`, the four invalidating calls, all silent changes, Redis expiry | one action per await: `CheckStart` ... `Store` for a query, `WriteStart` ... `WriteReturn` for a lock, unlock, block or unblock, `Bedtime`, `GatewayBlock`, `SessionChange`, `DomainChange`, `CategoryChange`, `MoveAddress`, `Expire`, `VersionExpire` |
| `Auth` | `AuthService` for one account | `RegisterStart/Create`, `LoginStart/Fail/Reset`, `Mint`, `Persist`, `RefreshStart/Swap`, `Logout`, `Abort`, `Tick` |
| `SingleUseToken` | what refresh tokens promise | `SignIn`, `Exchange`, `Refuse`, `SignOut`; `Auth` implements it |
| `Sessions` | `SessionsService` and the expiry cron for one device | `StartCheck/Limit/Create`, `OpRead/OpWrite` for the other requests, `JobScan` ... `JobCategory` and `JobFails` for the cron, the parent's unblocks, `Tick` |
| `Pairing` | `PairingService` for one device | `StartDelete/Create/Status`, `Cancel`, the transaction of a confirmation (`ConfirmFind` ... `ConfirmCommit`, `ConfirmReject`, `ConfirmAbort`), `Beacon` / `Heartbeat` / `HeartbeatMove`, `HomeMoves` |
| `Commands` | both command tables and the BullMQ worker | `Create`, `AddJob`, `JobMark`, `JobFails`, `PollRead/Mark`, `Receive`, `PollLost`, `Ack`, `AckUnanswered` |
| `GatewayTokens` | `rotateToken`, the guard, the hand-over in `getPolicies` | `RotateRead/Update/Fails`, `GraceEnds`, `RowDeleted`, `GuardToken/Previous`, `Policies`, `PoliciesGone`, `Answer`, `AnswerLost` |
| `GatewayPolicies` | the rest of what passes between household and agent: limits and VPN detections | `CheckLimit` and `CreateLimit`, `UpdateLimit`, `RemoveLimit`, `PollPolicies/Limits/Answer/Lost`, `CheckDetection` and `RecordVpnDetections`, `MoveDevice`, `RemoveChild`, `DeleteGateway` (any gateway, the agent's own too) |
| `Capabilities` | capability matrix, vendor resolution, strategies, score | operators |
| `Routers` | `blockDevice`, `unblockDevice` with adapter and router sync, set-up and detection of routers, their commands, the polled policy, for one device | `CallStart/Write/Route/Enqueue/Upsert/Fails`; `EndGamingSession`, `Setup`, `RecordDetection`, `QueueMac`, `QueueTest`; `Register`, `DeleteGateway`, `Attach`, `SetLock`, `GatewayBlock`, `LinkMicrosoft`; `AgentPoll`, `AgentRun`, `CommandFails` |
| `Health` | verdicts, protection score, recommendations, offline set-up, network health page | operators |
| `Alerts` | the DNS heartbeat, `detectDnsBypass`, `monitorDeviceHealth`, and the pages of `Health` over one device | `Query`, `HeartbeatLost`, `SetLock`, `SetSession`, `ScanBypass`, `FlagBypass`, `NotifyBypass`, `ScanHealth`, `CheckRecent`, `NotifyDisconnected`, `RunFails`, `WindowEnds`, `Tick` |
| `Reports` | `ReportsService.build` with its cache, `createLog`, the usage pages | `ReportBegin/Children/Read/Store/Expires`, `StartSession`, `ReportUsage`, `RemoveChild`, `Tick` |
| `Schedules` | `enforceDeviceSchedules` and `checkRulesAndSchedules` for one device | `JobScan`, `JobLock`, `JobUnlock`, `JobKeep`, `JobDaily`, `JobCategory`, `JobFails`; `RuleScan`, `RuleBlock`, `RuleRefused`; `Missed`; the parent's `ParentLock`, `UnlockInternet`, `UpsertSchedule`, `Unblock`, `UnblockGaming`, `StartSession`; `Tick` |
| `Push` | `NotificationsService.create`, `sendToUser`, `sendMulticast` | `Create`, `ReadTokens`, `ReadFails`, `Batch`, `BatchFails`, `Prune`, `PruneFails`, `Flag`; `Register`, `Remove` |
| `MCDnsCache`, `MCSessions`, `MCReports`, `MCGateway`, `MCAuth` | instances for TLC: two scenes in one run each, so that TLC can exhaust both; the calendar; a common budget of rotations and changes; symmetry | every step is a step of the module they extend |
| `DnsCacheProofs`, `AuthProofs`, `CommandsProofs`, `PairingProofs`, `NotificationsProofs`, `GatewayProofs`, `SchedulesProofs`, `SessionsProofs` | theorems and proofs about the module of that name (`GatewayProofs`: `GatewayTokens` and `GatewayPolicies`; `CommandsProofs`: `Commands` and `Routers`; `NotificationsProofs`: `Push` and `Alerts`) | |

`DnsCache` composes `DnsPolicy` with every component that changes what a decision depends
on; `Sessions` composes the session service with the scheduler; `Commands` composes the two services, the queue and the Android
adapter; `Schedules` composes the two bedtime crons with the calls of devices,
enforcement, protection and categories that change the same columns; `Push` composes
notifications, push and the FCM client. `Routers` composes enforcement, its adapters,
router-integration, the gateway's rows and the agent; `GatewayPolicies` extends
`GatewayTokens`, as every request of the agent has to get past the guard, and adds
bandwidth, devices and children; `Alerts` composes resolver,
scheduler and the pages that judge a device; `Reports` composes reports, usage logs,
sessions and children.

Conventions. An action stands for the code between two awaits; history variables
(`epoch`, `bumped`, `regressed`, `returned`; `issued`, `redeemed`, `refused`; `used`,
`late`, `aged`; `gone`, `paired`; `received`, `dropped`, `byWorker`; `outrun`, `rejected`;
`calm`, `tonight`, `held`; `alone`, `late`; `query`, `earned`, `repeated`) record what happened and are never read by a guard
of the code. Definitions that begin with the comment *Mutant* are wrong on
purpose: each replaces the definition after it to show that a property can fail.
A rejected request whose handler writes nothing is not a step.

Data abstractions. One device, account or gateway per module, since the code handles rows
independently by id; addresses, names and agents are model values; a token is the number
under which it was generated (UUIDs and JWT ids are taken as unique, SHA-256 as
injective); time counts minutes (or the unit of the lifetime in question). In `DnsCache`
whether the session time is up is a flag that may change at any moment; `Sessions` says
how it is computed. `Alerts` keeps time as ages, cut off where nothing tells them apart;
its thresholds keep the order of those in the code. `Reports` counts ticks, with days
whose number of ticks is given by the calendar `DayLength`. In `Routers` a vendor string
is the set of patterns it matches, the strategies of a command keep their places in the
priority list, and the router is external: a block takes effect by one of its strategies
and is lifted by the matching unblock. A name listed in the block list is one that
`findBlockedDomain` matches.

## 3. Runs

| Run | Bounds | What it shows |
|---|---|---|
| `DnsCacheScenes` | 2 changes; at home one query and one unlock or unblock at a time, two names, one of them a DoH resolver in strict mode, five silent kinds of change, failures; on the move two lock or block calls, two addresses, one of which changes | `BumpOrphansStale`: once a bump for the latest change was written, nothing computed before is served. `LockTakesEffect`: a returned lock is in force at every address of the device. `InvalidationComplete`: a block covers every address of the row it read. `StalenessEnds`: whatever became of the bumps, staleness ends with the time to live |
| `AuthTokens` | three overlapping requests, 3 tokens, 3 failures, limit 2 | `RedeemedOnce`; `ImplementsSingleUse` (refinement): a refresh is answered only in a step that exchanges the live token it presented, and refused only if that is dead; `FullCountLocks`: a stored full count is never without its lock |
| `SessionsClock` | one session of 2 minutes, 5 minutes, requests in the first 2; two overlapping requests and the cron, of which one request and the run may cross a minute; or one request at a time, one failing step and the parent's unblocks | `RemainingTracksUse`: no granted minute is lost. `NoEarlyExpiry`, `ActiveSessionsEnd`, `GamingBlockedAfterExpiry` |
| `PairingTokens` | two overlapping starts, two probes, 3 tokens, 1 address change | `InvalidatedNeverPairs`: a token that was used or deleted never pairs again. `AddressRepaired` |
| `PairingStarts` (violation) | the same | `OneLiveSession`, "One live session per device" (`pairing.service.ts:37`): two starts both delete before either creates, and two sessions stay |
| `CommandsFaulty` | two router commands, one Android command, a poller each, 2 lost messages, 3 attempts | `GivenOnce`; `DeliveredIsAccounted`: a row marked and not received is in an answer under way, was in a lost one or was marked by the worker; `SettledIsFinal`; `EveryCommandSettles`: all others are settled in the end |
| `GatewayAgent` | two overlapping rotations, 4 tokens, 1 lost answer in a row; one device, two children, two gateways; 4 rotations and changes together, 3 changes at most | `NeverLockedOut`: the agent is turned away only if it was outrun; `AgentUpToDate`: unless outrun it ends up with the current token and the limits that apply; `OrphansAreLate`: a detection outlives its gateway only behind a request under way |
| `SchedulesNights` | days of 4 minutes, weeks of 2 days, a rule from the last minute of one day into the next; 2 interventions of parents, 1 failed, refused or missed run | `BedtimeFollowed`, `ManualLockKept`, `LimitFollowed`, `NightBlocked`, `BedtimeLockEnds` |
| `PushRetries` | two users, two tokens, two notifications at the same time, 3 attempts as in the code, any answer for any token, 1 change of tokens | `ReportedOnce`, `SendEnds` |
| `RoutersSync` | two overlapping calls, one gateway, four kinds of vendor strings, 1 command waiting, 2 interventions or failures | `RouterFollowsStatus`: the fast path leaves the router as the status says. `StrayRowsAreLate`: rows outlive their gateway only behind a request under way. `RatingHonest`: stars, on either screen, and features promise what enforcement can do. `PolicyConverges`: the polled policy follows the database whatever became of the commands |
| `AlertsScans` | two overlapping cron runs, thresholds 1 to 6, 3 scans to escalate, 1 failed statement | `AlertsEarned`, `ScreensAgree`, `SilentLockEscalates` |
| `ReportsDays` | two children, windows of 3 days; a calendar of days of 2, 3, 2, 1, 2, 2 and 2 ticks with 3 changes of rows, or two reports under way over a midnight with 1 change | `ReportsAddUp`: windows, buckets, days and weeks count every row once, a change of clocks moves one to a neighbouring day at most. `ReportsCatchUp`: torn and outdated reports do not last |

Why the bounds are enough to be interesting: two policy changes let an answer straddle one
change and its bump, and two writers let bumps overlap; three requests let two refreshes
race a login; two probes let a duplicate race the original while the starts of two parents
replace the token; a duration of 2 minutes with an extension of 1 lets a session be
paused, resumed and extended before it runs out; two commands let one be queued between
the two statements of a poll; bedtimes named by two minutes of a day of four can lie
within a day, go past midnight and be empty, and every minute before, in and after them
occurs; three rotations let two overtake the agent between its polls or overlap each
other; one gateway can be deleted under two calls of which one holds its row and the other
its strategies; the ages of `Alerts` lie on either side of every threshold, and three
scans, two of them overlapping, are enough for a count to be written back; a longer and a
shorter day than usual, one usual day apart, put a change of clocks of either kind, and
both, within, at the start and at the end of a window, and usual windows after them have
non-empty buckets of several ticks; three changes let a limit be created for a child that
then loses the device. All cap counters that the code leaves unbounded; the caps are
CONSTANTS and are marked as bounds. Deadlock is checked except where every actor may
rightly stop (`Sessions`, `Pairing`, `Commands`, `Push`, `Routers`, `Reports` at the end
of their clocks, tokens and changes).

Conditions under which properties hold, found by checking without them first:

* `NoEarlyExpiry` excepts two kinds of sessions, which the histories name: one that was
  not running while a snapshot held it for longer than a minute (`aged`), as the snapshot
  goes on ageing, and one whose resume was stored in a later minute than it was computed
  in (`late`), as it is charged for the minutes between. Both can end early.
* `RemainingTracksUse` is an equation until the first resume and a lower bound after it:
  `resume` measures from `resumedAt` against the whole duration and so grants the minutes
  used before the pause again. It excepts `late` sessions.
* `NeverLockedOut` is about an agent that was not outrun (`outrun`): since it last had the
  current token, the grace period did not pass, the gateway was not deleted, and no
  rotation overlapped another or came before the agent had taken up the token of the
  one before. Otherwise the only previous token is overwritten and the agent is locked
  out, against `gateway-token.guard.ts:49-50`. How often parents rotate and when the agent
  polls is not restricted.
* `OrphansAreLate` excepts detections whose request made its checks before the deletion of
  the gateway and wrote after it (`gateway.service.ts:465-477`): no foreign key stops
  them and nothing deletes them, against `gateway.service.ts:113-114`.
* `EveryCommandSettles` and `DeliveredIsAccounted` except the commands of an answer that
  was lost (`dropped`) and Android commands that the worker marked first (`byWorker`):
  rows are marked DELIVERED before the answer is sent and never selected again. A loss
  takes no other command with it.
* `SettledIsFinal` is for router commands: a BullMQ job that runs after the
  acknowledgement takes an Android command back to DELIVERED.
* `GamingBlockedAfterExpiry` holds until a step of `expireSession` fails: EXPIRED is
  written first, so that no later run selects the session again.
* `BedtimeFollowed` and `LimitFollowed` are for minutes in which a run was neither
  disturbed by a parent nor failed, and runs end within their minute. A run that locks
  leaves the daily limit to the next minute.
* `ManualLockKept` is for locks that were in place when the minute began. One that a
  parent sets between the read and the update of a run is overwritten or taken off, and
  so is, at any time, one for which the parent gave a reason that begins with 'Bedtime'.
* `BedtimeLockEnds` is for devices with auto-block on: switching it off during a bedtime
  leaves the lock in place, and no cron looks at the device again.
* `NightBlocked` is for nights in which the one run of the rule was neither missed nor
  refused, and no parent unblocked the device. Nothing unblocks it at `endTime`.
* `RouterFollowsStatus` is for a call that nothing disturbed. Two calls at the same time
  may write the status in one order and queue their commands in the other, and a router
  that is recognised as another one between block and unblock keeps its block;
  `PolicyConverges` is what is left.
* `AlertsEarned` counts nothing once the update of a heartbeat was lost, as its throttle
  key then keeps further ones from being tried for ten seconds.
* `SilentLockEscalates` loses the alert, not the verdict, when a statement fails between
  the two: a COMPROMISED device is not scanned again.
* `ScreensAgree` leaves out the minute after the limit in which the health page, which
  rounds ages down to minutes, still says VERIFIED.
* `ReportsAddUp` says of windows without a change of clocks that a bucket has the minutes
  of its day. With one, a bucket of 24 hours and its day are apart by the hours changed: a
  session counts for its own day or the one before or after, and in a window with an
  hour too many one of the last day may count for none.
* `LockTakesEffect` is not claimed of `blockDevice`, which invalidates the addresses of
  the row read before the adapter call, nor of the scheduler's bedtime lock and
  `GatewayService.blockDevice`, which invalidate nothing; for those `StalenessEnds` is
  what is left.

Seen while modelling, without a run of their own (those against a comment, doc or test
are also under `findings` in `PROJECT.json`):

* The resolver has a formula of its own for the time left (`dns-policy.service.ts:192`):
  in `remaining - (elapsed - (duration - remaining))` the column `remaining` cancels out, so
  that the minutes `extend` adds are not credited, while the scheduler adds them
  (`test/scheduler.spec.ts:43`: "extendedMinutes are credited toward remaining time").
* `INVALID_TOKEN_CODES` (`fcm.sender.ts:32-38`), which "mean the token itself is dead", holds
  `invalid-argument` and `mismatched-credential` too, which FCM answers for a bad payload
  or a wrong project: tokens of installed apps are then pruned. `Push` lets FCM call any
  token invalid.
* Wrong passwords tried at the same time count once, since `failedLoginAttempts` is
  written from a row read before `bcrypt.compare` (`auth.service.ts:99`; `README.md:288`
  says "5 failed logins → 15-minute lockout").
* Pause, start, resume leaves two ACTIVE sessions on a device: `resume`
  (`sessions.service.ts:73`) does not make the check with which `start` rejects a second
  one. Two starts at the same time do so as well.
* A message goes to the tokens read at the start of `sendToUser`; one that changes hands
  before a retry gets a message of its former user. `sentViaFcm` is set when nothing was
  sent, too (no token, or none accepted).
* The comment at `router-command.service.ts:12-15` says of `ChildAgentService.getCommands`
  that it marks before it queries; the code queries first and marks what it returns.
* The version of an address is meant never to be used again ("a version reset can never
  resurrect a stale decision", `dns-policy.service.ts:74-75`), but bumps count up from
  the value read: when the key ends its 24 h while decisions are cached under its number,
  the next bumps arrive there again, and so does a bump that was slow to write. This is
  the history variable `regressed` of `DnsCache`.
* `attempts` of a pairing session is "Incremented on every confirm attempt"
  (`schema.prisma:304-305`); the throw that rejects rolls the increment back.
* "BullMQ command delivery queue" (`README.md:48`): the worker marks a row DELIVERED,
  which the agent's poll then skips, so that the agent never gets the command.
* Routers: a guide-only router scores 5 (BASIC), where the comment of `computeScore` has
  it at 0; the matrix has 25 guide-only rows where its comment counts 24
  (`router-capability.matrix.ts:357`). `vendorPluginId` of a set-up, which "overrides
  auto-detection" (`router-integration.dto.ts:5`), is overwritten by the next scan. The
  features page and the diagnostics page rate an unrecognised router that reported its
  firmware differently. `END_GAMING_SESSION` may leave a pause that no status speaks of.
  `lastTestResult` is read (`network-health.service.ts:27`) and never written: the Router
  section always says Not Tested. `inferControlMethod` makes devices of type OTHER
  MOCK ones, whose blocks succeed without effect, and nothing sets the device status
  PAUSED, so that `getPolicies` never answers THROTTLE.
* `handleOfflineViolation` reports success for a console that has no gateway.
* Pages: the Security section never falls below 50 and so is never At Risk, and VPN
  detections alone leave it green; a device may be VERIFIED (15 minutes) while it is
  flagged as a bypass (10 minutes); `protectionStatus` and `bypassAttempts` are never
  reset; the insights may have nothing to recommend while the health page says
  NEEDS_ATTENTION.
* A run of `detectDnsBypass` that overlaps another may take a COMPROMISED device back to
  a lower count and status, until later runs escalate again.
* Usage: `getWeeklyUsage` names days by their UTC date; limits of the same subject and
  category are decided by the order of the rows; a slow report replaces a newer one for
  up to 5 minutes, and the key of a report does not name its day.
* VPN detections go with their gateway; DoH detections, which name a device only, stay.
* `oauth.service.ts:67` keys accounts by `sub`, or `'unknown'`: accounts without one share
  a row.

The README's decision order (`README.md:264-272`) differs from the code's in the order of
the device checks and of session and block list; `DnsPolicy` follows the code.

### Fairness

The MC modules assume the fairness of the module they extend; the steps that a scene
leaves out are none of those it is assumed of. One bound does concern a fair step: in
`MCSessions` a minute passes only while at most one request is under way, so that of two
requests one ends within its minute.

* `DnsCache`: a `checkPolicy` call that was started goes on (weak fairness of its steps)
  and Redis drops a decision after its time to live. Nothing of parents, writers, cron.
* `Sessions`: `@Cron(EVERY_MINUTE)` fires and a run goes on; time passes. Nothing of
  parents.
* `Pairing`: confirmations under way end; the app goes on sending its beacon, also while
  pairing probes fail again and again, hence strong fairness of the beacon's steps.
* `Commands`: agents poll and acknowledge what they received; BullMQ runs its jobs.
* `Schedules`: both crons fire and their runs go on; time passes. Nothing of parents, and
  no failure or missed run has to happen.
* `Push`: a `create` that was called goes on; FCM answers or the call rejects.
* `GatewayPolicies`: the agent polls, its requests go on, and at most `MaxLost` answers
  are lost in a row. Nothing of parents.
* `Routers`: the agent goes on polling. Nothing of calls, parents, or commands.
* `Alerts`: the bypass cron fires again and again, also where other runs come in between
  (strong fairness), and the runs go on. Neither queries nor the health cron have to
  happen.
* `Reports`: the cache drops a report after its time to live.

## 4. Proofs

`DnsCacheProofs` proves, for any sets of queries, writers, addresses, names and any number
of changes, `TypeCorrect`, `BumpIsSound` (`BumpOrphansStale`) and `LockIsImmediate`
(`LockTakesEffect`). The properties are not inductive: they say nothing of answers that
are still being computed. The invariant `IInv` adds

* `CurrentReflectsDb`: what a call computed from a row of the current epoch agrees with
  the database as far as it has got (`Consistent`);
* `VersionsBounded`: unless the version went backwards, no key is ahead of it;
* `PendingBumpSound`: while a writer holds the version it read, everything cached or being
  computed under a *later* version was read after that writer's change. This is what
  makes two overlapping bumps that write the same number harmless;
* `CompletedBumpSound`: everything under the current version postdates every bump;
* `LockCoversAddresses`: a lock bumps the addresses of the row it wrote, in slot order.

There is one lemma per kind of step, and two frame lemmas (`ReaderFrame`, `WriterFrame`)
for the steps that only move one call along. `VersionExpire` and backward writes set
`regressed`, which is why the theorems, like the properties, except such addresses.

`AuthProofs` proves `RefreshSingleUse` (`RedeemedOnce`) and `AuthImplementsSingleUse`
(the refinement `Spec => Chain!Spec`) for any number of requests, tokens and failures.
The abstract specification counts a refresh as answered only by `Exchange`, which takes the
live token to a new one in the step in which the row is swapped, and as refused only
when its token is dead, so that a swap that does not compare (`RefreshSwapBlind`), or a
refusal of the live token, implements nothing of it. `TokenInv` adds that tokens on their way
to the row are fresh and distinct (`PendingFresh`), that the token in the row was not
redeemed (`LiveUnredeemed`) and that a refresh presents a token that was once issued
(`PresentedIssued`).

It also proves `FullCountIsLocked` (`FullCountLocks`), which is inductive next to the types:
`LoginFail` writes count and lock in one update, from a count it read before the hash.

`InvalidationIsComplete` in `DnsCacheProofs` extends the argument for locks to every kind
of call: `WriterCoversAddresses` says that a call whose change is the latest has bumped
each address it has passed on its way through the three slots.

`CommandsProofs` proves `GivenOnce`, `DeliveredIsAccounted` (`MarkedIsAccounted`) and the action
property `SettledIsFinal`. `DeliveryInv` adds what is on its way: a poll holds rows of its own agent
that exist and were never received (`BatchIsNew`), what is still PENDING was not given out
(`WaitingIsNew`), and only received commands are acknowledged. The assumption
`OnePollEach`, one poll of each agent at a time, is needed: rows are selected first and
marked afterwards, so two polls of the same agent would both get them.

`PairingProofs` proves `InvalidatedNeverPairs`, that a token pairs at most once
(`TokensPairOnce`), and the bound that remains where `OneLiveSession` fails: no more
sessions are live than there are callers of `startPairing` (`AtMostOneSessionPerStart`). Two ideas make `PairingInv` inductive: a confirmation past its
first update holds the lock of a row that exists (`LocksHeld`), so nobody deletes the row
before it commits; and live rows and starts about to create one are together no more
than the starts (`StartsBoundRows`), as a start deletes all rows before it creates its own.
The latter counts finite sets, hence the assumption `StartersFinite`. `RepairLasts` is the safety
part of `AddressRepaired`: once `dnsSourceIp` is the household's address and no probe sent
before the last move is under way, it stays so until the next move (`RepairedStays`).

For the calls that queue router commands (`Routers`) `CommandsProofs` proves the types and all
three safety invariants, for any gateways, calls, vendor strings and set-ups:

* `DeletionLeavesNoRows` (`StrayRowsAreLate`). `DeletedIsClean` adds the calls: the gateway of
  a device exists, a call about to write has a gateway, and a deleted gateway that is not in
  `late` has neither rows nor a call that is going to write some;
* `RouterFollows` (`RouterFollowsStatus`). `UndisturbedSync` names the stages of a block or
  unblock that nothing disturbs: its call is the only one under way and has the gateway,
  status and strategies of the device as they are (`UnderWay`), or its command alone is
  queued (`Queued`), or it was executed and the property holds. `BlockStrategiesPersist` is
  why a block can be lifted: every strategy of the block list lasts and is the device's own;
* `RatingIsHonest` (`RatingHonest`). Three stars need 45 points, and a router without the three
  flags of a block could have them with DNS filtering (15), statistics, parental controls,
  discovery and firmware (30). That the matrix has no such row is a fact about its data
  (`DnsRoutersPause`: a router that can change DNS can pause a device), so that 30 is the
  most (`FewStarsWithoutBlocks`). A row added to the matrix with those features and no
  way to block would break the theorem. That the driven line of a brand is recognised (`DrivenLineRecognised`) depends on
  the order of the vendor patterns, and is said of strings that name one brand: one that
  names TP-Link and Nebula, say, is taken for the TP-Link line without an API.

`NotificationsProofs` proves `ReportedOnce` of `Push`, whatever FCM answers for which token.
`PushInv` adds that tokens are pending only within the batches of a send: what a batch has
settled is not sent again.

Of `Alerts` it proves the types, `AlarmsAreEarned` (`AlertsEarned`) and `ScreensTellOneStory`
(`ScreensAgree`), for any number of overlapping runs and any thresholds in the order of the
code's. `AlertsEarned` is not inductive, as it says nothing of the counts that runs have read
and not written yet. `AlertsInv` adds that these are earned too (`CountsEarned`), for which a
scan has to have found a device really silent: until an update is lost `lastDnsSeenAt` is
behind the last query by no more than the throttle (`HeartbeatFollows`). Status and count
go together (`StatusFollowsCount`), and the alerts of a window and the runs about to create one
are no more than the runs (`RunsBoundAlerts`, a count of a finite set). For the screens,
`WholeMinutes` is the lemma about the age in whole minutes (it needs `Fresh % Minute = 0`),
`ScoreFollows` bounds the protection score by its parts, and `OverallBetween` says for all
counts, not only those of the run, that the rounded weighted mean lies between the sections
that have a weight.

`GatewayProofs` proves that `GatewayPolicies` implements `GatewayTokens`
(`PoliciesImplementTokens`), step by step, and with it `NeverLockedOut` of the composed
specification (`AgentNeverLockedOut`), for any schedule of rotations, polls, losses and
deletions. `GatewayInv` says that an agent that was not outrun has the current token or the
previous one in its grace period, and that what its poll under way has found out is
still so. `DetectionsRefer` (`DetectionsAlwaysRefer`) says that devices are behind a gateway that
exists and a detection about to be recorded is of one that exists or was overtaken by a
deletion; `OrphansAreLate` follows (`OnlyLateDetectionsOrphaned`).

`SchedulesProofs` proves the four action properties of the bedtime crons for days and weeks
of any length. `BedtimeIsWindow` is the lemma about `isWithinBedtime`: its two cases, within a
day and past midnight, name exactly the minutes counted round the clock from start to
end. `SchedulesInv` says what a run under way may rely on: it has seen a parent's lock that
was there when the minute began (`HeldIsSeen`); while nothing interferes it works on the row
as it is (`CalmRow`), and past its lock or unlock the lock follows the bedtime (`CalmBed`) and,
when it is over, the limit (`CalmLimit`); a night of the rule is blocked or is in its first
minute with the run still to come (`NightHeld`).

`SessionsProofs` proves `TypeOK`, `RemainingTracksUse` and `NoEarlyExpiry` for any number of
overlapping requests and runs, which may take as long as they like. `SessionsInv`
relates the columns to the history `used`: no session has been used for longer than it
exists (`UseIsTime`); a running one has been used since its reference point at least, and
for all of its time while that is its start (`ActiveIsUsed`, but for `late` sessions); and a
snapshot still says how long its sessions have run, so that a session about to be
expired has had its minutes, whatever requests have made of its row meanwhile
(`SnapshotIsFresh`, but for `late` and `aged` sessions).

The inductive invariants stand at the end of the modules they are about and were checked
by TLC, with the constants of the runs, before they were proved.

Assumptions: those named in the modules, which TLC evaluates in the runs: the ranges of
bounds and that `Null` is none of the values (`PolicyAssumption`, `CacheAssumption`,
`AuthAssumption`, `CommandsAssumption`, `PairingAssumption`, `PushAssumption`, `GatewayAssumption`,
`PoliciesAssumption`, `SchedulesAssumption`, `SessionsAssumption`, `AlertsAssumption`,
`RoutersAssumption`, `ReportsAssumption`), the order of the thresholds (`HealthAssumption`), one
poll of each agent at a time (`OnePollEach`) and finitely many starts (`StartersFinite`).
No theorem has a condition of its own.

Only model-checked:

* the liveness properties: TLAPS here has no reasoning about fairness and ENABLED;
* `ReportsAddUp`, which compares sums over rows (folds): what a fold computes takes
  induction over data, which the installed provers lack.

## 5. Not modelled

Query log and unknown-domain records of `checkPolicy` (written without being awaited and
read by no decision) and the label matching of `findBlockedDomain`; `notifyLowProtection`
with the stored copy of the score, and `notifyTenMinutesLeft` (they look for an alert
before they create one, like `monitorDeviceHealth`, which is modelled); the cache of the
health summary; connection events and history queries; time requests and status reports
of the agents, which nothing reads back; request signatures, encryption and JWT
verification (cryptography); OAuth and FCM (external services); plain storage (profiles
of children and parents, rules, read flags, audit log) and read-only endpoints (metrics,
health); static data (platform matrix, setup guides, legal pages, seed domains);
controllers, DTOs and modules (wiring and validation). `PROJECT.json` gives the status of
every component.

## 6. Plan

The parts of the system with state of their own are modelled, and every safety property of
the passing runs is proved but for the one that compares sums. `RepairLasts` is the safety part of one
liveness property; those of the others (`PolicyConverges`, `SilentLockEscalates`,
`StalenessEnds`) are worth stating and proving likewise.
