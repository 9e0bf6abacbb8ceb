------------------------------ MODULE Routers ------------------------------
(***************************************************************************)
(* Blocking one device at the router.  EnforcementService.blockDevice and  *)
(* unblockDevice let the adapter of the device answer, write device.status *)
(* and then queue a command for the detected router; the gateway agent     *)
(* polls getPolicies besides.  Meanwhile parents set up, scan, attach and  *)
(* delete gateways.                                                        *)
(*                                                                         *)
(* The router and the agent are external: a BLOCK_DEVICE command takes     *)
(* effect by one of its strategies, and UNBLOCK_DEVICE lifts a block made  *)
(* by one of its own.                                                      *)
(***************************************************************************)
EXTENDS Capabilities

CONSTANTS Gateways, Calls, Null,
          Methods,       \* the controlMethod a device may be created with
          Types,         \* the types of devices the child's agent registers
          Reports,       \* the vendor strings a scan may report
          Firmware,      \* whether a scan reports a firmware version
          SetupPlugins,  \* the vendorPluginId of a setup, NoPlugin for none
          MaxCommands,   \* bound: commands waiting at a time
          MaxChanges     \* bound: interventions other than block and unblock, and failures

ASSUME RoutersAssumption ==
    /\ Null \notin Gateways
    /\ \A r \in Reports : r \subseteq DOMAIN Matrix
    /\ Firmware \subseteq BOOLEAN

VARIABLES
    device,    \* gateway, status, locked, and its controlMethod
    linked,    \* a Microsoft account is linked
    gateway,   \* "unused", "present" or "deleted"
    router,    \* the DetectedRouter row of a gateway
    commands,  \* the PENDING router commands of a gateway, oldest first
    call,      \* the calls under way
    policy,    \* the action the agent enforces for the device
    cut,       \* the strategies by which the router holds the device off
    changes,
    alone,     \* history: the last call ran undisturbed
    late       \* history: gateways deleted under a call

routersVars == <<device, linked, gateway, router, commands, call, policy, cut,
          changes, alone, late>>

InferControlMethod(type) ==
    CASE type \in {"ANDROID_PHONE", "ANDROID_TABLET"} -> "ANDROID_AGENT"
      [] type \in {"IPHONE", "IPAD"} -> "IOS_SCREEN_TIME"
      [] type = "XBOX" -> "XBOX_ADAPTER"
      [] type \in {"PLAYSTATION", "SMART_TV", "STREAMING_BOX"} -> "NETWORK_GATEWAY"
      [] OTHER -> "MOCK"

NoRow == [plugin |-> "no row", firmware |-> FALSE]
IdleCall == [pc |-> "idle", op |-> "none", gw |-> Null, strategies |-> <<>>, row |-> NoRow]

RoutersInit ==
    /\ device \in {[gateway |-> g, status |-> "OFFLINE", locked |-> FALSE,
                    method |-> m] : g \in Gateways \cup {Null},
                                    m \in Methods \cup {InferControlMethod(t) : t \in Types}}
    /\ linked = FALSE
    /\ gateway = [g \in Gateways |-> IF g = device.gateway THEN "present" ELSE "unused"]
    /\ \E row \in {NoRow} \cup {[plugin |-> ResolveVendor(r), firmware |-> FALSE] : r \in Reports} :
          router = [g \in Gateways |-> IF g = device.gateway THEN row ELSE NoRow]
    /\ commands = [g \in Gateways |-> <<>>]
    /\ call = [c \in Calls |-> IdleCall]
    /\ policy = [g \in Gateways |-> Null]
    /\ cut = [g \in Gateways |-> {}]
    /\ changes = 0
    /\ alone = FALSE /\ late = {}

\* Whatever interferes with a block or unblock under way.
Disturb ==
    /\ changes < MaxChanges
    /\ changes' = changes + 1
    /\ alone' = FALSE

Plugin(g) == IF router[g] = NoRow THEN NoPlugin ELSE router[g].plugin

----------------------------------------------------------------------------
(* The control adapters: does blockDevice / unblockDevice report success?  *)

GatewayAdapter(row) == row.gateway # Null
FallbackToGateway(row) == row.gateway # Null
XboxAdapter(row) == linked \/ FallbackToGateway(row)

\* The agents' commands are the subject of Commands; iOS reports a failure, having
\* queued one.
AndroidAgentAdapter == TRUE
IosScreenTimeAdapter == FALSE
MockAdapter == TRUE

\* getAdapter, then blockDevice or unblockDevice of it.
AdapterSucceeds(row) ==
    CASE row.method = "NETWORK_GATEWAY" -> GatewayAdapter(row)
      [] row.method = "XBOX_ADAPTER" -> XboxAdapter(row)
      [] row.method = "IOS_SCREEN_TIME" -> IosScreenTimeAdapter
      [] row.method = "ANDROID_AGENT" -> AndroidAgentAdapter
      [] OTHER -> MockAdapter

----------------------------------------------------------------------------
(* EnforcementService *)

Idle == \A c \in Calls : call[c].pc = "idle"
Delivered == \A g \in Gateways : commands[g] = <<>>
StatusOf(op) == IF op = "unblock" THEN "ONLINE" ELSE "BLOCKED"
CommandOf(op) ==
    CASE op = "block" -> "BLOCK_DEVICE" [] op = "unblock" -> "UNBLOCK_DEVICE"
      [] op = "end" -> "END_GAMING_SESSION" [] op = "setup" -> "TEST_CONNECTION"
      [] OTHER -> op

\* Mutant: blocks with every strategy the router has.
PriorityWide(op) == StrategyPriority

PriorityOf(op) == IF op = "end" THEN StrategyPriority ELSE BlockStrategyPriority

\* blockDevice / unblockDevice read the device and ask its adapter.
CallStart(c, op) ==
    /\ call[c].pc = "idle"
    /\ call' = [call EXCEPT ![c] = IF AdapterSucceeds(device)
                  THEN [IdleCall EXCEPT !.pc = "write", !.op = op, !.gw = device.gateway]
                  ELSE IdleCall]
    /\ alone' = (Idle /\ AdapterSucceeds(device) /\ Delivered)
    /\ UNCHANGED <<device, linked, gateway, router, commands, policy, cut, changes, late>>

CallWrite(c) ==
    /\ call[c].pc = "write"
    /\ device' = [device EXCEPT !.status = StatusOf(call[c].op)]
    /\ call' = [call EXCEPT ![c].pc = "sync"]
    /\ UNCHANGED <<linked, gateway, router, commands, policy, cut, changes, alone, late>>

\* syncToRouter and enqueueStrategyCommand: nothing is queued for a device
\* without gateway or a router without a usable strategy.
CallRoute(c) ==
    /\ call[c].pc = "sync"
    /\ LET s == BuildStrategies(Plugin(call[c].gw), PriorityOf(call[c].op))
       IN call' = [call EXCEPT ![c] = IF @.gw = Null \/ DOMAIN s = {} THEN IdleCall
                                      ELSE [@ EXCEPT !.pc = "enqueue", !.strategies = s]]
    /\ UNCHANGED <<device, linked, gateway, router, commands, policy, cut, changes, alone, late>>

\* enqueueCommand: the row does not refer to the gateway by a foreign key.
CallEnqueue(c) ==
    /\ call[c].pc = "enqueue" /\ Len(commands[call[c].gw]) < MaxCommands
    /\ commands' = [commands EXCEPT ![call[c].gw] =
                      Append(@, [type |-> CommandOf(call[c].op), strategies |-> call[c].strategies])]
    /\ call' = [call EXCEPT ![c] = IdleCall]
    /\ UNCHANGED <<device, linked, gateway, router, policy, cut, changes, alone, late>>

\* A statement throws; syncToRouter turns it into an answer.
CallFails(c) ==
    /\ Disturb /\ call[c].pc # "idle"
    /\ call' = [call EXCEPT ![c] = IdleCall]
    /\ UNCHANGED <<device, linked, gateway, router, commands, policy, cut, late>>

----------------------------------------------------------------------------
(* Parents and scans *)

Change == Disturb /\ UNCHANGED <<policy, cut>>

\* A request about a gateway reads it first (assertOwnership) and writes later.
Owned(c, g, pc, op, row) ==
    /\ Change /\ call[c].pc = "idle" /\ gateway[g] = "present"
    /\ call' = [call EXCEPT ![c] = [IdleCall EXCEPT !.pc = pc, !.op = op, !.gw = g, !.row = row]]
    /\ UNCHANGED <<device, linked, gateway, router, commands, late>>

\* endGamingSession: every strategy of the router.
EndGamingSession(c, g) == Owned(c, g, "sync", "end", NoRow)

\* setup, with the plugin the parent names or none.
Setup(c, g, p) == Owned(c, g, "upsert", "setup", [plugin |-> p, firmware |-> FALSE])

\* recordDetection: the agent reports what it has found.
RecordDetection(c, g, report, firmware) ==
    Owned(c, g, "upsert", "scan", [plugin |-> ResolveVendor(report), firmware |-> firmware])

\* blockMac, unblockMac: a command is queued whatever the router supports.
QueueMac(c, g, type) == Owned(c, g, "enqueue", type, NoRow)

\* testConnection; triggerDetection and changeDns are the same to a block.
QueueTest(c, g) == Owned(c, g, "enqueue", "TEST_CONNECTION", NoRow)

\* A scan replaces the plugin, by null too; a setup keeps it unless one is named.
ScanRow(old, new) == new
SetupRow(old, new) ==
    IF old = NoRow THEN new
    ELSE IF new.plugin = NoPlugin THEN old ELSE [old EXCEPT !.plugin = new.plugin]

\* The upsert of detectedRouter, which does not refer to the gateway by a foreign
\* key either.  A setup goes on to queue TEST_CONNECTION.
CallUpsert(c) ==
    /\ call[c].pc = "upsert"
    /\ router' = [router EXCEPT ![call[c].gw] =
                    IF call[c].op = "scan" THEN ScanRow(@, call[c].row) ELSE SetupRow(@, call[c].row)]
    /\ call' = [call EXCEPT ![c] = IF @.op = "scan" THEN IdleCall
                                   ELSE [@ EXCEPT !.pc = "enqueue", !.row = NoRow]]
    /\ UNCHANGED <<device, linked, gateway, commands, policy, cut, changes, alone, late>>

Register(g) ==
    /\ Change /\ gateway[g] = "unused"
    /\ gateway' = [gateway EXCEPT ![g] = "present"]
    /\ UNCHANGED <<device, linked, router, commands, call, late>>

\* Calls that may still write rows of the gateway.
Writing(g) == \E c \in Calls : call[c].pc # "idle" /\ call[c].gw = g

\* Mutant: the commands of the gateway are left behind.
DeleteGatewayKeepsCommands(g) ==
    /\ Change /\ gateway[g] = "present"
    /\ device' = [device EXCEPT !.gateway = IF @ = g THEN Null ELSE @]
    /\ router' = [router EXCEPT ![g] = NoRow]
    /\ gateway' = [gateway EXCEPT ![g] = "deleted"]
    /\ late' = IF Writing(g) THEN late \cup {g} ELSE late
    /\ UNCHANGED <<linked, commands, call>>

\* deleteGateway, in one transaction.
DeleteGateway(g) ==
    /\ Change /\ gateway[g] = "present"
    /\ device' = [device EXCEPT !.gateway = IF @ = g THEN Null ELSE @]
    /\ router' = [router EXCEPT ![g] = NoRow]
    /\ commands' = [commands EXCEPT ![g] = <<>>]
    /\ gateway' = [gateway EXCEPT ![g] = "deleted"]
    /\ late' = IF Writing(g) THEN late \cup {g} ELSE late
    /\ UNCHANGED <<linked, call>>

\* DevicesService.update; gatewayId is a foreign key.
Attach(g) ==
    /\ Change /\ gateway[g] = "present" /\ device.gateway # g
    /\ device' = [device EXCEPT !.gateway = g]
    /\ UNCHANGED <<linked, gateway, router, commands, call, late>>

\* lockInternet, unlockInternet; GatewayService.blockDevice, unblockDevice.
SetLock(locked) ==
    /\ Change /\ device.locked # locked
    /\ device' = [device EXCEPT !.locked = locked]
    /\ UNCHANGED <<linked, gateway, router, commands, call, late>>

GatewayBlock(status) ==
    /\ Change /\ device.gateway # Null /\ device.status # status
    /\ device' = [device EXCEPT !.status = status]
    /\ UNCHANGED <<linked, gateway, router, commands, call, late>>

LinkMicrosoft ==
    /\ Change /\ ~linked
    /\ linked' = TRUE
    /\ UNCHANGED <<device, gateway, router, commands, call, late>>

----------------------------------------------------------------------------
(* The gateway agent *)

\* Mutant: the internet lock is left to the resolver.
PolicyStatusOnly(row, g) ==
    IF row.gateway # g THEN Null
    ELSE IF row.status = "BLOCKED" THEN "BLOCK"
    ELSE IF row.status = "PAUSED" THEN "THROTTLE" ELSE "ALLOW"

\* getPolicies: the action for the device, if it is one of the gateway's.
PolicyAction(row, g) ==
    IF row.gateway # g THEN Null
    ELSE IF row.locked \/ row.status = "BLOCKED" THEN "BLOCK"
    ELSE IF row.status = "PAUSED" THEN "THROTTLE" ELSE "ALLOW"

AgentPoll(g) ==
    /\ gateway[g] = "present"
    /\ policy' = [policy EXCEPT ![g] = PolicyAction(device, g)]
    /\ UNCHANGED <<device, linked, gateway, router, commands, call, cut, changes, alone, late>>

Persistent == {"PAUSE_DEVICE", "APPLY_FIREWALL_RULE", "BLOCK_MAC"}

\* What the router does with a command: a block takes effect by one strategy.
Executed(m, held) ==
    CASE m.type = "UNBLOCK_DEVICE" -> {held \ Range(m.strategies)}
      [] m.type \in {"BLOCK_DEVICE", "END_GAMING_SESSION"} ->
            {held \cup ({s} \cap Persistent) : s \in Range(m.strategies)}
      [] m.type = "BLOCK_MAC" -> {held \cup {"BLOCK_MAC"}}
      [] m.type = "UNBLOCK_MAC" -> {held \ {"BLOCK_MAC"}}
      [] OTHER -> {held}

\* getPendingCommands hands out the oldest command and the agent executes it.
AgentRun(g) ==
    /\ commands[g] # <<>> /\ gateway[g] = "present"
    /\ \E held \in Executed(Head(commands[g]), cut[g]) : cut' = [cut EXCEPT ![g] = held]
    /\ commands' = [commands EXCEPT ![g] = Tail(@)]
    /\ UNCHANGED <<device, linked, gateway, router, call, policy, changes, alone, late>>

CommandFails(g) ==
    /\ Disturb /\ commands[g] # <<>> /\ gateway[g] = "present"
    /\ commands' = [commands EXCEPT ![g] = Tail(@)]
    /\ UNCHANGED <<device, linked, gateway, router, call, policy, cut, late>>

----------------------------------------------------------------------------
Call(c) ==
    \/ \E op \in {"block", "unblock"} : CallStart(c, op)
    \/ CallWrite(c) \/ CallRoute(c) \/ CallUpsert(c) \/ CallEnqueue(c) \/ CallFails(c)
    \/ \E g \in Gateways :
          \/ EndGamingSession(c, g)
          \/ \E p \in SetupPlugins : Setup(c, g, p)
          \/ \E report \in Reports, firmware \in Firmware : RecordDetection(c, g, report, firmware)
          \/ \E type \in {"BLOCK_MAC", "UNBLOCK_MAC"} : QueueMac(c, g, type)
          \/ QueueTest(c, g)

Parent ==
    \/ \E g \in Gateways : Register(g) \/ DeleteGateway(g) \/ Attach(g)
    \/ \E locked \in BOOLEAN : SetLock(locked)
    \/ \E status \in {"BLOCKED", "ONLINE"} : GatewayBlock(status)
    \/ LinkMicrosoft

RoutersNext ==
    \/ \E c \in Calls : Call(c)
    \/ Parent
    \/ \E g \in Gateways : AgentPoll(g) \/ AgentRun(g) \/ CommandFails(g)

RoutersSpec == RoutersInit /\ [][RoutersNext]_routersVars

\* The agent keeps polling.
RoutersFairSpec == RoutersSpec /\ \A g \in Gateways : WF_routersVars(AgentPoll(g))

----------------------------------------------------------------------------
(* What the parent is shown *)

\* getFeatures and getDiagnostics: the score of a gateway on either screen.
FeaturesScore(g) ==
    IF Plugin(g) = NoPlugin THEN Score(NoPlugin, FALSE) ELSE Score(Plugin(g), router[g].firmware)

DiagnosticsScore(g) == Score(Plugin(g), router[g].firmware)

----------------------------------------------------------------------------
(* Properties *)

Plugins == SetupPlugins \cup {ResolveVendor(r) : r \in Reports}
Detected == [plugin : Plugins, firmware : BOOLEAN]
Rows == {NoRow} \cup Detected
StrategyLists ==
    {<<>>} \cup {BuildStrategies(p, l) : p \in Plugins \cup {NoPlugin},
                                         l \in {StrategyPriority, BlockStrategyPriority}}
Ops == {"none", "block", "unblock", "end", "setup", "scan", "BLOCK_MAC", "UNBLOCK_MAC", "TEST_CONNECTION"}

RoutersTypeOK ==
    /\ device \in [gateway : Gateways \cup {Null}, status : {"OFFLINE", "ONLINE", "BLOCKED"},
                   locked : BOOLEAN, method : Methods \cup {InferControlMethod(t) : t \in Types}]
    /\ gateway \in [Gateways -> {"unused", "present", "deleted"}]
    /\ router \in [Gateways -> Rows]
    /\ commands \in [Gateways -> Seq([type : {CommandOf(op) : op \in Ops}, strategies : StrategyLists])]
    /\ call \in [Calls -> [pc : {"idle", "write", "sync", "upsert", "enqueue"}, op : Ops,
                           gw : Gateways \cup {Null}, strategies : StrategyLists, row : Rows]]
    /\ \A c \in Calls : call[c].pc = "upsert" => call[c].row \in Detected
    /\ cut \in [Gateways -> SUBSET Persistent]
    /\ late \subseteq Gateways

\* The fast path of syncToRouter agrees with the status: when a block or unblock
\* that nothing disturbed has been executed, the router holds the device off
\* exactly if it is BLOCKED, by a means that lasts and is the device's own, and
\* an unblock has lifted whichever strategy the block was made by.  (A router
\* that was rescanned as another one after the block may keep it.)
RouterFollowsStatus ==
    LET g == device.gateway
        usable == Range(BuildStrategies(Plugin(g), BlockStrategyPriority))
    IN alone /\ Idle /\ Delivered /\ g # Null =>
          (usable # {} /\ cut[g] \subseteq usable =>
              (cut[g] # {} <=> device.status = "BLOCKED"))

\* deleteGateway drops the rows of the gateway: a command or a detected router
\* (with the credentials of a setup) is left behind only by a request that was
\* between its reads and its write when the gateway went.
StrayRowsAreLate ==
    \A g \in Gateways :
        gateway[g] = "deleted" /\ (router[g] # NoRow \/ commands[g] # <<>>) => g \in late

\* The report names one vendor, or both lines of one brand.
OneBrand(r) ==
    \/ \E q \in DOMAIN Matrix : r \subseteq {q}
    \/ r \subseteq {"tplink_omada", "tplink_consumer"}
    \/ r \subseteq {"zyxel_nebula", "zyxel_consumer"}

\* Of the lines of a brand the one that can be driven is recognised.
DrivenLinesRecognised ==
    \A r \in Reports : OneBrand(r) /\ "OFFICIAL_API" \in {IntegrationStatus(q) : q \in r}
                          => IntegrationStatus(ResolveVendor(r)) = "OFFICIAL_API"

\* The rating tells what enforcement can do: "Access Schedule" is listed exactly
\* if a block of a device behind the router is queued, three stars and more are
\* given only then, on whichever screen, and of the two lines of a brand the one
\* that can be driven is recognised.
RatingHonest ==
    \A g \in Gateways : router[g] # NoRow =>
        LET p == router[g].plugin
            f == router[g].firmware
            blocks == DOMAIN BuildStrategies(p, BlockStrategyPriority) # {}
        IN /\ "accessSchedule" \in SupportedCategories(p, f) <=> blocks
           /\ \A score \in {FeaturesScore(g), DiagnosticsScore(g)} : Stars(score) >= 3 => blocks
           /\ DrivenLinesRecognised

\* What the database asks of a gateway: the device is its own and is locked or
\* blocked, by whichever of the two fields.
HoldOff(g) == device.gateway = g /\ (device.locked \/ device.status = "BLOCKED")

\* The poll of getPolicies is the path that does not depend on the router: once
\* the database keeps asking a gateway to hold the device off, or to let it
\* through, the agent does, whatever became of commands, calls and answers on the
\* way and whichever of the internet lock and the status was set last.
PolicyConverges ==
    \A g \in Gateways :
        /\ <>[]HoldOff(g) => <>[](policy[g] = "BLOCK")
        /\ <>[](device.gateway = g /\ ~HoldOff(g)) => <>[](policy[g] = "ALLOW")
----------------------------------------------------------------------------
(* The inductive invariants *)

\* The gateway of a device and the gateway a request is about were there when they
\* were read: a call that is past that read is why rows are written too late.
DeletedIsClean ==
    /\ device.gateway # Null => gateway[device.gateway] = "present"
    /\ \A c \in Calls : call[c].pc \in {"upsert", "enqueue"} => call[c].gw # Null
    /\ \A g \in Gateways :
          gateway[g] = "deleted" /\ g \notin late =>
              router[g] = NoRow /\ commands[g] = <<>> /\ ~Writing(g)

\* What a block or unblock of the device is going to be executed with.
Usable == BuildStrategies(Plugin(device.gateway), BlockStrategyPriority)

\* Stages of a block or unblock that nothing disturbs: call c is under way ...
UnderWay(c) ==
    /\ \A d \in Calls : d # c => call[d].pc = "idle"
    /\ call[c].pc \in {"write", "sync", "enqueue"} /\ call[c].op \in {"block", "unblock"}
    /\ call[c].gw = device.gateway
    /\ Delivered
    /\ call[c].pc # "write" => device.status = StatusOf(call[c].op)
    /\ call[c].pc = "enqueue" =>
          device.gateway # Null /\ DOMAIN Usable # {} /\ call[c].strategies = Usable

\* ... or has queued its command ...
Queued(op) ==
    /\ Idle /\ device.gateway # Null
    /\ \A g \in Gateways : g # device.gateway => commands[g] = <<>>
    /\ device.status = StatusOf(op) /\ DOMAIN Usable # {}
    /\ commands[device.gateway] = << [type |-> CommandOf(op), strategies |-> Usable] >>

\* ... or has been executed.
UndisturbedSync ==
    alone => \/ \E c \in Calls : UnderWay(c)
             \/ \E op \in {"block", "unblock"} : Queued(op)
             \/ Idle /\ Delivered /\ RouterFollowsStatus

RoutersInv == RoutersTypeOK /\ DeletedIsClean /\ UndisturbedSync
============================================================================
