--------------------------- MODULE GatewayPolicies ---------------------------
(***************************************************************************)
(* What passes between a household and the agent of one of its gateways:   *)
(* the bandwidth limits the agent is handed with getPolicies, and the VPN  *)
(* detections it reports, while parents change limits, children, devices   *)
(* and gateways, the agent's own included.  Every request of the agent has *)
(* to get past the guard, whose tokens are the subject of GatewayTokens.   *)
(***************************************************************************)
EXTENDS GatewayTokens, Sequences, SequencesExt, FiniteSetsExt

CONSTANTS Children, Devices, Gateways, Null,
          Here,          \* the gateway of the agent
          Categories,    \* the category of a limit, Null for the default one
          MaxChanges     \* bound: rows written, moved or deleted

ASSUME PoliciesAssumption ==
    /\ Here \in Gateways /\ Children # {}
    /\ Null \notin Children \cup Devices \cup Gateways

VARIABLES
    children,   \* the Child rows
    gateways,   \* the Gateway rows
    device,     \* childId and gatewayId of the devices
    limits,     \* BandwidthLimit rows
    vpn,        \* VpnDetectionLog rows
    pending,    \* a write whose checks have been made, Null if none
    answer,     \* what the answer under way is made from, Null if there is none
    enforced,   \* the limits the agent enforces
    changes

tables == <<children, gateways, device, limits, vpn>>
handed == <<answer, enforced>>
allVars == <<vars, tables, handed, pending, changes>>

\* All devices begin with one child: which one makes no difference, and MoveDevice
\* gives them to any other.
FirstChild == CHOOSE c \in Children : TRUE

PoliciesInit ==
    /\ Init
    /\ children = Children /\ gateways = Gateways
    /\ device = [d \in Devices |-> [child |-> FirstChild, gateway |-> Here]]
    /\ limits = {} /\ vpn = {}
    /\ pending = Null
    /\ answer = Null /\ enforced = {}
    /\ changes = 0

\* The n-th change of the rows; n serves as id of a new one.
Changed(n) ==
    /\ changes < MaxChanges /\ n = changes + 1
    /\ changes' = n
    /\ UNCHANGED handed

\* A change that does not touch the row of the agent's gateway.
Change(n) == Changed(n) /\ UNCHANGED vars

----------------------------------------------------------------------------
(* Children, devices and gateways *)

\* ChildrenService.remove: devices are kept, and limits do not refer to a child.
RemoveChild(c, n) ==
    /\ Change(n) /\ c \in children
    /\ children' = children \ {c}
    /\ device' = [d \in Devices |-> [device[d] EXCEPT !.child = IF @ = c THEN Null ELSE @]]
    /\ UNCHANGED <<gateways, limits, vpn, pending>>

\* DevicesService.update: another child or another gateway.
MoveDevice(d, c, g, n) ==
    /\ Change(n) /\ c \in children /\ g \in gateways
    /\ device[d] # [child |-> c, gateway |-> g]
    /\ device' = [device EXCEPT ![d] = [child |-> c, gateway |-> g]]
    /\ UNCHANGED <<children, gateways, limits, vpn, pending>>

\* What a write whose checks are made knows of the deletion of g: nothing, so that
\* a detection of g is recorded all the same.
Overtaken(g) ==
    IF pending # Null /\ pending.kind = "vpn" /\ g = Here THEN [pending EXCEPT !.late = TRUE]
    ELSE pending

\* Mutant: the detections of the gateway are kept.
DeleteGatewayKeep(g, n) ==
    /\ Changed(n) /\ g \in gateways
    /\ IF g = Here THEN RowDeleted ELSE UNCHANGED vars
    /\ gateways' = gateways \ {g}
    /\ device' = [d \in Devices |-> [device[d] EXCEPT !.gateway = IF @ = g THEN Null ELSE @]]
    /\ pending' = Overtaken(g)
    /\ UNCHANGED <<children, limits, vpn>>

\* deleteGateway, in one transaction; with its own the agent is turned away.
DeleteGateway(g, n) ==
    /\ Changed(n) /\ g \in gateways
    /\ IF g = Here THEN RowDeleted ELSE UNCHANGED vars
    /\ gateways' = gateways \ {g}
    /\ device' = [d \in Devices |-> [device[d] EXCEPT !.gateway = IF @ = g THEN Null ELSE @]]
    /\ vpn' = {v \in vpn : v.gateway # g}
    /\ pending' = Overtaken(g)
    /\ UNCHANGED <<children, limits>>

----------------------------------------------------------------------------
(* BandwidthService; the subject of a limit is looked up first, and the    *)
(* row, which refers to nothing, is written later.                         *)

\* One of child and device.
CheckLimit(c, d, category) ==
    /\ pending = Null /\ changes < MaxChanges
    /\ (c = Null) # (d = Null)
    /\ c # Null => c \in children
    /\ pending' = [kind |-> "limit", child |-> c, device |-> d, category |-> category]
    /\ UNCHANGED <<vars, tables, handed, changes>>

CreateLimit(n) ==
    /\ pending # Null /\ pending.kind = "limit" /\ Change(n)
    /\ limits' = limits \cup {[id |-> n, child |-> pending.child, device |-> pending.device,
                               category |-> pending.category, enabled |-> TRUE]}
    /\ pending' = Null
    /\ UNCHANGED <<children, gateways, device, vpn>>

\* update, of enabled.
UpdateLimit(l, n) ==
    /\ Change(n)
    /\ limits' = (limits \ {l}) \cup {[l EXCEPT !.enabled = ~@]}
    /\ UNCHANGED <<children, gateways, device, vpn, pending>>

RemoveLimit(l, n) ==
    /\ Change(n)
    /\ limits' = limits \ {l}
    /\ UNCHANGED <<children, gateways, device, vpn, pending>>

----------------------------------------------------------------------------
(* getPolicies: the devices are read before the limits.  rows is a         *)
(* sequence, in whatever order findMany gives the limits.                  *)

\* loadBandwidthLimits, for a device d that was read with child c.
LoadBandwidthLimits(d, c, rows) ==
    SelectSeq(rows, LAMBDA l : l.enabled /\ (l.device = d \/ (l.child # Null /\ l.child = c)))

\* Mutant: one loop over all rows.
ResolveInOrder(d, c, rows) ==
    LET loaded == LoadBandwidthLimits(d, c, rows)
        last(k) == CHOOSE i \in DOMAIN loaded : /\ loaded[i].category = k
                                                /\ \A j \in DOMAIN loaded : j > i => loaded[j].category # k
    IN {loaded[last(k)] : k \in {l.category : l \in Range(loaded)}}

\* The Map by category: the rows of the child first, then those of the device,
\* and what is set later replaces.
ResolveBandwidthLimits(d, c, rows) ==
    LET loaded == LoadBandwidthLimits(d, c, rows)
        own(l) == l.device = d
        set == SelectSeq(loaded, LAMBDA l : ~own(l)) \o SelectSeq(loaded, own)
        last(k) == CHOOSE i \in DOMAIN set : /\ set[i].category = k
                                             /\ \A j \in DOMAIN set : j > i => set[j].category # k
    IN {set[last(k)] : k \in {l.category : l \in Range(set)}}

\* The devices that were read with their limits.
BandwidthLimits(read, rows) ==
    {<<d, ResolveBandwidthLimits(d, read[d].child, rows)>> : d \in {e \in Devices : read[e].gateway = Here}}

\* The poll of GatewayTokens, with the devices that it reads ...
PollPolicies ==
    /\ Policies
    /\ answer' = [read |-> device, limits |-> Null]
    /\ UNCHANGED <<tables, enforced, pending, changes>>

\* ... and then the limits.
PollLimits ==
    /\ answer # Null /\ answer.limits = Null
    /\ \E rows \in SetToSeqs(limits) : answer' = [answer EXCEPT !.limits = BandwidthLimits(answer.read, rows)]
    /\ UNCHANGED <<vars, tables, enforced, pending, changes>>

PollAnswer ==
    /\ answer # Null /\ answer.limits # Null
    /\ Answer
    /\ enforced' = answer.limits
    /\ answer' = Null
    /\ UNCHANGED <<tables, pending, changes>>

PollLost ==
    /\ AnswerLost
    /\ answer' = Null
    /\ UNCHANGED <<tables, enforced, pending, changes>>

TokenStep ==
    /\ \/ \E r \in Rotators : RotateRead(r) \/ RotateUpdate(r) \/ RotateFails(r)
       \/ GraceEnds \/ GuardToken \/ GuardPrevious \/ PoliciesGone
    /\ UNCHANGED <<tables, handed, pending, changes>>

----------------------------------------------------------------------------
(* Detections *)

\* recordVpnDetections, past the guard: the gateway and the devices are looked up,
\* and only devices of the gateway count.
CheckDetection(d) ==
    /\ pending = Null /\ changes < MaxChanges
    /\ AgentHasToken /\ device[d].gateway = Here
    /\ pending' = [kind |-> "vpn", device |-> d, late |-> FALSE]
    /\ UNCHANGED <<vars, tables, handed, changes>>

\* createMany: the rows refer to nothing, so that a gateway that has gone since is
\* no obstacle.
RecordVpnDetections(n) ==
    /\ pending # Null /\ pending.kind = "vpn" /\ Change(n)
    /\ vpn' = vpn \cup {[id |-> n, gateway |-> Here, device |-> pending.device, late |-> pending.late]}
    /\ pending' = Null
    /\ UNCHANGED <<children, gateways, device, limits>>

----------------------------------------------------------------------------
Write(n) ==
    \/ \E c \in Children : RemoveChild(c, n)
    \/ \E d \in Devices, c \in Children, g \in Gateways : MoveDevice(d, c, g, n)
    \/ \E g \in Gateways : DeleteGateway(g, n)
    \/ \E l \in limits : UpdateLimit(l, n) \/ RemoveLimit(l, n)
    \/ CreateLimit(n) \/ RecordVpnDetections(n)

Check ==
    \/ \E c \in Children \cup {Null}, d \in Devices \cup {Null}, k \in Categories : CheckLimit(c, d, k)
    \/ \E d \in Devices : CheckDetection(d)

PoliciesNext ==
    \/ TokenStep \/ PollPolicies \/ PollLimits \/ PollAnswer \/ PollLost
    \/ Check \/ \E n \in 1 .. MaxChanges : Write(n)

\* The agent polls every few seconds; a request whose checks are made goes on.
PoliciesSpec ==
    /\ PoliciesInit /\ [][PoliciesNext]_allVars
    /\ WF_allVars(PollPolicies \/ PollLimits \/ PollAnswer \/ (TokenStep /\ poll' # poll))

----------------------------------------------------------------------------
(* Properties *)

\* What an agent should enforce for a category: one of the enabled limits of the
\* device itself if there are any, otherwise one of its present child.
Wanted(d, k) ==
    LET of(l) == l.enabled /\ l.category = k
        own == {l \in limits : of(l) /\ l.device = d}
        childs == {l \in limits : of(l) /\ l.child # Null /\ l.child = device[d].child}
    IN IF own # {} THEN own ELSE childs

\* "The running agent picks up the new token automatically", and the limits with
\* it: when parents stop, and the tokens have not run away from it, the agent ends
\* up with the current token, and enforces for each device behind its gateway, and
\* for no other, one limit per category, of the device rather than of its child and
\* never of a child that was removed or has another device by now.  The order of the
\* rows decides only between limits of the same subject and category.
AgentUpToDate ==
    /\ <>[](outrun \/ agent = gateway.token)
    /\ <>[](\/ outrun
            \/ /\ {e[1] : e \in enforced} = {d \in Devices : device[d].gateway = Here}
               /\ \A e \in enforced :
                     /\ \A l \in e[2] : l \in Wanted(e[1], l.category)
                     /\ \A l, m \in e[2] : l.category = m.category => l = m
                     /\ \A k \in Categories : Wanted(e[1], k) # {} => \E l \in e[2] : l.category = k)

\* deleteGateway "drops gateway-scoped rows (DetectedRouter, RouterCommand,
\* VpnDetectionLog) that are meaningless without the gateway": a VPN detection
\* whose gateway is gone is of a request that made its checks before the deletion
\* and wrote its rows after it, which no foreign key prevents.
OrphansAreLate == \A v \in vpn : v.gateway \in gateways \/ v.late

----------------------------------------------------------------------------
(* The inductive invariant behind OrphansAreLate                           *)

\* Devices are behind a gateway that exists or behind none, and a detection that
\* is about to be recorded is of a gateway that exists or was overtaken.
DetectionsRefer ==
    /\ device \in [Devices -> [child : Children \cup {Null}, gateway : gateways \cup {Null}]]
    /\ pending # Null /\ pending.kind = "vpn" => pending.late \/ Here \in gateways
    /\ OrphansAreLate
============================================================================
