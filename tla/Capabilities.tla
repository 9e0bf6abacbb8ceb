--------------------------- MODULE Capabilities ---------------------------
(***************************************************************************)
(* What GuardTime knows of routers: the capability matrix, the resolution  *)
(* of a vendor string to a row of it, the strategies SmartBlockEngine may  *)
(* use on a router and the rating RouterCapabilityScoreService gives it.   *)
(* A row is the set of its supports* flags that are true; a vendor string  *)
(* is the set of the plugins whose pattern matches it.                     *)
(***************************************************************************)
EXTENDS Naturals, Sequences, FiniteSetsExt, SequencesExt

NoPlugin == "null"

\* The rows with an official API (pluginImplemented, OFFICIAL_API).
PerDevice == {"FirewallRules", "PauseDevice", "ACL", "MACFiltering"}

ApiRowsFirst ==
    [fritzbox   |-> PerDevice \cup {"DNSChange", "Statistics", "ParentalControl", "API", "TR064"},
     mikrotik   |-> PerDevice \cup {"DNSChange", "ClientDisconnect", "QoS", "Statistics", "API", "SSH", "RouterOS"},
     openwrt    |-> PerDevice \cup {"DNSChange", "ClientDisconnect", "QoS", "Statistics", "API", "SSH"},
     unifi      |-> PerDevice \cup {"DNSChange", "ClientDisconnect", "QoS", "Statistics", "API"},
     edgerouter |-> PerDevice \cup {"DNSChange", "QoS", "Statistics", "SSH"},
     glinet     |-> PerDevice \cup {"DNSChange", "ClientDisconnect", "QoS", "Statistics", "ParentalControl", "API", "SSH"}]

ApiRowsSecond ==
    [tplink_omada |-> {"PauseDevice", "ClientDisconnect", "Statistics", "MACFiltering", "API"},
     zyxel_nebula |-> {"Statistics", "API"},
     draytek      |-> PerDevice \cup {"DNSChange", "QoS", "Statistics", "ParentalControl", "SSH"},
     linksys      |-> {"DNSChange", "PauseDevice", "QoS", "Statistics", "ParentalControl", "ACL", "MACFiltering", "API"},
     keenetic     |-> {"DNSChange", "PauseDevice", "QoS", "Statistics", "ParentalControl", "ACL", "MACFiltering", "API"}]

\* guideOnly: every flag is false.
GuideOnly == {}

GuideOnlyVendors ==
    {"tplink_consumer", "asus", "netgear", "dlink", "belkin", "synology", "google_nest_wifi",
     "eero", "huawei", "cisco_small_business", "buffalo", "mercusys", "tenda", "xiaomi", "totolink",
     "zyxel_consumer", "sercomm", "actiontec", "hitron", "comtrend", "nokia_home_gateway",
     "sagemcom", "technicolor", "arris", "arcadyan"}

Matrix ==
    [v \in DOMAIN ApiRowsFirst \cup DOMAIN ApiRowsSecond \cup GuideOnlyVendors |->
        IF v \in DOMAIN ApiRowsFirst THEN ApiRowsFirst[v]
        ELSE IF v \in DOMAIN ApiRowsSecond THEN ApiRowsSecond[v] ELSE GuideOnly]

\* getCapabilities # null; the row, without flags when there is none.
Recognised(plugin) == plugin \in DOMAIN Matrix
GetCapabilities(plugin) == IF Recognised(plugin) THEN Matrix[plugin] ELSE {}
IsSupported(plugin, flag) == flag \in GetCapabilities(plugin)

IntegrationStatus(plugin) ==
    IF ~Recognised(plugin) THEN "UNDETECTED"
    ELSE IF plugin \in GuideOnlyVendors THEN "GUIDE_ONLY" ELSE "OFFICIAL_API"

----------------------------------------------------------------------------
(* RouterDatabaseService *)

\* VENDOR_NAME_PATTERNS, most specific first.
VendorNamePatterns ==
    <<"fritzbox", "mikrotik", "openwrt", "unifi", "edgerouter", "glinet", "tplink_omada",
      "tplink_consumer", "zyxel_nebula", "zyxel_consumer", "draytek", "linksys", "keenetic",
      "asus", "netgear", "dlink", "belkin", "synology", "google_nest_wifi", "eero", "huawei",
      "cisco_small_business", "buffalo", "mercusys", "tenda", "xiaomi", "totolink", "sercomm",
      "actiontec", "hitron", "comtrend", "nokia_home_gateway", "sagemcom", "technicolor",
      "arris", "arcadyan">>

\* The places of the list whose pattern matches.
Hits(matched) == {i \in DOMAIN VendorNamePatterns : VendorNamePatterns[i] \in matched}

\* Mutant: the last pattern that matches.
ResolveLast(matched) ==
    LET hits == Hits(matched)
    IN IF hits = {} THEN NoPlugin ELSE VendorNamePatterns[Max(hits)]

ResolveVendor(matched) ==
    LET hits == Hits(matched)
    IN IF hits = {} THEN NoPlugin ELSE VendorNamePatterns[Min(hits)]

----------------------------------------------------------------------------
(* SmartBlockEngineService: pairs of a command type and the flag it needs *)

StrategyPriority ==
    << <<"DISCONNECT_CLIENT", "ClientDisconnect">>, <<"PAUSE_DEVICE", "PauseDevice">>,
       <<"APPLY_FIREWALL_RULE", "FirewallRules">>, <<"BLOCK_MAC", "MACFiltering">>,
       <<"CHANGE_DNS", "DNSChange">> >>

BlockStrategyPriority ==
    << <<"PAUSE_DEVICE", "PauseDevice">>, <<"APPLY_FIREWALL_RULE", "FirewallRules">>,
       <<"BLOCK_MAC", "MACFiltering">> >>

\* The strategies that are supported, each under its place in the priority list.
BuildStrategies(plugin, priority) ==
    LET supported == {i \in DOMAIN priority : IsSupported(plugin, priority[i][2])}
    IN [i \in supported |-> priority[i][1]]

----------------------------------------------------------------------------
(* RouterCapabilityScoreService *)

Weights ==
    [pauseDevice |-> 25, accessSchedule |-> 20, blockDevice |-> 15, dnsFiltering |-> 15,
     statistics |-> 10, parentalControls |-> 10, deviceDiscovery |-> 5, firmwareDetection |-> 5]
MaxScore == 100

\* The categories of computeScore that are supported.
SupportedCategories(plugin, firmware) ==
    LET has(flags) == \E f \in flags : IsSupported(plugin, f)
    IN {c \in DOMAIN Weights :
          CASE c = "pauseDevice"       -> has({"PauseDevice"})
            [] c = "accessSchedule"    -> has({"PauseDevice", "FirewallRules", "MACFiltering"})
            [] c = "blockDevice"       -> has({"FirewallRules", "MACFiltering"})
            [] c = "dnsFiltering"      -> has({"DNSChange"})
            [] c = "statistics"        -> has({"Statistics"})
            [] c = "parentalControls"  -> has({"ParentalControl"})
            [] c = "deviceDiscovery"   -> Recognised(plugin)
            [] c = "firmwareDetection" -> firmware}

\* The weights sum to 105: the total is cut off at 100.
Score(plugin, firmware) ==
    LET supported == SupportedCategories(plugin, firmware)
        earned(c) == IF c \in supported THEN Weights[c] ELSE 0
        raw == earned("pauseDevice") + earned("accessSchedule") + earned("blockDevice")
               + earned("dnsFiltering") + earned("statistics") + earned("parentalControls")
               + earned("deviceDiscovery") + earned("firmwareDetection")
    IN IF raw > MaxScore THEN MaxScore ELSE raw

\* levelForScore, as LEVEL_STARS.
Stars(score) ==
    CASE score >= 85 -> 5
      [] score >= 65 /\ score < 85 -> 4
      [] score >= 45 /\ score < 65 -> 3
      [] score >= 20 /\ score < 45 -> 2
      [] score >= 1 /\ score < 20 -> 1
      [] OTHER -> 0
============================================================================
