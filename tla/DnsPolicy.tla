----------------------------- MODULE DnsPolicy -----------------------------
(***************************************************************************)
(* The decision that DnsPolicyService.checkPolicy computes on a cache      *)
(* miss, as one operator over a snapshot of the database.  A decision is   *)
(* "ALLOW" or the reason of a BLOCK answer.                                *)
(*                                                                         *)
(* A snapshot holds what checkPolicy reads:                                *)
(*   addr      the three addresses of the device row, in the order         *)
(*             ipAddress, dnsSourceIp, ipv6Address                         *)
(*   locked    device.internetLocked                                       *)
(*   blocked   device.status = BLOCKED                                     *)
(*   timeUp    the newest ACTIVE or PAUSED session has no minutes left     *)
(*   listed    the domains that findBlockedDomain matches                  *)
(*   category  categoryBlock.active for the child and the match's category *)
(***************************************************************************)
EXTENDS Naturals

CONSTANTS IPs, Domains, Null,
          StrictMode,      \* process.env.STRICT_MODE
          DohDomains       \* the queried names under STRICT_MODE_DOH_DOMAINS

ASSUME PolicyAssumption ==
    /\ Null \notin IPs
    /\ StrictMode \in BOOLEAN
    /\ DohDomains \subseteq Domains

Slots == 1 .. 3
Address == [Slots -> IPs \cup {Null}]

Database == [addr : Address, locked : BOOLEAN, blocked : BOOLEAN,
             timeUp : BOOLEAN, listed : SUBSET Domains, category : BOOLEAN]

DeviceReason == {"STRICT_MODE_DOH", "FULL_INTERNET_LOCK", "MANUAL_BLOCK"}
Decision == DeviceReason \cup
    {"ALLOW", "TIME_LIMIT_EXCEEDED", "CATEGORY_BLOCKED", "DOMAIN_BLOCKED"}

\* The addresses of a row that are not null.
AddressesOf(addr) == {addr[s] : s \in Slots} \ {Null}

Found(db, ip) == ip \in AddressesOf(db.addr)

\* What the device row alone decides: strict mode, then the internet lock,
\* then the manual block; "ALLOW" when the later checks have to be made.
DeviceVerdict(db, dom) ==
    IF StrictMode /\ dom \in DohDomains THEN "STRICT_MODE_DOH"
    ELSE IF db.locked THEN "FULL_INTERNET_LOCK"
    ELSE IF db.blocked THEN "MANUAL_BLOCK"
    ELSE "ALLOW"

\* The block list: a matching name is blocked whatever the child's category
\* switch says; the switch only selects the reason.
DomainVerdict(db, dom) ==
    IF dom \notin db.listed THEN "ALLOW"
    ELSE IF db.category THEN "CATEGORY_BLOCKED"
    ELSE "DOMAIN_BLOCKED"

\* The whole of checkPolicy's decision, read from one snapshot.
Decide(db, ip, dom) ==
    IF ~Found(db, ip) THEN "ALLOW"
    ELSE IF DeviceVerdict(db, dom) # "ALLOW" THEN DeviceVerdict(db, dom)
    ELSE IF db.timeUp THEN "TIME_LIMIT_EXCEEDED"
    ELSE DomainVerdict(db, dom)
============================================================================
