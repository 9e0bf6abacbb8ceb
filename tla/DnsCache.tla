------------------------------ MODULE DnsCache ------------------------------
(***************************************************************************)
(* The version-namespaced decision cache of DnsPolicyService and everyone  *)
(* who changes what the decisions depend on.                               *)
(*                                                                         *)
(* Readers are calls of checkPolicy, writers are calls of lockInternet,    *)
(* unlockInternet (DevicesService), blockDevice, unblockDevice             *)
(* (EnforcementService).  Every await is a step of its own, so that calls  *)
(* interleave as they do in the Node process and between replicas that     *)
(* share Redis and Postgres.  The remaining writers change the policy      *)
(* without invalidating anything; each of them is one database statement.  *)
(*                                                                         *)
(* One device row stands for the device under observation; an address that *)
(* is not in it belongs to no device.  The query log, the record of an     *)
(* unknown domain and the heartbeat, which checkPolicy writes without      *)
(* awaiting them, are read by no decision and left out.                    *)
(***************************************************************************)
EXTENDS DnsPolicy

CONSTANTS Readers, Writers,
          Kinds,          \* the calls made by Writers
          SilentKinds,    \* the changes made without invalidation
          MaxEpoch        \* bound: number of policy changes in a behaviour

LockKinds == {"lock", "unlock"}
BlockKinds == {"block", "unblock"}
AllSilentKinds == {"bedtime", "gateway", "session", "domain", "category", "address"}

ASSUME CacheAssumption ==
    /\ Kinds \subseteq LockKinds \cup BlockKinds
    /\ SilentKinds \subseteq AllSilentKinds
    /\ MaxEpoch \in Nat

VARIABLES
    db,         \* the rows the decision depends on (DnsPolicy!Database)
    version,    \* dnsver:<ip>, 0 when the key is absent
    cache,      \* the live dns:<ip>:<version>:<domain> keys
    reader,     \* local state of every checkPolicy call
    writer,     \* local state of every lock/unlock/block/unblock call
    epoch,      \* history: number of policy changes so far
    bumped,     \* history: the latest change whose bump of an ip was written
    regressed,  \* history: the version of an ip has moved backwards
    returned    \* history: the change that completed last

vars == <<db, version, cache, reader, writer, epoch, bumped, regressed, returned>>
history == <<epoch, bumped, regressed, returned>>

ReaderPc == {"idle", "lookup", "device", "session", "domain", "category", "store"}
WriterPc == {"idle", "update", "read", "set"}

\* A cached decision, with the epoch at which its device row was read.
Entry == [ip : IPs, ver : Nat, dom : Domains, decision : Decision, epoch : Nat]

Reader == [pc : ReaderPc, ip : IPs \cup {Null}, dom : Domains \cup {Null},
           ver : Nat, decision : Decision, epoch : Nat]
Writer == [pc : WriterPc, kind : Kinds \cup {Null}, addr : Address,
           slot : 1 .. 4, cur : Nat, epoch : Nat]

IdleReader == [pc |-> "idle", ip |-> Null, dom |-> Null, ver |-> 0,
               decision |-> "ALLOW", epoch |-> 0]
NoAddress == [s \in Slots |-> Null]
IdleWriter == [pc |-> "idle", kind |-> Null, addr |-> NoAddress,
               slot |-> 1, cur |-> 0, epoch |-> 0]

Init ==
    /\ db \in [addr : {[NoAddress EXCEPT ![1] = ip] : ip \in IPs},
               locked : {FALSE}, blocked : {FALSE}, timeUp : {FALSE},
               listed : {{}}, category : {FALSE}]
    /\ version = [ip \in IPs |-> 0]
    /\ cache = {}
    /\ reader = [r \in Readers |-> IdleReader]
    /\ writer = [w \in Writers |-> IdleWriter]
    /\ epoch = 0
    /\ bumped = [ip \in IPs |-> 0]
    /\ regressed = [ip \in IPs |-> FALSE]
    /\ returned = [kind |-> Null, epoch |-> 0]

----------------------------------------------------------------------------
(* checkPolicy *)

SameKey(e, x) == e.ip = x.ip /\ e.ver = x.ver /\ e.dom = x.dom

Goto(r, pc) == reader' = [reader EXCEPT ![r].pc = pc]
Decided(r, d) == reader' = [reader EXCEPT ![r] = [@ EXCEPT !.pc = "store", !.decision = d]]

\* const version = await this.getVersion(sourceIp)
CheckStart(r, ip, dom) ==
    /\ reader[r].pc = "idle"
    /\ reader' = [reader EXCEPT ![r] =
            [IdleReader EXCEPT !.pc = "lookup", !.ip = ip, !.dom = dom,
                               !.ver = version[ip]]]
    /\ UNCHANGED <<db, version, cache, writer, history>>

\* The key is in the cache: the stored decision is the answer.
CheckHit(r) ==
    /\ reader[r].pc = "lookup"
    /\ \E e \in cache : SameKey(e, reader[r])
    /\ reader' = [reader EXCEPT ![r] = IdleReader]
    /\ UNCHANGED <<db, version, cache, writer, history>>

CheckMiss(r) ==
    /\ reader[r].pc = "lookup"
    /\ ~ \E e \in cache : SameKey(e, reader[r])
    /\ Goto(r, "device")
    /\ UNCHANGED <<db, version, cache, writer, history>>

\* device.findFirst by any of the three addresses, and what the row decides.
LoadDevice(r) ==
    /\ reader[r].pc = "device"
    /\ LET known == Found(db, reader[r].ip)
           verdict == DeviceVerdict(db, reader[r].dom)
       IN reader' = [reader EXCEPT ![r] = [@ EXCEPT
              !.pc = IF known /\ verdict = "ALLOW" THEN "session" ELSE "store",
              !.decision = IF known THEN verdict ELSE "ALLOW",
              !.epoch = epoch]]
    /\ UNCHANGED <<db, version, cache, writer, history>>

LoadSession(r) ==
    /\ reader[r].pc = "session"
    /\ \/ db.timeUp /\ Decided(r, "TIME_LIMIT_EXCEEDED")
       \/ ~db.timeUp /\ Goto(r, "domain")
    /\ UNCHANGED <<db, version, cache, writer, history>>

LoadDomain(r) ==
    /\ reader[r].pc = "domain"
    /\ \/ reader[r].dom \in db.listed /\ Goto(r, "category")
       \/ reader[r].dom \notin db.listed /\ Decided(r, "ALLOW")
    /\ UNCHANGED <<db, version, cache, writer, history>>

\* Mutant: no reason is chosen when the category switch is off.
LoadCategoryUnset(r) ==
    /\ reader[r].pc = "category"
    /\ Decided(r, IF db.category THEN "CATEGORY_BLOCKED" ELSE "NONE")
    /\ UNCHANGED <<db, version, cache, writer, history>>

LoadCategory(r) ==
    /\ reader[r].pc = "category"
    /\ Decided(r, IF db.category THEN "CATEGORY_BLOCKED" ELSE "DOMAIN_BLOCKED")
    /\ UNCHANGED <<db, version, cache, writer, history>>

\* Mutant: the key is built again, with the version at the time of the store.
StoreUnderNewVersion(r) ==
    /\ reader[r].pc = "store"
    /\ LET x == [reader[r] EXCEPT !.ver = version[reader[r].ip]]
       IN cache' = {e \in cache : ~SameKey(e, x)} \cup
             {[ip |-> x.ip, ver |-> x.ver, dom |-> x.dom,
               decision |-> x.decision, epoch |-> x.epoch]}
    /\ reader' = [reader EXCEPT ![r] = IdleReader]
    /\ UNCHANGED <<db, version, writer, history>>

\* cacheManager.set(cacheKey, result, 30000) under the key of the first step.
Store(r) ==
    /\ reader[r].pc = "store"
    /\ cache' = {e \in cache : ~SameKey(e, reader[r])} \cup
           {[ip |-> reader[r].ip, ver |-> reader[r].ver, dom |-> reader[r].dom,
             decision |-> reader[r].decision, epoch |-> reader[r].epoch]}
    /\ reader' = [reader EXCEPT ![r] = IdleReader]
    /\ UNCHANGED <<db, version, writer, history>>

\* Postgres or Redis fails under the call: nothing is stored.
CheckFails(r) ==
    /\ reader[r].pc # "idle"
    /\ reader' = [reader EXCEPT ![r] = IdleReader]
    /\ UNCHANGED <<db, version, cache, writer, history>>

----------------------------------------------------------------------------
(* lockInternet, unlockInternet, blockDevice, unblockDevice *)

Change(db1) ==
    /\ epoch < MaxEpoch
    /\ db' = db1
    /\ epoch' = epoch + 1

\* device.findUnique, the ownership checks passed.
WriteStart(w, kind) ==
    /\ writer[w].pc = "idle"
    /\ writer' = [writer EXCEPT ![w] =
            [IdleWriter EXCEPT !.pc = "update", !.kind = kind, !.addr = db.addr]]
    /\ UNCHANGED <<db, version, cache, reader, history>>

\* The adapter answers success = false: block and unblock change nothing.
AdapterFails(w) ==
    /\ writer[w].pc = "update"
    /\ writer[w].kind \in BlockKinds
    /\ writer' = [writer EXCEPT ![w] = IdleWriter]
    /\ UNCHANGED <<db, version, cache, reader, history>>

Written(kind) ==
    CASE kind = "lock"    -> [db EXCEPT !.locked = TRUE]
      [] kind = "unlock"  -> [db EXCEPT !.locked = FALSE]
      [] kind = "block"   -> [db EXCEPT !.blocked = TRUE]
      [] OTHER            -> [db EXCEPT !.blocked = FALSE]

\* Mutant: every call goes on with the row it read at the start.
WriteUpdateOldRow(w) ==
    /\ writer[w].pc = "update"
    /\ Change(Written(writer[w].kind))
    /\ writer' = [writer EXCEPT ![w] = [@ EXCEPT
            !.pc = "read", !.slot = 1, !.epoch = epoch + 1]]
    /\ UNCHANGED <<version, cache, reader, bumped, regressed, returned>>

\* device.update.  Lock and unlock go on with the updated row, block and
\* unblock with the row they read at the start.
WriteUpdate(w) ==
    /\ writer[w].pc = "update"
    /\ Change(Written(writer[w].kind))
    /\ writer' = [writer EXCEPT ![w] = [@ EXCEPT
            !.pc = "read", !.slot = 1, !.epoch = epoch + 1,
            !.addr = IF writer[w].kind \in LockKinds THEN db.addr ELSE writer[w].addr]]
    /\ UNCHANGED <<version, cache, reader, bumped, regressed, returned>>

\* invalidateSourceIps: if (!ip) continue
BumpSkip(w) ==
    /\ writer[w].pc = "read"
    /\ writer[w].slot \in Slots
    /\ writer[w].addr[writer[w].slot] = Null
    /\ writer' = [writer EXCEPT ![w].slot = @ + 1]
    /\ UNCHANGED <<db, version, cache, reader, history>>

\* const current = await this.getVersion(ip)
BumpRead(w) ==
    /\ writer[w].pc = "read"
    /\ writer[w].slot \in Slots
    /\ LET ip == writer[w].addr[writer[w].slot]
       IN /\ ip # Null
          /\ writer' = [writer EXCEPT ![w] = [@ EXCEPT !.pc = "set", !.cur = version[ip]]]
    /\ UNCHANGED <<db, version, cache, reader, history>>

\* cacheManager.set(versionKey(ip), current + 1, 24h)
BumpSet(w) ==
    /\ writer[w].pc = "set"
    /\ LET ip == writer[w].addr[writer[w].slot]
           new == writer[w].cur + 1
       IN /\ version' = [version EXCEPT ![ip] = new]
          /\ regressed' = [regressed EXCEPT ![ip] = @ \/ new < version[ip]]
          /\ bumped' = [bumped EXCEPT ![ip] =
                            IF @ < writer[w].epoch THEN writer[w].epoch ELSE @]
    /\ writer' = [writer EXCEPT ![w] = [@ EXCEPT !.pc = "read", !.slot = writer[w].slot + 1]]
    /\ UNCHANGED <<db, cache, reader, epoch, returned>>

\* Redis fails under the invalidation: the call throws, the row stays changed.
BumpFails(w) ==
    /\ writer[w].pc \in {"read", "set"}
    /\ writer[w].slot \in Slots
    /\ writer' = [writer EXCEPT ![w] = IdleWriter]
    /\ UNCHANGED <<db, version, cache, reader, history>>

WriteReturn(w) ==
    /\ writer[w].pc = "read"
    /\ writer[w].slot = 4
    /\ returned' = [kind |-> writer[w].kind, epoch |-> writer[w].epoch]
    /\ writer' = [writer EXCEPT ![w] = IdleWriter]
    /\ UNCHANGED <<db, version, cache, reader, epoch, bumped, regressed>>

----------------------------------------------------------------------------
(* Changes that invalidate nothing *)

SilentChange(kind, db1) ==
    /\ kind \in SilentKinds
    /\ Change(db1)
    /\ returned' = [kind |-> kind, epoch |-> epoch + 1]
    /\ UNCHANGED <<version, cache, reader, writer, bumped, regressed>>

\* enforceDeviceSchedules locks or unlocks on the strength of an earlier read.
Bedtime == \E b \in BOOLEAN : SilentChange("bedtime", [db EXCEPT !.locked = b])

\* GatewayService.blockDevice / unblockDevice write device.status directly.
GatewayBlock == \E b \in BOOLEAN : SilentChange("gateway", [db EXCEPT !.blocked = b])

\* Time passes, or a session is started, stopped, extended, resumed.
SessionChange == SilentChange("session", [db EXCEPT !.timeUp = ~@])

\* addDomain, bulkImport, classifyUnknownDomain; deleteDomain.
DomainChange ==
    \E dom \in Domains :
        \/ SilentChange("domain", [db EXCEPT !.listed = @ \cup {dom}])
        \/ SilentChange("domain", [db EXCEPT !.listed = @ \ {dom}])

\* setCategoryBlock, and the automatic GAMING blocks of the scheduler.
CategoryChange == SilentChange("category", [db EXCEPT !.category = ~@])

\* Pairing, IP auto-repair, gateway discovery, device update and removal.
MoveAddress ==
    \E s \in Slots : \E ip \in IPs \cup {Null} :
        /\ db.addr[s] # ip
        /\ SilentChange("address", [db EXCEPT !.addr[s] = ip])

----------------------------------------------------------------------------
(* Redis expiry *)

\* Mutant: blocking decisions are stored without a time to live.
ExpireAllows(ip, dom) ==
    /\ \E e \in cache : /\ e.ip = ip /\ e.dom = dom /\ e.decision = "ALLOW"
                         /\ cache' = cache \ {e}
    /\ UNCHANGED <<db, version, reader, writer, history>>

\* The 30 s time to live of a decision.
Expire(ip, dom) ==
    /\ \E e \in cache : e.ip = ip /\ e.dom = dom /\ cache' = cache \ {e}
    /\ UNCHANGED <<db, version, reader, writer, history>>

\* The 24 h time to live of a version.  A day without a bump is long past
\* the 30 s of any decision and the duration of any call that used an older
\* version.
VersionExpire(ip) ==
    /\ version[ip] > 0
    /\ \A e \in cache : e.ip = ip => e.ver = version[ip]
    /\ \A r \in Readers : reader[r].ip = ip => reader[r].ver = version[ip]
    /\ version' = [version EXCEPT ![ip] = 0]
    /\ regressed' = [regressed EXCEPT ![ip] = TRUE]
    /\ UNCHANGED <<db, cache, reader, writer, epoch, bumped, returned>>

----------------------------------------------------------------------------
ReaderStep(r) ==
    \/ CheckHit(r) \/ CheckMiss(r) \/ LoadDevice(r) \/ LoadSession(r)
    \/ LoadDomain(r) \/ LoadCategory(r) \/ Store(r)

WriterStep(w) ==
    \/ \E kind \in Kinds : WriteStart(w, kind)
    \/ AdapterFails(w) \/ WriteUpdate(w) \/ BumpSkip(w) \/ BumpRead(w)
    \/ BumpSet(w) \/ BumpFails(w) \/ WriteReturn(w)

Silent ==
    \/ Bedtime \/ GatewayBlock \/ SessionChange
    \/ DomainChange \/ CategoryChange \/ MoveAddress

Next ==
    \/ \E r \in Readers :
          \/ \E ip \in IPs, dom \in Domains : CheckStart(r, ip, dom)
          \/ ReaderStep(r)
          \/ CheckFails(r)
    \/ \E w \in Writers : WriterStep(w)
    \/ Silent
    \/ \E ip \in IPs : VersionExpire(ip) \/ \E dom \in Domains : Expire(ip, dom)

Spec == Init /\ [][Next]_vars

\* A request handler that was started runs to its end unless it fails, and
\* Redis drops a decision once its time to live is over.  Nothing is assumed
\* of parents, of the scheduler or of the writers.
Fairness ==
    /\ \A r \in Readers : WF_vars(ReaderStep(r))
    /\ \A ip \in IPs, dom \in Domains : WF_vars(Expire(ip, dom))

FairSpec == Spec /\ Fairness

----------------------------------------------------------------------------
(* Properties *)

\* Every decision that is computed or cached by checkPolicy is an answer of the
\* API, and versions, addresses and calls in progress are well formed.
TypeOK ==
    /\ db \in Database
    /\ version \in [IPs -> Nat]
    /\ cache \subseteq Entry
    /\ reader \in [Readers -> Reader]
    /\ writer \in [Writers -> Writer]
    /\ epoch \in Nat
    /\ bumped \in [IPs -> Nat]
    /\ regressed \in [IPs -> BOOLEAN]
    /\ returned \in [kind : Kinds \cup SilentKinds \cup {Null}, epoch : Nat]

\* The decisions a new checkPolicy call for ip would be served from the cache.
Served(ip) == {e \in cache : e.ip = ip /\ e.ver = version[ip]}

\* Everything served for ip is what checkPolicy would decide now.
Fresh(ip) == \A e \in Served(ip) : e.decision = Decide(db, ip, e.dom)

\* The policy has not changed since a call of one of these kinds completed.
CompletedLast(kinds) == returned.kind \in kinds /\ returned.epoch = epoch

\* A completed bump orphans every decision that predates the change: once
\* invalidateSourceIps has written the version of an ip on behalf of the
\* latest policy change, nothing stale is served for that ip, however slowly
\* calls of checkPolicy that overlapped the change finish and store their
\* answers.  (A version that moved backwards, at the end of its key's 24
\* hours or by two invalidations at the same time, may bring old answers back.)
BumpOrphansStale ==
    \A ip \in IPs : bumped[ip] = epoch /\ ~regressed[ip] => Fresh(ip)

\* When lockInternet or unlockInternet returns, and nothing changed since,
\* every address of the device is served the new policy at once ("so the new
\* lock/unlock policy takes effect immediately instead of waiting for TTL").
LockTakesEffect ==
    CompletedLast(LockKinds) =>
        \A ip \in AddressesOf(db.addr) : ~regressed[ip] => Fresh(ip)

\* When the loop of invalidateSourceIps is through, on behalf of a call after
\* whose update nothing changed, none of the addresses it was given is served a
\* stale decision.  This is what blockDevice and unblockDevice get: they pass
\* the addresses of the row read before the adapter call, so an address learned
\* since then is not covered, and LockTakesEffect does not hold of them.
InvalidationComplete ==
    \A w \in Writers :
        writer[w].pc = "read" /\ writer[w].slot = 4 /\ writer[w].epoch = epoch =>
            \A ip \in AddressesOf(writer[w].addr) : ~regressed[ip] => Fresh(ip)

\* Staleness is bounded by the time to live: once the policy stops changing,
\* every served decision is eventually, and from then on, the current one,
\* whatever became of the invalidations.
StalenessEnds == <>[](\A ip \in IPs : Fresh(ip))

----------------------------------------------------------------------------
(* The inductive invariant behind BumpOrphansStale and LockTakesEffect *)

\* A checkPolicy call that has read the device row and not yet stored.
Loaded(r) == reader[r].pc \in {"session", "domain", "category", "store"}

\* Calls in progress have their parameters; a bump is under way for an address.
CallsWellFormed ==
    /\ \A r \in Readers : reader[r].pc # "idle" =>
            reader[r].ip \in IPs /\ reader[r].dom \in Domains
    /\ \A w \in Writers :
            /\ writer[w].pc # "idle" => writer[w].kind \in Kinds
            /\ writer[w].pc = "set" =>
                  writer[w].slot \in Slots /\ writer[w].addr[writer[w].slot] \in IPs

\* Nothing is of a later epoch than the database.
EpochsBounded ==
    /\ \A e \in cache : e.epoch <= epoch
    /\ \A r \in Readers : reader[r].epoch <= epoch
    /\ \A w \in Writers : writer[w].epoch <= epoch
    /\ \A ip \in IPs : bumped[ip] <= epoch
    /\ returned.epoch <= epoch

\* What a checkPolicy call has computed since its device read is what the
\* database says.
Consistent(x) ==
    LET open == Found(db, x.ip) /\ DeviceVerdict(db, x.dom) = "ALLOW"
    IN /\ x.pc = "session" => open
       /\ x.pc = "domain" => open /\ ~db.timeUp
       /\ x.pc = "category" => open /\ ~db.timeUp /\ x.dom \in db.listed
       /\ x.pc = "store" => x.decision = Decide(db, x.ip, x.dom)

\* An answer whose first read was of the current epoch agrees with the
\* database, as far as it has been computed.
CurrentReflectsDb ==
    /\ \A e \in cache : e.epoch = epoch => e.decision = Decide(db, e.ip, e.dom)
    /\ \A r \in Readers : Loaded(r) /\ reader[r].epoch = epoch => Consistent(reader[r])

\* Unless the version of ip went backwards, no key is ahead of it.
VersionsBounded ==
    \A ip \in IPs : ~regressed[ip] =>
        /\ \A e \in cache : e.ip = ip => e.ver <= version[ip]
        /\ \A r \in Readers : reader[r].ip = ip => reader[r].ver <= version[ip]

\* While a writer holds the version it has read, every answer under a later
\* version was computed after that writer's change.
PendingBumpSound ==
    \A w \in Writers : writer[w].pc = "set" =>
        LET ip == writer[w].addr[writer[w].slot]
        IN ~regressed[ip] =>
              /\ writer[w].cur <= version[ip]
              /\ \A e \in cache : e.ip = ip /\ e.ver > writer[w].cur =>
                    e.epoch >= writer[w].epoch
              /\ \A r \in Readers :
                    Loaded(r) /\ reader[r].ip = ip /\ reader[r].ver > writer[w].cur =>
                        reader[r].epoch >= writer[w].epoch

\* Answers under the current version postdate every completed bump.
CompletedBumpSound ==
    \A ip \in IPs : ~regressed[ip] =>
        /\ \A e \in cache : e.ip = ip /\ e.ver = version[ip] => e.epoch >= bumped[ip]
        /\ \A r \in Readers : Loaded(r) /\ reader[r].ip = ip /\ reader[r].ver = version[ip] =>
                reader[r].epoch >= bumped[ip]

\* A lock or unlock bumps the addresses the row has when it is written.
LockCoversAddresses ==
    /\ \A w \in Writers :
          writer[w].pc \in {"read", "set"} /\ writer[w].kind \in LockKinds
          /\ writer[w].epoch = epoch =>
              /\ writer[w].addr = db.addr
              /\ \A s \in Slots : s < writer[w].slot /\ db.addr[s] # Null =>
                    bumped[db.addr[s]] = epoch
    /\ CompletedLast(LockKinds) =>
          \A s \in Slots : db.addr[s] # Null => bumped[db.addr[s]] = epoch

IInv ==
    /\ TypeOK /\ CallsWellFormed /\ EpochsBounded /\ CurrentReflectsDb
    /\ VersionsBounded /\ PendingBumpSound /\ CompletedBumpSound
    /\ LockCoversAddresses

\* Whatever its kind, a call whose change is the latest has bumped every address
\* it has passed on its way through the three slots.
WriterCoversAddresses ==
    \A w \in Writers :
        writer[w].pc \in {"read", "set"} /\ writer[w].epoch = epoch =>
            \A s \in Slots : s < writer[w].slot /\ writer[w].addr[s] # Null =>
                bumped[writer[w].addr[s]] = epoch
============================================================================
