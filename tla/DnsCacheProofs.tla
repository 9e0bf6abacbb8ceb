--------------------------- MODULE DnsCacheProofs ---------------------------
(***************************************************************************)
(* Proofs that DnsCache keeps its inductive invariant, for any number of   *)
(* addresses, domains and concurrent calls, and hence that completed bumps *)
(* orphan stale decisions, that a completed lock or unlock takes effect at *)
(* once, and that a finished invalidation leaves nothing stale behind.     *)
(***************************************************************************)
EXTENDS DnsCache, TLAPS

\* Every verdict is a decision: what checkPolicy stores is well formed.
LEMMA DecisionType ==
    ASSUME NEW d \in Database, NEW ip \in IPs, NEW dom \in Domains
    PROVE  /\ DeviceVerdict(d, dom) \in Decision
           /\ Decide(d, ip, dom) \in Decision
  BY DEF DeviceVerdict, Decide, DomainVerdict, Decision, DeviceReason

\* The row written by a lock, unlock, block or unblock keeps its addresses
\* and is a row.
LEMMA WrittenType ==
    ASSUME TypeOK, NEW kind
    PROVE  Written(kind) \in Database /\ Written(kind).addr = db.addr
  BY DEF TypeOK, Written, Database

\* The initial state is well typed.
LEMMA InitTypeOK == Init => TypeOK
<1> SUFFICES ASSUME Init PROVE TypeOK OBVIOUS
<1>1. NoAddress \in Address
  BY DEF NoAddress, Address
<1>2. db \in Database
  BY <1>1 DEF Init, Database, Address, NoAddress
<1>3. reader \in [Readers -> Reader]
  BY DEF Init, IdleReader, Reader, ReaderPc, Decision
<1>4. writer \in [Writers -> Writer]
  BY <1>1 DEF Init, IdleWriter, Writer, WriterPc
<1> QED BY <1>2, <1>3, <1>4 DEF Init, TypeOK

\* Updating the fields of a call's local state.
LEMMA ReaderUpdate ==
    ASSUME NEW x \in Reader, NEW pc \in ReaderPc, NEW d \in Decision, NEW n \in Nat
    PROVE  /\ [x EXCEPT !.pc = pc] \in Reader
           /\ [x EXCEPT !.pc = pc, !.decision = d] \in Reader
           /\ [x EXCEPT !.pc = pc, !.decision = d, !.epoch = n] \in Reader
  BY DEF Reader

LEMMA WriterUpdate ==
    ASSUME NEW x \in Writer, NEW pc \in WriterPc, NEW k \in Kinds,
           NEW a \in Address, NEW s \in 1 .. 4, NEW n \in Nat
    PROVE  /\ [x EXCEPT !.slot = s] \in Writer
           /\ [x EXCEPT !.pc = pc, !.slot = s] \in Writer
           /\ [x EXCEPT !.pc = pc, !.cur = n] \in Writer
           /\ [x EXCEPT !.pc = pc, !.kind = k, !.addr = a] \in Writer
           /\ [x EXCEPT !.pc = pc, !.slot = s, !.epoch = n, !.addr = a] \in Writer
  BY DEF Writer

\* No step of a checkPolicy call leaves the types.
LEMMA ReaderTypeOK ==
    ASSUME TypeOK, CallsWellFormed, NEW r \in Readers,
           \/ \E ip \in IPs, dom \in Domains : CheckStart(r, ip, dom)
           \/ ReaderStep(r)
           \/ CheckFails(r)
    PROVE  TypeOK'
<1> USE DEF TypeOK
<1>0. IdleReader \in Reader
  BY DEF IdleReader, Reader, ReaderPc, Decision
<1>x. reader[r] \in Reader /\ ReaderPc = {"idle", "lookup", "device", "session", "domain", "category", "store"}
  BY DEF ReaderPc
<1>d. \A x : DeviceVerdict(db, x) \in Decision
  BY DEF DeviceVerdict, Decision, DeviceReason
<1>e. {"ALLOW", "TIME_LIMIT_EXCEEDED", "CATEGORY_BLOCKED", "DOMAIN_BLOCKED"} \subseteq Decision
  BY DEF Decision
<1>1. ASSUME NEW ip \in IPs, NEW dom \in Domains, CheckStart(r, ip, dom) PROVE TypeOK'
  BY <1>1, <1>0 DEF CheckStart, history, Reader, ReaderPc, IdleReader
<1>2. CASE CheckHit(r)
  BY <1>2, <1>0 DEF CheckHit, history
<1>3. CASE CheckMiss(r)
  BY <1>3, <1>x, <1>e, ReaderUpdate DEF CheckMiss, Goto, history
<1>4. CASE LoadDevice(r)
  BY <1>4, <1>x, <1>d, <1>e, ReaderUpdate DEF LoadDevice, history
<1>5. CASE LoadSession(r)
  BY <1>5, <1>x, <1>e, ReaderUpdate DEF LoadSession, Goto, Decided, history
<1>6. CASE LoadDomain(r)
  BY <1>6, <1>x, <1>e, ReaderUpdate DEF LoadDomain, Goto, Decided, history
<1>7. CASE LoadCategory(r)
  BY <1>7, <1>x, <1>e, ReaderUpdate DEF LoadCategory, Decided, history
<1>8. CASE Store(r)
  <2>1. reader[r].ip \in IPs /\ reader[r].dom \in Domains
    BY <1>8 DEF Store, CallsWellFormed
  <2>2. cache' \subseteq Entry
    BY <1>8, <2>1 DEF Store, Entry, Reader
  <2> QED BY <1>8, <1>0, <2>2 DEF Store, history
<1>9. CASE CheckFails(r)
  BY <1>9, <1>0 DEF CheckFails, history
<1> QED BY <1>1, <1>2, <1>3, <1>4, <1>5, <1>6, <1>7, <1>8, <1>9 DEF ReaderStep

\* No step of a lock, unlock, block or unblock leaves the types.
LEMMA WriterTypeOK ==
    ASSUME TypeOK, CallsWellFormed, NEW w \in Writers, WriterStep(w)
    PROVE  TypeOK'
<1> USE DEF TypeOK
<1>0. IdleWriter \in Writer
  BY DEF IdleWriter, Writer, WriterPc, NoAddress, Address
<1>x. /\ writer[w] \in Writer /\ writer[w].slot \in 1 .. 4 /\ writer[w].cur \in Nat
      /\ writer[w].addr \in Address /\ writer[w].epoch \in Nat
      /\ WriterPc = {"idle", "update", "read", "set"} /\ db.addr \in Address
  BY DEF Writer, WriterPc, Database
<1>1. ASSUME NEW kind \in Kinds, WriteStart(w, kind) PROVE TypeOK'
  <2>1. [IdleWriter EXCEPT !.pc = "update", !.kind = kind, !.addr = db.addr] \in Writer
    BY <1>0, <1>x, WriterUpdate
  <2> QED BY <1>1, <2>1 DEF WriteStart, history
<1>2. CASE AdapterFails(w)
  BY <1>2, <1>0 DEF AdapterFails, history
<1>3. CASE WriteUpdate(w)
  <2>1. db' \in Database /\ epoch' \in Nat
    BY <1>3, WrittenType DEF WriteUpdate, Change
  <2> DEFINE addr1 == IF writer[w].kind \in LockKinds THEN db.addr ELSE writer[w].addr
  <2>2. addr1 \in Address
    BY <1>x
  <2>3. writer' = [writer EXCEPT ![w] = [writer[w] EXCEPT
                !.pc = "read", !.slot = 1, !.epoch = epoch + 1, !.addr = addr1]]
    BY <1>3 DEF WriteUpdate
  <2> HIDE DEF addr1
  <2>4. writer[w] \in Writer /\ "read" \in WriterPc /\ 1 \in 1 .. 4 /\ epoch + 1 \in Nat
    BY <1>x
  <2>5. [writer[w] EXCEPT !.pc = "read", !.slot = 1, !.epoch = epoch + 1, !.addr = addr1]
            \in Writer
    BY <2>2, <2>4 DEF Writer
  <2> QED BY <1>3, <2>1, <2>3, <2>5 DEF WriteUpdate
<1>4. CASE BumpSkip(w)
  <2>1. writer[w].slot + 1 \in 1 .. 4
    BY <1>4 DEF BumpSkip, Slots
  <2>2. [writer[w] EXCEPT !.slot = writer[w].slot + 1] \in Writer
    BY <1>x, <2>1 DEF Writer
  <2> QED BY <1>4, <2>2 DEF BumpSkip, history
<1>5. CASE BumpRead(w)
  <2>1. version[writer[w].addr[writer[w].slot]] \in Nat
    BY <1>5, <1>x DEF BumpRead, Address
  <2>2. [writer[w] EXCEPT !.pc = "set", !.cur = version[writer[w].addr[writer[w].slot]]] \in Writer
    BY <1>x, <2>1 DEF Writer
  <2> QED BY <1>5, <2>2 DEF BumpRead, history
<1>6. CASE BumpSet(w)
  <2>1. writer[w].slot \in Slots /\ writer[w].addr[writer[w].slot] \in IPs
    BY <1>6 DEF BumpSet, CallsWellFormed
  <2>a. writer[w].slot + 1 \in 1 .. 4
    BY <2>1 DEF Slots
  <2>2. [writer[w] EXCEPT !.pc = "read", !.slot = writer[w].slot + 1] \in Writer
    BY <1>x, <2>a DEF Writer
  <2>3. writer' \in [Writers -> Writer]
    BY <1>6, <2>2 DEF BumpSet
  <2>4. version' \in [IPs -> Nat] /\ bumped' \in [IPs -> Nat]
    BY <1>6, <1>x, <2>1 DEF BumpSet
  <2>5. regressed' \in [IPs -> BOOLEAN]
    BY <1>6, <2>1 DEF BumpSet
  <2> QED BY <1>6, <2>3, <2>4, <2>5 DEF BumpSet
<1>7. CASE BumpFails(w)
  BY <1>7, <1>0 DEF BumpFails, history
<1>8. CASE WriteReturn(w)
  BY <1>8, <1>0 DEF WriteReturn, Writer
<1> QED BY <1>1, <1>2, <1>3, <1>4, <1>5, <1>6, <1>7, <1>8 DEF WriterStep

\* No policy change made elsewhere, and no expiry, leaves the types.
LEMMA OtherTypeOK ==
    ASSUME TypeOK,
           \/ Silent
           \/ \E ip \in IPs : VersionExpire(ip) \/ \E dom \in Domains : Expire(ip, dom)
    PROVE  TypeOK'
<1> USE DEF TypeOK
<1>1. ASSUME NEW kind, NEW d \in Database, SilentChange(kind, d) PROVE TypeOK'
  BY <1>1 DEF SilentChange, Change
<1>2. CASE Silent
  <2>1. \A b \in BOOLEAN : /\ [db EXCEPT !.locked = b] \in Database
                           /\ [db EXCEPT !.blocked = b] \in Database
                           /\ [db EXCEPT !.timeUp = b] \in Database
                           /\ [db EXCEPT !.category = b] \in Database
    BY DEF Database
  <2>2. (~db.timeUp) \in BOOLEAN /\ (~db.category) \in BOOLEAN
    BY DEF Database
  <2>3. \A dom \in Domains : /\ [db EXCEPT !.listed = db.listed \cup {dom}] \in Database
                             /\ [db EXCEPT !.listed = db.listed \ {dom}] \in Database
    BY DEF Database
  <2>4. \A s \in Slots : \A ip \in IPs \cup {Null} :
            [db EXCEPT !.addr[s] = ip] \in Database
    BY DEF Database, Address
  <2> QED BY <1>1, <1>2, <2>1, <2>2, <2>3, <2>4
          DEF Silent, Bedtime, GatewayBlock, SessionChange,
              DomainChange, CategoryChange, MoveAddress
<1>3. ASSUME NEW ip \in IPs, VersionExpire(ip) PROVE TypeOK'
  BY <1>3 DEF VersionExpire
<1>4. ASSUME NEW ip \in IPs, NEW dom \in Domains, Expire(ip, dom) PROVE TypeOK'
  BY <1>4 DEF Expire, history
<1> QED BY <1>2, <1>3, <1>4

----------------------------------------------------------------------------
(* The inductive step, one lemma per kind of change *)

\* The initial state satisfies the invariant.
LEMMA InitIInv == Init => IInv
<1> SUFFICES ASSUME Init PROVE IInv OBVIOUS
<1>1. TypeOK
  BY InitTypeOK
<1>2. CallsWellFormed /\ EpochsBounded /\ VersionsBounded
  BY DEF Init, CallsWellFormed, EpochsBounded, VersionsBounded, IdleReader, IdleWriter
<1>3. CurrentReflectsDb /\ PendingBumpSound /\ CompletedBumpSound
  BY DEF Init, CurrentReflectsDb, PendingBumpSound, CompletedBumpSound, Loaded,
         IdleReader, IdleWriter
<1>4. LockCoversAddresses
  <2>1. \A s \in Slots : db.addr[s] # Null => db.addr[s] \in IPs
    BY <1>1 DEF TypeOK, Database, Address
  <2> QED BY <2>1 DEF Init, LockCoversAddresses, IdleWriter
<1> QED BY <1>1, <1>2, <1>3, <1>4 DEF IInv

\* A step that only moves one checkPolicy call along keeps the invariant.
LEMMA ReaderFrame ==
    ASSUME IInv, TypeOK', NEW r \in Readers,
           UNCHANGED <<db, version, cache, writer, history>>,
           \A q \in Readers : q # r => reader'[q] = reader[q],
           reader'[r].pc # "idle" => reader'[r].ip \in IPs /\ reader'[r].dom \in Domains,
           reader'[r].epoch <= epoch,
           \A ip \in IPs : reader'[r].ip = ip /\ ~regressed[ip] => reader'[r].ver <= version[ip],
           Loaded(r)' => \/ reader'[r].epoch = epoch
                         \/ /\ Loaded(r)
                            /\ reader'[r].ip = reader[r].ip
                            /\ reader'[r].ver = reader[r].ver
                            /\ reader'[r].epoch = reader[r].epoch,
           Loaded(r)' /\ reader'[r].epoch = epoch => Consistent(reader'[r])
    PROVE  IInv'
<1> USE DEF IInv, history
<1>a. \A q \in Readers : q # r => (Loaded(q)' <=> Loaded(q))
  BY DEF Loaded
<1>1. CallsWellFormed' /\ EpochsBounded'
  BY DEF CallsWellFormed, EpochsBounded
<1>2. CurrentReflectsDb'
  <2>1. \A e \in cache' : e.epoch = epoch' => e.decision = Decide(db', e.ip, e.dom)
    BY DEF CurrentReflectsDb
  <2>2. ASSUME NEW q \in Readers, Loaded(q)', reader'[q].epoch = epoch'
        PROVE  Consistent(reader'[q])
    BY <1>a, <2>2 DEF CurrentReflectsDb
  <2> QED BY <2>1, <2>2 DEF CurrentReflectsDb, Consistent
<1>3. VersionsBounded'
  BY DEF VersionsBounded
<1>4. PendingBumpSound'
  BY <1>a DEF PendingBumpSound, EpochsBounded
<1>5. CompletedBumpSound'
  BY <1>a DEF CompletedBumpSound, EpochsBounded
<1>6. LockCoversAddresses'
  BY DEF LockCoversAddresses, CompletedLast
<1> QED BY <1>1, <1>2, <1>3, <1>4, <1>5, <1>6

\* Every step of a checkPolicy call except the store is such a step.
LEMMA ReaderIInv ==
    ASSUME IInv, TypeOK', NEW r \in Readers,
           \/ \E ip \in IPs, dom \in Domains : CheckStart(r, ip, dom)
           \/ CheckHit(r) \/ CheckMiss(r) \/ LoadDevice(r) \/ LoadSession(r)
           \/ LoadDomain(r) \/ LoadCategory(r) \/ CheckFails(r)
    PROVE  IInv'
<1>0. /\ reader \in [Readers -> Reader] /\ epoch \in Nat /\ version \in [IPs -> Nat]
      /\ Null \notin IPs
  BY PolicyAssumption DEF IInv, TypeOK
<1>a. /\ reader[r].pc # "idle" => reader[r].ip \in IPs /\ reader[r].dom \in Domains
      /\ reader[r].epoch <= epoch
      /\ \A ip \in IPs : reader[r].ip = ip /\ ~regressed[ip] => reader[r].ver <= version[ip]
      /\ Loaded(r) /\ reader[r].epoch = epoch => Consistent(reader[r])
  BY DEF IInv, CallsWellFormed, EpochsBounded, VersionsBounded, CurrentReflectsDb
<1>n. reader[r] \in Reader /\ reader[r].epoch \in Nat
  BY <1>0 DEF Reader
<1> DEFINE LoadedPc == {"session", "domain", "category", "store"}
           Moved(pc, n) ==
               /\ \A q \in Readers : q # r => reader'[q] = reader[q]
               /\ reader'[r].pc = pc /\ reader'[r].epoch = n
               /\ reader'[r].ip = reader[r].ip /\ reader'[r].dom = reader[r].dom
               /\ reader'[r].ver = reader[r].ver
<1>b. ASSUME reader' = [reader EXCEPT ![r] = IdleReader],
             UNCHANGED <<db, version, cache, writer, history>>
      PROVE  IInv'
  <2>1. reader'[r] = IdleReader /\ \A q \in Readers : q # r => reader'[q] = reader[q]
    BY <1>0, <1>b
  <2>2. reader'[r].pc = "idle" /\ reader'[r].ip = Null /\ reader'[r].epoch = 0
    BY <2>1 DEF IdleReader
  <2>3. ~Loaded(r)'
    BY <2>2 DEF Loaded
  <2>4. reader'[r].epoch <= epoch
    BY <2>2, <1>0
  <2> QED BY <1>0, <1>b, <2>1, <2>2, <2>3, <2>4, ReaderFrame
<1>c. ASSUME NEW pc, NEW n, Moved(pc, n), reader[r].pc # "idle",
             UNCHANGED <<db, version, cache, writer, history>>,
             n = epoch \/ n = reader[r].epoch,
             n = epoch \/ Loaded(r) \/ pc \notin LoadedPc,
             n = epoch /\ pc \in LoadedPc => Consistent(reader'[r])
      PROVE  IInv'
  <2>1. Loaded(r)' <=> pc \in LoadedPc
    BY <1>c DEF Loaded
  <2>2. reader'[r].epoch <= epoch
    BY <1>c, <1>a, <1>0
  <2>3. \A ip \in IPs : reader'[r].ip = ip /\ ~regressed[ip] => reader'[r].ver <= version[ip]
    BY <1>c, <1>a
  <2>4. Loaded(r)' => \/ reader'[r].epoch = epoch
                      \/ /\ Loaded(r)
                         /\ reader'[r].ip = reader[r].ip
                         /\ reader'[r].ver = reader[r].ver
                         /\ reader'[r].epoch = reader[r].epoch
    BY <1>c, <2>1
  <2>5. reader'[r].pc # "idle" => reader'[r].ip \in IPs /\ reader'[r].dom \in Domains
    BY <1>c, <1>a
  <2>6. \A q \in Readers : q # r => reader'[q] = reader[q]
    BY <1>c
  <2>7. Loaded(r)' /\ reader'[r].epoch = epoch => Consistent(reader'[r])
    BY <1>c, <2>1
  <2> HIDE DEF Moved, LoadedPc
  <2> QED BY <1>c, <2>2, <2>3, <2>4, <2>5, <2>6, <2>7, ReaderFrame
<1>1. ASSUME NEW ip \in IPs, NEW dom \in Domains, CheckStart(r, ip, dom) PROVE IInv'
  <2>1. /\ reader'[r] = [IdleReader EXCEPT !.pc = "lookup", !.ip = ip, !.dom = dom,
                                           !.ver = version[ip]]
        /\ \A q \in Readers : q # r => reader'[q] = reader[q]
    BY <1>0, <1>1 DEF CheckStart
  <2>2. /\ reader'[r].pc = "lookup" /\ reader'[r].ip = ip /\ reader'[r].dom = dom
        /\ reader'[r].ver = version[ip] /\ reader'[r].epoch = 0
    BY <2>1 DEF IdleReader
  <2>3. ~Loaded(r)' /\ reader'[r].epoch <= epoch
    BY <2>2, <1>0 DEF Loaded
  <2>4. \A i \in IPs : reader'[r].ip = i /\ ~regressed[i] => reader'[r].ver <= version[i]
    BY <2>2, <1>0
  <2>5. UNCHANGED <<db, version, cache, writer, history>>
    BY <1>1 DEF CheckStart
  <2> QED BY <2>1, <2>2, <2>3, <2>4, <2>5, ReaderFrame
<1>2. CASE CheckHit(r)
  BY <1>b, <1>2 DEF CheckHit
<1>3. CASE CheckFails(r)
  BY <1>b, <1>3 DEF CheckFails
<1>4. CASE CheckMiss(r)
  <2>1. Moved("device", reader[r].epoch)
    BY <1>0, <1>n, <1>4 DEF CheckMiss, Goto, Reader
  <2> QED BY <1>c, <1>4, <2>1 DEF CheckMiss
<1>5. CASE LoadDevice(r)
  <2> DEFINE known == Found(db, reader[r].ip)
             verdict == DeviceVerdict(db, reader[r].dom)
             pc1 == IF known /\ verdict = "ALLOW" THEN "session" ELSE "store"
             d1 == IF known THEN verdict ELSE "ALLOW"
  <2>1. /\ reader' = [reader EXCEPT ![r] = [@ EXCEPT !.pc = pc1, !.decision = d1, !.epoch = epoch]]
        /\ reader[r].pc = "device"
    BY <1>5 DEF LoadDevice
  <2>3. pc1 \in {"session", "store"}
    OBVIOUS
  <2>4. pc1 = "session" => Found(db, reader[r].ip) /\ DeviceVerdict(db, reader[r].dom) = "ALLOW"
    OBVIOUS
  <2>5. pc1 = "store" => d1 = Decide(db, reader[r].ip, reader[r].dom)
    BY DEF Decide
  <2> HIDE DEF pc1, d1
  <2>6. Moved(pc1, epoch) /\ reader'[r].decision = d1
    BY <1>0, <1>n, <2>1 DEF Reader
  <2>7. Consistent(reader'[r])
    BY <2>3, <2>4, <2>5, <2>6 DEF Consistent
  <2> QED BY <1>c, <1>5, <2>1, <2>6, <2>7 DEF LoadDevice
<1>6. CASE LoadSession(r)
  <2>0. reader[r].pc = "session" /\ Loaded(r)
    BY <1>6 DEF LoadSession, Loaded
  <2>1. CASE db.timeUp
    <3>1. reader' = [reader EXCEPT ![r] = [@ EXCEPT !.pc = "store", !.decision = "TIME_LIMIT_EXCEEDED"]]
      BY <1>6, <2>1 DEF LoadSession, Decided
    <3>2. Moved("store", reader[r].epoch) /\ reader'[r].decision = "TIME_LIMIT_EXCEEDED"
      BY <1>0, <1>n, <3>1 DEF Reader
    <3>3. reader[r].epoch = epoch => Consistent(reader'[r])
      BY <1>a, <2>0, <2>1, <3>2 DEF Consistent, Decide
    <3> QED BY <1>c, <1>6, <2>0, <3>2, <3>3 DEF LoadSession
  <2>2. CASE ~db.timeUp
    <3>2. Moved("domain", reader[r].epoch)
      BY <1>0, <1>n, <1>6, <2>2 DEF LoadSession, Goto, Reader
    <3>3. reader[r].epoch = epoch => Consistent(reader'[r])
      BY <1>a, <2>0, <2>2, <3>2 DEF Consistent
    <3> QED BY <1>c, <1>6, <2>0, <3>2, <3>3 DEF LoadSession
  <2> QED BY <2>1, <2>2
<1>7. CASE LoadDomain(r)
  <2>0. reader[r].pc = "domain" /\ Loaded(r)
    BY <1>7 DEF LoadDomain, Loaded
  <2>1. CASE reader[r].dom \notin db.listed
    <3>1. reader' = [reader EXCEPT ![r] = [@ EXCEPT !.pc = "store", !.decision = "ALLOW"]]
      BY <1>7, <2>1 DEF LoadDomain, Decided
    <3>2. Moved("store", reader[r].epoch) /\ reader'[r].decision = "ALLOW"
      BY <1>0, <1>n, <3>1 DEF Reader
    <3>3. reader[r].epoch = epoch => Consistent(reader'[r])
      BY <1>a, <2>0, <2>1, <3>2 DEF Consistent, Decide, DomainVerdict
    <3> QED BY <1>c, <1>7, <2>0, <3>2, <3>3 DEF LoadDomain
  <2>2. CASE reader[r].dom \in db.listed
    <3>2. Moved("category", reader[r].epoch)
      BY <1>0, <1>n, <1>7, <2>2 DEF LoadDomain, Goto, Reader
    <3>3. reader[r].epoch = epoch => Consistent(reader'[r])
      BY <1>a, <2>0, <2>2, <3>2 DEF Consistent
    <3> QED BY <1>c, <1>7, <2>0, <3>2, <3>3 DEF LoadDomain
  <2> QED BY <2>1, <2>2
<1>8. CASE LoadCategory(r)
  <2>0. reader[r].pc = "category" /\ Loaded(r)
    BY <1>8 DEF LoadCategory, Loaded
  <2> DEFINE d1 == IF db.category THEN "CATEGORY_BLOCKED" ELSE "DOMAIN_BLOCKED"
  <2>1. reader' = [reader EXCEPT ![r] = [@ EXCEPT !.pc = "store", !.decision = d1]]
    BY <1>8 DEF LoadCategory, Decided
  <2>2. reader[r].epoch = epoch => d1 = Decide(db, reader[r].ip, reader[r].dom)
    BY <1>a, <2>0 DEF Consistent, Decide, DomainVerdict
  <2> HIDE DEF d1
  <2>3. Moved("store", reader[r].epoch) /\ reader'[r].decision = d1
    BY <1>0, <1>n, <2>1 DEF Reader
  <2>4. reader[r].epoch = epoch => Consistent(reader'[r])
    BY <2>2, <2>3 DEF Consistent
  <2> QED BY <1>c, <1>8, <2>0, <2>3, <2>4 DEF LoadCategory
<1> QED BY <1>1, <1>2, <1>3, <1>4, <1>5, <1>6, <1>7, <1>8

\* Storing an answer under the key of the first step keeps the invariant: the
\* entry inherits the version and the epoch of the call.
LEMMA StoreIInv ==
    ASSUME IInv, TypeOK', NEW r \in Readers, Store(r)
    PROVE  IInv'
<1> DEFINE x == reader[r]
           new == [ip |-> x.ip, ver |-> x.ver, dom |-> x.dom,
                   decision |-> x.decision, epoch |-> x.epoch]
<1>0. /\ reader \in [Readers -> Reader] /\ epoch \in Nat /\ Null \notin IPs
      /\ version \in [IPs -> Nat] /\ x.ip \in IPs /\ x.pc = "store" /\ Loaded(r)
  BY PolicyAssumption DEF IInv, TypeOK, CallsWellFormed, Store, Loaded
<1>1. /\ reader'[r] = IdleReader /\ \A q \in Readers : q # r => reader'[q] = reader[q]
      /\ UNCHANGED <<db, version, writer, epoch, bumped, regressed, returned>>
      /\ \A e \in cache' : e \in cache \/ e = new
  BY <1>0 DEF Store, history
<1>2. reader'[r].pc = "idle" /\ reader'[r].ip = Null /\ reader'[r].epoch = 0
  BY <1>1 DEF IdleReader
<1>3. ~Loaded(r)' /\ \A q \in Readers : q # r => (Loaded(q)' <=> Loaded(q))
  BY <1>1, <1>2 DEF Loaded
<1>4. /\ new.ip = x.ip /\ new.ver = x.ver /\ new.dom = x.dom
      /\ new.decision = x.decision /\ new.epoch = x.epoch
  OBVIOUS
<1> HIDE DEF new
<1> USE DEF IInv
<1>5. CallsWellFormed'
  BY <1>1, <1>2 DEF CallsWellFormed
<1>6. EpochsBounded'
  BY <1>0, <1>1, <1>2, <1>4 DEF EpochsBounded
<1>7. CurrentReflectsDb'
  <2>1. x.epoch = epoch => x.decision = Decide(db, x.ip, x.dom)
    BY <1>0 DEF CurrentReflectsDb, Consistent
  <2>2. \A e \in cache' : e.epoch = epoch => e.decision = Decide(db, e.ip, e.dom)
    BY <1>1, <1>4, <2>1 DEF CurrentReflectsDb
  <2>3. ASSUME NEW q \in Readers, Loaded(q)', reader'[q].epoch = epoch
        PROVE  Consistent(reader'[q])
    BY <1>1, <1>3, <2>3 DEF CurrentReflectsDb
  <2> QED BY <1>1, <2>2, <2>3 DEF CurrentReflectsDb, Consistent
<1>8. VersionsBounded'
  BY <1>0, <1>1, <1>2, <1>4 DEF VersionsBounded
<1>9. PendingBumpSound'
  BY <1>0, <1>1, <1>3, <1>4 DEF PendingBumpSound
<1>10. CompletedBumpSound'
  BY <1>0, <1>1, <1>3, <1>4 DEF CompletedBumpSound
<1>11. LockCoversAddresses'
  BY <1>1 DEF LockCoversAddresses, CompletedLast
<1> QED BY <1>5, <1>6, <1>7, <1>8, <1>9, <1>10, <1>11

\* A step that only moves one invalidating call along keeps the invariant.
LEMMA WriterFrame ==
    ASSUME IInv, TypeOK', NEW w \in Writers,
           UNCHANGED <<db, version, cache, reader, history>>,
           \A v \in Writers : v # w => writer'[v] = writer[v],
           writer'[w].pc # "idle" => writer'[w].kind \in Kinds,
           writer'[w].epoch <= epoch,
           writer'[w].pc = "set" =>
               /\ writer'[w].slot \in Slots
               /\ writer'[w].addr[writer'[w].slot] \in IPs
               /\ writer'[w].cur = version[writer'[w].addr[writer'[w].slot]],
           writer'[w].pc \in {"read", "set"} =>
               /\ writer[w].pc = "read"
               /\ writer'[w].kind = writer[w].kind /\ writer'[w].epoch = writer[w].epoch
               /\ writer'[w].addr = writer[w].addr
               /\ \A s \in Slots : s < writer'[w].slot =>
                     s < writer[w].slot \/ writer[w].addr[s] = Null
    PROVE  IInv'
<1> USE DEF IInv, history
<1>a. \A q \in Readers : Loaded(q)' <=> Loaded(q)
  BY DEF Loaded
<1>b. version \in [IPs -> Nat] /\ \A e \in cache : e.ver \in Nat
  BY DEF TypeOK, Entry
<1>c. \A r \in Readers : reader[r].ver \in Nat
  BY DEF TypeOK, Reader
<1>1. CallsWellFormed' /\ EpochsBounded'
  BY DEF CallsWellFormed, EpochsBounded
<1>2. CurrentReflectsDb'
  BY <1>a DEF CurrentReflectsDb, Consistent
<1>3. VersionsBounded' /\ CompletedBumpSound'
  BY <1>a DEF VersionsBounded, CompletedBumpSound
<1>4. PendingBumpSound'
  <2> SUFFICES ASSUME NEW v \in Writers, writer'[v].pc = "set"
               PROVE  LET ip == writer'[v].addr[writer'[v].slot]
                      IN ~regressed[ip] =>
                            /\ writer'[v].cur <= version[ip]
                            /\ \A e \in cache : e.ip = ip /\ e.ver > writer'[v].cur =>
                                  e.epoch >= writer'[v].epoch
                            /\ \A r \in Readers :
                                  Loaded(r) /\ reader[r].ip = ip /\ reader[r].ver > writer'[v].cur =>
                                      reader[r].epoch >= writer'[v].epoch
    BY <1>a DEF PendingBumpSound
  <2>1. CASE v # w
    BY <2>1 DEF PendingBumpSound
  <2>2. CASE v = w
    BY <1>b, <1>c, <2>2 DEF VersionsBounded
  <2> QED BY <2>1, <2>2
<1>5. LockCoversAddresses'
  BY DEF LockCoversAddresses, CompletedLast
<1> QED BY <1>1, <1>2, <1>3, <1>4, <1>5

\* The steps of an invalidating call that write nothing shared.
LEMMA WriterIInv ==
    ASSUME IInv, TypeOK', NEW w \in Writers,
           \/ \E kind \in Kinds : WriteStart(w, kind)
           \/ AdapterFails(w) \/ BumpSkip(w) \/ BumpRead(w) \/ BumpFails(w)
    PROVE  IInv'
<1>0. /\ writer \in [Writers -> Writer] /\ writer[w] \in Writer /\ epoch \in Nat
      /\ writer[w].epoch <= epoch /\ version \in [IPs -> Nat]
      /\ writer[w].pc # "idle" => writer[w].kind \in Kinds
  BY DEF IInv, TypeOK, EpochsBounded, CallsWellFormed
<1>a. ASSUME writer' = [writer EXCEPT ![w] = IdleWriter],
             UNCHANGED <<db, version, cache, reader, history>>
      PROVE  IInv'
  <2>1. writer'[w] = IdleWriter /\ \A v \in Writers : v # w => writer'[v] = writer[v]
    BY <1>0, <1>a
  <2>2. writer'[w].pc = "idle" /\ writer'[w].epoch = 0
    BY <2>1 DEF IdleWriter
  <2> QED BY <1>0, <1>a, <2>1, <2>2, WriterFrame
<1>1. ASSUME NEW kind \in Kinds, WriteStart(w, kind) PROVE IInv'
  <2>1. /\ writer'[w] = [IdleWriter EXCEPT !.pc = "update", !.kind = kind, !.addr = db.addr]
        /\ \A v \in Writers : v # w => writer'[v] = writer[v]
    BY <1>0, <1>1 DEF WriteStart
  <2>2. writer'[w].pc = "update" /\ writer'[w].epoch = 0 /\ writer'[w].kind = kind
    BY <2>1 DEF IdleWriter
  <2>3. UNCHANGED <<db, version, cache, reader, history>>
    BY <1>1 DEF WriteStart
  <2>4. writer'[w].epoch <= epoch
    BY <1>0, <2>2
  <2>5. writer'[w].kind \in Kinds
    BY <2>2
  <2> QED BY <2>1, <2>2, <2>3, <2>4, <2>5, WriterFrame
<1>2. CASE AdapterFails(w)
  BY <1>a, <1>2 DEF AdapterFails
<1>3. CASE BumpFails(w)
  BY <1>a, <1>3 DEF BumpFails
<1>4. CASE BumpSkip(w)
  <2>1. /\ writer'[w] = [writer[w] EXCEPT !.slot = writer[w].slot + 1]
        /\ \A v \in Writers : v # w => writer'[v] = writer[v]
    BY <1>0, <1>4 DEF BumpSkip
  <2>2. /\ writer'[w].pc = "read" /\ writer'[w].slot = writer[w].slot + 1
        /\ writer'[w].epoch = writer[w].epoch /\ writer'[w].kind = writer[w].kind
        /\ writer'[w].addr = writer[w].addr /\ writer[w].pc = "read"
    BY <1>0, <1>4, <2>1 DEF BumpSkip, Writer
  <2>3. \A s \in Slots : s < writer'[w].slot => s < writer[w].slot \/ writer[w].addr[s] = Null
    BY <1>4, <2>2 DEF BumpSkip, Slots
  <2>4. UNCHANGED <<db, version, cache, reader, history>>
    BY <1>4 DEF BumpSkip
  <2> QED BY <1>0, <2>1, <2>2, <2>3, <2>4, WriterFrame
<1>5. CASE BumpRead(w)
  <2> DEFINE ip == writer[w].addr[writer[w].slot]
  <2>1. /\ writer'[w] = [writer[w] EXCEPT !.pc = "set", !.cur = version[ip]]
        /\ \A v \in Writers : v # w => writer'[v] = writer[v]
    BY <1>0, <1>5 DEF BumpRead
  <2>2. /\ writer'[w].pc = "set" /\ writer'[w].slot = writer[w].slot
        /\ writer'[w].epoch = writer[w].epoch /\ writer'[w].kind = writer[w].kind
        /\ writer'[w].addr = writer[w].addr /\ writer[w].pc = "read"
        /\ writer'[w].cur = version[ip]
    BY <1>0, <1>5, <2>1 DEF BumpRead, Writer
  <2>3. writer[w].slot \in Slots /\ ip \in IPs
    BY <1>0, <1>5 DEF BumpRead, Writer, Address
  <2>4. /\ writer'[w].slot \in Slots /\ writer'[w].addr[writer'[w].slot] \in IPs
        /\ writer'[w].cur = version[writer'[w].addr[writer'[w].slot]]
        /\ writer'[w].epoch <= epoch /\ writer'[w].kind \in Kinds
    BY <1>0, <2>2, <2>3
  <2>5. \A s \in Slots : s < writer'[w].slot => s < writer[w].slot \/ writer[w].addr[s] = Null
    BY <2>2
  <2>6. UNCHANGED <<db, version, cache, reader, history>>
    BY <1>5 DEF BumpRead
  <2> HIDE DEF ip
  <2> QED BY <2>1, <2>2, <2>4, <2>5, <2>6, WriterFrame
<1> QED BY <1>1, <1>2, <1>3, <1>4, <1>5

\* A policy change makes every answer computed so far one of an earlier epoch.
LEMMA ChangeIInv ==
    ASSUME IInv, TypeOK', NEW d \in Database, Change(d),
           UNCHANGED <<version, cache, reader, bumped, regressed>>,
           \/ /\ UNCHANGED writer
              /\ returned'.epoch = epoch + 1 /\ returned'.kind \in SilentKinds
           \/ /\ UNCHANGED returned
              /\ \E w \in Writers :
                    /\ \A v \in Writers : v # w => writer'[v] = writer[v]
                    /\ writer'[w].pc = "read" /\ writer'[w].kind \in Kinds
                    /\ writer'[w].epoch = epoch + 1 /\ writer'[w].slot = 1
                    /\ writer'[w].kind \in LockKinds => writer'[w].addr = d.addr
    PROVE  IInv'
<1> USE DEF IInv
<1>0. /\ epoch \in Nat /\ epoch' = epoch + 1 /\ db' = d
      /\ returned.epoch \in Nat /\ bumped \in [IPs -> Nat]
  BY DEF Change, TypeOK
<1>t. /\ \A e \in cache : e.epoch \in Nat
      /\ \A r \in Readers : reader[r].epoch \in Nat
      /\ \A w \in Writers : writer[w].epoch \in Nat
  BY DEF TypeOK, Entry, Reader, Writer
<1>a. \A q \in Readers : Loaded(q)' <=> Loaded(q)
  BY DEF Loaded
<1>k. SilentKinds \cap LockKinds = {}
  BY CacheAssumption DEF AllSilentKinds, LockKinds
<1>1. CallsWellFormed'
  BY DEF CallsWellFormed
<1>2. EpochsBounded'
  BY <1>0, <1>t DEF EpochsBounded
<1>3. CurrentReflectsDb'
  <2>1. /\ \A e \in cache' : e.epoch # epoch'
        /\ \A r \in Readers : reader'[r].epoch # epoch'
    BY <1>0, <1>t DEF EpochsBounded
  <2> QED BY <2>1 DEF CurrentReflectsDb
<1>4. VersionsBounded' /\ CompletedBumpSound'
  BY <1>a DEF VersionsBounded, CompletedBumpSound
<1>5. PendingBumpSound'
  BY <1>a DEF PendingBumpSound
<1>6. LockCoversAddresses'
  <2>1. ~CompletedLast(LockKinds)'
    BY <1>0, <1>k DEF CompletedLast, EpochsBounded
  <2>2. ASSUME NEW v \in Writers, writer'[v].pc \in {"read", "set"},
               writer'[v].kind \in LockKinds, writer'[v].epoch = epoch'
        PROVE  writer'[v].addr = db'.addr /\ writer'[v].slot = 1
    BY <1>0, <1>t, <2>2 DEF EpochsBounded
  <2>3. \A s \in Slots : ~(s < 1)
    BY DEF Slots
  <2> QED BY <2>1, <2>2, <2>3 DEF LockCoversAddresses
<1> QED BY <1>1, <1>2, <1>3, <1>4, <1>5, <1>6

\* The database update of a lock, unlock, block or unblock.
LEMMA WriteUpdateIInv ==
    ASSUME IInv, TypeOK', NEW w \in Writers, WriteUpdate(w)
    PROVE  IInv'
<1>0. /\ writer \in [Writers -> Writer] /\ writer[w] \in Writer /\ writer[w].kind \in Kinds
      /\ Written(writer[w].kind) \in Database /\ Written(writer[w].kind).addr = db.addr
  BY WrittenType DEF IInv, TypeOK, CallsWellFormed, WriteUpdate
<1> DEFINE addr1 == IF writer[w].kind \in LockKinds THEN db.addr ELSE writer[w].addr
<1>1. /\ writer'[w] = [writer[w] EXCEPT !.pc = "read", !.slot = 1, !.epoch = epoch + 1,
                                        !.addr = addr1]
      /\ \A v \in Writers : v # w => writer'[v] = writer[v]
  BY <1>0 DEF WriteUpdate
<1>2. writer[w].kind \in LockKinds => addr1 = db.addr
  OBVIOUS
<1> HIDE DEF addr1
<1>3. /\ writer'[w].pc = "read" /\ writer'[w].kind = writer[w].kind
      /\ writer'[w].epoch = epoch + 1 /\ writer'[w].slot = 1 /\ writer'[w].addr = addr1
  BY <1>0, <1>1 DEF Writer
<1>4. /\ Change(Written(writer[w].kind))
      /\ UNCHANGED <<version, cache, reader, bumped, regressed>> /\ UNCHANGED returned
  BY DEF WriteUpdate
<1>5. \E u \in Writers :
          /\ \A v \in Writers : v # u => writer'[v] = writer[v]
          /\ writer'[u].pc = "read" /\ writer'[u].kind \in Kinds
          /\ writer'[u].epoch = epoch + 1 /\ writer'[u].slot = 1
          /\ writer'[u].kind \in LockKinds => writer'[u].addr = Written(writer[w].kind).addr
  BY <1>0, <1>1, <1>2, <1>3
<1> QED BY <1>0, <1>4, <1>5, ChangeIInv

\* The changes that invalidate nothing.
LEMMA SilentIInv ==
    ASSUME IInv, TypeOK', Silent
    PROVE  IInv'
<1>1. ASSUME NEW kind, NEW d, SilentChange(kind, d) PROVE IInv'
  <2>1. d \in Database
    BY <1>1 DEF TypeOK, SilentChange, Change
  <2>2. /\ Change(d) /\ UNCHANGED <<version, cache, reader, bumped, regressed>>
        /\ UNCHANGED writer /\ returned'.epoch = epoch + 1 /\ returned'.kind \in SilentKinds
    BY <1>1 DEF SilentChange
  <2> QED BY <2>1, <2>2, ChangeIInv
<1> QED BY <1>1 DEF Silent, Bedtime, GatewayBlock, SessionChange,
                    DomainChange, CategoryChange, MoveAddress

\* Writing the bumped version: either it is a new one, under which nothing is
\* cached yet, or another writer got there first, and then everything cached
\* under it was computed after this writer's change.
LEMMA BumpSetIInv ==
    ASSUME IInv, TypeOK', NEW w \in Writers, BumpSet(w)
    PROVE  IInv'
<1> USE DEF IInv
<1> DEFINE ip == writer[w].addr[writer[w].slot]
           new == writer[w].cur + 1
           c == writer[w].epoch
<1>0. /\ ip \in IPs /\ writer[w].slot \in Slots /\ writer[w].pc = "set"
      /\ writer \in [Writers -> Writer] /\ writer[w] \in Writer /\ writer[w].kind \in Kinds
      /\ version \in [IPs -> Nat] /\ bumped \in [IPs -> Nat]
      /\ regressed \in [IPs -> BOOLEAN] /\ epoch \in Nat
      /\ new \in Nat /\ c \in Nat /\ writer[w].cur \in Nat /\ c <= epoch
  BY DEF BumpSet, CallsWellFormed, TypeOK, Writer, EpochsBounded
<1>t. /\ \A e \in cache : e.epoch \in Nat /\ e.ver \in Nat
      /\ \A r \in Readers : reader[r].epoch \in Nat /\ reader[r].ver \in Nat
      /\ \A v \in Writers : writer[v].epoch \in Nat /\ writer[v].cur \in Nat
  BY DEF TypeOK, Entry, Reader, Writer
<1>1. /\ writer'[w] = [writer[w] EXCEPT !.pc = "read", !.slot = writer[w].slot + 1]
      /\ \A v \in Writers : v # w => writer'[v] = writer[v]
  BY <1>0 DEF BumpSet
<1>2. /\ writer'[w].pc = "read" /\ writer'[w].slot = writer[w].slot + 1
      /\ writer'[w].kind = writer[w].kind /\ writer'[w].addr = writer[w].addr
      /\ writer'[w].epoch = c
  BY <1>0, <1>1 DEF Writer
<1>3. /\ UNCHANGED <<db, cache, reader, epoch, returned>>
      /\ \A i \in IPs : i # ip => /\ version'[i] = version[i]
                                  /\ regressed'[i] = regressed[i]
                                  /\ bumped'[i] = bumped[i]
  BY <1>0 DEF BumpSet
<1>4. version'[ip] = new /\ (regressed'[ip] <=> regressed[ip] \/ new < version[ip])
  BY <1>0 DEF BumpSet
<1>5. bumped'[ip] = IF bumped[ip] < c THEN c ELSE bumped[ip]
  BY <1>0 DEF BumpSet
<1>a. \A q \in Readers : Loaded(q)' <=> Loaded(q)
  BY <1>3 DEF Loaded
<1>b. ASSUME ~regressed'[ip]
      PROVE  /\ ~regressed[ip] /\ version[ip] <= new
             /\ \A e \in cache : e.ip = ip /\ e.ver = new => e.epoch >= c /\ e.ver = version[ip]
             /\ \A r \in Readers : Loaded(r) /\ reader[r].ip = ip /\ reader[r].ver = new =>
                    reader[r].epoch >= c /\ reader[r].ver = version[ip]
  <2>1. ~regressed[ip] /\ version[ip] <= new
    BY <1>b, <1>4, <1>0
  <2>2. \A e \in cache : e.ip = ip /\ e.ver = new => e.ver > writer[w].cur /\ e.ver = version[ip]
    BY <1>0, <1>t, <2>1 DEF VersionsBounded
  <2>3. \A r \in Readers : reader[r].ip = ip /\ reader[r].ver = new =>
                               reader[r].ver > writer[w].cur /\ reader[r].ver = version[ip]
    BY <1>0, <1>t, <2>1 DEF VersionsBounded
  <2> HIDE DEF new
  <2> QED BY <1>0, <2>1, <2>2, <2>3 DEF PendingBumpSound
<1> HIDE DEF ip, new, c
<1>6. CallsWellFormed'
  BY <1>0, <1>1, <1>2, <1>3 DEF CallsWellFormed
<1>7. EpochsBounded'
  BY <1>0, <1>1, <1>2, <1>3, <1>5 DEF EpochsBounded
<1>8. CurrentReflectsDb'
  BY <1>3, <1>a DEF CurrentReflectsDb, Consistent
<1>9. VersionsBounded'
  <2> SUFFICES ASSUME NEW i \in IPs, ~regressed'[i]
               PROVE  /\ \A e \in cache : e.ip = i => e.ver <= version'[i]
                      /\ \A r \in Readers : reader[r].ip = i => reader[r].ver <= version'[i]
    BY <1>3 DEF VersionsBounded
  <2>1. CASE i # ip
    BY <1>3, <2>1 DEF VersionsBounded
  <2>2. CASE i = ip
    BY <1>0, <1>t, <1>4, <1>b, <2>2 DEF VersionsBounded
  <2> QED BY <2>1, <2>2
<1>10. PendingBumpSound'
  <2> SUFFICES ASSUME NEW v \in Writers, writer'[v].pc = "set",
                      NEW i, i = writer'[v].addr[writer'[v].slot], ~regressed'[i]
               PROVE  /\ writer'[v].cur <= version'[i]
                      /\ \A e \in cache : e.ip = i /\ e.ver > writer'[v].cur =>
                            e.epoch >= writer'[v].epoch
                      /\ \A r \in Readers :
                            Loaded(r) /\ reader[r].ip = i /\ reader[r].ver > writer'[v].cur =>
                                reader[r].epoch >= writer'[v].epoch
    BY <1>3, <1>a DEF PendingBumpSound
  <2>1. v # w /\ writer'[v] = writer[v] /\ i \in IPs
    BY <1>1, <1>2 DEF CallsWellFormed
  <2>2. ~regressed[i] /\ version[i] <= version'[i]
    <3>1. CASE i = ip
      BY <1>4, <1>b, <3>1
    <3>2. CASE i # ip
      BY <1>0, <1>3, <2>1, <3>2
    <3> QED BY <3>1, <3>2
  <2>3. version'[i] \in Nat /\ version[i] \in Nat
    BY <1>0, <1>3, <1>4, <2>1
  <2>4. writer[v].cur <= version[i]
    BY <2>1, <2>2 DEF PendingBumpSound
  <2>5. writer[v].cur <= version'[i]
    BY <1>t, <2>2, <2>3, <2>4
  <2> QED BY <2>1, <2>2, <2>5 DEF PendingBumpSound
<1>11. CompletedBumpSound'
  <2> SUFFICES ASSUME NEW i \in IPs, ~regressed'[i]
               PROVE  /\ \A e \in cache : e.ip = i /\ e.ver = version'[i] => e.epoch >= bumped'[i]
                      /\ \A r \in Readers :
                            Loaded(r) /\ reader[r].ip = i /\ reader[r].ver = version'[i] =>
                                reader[r].epoch >= bumped'[i]
    BY <1>3, <1>a DEF CompletedBumpSound
  <2>1. CASE i # ip
    BY <1>3, <2>1 DEF CompletedBumpSound
  <2>2. CASE i = ip
    BY <1>0, <1>t, <1>4, <1>5, <1>b, <2>2 DEF CompletedBumpSound
  <2> QED BY <2>1, <2>2
<1>12. LockCoversAddresses'
  <2>0. \A s \in Slots : db.addr[s] # Null => db.addr[s] \in IPs
    BY DEF TypeOK, Database, Address
  <2>1. \A i \in IPs : bumped[i] = epoch => bumped'[i] = epoch
    BY <1>0, <1>3, <1>5
  <2>2. c = epoch => bumped'[ip] = epoch
    BY <1>0, <1>5 DEF EpochsBounded
  <2>3. ASSUME NEW v \in Writers, writer'[v].pc \in {"read", "set"},
               writer'[v].kind \in LockKinds, writer'[v].epoch = epoch
        PROVE  /\ writer'[v].addr = db.addr
               /\ \A s \in Slots : s < writer'[v].slot /\ db.addr[s] # Null =>
                     bumped'[db.addr[s]] = epoch
    <3>1. CASE v # w
      BY <1>1, <2>0, <2>1, <2>3, <3>1 DEF LockCoversAddresses
    <3>2. CASE v = w
      <4>1. writer[w].addr = db.addr /\ ip = db.addr[writer[w].slot]
        BY <1>0, <1>2, <2>3, <3>2 DEF LockCoversAddresses, ip, c
      <4>2. \A s \in Slots : s < writer'[w].slot => s < writer[w].slot \/ s = writer[w].slot
        BY <1>0, <1>2 DEF Slots
      <4>3. \A s \in Slots : s < writer[w].slot /\ db.addr[s] # Null => bumped[db.addr[s]] = epoch
        BY <1>0, <1>2, <2>3, <3>2, <4>1 DEF LockCoversAddresses, c
      <4> QED BY <1>2, <2>0, <2>1, <2>2, <2>3, <3>2, <4>1, <4>2, <4>3
    <3> QED BY <3>1, <3>2
  <2>4. CompletedLast(LockKinds)' => CompletedLast(LockKinds)
    BY <1>3 DEF CompletedLast
  <2> QED BY <1>3, <2>0, <2>1, <2>3, <2>4 DEF LockCoversAddresses
<1> QED BY <1>6, <1>7, <1>8, <1>9, <1>10, <1>11, <1>12

\* The call returns.
LEMMA WriteReturnIInv ==
    ASSUME IInv, TypeOK', NEW w \in Writers, WriteReturn(w)
    PROVE  IInv'
<1> USE DEF IInv
<1>0. /\ writer \in [Writers -> Writer] /\ writer[w].pc = "read" /\ writer[w].slot = 4
      /\ epoch \in Nat /\ writer[w].epoch <= epoch
  BY DEF WriteReturn, TypeOK, EpochsBounded
<1>1. /\ writer'[w] = IdleWriter /\ \A v \in Writers : v # w => writer'[v] = writer[v]
      /\ UNCHANGED <<db, version, cache, reader, epoch, bumped, regressed>>
      /\ returned'.kind = writer[w].kind /\ returned'.epoch = writer[w].epoch
  BY <1>0 DEF WriteReturn
<1>2. writer'[w].pc = "idle" /\ writer'[w].epoch = 0
  BY <1>1 DEF IdleWriter
<1>a. \A q \in Readers : Loaded(q)' <=> Loaded(q)
  BY <1>1 DEF Loaded
<1>3. CallsWellFormed' /\ EpochsBounded'
  BY <1>0, <1>1, <1>2 DEF CallsWellFormed, EpochsBounded
<1>4. CurrentReflectsDb'
  BY <1>1, <1>a DEF CurrentReflectsDb, Consistent
<1>5. VersionsBounded' /\ CompletedBumpSound'
  BY <1>1, <1>a DEF VersionsBounded, CompletedBumpSound
<1>6. PendingBumpSound'
  BY <1>1, <1>2, <1>a DEF PendingBumpSound
<1>7. LockCoversAddresses'
  <2>1. \A v \in Writers : writer'[v].pc \in {"read", "set"} => writer'[v] = writer[v]
    BY <1>1, <1>2
  <2>2. \A s \in Slots : s < 4
    BY DEF Slots
  <2>3. CompletedLast(LockKinds)' =>
            \A s \in Slots : db.addr[s] # Null => bumped[db.addr[s]] = epoch
    BY <1>0, <1>1, <2>2 DEF CompletedLast, LockCoversAddresses
  <2> QED BY <1>1, <2>1, <2>3 DEF LockCoversAddresses
<1> QED BY <1>3, <1>4, <1>5, <1>6, <1>7

\* The expiry of a decision or of a version.
LEMMA ExpiryIInv ==
    ASSUME IInv, TypeOK', NEW ip \in IPs,
           VersionExpire(ip) \/ \E dom \in Domains : Expire(ip, dom)
    PROVE  IInv'
<1> USE DEF IInv
<1>1. ASSUME NEW dom \in Domains, Expire(ip, dom) PROVE IInv'
  <2>1. cache' \subseteq cache
        /\ UNCHANGED <<db, version, reader, writer, epoch, bumped, regressed, returned>>
    BY <1>1 DEF Expire, history
  <2>a. \A q \in Readers : Loaded(q)' <=> Loaded(q)
    BY <2>1 DEF Loaded
  <2>2. CallsWellFormed' /\ EpochsBounded' /\ LockCoversAddresses'
    BY <2>1 DEF CallsWellFormed, EpochsBounded, LockCoversAddresses, CompletedLast
  <2>3. CurrentReflectsDb'
    BY <2>1, <2>a DEF CurrentReflectsDb, Consistent
  <2>4. VersionsBounded' /\ CompletedBumpSound'
    BY <2>1, <2>a DEF VersionsBounded, CompletedBumpSound
  <2>5. PendingBumpSound'
    BY <2>1, <2>a DEF PendingBumpSound
  <2> QED BY <2>2, <2>3, <2>4, <2>5
<1>2. CASE VersionExpire(ip)
  <2>0. version \in [IPs -> Nat] /\ regressed \in [IPs -> BOOLEAN]
    BY DEF TypeOK
  <2>1. /\ UNCHANGED <<db, cache, reader, writer, epoch, bumped, returned>>
        /\ regressed'[ip]
        /\ \A i \in IPs : i # ip => version'[i] = version[i] /\ regressed'[i] = regressed[i]
    BY <1>2, <2>0 DEF VersionExpire
  <2>a. \A q \in Readers : Loaded(q)' <=> Loaded(q)
    BY <2>1 DEF Loaded
  <2>2. CallsWellFormed' /\ EpochsBounded' /\ LockCoversAddresses'
    BY <2>1 DEF CallsWellFormed, EpochsBounded, LockCoversAddresses, CompletedLast
  <2>3. CurrentReflectsDb'
    BY <2>1, <2>a DEF CurrentReflectsDb, Consistent
  <2>4. VersionsBounded' /\ CompletedBumpSound'
    BY <2>1, <2>a DEF VersionsBounded, CompletedBumpSound
  <2>5. PendingBumpSound'
    BY <2>1, <2>a DEF PendingBumpSound, CallsWellFormed
  <2> QED BY <2>2, <2>3, <2>4, <2>5
<1> QED BY <1>1, <1>2

----------------------------------------------------------------------------
(* The theorems *)

\* Every reachable state of every interleaving of checkPolicy calls, locks,
\* blocks, silent policy changes and expiries satisfies the invariant; in
\* particular the state is well typed.
THEOREM Invariance == Spec => []IInv
<1>1. IInv /\ [Next]_vars => IInv'
  <2> SUFFICES ASSUME IInv, [Next]_vars PROVE IInv' OBVIOUS
  <2>0. TypeOK /\ CallsWellFormed
    BY DEF IInv
  <2>1. ASSUME NEW r \in Readers, NEW ip \in IPs, NEW dom \in Domains, CheckStart(r, ip, dom)
        PROVE  IInv'
    BY <2>0, <2>1, ReaderTypeOK, ReaderIInv
  <2>2. ASSUME NEW r \in Readers, ReaderStep(r) PROVE IInv'
    BY <2>0, <2>2, ReaderTypeOK, ReaderIInv, StoreIInv DEF ReaderStep
  <2>3. ASSUME NEW r \in Readers, CheckFails(r) PROVE IInv'
    BY <2>0, <2>3, ReaderTypeOK, ReaderIInv
  <2>4. ASSUME NEW w \in Writers, WriterStep(w) PROVE IInv'
    BY <2>0, <2>4, WriterTypeOK, WriterIInv, WriteUpdateIInv, BumpSetIInv, WriteReturnIInv
       DEF WriterStep
  <2>5. CASE Silent
    BY <2>0, <2>5, OtherTypeOK, SilentIInv
  <2>6. ASSUME NEW ip \in IPs, VersionExpire(ip) \/ \E dom \in Domains : Expire(ip, dom)
        PROVE  IInv'
    BY <2>0, <2>6, OtherTypeOK, ExpiryIInv
  <2>7. CASE UNCHANGED vars
    BY <2>7 DEF vars, IInv, TypeOK, CallsWellFormed, EpochsBounded, CurrentReflectsDb,
                Consistent, Loaded, VersionsBounded, PendingBumpSound, CompletedBumpSound,
                LockCoversAddresses, CompletedLast
  <2> QED BY <2>1, <2>2, <2>3, <2>4, <2>5, <2>6, <2>7 DEF Next
<1> QED BY <1>1, InitIInv, PTL DEF Spec

\* The state of the cache and of every call stays well typed.
THEOREM TypeCorrect == Spec => []TypeOK
<1>1. IInv => TypeOK
  BY DEF IInv
<1> QED BY <1>1, Invariance, PTL

\* Once invalidateSourceIps has written the version of an ip for the latest
\* policy change, no stale decision is served for it, for any number of
\* concurrent calls of checkPolicy and of the invalidating services.
THEOREM BumpIsSound == Spec => []BumpOrphansStale
<1>1. IInv => BumpOrphansStale
  <2> SUFFICES ASSUME IInv, NEW ip \in IPs, bumped[ip] = epoch, ~regressed[ip],
                      NEW e \in Served(ip)
               PROVE  e.decision = Decide(db, ip, e.dom)
    BY DEF BumpOrphansStale, Fresh
  <2>1. e \in cache /\ e.ip = ip /\ e.ver = version[ip] /\ e.epoch \in Nat /\ epoch \in Nat
    BY DEF Served, IInv, TypeOK, Entry
  <2>2. e.epoch = epoch
    BY <2>1 DEF IInv, CompletedBumpSound, EpochsBounded
  <2> QED BY <2>1, <2>2 DEF IInv, CurrentReflectsDb
<1> QED BY <1>1, Invariance, PTL

\* A lock or unlock that has returned is in force at every address of the
\* device, for any number of concurrent calls.
THEOREM LockIsImmediate == Spec => []LockTakesEffect
<1>1. IInv => LockTakesEffect
  <2> SUFFICES ASSUME IInv, CompletedLast(LockKinds),
                      NEW ip \in AddressesOf(db.addr), ~regressed[ip]
               PROVE  Fresh(ip)
    BY DEF LockTakesEffect
  <2>1. PICK s \in Slots : db.addr[s] = ip /\ ip # Null
    BY DEF AddressesOf
  <2>2. ip \in IPs
    BY <2>1 DEF IInv, TypeOK, Database, Address
  <2>3. bumped[ip] = epoch
    BY <2>1 DEF IInv, LockCoversAddresses
  <2>4. ASSUME NEW e \in Served(ip) PROVE e.decision = Decide(db, ip, e.dom)
    <3>1. e \in cache /\ e.ip = ip /\ e.ver = version[ip] /\ e.epoch \in Nat /\ epoch \in Nat
      BY DEF Served, IInv, TypeOK, Entry
    <3>2. e.epoch = epoch
      BY <2>2, <2>3, <3>1 DEF IInv, CompletedBumpSound, EpochsBounded
    <3> QED BY <3>1, <3>2 DEF IInv, CurrentReflectsDb
  <2> QED BY <2>4 DEF Fresh
<1> QED BY <1>1, Invariance, PTL

\* Every call that invalidates has bumped the addresses it has gone through, on
\* behalf of its own change, as long as that change is the latest.
LEMMA WriterCovers == Spec => []WriterCoversAddresses
<1>1. Init => WriterCoversAddresses
  BY DEF Init, WriterCoversAddresses, IdleWriter
<1>2. IInv /\ WriterCoversAddresses /\ [Next]_vars => WriterCoversAddresses'
  <2> SUFFICES ASSUME IInv, WriterCoversAddresses, [Next]_vars,
                      NEW v \in Writers, writer'[v].pc \in {"read", "set"},
                      writer'[v].epoch = epoch',
                      NEW s \in Slots, s < writer'[v].slot, writer'[v].addr[s] # Null
               PROVE  bumped'[writer'[v].addr[s]] = epoch'
    BY DEF WriterCoversAddresses
  <2>0. /\ writer \in [Writers -> Writer] /\ epoch \in Nat /\ bumped \in [IPs -> Nat]
        /\ \A u \in Writers : /\ writer[u].epoch \in Nat /\ writer[u].epoch <= epoch
                              /\ writer[u].slot \in 1 .. 4
                              /\ \A t \in Slots : writer[u].addr[t] # Null =>
                                    writer[u].addr[t] \in IPs /\ bumped[writer[u].addr[t]] <= epoch
    BY DEF IInv, TypeOK, EpochsBounded, Writer, Address
  <2>1. CASE UNCHANGED <<writer, epoch, bumped>>
    BY <2>1 DEF WriterCoversAddresses
  <2>2. ASSUME epoch' = epoch + 1, writer'[v] = writer[v] PROVE FALSE
    BY <2>0, <2>2
  <2>3. ASSUME NEW w \in Writers, WriterStep(w) PROVE bumped'[writer'[v].addr[s]] = epoch'
    <3>1. ASSUME NEW x, writer' = [writer EXCEPT ![w] = x], x.pc \in {"idle", "update"},
                 epoch' = epoch, bumped' = bumped
          PROVE  bumped'[writer'[v].addr[s]] = epoch'
      <4>1. v # w /\ writer'[v] = writer[v]
        BY <2>0, <3>1
      <4> QED BY <3>1, <4>1 DEF WriterCoversAddresses
    <3>2. ASSUME NEW kind \in Kinds, WriteStart(w, kind)
          PROVE  bumped'[writer'[v].addr[s]] = epoch'
      <4> DEFINE x == [IdleWriter EXCEPT !.pc = "update", !.kind = kind, !.addr = db.addr]
      <4>1. x.pc = "update"
        BY DEF IdleWriter
      <4>2. writer' = [writer EXCEPT ![w] = x] /\ epoch' = epoch /\ bumped' = bumped
        BY <3>2 DEF WriteStart, history
      <4> HIDE DEF x
      <4> QED BY <3>1, <4>1, <4>2
    <3>3. CASE AdapterFails(w) \/ BumpFails(w) \/ WriteReturn(w)
      <4>1. IdleWriter.pc = "idle"
        BY DEF IdleWriter
      <4>2. writer' = [writer EXCEPT ![w] = IdleWriter] /\ epoch' = epoch /\ bumped' = bumped
        BY <3>3 DEF AdapterFails, BumpFails, WriteReturn, history
      <4> QED BY <3>1, <4>1, <4>2
    <3>4. CASE WriteUpdate(w)
      <4>1. epoch' = epoch + 1
        BY <3>4 DEF WriteUpdate, Change
      <4>2. v # w => writer'[v] = writer[v]
        BY <2>0, <3>4 DEF WriteUpdate
      <4>3. v = w => writer'[v].slot = 1
        BY <2>0, <3>4 DEF WriteUpdate, Writer
      <4> QED BY <2>2, <4>1, <4>2, <4>3 DEF Slots
    <3>5. CASE BumpSkip(w)
      <4>1. epoch' = epoch /\ bumped' = bumped
        BY <3>5 DEF BumpSkip, history
      <4>2. CASE v # w
        BY <2>0, <3>5, <4>1, <4>2 DEF BumpSkip, WriterCoversAddresses
      <4>3. CASE v = w
        <5>1. /\ writer'[w].slot = writer[w].slot + 1 /\ writer'[w].addr = writer[w].addr
              /\ writer'[w].epoch = writer[w].epoch /\ writer[w].pc = "read"
              /\ writer[w].addr[writer[w].slot] = Null /\ writer[w].slot \in Slots
          BY <2>0, <3>5 DEF BumpSkip, Writer
        <5>2. s < writer[w].slot
          BY <4>3, <5>1 DEF Slots
        <5> QED BY <4>1, <4>3, <5>1, <5>2 DEF WriterCoversAddresses
      <4> QED BY <4>2, <4>3
    <3>6. CASE BumpRead(w)
      <4>1. epoch' = epoch /\ bumped' = bumped
        BY <3>6 DEF BumpRead, history
      <4>2. /\ v # w => writer'[v] = writer[v]
            /\ writer'[v].slot = writer[v].slot /\ writer'[v].addr = writer[v].addr
            /\ writer'[v].epoch = writer[v].epoch /\ writer[w].pc = "read"
        BY <2>0, <3>6 DEF BumpRead, Writer
      <4> QED BY <4>1, <4>2 DEF WriterCoversAddresses
    <3>7. CASE BumpSet(w)
      <4> DEFINE ip == writer[w].addr[writer[w].slot]
      <4>1. /\ epoch' = epoch /\ writer[w].pc = "set" /\ ip \in IPs
            /\ writer[w].slot \in Slots
            /\ \A i \in IPs : i # ip => bumped'[i] = bumped[i]
            /\ bumped'[ip] = IF bumped[ip] < writer[w].epoch THEN writer[w].epoch
                                                             ELSE bumped[ip]
        BY <2>0, <3>7 DEF BumpSet, IInv, CallsWellFormed
      <4>2. /\ v # w => writer'[v] = writer[v]
            /\ writer'[v].addr = writer[v].addr /\ writer'[v].epoch = writer[v].epoch
            /\ v = w => writer'[v].slot = writer[w].slot + 1
        BY <2>0, <3>7 DEF BumpSet, Writer
      <4>3. \A i \in IPs : bumped[i] \in Nat /\ bumped[i] <= epoch
        BY <2>0 DEF IInv, EpochsBounded
      <4>4. \A i \in IPs : bumped[i] = epoch => bumped'[i] = epoch
        BY <2>0, <4>1, <4>3
      <4>5. CASE s < writer[v].slot
        <5>1. writer[v].pc \in {"read", "set"} /\ writer[v].addr[s] \in IPs
          BY <2>0, <4>1, <4>2
        <5>2. bumped[writer[v].addr[s]] = epoch
          BY <4>1, <4>2, <4>5, <5>1 DEF WriterCoversAddresses
        <5> QED BY <4>1, <4>2, <4>4, <5>1, <5>2
      <4>6. CASE ~(s < writer[v].slot)
        <5>1. v = w /\ s = writer[w].slot
          BY <2>0, <4>1, <4>2, <4>6 DEF Slots
        <5>2. bumped'[ip] = epoch
          BY <2>0, <4>1, <4>2, <4>3, <5>1
        <5> QED BY <4>1, <4>2, <5>1, <5>2
      <4> QED BY <4>5, <4>6
    <3> QED BY <2>3, <3>2, <3>3, <3>4, <3>5, <3>6, <3>7 DEF WriterStep
  <2>4. CASE Silent
    <3>1. epoch' = epoch + 1 /\ writer' = writer
      BY <2>4 DEF Silent, Bedtime, GatewayBlock, SessionChange, DomainChange,
                  CategoryChange, MoveAddress, SilentChange, Change
    <3> QED BY <2>2, <3>1
  <2>5. ASSUME NEW r \in Readers, NEW ip \in IPs, NEW dom \in Domains, CheckStart(r, ip, dom)
        PROVE  UNCHANGED <<writer, epoch, bumped>>
    BY <2>5 DEF CheckStart, history
  <2>6. ASSUME NEW r \in Readers, ReaderStep(r) \/ CheckFails(r)
        PROVE  UNCHANGED <<writer, epoch, bumped>>
    BY <2>6 DEF ReaderStep, CheckHit, CheckMiss, LoadDevice, LoadSession, LoadDomain,
                LoadCategory, Store, CheckFails, history
  <2>7. ASSUME NEW ip \in IPs, VersionExpire(ip) \/ \E dom \in Domains : Expire(ip, dom)
        PROVE  UNCHANGED <<writer, epoch, bumped>>
    BY <2>7 DEF VersionExpire, Expire, history
  <2>8. CASE UNCHANGED vars
    BY <2>1, <2>8 DEF vars
  <2> QED BY <2>1, <2>3, <2>4, <2>5, <2>6, <2>7, <2>8 DEF Next
<1> QED BY <1>1, <1>2, Invariance, PTL DEF Spec

\* When invalidateSourceIps is through its addresses on behalf of the latest
\* change, whoever called it, none of them is served a stale decision, for any
\* number of concurrent calls: what blockDevice and unblockDevice can count on.
THEOREM InvalidationIsComplete == Spec => []InvalidationComplete
<1>1. IInv /\ WriterCoversAddresses => InvalidationComplete
  <2> SUFFICES ASSUME IInv, WriterCoversAddresses, NEW w \in Writers,
                      writer[w].pc = "read", writer[w].slot = 4, writer[w].epoch = epoch,
                      NEW ip \in AddressesOf(writer[w].addr), ~regressed[ip],
                      NEW e \in Served(ip)
               PROVE  e.decision = Decide(db, ip, e.dom)
    BY DEF InvalidationComplete, Fresh
  <2>1. PICK s \in Slots : writer[w].addr[s] = ip /\ ip # Null
    BY DEF AddressesOf
  <2>2. ip \in IPs
    BY <2>1 DEF IInv, TypeOK, Writer, Address
  <2>3. s < 4
    BY DEF Slots
  <2>4. bumped[ip] = epoch
    BY <2>1, <2>3 DEF WriterCoversAddresses
  <2>5. e \in cache /\ e.ip = ip /\ e.ver = version[ip] /\ e.epoch \in Nat /\ epoch \in Nat
    BY DEF Served, IInv, TypeOK, Entry
  <2>6. e.epoch = epoch
    BY <2>2, <2>4, <2>5 DEF IInv, CompletedBumpSound, EpochsBounded
  <2> QED BY <2>5, <2>6 DEF IInv, CurrentReflectsDb
<1> QED BY <1>1, Invariance, WriterCovers, PTL
============================================================================
