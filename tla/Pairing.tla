------------------------------ MODULE Pairing ------------------------------
(***************************************************************************)
(* PairingService for one device: the one-time token of startPairing, the  *)
(* probe that confirms it, and the beacon probes that keep dnsSourceIp at  *)
(* the household's public address.                                         *)
(*                                                                         *)
(* A confirmation is one interactive Postgres transaction at READ          *)
(* COMMITTED: it reads without a lock, its first update locks the session  *)
(* row, and a throw undoes every write made through `tx`.                  *)
(* setDevicePairStatus is called without `tx` and is therefore not undone. *)
(***************************************************************************)
EXTENDS Naturals, FiniteSets

CONSTANTS Starters, Probes,
          IPs, Null,
          MaxAttempts,  \* the 5 of `attempts.attempts > 5`
          TTL,          \* PAIR_TOKEN_TTL_MS
          MaxTime,      \* bound: the clock
          MaxTokens,    \* bound: pairings started
          MaxMoves,     \* bound: changes of the household's address
          MaxRejects    \* bound: rejected confirmations of a token

ASSUME PairingAssumption ==
    /\ Null \notin IPs /\ Null \notin Probes
    /\ MaxAttempts \in Nat /\ TTL \in Nat /\ MaxTime \in Nat
    /\ MaxTokens \in Nat /\ MaxMoves \in Nat /\ MaxRejects \in Nat

\* As many startPairing calls may overlap as one likes, but finitely many.
ASSUME StartersFinite == IsFiniteSet(Starters)

VARIABLES
    session,  \* the pairing_sessions rows by token; status "NONE": no row
    locker,   \* the probe whose transaction holds the row lock, or Null
    device,   \* paired, pairStatus, dnsSourceIp, dnsBeaconToken
    ipHistory,
    starter,  \* local state of every startPairing
    probe,    \* local state of every confirmProbe
    minted,   \* tokens generated
    home,     \* the household's public address
    moves,
    now,
    shown,    \* history: tokens that were returned to the parent
    gone,     \* history: tokens deleted by a restart, a cancel or a pairing
    rejects,  \* confirm attempts rejected, by token
    paired    \* history: number of successful confirmations by token

rows == <<session, locker, device, ipHistory>>
world == <<home, moves, now>>
history == <<shown, gone, rejects, paired>>
vars == <<rows, starter, probe, minted, world, history>>

Tokens == 1 .. MaxTokens
NoRow == [status |-> "NONE", deadline |-> 0, attempts |-> 0]
IdleProbe == [pc |-> "idle", token |-> 0, ip |-> Null]
IdleStarter == [pc |-> "idle", token |-> 0]

Init ==
    /\ session = [t \in Tokens |-> NoRow] /\ locker = [t \in Tokens |-> Null]
    /\ device = [paired |-> FALSE, pairStatus |-> "NONE", ip |-> Null, beacon |-> 0]
    /\ ipHistory = {}
    /\ starter = [s \in Starters |-> IdleStarter]
    /\ probe = [p \in Probes |-> IdleProbe]
    /\ minted = 0
    /\ home \in IPs /\ moves = 0 /\ now = 0
    /\ shown = {} /\ gone = {}
    /\ rejects = [t \in Tokens |-> 0] /\ paired = [t \in Tokens |-> 0]

Waiting == {t \in Tokens : session[t].status = "WAITING"}
Exists(t) == session[t].status # "NONE"

----------------------------------------------------------------------------
(* startPairing and cancelPairing *)

\* deleteWaitingSessionsForDevice waits for the rows that are locked.
DeleteWaiting ==
    /\ \A t \in Waiting : locker[t] = Null
    /\ session' = [t \in Tokens |-> IF t \in Waiting THEN NoRow ELSE session[t]]
    /\ gone' = gone \cup Waiting

StartDelete(s) ==
    /\ starter[s].pc = "idle" /\ minted < MaxTokens
    /\ DeleteWaiting
    /\ starter' = [starter EXCEPT ![s].pc = "create"]
    /\ UNCHANGED <<locker, device, ipHistory, probe, minted, world, shown, rejects, paired>>

StartCreate(s) ==
    /\ starter[s].pc = "create" /\ minted < MaxTokens
    /\ minted' = minted + 1
    /\ session' = [session EXCEPT ![minted + 1] =
                      [status |-> "WAITING", deadline |-> now + TTL, attempts |-> 0]]
    /\ starter' = [starter EXCEPT ![s] = [pc |-> "status", token |-> minted + 1]]
    /\ UNCHANGED <<locker, device, ipHistory, probe, world, history>>

\* setDevicePairStatus, the audit entry and the answer.
StartStatus(s) ==
    /\ starter[s].pc = "status"
    /\ device' = [device EXCEPT !.pairStatus = "WAITING"]
    /\ shown' = shown \cup {starter[s].token}
    /\ starter' = [starter EXCEPT ![s] = IdleStarter]
    /\ UNCHANGED <<session, locker, ipHistory, probe, minted, world, gone, rejects, paired>>

Cancel ==
    /\ Waiting # {}
    /\ DeleteWaiting
    /\ UNCHANGED <<locker, device, ipHistory, starter, probe, minted, world,
                   shown, rejects, paired>>

----------------------------------------------------------------------------
(* confirmProbe with a pairing token: tryConfirmPairingSession *)

Send(p, pc, t) == probe' = [probe EXCEPT ![p] = [pc |-> pc, token |-> t, ip |-> home]]
Step(p, pc) == probe' = [probe EXCEPT ![p].pc = pc]
End(p) == probe' = [probe EXCEPT ![p] = IdleProbe]

\* The transaction reads the row: expired, or an attempt.
ConfirmFind(p, t) ==
    /\ probe[p].pc = "idle" /\ t \in shown /\ rejects[t] < MaxRejects
    /\ session[t].status = "WAITING"
    /\ Send(p, IF session[t].deadline < now THEN "expire" ELSE "increment", t)
    /\ UNCHANGED <<rows, starter, minted, world, history>>

\* The update of a row that has been deleted since throws; otherwise it locks.
ConfirmGone(p) ==
    /\ probe[p].pc \in {"expire", "increment"}
    /\ ~Exists(probe[p].token)
    /\ End(p)
    /\ UNCHANGED <<rows, starter, minted, world, history>>

Lock(p) == /\ Exists(probe[p].token) /\ locker[probe[p].token] = Null
           /\ locker' = [locker EXCEPT ![probe[p].token] = p]
Unlock(p) == locker' = [locker EXCEPT ![probe[p].token] = Null]

\* markSessionStatus(EXPIRED, tx)
ConfirmExpire(p) ==
    /\ probe[p].pc = "expire"
    /\ Lock(p) /\ Step(p, "expired")
    /\ UNCHANGED <<session, device, ipHistory, starter, minted, world, history>>

\* Mutant: updateMany, which does not throw when the row is gone.
ConfirmIncrementBlind(p) ==
    /\ probe[p].pc = "increment"
    /\ locker[probe[p].token] = Null
    /\ locker' = [locker EXCEPT ![probe[p].token] = p]
    /\ Step(p, "pair")
    /\ UNCHANGED <<session, device, ipHistory, starter, minted, world, history>>

\* incrementSessionAttempts(tx), then the limit; markSessionStatus(FAILED, tx)
ConfirmIncrement(p) ==
    /\ probe[p].pc = "increment"
    /\ Lock(p)
    /\ Step(p, IF session[probe[p].token].attempts + 1 > MaxAttempts THEN "failed" ELSE "pair")
    /\ UNCHANGED <<session, device, ipHistory, starter, minted, world, history>>

\* setDevicePairStatus outside the transaction, then the throw that rolls
\* the session row back.
ConfirmReject(p) ==
    /\ probe[p].pc \in {"expired", "failed"}
    /\ device' = [device EXCEPT !.pairStatus =
                      IF probe[p].pc = "expired" THEN "EXPIRED" ELSE "FAILED"]
    /\ rejects' = [rejects EXCEPT ![probe[p].token] = @ + 1]
    /\ Unlock(p) /\ End(p)
    /\ UNCHANGED <<session, ipHistory, starter, minted, world, shown, gone, paired>>

\* The new beacon token is named after the pairing token.
MarkDevicePaired(ip, t) ==
    device' = [paired |-> TRUE, pairStatus |-> "PAIRED", ip |-> ip, beacon |-> t]
ApplyIpChange(ip) == device' = [device EXCEPT !.ip = ip]

\* An address that is known only gets a new lastSeenAt.
UpsertIpHistory(ip) == ipHistory' = ipHistory \cup {ip}

\* Device, IP history, event, deleteSession, commit.
ConfirmCommit(p) ==
    /\ probe[p].pc = "pair"
    /\ MarkDevicePaired(probe[p].ip, probe[p].token)
    /\ UpsertIpHistory(probe[p].ip)
    /\ session' = [session EXCEPT ![probe[p].token] = NoRow]
    /\ gone' = gone \cup {probe[p].token}
    /\ paired' = [paired EXCEPT ![probe[p].token] = @ + 1]
    /\ Unlock(p) /\ End(p)
    /\ UNCHANGED <<starter, minted, world, shown, rejects>>

\* Postgres fails, or the transaction times out: everything is undone.
ConfirmAbort(p) ==
    /\ probe[p].pc \in {"expired", "failed", "pair"}
    /\ Unlock(p) /\ End(p)
    /\ UNCHANGED <<session, device, ipHistory, starter, minted, world, history>>

----------------------------------------------------------------------------
(* confirmProbe with the beacon token: recordHeartbeat *)

Beacon(p) ==
    /\ probe[p].pc = "idle"
    /\ device.beacon # 0
    /\ Send(p, "heartbeat", device.beacon)
    /\ UNCHANGED <<rows, starter, minted, world, history>>

\* Mutant: the first address seen is kept.
HeartbeatKeep(p) ==
    /\ probe[p].pc = "heartbeat"
    /\ device.paired
    /\ End(p)
    /\ UNCHANGED <<rows, starter, minted, world, history>>

\* The device is read again.  Same address: history and lastDnsSeenAt only.
Heartbeat(p) ==
    /\ probe[p].pc = "heartbeat"
    /\ device.paired
    /\ \/ device.ip # probe[p].ip /\ Step(p, "move")
       \/ device.ip = probe[p].ip /\ End(p)
    /\ UNCHANGED <<rows, starter, minted, world, history>>

\* applyIpChange, upsertIpHistory and the event, in one transaction.
HeartbeatMove(p) ==
    /\ probe[p].pc = "move"
    /\ ApplyIpChange(probe[p].ip)
    /\ UpsertIpHistory(probe[p].ip)
    /\ End(p)
    /\ UNCHANGED <<session, locker, starter, minted, world, history>>

----------------------------------------------------------------------------
(* The household *)

HomeMoves ==
    /\ moves < MaxMoves
    /\ moves' = moves + 1
    /\ home' \in IPs \ {home}
    /\ UNCHANGED <<rows, starter, probe, minted, now, history>>

Tick ==
    /\ now < MaxTime
    /\ now' = now + 1
    /\ UNCHANGED <<rows, starter, probe, minted, home, moves, history>>

ConfirmStep(p) ==
    \/ ConfirmGone(p) \/ ConfirmExpire(p) \/ ConfirmIncrement(p)
    \/ ConfirmReject(p) \/ ConfirmCommit(p)
BeaconStep(p) == Beacon(p) \/ Heartbeat(p) \/ HeartbeatMove(p)

Next ==
    \/ \E s \in Starters : StartDelete(s) \/ StartCreate(s) \/ StartStatus(s)
    \/ Cancel
    \/ \E p \in Probes : \/ \E t \in Tokens : ConfirmFind(p, t)
                         \/ ConfirmStep(p) \/ ConfirmAbort(p) \/ BeaconStep(p)
    \/ HomeMoves \/ Tick

Spec == Init /\ [][Next]_vars

\* Calls in progress end, and the parent's app keeps sending its beacon, also
\* while pairing probes fail again and again (hence strong fairness).
FairSpec == Spec /\ \A p \in Probes : WF_vars(ConfirmStep(p)) /\ SF_vars(BeaconStep(p))

----------------------------------------------------------------------------
(* Properties *)

\* A stored session is WAITING or gone: EXPIRED and FAILED are only ever
\* written in a transaction that the following throw rolls back.
TypeOK ==
    /\ session \in [Tokens -> [status : {"NONE", "WAITING"}, deadline : Nat, attempts : Nat]]
    /\ locker \in [Tokens -> Probes \cup {Null}]
    /\ device \in [paired : BOOLEAN, ip : IPs \cup {Null}, beacon : {0} \cup Tokens,
                   pairStatus : {"NONE", "WAITING", "PAIRED", "EXPIRED", "FAILED"}]
    /\ ipHistory \subseteq IPs
    /\ starter \in [Starters -> [pc : {"idle", "create", "status"}, token : {0} \cup Tokens]]
    /\ probe \in [Probes -> [pc : {"idle", "expire", "increment", "expired", "failed",
                                   "pair", "heartbeat", "move"},
                             token : {0} \cup Tokens, ip : IPs \cup {Null}]]
    /\ minted \in Nat /\ home \in IPs /\ moves \in Nat /\ now \in Nat
    /\ shown \subseteq Tokens /\ gone \subseteq Tokens
    /\ rejects \in [Tokens -> Nat] /\ paired \in [Tokens -> Nat]

\* A token that a restart, a cancel or a pairing has deleted never pairs the
\* device afterwards, also when its probe was under way: no token pairs twice,
\* however many probes carry it at the same time.
InvalidatedNeverPairs ==
    [][\A t \in gone : paired'[t] = paired[t]]_vars

\* "One live session per device — starting again invalidates any prior one"
\* (pairing.service.ts:37).  The code does not keep to it: each of two starts that
\* overlap deletes before either creates, and both sessions stay live.
OneLiveSession == Cardinality(Waiting) <= 1

\* What the delete at the start does achieve: a start leaves no session but those
\* of starts that overlapped it, so there is never more than one for each call
\* that may be under way.
OneSessionPerStart == Cardinality(Waiting) <= Cardinality(Starters)

\* recordHeartbeat "auto-repairs dnsSourceIp when the household's public IP
\* changes": when the address stops changing, dnsSourceIp becomes and stays it.
AddressRepaired == <>[](device.paired => device.ip = home)

----------------------------------------------------------------------------
(* The inductive invariant behind InvalidatedNeverPairs and OneSessionPerStart *)

\* A confirmation past its first update.
InTransaction(p) == probe[p].pc \in {"expired", "failed", "pair"}

\* It holds the lock of its session row, and the row is there.
LocksHeld ==
    \A p \in Probes : InTransaction(p) =>
        /\ probe[p].token \in Tokens /\ locker[probe[p].token] = p
        /\ Exists(probe[p].token)

\* A confirmation that has yet to lock a row knows which.
ProbesHaveTokens ==
    \A p \in Probes : probe[p].pc \in {"expire", "increment"} => probe[p].token \in Tokens

\* Calls of startPairing that answer have a token to show, and a heartbeat has
\* an address.
CallsCarry ==
    /\ \A s \in Starters : starter[s].pc = "status" => starter[s].token \in Tokens
    /\ \A p \in Probes : probe[p].pc # "idle" => probe[p].ip \in IPs

\* Only generated tokens have rows, and a deleted row does not come back.
RowsAreMinted ==
    /\ minted <= MaxTokens
    /\ \A t \in Tokens : Exists(t) => t <= minted
    /\ \A t \in gone : t <= minted /\ ~Exists(t)

\* A token has paired the device once at most, and is gone if it has.
PairedOnce == \A t \in Tokens : paired[t] <= 1 /\ (t \notin gone => paired[t] = 0)

\* Calls of startPairing that have deleted the old rows and not made theirs.
Creating == {s \in Starters : starter[s].pc = "create"}

\* A live row was made by a start after the last deletion, and each start
\* makes one: rows and starts about to make one are no more than the starts.
StartsBoundRows ==
    Cardinality(Waiting) + Cardinality(Creating) <= Cardinality(Starters)

PairingInv ==
    /\ TypeOK /\ LocksHeld /\ ProbesHaveTokens /\ CallsCarry /\ RowsAreMinted
    /\ PairedOnce /\ StartsBoundRows

----------------------------------------------------------------------------
(* The safety part of AddressRepaired *)

\* The row has the present address, and no probe under way carries an older one.
Repaired ==
    /\ device.paired => device.ip = home
    /\ \A p \in Probes : probe[p].pc # "idle" => probe[p].ip = home

\* Once repaired the address stays so until the household moves again, whatever
\* pairings are started, confirmed, rejected or cancelled meanwhile.
RepairedStays == [][Repaired /\ home' = home => Repaired']_vars
============================================================================
