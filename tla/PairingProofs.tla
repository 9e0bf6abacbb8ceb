--------------------------- MODULE PairingProofs ---------------------------
(***************************************************************************)
(* Proofs about Pairing, for any number of overlapping startPairing and    *)
(* confirmProbe calls, tokens and addresses: a token that was deleted      *)
(* never pairs the device, no token pairs it twice, and there are no more  *)
(* live sessions than starts that may overlap.                             *)
(***************************************************************************)
EXTENDS Pairing, FiniteSetTheorems, TLAPS

\* The values of a session row, of a start and of a probe.
Row == [status : {"NONE", "WAITING"}, deadline : Nat, attempts : Nat]
StarterState == [pc : {"idle", "create", "status"}, token : {0} \cup Tokens]
ProbePc == {"idle", "expire", "increment", "expired", "failed", "pair", "heartbeat", "move"}
ProbeState == [pc : ProbePc, token : {0} \cup Tokens, ip : IPs \cup {Null}]

\* The types of the tables and of the calls, unfolded.
LEMMA TypeFacts ==
    ASSUME TypeOK
    PROVE  /\ session \in [Tokens -> Row] /\ locker \in [Tokens -> Probes \cup {Null}]
           /\ starter \in [Starters -> StarterState] /\ probe \in [Probes -> ProbeState]
           /\ minted \in Nat /\ home \in IPs /\ now \in Nat /\ now + TTL \in Nat
           /\ NoRow \in Row /\ IdleProbe \in ProbeState /\ IdleStarter \in StarterState
  BY PairingAssumption
     DEF TypeOK, Row, StarterState, ProbeState, ProbePc, NoRow, IdleProbe, IdleStarter

\* The initial state satisfies the invariant: no rows, no calls.
LEMMA InitPairing == Init => PairingInv
<1> SUFFICES ASSUME Init PROVE PairingInv OBVIOUS
<1>1. TypeOK
  BY PairingAssumption DEF Init, TypeOK, NoRow, IdleProbe, IdleStarter
<1>2. LocksHeld /\ ProbesHaveTokens /\ CallsCarry /\ PairedOnce
  BY DEF Init, LocksHeld, InTransaction, ProbesHaveTokens, CallsCarry, PairedOnce,
         IdleProbe, IdleStarter
<1>3. RowsAreMinted
  BY PairingAssumption DEF Init, RowsAreMinted, Exists, NoRow
<1>4. StartsBoundRows
  <2>1. Waiting = {} /\ Creating = {}
    BY DEF Init, Waiting, Creating, NoRow, IdleStarter
  <2>2. Cardinality({}) = 0 /\ Cardinality(Starters) \in Nat
    BY StartersFinite, FS_EmptySet, FS_CardinalityType
  <2> QED BY <2>1, <2>2 DEF StartsBoundRows
<1> QED BY <1>1, <1>2, <1>3, <1>4 DEF PairingInv

----------------------------------------------------------------------------
(* Types *)

\* No step of startPairing and no cancel leaves the types.
LEMMA StarterTypeOK ==
    ASSUME PairingInv,
           Cancel \/ \E s \in Starters : StartDelete(s) \/ StartCreate(s) \/ StartStatus(s)
    PROVE  TypeOK'
<1>0. TypeOK /\ CallsCarry
  BY DEF PairingInv
<1>1. ASSUME DeleteWaiting PROVE session' \in [Tokens -> Row] /\ gone' \subseteq Tokens
  BY <1>0, <1>1, TypeFacts DEF DeleteWaiting, TypeOK, Waiting
<1>2. CASE Cancel
  BY <1>0, <1>1, <1>2 DEF Cancel, TypeOK, Row, world
<1>3. ASSUME NEW s \in Starters, StartDelete(s) PROVE TypeOK'
  <2>1. starter' \in [Starters -> StarterState]
    BY <1>0, <1>3, TypeFacts DEF StartDelete, StarterState
  <2> QED BY <1>0, <1>1, <1>3, <2>1 DEF StartDelete, TypeOK, Row, StarterState, world
<1>4. ASSUME NEW s \in Starters, StartCreate(s) PROVE TypeOK'
  <2>1. minted + 1 \in Tokens
    BY <1>4, TypeFacts, <1>0, PairingAssumption DEF StartCreate, Tokens
  <2>2. [status |-> "WAITING", deadline |-> now + TTL, attempts |-> 0] \in Row
    BY <1>0, TypeFacts DEF Row
  <2>3. session' \in [Tokens -> Row]
    BY <1>0, <1>4, <2>1, <2>2, TypeFacts DEF StartCreate
  <2>4. [pc |-> "status", token |-> minted + 1] \in StarterState
    BY <2>1 DEF StarterState
  <2>5. starter' \in [Starters -> StarterState]
    BY <1>0, <1>4, <2>4, TypeFacts DEF StartCreate
  <2>6. minted' \in Nat
    BY <1>0, <1>4, TypeFacts DEF StartCreate
  <2> QED BY <1>0, <1>4, <2>3, <2>5, <2>6 DEF StartCreate, TypeOK, Row, StarterState, world, history
<1>5. ASSUME NEW s \in Starters, StartStatus(s) PROVE TypeOK'
  <2>1. shown' \subseteq Tokens
    BY <1>0, <1>5 DEF StartStatus, CallsCarry, TypeOK
  <2>2. starter' \in [Starters -> StarterState]
    BY <1>0, <1>5, TypeFacts DEF StartStatus
  <2> QED BY <1>0, <1>5, <2>1, <2>2 DEF StartStatus, TypeOK, StarterState, world
<1> QED BY <1>2, <1>3, <1>4, <1>5

\* No step of confirmProbe leaves the types.
LEMMA ProbeTypeOK ==
    ASSUME PairingInv, NEW p \in Probes,
           \/ \E t \in Tokens : ConfirmFind(p, t)
           \/ ConfirmStep(p) \/ ConfirmAbort(p) \/ BeaconStep(p)
    PROVE  TypeOK'
<1>0. /\ TypeOK /\ probe[p] \in ProbeState
      /\ probe[p].token \in {0} \cup Tokens
      /\ InTransaction(p) => probe[p].token \in Tokens
      /\ probe[p].pc \in {"expire", "increment"} => probe[p].token \in Tokens
      /\ probe[p].pc # "idle" => probe[p].ip \in IPs
  BY TypeFacts DEF PairingInv, LocksHeld, ProbesHaveTokens, CallsCarry, ProbeState
<1>1. /\ \A pc \in ProbePc : [probe[p] EXCEPT !.pc = pc] \in ProbeState
      /\ \A pc \in ProbePc, t \in Tokens : [pc |-> pc, token |-> t, ip |-> home] \in ProbeState
  BY <1>0, TypeFacts DEF ProbeState
<1>2. ASSUME NEW pc \in ProbePc, Step(p, pc) PROVE probe' \in [Probes -> ProbeState]
  BY <1>0, <1>1, <1>2, TypeFacts DEF Step
<1>3. ASSUME NEW pc \in ProbePc, NEW t \in Tokens, Send(p, pc, t)
      PROVE  probe' \in [Probes -> ProbeState]
  BY <1>0, <1>1, <1>3, TypeFacts DEF Send
<1>4. ASSUME End(p) PROVE probe' \in [Probes -> ProbeState]
  BY <1>0, <1>4, TypeFacts DEF End
<1>5. ASSUME Lock(p) \/ Unlock(p) PROVE locker' \in [Tokens -> Probes \cup {Null}]
  BY <1>0, <1>5, TypeFacts DEF Lock, Unlock
<1>6. ASSUME probe' \in [Probes -> ProbeState], UNCHANGED <<rows, starter, minted, world, history>>
      PROVE  TypeOK'
  BY <1>0, <1>6 DEF TypeOK, ProbeState, ProbePc, rows, world, history
<1>7. ASSUME probe' \in [Probes -> ProbeState], locker' \in [Tokens -> Probes \cup {Null}],
             UNCHANGED <<session, device, ipHistory, starter, minted, world, history>>
      PROVE  TypeOK'
  BY <1>0, <1>7 DEF TypeOK, ProbeState, ProbePc, world, history
<1>a. ASSUME NEW t \in Tokens, ConfirmFind(p, t) PROVE TypeOK'
  <2>1. PICK pc \in ProbePc : Send(p, pc, t)
    BY <1>a DEF ConfirmFind, ProbePc
  <2> QED BY <1>3, <1>6, <1>a, <2>1 DEF ConfirmFind
<1>b. CASE ConfirmGone(p)
  BY <1>4, <1>6, <1>b DEF ConfirmGone
<1>c. CASE ConfirmExpire(p)
  BY <1>2, <1>5, <1>7, <1>c DEF ConfirmExpire, ProbePc
<1>d. CASE ConfirmIncrement(p)
  <2>1. PICK pc \in ProbePc : Step(p, pc)
    BY <1>d DEF ConfirmIncrement, ProbePc
  <2> QED BY <1>2, <1>5, <1>7, <1>d, <2>1 DEF ConfirmIncrement
<1>e. CASE ConfirmReject(p)
  <2>1. device' \in [paired : BOOLEAN, ip : IPs \cup {Null}, beacon : {0} \cup Tokens,
                     pairStatus : {"NONE", "WAITING", "PAIRED", "EXPIRED", "FAILED"}]
    BY <1>0, <1>e DEF ConfirmReject, TypeOK
  <2>2. rejects' \in [Tokens -> Nat]
    BY <1>0, <1>e DEF ConfirmReject, InTransaction, TypeOK
  <2> QED BY <1>0, <1>4, <1>5, <1>e, <2>1, <2>2
          DEF ConfirmReject, TypeOK, ProbeState, ProbePc, world
<1>f. CASE ConfirmCommit(p)
  <2>0. probe[p].token \in Tokens /\ probe[p].ip \in IPs
    BY <1>0, <1>f DEF ConfirmCommit, InTransaction
  <2>1. device' \in [paired : BOOLEAN, ip : IPs \cup {Null}, beacon : {0} \cup Tokens,
                     pairStatus : {"NONE", "WAITING", "PAIRED", "EXPIRED", "FAILED"}]
    BY <1>f, <2>0 DEF ConfirmCommit, MarkDevicePaired
  <2>2. ipHistory' \subseteq IPs /\ gone' \subseteq Tokens
    BY <1>0, <1>f, <2>0 DEF ConfirmCommit, UpsertIpHistory, TypeOK
  <2>3. paired' \in [Tokens -> Nat]
    BY <1>0, <1>f, <2>0 DEF ConfirmCommit, TypeOK
  <2>4. session' \in [Tokens -> Row]
    BY <1>0, <1>f, TypeFacts DEF ConfirmCommit
  <2> QED BY <1>0, <1>4, <1>5, <1>f, <2>1, <2>2, <2>3, <2>4
          DEF ConfirmCommit, TypeOK, ProbeState, ProbePc, Row, world
<1>g. CASE ConfirmAbort(p)
  BY <1>4, <1>5, <1>7, <1>g DEF ConfirmAbort
<1>h. CASE Beacon(p)
  <2>1. device.beacon \in Tokens
    BY <1>0, <1>h DEF Beacon, TypeOK
  <2> QED BY <1>3, <1>6, <1>h, <2>1 DEF Beacon, ProbePc
<1>i. CASE Heartbeat(p)
  BY <1>2, <1>4, <1>6, <1>i DEF Heartbeat, ProbePc
<1>j. CASE HeartbeatMove(p)
  <2>1. device' \in [paired : BOOLEAN, ip : IPs \cup {Null}, beacon : {0} \cup Tokens,
                     pairStatus : {"NONE", "WAITING", "PAIRED", "EXPIRED", "FAILED"}]
        /\ ipHistory' \subseteq IPs
    BY <1>0, <1>j DEF HeartbeatMove, ApplyIpChange, UpsertIpHistory, TypeOK
  <2> QED BY <1>0, <1>4, <1>j, <2>1 DEF HeartbeatMove, TypeOK, ProbeState, ProbePc, world, history
<1> QED BY <1>a, <1>b, <1>c, <1>d, <1>e, <1>f, <1>g, <1>h, <1>i, <1>j DEF ConfirmStep, BeaconStep

----------------------------------------------------------------------------
(* The inductive step *)

\* There are finitely many rows and starts.
LEMMA RowsFinite ==
    /\ IsFiniteSet(Waiting) /\ Cardinality(Waiting) \in Nat
    /\ IsFiniteSet(Creating) /\ Cardinality(Creating) \in Nat
    /\ Cardinality(Creating) <= Cardinality(Starters) /\ Cardinality(Starters) \in Nat
<1>1. IsFiniteSet(Tokens)
  BY PairingAssumption, FS_Interval DEF Tokens
<1>2. Waiting \subseteq Tokens /\ Creating \subseteq Starters
  BY DEF Waiting, Creating
<1>3. IsFiniteSet(Waiting) /\ IsFiniteSet(Creating) /\ Cardinality(Creating) <= Cardinality(Starters)
  BY <1>1, <1>2, StartersFinite, FS_Subset
<1> QED BY <1>3, StartersFinite, FS_CardinalityType

\* Deleting rows, and creating none, keeps the bound.
LEMMA FewerRows ==
    ASSUME StartsBoundRows, Waiting' \subseteq Waiting, starter' = starter
    PROVE  StartsBoundRows'
<1>1. Creating' = Creating
  BY DEF Creating
<1>2. Cardinality(Waiting') <= Cardinality(Waiting) /\ Cardinality(Waiting') \in Nat
  BY RowsFinite, FS_Subset, FS_CardinalityType
<1> QED BY <1>1, <1>2, RowsFinite DEF StartsBoundRows

\* While startPairing or a cancel can delete the waiting rows, no confirmation
\* is past its first update: it would hold the lock of one of them.
LEMMA DeletionWaits ==
    ASSUME PairingInv, DeleteWaiting
    PROVE  /\ \A p \in Probes : ~InTransaction(p)
           /\ Waiting' = {} /\ \A t \in Tokens : ~Exists(t)'
           /\ gone' \subseteq gone \cup Waiting
<1>1. session \in [Tokens -> Row]
  BY TypeFacts DEF PairingInv
<1>2. \A t \in Tokens : Exists(t) => t \in Waiting
  BY <1>1 DEF Exists, Waiting, Row
<1>3. \A p \in Probes : ~InTransaction(p)
  BY <1>2, PairingAssumption DEF PairingInv, LocksHeld, DeleteWaiting
<1>4. NoRow.status = "NONE"
  BY DEF NoRow
<1>5. \A t \in Tokens : session'[t].status = "NONE"
  BY <1>1, <1>2, <1>4 DEF DeleteWaiting, Exists
<1>6. Waiting' = {}
  BY <1>5 DEF Waiting
<1> QED BY <1>3, <1>5, <1>6 DEF Exists, DeleteWaiting

\* startPairing and cancelPairing keep the invariant.
LEMMA StarterKeeps ==
    ASSUME PairingInv, TypeOK',
           Cancel \/ \E s \in Starters : StartDelete(s) \/ StartCreate(s) \/ StartStatus(s)
    PROVE  PairingInv'
<1>0. /\ TypeOK /\ LocksHeld /\ ProbesHaveTokens /\ CallsCarry /\ RowsAreMinted
      /\ PairedOnce /\ StartsBoundRows
      /\ starter \in [Starters -> StarterState] /\ minted \in Nat
  BY TypeFacts DEF PairingInv
<1>1. ASSUME DeleteWaiting, UNCHANGED <<locker, probe, minted, paired>>
      PROVE  LocksHeld' /\ ProbesHaveTokens' /\ RowsAreMinted' /\ PairedOnce'
  <2>1. LocksHeld' /\ ProbesHaveTokens'
    BY <1>0, <1>1, DeletionWaits DEF LocksHeld, ProbesHaveTokens, InTransaction
  <2>2. \A t \in Waiting : t \in Tokens /\ Exists(t)
    BY DEF Waiting, Exists
  <2>3. gone \subseteq gone' /\ gone' \subseteq Tokens
    BY <1>1, TypeOK' DEF DeleteWaiting, TypeOK
  <2>4. RowsAreMinted'
    BY <1>0, <1>1, <2>2, <2>3, DeletionWaits DEF RowsAreMinted
  <2> QED BY <1>0, <1>1, <2>1, <2>3, <2>4 DEF PairedOnce
<1>2. CASE Cancel
  <2>1. CallsCarry'
    BY <1>0, <1>2 DEF Cancel, CallsCarry
  <2>2. StartsBoundRows'
    BY <1>0, <1>2, DeletionWaits, FewerRows DEF Cancel
  <2> QED BY <1>1, <1>2, <2>1, <2>2 DEF Cancel, PairingInv
<1>3. ASSUME NEW s \in Starters, StartDelete(s) PROVE PairingInv'
  <2>1. CallsCarry'
    BY <1>0, <1>3 DEF StartDelete, CallsCarry, StarterState
  <2>2. Waiting' = {} /\ Creating' \subseteq Starters
    BY <1>3, DeletionWaits DEF StartDelete, Creating
  <2>3. Cardinality(Waiting') = 0
    BY <2>2, FS_EmptySet
  <2>4. /\ Cardinality(Creating') \in Nat /\ Cardinality(Creating') <= Cardinality(Starters)
        /\ Cardinality(Starters) \in Nat
    BY <2>2, StartersFinite, FS_Subset, FS_CardinalityType
  <2>5. StartsBoundRows'
    BY <2>3, <2>4 DEF StartsBoundRows
  <2> QED BY <1>1, <1>3, <2>1, <2>5 DEF StartDelete, PairingInv
<1>4. ASSUME NEW s \in Starters, StartCreate(s) PROVE PairingInv'
  <2>0. /\ minted + 1 \in Tokens /\ session \in [Tokens -> Row] /\ minted' = minted + 1
        /\ UNCHANGED <<locker, probe, gone, paired>>
        /\ \A t \in Tokens : t # minted + 1 => session'[t] = session[t]
        /\ session'[minted + 1].status = "WAITING"
    BY <1>0, <1>4, PairingAssumption, TypeFacts DEF StartCreate, Tokens, history
  <2>1. LocksHeld'
    BY <1>0, <2>0 DEF LocksHeld, InTransaction, Exists
  <2>2. ProbesHaveTokens' /\ PairedOnce'
    BY <1>0, <2>0 DEF ProbesHaveTokens, PairedOnce
  <2>3. CallsCarry'
    BY <1>0, <1>4, <2>0 DEF StartCreate, CallsCarry
  <2>4. RowsAreMinted'
    <3>1. minted + 1 <= MaxTokens /\ \A t \in Tokens : t <= minted => t <= minted + 1 /\ t # minted + 1
      BY <1>0, <2>0, PairingAssumption DEF Tokens
    <3>2. \A t \in Tokens : Exists(t)' => t <= minted + 1
      BY <1>0, <2>0, <3>1 DEF RowsAreMinted, Exists
    <3>3. \A t \in gone : t \in Tokens /\ t <= minted + 1 /\ ~Exists(t)'
      BY <1>0, <2>0, <3>1 DEF RowsAreMinted, Exists, TypeOK
    <3> QED BY <2>0, <3>1, <3>2, <3>3 DEF RowsAreMinted
  <2>5. StartsBoundRows'
    <3>1. Waiting' \subseteq Waiting \cup {minted + 1}
      BY <2>0 DEF Waiting
    <3>2. Cardinality(Waiting \cup {minted + 1}) <= Cardinality(Waiting) + 1
          /\ IsFiniteSet(Waiting \cup {minted + 1})
      BY RowsFinite, FS_AddElement
    <3>3. Cardinality(Waiting') <= Cardinality(Waiting \cup {minted + 1})
          /\ IsFiniteSet(Waiting')
      BY <3>1, <3>2, FS_Subset
    <3>4. Cardinality(Waiting') \in Nat /\ Cardinality(Waiting \cup {minted + 1}) \in Nat
      BY <3>2, <3>3, FS_CardinalityType
    <3>5. starter' = [starter EXCEPT ![s] = [pc |-> "status", token |-> minted + 1]]
          /\ starter[s].pc = "create"
      BY <1>4 DEF StartCreate
    <3>6. Creating' = Creating \ {s} /\ s \in Creating
      BY <1>0, <3>5 DEF Creating
    <3>7. Cardinality(Creating') = Cardinality(Creating) - 1
      BY <3>6, RowsFinite, FS_RemoveElement
    <3> QED BY <1>0, <3>2, <3>3, <3>4, <3>7, RowsFinite DEF StartsBoundRows
  <2> QED BY <2>1, <2>2, <2>3, <2>4, <2>5 DEF PairingInv
<1>5. ASSUME NEW s \in Starters, StartStatus(s) PROVE PairingInv'
  <2>0. UNCHANGED <<session, locker, probe, minted, gone, paired>>
    BY <1>5 DEF StartStatus
  <2>1. LocksHeld' /\ ProbesHaveTokens' /\ RowsAreMinted' /\ PairedOnce'
    BY <1>0, <2>0 DEF LocksHeld, InTransaction, Exists, ProbesHaveTokens, RowsAreMinted, PairedOnce
  <2>2. CallsCarry'
    BY <1>0, <1>5 DEF StartStatus, CallsCarry, IdleStarter
  <2>3. Waiting' = Waiting /\ Creating' = Creating
    BY <1>0, <1>5, <2>0 DEF StartStatus, Waiting, Creating, IdleStarter
  <2> QED BY <1>0, <2>1, <2>2, <2>3 DEF PairingInv, StartsBoundRows
<1> QED BY <1>2, <1>3, <1>4, <1>5

\* A step of confirmProbe that neither locks, unlocks nor deletes a row keeps
\* the invariant.
LEMMA ProbeFrame ==
    ASSUME PairingInv, TypeOK', NEW p \in Probes, ~InTransaction(p), ~InTransaction(p)',
           \A q \in Probes : q # p => probe'[q] = probe[q],
           probe'[p].pc \in {"expire", "increment"} => probe'[p].token \in Tokens,
           probe'[p].pc # "idle" => probe'[p].ip \in IPs,
           UNCHANGED <<session, locker, starter, minted, gone, paired>>
    PROVE  PairingInv'
<1>0. /\ LocksHeld /\ ProbesHaveTokens /\ CallsCarry /\ RowsAreMinted
      /\ PairedOnce /\ StartsBoundRows
  BY DEF PairingInv
<1>1. LocksHeld' /\ ProbesHaveTokens' /\ CallsCarry'
  BY <1>0 DEF LocksHeld, InTransaction, Exists, ProbesHaveTokens, CallsCarry
<1>2. RowsAreMinted' /\ PairedOnce'
  BY <1>0 DEF RowsAreMinted, Exists, PairedOnce
<1>3. StartsBoundRows'
  BY <1>0, FewerRows DEF Waiting
<1> QED BY <1>1, <1>2, <1>3 DEF PairingInv

\* A confirmation locks its row.
LEMMA LockKeeps ==
    ASSUME PairingInv, TypeOK', NEW p \in Probes, ConfirmExpire(p) \/ ConfirmIncrement(p)
    PROVE  PairingInv'
<1>0. /\ LocksHeld /\ ProbesHaveTokens /\ CallsCarry /\ RowsAreMinted
      /\ PairedOnce /\ StartsBoundRows /\ probe \in [Probes -> ProbeState]
      /\ locker \in [Tokens -> Probes \cup {Null}] /\ Null \notin Probes
  BY TypeFacts, PairingAssumption DEF PairingInv
<1>1. /\ probe[p].pc \in {"expire", "increment"} /\ Lock(p)
      /\ UNCHANGED <<session, starter, minted, gone, paired>>
      /\ \E pc \in {"expired", "failed", "pair"} : Step(p, pc)
  BY DEF ConfirmExpire, ConfirmIncrement, history
<1>2. /\ \A q \in Probes : q # p => probe'[q] = probe[q]
      /\ probe'[p].token = probe[p].token /\ probe'[p].ip = probe[p].ip
      /\ probe'[p].pc \in {"expired", "failed", "pair"}
      /\ probe[p].token \in Tokens
  BY <1>0, <1>1 DEF Step, ProbeState, ProbesHaveTokens
<1>3. LocksHeld'
  <2>1. /\ \A t \in Tokens : t # probe[p].token => locker'[t] = locker[t]
        /\ locker'[probe[p].token] = p /\ locker[probe[p].token] = Null /\ Exists(probe[p].token)
    BY <1>0, <1>1, <1>2 DEF Lock
  <2> QED BY <1>0, <1>1, <1>2, <2>1 DEF LocksHeld, InTransaction, Exists
<1>4. ProbesHaveTokens' /\ CallsCarry'
  BY <1>0, <1>1, <1>2 DEF ProbesHaveTokens, CallsCarry
<1>5. RowsAreMinted' /\ PairedOnce'
  BY <1>0, <1>1 DEF RowsAreMinted, Exists, PairedOnce
<1>6. StartsBoundRows'
  BY <1>0, <1>1, FewerRows DEF Waiting
<1> QED BY <1>3, <1>4, <1>5, <1>6 DEF PairingInv

\* A confirmation that ends without a pairing gives its lock back.
LEMMA UnlockKeeps ==
    ASSUME PairingInv, TypeOK', NEW p \in Probes, ConfirmReject(p) \/ ConfirmAbort(p)
    PROVE  PairingInv'
<1>0. /\ LocksHeld /\ ProbesHaveTokens /\ CallsCarry /\ RowsAreMinted
      /\ PairedOnce /\ StartsBoundRows /\ probe \in [Probes -> ProbeState]
      /\ locker \in [Tokens -> Probes \cup {Null}]
  BY TypeFacts DEF PairingInv
<1>1. /\ InTransaction(p) /\ Unlock(p) /\ End(p)
      /\ UNCHANGED <<session, starter, minted, gone, paired>>
  BY DEF ConfirmReject, ConfirmAbort, history, InTransaction
<1>2. (\A q \in Probes : q # p => probe'[q] = probe[q]) /\ probe'[p].pc = "idle"
  BY <1>0, <1>1 DEF End, IdleProbe
<1>3. LocksHeld'
  BY <1>0, <1>1, <1>2 DEF Unlock, LocksHeld, InTransaction, Exists
<1>4. ProbesHaveTokens' /\ CallsCarry'
  BY <1>0, <1>1, <1>2 DEF ProbesHaveTokens, CallsCarry
<1>5. RowsAreMinted' /\ PairedOnce'
  BY <1>0, <1>1 DEF RowsAreMinted, Exists, PairedOnce
<1>6. StartsBoundRows'
  BY <1>0, <1>1, FewerRows DEF Waiting
<1> QED BY <1>3, <1>4, <1>5, <1>6 DEF PairingInv

\* A confirmation that commits pairs a token that is not gone: its row is
\* locked, so that nobody has deleted it.
LEMMA CommitKeeps ==
    ASSUME PairingInv, TypeOK', NEW p \in Probes, ConfirmCommit(p)
    PROVE  /\ PairingInv'
           /\ \A t \in gone : paired'[t] = paired[t]
<1> DEFINE t0 == probe[p].token
<1>0. /\ LocksHeld /\ ProbesHaveTokens /\ CallsCarry /\ RowsAreMinted
      /\ PairedOnce /\ StartsBoundRows /\ probe \in [Probes -> ProbeState]
      /\ locker \in [Tokens -> Probes \cup {Null}] /\ session \in [Tokens -> Row]
      /\ paired \in [Tokens -> Nat] /\ gone \subseteq Tokens
  BY TypeFacts DEF PairingInv, TypeOK
<1>1. /\ probe[p].pc = "pair" /\ Unlock(p) /\ End(p)
      /\ session' = [session EXCEPT ![t0] = NoRow] /\ gone' = gone \cup {t0}
      /\ paired' = [paired EXCEPT ![t0] = @ + 1] /\ UNCHANGED <<starter, minted>>
  BY DEF ConfirmCommit
<1>2. /\ t0 \in Tokens /\ locker[t0] = p /\ Exists(t0) /\ t0 \notin gone
  BY <1>0, <1>1 DEF LocksHeld, InTransaction, RowsAreMinted
<1>3. (\A q \in Probes : q # p => probe'[q] = probe[q]) /\ probe'[p].pc = "idle"
  BY <1>0, <1>1 DEF End, IdleProbe
<1>4. /\ \A t \in Tokens : t # t0 => /\ session'[t] = session[t] /\ locker'[t] = locker[t]
                                     /\ paired'[t] = paired[t]
      /\ session'[t0].status = "NONE" /\ paired'[t0] = paired[t0] + 1
  BY <1>0, <1>1, <1>2 DEF Unlock, NoRow
<1> HIDE DEF t0
<1>5. LocksHeld'
  BY <1>0, <1>2, <1>3, <1>4 DEF LocksHeld, InTransaction, Exists
<1>6. ProbesHaveTokens' /\ CallsCarry'
  BY <1>0, <1>1, <1>3 DEF ProbesHaveTokens, CallsCarry
<1>7. RowsAreMinted'
  BY <1>0, <1>1, <1>2, <1>4 DEF RowsAreMinted, Exists
<1>8. PairedOnce'
  BY <1>0, <1>1, <1>2, <1>4 DEF PairedOnce
<1>9. StartsBoundRows'
  <2>1. Waiting' \subseteq Waiting
    BY <1>4 DEF Waiting
  <2> QED BY <1>0, <1>1, <2>1, FewerRows
<1>10. \A t \in gone : paired'[t] = paired[t]
  BY <1>0, <1>2, <1>4
<1> QED BY <1>5, <1>6, <1>7, <1>8, <1>9, <1>10 DEF PairingInv

\* Every step of confirmProbe keeps the invariant.
LEMMA ProbeKeeps ==
    ASSUME PairingInv, TypeOK', NEW p \in Probes,
           \/ \E t \in Tokens : ConfirmFind(p, t)
           \/ ConfirmStep(p) \/ ConfirmAbort(p) \/ BeaconStep(p)
    PROVE  PairingInv'
<1>0. /\ CallsCarry /\ probe \in [Probes -> ProbeState] /\ home \in IPs
  BY TypeFacts DEF PairingInv
<1>1. ASSUME ~InTransaction(p), End(p), UNCHANGED <<session, locker, starter, minted, gone, paired>>
      PROVE  PairingInv'
  <2>1. (\A q \in Probes : q # p => probe'[q] = probe[q]) /\ probe'[p].pc = "idle"
    BY <1>0, <1>1 DEF End, IdleProbe
  <2>2. ~InTransaction(p)'
    BY <2>1 DEF InTransaction
  <2> QED BY <1>1, <2>1, <2>2, ProbeFrame
<1>2. ASSUME NEW pc \in {"expire", "increment", "heartbeat"}, NEW t, Send(p, pc, t),
             pc # "heartbeat" => t \in Tokens, probe[p].pc = "idle",
             UNCHANGED <<session, locker, starter, minted, gone, paired>>
      PROVE  PairingInv'
  <2>1. /\ \A q \in Probes : q # p => probe'[q] = probe[q]
        /\ probe'[p].pc = pc /\ probe'[p].token = t /\ probe'[p].ip = home
    BY <1>0, <1>2 DEF Send
  <2>2. ~InTransaction(p) /\ ~InTransaction(p)'
    BY <1>2, <2>1 DEF InTransaction
  <2> QED BY <1>0, <1>2, <2>1, <2>2, ProbeFrame
<1>3. ASSUME NEW t \in Tokens, ConfirmFind(p, t) PROVE PairingInv'
  BY <1>2, <1>3 DEF ConfirmFind, rows, history
<1>4. CASE ConfirmGone(p)
  BY <1>1, <1>4 DEF ConfirmGone, InTransaction, rows, history
<1>5. CASE Beacon(p)
  BY <1>2, <1>5 DEF Beacon, rows, history
<1>6. CASE Heartbeat(p)
  <2>0. ~InTransaction(p) /\ UNCHANGED <<session, locker, starter, minted, gone, paired>>
    BY <1>6 DEF Heartbeat, InTransaction, rows, history
  <2>1. CASE End(p)
    BY <1>1, <2>0, <2>1
  <2>2. CASE Step(p, "move")
    <3>1. /\ \A q \in Probes : q # p => probe'[q] = probe[q]
          /\ probe'[p].pc = "move" /\ probe'[p].ip = probe[p].ip /\ probe[p].ip \in IPs
      BY <1>0, <1>6, <2>2 DEF Step, Heartbeat, CallsCarry, ProbeState
    <3>2. ~InTransaction(p)'
      BY <3>1 DEF InTransaction
    <3> QED BY <2>0, <3>1, <3>2, ProbeFrame
  <2> QED BY <1>6, <2>1, <2>2 DEF Heartbeat
<1>7. CASE HeartbeatMove(p)
  BY <1>1, <1>7 DEF HeartbeatMove, InTransaction, history
<1> QED BY <1>3, <1>4, <1>5, <1>6, <1>7, LockKeeps, UnlockKeeps, CommitKeeps
        DEF ConfirmStep, BeaconStep

----------------------------------------------------------------------------
(* The theorems *)

\* The invariant holds of every interleaving of starts, cancels, confirmations,
\* heartbeats and address changes.
THEOREM PairingInvariance == Spec => []PairingInv
<1>1. PairingInv /\ [Next]_vars => PairingInv'
  <2> SUFFICES ASSUME PairingInv, [Next]_vars PROVE PairingInv' OBVIOUS
  <2>1. CASE Cancel \/ \E s \in Starters : StartDelete(s) \/ StartCreate(s) \/ StartStatus(s)
    BY <2>1, StarterTypeOK, StarterKeeps
  <2>2. ASSUME NEW p \in Probes,
               \/ \E t \in Tokens : ConfirmFind(p, t)
               \/ ConfirmStep(p) \/ ConfirmAbort(p) \/ BeaconStep(p)
        PROVE  PairingInv'
    BY <2>2, ProbeTypeOK, ProbeKeeps
  <2>3. CASE HomeMoves \/ Tick \/ UNCHANGED vars
    <3>1. /\ UNCHANGED <<session, locker, device, ipHistory, starter, probe, minted,
                         shown, gone, rejects, paired>>
          /\ home' \in IPs /\ moves' \in Nat /\ now' \in Nat
      BY <2>3 DEF HomeMoves, Tick, vars, rows, world, history, PairingInv, TypeOK
    <3>2. TypeOK'
      BY <3>1 DEF PairingInv, TypeOK
    <3>3. LocksHeld' /\ ProbesHaveTokens' /\ CallsCarry' /\ RowsAreMinted' /\ PairedOnce'
      BY <3>1 DEF PairingInv, LocksHeld, InTransaction, Exists, ProbesHaveTokens, CallsCarry,
                  RowsAreMinted, PairedOnce
    <3>4. StartsBoundRows'
      BY <3>1, FewerRows DEF PairingInv, Waiting
    <3> QED BY <3>2, <3>3, <3>4 DEF PairingInv
  <2> QED BY <2>1, <2>2, <2>3 DEF Next
<1> QED BY <1>1, InitPairing, PTL DEF Spec

\* Starting again invalidates every prior session, for any number of starts
\* that overlap: there is at most one live session per start.
THEOREM AtMostOneSessionPerStart == Spec => []OneSessionPerStart
<1>1. PairingInv => OneSessionPerStart
  BY RowsFinite DEF PairingInv, StartsBoundRows, OneSessionPerStart
<1> QED BY <1>1, PairingInvariance, PTL

\* A token that a restart, a cancel or a pairing has deleted never pairs the
\* device afterwards, however many probes carried it at the time.
THEOREM DeletedTokensNeverPair == Spec => InvalidatedNeverPairs
<1>1. PairingInv /\ [Next]_vars => [\A t \in gone : paired'[t] = paired[t]]_vars
  <2> SUFFICES ASSUME PairingInv, Next PROVE \A t \in gone : paired'[t] = paired[t]
    OBVIOUS
  <2>1. ASSUME NEW p \in Probes, ConfirmCommit(p) PROVE \A t \in gone : paired'[t] = paired[t]
    BY <2>1, ProbeTypeOK, CommitKeeps DEF ConfirmStep
  <2>2. CASE ~ \E p \in Probes : ConfirmCommit(p)
    <3>1. UNCHANGED paired
      BY <2>2 DEF Next, StartDelete, StartCreate, StartStatus, Cancel, ConfirmFind, ConfirmStep,
                  ConfirmGone, ConfirmExpire, ConfirmIncrement, ConfirmReject, ConfirmAbort,
                  BeaconStep, Beacon, Heartbeat, HeartbeatMove, HomeMoves, Tick, history
    <3> QED BY <3>1
  <2> QED BY <2>1, <2>2
<1> QED BY <1>1, PairingInvariance, PTL DEF Spec, InvalidatedNeverPairs

\* No token pairs the device twice: a one-time token is one.
THEOREM TokensPairOnce == Spec => [](\A t \in Tokens : paired[t] <= 1)
<1>1. PairingInv => \A t \in Tokens : paired[t] <= 1
  BY DEF PairingInv, PairedOnce
<1> QED BY <1>1, PairingInvariance, PTL

\* Where dnsSourceIp has caught up with the household, and no probe sent before the
\* last move is under way, no heartbeat or pairing takes it back to an older address.
THEOREM RepairLasts == Spec => RepairedStays
<1>1. PairingInv /\ [Next]_vars => [Repaired /\ home' = home => Repaired']_vars
  <2> SUFFICES ASSUME PairingInv, Next, Repaired, home' = home PROVE Repaired'
    OBVIOUS
  <2>0. TypeOK /\ probe \in [Probes -> ProbeState]
    BY TypeFacts DEF PairingInv
  <2>1. ASSUME NEW p \in Probes, NEW pc, NEW t, Send(p, pc, t), UNCHANGED device PROVE Repaired'
    BY <2>0, <2>1 DEF Send, Repaired
  <2>2. ASSUME NEW p \in Probes, NEW pc, Step(p, pc), probe[p].pc # "idle", UNCHANGED device
        PROVE  Repaired'
    BY <2>0, <2>2 DEF Step, Repaired, ProbeState
  <2>3. ASSUME NEW p \in Probes, End(p), device'.paired => device'.ip = home
        PROVE  Repaired'
    BY <2>0, <2>3 DEF End, Repaired, IdleProbe
  <2>4. ASSUME UNCHANGED probe, device'.paired => device'.ip = home PROVE Repaired'
    BY <2>4 DEF Repaired
  <2>5. device.paired => device.ip = home
    BY DEF Repaired
  <2>6. CASE \/ Cancel \/ HomeMoves \/ Tick
             \/ \E s \in Starters : StartDelete(s) \/ StartCreate(s) \/ StartStatus(s)
    <3>1. UNCHANGED probe /\ device'.paired = device.paired /\ device'.ip = device.ip
      BY <2>0, <2>6 DEF Cancel, HomeMoves, Tick, StartDelete, StartCreate, StartStatus, rows, TypeOK
    <3> QED BY <2>4, <2>5, <3>1
  <2>7. ASSUME NEW p \in Probes, \E t \in Tokens : ConfirmFind(p, t) PROVE Repaired'
    BY <2>1, <2>7 DEF ConfirmFind, rows
  <2>8. ASSUME NEW p \in Probes, ConfirmStep(p) PROVE Repaired'
    <3>1. CASE ConfirmGone(p)
      BY <2>3, <2>5, <3>1 DEF ConfirmGone, rows
    <3>2. CASE ConfirmExpire(p)
      BY <2>2, <3>2 DEF ConfirmExpire
    <3>3. CASE ConfirmIncrement(p)
      BY <2>2, <3>3 DEF ConfirmIncrement
    <3>4. CASE ConfirmReject(p)
      <4>1. End(p) /\ device'.paired = device.paired /\ device'.ip = device.ip
        BY <2>0, <3>4 DEF ConfirmReject, TypeOK
      <4> QED BY <2>3, <2>5, <4>1
    <3>5. CASE ConfirmCommit(p)
      <4>1. End(p) /\ device'.ip = probe[p].ip /\ probe[p].ip = home
        BY <3>5 DEF ConfirmCommit, MarkDevicePaired, Repaired
      <4> QED BY <2>3, <4>1
    <3> QED BY <2>8, <3>1, <3>2, <3>3, <3>4, <3>5 DEF ConfirmStep
  <2>9. ASSUME NEW p \in Probes, ConfirmAbort(p) PROVE Repaired'
    BY <2>3, <2>5, <2>9 DEF ConfirmAbort
  <2>10. ASSUME NEW p \in Probes, BeaconStep(p) PROVE Repaired'
    <3>1. CASE Beacon(p)
      BY <2>1, <3>1 DEF Beacon, rows
    <3>2. CASE Heartbeat(p)
      BY <2>2, <2>3, <2>5, <3>2 DEF Heartbeat, rows
    <3>3. CASE HeartbeatMove(p)
      <4>1. End(p) /\ device'.ip = probe[p].ip /\ probe[p].ip = home
        BY <2>0, <3>3 DEF HeartbeatMove, ApplyIpChange, Repaired, TypeOK
      <4> QED BY <2>3, <4>1
    <3> QED BY <2>10, <3>1, <3>2, <3>3 DEF BeaconStep
  <2> QED BY <2>6, <2>7, <2>8, <2>9, <2>10 DEF Next
<1> QED BY <1>1, PairingInvariance, PTL DEF Spec, RepairedStays
============================================================================
