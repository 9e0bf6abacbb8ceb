------------------------ MODULE NotificationsProofs ------------------------
(***************************************************************************)
(* Proofs about the notifications of the system: that they are earned when *)
(* the crons of Alerts raise them, and that they are delivered and         *)
(* accounted for when Push sends them.                                     *)
(*                                                                         *)
(* Push, for any number of users, tokens, overlapping sends and retries:   *)
(* sendMulticast reports every token it was given exactly once.  Alerts,   *)
(* for any number of overlapping runs and any thresholds in the order of   *)
(* the code's: detectDnsBypass never counts against a device what its      *)
(* silence has not earned.                                                 *)
(***************************************************************************)
EXTENDS Push, Alerts, FiniteSetTheorems, TLAPS

(* Push: sends and tokens *)

\* What list.push(...tokens) does to the count of one token.
LEMMA PushedCounts ==
    ASSUME NEW list \in [Tokens -> Nat], NEW tokens
    PROVE  /\ Pushed(list, tokens) \in [Tokens -> Nat]
           /\ \A t \in Tokens :
                 Pushed(list, tokens)[t] = IF t \in tokens THEN list[t] + 1 ELSE list[t]
  BY DEF Pushed

\* Counts that add up to nothing are nothing.
LEMMA NothingReported ==
    ASSUME NEW a \in Nat, NEW b \in Nat, NEW c \in Nat, a + b + c + 0 = 0
    PROVE  a = 0 /\ b = 0 /\ c = 0
  OBVIOUS

\* The account of one token in one send: how often it was reported, and whether
\* it is pending, against whether it was read.
Accounted(x, t) ==
    x.sent[t] + x.invalid[t] + x.errored[t] + (IF t \in x.pending THEN 1 ELSE 0)
        = IF t \in x.tokens THEN 1 ELSE 0

\* The invariant of one send.
SendInv(x) ==
    /\ x \in SendState
    /\ x.pc # "batch" => x.pending = {}
    /\ x.pc \in {"new", "read"} => x.tokens = {}
    /\ \A t \in Tokens : Accounted(x, t)

\* A step that changes one send, and of the tables only what is said here,
\* keeps the invariant if that send keeps its own.
LEMMA SendFrame ==
    ASSUME PushInv, NEW s \in Sends, NEW x, SendInv(x),
           send' = [send EXCEPT ![s] = x],
           owner' \in [Tokens -> Users \cup {Null}], UNCHANGED changes
    PROVE  PushInv'
<1>0. send \in [Sends -> SendState] /\ changes \in Nat
  BY DEF PushInv, TypeOK
<1>1. send'[s] = x /\ \A r \in Sends : r # s => send'[r] = send[r]
  BY <1>0
<1>2. TypeOK'
  <2>1. send' \in [Sends -> SendState]
    BY <1>0 DEF SendInv
  <2> QED BY <1>0, <2>1 DEF TypeOK
<1>3. PendingInBatch'
  BY <1>1 DEF PushInv, PendingInBatch, SendInv
<1>4. ReportedOnce'
  <2> SUFFICES ASSUME NEW r \in Sends, NEW t \in Tokens PROVE Accounted(send'[r], t)
    BY DEF ReportedOnce, Accounted
  <2>1. CASE r = s
    BY <1>1, <2>1 DEF SendInv
  <2>2. CASE r # s
    BY <1>1, <2>2 DEF PushInv, ReportedOnce, Accounted
  <2> QED BY <2>1, <2>2
<1> QED BY <1>2, <1>3, <1>4 DEF PushInv

\* Every send satisfies its invariant.
LEMMA SendHolds ==
    ASSUME PushInv, NEW s \in Sends
    PROVE  SendInv(send[s])
  BY DEF PushInv, TypeOK, PendingInBatch, ReportedOnce, SendInv, Accounted

\* A send that goes on to another step of create, its counts untouched.
LEMMA MoveOn ==
    ASSUME NEW x, SendInv(x), NEW y \in SendState, x.pc # "batch", y.pc # "batch",
           y.pc \in {"new", "read"} => x.tokens = {},
           y.tokens = x.tokens, y.pending = x.pending, y.sent = x.sent,
           y.invalid = x.invalid, y.errored = x.errored
    PROVE  SendInv(y)
  BY DEF SendInv, Accounted

\* The answers of one batch, each token in one class, are booked once each.
LEMMA BatchAccounts ==
    ASSUME PushInv, NEW s \in Sends, send[s].pc = "batch",
           NEW ok \in SUBSET send[s].pending, NEW invalid \in SUBSET send[s].pending,
           NEW transient \in SUBSET send[s].pending,
           ok \cap invalid = {}, (ok \cup invalid) \cap transient = {},
           NEW other, other = send[s].pending \ (ok \cup invalid \cup transient)
    PROVE  SendInv(AfterBatch(s, ok, invalid, transient, other))
<1> DEFINE x == send[s]
           y == AfterBatch(s, ok, invalid, transient, other)
           retry == IF Last(s) THEN {} ELSE transient
           lost == IF Last(s) THEN other \cup transient ELSE other
<1>1. /\ x \in SendState /\ \A t \in Tokens : Accounted(x, t)
      /\ x.attempt \in Nat /\ x.pending \subseteq Tokens /\ x.tokens \subseteq Tokens
      /\ x.sent \in [Tokens -> Nat] /\ x.invalid \in [Tokens -> Nat] /\ x.errored \in [Tokens -> Nat]
  BY SendHolds DEF SendInv, SendState
<1>2. y = [x EXCEPT !.pc = IF retry = {} THEN "prune" ELSE "batch",
                    !.pending = retry, !.attempt = x.attempt + 1,
                    !.sent = Pushed(x.sent, ok), !.invalid = Pushed(x.invalid, invalid),
                    !.errored = Pushed(x.errored, lost)]
  BY DEF AfterBatch
<1>3. /\ retry \subseteq Tokens /\ lost \subseteq Tokens
      /\ \A t : t \in x.pending => \/ t \in ok /\ t \notin invalid \cup lost \cup retry
                                   \/ t \in invalid /\ t \notin ok \cup lost \cup retry
                                   \/ t \in lost /\ t \notin ok \cup invalid \cup retry
                                   \/ t \in retry /\ t \notin ok \cup invalid \cup lost
      /\ \A t : t \notin x.pending => t \notin ok \cup invalid \cup lost \cup retry
  BY <1>1
<1> HIDE DEF x, y, retry, lost
<1>4. /\ y.pc = (IF retry = {} THEN "prune" ELSE "batch") /\ y.pending = retry
      /\ y.sent = Pushed(x.sent, ok) /\ y.invalid = Pushed(x.invalid, invalid)
      /\ y.errored = Pushed(x.errored, lost) /\ y.tokens = x.tokens
  BY <1>1, <1>2 DEF SendState
<1>5. y \in SendState
  <2>1. /\ Pushed(x.sent, ok) \in [Tokens -> Nat] /\ Pushed(x.invalid, invalid) \in [Tokens -> Nat]
        /\ Pushed(x.errored, lost) \in [Tokens -> Nat] /\ x.attempt + 1 \in Nat
    BY <1>1, PushedCounts
  <2>2. (IF retry = {} THEN "prune" ELSE "batch") \in {"new", "read", "batch", "prune", "flag", "done"}
    OBVIOUS
  <2> QED BY <1>1, <1>2, <1>3, <2>1, <2>2 DEF SendState
<1>6. ASSUME NEW t \in Tokens PROVE Accounted(y, t)
  <2>1. /\ y.sent[t] = IF t \in ok THEN x.sent[t] + 1 ELSE x.sent[t]
        /\ y.invalid[t] = IF t \in invalid THEN x.invalid[t] + 1 ELSE x.invalid[t]
        /\ y.errored[t] = IF t \in lost THEN x.errored[t] + 1 ELSE x.errored[t]
    BY <1>1, <1>4, PushedCounts
  <2>2. /\ x.sent[t] \in Nat /\ x.invalid[t] \in Nat /\ x.errored[t] \in Nat /\ Accounted(x, t)
    BY <1>1
  <2>3. CASE t \in x.pending
    <3>1. x.sent[t] = 0 /\ x.invalid[t] = 0 /\ x.errored[t] = 0 /\ t \in x.tokens
      BY <2>2, <2>3 DEF Accounted
    <3> QED BY <1>3, <1>4, <2>1, <2>3, <3>1 DEF Accounted
  <2>4. CASE t \notin x.pending
    BY <1>3, <1>4, <2>1, <2>2, <2>4 DEF Accounted
  <2> QED BY <2>3, <2>4
<1>7. y.pc # "batch" => y.pending = {}
  BY <1>4
<1>8. y.pc \notin {"new", "read"}
  BY <1>4
<1>9. SendInv(y)
  BY <1>5, <1>6, <1>7, <1>8 DEF SendInv
<1> QED BY <1>9 DEF x, y

\* Every step of a send keeps the invariant.
LEMMA SendKeeps ==
    ASSUME PushInv, NEW s \in Sends, SendStep(s) \/ \E u \in Users : Create(s, u)
    PROVE  PushInv'
<1> DEFINE x == send[s]
<1>0. /\ SendInv(x) /\ x \in SendState /\ owner \in [Tokens -> Users \cup {Null}]
      /\ x.attempt \in Nat /\ x.errored \in [Tokens -> Nat] /\ x.pending \subseteq Tokens
  BY SendHolds DEF SendInv, SendState, PushInv, TypeOK
<1>1. ASSUME NEW u \in Users, Create(s, u) PROVE PushInv'
  <2>1. PICK pc \in {"read", "done"} : send' = [send EXCEPT ![s] = [x EXCEPT !.user = u, !.pc = pc]]
    BY <1>1 DEF Create
  <2>2. x.pc = "new" /\ x.tokens = {}
    BY <1>0, <1>1 DEF Create, SendInv
  <2> DEFINE y == [x EXCEPT !.user = u, !.pc = pc]
  <2> HIDE DEF x
  <2>3. /\ y \in SendState /\ y.pc = pc /\ y.tokens = x.tokens /\ y.pending = x.pending
        /\ y.sent = x.sent /\ y.invalid = x.invalid /\ y.errored = x.errored
    BY <1>0 DEF SendState
  <2>4. send' = [send EXCEPT ![s] = y]
    BY <2>1
  <2> HIDE DEF y
  <2>5. SendInv(y)
    BY <1>0, <2>2, <2>3, MoveOn
  <2> QED BY <1>0, <1>1, <2>3, <2>4, <2>5, SendFrame DEF Create
<1>2. ASSUME NEW pc \in {"flag", "done"}, x.pc # "batch",
             send' = [send EXCEPT ![s] = [x EXCEPT !.pc = pc]],
             owner' \in [Tokens -> Users \cup {Null}], UNCHANGED changes
      PROVE  PushInv'
  <2> DEFINE y == [x EXCEPT !.pc = pc]
  <2> HIDE DEF x
  <2>1. /\ y \in SendState /\ y.pc = pc /\ y.tokens = x.tokens /\ y.pending = x.pending
        /\ y.sent = x.sent /\ y.invalid = x.invalid /\ y.errored = x.errored
    BY <1>0 DEF SendState
  <2>2. send' = [send EXCEPT ![s] = y]
    BY <1>2
  <2> HIDE DEF y
  <2>3. SendInv(y)
    BY <1>0, <1>2, <2>1, MoveOn
  <2> QED BY <1>0, <1>2, <2>1, <2>2, <2>3, SendFrame
<1>3. CASE ReadTokens(s)
  <2> DEFINE mine == {t \in Tokens : owner[t] = x.user}
             pc == IF mine = {} THEN "flag" ELSE "batch"
             y == [x EXCEPT !.pc = pc, !.tokens = mine, !.pending = mine]
  <2>1. send' = [send EXCEPT ![s] = y] /\ UNCHANGED <<owner, changes>>
    BY <1>3 DEF ReadTokens
  <2>2. x.pc = "read" /\ x.tokens = {} /\ x.pending = {}
    BY <1>0, <1>3 DEF ReadTokens, SendInv
  <2>3. mine \subseteq Tokens /\ pc \in {"flag", "batch"} /\ (pc # "batch" => mine = {})
    OBVIOUS
  <2> HIDE DEF mine, pc
  <2>4. /\ y \in SendState /\ y.pc = pc /\ y.pending = mine /\ y.tokens = mine
        /\ y.sent = x.sent /\ y.invalid = x.invalid /\ y.errored = x.errored
    BY <1>0, <2>3 DEF SendState
  <2>5. ASSUME NEW t \in Tokens PROVE Accounted(y, t)
    <3>1. /\ x.sent[t] \in Nat /\ x.invalid[t] \in Nat /\ x.errored[t] \in Nat
          /\ Accounted(x, t)
      BY <1>0 DEF SendInv, SendState
    <3> HIDE DEF x, y
    <3>2. x.sent[t] + x.invalid[t] + x.errored[t] + 0 = 0
      BY <2>2, <3>1 DEF Accounted
    <3>3. x.sent[t] = 0 /\ x.invalid[t] = 0 /\ x.errored[t] = 0
      BY <3>1, <3>2, NothingReported
    <3> QED BY <2>4, <3>3 DEF Accounted
  <2> HIDE DEF x, y
  <2>6. SendInv(y)
    BY <2>3, <2>4, <2>5 DEF SendInv
  <2> QED BY <1>0, <2>1, <2>4, <2>6, SendFrame
<1>4. CASE ReadFails(s)
  BY <1>0, <1>2, <1>4 DEF ReadFails
<1>5. CASE Batch(s)
  <2>1. PICK ok \in SUBSET x.pending, invalid \in SUBSET x.pending, transient \in SUBSET x.pending :
          /\ ok \cap invalid = {} /\ (ok \cup invalid) \cap transient = {}
          /\ send' = [send EXCEPT ![s] = AfterBatch(s, ok, invalid, transient,
                                           x.pending \ (ok \cup invalid \cup transient))]
    BY <1>5 DEF Batch
  <2> DEFINE y == AfterBatch(s, ok, invalid, transient, x.pending \ (ok \cup invalid \cup transient))
  <2>2. SendInv(y)
    BY <1>5, <2>1, BatchAccounts DEF Batch
  <2>3. send' = [send EXCEPT ![s] = y] /\ UNCHANGED <<owner, changes>>
    BY <1>5, <2>1 DEF Batch
  <2> HIDE DEF y
  <2> QED BY <1>0, <2>1, <2>2, <2>3, SendFrame
<1>6. CASE BatchFails(s)
  <2> DEFINE y == IF Last(s) THEN [x EXCEPT !.pc = "prune", !.pending = {},
                                            !.errored = Pushed(x.errored, x.pending)]
                             ELSE [x EXCEPT !.attempt = x.attempt + 1]
  <2>1. send' = [send EXCEPT ![s] = y] /\ UNCHANGED <<owner, changes>>
        /\ x.pc = "batch"
    BY <1>6 DEF BatchFails
  <2>2. SendInv(y)
    <3>1. CASE ~Last(s)
      <4> DEFINE z == [x EXCEPT !.attempt = x.attempt + 1]
      <4> HIDE DEF x
      <4>1. /\ z \in SendState /\ z.pc = x.pc /\ z.pending = x.pending /\ z.tokens = x.tokens
            /\ z.sent = x.sent /\ z.invalid = x.invalid /\ z.errored = x.errored
        BY <1>0 DEF SendState
      <4>2. y = z
        BY <3>1
      <4> HIDE DEF y, z
      <4> QED BY <1>0, <4>1, <4>2 DEF SendInv, Accounted
    <3>2. CASE Last(s)
      <4> DEFINE e == Pushed(x.errored, x.pending)
                 z == [x EXCEPT !.pc = "prune", !.pending = {}, !.errored = e]
      <4>1. e \in [Tokens -> Nat] /\ \A t \in Tokens :
                e[t] = IF t \in x.pending THEN x.errored[t] + 1 ELSE x.errored[t]
        BY <1>0, PushedCounts
      <4> HIDE DEF e
      <4>2. /\ z \in SendState /\ z.pc = "prune" /\ z.pending = {} /\ z.tokens = x.tokens
            /\ z.sent = x.sent /\ z.invalid = x.invalid /\ z.errored = e
        BY <1>0, <4>1 DEF SendState
      <4>3. ASSUME NEW t \in Tokens PROVE Accounted(z, t)
        <5>1. x.sent[t] \in Nat /\ x.invalid[t] \in Nat /\ x.errored[t] \in Nat /\ Accounted(x, t)
          BY <1>0 DEF SendInv, SendState
        <5> HIDE DEF z
        <5> QED BY <4>1, <4>2, <5>1 DEF Accounted
      <4>4. y = z
        BY <3>2 DEF e
      <4> HIDE DEF z, x, y
      <4> QED BY <4>2, <4>3, <4>4 DEF SendInv
    <3> QED BY <3>1, <3>2
  <2> HIDE DEF y
  <2> QED BY <1>0, <2>1, <2>2, SendFrame
<1>7. CASE Prune(s)
  <2>1. owner' \in [Tokens -> Users \cup {Null}]
    BY <1>0, <1>7 DEF Prune
  <2> QED BY <1>0, <1>2, <1>7, <2>1 DEF Prune
<1>8. CASE PruneFails(s)
  BY <1>0, <1>2, <1>8 DEF PruneFails
<1>9. CASE Flag(s)
  BY <1>0, <1>2, <1>9 DEF Flag
<1> QED BY <1>1, <1>3, <1>4, <1>5, <1>6, <1>7, <1>8, <1>9 DEF SendStep

\* Registrations and removals keep the invariant: no send is touched.
LEMMA AppsKeep ==
    ASSUME PushInv, NEW t \in Tokens, NEW u \in Users, Register(t, u) \/ Remove(t, u)
    PROVE  PushInv'
<1>1. send' = send /\ owner' \in [Tokens -> Users \cup {Null}] /\ changes' \in Nat
  BY DEF Register, Remove, Change, PushInv, TypeOK
<1> QED BY <1>1 DEF PushInv, TypeOK, PendingInBatch, ReportedOnce

----------------------------------------------------------------------------
(* The theorems *)

\* Every send keeps its accounts, whatever FCM answers and however sends,
\* registrations and removals interleave.
THEOREM PushIsSound == Spec => []PushInv
<1>1. Init => PushInv
  <2> SUFFICES ASSUME Init PROVE PushInv OBVIOUS
  <2>1. None \in [Tokens -> Nat] /\ \A t \in Tokens : None[t] = 0
    BY DEF None
  <2>2. NewSend \in SendState
    BY <2>1 DEF NewSend, SendState
  <2>3. TypeOK
    BY <2>2, PushAssumption DEF Init, TypeOK
  <2>4. PendingInBatch
    BY DEF Init, PendingInBatch, NewSend
  <2>5. ReportedOnce
    BY <2>1 DEF Init, ReportedOnce, NewSend
  <2> QED BY <2>3, <2>4, <2>5 DEF PushInv
<1>2. PushInv /\ [Next]_vars => PushInv'
  <2>1. PushInv /\ UNCHANGED vars => PushInv'
    BY DEF vars, PushInv, TypeOK, PendingInBatch, ReportedOnce
  <2> QED BY <2>1, SendKeeps, AppsKeep DEF Next
<1> QED BY <1>1, <1>2, PTL DEF Spec

\* Every token a send was started with is reported exactly once or is still
\* pending, for any number of retries and overlapping sends.
THEOREM TokensReportedOnce == Spec => []ReportedOnce
<1>1. PushInv => ReportedOnce
  BY DEF PushInv
<1> QED BY <1>1, PushIsSound, PTL

----------------------------------------------------------------------------
(* Alerts: the watch over a device *)

\* The two-element minima and maxima of the ages and counts.
LEMMA MinOfTwo ==
    ASSUME NEW a \in Int, NEW b \in Int
    PROVE  Min({a, b}) = IF a <= b THEN a ELSE b
  BY DEF Min

LEMMA MaxOfTwo ==
    ASSUME NEW a \in Int, NEW b \in Int
    PROVE  Max({a, b}) = IF a <= b THEN b ELSE a
  BY DEF Max

\* A tick later: an age below the cap has grown by one, and no age by more.
LEMMA OlderAges ==
    ASSUME NEW cap \in Nat, NEW age \in 0 .. (cap + 1) \cup {Never}
    PROVE  /\ Older(age, cap) \in 0 .. (cap + 1) \cup {Never}
           /\ Older(age, cap) = Never <=> age = Never
           /\ age # Never => age \in Nat /\ Older(age, cap) \in Nat /\ Older(age, cap) <= age + 1
           /\ age # Never /\ Older(age, cap) <= cap => Older(age, cap) = age + 1
<1>0. Never \notin Nat
  BY HealthAssumption
<1>1. CASE age = Never
  BY <1>0, <1>1 DEF Older
<1>2. CASE age # Never
  <2>1. age \in 0 .. (cap + 1) /\ age + 1 \in Int /\ cap + 1 \in Int
    BY <1>2
  <2>2. Older(age, cap) = IF age + 1 <= cap + 1 THEN age + 1 ELSE cap + 1
    BY <1>2, <2>1, MinOfTwo DEF Older
  <2> QED BY <1>0, <1>2, <2>1, <2>2
<1> QED BY <1>1, <1>2

\* The values of the device row and of a run.
DeviceState ==
    [seen : 0 .. (Day + 1) \cup {Never}, configured : BOOLEAN, locked : BOOLEAN,
     lockAge : 0 .. (Stale + 1) \cup {Never},
     status : {"NORMAL", "POSSIBLE_DNS_BYPASS", "COMPROMISED"}, attempts : 0 .. Threshold]
RunState == [pc : {"idle", "update", "notify", "check", "create"},
             attempts : 0 .. Threshold, real : BOOLEAN]

\* What CountsEarned says of one run.
RunEarned(x, count) ==
    /\ x.pc = "update" => x.real /\ x.attempts < Threshold
    /\ x.pc \in {"update", "notify"} => x.attempts <= count

\* The constants.
LEMMA AlertsConstants ==
    /\ Stale \in Nat /\ Day \in Nat /\ Throttle \in Nat /\ Threshold \in Nat
    /\ Throttle > 0 /\ Throttle < Stale /\ Stale < Day /\ Threshold > 0
    /\ Never \notin Nat /\ IsFiniteSet(Runs) /\ Cardinality(Runs) \in Nat
<1>1. Cardinality(Runs) \in Nat
  BY AlertsAssumption, FS_CardinalityType
<1> QED BY <1>1, AlertsAssumption, HealthAssumption

\* The heart of it: a device that a scan finds silent has sent nothing for that
\* long, up to the throttle, unless a heartbeat was lost.
LEMMA SuspectIsQuiet ==
    ASSUME AlertsTypeOK, HeartbeatFollows, Suspect
    PROVE  ReallyQuiet(Stale) \/ "heartbeat" \in failed
<1> SUFFICES ASSUME "heartbeat" \notin failed, query # Never PROVE query > Stale - Throttle
  BY DEF ReallyQuiet
<1>1. query \in 0 .. (Stale + 1) /\ device.seen \in 0 .. (Day + 1)
  BY DEF AlertsTypeOK, HeartbeatFollows
<1>2. device.seen > Stale
  BY <1>1, AlertsConstants DEF Suspect, Quiet
<1>3. query <= Stale => device.seen <= query + Throttle
  BY DEF HeartbeatFollows
<1> QED BY <1>1, <1>2, <1>3, AlertsConstants

\* A step of one run that leaves the device alone keeps the invariant, if what it
\* makes of the run, of the alerts and of earned is in order.
LEMMA RunFrame ==
    ASSUME AlertsInv, NEW r \in Runs, NEW x \in RunState, RunEarned(x, earned),
           x.pc # "create",
           run' = [run EXCEPT ![r] = x], failed \subseteq failed',
           UNCHANGED <<device, throttle, query, earned>>,
           sent' \in Nat, sent' <= IF run[r].pc = "create" THEN sent + 1 ELSE sent,
           repeated' \in BOOLEAN, repeated' => earned >= Threshold
    PROVE  AlertsInv'
<1>0. AlertsTypeOK /\ HeartbeatFollows /\ StatusFollowsCount /\ CountsEarned /\ RunsBoundAlerts
  BY DEF AlertsInv
<1>1. run \in [Runs -> RunState] /\ run'[r] = x /\ \A s \in Runs : s # r => run'[s] = run[s]
  BY <1>0 DEF AlertsTypeOK, RunState
<1>2. AlertsTypeOK'
  <2>1. run' \in [Runs -> RunState]
    BY <1>1
  <2> QED BY <1>0, <2>1 DEF AlertsTypeOK, RunState
<1>3. HeartbeatFollows'
  BY <1>0 DEF HeartbeatFollows
<1>4. StatusFollowsCount'
  BY <1>0 DEF StatusFollowsCount
<1>5. CountsEarned'
  BY <1>0, <1>1 DEF CountsEarned, RunEarned
<1>6. RunsBoundAlerts'
  <2>1. Creating' = Creating \ {r} /\ IsFiniteSet(Creating)
    <3>1. Creating' = Creating \ {r}
      BY <1>1 DEF Creating
    <3> QED BY <3>1, AlertsConstants, FS_Subset DEF Creating
  <2>2. Cardinality(Creating') = IF run[r].pc = "create" THEN Cardinality(Creating) - 1
                                 ELSE Cardinality(Creating)
    <3>1. r \in Creating <=> run[r].pc = "create"
      BY DEF Creating
    <3>2. Cardinality(Creating \ {r}) = IF r \in Creating THEN Cardinality(Creating) - 1
                                        ELSE Cardinality(Creating)
      BY <2>1, FS_RemoveElement
    <3> QED BY <2>1, <3>1, <3>2
  <2>3. Cardinality(Creating) \in Nat /\ sent \in Nat
    BY <1>0, <2>1, FS_CardinalityType DEF AlertsTypeOK
  <2> QED BY <1>0, <2>2, <2>3, AlertsConstants DEF RunsBoundAlerts
<1> QED BY <1>2, <1>3, <1>4, <1>5, <1>6 DEF AlertsInv

\* The initial state.
LEMMA AlertsInitInv == AlertsInit => AlertsInv
<1> SUFFICES ASSUME AlertsInit PROVE AlertsInv OBVIOUS
<1> USE AlertsConstants DEF AlertsInit
<1>1. device \in DeviceState
  BY DEF DeviceState
<1>2. IdleRun \in RunState
  BY DEF IdleRun, RunState
<1>3. AlertsTypeOK
  <2>1. run \in [Runs -> RunState]
    BY <1>2
  <2>2. query \in 0 .. (Stale + 1) \cup {Never} /\ throttle \in 0 .. Throttle /\ sent \in Nat
        /\ earned \in 0 .. Threshold
    OBVIOUS
  <2>3. repeated \in BOOLEAN
    BY Zenon
  <2> QED BY <1>1, <2>1, <2>2, <2>3 DEF AlertsTypeOK, DeviceState, RunState
<1>4. HeartbeatFollows
  BY DEF HeartbeatFollows
<1>5. StatusFollowsCount
  BY DEF StatusFollowsCount
<1>6. CountsEarned
  <2>1. \A r \in Runs : run[r].pc = "idle"
    BY DEF IdleRun
  <2> QED BY <2>1 DEF CountsEarned
<1>7. RunsBoundAlerts
  <2>1. Creating = {}
    BY DEF Creating, IdleRun
  <2> QED BY <2>1, FS_EmptySet DEF RunsBoundAlerts
<1> QED BY <1>3, <1>4, <1>5, <1>6, <1>7 DEF AlertsInv

\* A step that touches no run and no count keeps the invariant, if it keeps what
\* is said of the heartbeat.
LEMMA DeviceFrame ==
    ASSUME AlertsInv, device' \in DeviceState, HeartbeatFollows',
           device'.status = device.status, device'.attempts = device.attempts,
           query' \in 0 .. (Stale + 1) \cup {Never}, throttle' \in 0 .. Throttle,
           UNCHANGED <<run, earned, repeated>>, sent' \in {0, sent}
    PROVE  AlertsInv'
<1>0. AlertsTypeOK /\ StatusFollowsCount /\ CountsEarned /\ RunsBoundAlerts
  BY DEF AlertsInv
<1>1. AlertsTypeOK'
  BY <1>0 DEF AlertsTypeOK, DeviceState
<1>2. StatusFollowsCount'
  BY <1>0 DEF StatusFollowsCount
<1>3. CountsEarned'
  BY <1>0 DEF CountsEarned
<1>4. RunsBoundAlerts'
  <2>1. Creating' = Creating /\ IsFiniteSet(Creating) /\ sent \in Nat
    BY <1>0, AlertsConstants, FS_Subset DEF Creating, AlertsTypeOK
  <2>2. Cardinality(Creating) \in Nat
    BY <2>1, FS_CardinalityType
  <2>3. Cardinality(Creating') = Cardinality(Creating)
    BY <2>1
  <2> QED BY <1>0, <2>1, <2>2, <2>3, AlertsConstants DEF RunsBoundAlerts
<1> QED BY <1>1, <1>2, <1>3, <1>4 DEF AlertsInv

\* Record updates of the device row.
LEMMA DeviceUpdates ==
    ASSUME NEW d \in DeviceState, NEW seen \in 0 .. (Day + 1) \cup {Never},
           NEW age \in 0 .. (Stale + 1) \cup {Never}, NEW locked \in BOOLEAN
    PROVE  /\ [d EXCEPT !.seen = seen] \in DeviceState
           /\ [d EXCEPT !.seen = seen, !.lockAge = age] \in DeviceState
           /\ [d EXCEPT !.locked = locked, !.lockAge = age] \in DeviceState
  BY DEF DeviceState

\* Time passes: ages grow together, and the key of the throttle with them.
LEMMA TickKeepsInv == ASSUME AlertsInv, Tick PROVE AlertsInv'
<1> DEFINE seen == Older(device.seen, Day)
           age == Older(device.lockAge, Stale)
<1>0. AlertsTypeOK /\ HeartbeatFollows /\ device \in DeviceState
  BY DEF AlertsInv, AlertsTypeOK, DeviceState
<1>1. /\ device.seen \in 0 .. (Day + 1) \cup {Never} /\ device.lockAge \in 0 .. (Stale + 1) \cup {Never}
      /\ query \in 0 .. (Stale + 1) \cup {Never} /\ throttle \in 0 .. Throttle
  BY <1>0 DEF AlertsTypeOK
<1>2. /\ seen \in 0 .. (Day + 1) \cup {Never}
      /\ seen = Never <=> device.seen = Never
      /\ device.seen # Never => device.seen \in Nat /\ seen \in Nat /\ seen <= device.seen + 1
      /\ age \in 0 .. (Stale + 1) \cup {Never}
  BY <1>1, OlderAges, AlertsConstants
<1>3. /\ query' \in 0 .. (Stale + 1) \cup {Never}
      /\ query' = Never <=> query = Never
      /\ query # Never => query \in Nat /\ query' \in Nat /\ (query' <= Stale => query' = query + 1)
  BY <1>1, OlderAges, AlertsConstants DEF Tick
<1>4. device' = [device EXCEPT !.seen = seen, !.lockAge = age]
  BY DEF Tick
<1> HIDE DEF seen, age
<1>5. /\ device' \in DeviceState
      /\ device'.seen = seen /\ device'.status = device.status /\ device'.attempts = device.attempts
  BY <1>0, <1>2, <1>4, DeviceUpdates DEF DeviceState
<1>6. /\ throttle' \in 0 .. Throttle /\ throttle' \in Nat
      /\ throttle' > 0 => throttle' = throttle - 1
  <2>1. throttle' = IF 0 <= throttle - 1 THEN throttle - 1 ELSE 0
    BY <1>1, MaxOfTwo, AlertsConstants DEF Tick
  <2> QED BY <1>1, <2>1, AlertsConstants
<1>7. HeartbeatFollows'
  <2> SUFFICES ASSUME "heartbeat" \notin failed
               PROVE  /\ throttle' > 0 => seen # Never /\ seen + throttle' <= Throttle
                      /\ query' # Never => seen # Never
                      /\ query' # Never /\ query' <= Stale => seen <= query' + Throttle
    BY <1>5 DEF HeartbeatFollows, Tick
  <2>1. throttle' > 0 => seen # Never /\ seen + throttle' <= Throttle
    <3> SUFFICES ASSUME throttle' > 0 PROVE seen # Never /\ seen + throttle' <= Throttle
      OBVIOUS
    <3>1. throttle > 0 /\ throttle' = throttle - 1 /\ throttle \in Nat
      BY <1>1, <1>6, AlertsConstants
    <3>2. device.seen # Never /\ device.seen + throttle <= Throttle
      BY <1>0, <3>1 DEF HeartbeatFollows
    <3> QED BY <1>2, <3>1, <3>2, AlertsConstants
  <2>2. query' # Never => seen # Never
    BY <1>0, <1>2, <1>3 DEF HeartbeatFollows
  <2>3. query' # Never /\ query' <= Stale => seen <= query' + Throttle
    <3> SUFFICES ASSUME query' # Never, query' <= Stale PROVE seen <= query' + Throttle
      OBVIOUS
    <3>1. query \in Nat /\ query # Never /\ query' = query + 1 /\ query <= Stale
      BY <1>3, AlertsConstants
    <3>2. device.seen # Never /\ device.seen <= query + Throttle
      BY <1>0, <3>1 DEF HeartbeatFollows
    <3> QED BY <1>2, <3>1, <3>2, AlertsConstants
  <2> QED BY <2>1, <2>2, <2>3
<1> QED BY <1>3, <1>5, <1>6, <1>7, DeviceFrame DEF Tick

\* A query: the heartbeat is written now, or was within the throttle.
LEMMA QueryKeepsInv == ASSUME AlertsInv, Query PROVE AlertsInv'
<1>0. AlertsTypeOK /\ HeartbeatFollows /\ device \in DeviceState /\ throttle \in 0 .. Throttle
  BY DEF AlertsInv, AlertsTypeOK, DeviceState
<1>1. /\ query' = 0 /\ UNCHANGED <<run, sent, earned, repeated, failed>>
      /\ 0 \in 0 .. (Day + 1) /\ 0 \in 0 .. (Stale + 1) /\ Throttle \in 0 .. Throttle
      /\ 0 # Never
  BY AlertsConstants DEF Query
<1>2. CASE throttle > 0
  <2>1. device' = device /\ throttle' = throttle
    BY <1>2 DEF Query, TouchHeartbeat
  <2>2. HeartbeatFollows'
    <3> SUFFICES ASSUME "heartbeat" \notin failed
                 PROVE  device.seen # Never /\ device.seen + throttle <= Throttle
                        /\ device.seen <= 0 + Throttle
      BY <1>0, <1>1, <2>1 DEF HeartbeatFollows
    <3>1. device.seen # Never /\ device.seen + throttle <= Throttle
      BY <1>0, <1>2 DEF HeartbeatFollows
    <3>2. device.seen \in Nat
      BY <1>0, <3>1, AlertsConstants DEF DeviceState
    <3> QED BY <1>0, <3>1, <3>2, AlertsConstants
  <2> QED BY <1>0, <1>1, <2>1, <2>2, DeviceFrame
<1>3. CASE ~(throttle > 0)
  <2>1. device' = [device EXCEPT !.seen = 0] /\ throttle' = Throttle
    BY <1>3 DEF Query, TouchHeartbeat
  <2>2. /\ device' \in DeviceState
        /\ device'.seen = 0 /\ device'.status = device.status /\ device'.attempts = device.attempts
    BY <1>0, <1>1, <2>1 DEF DeviceState
  <2>3. HeartbeatFollows'
    BY <1>1, <2>1, <2>2, AlertsConstants DEF HeartbeatFollows
  <2> QED BY <1>1, <2>1, <2>2, <2>3, DeviceFrame
<1> QED BY <1>2, <1>3

\* The other steps that touch no run: a heartbeat that is lost, the parent, and
\* the end of the window.
LEMMA RestKeepsInv ==
    ASSUME AlertsInv,
           \/ HeartbeatLost \/ WindowEnds
           \/ \E locked \in BOOLEAN : SetLock(locked)
           \/ \E status \in {"none", "ACTIVE", "PAUSED"} : SetSession(status)
    PROVE  AlertsInv'
<1>0. /\ AlertsTypeOK /\ HeartbeatFollows /\ device \in DeviceState /\ throttle \in 0 .. Throttle
      /\ query \in 0 .. (Stale + 1) \cup {Never}
  BY DEF AlertsInv, AlertsTypeOK, DeviceState
<1>1. CASE HeartbeatLost
  <2>1. "heartbeat" \in failed' /\ query' = 0 /\ throttle' = Throttle
        /\ UNCHANGED <<device, run, sent, earned, repeated>>
    BY <1>1 DEF HeartbeatLost, Fail
  <2>2. HeartbeatFollows'
    BY <2>1 DEF HeartbeatFollows
  <2> QED BY <1>0, <2>1, <2>2, DeviceFrame, AlertsConstants
<1>2. CASE WindowEnds
  <2>1. HeartbeatFollows'
    BY <1>0, <1>2 DEF WindowEnds, HeartbeatFollows
  <2> QED BY <1>0, <1>2, <2>1, DeviceFrame DEF WindowEnds
<1>3. ASSUME NEW locked \in BOOLEAN, SetLock(locked) PROVE AlertsInv'
  <2> DEFINE age == IF locked THEN 0 ELSE Never
  <2>1. age \in 0 .. (Stale + 1) \cup {Never}
    BY AlertsConstants
  <2>2. device' = [device EXCEPT !.locked = locked, !.lockAge = age]
        /\ UNCHANGED <<throttle, run, sent, query, earned, repeated, failed>>
    BY <1>3 DEF SetLock
  <2> HIDE DEF age
  <2>3. /\ device' \in DeviceState /\ device'.seen = device.seen
        /\ device'.status = device.status /\ device'.attempts = device.attempts
    <3>1. device.seen \in 0 .. (Day + 1) \cup {Never}
      BY <1>0 DEF DeviceState
    <3> QED BY <1>0, <2>1, <2>2, <3>1, DeviceUpdates DEF DeviceState
  <2>4. HeartbeatFollows'
    BY <1>0, <2>2, <2>3 DEF HeartbeatFollows
  <2> QED BY <1>0, <2>2, <2>3, <2>4, DeviceFrame
<1>4. ASSUME NEW status, SetSession(status) PROVE AlertsInv'
  <2>1. HeartbeatFollows'
    BY <1>0, <1>4 DEF SetSession, HeartbeatFollows
  <2> QED BY <1>0, <1>4, <2>1, DeviceFrame DEF SetSession
<1> QED BY <1>1, <1>2, <1>3, <1>4

\* The steps of a run that leave the device row alone.
LEMMA RunKeepsInv ==
    ASSUME AlertsInv, NEW r \in Runs,
           \/ ScanBypass(r) \/ ScanHealth(r) \/ NotifyBypass(r)
           \/ NotifyDisconnected(r) \/ RunFails(r)
    PROVE  AlertsInv'
<1>0. /\ AlertsTypeOK /\ HeartbeatFollows /\ CountsEarned /\ RunsBoundAlerts /\ StatusFollowsCount
      /\ run \in [Runs -> RunState] /\ run[r] \in RunState /\ device \in DeviceState
      /\ sent \in Nat /\ earned \in 0 .. Threshold
      /\ repeated \in BOOLEAN /\ (repeated => earned >= Threshold)
  BY DEF AlertsInv, AlertsTypeOK, CountsEarned, RunState, DeviceState
<1>1. IdleRun \in RunState /\ IdleRun.pc = "idle" /\ RunEarned(IdleRun, earned)
  BY AlertsConstants DEF IdleRun, RunState, RunEarned
<1>2. CASE ScanBypass(r)
  <2> DEFINE real == ReallyQuiet(Stale) \/ "heartbeat" \in failed
             x == [pc |-> "update", attempts |-> device.attempts, real |-> real]
  <2>1. real
    BY <1>0, <1>2, SuspectIsQuiet DEF ScanBypass
  <2>2. run' = [run EXCEPT ![r] = x] /\ run[r].pc = "idle"
        /\ UNCHANGED <<device, throttle, query, earned, failed, sent, repeated>>
    BY <1>2 DEF ScanBypass
  <2>3. real = TRUE
    BY <2>1 DEF ReallyQuiet
  <2> HIDE DEF real
  <2>4. device.attempts \in 0 .. Threshold /\ device.attempts < Threshold /\ device.attempts <= earned
    BY <1>0, <1>2, AlertsConstants
       DEF ScanBypass, StatusFollowsCount, CountsEarned, DeviceState
  <2>5. x \in RunState
    BY <2>3, <2>4 DEF RunState
  <2>6. RunEarned(x, earned) /\ x.pc # "create"
    BY <2>1, <2>4 DEF RunEarned
  <2> HIDE DEF x
  <2>7. sent' \in Nat /\ sent' <= IF run[r].pc = "create" THEN sent + 1 ELSE sent
    BY <1>0, <2>2
  <2>8. repeated' \in BOOLEAN /\ (repeated' => earned >= Threshold)
    BY <1>0, <2>2
  <2> QED BY <2>2, <2>5, <2>6, <2>7, <2>8, RunFrame
<1>3. CASE ScanHealth(r)
  <2> DEFINE x == [run[r] EXCEPT !.pc = "check"]
  <2>1. run' = [run EXCEPT ![r] = x] /\ run[r].pc = "idle"
        /\ UNCHANGED <<device, throttle, query, earned, failed, sent, repeated>>
    BY <1>3 DEF ScanHealth
  <2>2. x \in RunState /\ x.pc = "check"
    BY <1>0 DEF RunState
  <2>3. RunEarned(x, earned)
    BY <2>2 DEF RunEarned
  <2> HIDE DEF x
  <2>4. sent' \in Nat /\ sent' <= IF run[r].pc = "create" THEN sent + 1 ELSE sent
    BY <1>0, <2>1
  <2>5. repeated' \in BOOLEAN /\ (repeated' => earned >= Threshold)
    BY <1>0, <2>1
  <2> QED BY <2>1, <2>2, <2>3, <2>4, <2>5, RunFrame
<1>4. CASE NotifyBypass(r)
  <2>1. run' = [run EXCEPT ![r] = IdleRun] /\ run[r].pc = "notify"
        /\ UNCHANGED <<device, throttle, query, earned, failed, sent>>
    BY <1>4 DEF NotifyBypass
  <2>2. repeated' \in BOOLEAN
    BY <1>4, Zenon DEF NotifyBypass
  <2>3. repeated' => repeated \/ run[r].attempts >= Threshold
    BY <1>4 DEF NotifyBypass, Escalates
  <2>4. repeated' => earned >= Threshold
    BY <1>0, <2>1, <2>3, AlertsConstants DEF CountsEarned, RunState
  <2>5. sent' \in Nat /\ sent' <= IF run[r].pc = "create" THEN sent + 1 ELSE sent
    BY <1>0, <2>1
  <2> QED BY <1>1, <2>1, <2>2, <2>4, <2>5, RunFrame
<1>5. CASE NotifyDisconnected(r)
  <2>1. run' = [run EXCEPT ![r] = IdleRun] /\ run[r].pc = "create"
        /\ UNCHANGED <<device, throttle, query, earned, failed, repeated>>
        /\ sent' = Min({sent + 1, Cardinality(Runs) + 1})
    BY <1>5 DEF NotifyDisconnected
  <2>2. r \in Creating /\ IsFiniteSet(Creating)
    BY <2>1, AlertsConstants, FS_Subset DEF Creating
  <2>3. Cardinality(Creating) \in Nat /\ Cardinality(Creating) # 0
    BY <2>2, FS_CardinalityType, FS_EmptySet
  <2>4. sent + 1 <= Cardinality(Runs) + 1
    BY <1>0, <2>3, AlertsConstants DEF RunsBoundAlerts
  <2>5. sent' = sent + 1
    BY <1>0, <2>1, <2>4, MinOfTwo, AlertsConstants
  <2>6. sent' \in Nat /\ sent' <= IF run[r].pc = "create" THEN sent + 1 ELSE sent
    BY <1>0, <2>1, <2>5
  <2>7. repeated' \in BOOLEAN /\ (repeated' => earned >= Threshold)
    BY <1>0, <2>1
  <2> QED BY <1>1, <2>1, <2>6, <2>7, RunFrame
<1>6. CASE RunFails(r)
  <2>1. run' = [run EXCEPT ![r] = IdleRun] /\ failed \subseteq failed'
        /\ UNCHANGED <<device, throttle, query, earned, sent, repeated>>
    BY <1>6 DEF RunFails, Fail
  <2>2. sent' \in Nat /\ sent' <= IF run[r].pc = "create" THEN sent + 1 ELSE sent
    BY <1>0, <2>1
  <2>3. repeated' \in BOOLEAN /\ (repeated' => earned >= Threshold)
    BY <1>0, <2>1
  <2> QED BY <1>1, <2>1, <2>2, <2>3, RunFrame
<1> QED BY <1>2, <1>3, <1>4, <1>5, <1>6

\* The look for a recent alert: at most one run per run goes on to create one.
LEMMA CheckKeepsInv == ASSUME AlertsInv, NEW r \in Runs, CheckRecent(r) PROVE AlertsInv'
<1>0. /\ AlertsTypeOK /\ HeartbeatFollows /\ CountsEarned /\ RunsBoundAlerts /\ StatusFollowsCount
      /\ run \in [Runs -> RunState] /\ run[r] \in RunState /\ sent \in Nat
      /\ repeated \in BOOLEAN /\ (repeated => earned >= Threshold)
  BY DEF AlertsInv, AlertsTypeOK, CountsEarned, RunState
<1>1. run[r].pc = "check"
      /\ UNCHANGED <<device, throttle, query, earned, sent, repeated, failed>>
  BY DEF CheckRecent
<1>2. CASE sent > 0
  <2>1. run' = [run EXCEPT ![r] = IdleRun]
    BY <1>2 DEF CheckRecent
  <2>2. IdleRun \in RunState /\ IdleRun.pc = "idle" /\ RunEarned(IdleRun, earned)
    BY AlertsConstants DEF IdleRun, RunState, RunEarned
  <2>3. sent' \in Nat /\ sent' <= IF run[r].pc = "create" THEN sent + 1 ELSE sent
    BY <1>0, <1>1
  <2>4. repeated' \in BOOLEAN /\ (repeated' => earned >= Threshold)
    BY <1>0, <1>1
  <2> QED BY <1>1, <2>1, <2>2, <2>3, <2>4, RunFrame
<1>3. CASE ~(sent > 0)
  <2> DEFINE x == [run[r] EXCEPT !.pc = "create"]
  <2>1. run' = [run EXCEPT ![r] = x]
    BY <1>3 DEF CheckRecent
  <2>2. x \in RunState /\ x.pc = "create"
    BY <1>0 DEF RunState
  <2> HIDE DEF x
  <2>3. run' \in [Runs -> RunState] /\ run'[r] = x /\ \A s \in Runs : s # r => run'[s] = run[s]
    BY <1>0, <2>1, <2>2
  <2>4. AlertsTypeOK'
    BY <1>0, <1>1, <2>3 DEF AlertsTypeOK, RunState
  <2>5. HeartbeatFollows' /\ StatusFollowsCount'
    BY <1>0, <1>1 DEF HeartbeatFollows, StatusFollowsCount
  <2>6. CountsEarned'
    BY <1>0, <1>1, <2>2, <2>3 DEF CountsEarned
  <2>7. RunsBoundAlerts'
    <3>1. Creating' \subseteq Runs /\ sent' = 0
      BY <1>0, <1>1, <1>3 DEF Creating
    <3>2. IsFiniteSet(Creating') /\ Cardinality(Creating') <= Cardinality(Runs)
      BY <3>1, AlertsConstants, FS_Subset
    <3>3. Cardinality(Creating') \in Nat
      BY <3>2, FS_CardinalityType
    <3> QED BY <3>1, <3>2, <3>3, AlertsConstants DEF RunsBoundAlerts
  <2> QED BY <2>4, <2>5, <2>6, <2>7 DEF AlertsInv
<1> QED BY <1>2, <1>3

\* The update: the count that is written was read before, perhaps long ago, but
\* the scan that read it counts as well.
LEMMA FlagKeepsInv == ASSUME AlertsInv, NEW r \in Runs, FlagBypass(r) PROVE AlertsInv'
<1> DEFINE new == run[r].attempts + 1
           status == IF Escalates(new) THEN "COMPROMISED" ELSE "POSSIBLE_DNS_BYPASS"
           x == [run[r] EXCEPT !.pc = "notify", !.attempts = new]
<1>0. /\ AlertsTypeOK /\ HeartbeatFollows /\ CountsEarned /\ RunsBoundAlerts /\ StatusFollowsCount
      /\ run \in [Runs -> RunState] /\ run[r] \in RunState /\ device \in DeviceState
      /\ earned \in 0 .. Threshold /\ (repeated => earned >= Threshold)
  BY DEF AlertsInv, AlertsTypeOK, CountsEarned, RunState, DeviceState
<1>1. /\ run[r].pc = "update" /\ run[r].real /\ run[r].attempts \in 0 .. Threshold
      /\ run[r].attempts < Threshold /\ run[r].attempts <= earned
  BY <1>0 DEF FlagBypass, CountsEarned, RunState
<1>2. /\ device' = [device EXCEPT !.attempts = new, !.status = status]
      /\ UNCHANGED <<throttle, query, sent, repeated, failed>>
  BY DEF FlagBypass
<1>3. run' = [run EXCEPT ![r] = x]
  <2>1. run' = [run EXCEPT ![r].pc = "notify", ![r].attempts = new]
    BY DEF FlagBypass
  <2> QED BY <1>0, <2>1 DEF RunState
<1>4. earned' = Min({earned + 1, Threshold})
  BY <1>1 DEF FlagBypass
<1>5. /\ new \in 1 .. Threshold /\ earned' \in 0 .. Threshold
      /\ earned <= earned' /\ new <= earned'
  <2>1. earned' = IF earned + 1 <= Threshold THEN earned + 1 ELSE Threshold
    BY <1>0, <1>4, MinOfTwo, AlertsConstants
  <2> QED BY <1>0, <1>1, <2>1, AlertsConstants
<1>6. /\ status \in {"POSSIBLE_DNS_BYPASS", "COMPROMISED"}
      /\ status = "COMPROMISED" <=> new = Threshold
  BY <1>5, AlertsConstants DEF Escalates
<1>7. x \in RunState /\ x.pc = "notify" /\ x.attempts = new
  <2>1. new \in 0 .. Threshold /\ run[r] \in RunState
    BY <1>0, <1>5
  <2> HIDE DEF new
  <2>2. x = [run[r] EXCEPT !.pc = "notify", !.attempts = new]
    OBVIOUS
  <2> HIDE DEF x
  <2> QED BY <2>1, <2>2 DEF RunState
<1> HIDE DEF new, status, x
<1>8. /\ device' \in DeviceState /\ device'.seen = device.seen
      /\ device'.attempts = new /\ device'.status = status
  <2>1. new \in 0 .. Threshold /\ device \in DeviceState
    BY <1>0, <1>5
  <2> QED BY <1>2, <1>6, <2>1 DEF DeviceState
<1>9. run' \in [Runs -> RunState] /\ run'[r] = x /\ \A s \in Runs : s # r => run'[s] = run[s]
  BY <1>0, <1>3, <1>7
<1>10. AlertsTypeOK'
  BY <1>0, <1>2, <1>5, <1>8, <1>9 DEF AlertsTypeOK, DeviceState, RunState
<1>11. HeartbeatFollows'
  BY <1>0, <1>2, <1>8 DEF HeartbeatFollows
<1>12. StatusFollowsCount'
  BY <1>5, <1>6, <1>8, AlertsConstants DEF StatusFollowsCount
<1>13. CountsEarned'
  <2>1. ASSUME NEW s \in Runs
        PROVE  /\ run'[s].pc = "update" => run'[s].real /\ run'[s].attempts < Threshold
               /\ run'[s].pc \in {"update", "notify"} => run'[s].attempts <= earned'
    <3>1. CASE s = r
      BY <1>5, <1>7, <1>9, <3>1
    <3>2. CASE s # r
      <4>1. run[s].attempts \in Nat /\ earned \in Nat /\ earned' \in Nat
        BY <1>0, <1>5 DEF RunState
      <4> QED BY <1>0, <1>5, <1>9, <3>2, <4>1 DEF CountsEarned
    <3> QED BY <3>1, <3>2
  <2>2. device'.attempts <= earned' /\ (repeated' => earned' >= Threshold)
    BY <1>0, <1>2, <1>5, <1>8, AlertsConstants
  <2> QED BY <2>1, <2>2 DEF CountsEarned
<1>14. RunsBoundAlerts'
  <2>1. Creating' = Creating
    BY <1>1, <1>7, <1>9 DEF Creating
  <2>2. Cardinality(Creating') = Cardinality(Creating)
    BY <2>1
  <2> QED BY <1>0, <1>2, <2>2 DEF RunsBoundAlerts
<1> QED BY <1>10, <1>11, <1>12, <1>13, <1>14 DEF AlertsInv

LEMMA AlertsStep == AlertsInv /\ [AlertsNext]_alertsVars => AlertsInv'
<1> SUFFICES ASSUME AlertsInv, [AlertsNext]_alertsVars PROVE AlertsInv' OBVIOUS
<1>1. CASE Tick BY <1>1, TickKeepsInv
<1>2. CASE Query BY <1>2, QueryKeepsInv
<1>3. CASE \/ HeartbeatLost \/ WindowEnds
           \/ \E locked \in BOOLEAN : SetLock(locked)
           \/ \E status \in {"none", "ACTIVE", "PAUSED"} : SetSession(status)
  BY <1>3, RestKeepsInv
<1>4. ASSUME NEW r \in Runs, ScanBypass(r) \/ ScanHealth(r) \/ RunStep(r) \/ RunFails(r)
      PROVE  AlertsInv'
  BY <1>4, RunKeepsInv, CheckKeepsInv, FlagKeepsInv DEF RunStep
<1>5. CASE UNCHANGED alertsVars
  <2> USE <1>5 DEF alertsVars
  <2>1. AlertsTypeOK'
    BY DEF AlertsInv, AlertsTypeOK
  <2>2. HeartbeatFollows' /\ StatusFollowsCount' /\ CountsEarned'
    BY DEF AlertsInv, HeartbeatFollows, StatusFollowsCount, CountsEarned
  <2>3. RunsBoundAlerts'
    BY DEF AlertsInv, RunsBoundAlerts, Creating
  <2> QED BY <2>1, <2>2, <2>3 DEF AlertsInv
<1> QED BY <1>1, <1>2, <1>3, <1>4, <1>5 DEF AlertsNext

\* The ages, counts and runs of the crons stay in their ranges, for any number of
\* overlapping runs and any thresholds in the order of the code's.
THEOREM AlertsTyped == AlertsSpec => []AlertsTypeOK
<1>1. AlertsInv => AlertsTypeOK
  BY DEF AlertsInv
<1> QED BY <1>1, AlertsInitInv, AlertsStep, PTL DEF AlertsSpec

\* Whatever runs of detectDnsBypass and monitorDeviceHealth overlap, the attempts
\* held against a device, its verdict and the strong alert are earned by as many
\* scans of a device really silent, and a window has no more alerts than runs.
THEOREM AlarmsAreEarned == AlertsSpec => []AlertsEarned
<1>1. AlertsInv => AlertsEarned
  <2> SUFFICES ASSUME AlertsInv PROVE AlertsEarned OBVIOUS
  <2>1. /\ device.attempts \in 0 .. Threshold /\ earned \in 0 .. Threshold /\ sent \in Nat
        /\ StatusFollowsCount /\ CountsEarned /\ RunsBoundAlerts
    BY DEF AlertsInv, AlertsTypeOK
  <2>2. sent <= Cardinality(Runs)
    <3>1. IsFiniteSet(Creating)
      BY AlertsConstants, FS_Subset DEF Creating
    <3>2. Cardinality(Creating) \in Nat
      BY <3>1, FS_CardinalityType
    <3> QED BY <2>1, <3>2, AlertsConstants DEF RunsBoundAlerts
  <2> QED BY <2>1, <2>2, AlertsConstants DEF AlertsEarned, StatusFollowsCount, CountsEarned
<1> QED BY <1>1, AlertsInitInv, AlertsStep, PTL DEF AlertsSpec

----------------------------------------------------------------------------
(* Alerts: the screens *)

\* What a division by a positive number leaves.
LEMMA Division ==
    ASSUME NEW a \in Nat, NEW m \in Nat, m > 0
    PROVE  /\ a \div m \in Nat /\ a % m \in 0 .. m - 1
           /\ a = m * (a \div m) + (a % m)
<1>1. a % m \in 0 .. m - 1
  OBVIOUS
<1>2. a = m * (a \div m) + (a % m)
  BY SMTT(20)
<1>3. a \div m \in Nat
  BY SMTT(20)
<1> QED BY <1>1, <1>2, <1>3

\* Multiplication keeps the order.
LEMMA Scaled ==
    ASSUME NEW m \in Nat, NEW a \in Nat, NEW b \in Nat, a <= b
    PROVE  m * a <= m * b
<1>1. PICK c \in Nat : b = a + c
  <2>1. b - a \in Nat /\ b = a + (b - a) OBVIOUS
  <2> QED BY <2>1
<1>2. m * c \in Nat /\ m * (a + c) = m * a + m * c
  OBVIOUS
<1> QED BY <1>1, <1>2

\* Whole minutes up to a whole number of minutes, but for the minute after it.
LEMMA WholeMinutes ==
    ASSUME NEW a \in Nat, ~(a > Fresh /\ a < Fresh + Minute)
    PROVE  a \div Minute <= Fresh \div Minute <=> a <= Fresh
<1> DEFINE q == a \div Minute
           k == Fresh \div Minute
<1>1. /\ Minute \in Nat /\ Minute > 0 /\ Fresh \in Nat /\ Fresh % Minute = 0
  BY HealthAssumption
<1>2. k \in Nat /\ Fresh = Minute * k
  BY <1>1, Division
<1>3. q \in Nat /\ Minute * q <= a /\ a < Minute * q + Minute
  <2>1. q \in Nat /\ a % Minute \in 0 .. Minute - 1 /\ a = Minute * q + (a % Minute)
    BY <1>1, Division
  <2> QED BY <1>1, <2>1
<1> HIDE DEF q, k
<1>4. ASSUME a <= Fresh PROVE q <= k
  <2> SUFFICES ASSUME k + 1 <= q PROVE FALSE
    BY <1>2, <1>3
  <2>1. Minute * (k + 1) <= Minute * q
    BY <1>1, <1>2, <1>3, Scaled
  <2>2. Minute * (k + 1) = Minute * k + Minute
    BY <1>1, <1>2
  <2> QED BY <1>1, <1>2, <1>3, <1>4, <2>1, <2>2
<1>5. ASSUME q <= k PROVE a <= Fresh
  <2>1. Minute * q <= Minute * k
    BY <1>1, <1>2, <1>3, <1>5, Scaled
  <2> QED BY <1>1, <1>2, <1>3, <2>1
<1> QED BY <1>4, <1>5 DEF q, k

\* The least and the greatest of a set, when they are known.
LEMMA LeastIs ==
    ASSUME NEW S, \A x \in S : x \in Int, NEW m \in S, \A x \in S : m <= x
    PROVE  Min(S) = m
<1>1. \A n \in S : (\A y \in S : n <= y) => n = m
  OBVIOUS
<1>2. Min(S) \in S /\ \A y \in S : Min(S) <= y
  BY Zenon DEF Min
<1> QED BY <1>1, <1>2

\* The same for the greatest.
LEMMA GreatestIs ==
    ASSUME NEW S, \A x \in S : x \in Int, NEW m \in S, \A x \in S : m >= x
    PROVE  Max(S) = m
<1>1. \A n \in S : (\A y \in S : n >= y) => n = m
  OBVIOUS
<1>2. Max(S) \in S /\ \A y \in S : Max(S) >= y
  BY Zenon DEF Max
<1> QED BY <1>1, <1>2

\* The points a device gets for its bypass state.
LEMMA BypassPoints ==
    ASSUME NEW row, row.attempts \in Nat
    PROVE  /\ BypassScore(row) \in 0 .. 25
           /\ row.status = "COMPROMISED" => BypassScore(row) = 0
           /\ row.status = "NORMAL" /\ row.attempts = 0 => BypassScore(row) = 25
<1> DEFINE base == CASE row.status = "COMPROMISED" -> 0
                     [] row.status = "POSSIBLE_DNS_BYPASS" -> 15
                     [] OTHER -> 25
           cost == Min({20, 3 * row.attempts})
<1>1. /\ base \in 0 .. 25 /\ (row.status = "COMPROMISED" => base = 0)
      /\ (row.status = "NORMAL" => base = 25)
  OBVIOUS
<1>2. cost = IF 20 <= 3 * row.attempts THEN 20 ELSE 3 * row.attempts
  <2>1. 3 * row.attempts \in Int OBVIOUS
  <2> QED BY <2>1, MinOfTwo
<1>3. cost \in 0 .. 20 /\ (row.attempts = 0 => cost = 0)
  BY <1>2
<1> HIDE DEF base, cost
<1>4. Max({0, base - cost}) = IF 0 <= base - cost THEN base - cost ELSE 0
  <2>1. base - cost \in Int
    BY <1>1, <1>3
  <2> QED BY <2>1, MaxOfTwo
<1>5. BypassScore(row) = Max({0, base - cost})
  BY DEF BypassScore, base, cost
<1> QED BY <1>1, <1>3, <1>4, <1>5

\* The points of the offline set-up.
LEMMA OfflinePoints ==
    ASSUME NEW setup \in Setups
    PROVE  /\ OfflineScore(setup) \in 0 .. 30
           /\ setup.enabled /\ setup.done >= 4 => OfflineScore(setup) >= 18
<1>1. setup.done \in 0 .. 6
  BY DEF Setups, Checklist
<1>2. Round(15 * setup.done, 6) \in 0 .. 15 /\ (setup.done >= 4 => Round(15 * setup.done, 6) >= 10)
  BY <1>1 DEF Round
<1> QED BY <1>1, <1>2 DEF OfflineScore

\* The points of the DNS signal.
LEMMA DnsPoints ==
    ASSUME NEW row, row.seen \in Nat \cup {Never}
    PROVE  DnsScore(row) \in 0 .. 30 /\ (row.configured => DnsScore(row) >= 10)
  BY HealthAssumption DEF DnsScore

\* A COMPROMISED device is not rated HIGH; a device without a recommendation has its
\* DNS and its offline set-up done and no bypass held against it.
LEMMA ScoreFollows ==
    ASSUME NEW row, row.seen \in Nat \cup {Never}, row.attempts \in Nat, NEW setup \in Setups
    PROVE  LET score == CalculateProtectionScore(row, setup)
           IN /\ score \in 0 .. 100
              /\ row.status = "COMPROMISED" => score <= 75
              /\ row.configured /\ setup.enabled /\ setup.done >= 4 /\ row.status = "NORMAL"
                    /\ row.attempts = 0 => score >= 63
<1> DEFINE dns == DnsScore(row)
           lock == LockScore(row)
           offline == OfflineScore(setup)
           bypass == BypassScore(row)
<1>1. lock \in 10 .. 15
  BY DEF LockScore
<1>2. dns \in 0 .. 30 /\ (row.configured => dns >= 10)
  BY DnsPoints
<1>3. offline \in 0 .. 30 /\ (setup.enabled /\ setup.done >= 4 => offline >= 18)
  BY OfflinePoints
<1>4. /\ bypass \in 0 .. 25 /\ (row.status = "COMPROMISED" => bypass = 0)
      /\ (row.status = "NORMAL" /\ row.attempts = 0 => bypass = 25)
  BY BypassPoints
<1>5. CalculateProtectionScore(row, setup) = Min({100, dns + lock + offline + bypass})
  BY DEF CalculateProtectionScore
<1> HIDE DEF dns, lock, offline, bypass
<1>6. dns + lock + offline + bypass \in 0 .. 100
  BY <1>1, <1>2, <1>3, <1>4
<1>7. Min({100, dns + lock + offline + bypass}) = dns + lock + offline + bypass
  <2>1. dns + lock + offline + bypass \in Int /\ dns + lock + offline + bypass <= 100
    BY <1>6
  <2> HIDE <1>1, <1>2, <1>3, <1>4
  <2> DEFINE sum == dns + lock + offline + bypass
  <2> HIDE DEF sum
  <2>2. sum \in Int /\ sum <= 100
    BY <2>1 DEF sum
  <2>3. Min({100, sum}) = sum
    <3>1. Min({100, sum}) = IF 100 <= sum THEN 100 ELSE sum
      BY <2>2, MinOfTwo
    <3> QED BY <2>2, <3>1
  <2> QED BY <2>3 DEF sum
<1>8. CalculateProtectionScore(row, setup) = dns + lock + offline + bypass
  BY <1>5, <1>7
<1> QED BY <1>1, <1>2, <1>3, <1>4, <1>6, <1>8

\* The insights about the set-up and the bypass state.
LEMMA AdviceFollows ==
    ASSUME NEW row, NEW setup \in Setups, row.configured \in BOOLEAN,
           row.status \in {"NORMAL", "POSSIBLE_DNS_BYPASS", "COMPROMISED"}
    PROVE  /\ "dns" \in Recommendations(row, setup) <=> ~row.configured
           /\ "guide" \in Recommendations(row, setup) <=> ~setup.enabled
           /\ "checklist" \in Recommendations(row, setup) <=> setup.done < 4
           /\ Recommendations(row, setup) = {} => row.status = "NORMAL"
<1> DEFINE R == Recommendations(row, setup)
<1>1. /\ "dns" \in R <=> ~row.configured
      /\ "guide" \in R <=> ~setup.enabled
      /\ "checklist" \in R <=> setup.done < 4
      /\ "settings" \in R <=> row.status = "POSSIBLE_DNS_BYPASS"
      /\ "network" \in R <=> row.status = "COMPROMISED"
  BY DEF Recommendations
<1> QED BY <1>1

\* A rounded mean lies between the least and the greatest of what it is the mean of.
LEMMA RoundBetween ==
    ASSUME NEW d \in {20, 35, 65, 80}, NEW n \in Nat, NEW lo \in Nat, NEW hi \in Nat,
           lo * d <= n, n <= hi * d
    PROVE  Round(n, d) \in lo .. hi
<1>1. CASE d = 20
  BY <1>1 DEF Round
<1>2. CASE d = 35
  BY <1>2 DEF Round
<1>3. CASE d = 65
  BY <1>3 DEF Round
<1>4. CASE d = 80
  BY <1>4 DEF Round
<1> QED BY <1>1, <1>2, <1>3, <1>4

\* A rounded quotient of naturals is one.
LEMMA RoundNat ==
    ASSUME NEW n \in Nat, NEW d \in Nat, d > 0
    PROVE  Round(n, d) \in Nat
<1>1. 2 * n + d \in Nat /\ 2 * d \in Nat /\ 2 * d > 0
  OBVIOUS
<1> QED BY <1>1, Division DEF Round

\* The counts the network health page is made of.
Counts == [protected : Nat, devices : Nat, bypassSuspected : Nat, vpn : Nat, doh : Nat,
           online : Nat, considered : Nat, succeeded : Nat]

\* A bypass suspected keeps the Security section below green.
LEMMA SecurityPercent ==
    ASSUME NEW input \in Counts
    PROVE  Security(input) \in Nat /\ (input.bypassSuspected > 0 => Security(input) < 80)
<1> DEFINE vpn == IF input.vpn > 0 THEN 60 ELSE 100
           privateDns == IF input.bypassSuspected > 0 THEN 30 ELSE 100
           doh == IF input.doh > 0 THEN 60 ELSE 100
<1>1. vpn \in {60, 100} /\ privateDns \in {30, 100} /\ doh \in {60, 100}
      /\ (input.bypassSuspected > 0 => privateDns = 30)
  OBVIOUS
<1>2. Security(input) = Round(vpn + privateDns + doh, 3)
  BY DEF Security
<1> HIDE DEF vpn, privateDns, doh
<1> QED BY <1>1, <1>2 DEF Round

\* The percentage and the weight of a section.
LEMMA SectionTyped ==
    ASSUME NEW part \in Nat, NEW total \in Nat, NEW weight \in Nat
    PROVE  /\ Section(part, total, weight).percent \in Nat
           /\ Section(part, total, weight).weight = IF total = 0 THEN 0 ELSE weight
<1>1. CASE total = 0
  BY <1>1 DEF Section
<1>2. CASE total # 0
  <2>1. Round(100 * part, total) \in Nat
    <3>1. 100 * part \in Nat /\ total > 0
      BY <1>2
    <3> QED BY <3>1, RoundNat
  <2> QED BY <1>2, <2>1 DEF Section
<1> QED BY <1>1, <1>2

\* The overall protection lies between the sections that count, whatever they are.
LEMMA OverallBetween ==
    ASSUME NEW input \in Counts
    PROVE  LET s == Sections(input)
               percents == {s[i].percent : i \in {j \in DOMAIN s : s[j].weight > 0}}
           IN OverallProtection(input) \in Min(percents)..Max(percents)
<1> DEFINE s == Sections(input)
           percents == {s[i].percent : i \in {j \in DOMAIN s : s[j].weight > 0}}
           W == s[1].weight + s[2].weight + s[3].weight + s[4].weight
<1>1. /\ input.protected \in Nat /\ input.devices \in Nat /\ input.succeeded \in Nat
      /\ input.considered \in Nat /\ input.online \in Nat
  BY DEF Counts
<1>2. /\ DOMAIN s = 1 .. 4
      /\ s[1] = Section(input.protected, input.devices, 30)
      /\ s[2] = Section(input.succeeded, input.considered, 15)
      /\ s[3].percent = Security(input) /\ s[3].weight = 20
      /\ s[4] = Section(input.online, input.devices, 15)
  BY DEF Sections
<1>3. /\ s[1].percent \in Nat /\ s[2].percent \in Nat /\ s[3].percent \in Nat /\ s[4].percent \in Nat
      /\ s[1].weight = IF input.devices = 0 THEN 0 ELSE 30
      /\ s[2].weight = IF input.considered = 0 THEN 0 ELSE 15
      /\ s[4].weight = IF input.devices = 0 THEN 0 ELSE 15
  <2> HIDE DEF s
  <2>1. s[1].percent \in Nat /\ s[1].weight = IF input.devices = 0 THEN 0 ELSE 30
    <3>1. 30 \in Nat /\ input.protected \in Nat /\ input.devices \in Nat
      BY <1>1
    <3>2. /\ Section(input.protected, input.devices, 30).percent \in Nat
          /\ Section(input.protected, input.devices, 30).weight = IF input.devices = 0 THEN 0 ELSE 30
      BY <3>1, SectionTyped, Zenon
    <3> QED BY <1>2, <3>2
  <2>2. s[2].percent \in Nat /\ s[2].weight = IF input.considered = 0 THEN 0 ELSE 15
    <3>1. 15 \in Nat /\ input.succeeded \in Nat /\ input.considered \in Nat
      BY <1>1
    <3>2. /\ Section(input.succeeded, input.considered, 15).percent \in Nat
          /\ Section(input.succeeded, input.considered, 15).weight = IF input.considered = 0 THEN 0 ELSE 15
      BY <3>1, SectionTyped, Zenon
    <3> QED BY <1>2, <3>2
  <2>3. s[4].percent \in Nat /\ s[4].weight = IF input.devices = 0 THEN 0 ELSE 15
    <3>1. 15 \in Nat /\ input.online \in Nat /\ input.devices \in Nat
      BY <1>1
    <3>2. /\ Section(input.online, input.devices, 15).percent \in Nat
          /\ Section(input.online, input.devices, 15).weight = IF input.devices = 0 THEN 0 ELSE 15
      BY <3>1, SectionTyped, Zenon
    <3> QED BY <1>2, <3>2
  <2>4. s[3].percent \in Nat
    BY <1>2, SecurityPercent
  <2> QED BY <2>1, <2>2, <2>3, <2>4
<1>4. OverallProtection(input) = Round(WeightedSum(s), W)
  BY DEF OverallProtection
<1> HIDE DEF s
<1>5. /\ \A x \in percents : x \in Nat
      /\ s[3].percent \in percents
      /\ s[1].weight > 0 => s[1].percent \in percents
      /\ s[2].weight > 0 => s[2].percent \in percents
      /\ s[4].weight > 0 => s[4].percent \in percents
      /\ \A x \in percents : \/ x = s[3].percent
                             \/ s[1].weight > 0 /\ x = s[1].percent
                             \/ s[2].weight > 0 /\ x = s[2].percent
                             \/ s[4].weight > 0 /\ x = s[4].percent
  BY <1>2, <1>3
<1> HIDE DEF percents
<1>6. PICK lo \in percents : \A x \in percents : lo <= x
  <2>1. PICK a \in percents : a <= s[3].percent /\ (s[1].weight > 0 => a <= s[1].percent)
    BY <1>3, <1>5
  <2>2. PICK b \in percents : b <= a /\ (s[2].weight > 0 => b <= s[2].percent)
    BY <1>3, <1>5
  <2>3. PICK c \in percents : c <= b /\ (s[4].weight > 0 => c <= s[4].percent)
    BY <1>3, <1>5
  <2>4. \A x \in percents : c <= x
    BY <1>3, <1>5, <2>1, <2>2, <2>3
  <2> QED BY <2>4
<1>7. PICK hi \in percents : \A x \in percents : hi >= x
  <2>1. PICK a \in percents : a >= s[3].percent /\ (s[1].weight > 0 => a >= s[1].percent)
    BY <1>3, <1>5
  <2>2. PICK b \in percents : b >= a /\ (s[2].weight > 0 => b >= s[2].percent)
    BY <1>3, <1>5
  <2>3. PICK c \in percents : c >= b /\ (s[4].weight > 0 => c >= s[4].percent)
    BY <1>3, <1>5
  <2>4. \A x \in percents : c >= x
    BY <1>3, <1>5, <2>1, <2>2, <2>3
  <2> QED BY <2>4
<1>8. Min(percents) = lo /\ Max(percents) = hi /\ lo \in Nat /\ hi \in Nat
  BY <1>5, <1>6, <1>7, LeastIs, GreatestIs
<1>9. W \in {20, 35, 65, 80} /\ WeightedSum(s) \in Nat
      /\ lo * W <= WeightedSum(s) /\ WeightedSum(s) <= hi * W
  <2> DEFINE p1 == s[1].percent
             p2 == s[2].percent
             p3 == s[3].percent
             p4 == s[4].percent
  <2>1. /\ p1 \in Nat /\ p2 \in Nat /\ p3 \in Nat /\ p4 \in Nat
        /\ lo <= p3 /\ p3 <= hi
        /\ s[1].weight > 0 => lo <= p1 /\ p1 <= hi
        /\ s[2].weight > 0 => lo <= p2 /\ p2 <= hi
        /\ s[4].weight > 0 => lo <= p4 /\ p4 <= hi
    BY <1>3, <1>5, <1>6, <1>7
  <2>2. WeightedSum(s) = p1 * s[1].weight + p2 * s[2].weight + p3 * s[3].weight + p4 * s[4].weight
    BY DEF WeightedSum
  <2> HIDE DEF p1, p2, p3, p4
  <2>3. CASE input.devices = 0 /\ input.considered = 0
    <3>1. WeightedSum(s) = p3 * 20 /\ W = 20
      BY <1>2, <1>3, <2>1, <2>2, <2>3
    <3> QED BY <1>8, <2>1, <3>1
  <2>4. CASE input.devices = 0 /\ input.considered # 0
    <3>1. WeightedSum(s) = p2 * 15 + p3 * 20 /\ W = 35 /\ s[2].weight > 0
      BY <1>2, <1>3, <2>1, <2>2, <2>4
    <3> QED BY <1>8, <2>1, <3>1
  <2>5. CASE input.devices # 0 /\ input.considered = 0
    <3>1. /\ WeightedSum(s) = p1 * 30 + p3 * 20 + p4 * 15 /\ W = 65
          /\ s[1].weight > 0 /\ s[4].weight > 0
      BY <1>2, <1>3, <2>1, <2>2, <2>5
    <3> QED BY <1>8, <2>1, <3>1
  <2>6. CASE input.devices # 0 /\ input.considered # 0
    <3>1. /\ WeightedSum(s) = p1 * 30 + p2 * 15 + p3 * 20 + p4 * 15 /\ W = 80
          /\ s[1].weight > 0 /\ s[2].weight > 0 /\ s[4].weight > 0
      BY <1>2, <1>3, <2>1, <2>2, <2>6
    <3> QED BY <1>8, <2>1, <3>1
  <2> QED BY <2>3, <2>4, <2>5, <2>6
<1> HIDE DEF W
<1>10. Round(WeightedSum(s), W) \in lo .. hi
  <2> DEFINE sum == WeightedSum(s)
  <2>1. /\ W \in {20, 35, 65, 80} /\ sum \in Nat /\ lo \in Nat /\ hi \in Nat
        /\ lo * W <= sum /\ sum <= hi * W
    BY <1>8, <1>9
  <2> HIDE DEF sum
  <2>2. Round(sum, W) \in lo .. hi
    BY ONLY <2>1, RoundBetween
  <2> QED BY <2>2 DEF sum
<1>11. OverallProtection(input) \in Min(percents) .. Max(percents)
  BY <1>4, <1>8, <1>10 DEF W
<1> QED BY <1>11 DEF s, percents

\* The page is computed from counts, and the bypass suspected is the device's own.
LEMMA InputsAreCounts ==
    ASSUME NEW input \in Inputs
    PROVE  input \in Counts /\ (device.status # "NORMAL" => input.bypassSuspected > 0)
<1> DEFINE verdict == <<GetForDevice(device, session), "VERIFIED">>
           summary == GetSummary({1, 2}, verdict)
<1>1. IsFiniteSet({1, 2})
  <2>1. IsFiniteSet({1}) /\ {1, 2} = {1} \cup {2}
    BY FS_Singleton
  <2> QED BY <2>1, FS_AddElement
<1>2. summary.total \in Nat
  BY <1>1, FS_CardinalityType DEF GetSummary
<1>3. summary.protected \in Nat
  <2>1. summary.protected = Cardinality({d \in {1, 2} : verdict[d] = "VERIFIED"})
    BY DEF GetSummary
  <2>2. IsFiniteSet({d \in {1, 2} : verdict[d] = "VERIFIED"})
    <3>1. {d \in {1, 2} : verdict[d] = "VERIFIED"} \subseteq {1, 2}
      OBVIOUS
    <3> QED BY ONLY <1>1, <3>1, FS_Subset
  <2> QED BY <2>1, <2>2, FS_CardinalityType
<1>4. PICK detections \in 0..1, commands \in 0..1 :
        input = [protected |-> summary.protected, devices |-> summary.total,
                 bypassSuspected |-> IF device.status = "NORMAL" THEN 0 ELSE 1,
                 vpn |-> detections, doh |-> detections, online |-> 1,
                 considered |-> commands, succeeded |-> 0]
  BY DEF Inputs
<1> HIDE DEF summary
<1> QED BY <1>2, <1>3, <1>4 DEF Counts

\* Health page, weekly report and connection quality, of the same age.
LEMMA PagesAgree ==
    ASSUME AlertsTypeOK,
           ~(device.seen # Never /\ device.seen > Fresh /\ device.seen < Fresh + Minute)
    PROVE  LET verdict == GetForDevice(device, session)
           IN /\ verdict = "VERIFIED" <=> ReportProtected(device.seen)
              /\ verdict = "VERIFIED"
                   <=> ComputeConnectionQuality(device.seen) \in {"EXCELLENT", "GOOD"}
<1>1. device.seen \in Nat \cup {Never}
  BY HealthAssumption DEF AlertsTypeOK
<1>2. GetForDevice(device, session) = "VERIFIED"
        <=> device.seen # Never /\ device.seen \div Minute <= Fresh \div Minute
  BY DEF GetForDevice, EvaluateDeviceHealth
<1>3. device.seen # Never =>
        (device.seen \div Minute <= Fresh \div Minute <=> device.seen <= Fresh)
  BY <1>1, WholeMinutes
<1>4. ReportProtected(device.seen) <=> device.seen # Never /\ device.seen <= Fresh
  BY DEF ReportProtected
<1>5. ComputeConnectionQuality(device.seen) \in {"EXCELLENT", "GOOD"}
        <=> device.seen # Never /\ device.seen <= Fresh
  BY <1>1, HealthAssumption DEF ComputeConnectionQuality
<1> QED BY <1>2, <1>3, <1>4, <1>5

\* A lock the health page calls for attention is one the scan sees.
LEMMA AttentionIsSuspect ==
    ASSUME AlertsTypeOK, GetForDevice(device, session) = "NEEDS_ATTENTION",
           device.locked, device.lockAge > Stale
    PROVE  Suspect
<1>1. device.seen \in Nat /\ ~(device.seen \div Minute <= Fresh \div Minute)
  BY HealthAssumption DEF GetForDevice, EvaluateDeviceHealth, AlertsTypeOK
<1>2. device.seen > Stale
  <2> SUFFICES ASSUME device.seen <= Stale PROVE FALSE
    BY <1>1, HealthAssumption
  <2>1. device.seen <= Fresh
    BY <1>1, HealthAssumption
  <2>2. device.seen \div Minute <= Fresh \div Minute
    BY <1>1, <2>1, HealthAssumption, WholeMinutes
  <2> QED BY <1>1, <2>2
<1> QED BY <1>2 DEF Suspect, Quiet

\* Score, level and insights of the device, for any offline set-up.
LEMMA InsightsAgree ==
    ASSUME AlertsTypeOK, StatusFollowsCount, NEW setup \in Setups
    PROVE  LET score == CalculateProtectionScore(device, setup)
               advice == Recommendations(device, setup)
           IN /\ device.status = "COMPROMISED" => ProtectionLevel(score) # "HIGH"
              /\ advice = {} => ~SetupRequired(setup) /\ ProtectionLevel(score) # "LOW"
              /\ SetupRequired(setup) <=> advice \cap {"guide", "checklist"} # {}
              /\ RecommendNextStep(setup) = "complete" => ~SetupRequired(setup)
<1> DEFINE score == CalculateProtectionScore(device, setup)
           advice == Recommendations(device, setup)
<1>1. /\ device.seen \in Nat \cup {Never} /\ device.attempts \in Nat /\ device.configured \in BOOLEAN
      /\ device.status \in {"NORMAL", "POSSIBLE_DNS_BYPASS", "COMPROMISED"}
  BY HealthAssumption, AlertsConstants DEF AlertsTypeOK
<1>2. /\ setup.done \in 0 .. 6 /\ setup.enabled \in BOOLEAN /\ setup.verified \in BOOLEAN
  BY DEF Setups, Checklist
<1>3. /\ score \in 0 .. 100
      /\ device.status = "COMPROMISED" => score <= 75
      /\ device.configured /\ setup.enabled /\ setup.done >= 4 /\ device.status = "NORMAL"
            /\ device.attempts = 0 => score >= 63
  BY <1>1, ScoreFollows
<1>4. /\ "dns" \in advice <=> ~device.configured
      /\ "guide" \in advice <=> ~setup.enabled
      /\ "checklist" \in advice <=> setup.done < 4
      /\ advice = {} => device.status = "NORMAL"
  BY <1>1, AdviceFollows
<1> HIDE DEF score, advice
<1>5. device.status = "COMPROMISED" => ProtectionLevel(score) # "HIGH"
  BY <1>3 DEF ProtectionLevel
<1>6. advice = {} => ~SetupRequired(setup) /\ ProtectionLevel(score) # "LOW"
  <2> SUFFICES ASSUME advice = {} PROVE ~SetupRequired(setup) /\ ProtectionLevel(score) # "LOW"
    OBVIOUS
  <2>1. device.configured /\ setup.enabled /\ setup.done >= 4 /\ device.status = "NORMAL"
    BY <1>2, <1>4
  <2>2. device.attempts = 0
    BY <2>1 DEF StatusFollowsCount
  <2>3. score >= 63
    BY <1>3, <2>1, <2>2
  <2> QED BY <1>2, <1>3, <2>1, <2>3 DEF SetupRequired, ProtectionLevel
<1>7. SetupRequired(setup) <=> advice \cap {"guide", "checklist"} # {}
  BY <1>4 DEF SetupRequired
<1>8. RecommendNextStep(setup) = "complete" => ~SetupRequired(setup)
  BY <1>2 DEF RecommendNextStep
<1> QED BY <1>5, <1>6, <1>7, <1>8 DEF score, advice

\* The screens a parent looks at tell one story of a device, for any thresholds in
\* the order of the code's: protected, silent, at risk and set up mean the same on
\* each, but for the minute the health page rounds away.
THEOREM ScreensTellOneStory == AlertsSpec => []ScreensAgree
<1>1. AlertsInv => ScreensAgree
  <2> SUFFICES ASSUME AlertsInv PROVE ScreensAgree OBVIOUS
  <2>1. AlertsTypeOK /\ StatusFollowsCount
    BY DEF AlertsInv
  <2>2. \A setup \in SetupCases : setup \in Setups
    BY DEF SetupCases
  <2>3. \A setup \in SetupCases :
          LET score == CalculateProtectionScore(device, setup)
              advice == Recommendations(device, setup)
          IN /\ device.status = "COMPROMISED" => ProtectionLevel(score) # "HIGH"
             /\ advice = {} => ~SetupRequired(setup) /\ ProtectionLevel(score) # "LOW"
             /\ SetupRequired(setup) <=> advice \cap {"guide", "checklist"} # {}
             /\ RecommendNextStep(setup) = "complete" => ~SetupRequired(setup)
    BY <2>1, <2>2, InsightsAgree
  <2>4. ASSUME NEW input \in Inputs
        PROVE  device.status # "NORMAL" => ColorForPercent(Security(input)) # "green"
    BY InputsAreCounts, SecurityPercent DEF ColorForPercent
  <2>5. \A input \in Inputs :
          LET s == Sections(input)
              percents == {s[i].percent : i \in {j \in DOMAIN s : s[j].weight > 0}}
          IN /\ OverallProtection(input) \in Min(percents)..Max(percents)
             /\ device.status # "NORMAL" => ColorForPercent(Security(input)) # "green"
    BY <2>4, InputsAreCounts, OverallBetween
  <2> QED BY <2>1, <2>3, <2>5, PagesAgree, AttentionIsSuspect DEF ScreensAgree
<1> QED BY <1>1, AlertsInitInv, AlertsStep, PTL DEF AlertsSpec
============================================================================
