-------------------------- MODULE SessionsProofs --------------------------
(***************************************************************************)
(* Proofs about Sessions, for any callers, cron runs, durations and bounds:*)
(* however requests and runs overlap, within and across minutes, the       *)
(* columns stay in range; unless a resume is stored late, no minute that   *)
(* was granted and not used is lost; and unless a snapshot has aged too,   *)
(* no running session is expired early.                                    *)
(***************************************************************************)
EXTENDS Sessions, TLAPS

USE DEF history

----------------------------------------------------------------------------
(* Rows and the local states of requests and runs *)

CallerPcs == {"idle", "limit", "create", "write"}
JobPcs == {"idle", "loop", "expire", "enforce", "category"}

\* The session table, a request and a run of the cron, when n sessions exist.
TableWell ==
    /\ session \in [Ids -> Row] /\ created \in 0 .. MaxSessions
    /\ \A s \in Ids : (session[s].status = "NONE") <=> (s > created)
CallerWell(w, n) == w.pc = "write" => w.op \in Ops /\ w.id \in 1 .. n
JobWell(x, n) ==
    /\ x.id \in 0 .. n
    /\ x.pc \in {"expire", "enforce", "category"} => x.id \in 1 .. n
    /\ \A item \in x.todo : item.id \in 1 .. n

WellFormed ==
    /\ TableWell /\ now \in 0 .. MaxTime /\ used \in [Ids -> Nat]
    /\ caller \in [Callers -> CallerState] /\ \A c \in Callers : CallerWell(caller[c], created)
    /\ job \in [Jobs -> JobState] /\ \A j \in Jobs : JobWell(job[j], created)

LEMMA BoundsAreNumbers ==
    /\ Durations \subseteq Nat /\ Extras \subseteq Nat
    /\ MaxSessions \in Nat /\ MaxExtension \in Nat /\ MaxTime \in Nat
  BY SessionsAssumption

LEMMA TypedIsWellFormed == SessionsTyped <=> WellFormed
<1>1. SessionsTyped => WellFormed
  BY DEF SessionsTyped, TypeOK, WellFormed, TableWell, CallerWell, JobWell
<1>2. WellFormed => SessionsTyped
  <2> SUFFICES ASSUME WellFormed PROVE SessionsTyped
    OBVIOUS
  <2>1. \A c \in Callers : caller[c].pc \in CallerPcs
    BY DEF WellFormed, CallerState, CallerPcs
  <2>2. \A j \in Jobs : job[j].pc \in JobPcs
    BY DEF WellFormed, JobState, JobPcs
  <2> QED BY <2>1, <2>2 DEF SessionsTyped, TypeOK, WellFormed, TableWell, CallerWell, JobWell,
                            CallerPcs, JobPcs
<1> QED BY <1>1, <1>2

\* The initial values.
LEMMA IdleTyped ==
    /\ IdleCaller \in CallerState /\ IdleJob \in JobState /\ NoSession \in Row
    /\ \A n \in Nat : CallerWell(IdleCaller, n) /\ JobWell(IdleJob, n)
    /\ IdleCaller.pc = "idle" /\ IdleJob.pc = "idle"
<1>1. IdleCaller \in CallerState
  BY BoundsAreNumbers DEF IdleCaller, CallerState
<1>2. IdleJob \in JobState
  BY BoundsAreNumbers DEF IdleJob, JobState
<1>3. NoSession \in Row
  BY BoundsAreNumbers DEF NoSession, Row, Statuses
<1>4. \A n \in Nat : CallerWell(IdleCaller, n) /\ JobWell(IdleJob, n)
  BY DEF IdleCaller, IdleJob, CallerWell, JobWell
<1> QED BY <1>1, <1>2, <1>3, <1>4 DEF IdleCaller, IdleJob

\* What is well formed stays so when another session is created.
LEMMA WellGrows ==
    ASSUME NEW n \in Nat, NEW m \in Nat, n <= m, NEW x \in JobState, NEW w \in CallerState
    PROVE  (JobWell(x, n) => JobWell(x, m)) /\ (CallerWell(w, n) => CallerWell(w, m))
<1>1. \A i \in 1 .. n : i \in 1 .. m
  OBVIOUS
<1>2. \A i \in 0 .. n : i \in 0 .. m
  OBVIOUS
<1> QED BY <1>1, <1>2 DEF JobWell, CallerWell

\* A request goes on, or a run of the cron does.
LEMMA CallerMoves ==
    ASSUME WellFormed, NEW c \in Callers, NEW w \in CallerState, CallerWell(w, created),
           caller' = [caller EXCEPT ![c] = w]
    PROVE  /\ caller' \in [Callers -> CallerState]
           /\ caller'[c] = w /\ \A d \in Callers \ {c} : caller'[d] = caller[d]
           /\ \A d \in Callers : CallerWell(caller'[d], created)
<1>1. caller \in [Callers -> CallerState] /\ \A d \in Callers : CallerWell(caller[d], created)
  BY DEF WellFormed
<1>2. caller'[c] = w /\ \A d \in Callers \ {c} : caller'[d] = caller[d]
  BY <1>1
<1>3. caller' \in [Callers -> CallerState]
  BY <1>1
<1> QED BY <1>1, <1>2, <1>3

LEMMA JobMoves ==
    ASSUME WellFormed, NEW j \in Jobs, NEW x \in JobState, JobWell(x, created),
           job' = [job EXCEPT ![j] = x]
    PROVE  /\ job' \in [Jobs -> JobState]
           /\ job'[j] = x /\ \A k \in Jobs \ {j} : job'[k] = job[k]
           /\ \A k \in Jobs : JobWell(job'[k], created)
<1>1. job \in [Jobs -> JobState] /\ \A k \in Jobs : JobWell(job[k], created)
  BY DEF WellFormed
<1>2. job'[j] = x /\ \A k \in Jobs \ {j} : job'[k] = job[k]
  BY <1>1
<1>3. job' \in [Jobs -> JobState]
  BY <1>1
<1> QED BY <1>1, <1>2, <1>3

\* The fields of a run after its program counter has moved.
LEMMA PcMoves ==
    ASSUME NEW x \in JobState, NEW pc \in JobPcs
    PROVE  /\ [x EXCEPT !.pc = pc] \in JobState
           /\ [x EXCEPT !.pc = pc].pc = pc /\ [x EXCEPT !.pc = pc].todo = x.todo
           /\ [x EXCEPT !.pc = pc].id = x.id
  BY DEF JobState, JobPcs

LEMMA CallerPcMoves ==
    ASSUME NEW w \in CallerState, NEW pc \in CallerPcs, NEW d \in {0} \cup Durations
    PROVE  /\ [w EXCEPT !.pc = pc] \in CallerState /\ [w EXCEPT !.pc = pc].pc = pc
           /\ [w EXCEPT !.pc = pc, !.dur = d] \in CallerState
           /\ [w EXCEPT !.pc = pc, !.dur = d].pc = pc
  BY DEF CallerState, CallerPcs

\* The columns of a row are numbers.
LEMMA GrantsAreNumbers == \A d \in {0} \cup Durations : d \in Nat
  BY BoundsAreNumbers

LEMMA RowNumbers ==
    ASSUME NEW r \in Row
    PROVE  r.dur \in Nat /\ r.ext \in Nat /\ r.ref \in Nat /\ r.started \in Nat /\ r.rem \in Nat
<1>1. /\ r.dur \in {0} \cup Durations /\ r.ext \in 0 .. MaxExtension /\ r.ref \in 0 .. MaxTime
      /\ r.started \in 0 .. MaxTime /\ r.rem \in Nat
  BY DEF Row
<1>2. r.dur \in Nat
  BY <1>1, GrantsAreNumbers, Zenon
<1> QED BY <1>1, <1>2, BoundsAreNumbers

\* The minutes left are never negative, and none are left only when at least
\* the minutes granted have passed since the reference point.
LEMMA RemainingBounds ==
    ASSUME NEW r \in Row, now \in 0 .. MaxTime
    PROVE  Remaining(r) \in Nat /\ (Remaining(r) <= 0 => now - r.ref >= r.dur)
<1>1. r.dur \in Nat /\ r.ext \in Nat /\ r.ref \in Nat /\ now \in Nat
  BY RowNumbers, BoundsAreNumbers
<1> QED BY <1>1 DEF Remaining, AtLeastZero, Elapsed

\* The columns a request computes are in range.
LEMMA ComputedTyped ==
    ASSUME NEW r \in Row, NEW op \in Ops, NEW x \in Extras, now \in 0 .. MaxTime,
           op = "extend" => r.ext + x <= MaxExtension
    PROVE  /\ Computed(op, r, x).rem \in Nat /\ Computed(op, r, x).ext \in 0 .. MaxExtension
           /\ Computed(op, r, x).ref \in 0 .. MaxTime
<1>1. r.rem \in Nat /\ r.ext \in Nat /\ x \in Nat /\ Remaining(r) \in Nat
  BY RemainingBounds, BoundsAreNumbers DEF Row
<1>2. CASE op = "pause"
  BY <1>1, <1>2, BoundsAreNumbers DEF Computed
<1>3. CASE op = "resume"
  BY <1>1, <1>3, BoundsAreNumbers DEF Computed
<1>4. CASE op = "extend"
  BY <1>1, <1>4, BoundsAreNumbers DEF Computed
<1>5. CASE op = "stop"
  BY <1>1, <1>5, BoundsAreNumbers DEF Computed
<1> QED BY <1>2, <1>3, <1>4, <1>5 DEF Ops

\* What a request's update makes of a row: a session runs afterwards only if it
\* is resumed, or ran before; updates never expire a session.
LEMMA UpdatedRow ==
    ASSUME NEW r \in Row, NEW w \in CallerState, w.op \in Ops
    PROVE  LET u == Updated(r, w)
           IN /\ u \in Row /\ u.dur = r.dur /\ u.started = r.started
              /\ r.status # "NONE" => u.status # "NONE"
              /\ u.status = "ACTIVE" => \/ w.op = "resume" /\ u.ref = w.ref
                                        \/ r.status = "ACTIVE" /\ u.ref = r.ref
              /\ u.status = "EXPIRED" => r.status = "EXPIRED"
<1>1. w.rem \in Nat /\ w.ext \in 0 .. MaxExtension /\ w.ref \in 0 .. MaxTime
  BY DEF CallerState
<1>2. CASE w.op = "pause"
  BY <1>1, <1>2 DEF Updated, Row, Statuses
<1>3. CASE w.op = "resume"
  BY <1>1, <1>3 DEF Updated, Row, Statuses
<1>4. CASE w.op = "extend"
  BY <1>1, <1>4 DEF Updated, Row, Statuses
<1>5. CASE w.op = "stop"
  BY <1>1, <1>5 DEF Updated, Row, Statuses
<1> QED BY <1>2, <1>3, <1>4, <1>5 DEF Ops

\* A session that is permitted to be changed exists.
LEMMA PermittedExists ==
    ASSUME TableWell, NEW op \in Ops, NEW s \in Ids, Permitted(op, session[s])
    PROVE  s \in 1 .. created
<1>1. session[s].status # "NONE"
  BY DEF Permitted, Ops
<1> QED BY <1>1, BoundsAreNumbers DEF TableWell, Ids

----------------------------------------------------------------------------
(* The three writes to the session table *)

\* One existing row is replaced by another row of a session that exists.
LEMMA RowReplaced ==
    ASSUME TableWell, NEW i \in 1 .. created, NEW u \in Row, u.status # "NONE",
           session' = [session EXCEPT ![i] = u], created' = created
    PROVE  /\ TableWell' /\ i \in Ids
           /\ session'[i] = u /\ \A s \in Ids \ {i} : session'[s] = session[s]
<1>1. i \in Ids /\ session \in [Ids -> Row] /\ created \in Nat /\ created <= MaxSessions
  BY BoundsAreNumbers DEF TableWell, Ids
<1>2. session'[i] = u /\ \A s \in Ids \ {i} : session'[s] = session[s]
  BY <1>1
<1>3. session' \in [Ids -> Row]
  BY <1>1
<1>4. \A s \in Ids : (session'[s].status = "NONE") <=> (s > created)
  <2> SUFFICES ASSUME NEW s \in Ids PROVE (session'[s].status = "NONE") <=> (s > created)
    OBVIOUS
  <2>1. CASE s = i
    BY <1>1, <1>2, <2>1
  <2>2. CASE s # i
    BY <1>2, <2>2 DEF TableWell
  <2> QED BY <2>1, <2>2
<1> QED BY <1>1, <1>2, <1>3, <1>4 DEF TableWell

LEMMA Created ==
    ASSUME WellFormed, NEW c \in Callers, StartCreate(c)
    PROVE  /\ created + 1 \in Ids /\ created' = created + 1 /\ TableWell'
           /\ session'[created + 1].status = "ACTIVE"
           /\ session'[created + 1].started = now /\ session'[created + 1].ref = now
           /\ \A s \in Ids \ {created + 1} : session'[s] = session[s]
<1> DEFINE new == [status |-> "ACTIVE", dur |-> caller[c].dur, ext |-> 0,
                   rem |-> caller[c].dur, started |-> now, ref |-> now]
<1>1. /\ session \in [Ids -> Row] /\ created \in Nat /\ now \in 0 .. MaxTime
      /\ \A s \in Ids : (session[s].status = "NONE") <=> (s > created)
  BY BoundsAreNumbers DEF WellFormed, TableWell
<1>2. created < MaxSessions /\ created' = created + 1 /\ session' = [session EXCEPT ![created + 1] = new]
  BY DEF StartCreate
<1>3. created + 1 \in Ids /\ created' \in 0 .. MaxSessions
  BY <1>1, <1>2, BoundsAreNumbers DEF Ids
<1>4. new \in Row
  <2>1. caller[c].dur \in {0} \cup Durations
    BY DEF WellFormed, CallerState
  <2>2. caller[c].dur \in Nat
    BY <2>1, GrantsAreNumbers, Zenon
  <2> QED BY <2>2, <1>1, <2>1, BoundsAreNumbers DEF Row, Statuses
<1>5. new.status = "ACTIVE" /\ new.started = now /\ new.ref = now
  OBVIOUS
<1> HIDE DEF new
<1>6. session' \in [Ids -> Row] /\ session'[created + 1] = new
      /\ \A s \in Ids \ {created + 1} : session'[s] = session[s]
  BY <1>1, <1>2, <1>3, <1>4
<1>7. \A s \in Ids : (session'[s].status = "NONE") <=> (s > created')
  <2> SUFFICES ASSUME NEW s \in Ids PROVE (session'[s].status = "NONE") <=> (s > created')
    OBVIOUS
  <2>0. s \in Nat
    BY BoundsAreNumbers DEF Ids
  <2>1. CASE s = created + 1
    BY <1>1, <1>2, <1>5, <1>6, <2>1
  <2>2. CASE s # created + 1
    <3>1. s > created <=> s > created'
      BY <1>1, <1>2, <2>0, <2>2
    <3> QED BY <1>1, <1>6, <2>2, <3>1
  <2> QED BY <2>1, <2>2
<1> QED BY <1>2, <1>3, <1>5, <1>6, <1>7 DEF TableWell

LEMMA Written ==
    ASSUME WellFormed, NEW c \in Callers, OpWrite(c)
    PROVE  /\ TableWell' /\ created' = created /\ caller[c].id \in Ids
           /\ session'[caller[c].id] = Updated(session[caller[c].id], caller[c])
           /\ \A s \in Ids \ {caller[c].id} : session'[s] = session[s]
<1> DEFINE i == caller[c].id
           u == Updated(session[i], caller[c])
<1>1. TableWell /\ caller[c] \in CallerState /\ caller[c].op \in Ops /\ i \in 1 .. created
  BY DEF WellFormed, CallerWell, OpWrite
<1>2. i \in Ids /\ session[i] \in Row /\ session[i].status # "NONE"
  BY <1>1, BoundsAreNumbers DEF TableWell, Ids
<1>3. u \in Row /\ u.status # "NONE"
  BY <1>1, <1>2, UpdatedRow
<1>4. session' = [session EXCEPT ![i] = u] /\ created' = created
  BY <1>1, <1>2 DEF OpWrite, TableWell
<1> HIDE DEF i, u
<1>5. TableWell' /\ session'[i] = u /\ \A s \in Ids \ {i} : session'[s] = session[s]
  BY <1>1, <1>3, <1>4, RowReplaced
<1> QED BY <1>2, <1>4, <1>5 DEF i, u

LEMMA Expired ==
    ASSUME WellFormed, NEW j \in Jobs, JobExpire(j)
    PROVE  /\ TableWell' /\ created' = created /\ job[j].id \in Ids
           /\ session'[job[j].id].status = "EXPIRED"
           /\ session'[job[j].id].dur = session[job[j].id].dur
           /\ session'[job[j].id].started = session[job[j].id].started
           /\ \A s \in Ids \ {job[j].id} : session'[s] = session[s]
<1> DEFINE i == job[j].id
           u == [session[i] EXCEPT !.status = "EXPIRED", !.rem = 0]
<1>1. TableWell /\ i \in 1 .. created
  BY DEF WellFormed, JobWell, JobExpire
<1>2. i \in Ids /\ session[i] \in Row
  BY <1>1, BoundsAreNumbers DEF TableWell, Ids
<1>3. /\ u \in Row /\ u.status = "EXPIRED" /\ u.dur = session[i].dur
      /\ u.started = session[i].started
  BY <1>2 DEF Row, Statuses
<1>4. session' = [session EXCEPT ![i] = u] /\ created' = created
  BY <1>1, <1>2 DEF JobExpire, TableWell
<1> HIDE DEF i, u
<1>5. TableWell' /\ session'[i] = u /\ \A s \in Ids \ {i} : session'[s] = session[s]
  BY <1>1, <1>3, <1>4, RowReplaced
<1> QED BY <1>2, <1>3, <1>4, <1>5 DEF i

----------------------------------------------------------------------------
(* The steps of requests and of runs *)

\* A step of a request that writes nothing.
Asks(c) ==
    \/ \E d \in Durations : StartCheck(c, d)
    \/ \E op \in Ops, s \in Ids, x \in Extras : OpRead(c, op, s, x)
    \/ StartLimit(c) \/ CallerFails(c)

LEMMA AskMoves ==
    ASSUME WellFormed, NEW c \in Callers, Asks(c)
    PROVE  /\ UNCHANGED <<table, now, job, used, late, aged>>
           /\ \E w \in CallerState : /\ CallerWell(w, created) /\ caller' = [caller EXCEPT ![c] = w]
<1> DEFINE Good(w) == /\ w \in CallerState /\ CallerWell(w, created)
                      /\ caller' = [caller EXCEPT ![c] = w]
<1>0. TableWell /\ created \in Nat /\ now \in 0 .. MaxTime /\ caller \in [Callers -> CallerState]
  BY BoundsAreNumbers DEF WellFormed, TableWell
<1>1. UNCHANGED <<table, now, job, used, late, aged>>
  BY DEF Asks, StartCheck, OpRead, StartLimit, CallerFails
<1>i. Good(IdleCaller) \/ caller' # [caller EXCEPT ![c] = IdleCaller]
  BY <1>0, IdleTyped
<1>2. ASSUME NEW d \in Durations, StartCheck(c, d) PROVE \E w : Good(w)
  <2> DEFINE w == [IdleCaller EXCEPT !.pc = "limit", !.dur = d]
  <2>1. w \in CallerState /\ w.pc = "limit"
    <3>1. IdleCaller \in CallerState /\ "limit" \in CallerPcs /\ d \in {0} \cup Durations
      BY IdleTyped DEF CallerPcs
    <3> QED BY <3>1, CallerPcMoves
  <2>2. caller' = [caller EXCEPT ![c] = w]
    BY <1>2 DEF StartCheck
  <2> HIDE DEF w
  <2> QED BY <2>1, <2>2 DEF CallerWell
<1>3. ASSUME NEW op \in Ops, NEW s \in Ids, NEW x \in Extras, OpRead(c, op, s, x)
      PROVE  \E w : Good(w)
  <2> DEFINE new == Computed(op, session[s], x)
             w == [pc |-> "write", op |-> op, id |-> s, dur |-> 0,
                   ext |-> new.ext, rem |-> new.rem, ref |-> new.ref]
  <2>1. session[s] \in Row /\ (op = "extend" => session[s].ext + x <= MaxExtension)
    BY <1>0, <1>3 DEF TableWell, OpRead
  <2>2. /\ new.rem \in Nat /\ new.ext \in 0 .. MaxExtension /\ new.ref \in 0 .. MaxTime
    BY <1>0, <2>1, ComputedTyped
  <2>3. s \in 1 .. created
    BY <1>0, <1>3, PermittedExists DEF OpRead
  <2>4. caller' = [caller EXCEPT ![c] = w]
    BY <1>3 DEF OpRead
  <2> HIDE DEF new
  <2>5. w \in CallerState
    BY <2>2, BoundsAreNumbers DEF CallerState, Ids
  <2>6. w.pc = "write" /\ w.op = op /\ w.id = s /\ w.ref = new.ref
    OBVIOUS
  <2> HIDE DEF w
  <2> QED BY <2>2, <2>3, <2>4, <2>5, <2>6 DEF CallerWell
<1>4. ASSUME StartLimit(c) PROVE \E w : Good(w)
  <2>1. CASE caller' = [caller EXCEPT ![c] = IdleCaller]
    BY <1>i, <2>1
  <2>2. CASE caller' = [caller EXCEPT ![c].pc = "create"]
    <3> DEFINE w == [caller[c] EXCEPT !.pc = "create"]
    <3>1. w \in CallerState /\ w.pc = "create"
      BY <1>0, CallerPcMoves DEF CallerPcs
    <3>2. caller' = [caller EXCEPT ![c] = w]
      BY <1>0, <2>2
    <3> HIDE DEF w
    <3> QED BY <3>1, <3>2 DEF CallerWell
  <2> QED BY <1>4, <2>1, <2>2 DEF StartLimit
<1>5. ASSUME CallerFails(c) PROVE \E w : Good(w)
  BY <1>i, <1>5 DEF CallerFails
<1>6. \E w : Good(w)
  BY <1>2, <1>3, <1>4, <1>5 DEF Asks
<1> QED BY <1>1, <1>6

\* What a run has read is fresh, but for the sessions in out.
Fresh(x, tbl, use, t, out) ==
    x.pc # "idle" =>
        /\ \A item \in x.todo : item.id \notin out =>
              item.row.dur = tbl[item.id].dur /\ use[item.id] >= t - item.row.ref
        /\ x.pc = "expire" /\ x.id \notin out => use[x.id] >= tbl[x.id].dur

LEMMA FreshSnapshots == SnapshotIsFresh <=> \A j \in Jobs : Fresh(job[j], session, used, now, aged \cup late)
  BY DEF SnapshotIsFresh, Fresh

\* Every step of a run moves it on, and what it has read stays fresh: the rows
\* of its snapshot have been used since their reference points, and a row is
\* to be expired only when its minutes have passed since then.
LEMMA RunMoves ==
    ASSUME WellFormed, NEW j \in Jobs, JobStep(j) \/ JobFails(j)
    PROVE  /\ UNCHANGED <<created, now, caller, used, late, aged>> /\ (~JobExpire(j) => session' = session)
           /\ \E x \in JobState :
                 /\ JobWell(x, created) /\ job' = [job EXCEPT ![j] = x]
                 /\ ActiveIsUsed /\ Fresh(job[j], session, used, now, aged \cup late)
                       => Fresh(x, session, used, now, aged \cup late)
<1> DEFINE Good(x) == /\ x \in JobState /\ JobWell(x, created) /\ job' = [job EXCEPT ![j] = x]
                      /\ ActiveIsUsed /\ Fresh(job[j], session, used, now, aged \cup late)
                            => Fresh(x, session, used, now, aged \cup late)
<1>0. /\ TableWell /\ created \in Nat /\ now \in 0 .. MaxTime /\ job \in [Jobs -> JobState]
      /\ job[j] \in JobState /\ JobWell(job[j], created) /\ used \in [Ids -> Nat]
  BY BoundsAreNumbers DEF WellFormed, TableWell
<1>1. UNCHANGED <<created, now, caller, used, late, aged>> /\ (~JobExpire(j) => session' = session)
  BY DEF JobStep, JobScan, JobNext, JobEnd, JobExpire, JobEnforce, JobCategory, JobFails, table
<1>p. ASSUME NEW pc \in JobPcs, job' = [job EXCEPT ![j].pc = pc], job[j].pc # "idle", pc # "expire",
             pc \in {"enforce", "category"} => job[j].id \in 1 .. created
      PROVE  \E x : Good(x)
  <2> DEFINE x == [job[j] EXCEPT !.pc = pc]
  <2>1. x \in JobState /\ x.pc = pc /\ x.todo = job[j].todo /\ x.id = job[j].id
    BY <1>0, <1>p, PcMoves
  <2>2. job' = [job EXCEPT ![j] = x]
    BY <1>0, <1>p
  <2> HIDE DEF x
  <2>3. JobWell(x, created)
    BY <1>0, <1>p, <2>1 DEF JobWell
  <2>4. Fresh(job[j], session, used, now, aged \cup late) => Fresh(x, session, used, now, aged \cup late)
    BY <1>p, <2>1 DEF Fresh
  <2> QED BY <2>1, <2>2, <2>3, <2>4
<1>2. ASSUME JobScan(j) PROVE \E x : Good(x)
  <2> DEFINE items == {[id |-> s, row |-> session[s]] : s \in Active}
             x == [pc |-> "loop", todo |-> items, id |-> 0]
  <2>1. \A s \in Active : s \in Ids /\ s \in 1 .. created /\ session[s] \in Row
    BY <1>0, BoundsAreNumbers DEF Active, TableWell, Ids
  <2>2. items \in SUBSET [id : Ids, row : Row]
    BY <2>1
  <2>3. \A item \in items : item.id \in Active /\ item.row = session[item.id]
    OBVIOUS
  <2>4. job' = [job EXCEPT ![j] = x]
    BY <1>2 DEF JobScan
  <2> HIDE DEF items
  <2>5. x \in JobState
    BY <2>2, BoundsAreNumbers DEF JobState
  <2>6. x.pc = "loop" /\ x.todo = items /\ x.id = 0
    OBVIOUS
  <2> HIDE DEF x
  <2>7. JobWell(x, created)
    BY <1>0, <2>1, <2>3, <2>6 DEF JobWell
  <2>8. ActiveIsUsed => Fresh(x, session, used, now, aged \cup late)
    BY <2>3, <2>6 DEF ActiveIsUsed, Fresh
  <2> QED BY <2>4, <2>5, <2>7, <2>8
<1>3. ASSUME JobNext(j) PROVE \E x : Good(x)
  <2>1. PICK item \in job[j].todo :
           job' = [job EXCEPT ![j] = [pc |-> IF Remaining(item.row) <= 0 THEN "expire" ELSE "loop",
                                      todo |-> job[j].todo \ {item}, id |-> item.id]]
    BY <1>0, <1>3 DEF JobNext
  <2> DEFINE x == [pc |-> IF Remaining(item.row) <= 0 THEN "expire" ELSE "loop",
                   todo |-> job[j].todo \ {item}, id |-> item.id]
  <2>2. job[j].todo \subseteq [id : Ids, row : Row]
    BY <1>0 DEF JobState
  <2>3. item.id \in Ids /\ item.row \in Row /\ item.id \in 1 .. created
    BY <1>0, <2>2 DEF JobWell
  <2>4. x \in JobState
    BY <2>2, <2>3, BoundsAreNumbers DEF JobState, Ids
  <2>5. /\ x.pc = (IF Remaining(item.row) <= 0 THEN "expire" ELSE "loop")
        /\ x.todo = job[j].todo \ {item} /\ x.id = item.id
    OBVIOUS
  <2>6. job' = [job EXCEPT ![j] = x]
    BY <2>1
  <2> HIDE DEF x
  <2>7. JobWell(x, created)
    BY <1>0, <2>3, <2>5 DEF JobWell
  <2>8. ASSUME Fresh(job[j], session, used, now, aged \cup late)
        PROVE  Fresh(x, session, used, now, aged \cup late)
    <3>0. job[j].pc = "loop"
      BY <1>3 DEF JobNext
    <3>1. \A other \in job[j].todo : other.id \notin aged \cup late =>
             other.row.dur = session[other.id].dur /\ used[other.id] >= now - other.row.ref
      BY <2>8, <3>0 DEF Fresh
    <3>2. x.pc = "expire" => Remaining(item.row) <= 0
      BY <2>5
    <3>3. Remaining(item.row) <= 0 => now - item.row.ref >= item.row.dur
      BY <1>0, <2>3, RemainingBounds
    <3>4. item.row.dur \in Nat /\ item.row.ref \in Nat /\ now \in Nat /\ used[item.id] \in Nat
      BY <1>0, <2>3, RowNumbers, BoundsAreNumbers
    <3>5. x.pc = "expire" /\ x.id \notin aged \cup late => used[x.id] >= session[x.id].dur
      BY <2>5, <3>1, <3>2, <3>3, <3>4
    <3> QED BY <2>5, <3>1, <3>5 DEF Fresh
  <2> QED BY <2>4, <2>6, <2>7, <2>8
<1>4. ASSUME JobEnd(j) PROVE \E x : Good(x)
  BY <1>0, <1>4, IdleTyped DEF JobEnd, Fresh
<1>5. ASSUME JobExpire(j) PROVE \E x : Good(x)
  BY <1>0, <1>5, <1>p DEF JobExpire, JobWell, JobPcs
<1>6. ASSUME JobEnforce(j) PROVE \E x : Good(x)
  BY <1>0, <1>6, <1>p DEF JobEnforce, JobWell, JobPcs
<1>7. ASSUME JobCategory(j) PROVE \E x : Good(x)
  BY <1>7, <1>p DEF JobCategory, JobPcs
<1>8. ASSUME JobFails(j) PROVE \E x : Good(x)
  BY <1>8, <1>p DEF JobFails, JobPcs
<1>9. \E x : Good(x)
  BY <1>2, <1>3, <1>4, <1>5, <1>6, <1>7, <1>8 DEF JobStep
<1> QED BY <1>1, <1>9

----------------------------------------------------------------------------
(* Every step keeps the invariant *)

WellInv == WellFormed /\ UseIsTime /\ ActiveIsUsed /\ SnapshotIsFresh

LEMMA InvParts == SessionsInv <=> WellInv
  BY TypedIsWellFormed DEF SessionsInv, WellInv

LEMMA InvPartsNext == SessionsInv' <=> WellInv'
  BY InvParts, PTL

\* What every step may rely on.
LEMMA InvFacts ==
    ASSUME SessionsInv
    PROVE  /\ WellFormed /\ TableWell /\ UseIsTime
           /\ session \in [Ids -> Row] /\ created \in Nat /\ now \in Nat /\ used \in [Ids -> Nat]
           /\ \A s \in Ids : /\ s \in Nat /\ (session[s].status = "NONE" <=> s > created)
                             /\ session[s].started \in Nat /\ session[s].ref \in Nat
                             /\ session[s].dur \in Nat
<1>1. WellFormed /\ TableWell /\ UseIsTime
  BY InvParts DEF WellInv, WellFormed
<1>2. session \in [Ids -> Row] /\ created \in Nat /\ now \in Nat /\ used \in [Ids -> Nat]
  BY <1>1, BoundsAreNumbers DEF WellFormed, TableWell
<1>3. \A s \in Ids : s \in Nat
  BY BoundsAreNumbers DEF Ids
<1>4. \A s \in Ids : session[s].started \in Nat /\ session[s].ref \in Nat /\ session[s].dur \in Nat
  BY <1>2, RowNumbers
<1> QED BY <1>1, <1>2, <1>3, <1>4 DEF TableWell

\* Runs stay fresh while neither the clock, the use nor a granted duration moves.
LEMMA FreshKept ==
    ASSUME NEW x \in JobState, NEW n \in Nat, JobWell(x, n), NEW use, NEW t, NEW out,
           NEW old, NEW new, \A s \in 1 .. n : new[s].dur = old[s].dur, Fresh(x, old, use, t, out)
    PROVE  Fresh(x, new, use, t, out)
  BY DEF Fresh, JobWell

LEMMA AskKeeps ==
    ASSUME SessionsInv, NEW c \in Callers, Asks(c) PROVE SessionsInv'
<1>0. WellFormed /\ UseIsTime
  BY InvFacts
<1>1. UNCHANGED <<session, created, now, job, used, late, aged>>
  BY <1>0, AskMoves DEF table
<1>2. PICK w \in CallerState : /\ CallerWell(w, created) /\ caller' = [caller EXCEPT ![c] = w]
  BY <1>0, AskMoves
<1>3. /\ caller' \in [Callers -> CallerState]
      /\ caller'[c] = w /\ \A d \in Callers \ {c} : caller'[d] = caller[d]
      /\ \A d \in Callers : CallerWell(caller'[d], created)
  BY <1>0, <1>2, CallerMoves
<1>4. WellFormed'
  BY <1>0, <1>1, <1>3 DEF WellFormed, TableWell
<1>5. UseIsTime' /\ (ActiveIsUsed => ActiveIsUsed') /\ (SnapshotIsFresh => SnapshotIsFresh')
  BY <1>0, <1>1 DEF UseIsTime, ActiveIsUsed, Active, SnapshotIsFresh
<1> QED BY <1>4, <1>5, InvParts, InvPartsNext DEF WellInv

LEMMA RunKeeps ==
    ASSUME SessionsInv, NEW j \in Jobs, JobStep(j) \/ JobFails(j) PROVE SessionsInv'
<1>0. WellFormed /\ UseIsTime /\ TableWell /\ session \in [Ids -> Row] /\ created \in Nat
  BY InvFacts
<1>1. UNCHANGED <<created, now, caller, used, late, aged>>
  BY <1>0, RunMoves
<1>2. PICK x \in JobState :
        /\ JobWell(x, created) /\ job' = [job EXCEPT ![j] = x]
        /\ ActiveIsUsed /\ Fresh(job[j], session, used, now, aged \cup late) => Fresh(x, session, used, now, aged \cup late)
  BY <1>0, RunMoves
<1>3. /\ job' \in [Jobs -> JobState]
      /\ job'[j] = x /\ \A k \in Jobs \ {j} : job'[k] = job[k]
      /\ \A k \in Jobs : JobWell(job'[k], created)
  BY <1>0, <1>2, JobMoves
<1>4. /\ TableWell'
      /\ \A s \in Ids : /\ session'[s].dur = session[s].dur /\ session'[s].started = session[s].started
                        /\ session'[s].status = "ACTIVE" => session'[s] = session[s]
  <2>1. CASE JobExpire(j)
    BY <1>0, <2>1, Expired
  <2>2. CASE ~JobExpire(j)
    <3>1. session' = session
      BY <1>0, <2>2, RunMoves
    <3> QED BY <1>0, <1>1, <3>1 DEF TableWell
  <2> QED BY <2>1, <2>2
<1>5. WellFormed'
  BY <1>0, <1>1, <1>3, <1>4 DEF WellFormed
<1>6. UseIsTime'
  BY <1>0, <1>1, <1>4 DEF UseIsTime
<1>7. ActiveIsUsed => ActiveIsUsed'
  BY <1>1, <1>4 DEF ActiveIsUsed, Active
<1>8. ASSUME ActiveIsUsed, SnapshotIsFresh PROVE SnapshotIsFresh'
  <2>1. \A k \in Jobs : Fresh(job'[k], session, used, now, aged \cup late)
    BY <1>2, <1>3, <1>8, FreshSnapshots
  <2>2. \A s \in 1 .. created : session'[s].dur = session[s].dur
    BY <1>0, <1>4, BoundsAreNumbers DEF TableWell, Ids
  <2>3. \A k \in Jobs : Fresh(job'[k], session', used, now, aged \cup late)
    BY <1>0, <1>3, <2>1, <2>2, FreshKept
  <2> QED BY <1>1, <2>3 DEF SnapshotIsFresh, Fresh
<1> QED BY <1>5, <1>6, <1>7, <1>8, InvParts, InvPartsNext DEF WellInv

LEMMA CreateKeeps ==
    ASSUME SessionsInv, NEW c \in Callers, StartCreate(c) PROVE SessionsInv'
<1>0. /\ WellFormed /\ UseIsTime /\ TableWell /\ created \in Nat /\ now \in Nat
      /\ used \in [Ids -> Nat] /\ \A s \in Ids : s \in Nat
  BY InvFacts
<1>1. UNCHANGED <<now, job, used, late, aged>> /\ caller' = [caller EXCEPT ![c] = IdleCaller]
  BY DEF StartCreate
<1>2. /\ created + 1 \in Ids /\ created' = created + 1 /\ TableWell'
      /\ session'[created + 1].status = "ACTIVE"
      /\ session'[created + 1].started = now /\ session'[created + 1].ref = now
      /\ \A s \in Ids \ {created + 1} : session'[s] = session[s]
  BY <1>0, Created
<1>3. /\ caller' \in [Callers -> CallerState]
      /\ caller'[c] = IdleCaller /\ \A d \in Callers \ {c} : caller'[d] = caller[d]
      /\ \A d \in Callers : CallerWell(caller'[d], created)
  BY <1>0, <1>1, IdleTyped, CallerMoves
<1>4. WellFormed'
  <2>1. \A d \in Callers : CallerWell(caller'[d], created')
    BY <1>0, <1>2, <1>3, IdleTyped, WellGrows
  <2>2. \A k \in Jobs : JobWell(job[k], created')
    BY <1>0, <1>2, IdleTyped, WellGrows DEF WellFormed
  <2> QED BY <1>0, <1>1, <1>2, <1>3, <2>1, <2>2 DEF WellFormed
<1>5. used[created + 1] = 0
  BY <1>0, <1>2 DEF UseIsTime
<1>6. UseIsTime'
  <2> SUFFICES ASSUME NEW s \in Ids
               PROVE  IF s <= created' THEN used'[s] <= now' - session'[s].started ELSE used'[s] = 0
    BY DEF UseIsTime
  <2>1. CASE s = created + 1
    BY <1>0, <1>1, <1>2, <1>5, <2>1
  <2>2. CASE s # created + 1
    <3>1. s <= created' <=> s <= created
      BY <1>0, <1>2, <2>2
    <3> QED BY <1>0, <1>1, <1>2, <2>2, <3>1 DEF UseIsTime
  <2> QED BY <2>1, <2>2
<1>7. ASSUME ActiveIsUsed PROVE ActiveIsUsed'
  <2> SUFFICES ASSUME NEW s \in Ids, session'[s].status = "ACTIVE", s \notin late'
               PROVE  /\ used'[s] >= now' - session'[s].ref
                      /\ session'[s].ref = session'[s].started
                            => used'[s] = now' - session'[s].started
    BY DEF ActiveIsUsed, Active
  <2>1. CASE s = created + 1
    BY <1>0, <1>1, <1>2, <1>5, <2>1
  <2>2. CASE s # created + 1
    BY <1>1, <1>2, <1>7, <2>2 DEF ActiveIsUsed, Active
  <2> QED BY <2>1, <2>2
<1>8. ASSUME SnapshotIsFresh PROVE SnapshotIsFresh'
  <2>1. \A s \in 1 .. created : session'[s].dur = session[s].dur
    BY <1>0, <1>2, BoundsAreNumbers DEF TableWell, Ids
  <2>2. \A k \in Jobs : Fresh(job[k], session', used, now, aged \cup late)
    BY <1>0, <1>8, <2>1, FreshKept, FreshSnapshots DEF WellFormed
  <2> QED BY <1>1, <2>2 DEF SnapshotIsFresh, Fresh
<1> QED BY <1>4, <1>6, <1>7, <1>8, InvParts, InvPartsNext DEF WellInv

LEMMA WriteKeeps ==
    ASSUME SessionsInv, NEW c \in Callers, OpWrite(c) PROVE SessionsInv'
<1> DEFINE i == caller[c].id
<1>0. /\ WellFormed /\ UseIsTime /\ TableWell /\ created \in Nat /\ now \in Nat
      /\ session \in [Ids -> Row] /\ used \in [Ids -> Nat]
      /\ \A s \in Ids : /\ s \in Nat /\ (session[s].status = "NONE" <=> s > created)
                        /\ session[s].started \in Nat /\ session[s].ref \in Nat
  BY InvFacts
<1>1. /\ UNCHANGED <<created, now, job, used, aged>> /\ caller' = [caller EXCEPT ![c] = IdleCaller]
      /\ late \subseteq late'
      /\ caller[c].op = "resume" /\ caller[c].ref # now => i \in late'
  BY DEF OpWrite
<1>2. /\ TableWell' /\ i \in Ids /\ session'[i] = Updated(session[i], caller[c])
      /\ \A s \in Ids \ {i} : session'[s] = session[s]
  BY <1>0, Written
<1>3. /\ caller[c] \in CallerState /\ caller[c].op \in Ops /\ caller[c].pc = "write"
      /\ i \in 1 .. created
  BY <1>0 DEF WellFormed, CallerWell, OpWrite
<1>4. /\ session'[i].dur = session[i].dur /\ session'[i].started = session[i].started
      /\ session'[i].status = "ACTIVE" =>
            \/ caller[c].op = "resume" /\ session'[i].ref = caller[c].ref
            \/ session[i].status = "ACTIVE" /\ session'[i].ref = session[i].ref
  BY <1>0, <1>2, <1>3, UpdatedRow
<1>5. /\ caller' \in [Callers -> CallerState]
      /\ caller'[c] = IdleCaller /\ \A d \in Callers \ {c} : caller'[d] = caller[d]
      /\ \A d \in Callers : CallerWell(caller'[d], created)
  BY <1>0, <1>1, IdleTyped, CallerMoves
<1> HIDE DEF i
<1>6. WellFormed'
  BY <1>0, <1>1, <1>2, <1>5 DEF WellFormed
<1>7. UseIsTime'
  BY <1>0, <1>1, <1>2, <1>4 DEF UseIsTime
<1>8. ASSUME ActiveIsUsed PROVE ActiveIsUsed'
  <2> SUFFICES ASSUME NEW s \in Ids, session'[s].status = "ACTIVE", s \notin late'
               PROVE  /\ used'[s] >= now' - session'[s].ref
                      /\ session'[s].ref = session'[s].started
                            => used'[s] = now' - session'[s].started
    BY DEF ActiveIsUsed, Active
  <2>1. CASE s = i /\ caller[c].op = "resume" /\ session'[i].ref = caller[c].ref
    <3>1. session'[s].ref = now
      BY <1>1, <2>1
    <3>2. used[s] \in Nat /\ used[s] <= now - session[s].started /\ session[s].started \in Nat
      BY <1>0, <1>2, <1>3, <2>1 DEF UseIsTime
    <3> QED BY <1>0, <1>1, <1>4, <2>1, <3>1, <3>2
  <2>2. CASE s = i /\ session[i].status = "ACTIVE" /\ session'[i].ref = session[i].ref
    BY <1>1, <1>4, <1>8, <2>2 DEF ActiveIsUsed, Active
  <2>3. CASE s # i
    BY <1>1, <1>2, <1>8, <2>3 DEF ActiveIsUsed, Active
  <2> QED BY <1>4, <2>1, <2>2, <2>3
<1>9. ASSUME SnapshotIsFresh PROVE SnapshotIsFresh'
  <2>1. \A s \in 1 .. created : session'[s].dur = session[s].dur
    BY <1>0, <1>2, <1>4, BoundsAreNumbers DEF TableWell, Ids
  <2>2. \A k \in Jobs : Fresh(job[k], session', used, now, aged \cup late)
    BY <1>0, <1>9, <2>1, FreshKept, FreshSnapshots DEF WellFormed
  <2> QED BY <1>1, <2>2 DEF SnapshotIsFresh, Fresh
<1> QED BY <1>6, <1>7, <1>8, <1>9, InvParts, InvPartsNext DEF WellInv

\* A minute passes for the clock and for every running session alike.
LEMMA TickKeeps ==
    ASSUME SessionsInv, Tick PROVE SessionsInv'
<1>0. /\ WellFormed /\ UseIsTime /\ TableWell /\ created \in Nat /\ now \in Nat
      /\ session \in [Ids -> Row] /\ used \in [Ids -> Nat]
      /\ \A s \in Ids : /\ s \in Nat /\ (session[s].status = "NONE" <=> s > created)
                        /\ session[s].started \in Nat /\ session[s].ref \in Nat
  BY InvFacts
<1>1. /\ UNCHANGED <<session, created, job, late>> /\ now < MaxTime /\ now' = now + 1
      /\ caller' = IF now = LastAction THEN [c \in Callers |-> IdleCaller] ELSE caller
      /\ aged \subseteq aged'
      /\ \A j \in Jobs : \A item \in job[j].todo :
            item.id \in Ids /\ session[item.id].status # "ACTIVE" => item.id \in aged'
  BY DEF Tick, table, Active
<1>2. \A s \in Ids : used'[s] = IF session[s].status = "ACTIVE" THEN used[s] + 1 ELSE used[s]
  BY DEF Tick, Active
<1>3. used' \in [Ids -> Nat]
  <2>1. \A s \in Ids : (IF s \in Active THEN used[s] + 1 ELSE used[s]) \in Nat
    BY <1>0
  <2> QED BY <2>1 DEF Tick
<1>4. caller' \in [Callers -> CallerState] /\ \A c \in Callers : CallerWell(caller'[c], created)
  BY <1>0, <1>1, IdleTyped DEF WellFormed
<1>5. WellFormed'
  <2>1. now' \in 0 .. MaxTime
    BY <1>0, <1>1, BoundsAreNumbers
  <2>2. TableWell'
    BY <1>0, <1>1 DEF TableWell
  <2> QED BY <1>0, <1>1, <1>3, <1>4, <2>1, <2>2 DEF WellFormed
<1>6. UseIsTime'
  <2> SUFFICES ASSUME NEW s \in Ids
               PROVE  IF s <= created THEN used'[s] <= now' - session[s].started ELSE used'[s] = 0
    BY <1>1 DEF UseIsTime
  <2>1. /\ used[s] \in Nat /\ session[s].started \in Nat /\ s \in Nat
        /\ IF s <= created THEN used[s] <= now - session[s].started ELSE used[s] = 0
    BY <1>0 DEF UseIsTime
  <2>2. CASE s <= created
    BY <1>0, <1>1, <1>2, <2>1, <2>2
  <2>3. CASE ~(s <= created)
    <3>1. session[s].status = "NONE"
      BY <1>0, <2>1, <2>3
    <3> QED BY <1>2, <2>1, <2>3, <3>1
  <2> QED BY <2>2, <2>3
<1>7. ASSUME ActiveIsUsed PROVE ActiveIsUsed'
  <2> SUFFICES ASSUME NEW s \in Ids, session[s].status = "ACTIVE", s \notin late
               PROVE  /\ used'[s] >= now' - session[s].ref
                      /\ session[s].ref = session[s].started => used'[s] = now' - session[s].started
    BY <1>1 DEF ActiveIsUsed, Active
  <2>1. /\ used[s] >= now - session[s].ref
        /\ session[s].ref = session[s].started => used[s] = now - session[s].started
    BY <1>7 DEF ActiveIsUsed, Active
  <2>2. used'[s] = used[s] + 1
    BY <1>2
  <2>3. used[s] \in Nat /\ session[s].ref \in Nat /\ session[s].started \in Nat
    BY <1>0
  <2> QED BY <1>0, <1>1, <2>1, <2>2, <2>3
<1>8. ASSUME SnapshotIsFresh PROVE SnapshotIsFresh'
  <2> SUFFICES ASSUME NEW j \in Jobs, job[j].pc # "idle"
               PROVE  /\ \A item \in job[j].todo : item.id \notin aged' \cup late =>
                            /\ item.row.dur = session[item.id].dur
                            /\ used'[item.id] >= now' - item.row.ref
                      /\ job[j].pc = "expire" /\ job[j].id \notin aged' \cup late
                            => used'[job[j].id] >= session[job[j].id].dur
    BY <1>1 DEF SnapshotIsFresh
  <2>0. job[j] \in JobState /\ JobWell(job[j], created) /\ created \in 0 .. MaxSessions
    BY <1>0 DEF WellFormed, TableWell
  <2>1. ASSUME NEW item \in job[j].todo, item.id \notin aged' \cup late
        PROVE  item.row.dur = session[item.id].dur /\ used'[item.id] >= now' - item.row.ref
    <3>1. item.id \in Ids /\ item.row \in Row
      BY <2>0 DEF JobState
    <3>2. item.row.ref \in Nat /\ used[item.id] \in Nat
      BY <1>0, <3>1, RowNumbers
    <3>3. item.row.dur = session[item.id].dur /\ used[item.id] >= now - item.row.ref
      BY <1>1, <1>8, <2>1 DEF SnapshotIsFresh
    <3>4. used'[item.id] = used[item.id] + 1
      BY <1>1, <1>2, <2>1, <3>1
    <3> QED BY <1>0, <1>1, <3>2, <3>3, <3>4
  <2>2. ASSUME job[j].pc = "expire", job[j].id \notin aged' \cup late
        PROVE  used'[job[j].id] >= session[job[j].id].dur
    <3>1. job[j].id \in Ids
      BY <2>0, <2>2, BoundsAreNumbers DEF JobWell, Ids
    <3>2. session[job[j].id].dur \in Nat /\ used[job[j].id] \in Nat
      BY <1>0, <3>1, RowNumbers
    <3>3. used[job[j].id] >= session[job[j].id].dur
      BY <1>1, <1>8, <2>2 DEF SnapshotIsFresh
    <3>4. used'[job[j].id] \in {used[job[j].id], used[job[j].id] + 1}
      BY <1>2, <3>1
    <3> QED BY <3>2, <3>3, <3>4
  <2> QED BY <2>1, <2>2
<1> QED BY <1>5, <1>6, <1>7, <1>8, InvParts, InvPartsNext DEF WellInv

LEMMA StepKeeps == SessionsInv /\ [Next]_vars => SessionsInv'
<1> SUFFICES ASSUME SessionsInv, [Next]_vars PROVE SessionsInv'
  OBVIOUS
<1>1. ASSUME NEW c \in Callers, CallerBegins(c) \/ CallerEnds(c) PROVE SessionsInv'
  BY <1>1, AskKeeps, CreateKeeps, WriteKeeps DEF CallerBegins, CallerEnds, Asks
<1>2. ASSUME NEW j \in Jobs, JobStep(j) \/ JobFails(j) PROVE SessionsInv'
  BY <1>2, RunKeeps
<1>3. ASSUME UNCHANGED <<table, now, caller, job, used, late, aged>> PROVE SessionsInv'
  <2>1. WellInv'
    BY <1>3, InvParts
       DEF WellInv, WellFormed, TableWell, UseIsTime, ActiveIsUsed, Active,
           SnapshotIsFresh, table
  <2> QED BY <2>1, InvPartsNext
<1>4. CASE UnblockGaming \/ UnblockDevice \/ UNCHANGED vars
  BY <1>3, <1>4 DEF UnblockGaming, UnblockDevice, vars
<1>5. CASE Tick
  BY <1>5, TickKeeps
<1> QED BY <1>1, <1>2, <1>4, <1>5 DEF Next

----------------------------------------------------------------------------
(* Theorems *)

\* However requests and runs overlap, columns stay in range, no session has been
\* used for longer than it exists, and what the table and the snapshots of the
\* cron say of when a session began to run is never too early, but for sessions
\* resumed late or kept in a snapshot over a minute without running.
THEOREM SessionsInvariance == Spec => []SessionsInv
<1>1. Init => SessionsInv
  <2> SUFFICES ASSUME Init PROVE SessionsInv
    OBVIOUS
  <2>0. session = [s \in Ids |-> NoSession] /\ created = 0 /\ \A s \in Ids : s \in Nat /\ s > 0
    BY BoundsAreNumbers DEF Init, Ids
  <2>1. TableWell
    <3>1. NoSession.status = "NONE"
      BY DEF NoSession
    <3> QED BY <2>0, <3>1, IdleTyped, BoundsAreNumbers DEF TableWell
  <2>2. caller \in [Callers -> CallerState] /\ \A c \in Callers : caller[c] = IdleCaller
    BY IdleTyped DEF Init
  <2>3. job \in [Jobs -> JobState] /\ \A j \in Jobs : job[j] = IdleJob
    BY IdleTyped DEF Init
  <2>4. now = 0 /\ now \in 0 .. MaxTime /\ used \in [Ids -> Nat] /\ \A s \in Ids : used[s] = 0
    BY BoundsAreNumbers DEF Init
  <2>5. WellFormed
    BY <2>0, <2>1, <2>2, <2>3, <2>4, IdleTyped DEF WellFormed
  <2>6. UseIsTime
    BY <2>0, <2>4 DEF UseIsTime
  <2>7. ActiveIsUsed
    BY <2>0 DEF ActiveIsUsed, Active, NoSession
  <2>8. SnapshotIsFresh
    BY <2>3, IdleTyped DEF SnapshotIsFresh
  <2> QED BY <2>5, <2>6, <2>7, <2>8, InvParts DEF WellInv
<1> QED BY <1>1, StepKeeps, PTL DEF Spec

\* Whatever pause, resume, extend, stop and the cron overwrite of each other, the
\* session table stays well formed; remainingMinutes is never negative.
THEOREM SessionsAreTyped == Spec => []TypeOK
<1>1. SessionsInv => TypeOK
  BY DEF SessionsInv, SessionsTyped
<1> QED BY <1>1, SessionsInvariance, PTL

\* calculateRemainingMinutes never takes minutes away that were granted and not
\* used, and is exact until the first resume, whatever requests and cron runs
\* overlap; only a resume stored in a later minute can lose some.
THEOREM RemainingIsUnused == Spec => []RemainingTracksUse
<1>1. SessionsInv => RemainingTracksUse
  <2> SUFFICES ASSUME SessionsInv, NEW s \in Active \ late
               PROVE  LET unused == AtLeastZero(session[s].dur + session[s].ext - used[s])
                      IN IF session[s].ref = session[s].started THEN Remaining(session[s]) = unused
                                                                ELSE Remaining(session[s]) >= unused
    BY DEF RemainingTracksUse
  <2>1. /\ used[s] >= now - session[s].ref
        /\ session[s].ref = session[s].started => used[s] = now - session[s].started
    BY InvParts DEF WellInv, ActiveIsUsed
  <2>2. session[s] \in Row /\ now \in Nat /\ used[s] \in Nat
    BY InvFacts DEF Active
  <2>3. session[s].dur \in Nat /\ session[s].ext \in Nat /\ session[s].ref \in Nat
    BY <2>2, RowNumbers
  <2>4. CASE session[s].ref = session[s].started
    BY <2>1, <2>4 DEF Remaining, Elapsed
  <2>5. CASE session[s].ref # session[s].started
    <3>1. Remaining(session[s]) >= AtLeastZero(session[s].dur + session[s].ext - used[s])
      BY <2>1, <2>2, <2>3 DEF Remaining, Elapsed, AtLeastZero
    <3> QED BY <2>5, <3>1
  <2> QED BY <2>4, <2>5
<1> QED BY <1>1, SessionsInvariance, PTL

\* The cron never ends a running session before the child has had the minutes
\* first granted, however requests and runs overlap, unless its session was
\* resumed late or kept in a snapshot over a minute without running.
THEOREM NeverExpiredEarly == Spec => NoEarlyExpiry
<1>1. ASSUME SessionsInv, [Next]_vars, NEW s \in Ids, session[s].status = "ACTIVE",
             session'[s].status = "EXPIRED"
      PROVE  used[s] >= session[s].dur \/ s \in aged \cup late
  <2>0. /\ WellFormed /\ TableWell /\ session \in [Ids -> Row] /\ SnapshotIsFresh
    BY <1>1, InvFacts, InvParts DEF WellInv
  <2>1. session' # session
    BY <1>1
  <2>2. ASSUME NEW c \in Callers, StartCreate(c) PROVE FALSE
    BY <1>1, <2>0, <2>2, Created
  <2>3. ASSUME NEW c \in Callers, OpWrite(c) PROVE FALSE
    <3>1. caller[c] \in CallerState /\ caller[c].op \in Ops
      BY <2>0, <2>3 DEF WellFormed, CallerWell, OpWrite
    <3>2. /\ caller[c].id \in Ids /\ session'[caller[c].id] = Updated(session[caller[c].id], caller[c])
          /\ \A t \in Ids \ {caller[c].id} : session'[t] = session[t]
      BY <2>0, <2>3, Written
    <3>3. session'[caller[c].id].status = "EXPIRED" => session[caller[c].id].status = "EXPIRED"
      BY <2>0, <3>1, <3>2, UpdatedRow
    <3> QED BY <1>1, <3>2, <3>3
  <2>4. PICK j \in Jobs : JobExpire(j)
    BY <1>1, <2>1, <2>2, <2>3
       DEF Next, vars, table, CallerBegins, CallerEnds, StartCheck, OpRead, StartLimit, CallerFails,
           JobStep, JobScan, JobNext, JobEnd, JobEnforce, JobCategory, JobFails, UnblockGaming,
           UnblockDevice, Tick
  <2>5. s = job[j].id
    BY <1>1, <2>0, <2>4, Expired
  <2> QED BY <2>0, <2>4, <2>5 DEF SnapshotIsFresh, JobExpire
<1>2. SessionsInv /\ [Next]_vars =>
        [\A s \in Ids : session[s].status = "ACTIVE" /\ session'[s].status = "EXPIRED"
                           => used[s] >= session[s].dur \/ s \in aged \cup late]_vars
  BY <1>1
<1> QED BY <1>2, SessionsInvariance, PTL DEF Spec, NoEarlyExpiry
===========================================================================
