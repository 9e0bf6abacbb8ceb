-------------------------- MODULE CommandsProofs --------------------------
(***************************************************************************)
(* Proofs that no command is given out twice, that every command that was  *)
(* marked is accounted for, and that a settled router command stays so, for*)
(* any commands, number of attempts and number of lost messages; and, for  *)
(* the calls that queue them, that a deleted gateway is left clean, that a *)
(* device is driven as its status says and that the rating of a router is  *)
(* what enforcement can do, for any gateways, calls and reports.           *)
(***************************************************************************)
EXTENDS Commands, Routers, TLAPS

\* The initial state satisfies the invariant.
LEMMA InitDelivery == Init => DeliveryInv
<1> SUFFICES ASSUME Init PROVE DeliveryInv OBVIOUS
<1>1. TypeOK
  BY CommandsAssumption DEF Init, TypeOK, IdlePoll, NoJob
<1>2. BatchIsNew /\ WaitingIsNew /\ AckedWasReceived /\ JobsAreAndroid
  BY DEF Init, BatchIsNew, WaitingIsNew, AckedWasReceived, JobsAreAndroid, IdlePoll, NoJob
<1>3. GivenOnce /\ SettledWasReceived
  BY DEF Init, GivenOnce, SettledWasReceived, Settled
<1> QED BY <1>1, <1>2, <1>3 DEF DeliveryInv

\* The polls of the two agents never hold the same command.
LEMMA OwnDisjoint ==
    ASSUME NEW p \in Polls, NEW q \in Polls, p # q
    PROVE  Own(p) \cap Own(q) = {}
  BY OnePollEach DEF Own

\* No step leaves the types.
LEMMA NextTypeOK ==
    ASSUME TypeOK, Next
    PROVE  TypeOK'
<1> USE CommandsAssumption DEF TypeOK, fate
<1>1. ASSUME NEW c \in Cmds, Create(c) \/ AddJob(c) PROVE TypeOK'
  <2>1. job' \in [Cmds -> [state : {"none", "adding", "waiting"}, left : 0 .. MaxAttempts]]
    <3>1. CASE Create(c)
      BY <3>1 DEF Create
    <3>2. CASE AddJob(c)
      BY <3>2 DEF AddJob, NoJob
    <3> QED BY <1>1, <3>1, <3>2
  <2>2. status' \in [Cmds -> {"NONE", "PENDING", "DELIVERED", "ACKNOWLEDGED", "FAILED"}]
    BY <1>1 DEF Create, AddJob
  <2> QED BY <1>1, <2>1, <2>2 DEF Create, AddJob
<1>2. ASSUME NEW c \in Cmds, JobMark(c) PROVE TypeOK'
  BY <1>2 DEF JobMark, NoJob
<1>3. ASSUME NEW c \in Cmds, JobFails(c) PROVE TypeOK'
  <2>1. job[c].left \in 0 .. MaxAttempts
    OBVIOUS
  <2>2. job[c].left > 1 => job[c].left - 1 \in 0 .. MaxAttempts
    BY <2>1
  <2>3. job' \in [Cmds -> [state : {"none", "adding", "waiting"}, left : 0 .. MaxAttempts]]
    BY <1>3, <2>2 DEF JobFails, NoJob
  <2> QED BY <1>3, <2>3 DEF JobFails
<1>4. ASSUME NEW c \in Cmds, Ack(c) \/ AckUnanswered(c) PROVE TypeOK'
  BY <1>4 DEF Ack, AckUnanswered
<1>5. ASSUME NEW p \in Polls, PollRead(p) PROVE TypeOK'
  BY <1>5 DEF PollRead, Own
<1>6. ASSUME NEW p \in Polls, PollMark(p) PROVE TypeOK'
  BY <1>6 DEF PollMark
<1>7. ASSUME NEW p \in Polls, Receive(p) PROVE TypeOK'
  BY <1>7 DEF Receive, IdlePoll
<1>8. ASSUME NEW p \in Polls, PollLost(p) PROVE TypeOK'
  BY <1>8 DEF PollLost, IdlePoll
<1> QED BY <1>1, <1>2, <1>3, <1>4, <1>5, <1>6, <1>7, <1>8 DEF Next, PollStep

\* A new command, and what becomes of its job: the status moves away from
\* PENDING, if at all, and nothing is given out.
LEMMA CommandSteps ==
    ASSUME DeliveryInv, TypeOK', NEW c \in Cmds,
           Create(c) \/ AddJob(c) \/ JobMark(c) \/ JobFails(c)
    PROVE  DeliveryInv'
<1> USE DEF DeliveryInv
<1>0. status \in [Cmds -> {"NONE", "PENDING", "DELIVERED", "ACKNOWLEDGED", "FAILED"}]
  BY DEF TypeOK
<1>1. /\ UNCHANGED <<poll, unacked, received>>
      /\ \A d \in Cmds : d # c => status'[d] = status[d]
      /\ \/ status[c] = "NONE" /\ status'[c] = "PENDING"
         \/ status'[c] = status[c]
         \/ status'[c] = "DELIVERED"
  BY <1>0 DEF Create, AddJob, JobMark, JobFails
<1>2. BatchIsNew'
  BY <1>1 DEF BatchIsNew
<1>3. WaitingIsNew' /\ AckedWasReceived' /\ GivenOnce'
  BY <1>1 DEF WaitingIsNew, AckedWasReceived, GivenOnce
<1>4. SettledWasReceived'
  BY <1>1 DEF SettledWasReceived, Settled
<1>5. JobsAreAndroid'
  <2>1. job \in [Cmds -> [state : {"none", "adding", "waiting"}, left : 0 .. MaxAttempts]]
    BY DEF TypeOK
  <2> QED BY <2>1 DEF JobsAreAndroid, Create, AddJob, JobMark, JobFails, NoJob
<1> QED BY <1>2, <1>3, <1>4, <1>5

\* An acknowledgement settles a command that was received.
LEMMA AckSteps ==
    ASSUME DeliveryInv, TypeOK', NEW c \in Cmds, Ack(c) \/ AckUnanswered(c)
    PROVE  DeliveryInv'
<1> USE DEF DeliveryInv
<1>0. status \in [Cmds -> {"NONE", "PENDING", "DELIVERED", "ACKNOWLEDGED", "FAILED"}]
  BY DEF TypeOK
<1>1. /\ UNCHANGED <<job, poll, received>> /\ unacked' \subseteq unacked
      /\ \A d \in Cmds : d # c => status'[d] = status[d]
      /\ c \in unacked /\ status'[c] \in Settled
  BY <1>0 DEF Ack, AckUnanswered, Settled
<1>2. received[c] > 0
  BY <1>1 DEF AckedWasReceived
<1>3. BatchIsNew'
  BY <1>1, <1>2 DEF BatchIsNew, Settled, TypeOK
<1>4. WaitingIsNew' /\ SettledWasReceived'
  BY <1>1, <1>2 DEF WaitingIsNew, SettledWasReceived, Settled
<1>5. AckedWasReceived' /\ GivenOnce' /\ JobsAreAndroid'
  BY <1>1 DEF AckedWasReceived, GivenOnce, JobsAreAndroid
<1> QED BY <1>3, <1>4, <1>5

\* A poll: it reads what is PENDING, marks what it has read, hands it over.
LEMMA PollSteps ==
    ASSUME DeliveryInv, TypeOK', NEW p \in Polls, PollStep(p) \/ PollLost(p)
    PROVE  DeliveryInv'
<1> USE DEF DeliveryInv
<1>0. /\ status \in [Cmds -> {"NONE", "PENDING", "DELIVERED", "ACKNOWLEDGED", "FAILED"}]
      /\ poll \in [Polls -> [pc : {"idle", "mark", "answer"}, batch : SUBSET Cmds]]
      /\ received \in [Cmds -> Nat] /\ unacked \subseteq Cmds
  BY DEF TypeOK
<1>1. CASE PollRead(p)
  <2>1. /\ UNCHANGED <<status, job, unacked, received>>
        /\ \A q \in Polls : q # p => poll'[q] = poll[q]
        /\ poll'[p].pc = "mark"
        /\ \A c \in poll'[p].batch : c \in Own(p) /\ status[c] = "PENDING"
    BY <1>0, <1>1 DEF PollRead
  <2>2. BatchIsNew'
    BY <2>1 DEF BatchIsNew, WaitingIsNew, Own
  <2>3. /\ WaitingIsNew' /\ AckedWasReceived' /\ JobsAreAndroid'
        /\ GivenOnce' /\ SettledWasReceived'
    BY <2>1 DEF WaitingIsNew, AckedWasReceived, JobsAreAndroid, GivenOnce, SettledWasReceived
  <2> QED BY <2>2, <2>3
<1>2. CASE PollMark(p)
  <2>1. /\ UNCHANGED <<job, unacked, received>>
        /\ \A q \in Polls : poll'[q].batch = poll[q].batch
        /\ \A q \in Polls : q # p => poll'[q] = poll[q]
        /\ \A c \in Cmds : status'[c] = IF c \in poll[p].batch THEN "DELIVERED" ELSE status[c]
    BY <1>0, <1>2 DEF PollMark
  <2>2. BatchIsNew'
    BY <1>0, <2>1 DEF BatchIsNew, Own
  <2>3. WaitingIsNew' /\ SettledWasReceived'
    BY <2>1 DEF WaitingIsNew, SettledWasReceived, Settled
  <2>4. AckedWasReceived' /\ JobsAreAndroid' /\ GivenOnce'
    BY <2>1 DEF AckedWasReceived, JobsAreAndroid, GivenOnce
  <2> QED BY <2>2, <2>3, <2>4
<1>3. CASE Receive(p)
  <2>1. /\ UNCHANGED <<status, job>> /\ unacked' = unacked \cup poll[p].batch
        /\ \A q \in Polls : q # p => poll'[q] = poll[q]
        /\ poll'[p].batch = {} /\ poll[p].pc = "answer"
        /\ \A c \in Cmds : received'[c] = IF c \in poll[p].batch THEN received[c] + 1 ELSE received[c]
    BY <1>0, <1>3 DEF Receive, IdlePoll
  <2>2. \A q \in Polls : q # p => poll[q].batch \cap poll[p].batch = {}
    BY <1>0, OwnDisjoint DEF BatchIsNew
  <2>3. BatchIsNew'
    BY <1>0, <2>1, <2>2 DEF BatchIsNew, Own
  <2>4. \A c \in poll[p].batch : c \in Cmds /\ received'[c] = 1 /\ status[c] \notin {"NONE", "PENDING"}
    BY <1>0, <2>1 DEF BatchIsNew
  <2>5. WaitingIsNew' /\ SettledWasReceived' /\ GivenOnce' /\ AckedWasReceived'
    BY <1>0, <2>1, <2>4 DEF WaitingIsNew, SettledWasReceived, GivenOnce, AckedWasReceived
  <2>6. JobsAreAndroid'
    BY <2>1 DEF JobsAreAndroid
  <2> QED BY <2>3, <2>5, <2>6
<1>4. CASE PollLost(p)
  <2>1. /\ UNCHANGED <<status, job, unacked, received>>
        /\ \A q \in Polls : q # p => poll'[q] = poll[q]
        /\ poll'[p].batch = {}
    BY <1>0, <1>4 DEF PollLost, IdlePoll
  <2>2. BatchIsNew'
    BY <2>1 DEF BatchIsNew
  <2>3. /\ WaitingIsNew' /\ AckedWasReceived' /\ JobsAreAndroid'
        /\ GivenOnce' /\ SettledWasReceived'
    BY <2>1 DEF WaitingIsNew, AckedWasReceived, JobsAreAndroid, GivenOnce, SettledWasReceived
  <2> QED BY <2>2, <2>3
<1> QED BY <1>1, <1>2, <1>3, <1>4 DEF PollStep

\* The invariant is inductive.
LEMMA NextDelivery == DeliveryInv /\ [Next]_vars => DeliveryInv'
<1> SUFFICES ASSUME DeliveryInv, [Next]_vars PROVE DeliveryInv' OBVIOUS
<1>1. CASE Next
  <2>1. TypeOK'
    BY <1>1, NextTypeOK DEF DeliveryInv
  <2> QED BY <1>1, <2>1, CommandSteps, AckSteps, PollSteps DEF Next
<1>2. CASE UNCHANGED vars
  BY <1>2 DEF vars, DeliveryInv, TypeOK, BatchIsNew, WaitingIsNew, AckedWasReceived,
              JobsAreAndroid, GivenOnce, SettledWasReceived
<1> QED BY <1>1, <1>2

\* Whatever polls, jobs, acknowledgements and losses overlap, the whole invariant
\* holds; in particular the types do.
THEOREM DeliveryIsSound == Spec => []DeliveryInv
  BY InitDelivery, NextDelivery, PTL DEF Spec

\* An agent that polls one request at a time is given no command twice, although a
\* poll reads and marks in two statements and commands are queued, marked by the
\* worker and acknowledged in between (getPendingCommands, getCommands).
THEOREM CommandsGivenOnce == Spec => []GivenOnce
<1>1. DeliveryInv => GivenOnce
  BY DEF DeliveryInv
<1> QED BY <1>1, DeliveryIsSound, PTL

\* A step moves a command to DELIVERED only by a poll that has it in its answer or
\* by the worker, and takes it out of an answer only by handing it over or losing
\* that answer.
LEMMA NextAccounted ==
    ASSUME DeliveryInv, DeliveredIsAccounted, [Next]_vars
    PROVE  DeliveredIsAccounted'
<1>0. /\ status \in [Cmds -> {"NONE", "PENDING", "DELIVERED", "ACKNOWLEDGED", "FAILED"}]
      /\ poll \in [Polls -> [pc : {"idle", "mark", "answer"}, batch : SUBSET Cmds]]
      /\ received \in [Cmds -> Nat]
  BY DEF DeliveryInv, TypeOK
<1>1. ASSUME NEW c \in Cmds,
             Create(c) \/ AddJob(c) \/ JobFails(c) \/ Ack(c) \/ AckUnanswered(c)
      PROVE  DeliveredIsAccounted'
  <2>1. /\ UNCHANGED <<poll, received, dropped, byWorker>>
        /\ \A d \in Cmds : status'[d] = "DELIVERED" => status[d] = "DELIVERED"
    BY <1>0, <1>1 DEF Create, AddJob, JobFails, Ack, AckUnanswered, fate
  <2> QED BY <2>1 DEF DeliveredIsAccounted
<1>2. ASSUME NEW c \in Cmds, JobMark(c) PROVE DeliveredIsAccounted'
  <2>1. /\ UNCHANGED <<poll, received, dropped>> /\ byWorker' = byWorker \cup {c}
        /\ \A d \in Cmds : d # c => status'[d] = status[d]
    BY <1>0, <1>2 DEF JobMark
  <2> QED BY <2>1 DEF DeliveredIsAccounted
<1>3. ASSUME NEW p \in Polls, PollRead(p) PROVE DeliveredIsAccounted'
  <2>1. /\ UNCHANGED <<status, received, dropped, byWorker>>
        /\ \A q \in Polls : poll[q].pc = "answer" => poll'[q] = poll[q]
    BY <1>0, <1>3 DEF PollRead, fate
  <2> QED BY <2>1 DEF DeliveredIsAccounted
<1>4. ASSUME NEW p \in Polls, PollMark(p) PROVE DeliveredIsAccounted'
  <2>1. /\ UNCHANGED <<received, dropped, byWorker>>
        /\ \A q \in Polls : poll[q].pc = "answer" => poll'[q] = poll[q]
        /\ poll'[p].pc = "answer" /\ poll'[p].batch = poll[p].batch
        /\ \A c \in Cmds : c \notin poll[p].batch => status'[c] = status[c]
    BY <1>0, <1>4 DEF PollMark, fate
  <2> QED BY <2>1 DEF DeliveredIsAccounted
<1>5. ASSUME NEW p \in Polls, Receive(p) PROVE DeliveredIsAccounted'
  <2>1. /\ UNCHANGED <<status, dropped, byWorker>>
        /\ \A q \in Polls : q # p => poll'[q] = poll[q]
        /\ \A c \in Cmds : received'[c] = IF c \in poll[p].batch THEN received[c] + 1 ELSE received[c]
    BY <1>0, <1>5 DEF Receive, fate
  <2>2. \A c \in Cmds : received'[c] = 0 => received[c] = 0 /\ c \notin poll[p].batch
    BY <1>0, <2>1
  <2> QED BY <2>1, <2>2 DEF DeliveredIsAccounted
<1>6. ASSUME NEW p \in Polls, PollLost(p) PROVE DeliveredIsAccounted'
  <2>1. /\ UNCHANGED <<status, received, byWorker>>
        /\ \A q \in Polls : q # p => poll'[q] = poll[q]
        /\ dropped' = IF poll[p].pc = "answer" THEN dropped \cup poll[p].batch ELSE dropped
    BY <1>0, <1>6 DEF PollLost
  <2> QED BY <2>1 DEF DeliveredIsAccounted
<1>7. CASE UNCHANGED vars
  BY <1>7 DEF vars, DeliveredIsAccounted
<1> QED BY <1>1, <1>2, <1>3, <1>4, <1>5, <1>6, <1>7 DEF Next, PollStep

\* A command that is DELIVERED and was not received is in an answer under way, was
\* in an answer that was lost, or was marked by the worker (getPendingCommands,
\* getCommands, CommandQueueProcessor.process).
THEOREM MarkedIsAccounted == Spec => []DeliveredIsAccounted
<1>1. Init => DeliveredIsAccounted
  BY DEF Init, DeliveredIsAccounted
<1>2. DeliveryInv /\ DeliveredIsAccounted /\ [Next]_vars => DeliveredIsAccounted'
  BY NextAccounted
<1> QED BY <1>1, <1>2, DeliveryIsSound, PTL DEF Spec

\* A settled router command is never taken back: a poll under way that could mark
\* it DELIVERED would hold a command that was already given out.
THEOREM RouterCommandsStaySettled == Spec => SettledIsFinal
<1>1. ASSUME DeliveryInv, [Next]_vars, NEW c \in Cmds \ Android, status[c] \in Settled
      PROVE  status'[c] \in Settled
  <2>0. /\ status \in [Cmds -> {"NONE", "PENDING", "DELIVERED", "ACKNOWLEDGED", "FAILED"}]
        /\ received[c] > 0 /\ job[c].state = "none"
    BY <1>1 DEF DeliveryInv, TypeOK, SettledWasReceived, JobsAreAndroid
  <2>1. ASSUME NEW p \in Polls, PollMark(p) PROVE status'[c] \in Settled
    <3>1. c \notin poll[p].batch
      BY <1>1, <2>0 DEF DeliveryInv, BatchIsNew
    <3> QED BY <1>1, <2>0, <2>1, <3>1 DEF PollMark
  <2>2. ASSUME NEW d \in Cmds,
               Create(d) \/ AddJob(d) \/ JobMark(d) \/ JobFails(d) \/ Ack(d) \/ AckUnanswered(d)
        PROVE  status'[c] \in Settled
    BY <1>1, <2>0, <2>2 DEF Create, AddJob, JobMark, JobFails, Ack, AckUnanswered, Settled
  <2>3. ASSUME NEW p \in Polls, PollRead(p) \/ Receive(p) \/ PollLost(p)
        PROVE  status'[c] \in Settled
    BY <1>1, <2>3 DEF PollRead, Receive, PollLost
  <2>4. CASE UNCHANGED vars
    BY <1>1, <2>4 DEF vars
  <2> QED BY <1>1, <2>1, <2>2, <2>3, <2>4 DEF Next, PollStep
<1>2. DeliveryInv /\ [Next]_vars =>
        [\A c \in Cmds \ Android : status[c] \in Settled => status'[c] \in Settled]_vars
  BY <1>1
<1> QED BY <1>2, DeliveryIsSound, PTL DEF Spec, SettledIsFinal

----------------------------------------------------------------------------
(* The calls that queue the commands (Routers) *)


\* The values of the variables.
DeviceRow == [gateway : Gateways \cup {Null}, status : {"OFFLINE", "ONLINE", "BLOCKED"},
              locked : BOOLEAN, method : Methods \cup {InferControlMethod(t) : t \in Types}]
CallState == [pc : {"idle", "write", "sync", "upsert", "enqueue"}, op : Ops,
              gw : Gateways \cup {Null}, strategies : StrategyLists, row : Rows]
Command == [type : {CommandOf(op) : op \in Ops}, strategies : StrategyLists]

\* The rows that scans and set-ups write.
LEMMA RowsTyped ==
    /\ NoRow \in Rows
    /\ \A p \in Plugins, f \in BOOLEAN :
          [plugin |-> p, firmware |-> f] \in Detected /\ [plugin |-> p, firmware |-> f] \in Rows
    /\ \A g \in Rows, h \in Detected : ScanRow(g, h) \in Rows /\ SetupRow(g, h) \in Rows
<1>1. NoRow \in Rows /\ \A p \in Plugins, f \in BOOLEAN :
          [plugin |-> p, firmware |-> f] \in Detected /\ [plugin |-> p, firmware |-> f] \in Rows
  BY DEF Rows, Detected
<1>2. ASSUME NEW g \in Rows, NEW h \in Detected
      PROVE  ScanRow(g, h) \in Rows /\ SetupRow(g, h) \in Rows
  <2>1. ScanRow(g, h) \in Rows
    BY DEF ScanRow, Rows
  <2>2. CASE g = NoRow \/ h.plugin = NoPlugin
    BY <2>1, <2>2 DEF SetupRow, Rows
  <2>3. CASE ~(g = NoRow \/ h.plugin = NoPlugin)
    <3>1. SetupRow(g, h) = [g EXCEPT !.plugin = h.plugin] /\ g \in Detected
      BY <2>3 DEF SetupRow, Rows
    <3>2. [g EXCEPT !.plugin = h.plugin] \in Detected
      BY <3>1 DEF Detected
    <3>3. SetupRow(g, h) \in Detected
      BY <3>1, <3>2, Zenon
    <3> QED BY <2>1, <3>3 DEF Rows
  <2> QED BY <2>1, <2>2, <2>3
<1> QED BY <1>1, <1>2

\* The strategies a router is found to have, and the local states of a call.
LEMMA PluginTyped ==
    ASSUME router \in [Gateways -> Rows], NEW g \in Gateways
    PROVE  /\ Plugin(g) \in Plugins \cup {NoPlugin}
           /\ \A l \in {StrategyPriority, BlockStrategyPriority} : BuildStrategies(Plugin(g), l) \in StrategyLists
<1>1. Plugin(g) \in Plugins \cup {NoPlugin}
  <2>1. router[g] = NoRow \/ router[g] \in Detected
    BY DEF Rows
  <2> QED BY <2>1 DEF Plugin, Detected
<1> QED BY <1>1 DEF StrategyLists

LEMMA IdleTyped == IdleCall \in CallState /\ IdleCall.pc = "idle"
  BY RowsTyped DEF IdleCall, CallState, StrategyLists, Ops

LEMMA StartTyped ==
    ASSUME NEW op \in Ops, NEW g \in Gateways \cup {Null}
    PROVE  LET x == [IdleCall EXCEPT !.pc = "write", !.op = op, !.gw = g]
           IN x \in CallState /\ x.pc = "write" /\ x.gw = g /\ x.op = op
  BY IdleTyped DEF CallState

LEMMA GoesOnTyped ==
    ASSUME NEW y \in CallState, NEW s \in StrategyLists
    PROVE  /\ LET x == [y EXCEPT !.pc = "sync"]
              IN x \in CallState /\ x.pc = "sync" /\ x.gw = y.gw /\ x.op = y.op
           /\ LET x == [y EXCEPT !.pc = "enqueue", !.strategies = s]
              IN x \in CallState /\ x.pc = "enqueue" /\ x.gw = y.gw /\ x.op = y.op /\ x.strategies = s
           /\ LET x == [y EXCEPT !.pc = "enqueue", !.row = NoRow]
              IN x \in CallState /\ x.pc = "enqueue" /\ x.gw = y.gw
  BY RowsTyped DEF CallState

\* The commands a call may queue and the local state it is left in, step by step.
LEMMA OpsTyped ==
    /\ {"block", "unblock", "end", "setup", "scan", "BLOCK_MAC", "UNBLOCK_MAC", "TEST_CONNECTION"} \subseteq Ops
    /\ \A op : PriorityOf(op) \in {StrategyPriority, BlockStrategyPriority}
    /\ \A op \in {"block", "unblock"} : PriorityOf(op) = BlockStrategyPriority
  BY DEF Ops, PriorityOf

LEMMA CallStartShape ==
    ASSUME RoutersTypeOK, NEW c \in Calls, NEW op \in {"block", "unblock"}, CallStart(c, op)
    PROVE  \E x \in CallState :
              /\ call' = [call EXCEPT ![c] = x]
              /\ \/ x = IdleCall /\ ~alone'
                 \/ /\ x.pc = "write" /\ x.op = op /\ x.gw = device.gateway
                    /\ alone' => Idle /\ Delivered
<1> DEFINE y == [IdleCall EXCEPT !.pc = "write", !.op = op, !.gw = device.gateway]
<1>1. op \in Ops /\ device.gateway \in Gateways \cup {Null}
  BY OpsTyped DEF RoutersTypeOK
<1>2. y \in CallState /\ y.pc = "write" /\ y.gw = device.gateway /\ y.op = op
  BY <1>1, StartTyped
<1>3. call' = [call EXCEPT ![c] = IF AdapterSucceeds(device) THEN y ELSE IdleCall]
      /\ (alone' => Idle /\ AdapterSucceeds(device) /\ Delivered)
  BY DEF CallStart
<1> HIDE DEF y
<1>4. CASE AdapterSucceeds(device)
  BY <1>2, <1>3, <1>4
<1>5. CASE ~AdapterSucceeds(device)
  BY <1>3, <1>5, IdleTyped
<1> QED BY <1>4, <1>5

LEMMA CallWriteShape ==
    ASSUME RoutersTypeOK, NEW c \in Calls, CallWrite(c)
    PROVE  \E x \in CallState :
              /\ call' = [call EXCEPT ![c] = x]
              /\ x.pc = "sync" /\ x.gw = call[c].gw /\ x.op = call[c].op
<1> DEFINE x == [call[c] EXCEPT !.pc = "sync"]
<1>1. call[c] \in CallState /\ call' = [call EXCEPT ![c] = x]
  BY DEF RoutersTypeOK, CallState, CallWrite
<1>2. x \in CallState /\ x.pc = "sync" /\ x.gw = call[c].gw /\ x.op = call[c].op
  <2>1. <<>> \in StrategyLists
    BY DEF StrategyLists
  <2> QED BY <1>1, <2>1, GoesOnTyped
<1> QED BY <1>1, <1>2

LEMMA CallRouteShape ==
    ASSUME RoutersTypeOK, NEW c \in Calls, CallRoute(c)
    PROVE  \E x \in CallState :
              /\ call' = [call EXCEPT ![c] = x]
              /\ LET s == BuildStrategies(Plugin(call[c].gw), PriorityOf(call[c].op))
                 IN \/ (call[c].gw = Null \/ DOMAIN s = {}) /\ x = IdleCall
                    \/ /\ call[c].gw # Null /\ DOMAIN s # {}
                       /\ x.pc = "enqueue" /\ x.gw = call[c].gw /\ x.op = call[c].op /\ x.strategies = s
<1> DEFINE s == BuildStrategies(Plugin(call[c].gw), PriorityOf(call[c].op))
           y == [call[c] EXCEPT !.pc = "enqueue", !.strategies = s]
<1>1. call[c] \in CallState /\ call[c].gw \in Gateways \cup {Null}
  BY DEF RoutersTypeOK, CallState
<1>2. call' = [call EXCEPT ![c] = IF call[c].gw = Null \/ DOMAIN s = {} THEN IdleCall ELSE y]
  BY DEF CallRoute
<1>3. CASE call[c].gw = Null \/ DOMAIN s = {}
  <2> HIDE DEF s, y
  <2>1. call' = [call EXCEPT ![c] = IdleCall] /\ IdleCall \in CallState
    BY <1>2, <1>3, IdleTyped
  <2> QED BY <1>3, <2>1 DEF s
<1>4. CASE ~(call[c].gw = Null \/ DOMAIN s = {})
  <2>1. s \in StrategyLists
    <3>1. call[c].gw \in Gateways /\ router \in [Gateways -> Rows]
      BY <1>1, <1>4 DEF RoutersTypeOK
    <3>2. PriorityOf(call[c].op) \in {StrategyPriority, BlockStrategyPriority}
      BY OpsTyped
    <3> QED BY <3>1, <3>2, PluginTyped
  <2>2. call[c].gw # Null /\ DOMAIN s # {}
    BY <1>4
  <2> HIDE DEF s
  <2>3. y \in CallState /\ y.pc = "enqueue" /\ y.gw = call[c].gw /\ y.op = call[c].op /\ y.strategies = s
    BY <1>1, <2>1, GoesOnTyped
  <2>4. call' = [call EXCEPT ![c] = y]
    BY <1>2, <2>2
  <2> HIDE DEF y
  <2> QED BY <2>2, <2>3, <2>4 DEF s
<1> QED BY <1>3, <1>4

LEMMA CallUpsertShape ==
    ASSUME RoutersTypeOK, NEW c \in Calls, CallUpsert(c)
    PROVE  \E x \in CallState :
              /\ call' = [call EXCEPT ![c] = x]
              /\ x = IdleCall \/ (x.pc = "enqueue" /\ x.gw = call[c].gw)
<1> DEFINE y == [call[c] EXCEPT !.pc = "enqueue", !.row = NoRow]
<1>1. call[c] \in CallState /\ call' = [call EXCEPT ![c] = IF call[c].op = "scan" THEN IdleCall ELSE y]
  BY DEF RoutersTypeOK, CallState, CallUpsert
<1>2. y \in CallState /\ y.pc = "enqueue" /\ y.gw = call[c].gw
  <2>1. <<>> \in StrategyLists
    BY DEF StrategyLists
  <2> QED BY <1>1, <2>1, GoesOnTyped
<1> HIDE DEF y
<1>3. CASE call[c].op = "scan"
  <2>1. call' = [call EXCEPT ![c] = IdleCall] /\ IdleCall \in CallState
    BY <1>1, <1>3, IdleTyped
  <2> QED BY <2>1
<1>4. CASE call[c].op # "scan"
  BY <1>1, <1>2, <1>4
<1> QED BY <1>3, <1>4

LEMMA OwnedShape ==
    ASSUME RoutersTypeOK, NEW c \in Calls, NEW g \in Gateways, NEW row \in Rows, NEW op \in Ops,
           NEW pc \in {"sync", "upsert", "enqueue"}, pc = "upsert" => row \in Detected,
           Owned(c, g, pc, op, row)
    PROVE  \E x \in CallState :
              /\ call' = [call EXCEPT ![c] = x]
              /\ x.pc = pc /\ x.gw = g /\ (x.pc = "upsert" => x.row \in Detected)
<1> DEFINE x == [IdleCall EXCEPT !.pc = pc, !.op = op, !.gw = g, !.row = row]
<1>1. call' = [call EXCEPT ![c] = x]
  BY DEF Owned
<1>2. x \in CallState /\ x.pc = pc /\ x.gw = g /\ x.op = op /\ x.row = row
  BY IdleTyped DEF CallState
<1> HIDE DEF x
<1> QED BY <1>1, <1>2

\* The requests about a gateway, and what they have in common.
Request(c, g) ==
    \/ EndGamingSession(c, g)
    \/ \E p \in SetupPlugins : Setup(c, g, p)
    \/ \E report \in Reports, firmware \in Firmware : RecordDetection(c, g, report, firmware)
    \/ \E type \in {"BLOCK_MAC", "UNBLOCK_MAC"} : QueueMac(c, g, type)
    \/ QueueTest(c, g)

LEMMA RequestIsOwned ==
    ASSUME NEW c \in Calls, NEW g \in Gateways, Request(c, g)
    PROVE  \E pc \in {"sync", "upsert", "enqueue"}, op \in Ops, row \in Rows :
              (pc = "upsert" => row \in Detected) /\ Owned(c, g, pc, op, row)
<1> DEFINE Goal == \E pc \in {"sync", "upsert", "enqueue"}, op \in Ops, row \in Rows :
                      (pc = "upsert" => row \in Detected) /\ Owned(c, g, pc, op, row)
<1>0. NoRow \in Rows
  BY RowsTyped
<1>1. CASE EndGamingSession(c, g)
  BY <1>0, <1>1, OpsTyped DEF EndGamingSession
<1>2. ASSUME NEW p \in SetupPlugins, Setup(c, g, p) PROVE Goal
  <2>1. [plugin |-> p, firmware |-> FALSE] \in Detected /\ [plugin |-> p, firmware |-> FALSE] \in Rows
    BY RowsTyped DEF Plugins
  <2> QED BY <1>2, <2>1, OpsTyped DEF Setup
<1>3. ASSUME NEW report \in Reports, NEW firmware \in Firmware, RecordDetection(c, g, report, firmware)
      PROVE  Goal
  <2>1. ResolveVendor(report) \in Plugins /\ firmware \in BOOLEAN
    BY RoutersAssumption DEF Plugins
  <2>2. /\ [plugin |-> ResolveVendor(report), firmware |-> firmware] \in Detected
        /\ [plugin |-> ResolveVendor(report), firmware |-> firmware] \in Rows
    BY <2>1, RowsTyped
  <2> QED BY <1>3, <2>2, OpsTyped DEF RecordDetection
<1>4. ASSUME NEW type \in {"BLOCK_MAC", "UNBLOCK_MAC"}, QueueMac(c, g, type) PROVE Goal
  BY <1>0, <1>4, OpsTyped DEF QueueMac
<1>5. CASE QueueTest(c, g)
  BY <1>0, <1>5, OpsTyped DEF QueueTest
<1> QED BY <1>1, <1>2, <1>3, <1>4, <1>5 DEF Request

\* A call that takes a step, and nothing else that has a type of interest.
LEMMA CallFrame ==
    ASSUME RoutersTypeOK, NEW c \in Calls, NEW x \in CallState, call' = [call EXCEPT ![c] = x],
           x.pc = "upsert" => x.row \in Detected,
           UNCHANGED <<device, gateway, router, commands, cut, late>>
    PROVE  RoutersTypeOK'
<1>1. call \in [Calls -> CallState] /\ call'[c] = x /\ \A d \in Calls : d # c => call'[d] = call[d]
  BY DEF RoutersTypeOK, CallState
<1>2. call' \in [Calls -> CallState]
  BY <1>1
<1>3. \A d \in Calls : call'[d].pc = "upsert" => call'[d].row \in Detected
  BY <1>1 DEF RoutersTypeOK
<1> QED BY <1>2, <1>3 DEF RoutersTypeOK, CallState

LEMMA CallKeepsTypes == ASSUME RoutersTypeOK, NEW c \in Calls, Call(c) PROVE RoutersTypeOK'
<1>0. /\ call \in [Calls -> CallState] /\ call[c] \in CallState /\ device \in DeviceRow
      /\ router \in [Gateways -> Rows] /\ commands \in [Gateways -> Seq(Command)]
      /\ IdleCall \in CallState /\ IdleCall.pc = "idle"
  BY IdleTyped DEF RoutersTypeOK, CallState, DeviceRow, Command
<1>1. ASSUME NEW op \in {"block", "unblock"}, CallStart(c, op) PROVE RoutersTypeOK'
  <2>1. PICK x \in CallState : call' = [call EXCEPT ![c] = x] /\ x.pc \in {"idle", "write"}
    BY <1>0, <1>1, CallStartShape
  <2> QED BY <1>1, <2>1, CallFrame DEF CallStart
<1>2. CASE CallWrite(c)
  <2>1. PICK x \in CallState : call' = [call EXCEPT ![c] = x] /\ x.pc = "sync"
    BY <1>2, CallWriteShape
  <2>2. call' \in [Calls -> CallState] /\ \A d \in Calls : call'[d] = IF d = c THEN x ELSE call[d]
    BY <1>0, <2>1
  <2>3. \A d \in Calls : call'[d].pc = "upsert" => call'[d].row \in Detected
    BY <2>1, <2>2 DEF RoutersTypeOK
  <2>4. device' \in DeviceRow
    <3> DEFINE st == StatusOf(call[c].op)
    <3>1. device' = [device EXCEPT !.status = st] /\ st \in {"ONLINE", "BLOCKED"}
      BY <1>2 DEF CallWrite, StatusOf
    <3> HIDE DEF st
    <3> QED BY <1>0, <3>1 DEF DeviceRow
  <2>5. UNCHANGED <<gateway, router, commands, cut, late>>
    BY <1>2 DEF CallWrite
  <2> QED BY <2>2, <2>3, <2>4, <2>5 DEF RoutersTypeOK, CallState, DeviceRow
<1>3. CASE CallRoute(c)
  <2>1. PICK x \in CallState : call' = [call EXCEPT ![c] = x] /\ x.pc \in {"idle", "enqueue"}
    BY <1>0, <1>3, CallRouteShape
  <2> QED BY <1>3, <2>1, CallFrame DEF CallRoute
<1>4. CASE CallUpsert(c)
  <2>1. PICK x \in CallState : call' = [call EXCEPT ![c] = x] /\ x.pc \in {"idle", "enqueue"}
    BY <1>0, <1>4, CallUpsertShape
  <2>2. call' \in [Calls -> CallState] /\ \A d \in Calls : call'[d] = IF d = c THEN x ELSE call[d]
    BY <1>0, <2>1
  <2>3. \A d \in Calls : call'[d].pc = "upsert" => call'[d].row \in Detected
    BY <2>1, <2>2 DEF RoutersTypeOK
  <2>4. router' \in [Gateways -> Rows]
    <3> DEFINE g == call[c].gw
               new == IF call[c].op = "scan" THEN ScanRow(router[g], call[c].row)
                      ELSE SetupRow(router[g], call[c].row)
    <3>1. router' = [router EXCEPT ![g] = new] /\ call[c].row \in Detected
      BY <1>4 DEF CallUpsert, RoutersTypeOK
    <3>2. CASE g \in Gateways
      <4>1. new \in Rows
        BY <1>0, <3>1, <3>2, RowsTyped
      <4> HIDE DEF new, g
      <4> QED BY <1>0, <3>1, <4>1
    <3>3. CASE g \notin Gateways
      <4> HIDE DEF new, g
      <4> QED BY <1>0, <3>1, <3>3
    <3> QED BY <3>2, <3>3
  <2>5. UNCHANGED <<device, gateway, commands, cut, late>>
    BY <1>4 DEF CallUpsert
  <2> QED BY <2>2, <2>3, <2>4, <2>5 DEF RoutersTypeOK, CallState
<1>5. CASE CallEnqueue(c)
  <2>1. call' \in [Calls -> CallState] /\ \A d \in Calls : call'[d] = IF d = c THEN IdleCall ELSE call[d]
    BY <1>0, <1>5 DEF CallEnqueue
  <2>2. \A d \in Calls : call'[d].pc = "upsert" => call'[d].row \in Detected
    BY <1>0, <2>1 DEF RoutersTypeOK
  <2>3. commands' \in [Gateways -> Seq(Command)]
    <3> DEFINE g == call[c].gw
               m == [type |-> CommandOf(call[c].op), strategies |-> call[c].strategies]
    <3>1. commands' = [commands EXCEPT ![g] = Append(commands[g], m)]
      BY <1>5 DEF CallEnqueue
    <3>2. m \in Command
      BY <1>0 DEF Command, CallState
    <3> HIDE DEF m, g
    <3>3. CASE g \in Gateways
      <4>1. Append(commands[g], m) \in Seq(Command)
        BY <1>0, <3>2, <3>3
      <4> QED BY <1>0, <3>1, <4>1
    <3>4. CASE g \notin Gateways
      BY <1>0, <3>1, <3>4
    <3> QED BY <3>3, <3>4
  <2>4. UNCHANGED <<device, gateway, router, cut, late>>
    BY <1>5 DEF CallEnqueue
  <2> QED BY <2>1, <2>2, <2>3, <2>4 DEF RoutersTypeOK, CallState, Command
<1>6. CASE CallFails(c)
  BY <1>0, <1>6, CallFrame DEF CallFails
<1>7. ASSUME NEW g \in Gateways, NEW row \in Rows, NEW op \in Ops, NEW pc \in {"sync", "upsert", "enqueue"},
             pc = "upsert" => row \in Detected, Owned(c, g, pc, op, row)
      PROVE  RoutersTypeOK'
  <2>1. PICK x \in CallState : call' = [call EXCEPT ![c] = x] /\ (x.pc = "upsert" => x.row \in Detected)
    BY <1>7, OwnedShape
  <2>2. UNCHANGED <<device, gateway, router, commands, cut, late>>
    BY <1>7 DEF Owned, Change
  <2> QED BY <2>1, <2>2, CallFrame
<1>8. ASSUME NEW g \in Gateways, Request(c, g) PROVE RoutersTypeOK'
  BY <1>7, <1>8, RequestIsOwned
<1> QED BY <1>1, <1>2, <1>3, <1>4, <1>5, <1>6, <1>8 DEF Call, Request

\* The steps of the parent and of the agent.
LEMMA OthersKeepTypes ==
    ASSUME RoutersTypeOK,
           Parent \/ \E g \in Gateways : AgentPoll(g) \/ AgentRun(g) \/ CommandFails(g)
    PROVE  RoutersTypeOK'
<1>0. /\ device \in DeviceRow /\ router \in [Gateways -> Rows] /\ commands \in [Gateways -> Seq(Command)]
      /\ gateway \in [Gateways -> {"unused", "present", "deleted"}] /\ late \subseteq Gateways
      /\ cut \in [Gateways -> SUBSET Persistent] /\ NoRow \in Rows
  BY RowsTyped DEF RoutersTypeOK, DeviceRow, Command
<1>1. ASSUME NEW g \in Gateways, Register(g) PROVE RoutersTypeOK'
  BY <1>1 DEF RoutersTypeOK, Register, Change
<1>2. ASSUME NEW g \in Gateways, DeleteGateway(g) PROVE RoutersTypeOK'
  <2>1. device' \in DeviceRow
    <3> DEFINE new == IF device.gateway = g THEN Null ELSE device.gateway
    <3>1. device' = [device EXCEPT !.gateway = new] /\ new \in Gateways \cup {Null}
      BY <1>0, <1>2 DEF DeleteGateway, DeviceRow
    <3> HIDE DEF new
    <3> QED BY <1>0, <3>1 DEF DeviceRow
  <2>2. router' \in [Gateways -> Rows] /\ commands' \in [Gateways -> Seq(Command)]
    BY <1>0, <1>2 DEF DeleteGateway
  <2>3. gateway' \in [Gateways -> {"unused", "present", "deleted"}] /\ late' \subseteq Gateways
    BY <1>0, <1>2 DEF DeleteGateway
  <2>4. UNCHANGED <<call, cut>>
    BY <1>2 DEF DeleteGateway, Change
  <2> QED BY <2>1, <2>2, <2>3, <2>4 DEF RoutersTypeOK, DeviceRow, Command
<1>3. ASSUME device' \in DeviceRow, UNCHANGED <<gateway, router, commands, call, cut, late>>
      PROVE  RoutersTypeOK'
  BY <1>3 DEF RoutersTypeOK, DeviceRow
<1>4. ASSUME NEW g \in Gateways, Attach(g) PROVE RoutersTypeOK'
  <2>1. device' \in DeviceRow
    BY <1>0, <1>4 DEF Attach, DeviceRow
  <2> QED BY <1>3, <1>4, <2>1 DEF Attach, Change
<1>5. ASSUME NEW locked \in BOOLEAN, SetLock(locked) PROVE RoutersTypeOK'
  <2>1. device' \in DeviceRow
    BY <1>0, <1>5 DEF SetLock, DeviceRow
  <2> QED BY <1>3, <1>5, <2>1 DEF SetLock, Change
<1>6. ASSUME NEW st \in {"BLOCKED", "ONLINE"}, GatewayBlock(st) PROVE RoutersTypeOK'
  <2>1. device' \in DeviceRow
    BY <1>0, <1>6 DEF GatewayBlock, DeviceRow
  <2> QED BY <1>3, <1>6, <2>1 DEF GatewayBlock, Change
<1>7. CASE LinkMicrosoft
  BY <1>7 DEF RoutersTypeOK, LinkMicrosoft, Change
<1>8. ASSUME NEW g \in Gateways, AgentPoll(g) PROVE RoutersTypeOK'
  BY <1>8 DEF RoutersTypeOK, AgentPoll
<1>9. ASSUME NEW g \in Gateways, AgentRun(g) PROVE RoutersTypeOK'
  <2>1. cut[g] \subseteq Persistent
    BY <1>0
  <2>2. ASSUME NEW m, NEW held \in Executed(m, cut[g]) PROVE held \subseteq Persistent
    BY <2>1, <2>2 DEF Executed, Persistent
  <2>3. cut' \in [Gateways -> SUBSET Persistent]
    BY <1>0, <1>9, <2>2 DEF AgentRun
  <2>4. commands[g] \in Seq(Command) /\ commands[g] # <<>>
    BY <1>0, <1>9 DEF AgentRun
  <2>5. Tail(commands[g]) \in Seq(Command)
    BY <2>4
  <2>6. commands' \in [Gateways -> Seq(Command)]
    BY <1>0, <1>9, <2>5 DEF AgentRun
  <2> QED BY <1>9, <2>3, <2>6 DEF AgentRun, RoutersTypeOK, Command
<1>10. ASSUME NEW g \in Gateways, CommandFails(g) PROVE RoutersTypeOK'
  <2>1. commands[g] \in Seq(Command) /\ commands[g] # <<>>
    BY <1>0, <1>10 DEF CommandFails
  <2>2. Tail(commands[g]) \in Seq(Command)
    BY <2>1
  <2>3. commands' \in [Gateways -> Seq(Command)]
    BY <1>0, <1>10, <2>2 DEF CommandFails
  <2> QED BY <1>10, <2>3 DEF CommandFails, RoutersTypeOK, Command
<1> QED BY <1>1, <1>2, <1>4, <1>5, <1>6, <1>7, <1>8, <1>9, <1>10 DEF Parent

LEMMA RoutersInitTyped == RoutersInit => RoutersTypeOK
<1> SUFFICES ASSUME RoutersInit PROVE RoutersTypeOK OBVIOUS
<1>1. PICK g \in Gateways \cup {Null}, m \in Methods \cup {InferControlMethod(t) : t \in Types} :
         device = [gateway |-> g, status |-> "OFFLINE", locked |-> FALSE, method |-> m]
  BY DEF RoutersInit
<1>2. device \in DeviceRow
  BY <1>1 DEF DeviceRow
<1>3. PICK row \in {NoRow} \cup {[plugin |-> ResolveVendor(r), firmware |-> FALSE] : r \in Reports} :
         router = [h \in Gateways |-> IF h = device.gateway THEN row ELSE NoRow]
  BY DEF RoutersInit
<1>4. row \in Rows /\ NoRow \in Rows
  <2>1. ASSUME NEW r \in Reports PROVE [plugin |-> ResolveVendor(r), firmware |-> FALSE] \in Rows
    BY RowsTyped DEF Plugins
  <2> QED BY <2>1, RowsTyped
<1>5. router \in [Gateways -> Rows]
  BY <1>3, <1>4
<1>6. /\ gateway = [h \in Gateways |-> IF h = device.gateway THEN "present" ELSE "unused"]
      /\ commands = [h \in Gateways |-> <<>>] /\ call = [c \in Calls |-> IdleCall]
      /\ cut = [h \in Gateways |-> {}] /\ late = {}
  BY DEF RoutersInit
<1>7. call \in [Calls -> CallState] /\ \A c \in Calls : call[c].pc = "idle"
  BY <1>6, IdleTyped
<1>8. commands \in [Gateways -> Seq(Command)]
  BY <1>6
<1> QED BY <1>2, <1>5, <1>6, <1>7, <1>8 DEF RoutersTypeOK, DeviceRow, CallState, Command

\* Rows, commands and calls of the routers are of the forms above, for any set of
\* gateways, calls and vendor strings.
THEOREM RoutersTyped == RoutersSpec => []RoutersTypeOK
<1>1. RoutersTypeOK /\ [RoutersNext]_routersVars => RoutersTypeOK'
  <2> SUFFICES ASSUME RoutersTypeOK, [RoutersNext]_routersVars PROVE RoutersTypeOK' OBVIOUS
  <2>1. CASE UNCHANGED routersVars
    BY <2>1 DEF routersVars, RoutersTypeOK
  <2> QED BY <2>1, CallKeepsTypes, OthersKeepTypes DEF RoutersNext
<1> QED BY <1>1, RoutersInitTyped, PTL DEF RoutersSpec

----------------------------------------------------------------------------
(* Routers: what a deleted gateway leaves behind *)

\* A step of a call that was about its gateway before, or has just read a gateway
\* that is there, leaves deleted gateways clean.
LEMMA CleanFrame ==
    ASSUME RoutersTypeOK, DeletedIsClean, NEW c \in Calls, NEW x \in CallState,
           call' = [call EXCEPT ![c] = x],
           x.pc \in {"upsert", "enqueue"} => x.gw # Null,
           x.pc # "idle" /\ x.gw # Null =>
              (call[c].pc # "idle" /\ call[c].gw = x.gw) \/ gateway[x.gw] = "present",
           UNCHANGED <<gateway, late>>, device'.gateway = device.gateway,
           \A g \in Gateways : \/ router'[g] = router[g] /\ commands'[g] = commands[g]
                               \/ call[c].pc # "idle" /\ call[c].gw = g
    PROVE  DeletedIsClean'
<1>0. call \in [Calls -> CallState] /\ Null \notin Gateways
  BY RoutersAssumption DEF RoutersTypeOK, CallState
<1>1. call'[c] = x /\ \A d \in Calls : d # c => call'[d] = call[d]
  BY <1>0
<1>2. device'.gateway # Null => gateway'[device'.gateway] = "present"
  BY DEF DeletedIsClean
<1>3. \A d \in Calls : call'[d].pc \in {"upsert", "enqueue"} => call'[d].gw # Null
  BY <1>1 DEF DeletedIsClean
<1>4. ASSUME NEW g \in Gateways, gateway'[g] = "deleted", g \notin late'
      PROVE  router'[g] = NoRow /\ commands'[g] = <<>> /\ ~Writing(g)'
  <2>1. /\ gateway[g] = "deleted" /\ router[g] = NoRow /\ commands[g] = <<>> /\ g # Null
        /\ \A d \in Calls : ~(call[d].pc # "idle" /\ call[d].gw = g)
    BY <1>0, <1>4 DEF DeletedIsClean, Writing
  <2>2. router'[g] = NoRow /\ commands'[g] = <<>>
    BY <2>1
  <2>3. ~(x.pc # "idle" /\ x.gw = g)
    BY <2>1
  <2> QED BY <1>1, <2>1, <2>2, <2>3 DEF Writing
<1> QED BY <1>2, <1>3, <1>4 DEF DeletedIsClean

LEMMA CallKeepsClean == ASSUME RoutersTypeOK, DeletedIsClean, NEW c \in Calls, Call(c) PROVE DeletedIsClean'
<1>0. /\ call \in [Calls -> CallState] /\ call[c] \in CallState /\ device \in DeviceRow
      /\ router \in [Gateways -> Rows] /\ commands \in [Gateways -> Seq(Command)]
      /\ IdleCall \in CallState /\ IdleCall.pc = "idle"
      /\ (device.gateway # Null => gateway[device.gateway] = "present")
  BY IdleTyped DEF RoutersTypeOK, CallState, DeviceRow, Command, DeletedIsClean
<1>1. ASSUME NEW op \in {"block", "unblock"}, CallStart(c, op) PROVE DeletedIsClean'
  <2>1. PICK x \in CallState : call' = [call EXCEPT ![c] = x]
                               /\ (x = IdleCall \/ (x.pc = "write" /\ x.gw = device.gateway))
    BY <1>1, CallStartShape
  <2>2. UNCHANGED <<device, gateway, router, commands, late>>
    BY <1>1 DEF CallStart
  <2> QED BY <1>0, <2>1, <2>2, CleanFrame
<1>2. CASE CallWrite(c)
  <2>1. PICK x \in CallState : call' = [call EXCEPT ![c] = x] /\ x.pc = "sync" /\ x.gw = call[c].gw
    BY <1>2, CallWriteShape
  <2>2. UNCHANGED <<gateway, router, commands, late>> /\ call[c].pc = "write"
        /\ device'.gateway = device.gateway
    BY <1>0, <1>2 DEF CallWrite, DeviceRow
  <2> QED BY <1>0, <2>1, <2>2, CleanFrame
<1>3. CASE CallRoute(c)
  <2>1. PICK x \in CallState : call' = [call EXCEPT ![c] = x]
                               /\ (x = IdleCall \/ (call[c].gw # Null /\ x.gw = call[c].gw))
    BY <1>3, CallRouteShape
  <2>2. UNCHANGED <<device, gateway, router, commands, late>> /\ call[c].pc = "sync"
    BY <1>3 DEF CallRoute
  <2> QED BY <1>0, <2>1, <2>2, CleanFrame
<1>4. CASE CallUpsert(c)
  <2>1. PICK x \in CallState : call' = [call EXCEPT ![c] = x]
                               /\ (x = IdleCall \/ (x.pc = "enqueue" /\ x.gw = call[c].gw))
    BY <1>4, CallUpsertShape
  <2>2. UNCHANGED <<device, gateway, commands, late>> /\ call[c].pc = "upsert" /\ call[c].gw # Null
    BY <1>4 DEF CallUpsert, DeletedIsClean
  <2>3. \A g \in Gateways : g # call[c].gw => router'[g] = router[g]
    BY <1>0, <1>4 DEF CallUpsert
  <2> QED BY <1>0, <2>1, <2>2, <2>3, CleanFrame
<1>5. CASE CallEnqueue(c)
  <2>1. UNCHANGED <<device, gateway, router, late>> /\ call[c].pc = "enqueue"
        /\ call' = [call EXCEPT ![c] = IdleCall]
    BY <1>5 DEF CallEnqueue
  <2>2. \A g \in Gateways : g # call[c].gw => commands'[g] = commands[g]
    BY <1>0, <1>5 DEF CallEnqueue
  <2> QED BY <1>0, <2>1, <2>2, CleanFrame
<1>6. CASE CallFails(c)
  BY <1>0, <1>6, CleanFrame DEF CallFails
<1>7. ASSUME NEW g \in Gateways, Request(c, g) PROVE DeletedIsClean'
  <2>1. PICK pc \in {"sync", "upsert", "enqueue"}, op \in Ops, row \in Rows :
           (pc = "upsert" => row \in Detected) /\ Owned(c, g, pc, op, row)
    BY <1>7, RequestIsOwned
  <2>2. PICK x \in CallState : call' = [call EXCEPT ![c] = x] /\ x.gw = g
    BY <2>1, OwnedShape
  <2>3. UNCHANGED <<device, gateway, router, commands, late>> /\ gateway[g] = "present" /\ g # Null
    BY <2>1, RoutersAssumption DEF Owned, Change
  <2> QED BY <1>0, <2>2, <2>3, CleanFrame
<1> QED BY <1>1, <1>2, <1>3, <1>4, <1>5, <1>6, <1>7 DEF Call, Request

\* A deletion drops the rows of its gateway, and whoever still is about to write
\* one makes the gateway late.
LEMMA OthersKeepClean ==
    ASSUME RoutersTypeOK, DeletedIsClean,
           Parent \/ \E g \in Gateways : AgentPoll(g) \/ AgentRun(g) \/ CommandFails(g)
    PROVE  DeletedIsClean'
<1>0. /\ device \in DeviceRow /\ router \in [Gateways -> Rows] /\ commands \in [Gateways -> Seq(Command)]
      /\ gateway \in [Gateways -> {"unused", "present", "deleted"}] /\ late \subseteq Gateways
      /\ Null \notin Gateways
  BY RoutersAssumption DEF RoutersTypeOK, DeviceRow, Command
<1>1. ASSUME NEW g \in Gateways, Register(g) PROVE DeletedIsClean'
  <2>1. /\ UNCHANGED <<device, router, commands, call, late>>
        /\ \A h \in Gateways : gateway'[h] = IF h = g THEN "present" ELSE gateway[h]
    BY <1>0, <1>1 DEF Register, Change
  <2>2. device.gateway \in Gateways \cup {Null}
    BY <1>0 DEF DeviceRow
  <2> QED BY <1>0, <2>1, <2>2 DEF DeletedIsClean, Writing
<1>2. ASSUME NEW g \in Gateways, DeleteGateway(g) PROVE DeletedIsClean'
  <2>1. /\ call' = call /\ late' = IF Writing(g) THEN late \cup {g} ELSE late
        /\ \A h \in Gateways : gateway'[h] = IF h = g THEN "deleted" ELSE gateway[h]
        /\ \A h \in Gateways : router'[h] = IF h = g THEN NoRow ELSE router[h]
        /\ \A h \in Gateways : commands'[h] = IF h = g THEN <<>> ELSE commands[h]
    BY <1>0, <1>2 DEF DeleteGateway
  <2>2. device.gateway \in Gateways \cup {Null}
        /\ device'.gateway = IF device.gateway = g THEN Null ELSE device.gateway
    BY <1>0, <1>2 DEF DeleteGateway, DeviceRow
  <2>3. device'.gateway # Null => gateway'[device'.gateway] = "present"
    BY <1>0, <2>1, <2>2 DEF DeletedIsClean
  <2>4. ASSUME NEW h \in Gateways, gateway'[h] = "deleted", h \notin late'
        PROVE  router'[h] = NoRow /\ commands'[h] = <<>> /\ ~Writing(h)'
    <3>1. CASE h = g
      BY <2>1, <2>4, <3>1 DEF Writing
    <3>2. CASE h # g
      BY <2>1, <2>4, <3>2 DEF Writing, DeletedIsClean
    <3> QED BY <3>1, <3>2
  <2> QED BY <2>1, <2>3, <2>4 DEF DeletedIsClean
<1>3. ASSUME NEW g \in Gateways, Attach(g) PROVE DeletedIsClean'
  <2>1. UNCHANGED <<gateway, router, commands, call, late>> /\ device'.gateway = g /\ gateway[g] = "present"
    BY <1>0, <1>3 DEF Attach, Change, DeviceRow
  <2> QED BY <2>1 DEF DeletedIsClean, Writing
<1>4. ASSUME device'.gateway = device.gateway, UNCHANGED <<gateway, router, call, late>>,
             \A g \in Gateways : commands'[g] = commands[g] \/ commands[g] # <<>>
      PROVE  DeletedIsClean'
  BY <1>4 DEF DeletedIsClean, Writing
<1>5. CASE \/ \E locked \in BOOLEAN : SetLock(locked)
           \/ \E st \in {"BLOCKED", "ONLINE"} : GatewayBlock(st)
           \/ LinkMicrosoft
  <2>1. device'.gateway = device.gateway /\ UNCHANGED <<gateway, router, commands, call, late>>
    BY <1>0, <1>5 DEF SetLock, GatewayBlock, LinkMicrosoft, Change, DeviceRow
  <2> QED BY <1>4, <2>1
<1>6. ASSUME NEW g \in Gateways, AgentPoll(g) PROVE DeletedIsClean'
  BY <1>4, <1>6 DEF AgentPoll
<1>7. ASSUME NEW g \in Gateways, AgentRun(g) \/ CommandFails(g) PROVE DeletedIsClean'
  <2>1. /\ UNCHANGED <<device, gateway, router, call, late>> /\ commands[g] # <<>>
        /\ \A h \in Gateways : h # g => commands'[h] = commands[h]
    BY <1>0, <1>7 DEF AgentRun, CommandFails
  <2> QED BY <1>4, <2>1
<1> QED BY <1>1, <1>2, <1>3, <1>5, <1>6, <1>7 DEF Parent

LEMMA RoutersInitClean == RoutersInit => DeletedIsClean
<1> SUFFICES ASSUME RoutersInit PROVE DeletedIsClean OBVIOUS
<1>1. /\ gateway = [h \in Gateways |-> IF h = device.gateway THEN "present" ELSE "unused"]
      /\ call = [c \in Calls |-> IdleCall]
  BY DEF RoutersInit
<1>2. device.gateway \in Gateways \cup {Null}
  BY RoutersInitTyped DEF RoutersTypeOK
<1>3. \A c \in Calls : call[c].pc = "idle"
  BY <1>1, IdleTyped
<1>4. \A h \in Gateways : gateway[h] # "deleted"
  BY <1>1
<1> QED BY <1>1, <1>2, <1>3, <1>4 DEF DeletedIsClean

LEMMA RoutersCleanStep ==
    RoutersTypeOK /\ DeletedIsClean /\ [RoutersNext]_routersVars => DeletedIsClean'
<1> SUFFICES ASSUME RoutersTypeOK, DeletedIsClean, [RoutersNext]_routersVars PROVE DeletedIsClean' OBVIOUS
<1>1. CASE UNCHANGED routersVars
  BY <1>1 DEF routersVars, DeletedIsClean, Writing
<1> QED BY <1>1, CallKeepsClean, OthersKeepClean DEF RoutersNext

\* However requests overlap the deletion of gateways, a command or a detected
\* router outlives its gateway only through a request that had read the gateway
\* before it went: deleteGateway leaves nothing behind itself.
THEOREM DeletionLeavesNoRows == RoutersSpec => []StrayRowsAreLate
<1>1. DeletedIsClean => StrayRowsAreLate
  BY DEF DeletedIsClean, StrayRowsAreLate
<1> QED BY <1>1, RoutersTyped, RoutersInitClean, RoutersCleanStep, PTL DEF RoutersSpec

----------------------------------------------------------------------------
(* Routers: the fast path of a block *)

\* Every strategy of a block lasts and is the device's own.
LEMMA BlockStrategiesPersist ==
    ASSUME NEW p
    PROVE  LET s == BuildStrategies(p, BlockStrategyPriority)
           IN Range(s) \subseteq Persistent /\ (DOMAIN s = {} <=> Range(s) = {})
<1> DEFINE s == BuildStrategies(p, BlockStrategyPriority)
<1>1. /\ DOMAIN BlockStrategyPriority = 1 .. 3
      /\ BlockStrategyPriority[1][1] = "PAUSE_DEVICE"
      /\ BlockStrategyPriority[2][1] = "APPLY_FIREWALL_RULE"
      /\ BlockStrategyPriority[3][1] = "BLOCK_MAC"
  BY DEF BlockStrategyPriority
<1>2. \A i \in DOMAIN BlockStrategyPriority : BlockStrategyPriority[i][1] \in Persistent
  BY <1>1 DEF Persistent
<1>3. /\ DOMAIN s \subseteq DOMAIN BlockStrategyPriority
      /\ \A i \in DOMAIN s : s[i] = BlockStrategyPriority[i][1]
  BY DEF BuildStrategies
<1> HIDE DEF s
<1>4. Range(s) \subseteq Persistent
  BY <1>2, <1>3 DEF Range
<1>5. DOMAIN s = {} <=> Range(s) = {}
  BY DEF Range
<1> QED BY <1>4, <1>5 DEF s

\* RouterFollowsStatus in terms of Usable.
LEMMA FollowsUsable ==
    RouterFollowsStatus <=>
        (alone /\ Idle /\ Delivered /\ device.gateway # Null =>
            (Range(Usable) # {} /\ cut[device.gateway] \subseteq Range(Usable) =>
                (cut[device.gateway] # {} <=> device.status = "BLOCKED")))
  BY DEF RouterFollowsStatus, Usable

LEMMA FollowsUsableNext ==
    RouterFollowsStatus' <=>
        (alone' /\ Idle' /\ Delivered' /\ device'.gateway # Null =>
            (Range(Usable') # {} /\ cut'[device'.gateway] \subseteq Range(Usable') =>
                (cut'[device'.gateway] # {} <=> device'.status = "BLOCKED")))
  BY DEF RouterFollowsStatus, Usable

\* Three kinds of steps keep the stages: a call begins ...
LEMMA StartKeepsSync ==
    ASSUME RoutersTypeOK, NEW c \in Calls, NEW op \in {"block", "unblock"}, CallStart(c, op)
    PROVE  UndisturbedSync'
<1> SUFFICES ASSUME alone' PROVE UnderWay(c)'
  BY DEF UndisturbedSync
<1>1. PICK x \in CallState : /\ call' = [call EXCEPT ![c] = x] /\ Idle /\ Delivered
                             /\ x.pc = "write" /\ x.op = op /\ x.gw = device.gateway
  BY CallStartShape
<1>2. call'[c] = x /\ \A d \in Calls : d # c => call'[d] = call[d]
  BY <1>1 DEF RoutersTypeOK
<1>3. UNCHANGED <<device, commands>>
  BY DEF CallStart
<1> QED BY <1>1, <1>2, <1>3 DEF UnderWay, Idle, Delivered

\* ... goes on ...
LEMMA GoingOnKeepsSync ==
    ASSUME RoutersTypeOK, UndisturbedSync, NEW c \in Calls,
           CallWrite(c) \/ CallRoute(c) \/ CallUpsert(c) \/ CallEnqueue(c)
    PROVE  UndisturbedSync'
<1> SUFFICES ASSUME alone' PROVE UndisturbedSync'
  BY DEF UndisturbedSync
<1>0. /\ alone /\ call[c].pc # "idle" /\ ~Idle
      /\ call \in [Calls -> CallState] /\ device \in DeviceRow
      /\ commands \in [Gateways -> Seq(Command)] /\ IdleCall.pc = "idle"
  BY IdleTyped DEF CallWrite, CallRoute, CallUpsert, CallEnqueue, Idle, RoutersTypeOK, CallState,
                   DeviceRow, Command
<1>1. UnderWay(c)
  <2>1. PICK d \in Calls : UnderWay(d)
    BY <1>0 DEF UndisturbedSync, Queued
  <2> QED BY <1>0, <2>1 DEF UnderWay
<1>2. CASE CallWrite(c)
  <2>1. PICK x \in CallState : /\ call' = [call EXCEPT ![c] = x]
                               /\ x.pc = "sync" /\ x.gw = call[c].gw /\ x.op = call[c].op
    BY <1>2, CallWriteShape
  <2>2. call'[c] = x /\ \A d \in Calls : d # c => call'[d] = call[d]
    BY <1>0, <2>1
  <2>3. /\ device'.status = StatusOf(call[c].op) /\ device'.gateway = device.gateway /\ commands' = commands
    BY <1>0, <1>2 DEF CallWrite, DeviceRow
  <2>4. UnderWay(c)'
    BY <1>1, <2>1, <2>2, <2>3 DEF UnderWay, Delivered
  <2> QED BY <2>4 DEF UndisturbedSync
<1>3. CASE CallRoute(c)
  <2>0. UNCHANGED <<device, router, commands, cut, alone>> /\ call[c].pc = "sync"
        /\ call[c].gw = device.gateway
        /\ BuildStrategies(Plugin(call[c].gw), PriorityOf(call[c].op)) = Usable
        /\ Usable' = Usable /\ Delivered /\ Delivered'
    BY <1>1, <1>3, OpsTyped DEF CallRoute, UnderWay, Usable, Plugin, Delivered
  <2>1. PICK x \in CallState :
           /\ call' = [call EXCEPT ![c] = x]
           /\ \/ (device.gateway = Null \/ DOMAIN Usable = {}) /\ x = IdleCall
              \/ /\ device.gateway # Null /\ DOMAIN Usable # {}
                 /\ x.pc = "enqueue" /\ x.gw = call[c].gw /\ x.op = call[c].op /\ x.strategies = Usable
    BY <1>3, <2>0, CallRouteShape
  <2>2. call'[c] = x /\ \A d \in Calls : d # c => call'[d] = call[d]
    BY <1>0, <2>1
  <2>3. CASE x = IdleCall
    <3>1. Idle'
      BY <1>0, <1>1, <2>2, <2>3 DEF Idle, UnderWay
    <3>2. device'.gateway = Null \/ Range(Usable') = {}
      <4>1. device.gateway = Null \/ DOMAIN Usable = {}
        BY <1>0, <2>1, <2>3
      <4> QED BY <2>0, <4>1, BlockStrategiesPersist DEF Usable
    <3>3. RouterFollowsStatus'
      BY <3>2, FollowsUsableNext
    <3> QED BY <2>0, <3>1, <3>3 DEF UndisturbedSync
  <2>4. CASE x # IdleCall
    <3>1. UnderWay(c)'
      BY <1>1, <2>0, <2>1, <2>2, <2>4 DEF UnderWay
    <3> QED BY <3>1 DEF UndisturbedSync
  <2> QED BY <2>3, <2>4
<1>4. CASE CallUpsert(c)
  BY <1>1, <1>4 DEF UnderWay, CallUpsert
<1>5. CASE CallEnqueue(c)
  <2>p. PICK op \in {"block", "unblock"} : op = call[c].op
    BY <1>1 DEF UnderWay
  <2> DEFINE g == device.gateway
             m == [type |-> CommandOf(op), strategies |-> Usable]
  <2>0. /\ UNCHANGED <<device, router, alone>> /\ call[c].pc = "enqueue" /\ call[c].gw = g
        /\ g # Null /\ g \in Gateways /\ DOMAIN Usable # {} /\ call[c].strategies = Usable /\ Usable' = Usable
        /\ device.status = StatusOf(op)
        /\ \A h \in Gateways : commands[h] = <<>>
    BY <1>0, <1>1, <1>5, <2>p DEF CallEnqueue, UnderWay, Usable, Plugin, Delivered, DeviceRow
  <2>1. Idle'
    BY <1>0, <1>1, <1>5 DEF Idle, UnderWay, CallEnqueue
  <2>2. commands' = [commands EXCEPT ![g] = Append(commands[g], m)]
    BY <1>5, <2>0, <2>p DEF CallEnqueue
  <2>3. commands[g] = <<>> /\ Append(<<>>, m) = <<m>>
    BY <2>0
  <2> HIDE DEF m
  <2>4. commands'[g] = <<m>> /\ \A h \in Gateways : h # g => commands'[h] = <<>>
    BY <1>0, <2>0, <2>2, <2>3
  <2>5. Queued(op)'
    BY <2>0, <2>1, <2>4 DEF Queued, m
  <2> QED BY <2>0, <2>5 DEF UndisturbedSync
<1> QED BY <1>2, <1>3, <1>4, <1>5

\* ... or the agent executes its command.
LEMMA RunKeepsSync ==
    ASSUME RoutersTypeOK, UndisturbedSync, NEW g \in Gateways, AgentRun(g)
    PROVE  UndisturbedSync'
<1> SUFFICES ASSUME alone' PROVE UndisturbedSync'
  BY DEF UndisturbedSync
<1>0. /\ alone /\ ~Delivered /\ commands[g] # <<>> /\ cut \in [Gateways -> SUBSET Persistent]
      /\ UNCHANGED <<device, router, call, alone>> /\ commands \in [Gateways -> Seq(Command)]
      /\ Usable' = Usable
  BY DEF AgentRun, Delivered, RoutersTypeOK, Usable, Plugin, Command
<1>1. PICK op \in {"block", "unblock"} : Queued(op)
  BY <1>0 DEF UndisturbedSync, UnderWay
<1> DEFINE m == [type |-> CommandOf(op), strategies |-> Usable]
<1>2. g = device.gateway /\ commands[g] = <<m>> /\ Idle /\ device.status = StatusOf(op) /\ Range(Usable) # {}
      /\ \A h \in Gateways : h # g => commands[h] = <<>>
  BY <1>0, <1>1, BlockStrategiesPersist DEF Queued, Usable
<1>3. Head(<<m>>) = m /\ Tail(<<m>>) = <<>>
  OBVIOUS
<1>4. PICK held \in Executed(m, cut[g]) : cut' = [cut EXCEPT ![g] = held]
  BY <1>2, <1>3 DEF AgentRun
<1>5. Idle' /\ Delivered'
  BY <1>0, <1>2, <1>3 DEF AgentRun, Idle, Delivered
<1>6. cut'[g] = held /\ Range(Usable) \subseteq Persistent
  BY <1>0, <1>4, BlockStrategiesPersist DEF Usable
<1>7. held \subseteq Range(Usable) => (held # {} <=> device.status = "BLOCKED")
  <2>1. CASE op = "block"
    <3>1. Executed(m, cut[g]) = {cut[g] \cup ({s} \cap Persistent) : s \in Range(Usable)}
      BY <2>1 DEF Executed, CommandOf
    <3>2. PICK s \in Range(Usable) : held = cut[g] \cup ({s} \cap Persistent)
      BY <3>1
    <3> QED BY <1>2, <1>6, <2>1, <3>2 DEF StatusOf
  <2>2. CASE op = "unblock"
    <3>1. Executed(m, cut[g]) = {cut[g] \ Range(Usable)}
      BY <2>2 DEF Executed, CommandOf
    <3> QED BY <1>2, <2>2, <3>1 DEF StatusOf
  <2> QED BY <2>1, <2>2
<1>8. RouterFollowsStatus'
  BY <1>0, <1>2, <1>6, <1>7, FollowsUsableNext
<1> QED BY <1>5, <1>8 DEF UndisturbedSync

LEMMA RoutersSyncStep ==
    RoutersTypeOK /\ UndisturbedSync /\ [RoutersNext]_routersVars => UndisturbedSync'
<1> SUFFICES ASSUME RoutersTypeOK, UndisturbedSync, [RoutersNext]_routersVars PROVE UndisturbedSync' OBVIOUS
<1>0. ASSUME ~alone' PROVE UndisturbedSync'
  BY <1>0 DEF UndisturbedSync
<1>1. ASSUME UNCHANGED <<device, router, commands, call, cut, alone>> PROVE UndisturbedSync'
  BY <1>1 DEF UndisturbedSync, UnderWay, Queued, Idle, Delivered, RouterFollowsStatus, Usable, Plugin
<1>2. ASSUME NEW c \in Calls, Call(c) PROVE UndisturbedSync'
  <2>1. ASSUME NEW g \in Gateways, Request(c, g) PROVE ~alone'
    BY <2>1 DEF Request, EndGamingSession, Setup, RecordDetection, QueueMac, QueueTest, Owned, Change, Disturb
  <2>2. CASE CallFails(c)
    BY <1>0, <2>2 DEF CallFails, Disturb
  <2> QED BY <1>0, <1>2, <2>1, <2>2, StartKeepsSync, GoingOnKeepsSync DEF Call, Request
<1>3. CASE Parent
  BY <1>0, <1>3 DEF Parent, Register, DeleteGateway, Attach, SetLock, GatewayBlock, LinkMicrosoft, Change, Disturb
<1>4. ASSUME NEW g \in Gateways, AgentPoll(g) PROVE UndisturbedSync'
  BY <1>1, <1>4 DEF AgentPoll
<1>5. ASSUME NEW g \in Gateways, CommandFails(g) PROVE UndisturbedSync'
  BY <1>0, <1>5 DEF CommandFails, Disturb
<1>6. CASE UNCHANGED routersVars
  BY <1>1, <1>6 DEF routersVars
<1> QED BY <1>2, <1>3, <1>4, <1>5, <1>6, RunKeepsSync DEF RoutersNext

\* Once a block or unblock that nothing disturbed has been executed, the router
\* holds the device off exactly if its status is BLOCKED, whichever strategy the
\* router took and whatever gateways, calls and routers there are besides.
THEOREM RouterFollows == RoutersSpec => []RouterFollowsStatus
<1>1. RoutersInit => UndisturbedSync
  BY DEF RoutersInit, UndisturbedSync
<1>2. RoutersTypeOK /\ UndisturbedSync => RouterFollowsStatus
  <2> SUFFICES ASSUME RoutersTypeOK, UndisturbedSync, alone, Idle, Delivered, device.gateway # Null
               PROVE  RouterFollowsStatus
    BY DEF RouterFollowsStatus
  <2>1. ASSUME NEW c \in Calls PROVE ~UnderWay(c)
    BY DEF UnderWay, Idle
  <2>2. ASSUME NEW op PROVE ~Queued(op)
    <3>1. device.gateway \in Gateways
      BY DEF RoutersTypeOK
    <3>2. commands[device.gateway] = <<>>
      BY <3>1 DEF Delivered
    <3> QED BY <3>2 DEF Queued
  <2> QED BY <2>1, <2>2 DEF UndisturbedSync
<1> QED BY <1>1, <1>2, RoutersTyped, RoutersSyncStep, PTL DEF RoutersSpec

----------------------------------------------------------------------------
(* Routers: the rating *)

\* A router whose DNS server can be changed can also pause a device.
LEMMA DnsRoutersPause ==
    \A p : IsSupported(p, "DNSChange") => IsSupported(p, "PauseDevice")
<1>1. \A v \in DOMAIN ApiRowsFirst :
          "DNSChange" \in ApiRowsFirst[v] => "PauseDevice" \in ApiRowsFirst[v]
  BY DEF ApiRowsFirst, PerDevice
<1>2. \A v \in DOMAIN ApiRowsSecond :
          "DNSChange" \in ApiRowsSecond[v] => "PauseDevice" \in ApiRowsSecond[v]
  BY DEF ApiRowsSecond, PerDevice
<1>3. \A v \in DOMAIN Matrix :
          \/ Matrix[v] = {}
          \/ v \in DOMAIN ApiRowsFirst /\ Matrix[v] = ApiRowsFirst[v]
          \/ v \in DOMAIN ApiRowsSecond /\ Matrix[v] = ApiRowsSecond[v]
  BY DEF Matrix, GuideOnly
<1> QED BY <1>1, <1>2, <1>3 DEF IsSupported, GetCapabilities, Recognised

\* The categories of a rating, one by one.
LEMMA CategoriesOfRating ==
    ASSUME NEW p, NEW f \in BOOLEAN
    PROVE  LET S == SupportedCategories(p, f)
           IN /\ "pauseDevice" \in S <=> IsSupported(p, "PauseDevice")
              /\ "accessSchedule" \in S <=> \/ IsSupported(p, "PauseDevice")
                                            \/ IsSupported(p, "FirewallRules")
                                            \/ IsSupported(p, "MACFiltering")
              /\ "blockDevice" \in S <=> IsSupported(p, "FirewallRules") \/ IsSupported(p, "MACFiltering")
              /\ "dnsFiltering" \in S <=> IsSupported(p, "DNSChange")
  BY DEF SupportedCategories, Weights

\* A block is queued exactly for the routers with one of the three flags.
LEMMA BlocksByFlag ==
    ASSUME NEW p
    PROVE  DOMAIN BuildStrategies(p, BlockStrategyPriority) # {}
             <=> \/ IsSupported(p, "PauseDevice")
                 \/ IsSupported(p, "FirewallRules")
                 \/ IsSupported(p, "MACFiltering")
<1>1. DOMAIN BuildStrategies(p, BlockStrategyPriority)
        = {i \in 1 .. 3 : IsSupported(p, BlockStrategyPriority[i][2])}
  BY DEF BuildStrategies, BlockStrategyPriority
<1>2. /\ BlockStrategyPriority[1][2] = "PauseDevice"
      /\ BlockStrategyPriority[2][2] = "FirewallRules"
      /\ BlockStrategyPriority[3][2] = "MACFiltering"
  BY DEF BlockStrategyPriority
<1> QED BY <1>1, <1>2

\* Without the three flags a router earns at most 30 of the 45 points that three
\* stars need, for without them it cannot filter by DNS either.
LEMMA FewStarsWithoutBlocks ==
    ASSUME NEW p, NEW f \in BOOLEAN,
           ~IsSupported(p, "PauseDevice"), ~IsSupported(p, "FirewallRules"), ~IsSupported(p, "MACFiltering")
    PROVE  ~(Stars(Score(p, f)) >= 3)
<1> DEFINE S == SupportedCategories(p, f)
<1>1. "pauseDevice" \notin S /\ "accessSchedule" \notin S /\ "blockDevice" \notin S
      /\ "dnsFiltering" \notin S
  BY CategoriesOfRating, DnsRoutersPause
<1>2. /\ Weights["statistics"] = 10 /\ Weights["parentalControls"] = 10
      /\ Weights["deviceDiscovery"] = 5 /\ Weights["firmwareDetection"] = 5
  BY DEF Weights
<1> HIDE DEF S
<1>3. Score(p, f) \in 0 .. 30
  BY <1>1, <1>2 DEF Score, MaxScore, S
<1> QED BY <1>3 DEF Stars

\* The first place of the list that matches, when it is known.
LEMMA FirstHit ==
    ASSUME NEW r, NEW i \in Hits(r), \A j \in Hits(r) : i <= j
    PROVE  ResolveVendor(r) = VendorNamePatterns[i]
<1>1. \A j \in Hits(r) : j \in Nat
  BY DEF Hits, VendorNamePatterns
<1>2. Min(Hits(r)) = i
  BY <1>1 DEF Min
<1> QED BY <1>2 DEF ResolveVendor

\* Where the lines of the list stand: none is listed twice, and every vendor with
\* an official API is.
LEMMA PatternsListed ==
    /\ \A i, j \in DOMAIN VendorNamePatterns : VendorNamePatterns[i] = VendorNamePatterns[j] => i = j
    /\ \A q : IntegrationStatus(q) = "OFFICIAL_API"
                 => \E i \in DOMAIN VendorNamePatterns : VendorNamePatterns[i] = q
    /\ DOMAIN VendorNamePatterns \subseteq Nat
<1>1. \A i, j \in DOMAIN VendorNamePatterns : VendorNamePatterns[i] = VendorNamePatterns[j] => i = j
  BY DEF VendorNamePatterns
<1>2. ASSUME NEW q, IntegrationStatus(q) = "OFFICIAL_API"
      PROVE  \E i \in DOMAIN VendorNamePatterns : VendorNamePatterns[i] = q
  <2>1. q \in DOMAIN ApiRowsFirst \cup DOMAIN ApiRowsSecond
    BY <1>2 DEF IntegrationStatus, Recognised, Matrix
  <2>2. /\ 1 .. 13 \subseteq DOMAIN VendorNamePatterns
        /\ VendorNamePatterns[1] = "fritzbox" /\ VendorNamePatterns[2] = "mikrotik"
        /\ VendorNamePatterns[3] = "openwrt" /\ VendorNamePatterns[4] = "unifi"
        /\ VendorNamePatterns[5] = "edgerouter" /\ VendorNamePatterns[6] = "glinet"
        /\ VendorNamePatterns[7] = "tplink_omada" /\ VendorNamePatterns[9] = "zyxel_nebula"
        /\ VendorNamePatterns[11] = "draytek" /\ VendorNamePatterns[12] = "linksys"
        /\ VendorNamePatterns[13] = "keenetic"
    BY DEF VendorNamePatterns
  <2>3. q \in {"fritzbox", "mikrotik", "openwrt", "unifi", "edgerouter", "glinet", "tplink_omada",
               "zyxel_nebula", "draytek", "linksys", "keenetic"}
    BY <2>1 DEF ApiRowsFirst, ApiRowsSecond
  <2> QED BY <2>2, <2>3
<1>3. DOMAIN VendorNamePatterns \subseteq Nat
  BY DEF VendorNamePatterns
<1> QED BY <1>1, <1>2, <1>3

\* Of the lines of one brand the one with an official API is recognised.
LEMMA DrivenLineRecognised ==
    ASSUME NEW r, OneBrand(r), NEW q \in r, IntegrationStatus(q) = "OFFICIAL_API"
    PROVE  ResolveVendor(r) = q
<1>1. PICK i \in DOMAIN VendorNamePatterns : VendorNamePatterns[i] = q
  BY PatternsListed
<1>2. i \in Hits(r)
  BY <1>1 DEF Hits
<1>3. ASSUME NEW j \in Hits(r) PROVE i <= j
  <2>1. j \in DOMAIN VendorNamePatterns /\ VendorNamePatterns[j] \in r /\ i \in Nat /\ j \in Nat
    BY PatternsListed DEF Hits
  <2>2. CASE VendorNamePatterns[j] = q
    BY <1>1, <2>1, <2>2, PatternsListed
  <2>3. CASE VendorNamePatterns[j] # q
    <3>1. \/ q = "tplink_omada" /\ VendorNamePatterns[j] = "tplink_consumer"
          \/ q = "zyxel_nebula" /\ VendorNamePatterns[j] = "zyxel_consumer"
      BY <2>1, <2>3 DEF OneBrand, IntegrationStatus, GuideOnlyVendors
    <3>2. /\ {7, 8, 9, 10} \subseteq DOMAIN VendorNamePatterns
          /\ VendorNamePatterns[7] = "tplink_omada" /\ VendorNamePatterns[8] = "tplink_consumer"
          /\ VendorNamePatterns[9] = "zyxel_nebula" /\ VendorNamePatterns[10] = "zyxel_consumer"
      BY DEF VendorNamePatterns
    <3>3. (i = 7 /\ j = 8) \/ (i = 9 /\ j = 10)
      BY <1>1, <2>1, <3>1, <3>2, PatternsListed
    <3> QED BY <3>3
  <2> QED BY <2>2, <2>3
<1> QED BY <1>1, <1>2, <1>3, FirstHit

\* The rating a parent is shown is what enforcement can do: the access schedule is
\* offered exactly for the routers a block is queued for, and three stars and more
\* are given to no other, for any reports, set-ups and gateways.
THEOREM RatingIsHonest == RoutersSpec => []RatingHonest
<1>1. ASSUME RoutersTypeOK PROVE RatingHonest
  <2> SUFFICES ASSUME NEW g \in Gateways, router[g] # NoRow
               PROVE  LET p == router[g].plugin
                          f == router[g].firmware
                          blocks == DOMAIN BuildStrategies(p, BlockStrategyPriority) # {}
                      IN /\ "accessSchedule" \in SupportedCategories(p, f) <=> blocks
                         /\ \A score \in {FeaturesScore(g), DiagnosticsScore(g)} :
                               Stars(score) >= 3 => blocks
                         /\ DrivenLinesRecognised
    BY DEF RatingHonest
  <2> DEFINE p == router[g].plugin
             f == router[g].firmware
             blocks == DOMAIN BuildStrategies(p, BlockStrategyPriority) # {}
  <2>1. f \in BOOLEAN /\ Plugin(g) = p
    BY <1>1 DEF RoutersTypeOK, Rows, Detected, NoRow, Plugin
  <2>2. DiagnosticsScore(g) = Score(p, f)
    BY <2>1 DEF DiagnosticsScore
  <2>3. FeaturesScore(g) = IF p = NoPlugin THEN Score(NoPlugin, FALSE) ELSE Score(p, f)
    BY <2>1 DEF FeaturesScore
  <2> HIDE DEF p, f
  <2>4. "accessSchedule" \in SupportedCategories(p, f) <=> blocks
    BY <2>1, CategoriesOfRating, BlocksByFlag
  <2>5. Stars(DiagnosticsScore(g)) >= 3 => blocks
    BY <2>1, <2>2, BlocksByFlag, FewStarsWithoutBlocks
  <2>6. Stars(FeaturesScore(g)) >= 3 => blocks
    <3>1. CASE p = NoPlugin
      BY <2>3, <3>1, BlocksByFlag, FewStarsWithoutBlocks
    <3>2. CASE p # NoPlugin
      BY <2>1, <2>3, <3>2, BlocksByFlag, FewStarsWithoutBlocks
    <3> QED BY <3>1, <3>2
  <2>7. DrivenLinesRecognised
    BY DrivenLineRecognised DEF DrivenLinesRecognised
  <2> QED BY <2>4, <2>5, <2>6, <2>7 DEF p, f
<1> QED BY <1>1, RoutersTyped, PTL
============================================================================
