----------------------------- MODULE Commands -----------------------------
(***************************************************************************)
(* The command tables: RouterCommand, polled by the gateway agent          *)
(* (RouterCommandService), and Command, polled by the Android agent        *)
(* (ChildAgentService) and also handed to a BullMQ worker                  *)
(* (CommandQueueService, CommandQueueProcessor).  The two polls are the    *)
(* same code, each over the commands of its own agent.                     *)
(*                                                                         *)
(* The agent is external: it executes what an answer holds and             *)
(* acknowledges it.  Answers may be lost.                                  *)
(***************************************************************************)
EXTENDS Naturals

CONSTANTS Cmds, Polls,
          Android,        \* the commands and polls of the Android agent; the
                          \* others are the router's and have no BullMQ job
          MaxAttempts,    \* `attempts: 3` of the job
          MaxLost         \* bound: messages lost

ASSUME CommandsAssumption ==
    Android \subseteq Cmds \cup Polls /\ MaxAttempts \in Nat \ {0} /\ MaxLost \in Nat

\* Either agent waits for the answer to a poll before it sends the next.
ASSUME OnePollEach ==
    \A p, q \in Polls : (p \in Android <=> q \in Android) => p = q

VARIABLES
    status,    \* the status column; "NONE": no row
    job,       \* the BullMQ job of the command and the attempts it has left
    poll,      \* local state of every poll
    unacked,   \* commands the agent has executed and not yet acknowledged
    lost,
    received,  \* history: how often the agent was given the command
    dropped,   \* history: commands marked for an answer that was lost
    byWorker   \* history: commands marked DELIVERED by the BullMQ worker

vars == <<status, job, poll, unacked, lost, received, dropped, byWorker>>
fate == <<dropped, byWorker>>

\* The commands of the agent that sends poll p.
Own(p) == {c \in Cmds : c \in Android <=> p \in Android}

IdlePoll == [pc |-> "idle", batch |-> {}]
NoJob == [state |-> "none", left |-> 0]

Init ==
    /\ status = [c \in Cmds |-> "NONE"]
    /\ job = [c \in Cmds |-> NoJob]
    /\ poll = [p \in Polls |-> IdlePoll]
    /\ unacked = {} /\ lost = 0
    /\ received = [c \in Cmds |-> 0]
    /\ dropped = {} /\ byWorker = {}

----------------------------------------------------------------------------
(* Creating a command *)

\* enqueueCommand of the router queue; createCommand up to the BullMQ queue.
Create(c) ==
    /\ status[c] = "NONE"
    /\ status' = [status EXCEPT ![c] = "PENDING"]
    /\ job' = [job EXCEPT ![c].state = IF c \in Android THEN "adding" ELSE "none"]
    /\ UNCHANGED <<poll, unacked, lost, received, fate>>

\* commandQueue.add; when Redis fails the command stays without a job.
AddJob(c) ==
    /\ job[c].state = "adding"
    /\ \/ job' = [job EXCEPT ![c] = [state |-> "waiting", left |-> MaxAttempts]]
       \/ job' = [job EXCEPT ![c] = NoJob]
    /\ UNCHANGED <<status, poll, unacked, lost, received, fate>>

----------------------------------------------------------------------------
(* CommandQueueProcessor.process *)

\* The device is there and not OFFLINE (no code ever writes OFFLINE): the
\* command is marked DELIVERED, whatever its status.
JobMark(c) ==
    /\ job[c].state = "waiting"
    /\ status' = [status EXCEPT ![c] = "DELIVERED"]
    /\ job' = [job EXCEPT ![c] = NoJob]
    /\ byWorker' = byWorker \cup {c}
    /\ UNCHANGED <<poll, unacked, lost, received, dropped>>

\* A run throws: retried until no attempt is left.
JobFails(c) ==
    /\ job[c].state = "waiting"
    /\ job' = IF job[c].left > 1 THEN [job EXCEPT ![c].left = @ - 1]
              ELSE [job EXCEPT ![c] = NoJob]
    /\ UNCHANGED <<status, poll, unacked, lost, received, fate>>

----------------------------------------------------------------------------
(* getPendingCommands, getCommands *)

\* Mutant: reads everything that is not acknowledged.
PollReadUnacked(p) ==
    /\ poll[p].pc = "idle"
    /\ LET open == {c \in Own(p) : status[c] \notin {"NONE", "ACKNOWLEDGED"}}
       IN /\ open # {}
          /\ poll' = [poll EXCEPT ![p] = [pc |-> "mark", batch |-> open]]
    /\ UNCHANGED <<status, job, unacked, lost, received, fate>>

PollRead(p) ==
    /\ poll[p].pc = "idle"
    /\ LET pending == {c \in Own(p) : status[c] = "PENDING"}
       IN /\ pending # {}
          /\ poll' = [poll EXCEPT ![p] = [pc |-> "mark", batch |-> pending]]
    /\ UNCHANGED <<status, job, unacked, lost, received, fate>>

\* Mutant: marks whatever is PENDING now, not the rows that were read.
PollMarkAll(p) ==
    /\ poll[p].pc = "mark"
    /\ status' = [c \in Cmds |-> IF c \in Own(p) /\ status[c] = "PENDING" THEN "DELIVERED" ELSE status[c]]
    /\ poll' = [poll EXCEPT ![p].pc = "answer"]
    /\ UNCHANGED <<job, unacked, lost, received, fate>>

\* Mutant: answers without marking.
PollMarkNone(p) ==
    /\ poll[p].pc = "mark"
    /\ poll' = [poll EXCEPT ![p].pc = "answer"]
    /\ UNCHANGED <<status, job, unacked, lost, received, fate>>

\* updateMany by the ids read, without a condition on their status.
PollMark(p) ==
    /\ poll[p].pc = "mark"
    /\ status' = [c \in Cmds |-> IF c \in poll[p].batch THEN "DELIVERED" ELSE status[c]]
    /\ poll' = [poll EXCEPT ![p].pc = "answer"]
    /\ UNCHANGED <<job, unacked, lost, received, fate>>

\* The answer reaches the agent.
Receive(p) ==
    /\ poll[p].pc = "answer"
    /\ unacked' = unacked \cup poll[p].batch
    /\ received' = [c \in Cmds |-> IF c \in poll[p].batch THEN received[c] + 1 ELSE received[c]]
    /\ poll' = [poll EXCEPT ![p] = IdlePoll]
    /\ UNCHANGED <<status, job, lost, fate>>

\* The answer is lost, or the process dies before or after the update.
PollLost(p) ==
    /\ poll[p].pc # "idle" /\ lost < MaxLost
    /\ lost' = lost + 1
    /\ dropped' = IF poll[p].pc = "answer" THEN dropped \cup poll[p].batch ELSE dropped
    /\ poll' = [poll EXCEPT ![p] = IdlePoll]
    /\ UNCHANGED <<status, job, unacked, received, byWorker>>

----------------------------------------------------------------------------
(* acknowledgeCommand *)

\* Mutant: only a success is written.
AckSuccessOnly(c) ==
    /\ c \in unacked
    /\ \E s \in {"ACKNOWLEDGED", status[c]} : status' = [status EXCEPT ![c] = s]
    /\ unacked' = unacked \ {c}
    /\ UNCHANGED <<job, poll, lost, received, fate>>

\* The row exists; its status is overwritten, whatever it is.
Ack(c) ==
    /\ c \in unacked
    /\ \E s \in {"ACKNOWLEDGED", "FAILED"} : status' = [status EXCEPT ![c] = s]
    /\ unacked' = unacked \ {c}
    /\ UNCHANGED <<job, poll, lost, received, fate>>

\* The answer to the acknowledgement is lost: the agent will send it again.
AckUnanswered(c) ==
    /\ c \in unacked /\ lost < MaxLost
    /\ lost' = lost + 1
    /\ \E s \in {"ACKNOWLEDGED", "FAILED"} : status' = [status EXCEPT ![c] = s]
    /\ UNCHANGED <<job, poll, unacked, received, fate>>

PollStep(p) == PollRead(p) \/ PollMark(p) \/ Receive(p)

Next ==
    \/ \E c \in Cmds : \/ Create(c) \/ AddJob(c) \/ JobMark(c) \/ JobFails(c)
                       \/ Ack(c) \/ AckUnanswered(c)
    \/ \E p \in Polls : PollStep(p) \/ PollLost(p)

Spec == Init /\ [][Next]_vars

\* Agents keep polling and acknowledge what they received; BullMQ runs jobs.
FairSpec ==
    /\ Spec
    /\ \A p \in Polls : WF_vars(PollStep(p))
    /\ \A c \in Cmds : WF_vars(Ack(c)) /\ WF_vars(AddJob(c)) /\ WF_vars(JobMark(c))

----------------------------------------------------------------------------
(* Properties *)

\* Statuses are those of the lifecycle and a job is never attempted more often
\* than CommandQueueService allows.
TypeOK ==
    /\ status \in [Cmds -> {"NONE", "PENDING", "DELIVERED", "ACKNOWLEDGED", "FAILED"}]
    /\ job \in [Cmds -> [state : {"none", "adding", "waiting"}, left : 0 .. MaxAttempts]]
    /\ poll \in [Polls -> [pc : {"idle", "mark", "answer"}, batch : SUBSET Cmds]]
    /\ unacked \subseteq Cmds /\ lost \in 0 .. MaxLost
    /\ received \in [Cmds -> Nat]
    /\ dropped \subseteq Cmds /\ byWorker \subseteq Cmds

\* No command is given to the agent twice: getPendingCommands marks the rows
\* it returns.  Holds for an agent that polls one request at a time.
GivenOnce == \A c \in Cmds : received[c] <= 1

Settled == {"ACKNOWLEDGED", "FAILED"}

\* Rows are marked before the answer is on the wire, and nothing selects them
\* again.  A command that is marked and was not received is in an answer under way,
\* was in the very answer that was lost, or was marked by the worker: no poll marks
\* what it does not return, and a loss takes no other command with it.
DeliveredIsAccounted ==
    \A c \in Cmds : status[c] = "DELIVERED" /\ received[c] = 0 =>
        \/ \E p \in Polls : poll[p].pc = "answer" /\ c \in poll[p].batch
        \/ c \in dropped \cup byWorker

\* "PENDING/DELIVERED/ACKNOWLEDGED/FAILED lifecycle": an acknowledged or failed
\* router command does not go back to PENDING or DELIVERED, whatever polls were
\* under way when it was settled.  (A late BullMQ job takes an Android command
\* back to DELIVERED.)
SettledIsFinal ==
    [][\A c \in Cmds \ Android : status[c] \in Settled => status'[c] \in Settled]_vars

\* "Durable, retryable router-action queue": a queued command is eventually
\* acknowledged or failed, unless the very answer that carried it was lost, or the
\* worker marked it before the agent polled for it; it is given out only once, and
\* nothing looks for it again.
EveryCommandSettles ==
    \A c \in Cmds :
        (status[c] = "PENDING") ~> (status[c] \in Settled \/ c \in dropped \cup byWorker)

----------------------------------------------------------------------------
(* The inductive invariant behind GivenOnce and SettledIsFinal; next to it *)
(* DeliveredIsAccounted is inductive                                       *)

\* A poll holds commands of its own agent; what it is going to mark or to hand
\* over exists and has not been given out, and after the update it is no longer
\* PENDING for the next poll.
BatchIsNew ==
    \A p \in Polls, c \in Cmds : c \in poll[p].batch =>
        /\ c \in Own(p) /\ received[c] = 0
        /\ status[c] # "NONE"
        /\ poll[p].pc = "answer" => status[c] # "PENDING"

\* What is still to be given out was not given out before.
WaitingIsNew == \A c \in Cmds : status[c] \in {"NONE", "PENDING"} => received[c] = 0

\* A settled command was received.
SettledWasReceived == \A c \in Cmds : status[c] \in Settled => received[c] > 0

\* The agent acknowledges what it has received.
AckedWasReceived == \A c \in unacked : received[c] > 0

\* Only commands of the Android agent have a BullMQ job.
JobsAreAndroid == \A c \in Cmds \ Android : job[c].state = "none"

DeliveryInv == /\ TypeOK /\ BatchIsNew /\ WaitingIsNew /\ AckedWasReceived
               /\ JobsAreAndroid /\ GivenOnce /\ SettledWasReceived
============================================================================
