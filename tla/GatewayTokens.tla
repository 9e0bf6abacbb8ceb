--------------------------- MODULE GatewayTokens ---------------------------
(***************************************************************************)
(* The token of one gateway: GatewayService.rotateToken, the two lookups   *)
(* of GatewayTokenGuard and the hand-over of the new token in the answer   *)
(* of getPolicies.  The agent is external: it polls one request at a time  *)
(* and keeps the rotatedToken of the answers it receives.                  *)
(*                                                                         *)
(* Tokens are numbered as they are generated; 0 stands for null, and the   *)
(* token of a row that was deleted is 0.                                   *)
(***************************************************************************)
EXTENDS Naturals

CONSTANTS Rotators,
          MaxTokens,   \* bound: tokens generated
          MaxLost      \* bound: answers lost in a row

ASSUME GatewayAssumption ==
    MaxTokens \in Nat \ {0} /\ MaxLost \in Nat

VARIABLES
    gateway,   \* token, previousToken, previousTokenExpiresAt still ahead
    minted,
    rotator,   \* local state of every rotateToken
    agent,     \* the token in the agent's configuration
    poll,      \* the poll under way
    lost,
    outrun,    \* history: since the agent last had the current token, a rotation
               \* was written that was not orderly, or the agent let the grace
               \* period pass, or the gateway was deleted
    rejected   \* history: the guard has turned the agent away without that

history == <<outrun, rejected>>
vars == <<gateway, minted, rotator, agent, poll, lost, history>>

IdlePoll == [pc |-> "idle", old |-> FALSE, new |-> 0]
NoRow == [token |-> 0, prev |-> 0, grace |-> FALSE]
IdleRotator == [pc |-> "idle", token |-> 0]

\* register: paired at once, the token installed in the agent.
Init ==
    /\ gateway = [token |-> 1, prev |-> 0, grace |-> FALSE]
    /\ minted = 1
    /\ rotator = [r \in Rotators |-> IdleRotator]
    /\ agent = 1
    /\ poll = IdlePoll
    /\ lost = 0 /\ outrun = FALSE /\ rejected = FALSE

----------------------------------------------------------------------------
(* rotateToken *)

\* findUnique; without a row it throws.
RotateRead(r) ==
    /\ rotator[r].pc = "idle" /\ minted < MaxTokens
    /\ gateway.token # 0
    /\ rotator' = [rotator EXCEPT ![r] = [pc |-> "update", token |-> gateway.token]]
    /\ UNCHANGED <<gateway, minted, agent, poll, lost, history>>

\* A rotation is orderly if none was written since it read the row, and the agent
\* has the token that it replaces.
Orderly(r) == rotator[r].token = gateway.token /\ agent = gateway.token

\* Mutant: the old token is dropped at once.
RotateDrop(r) ==
    /\ rotator[r].pc = "update" /\ minted < MaxTokens
    /\ gateway.token # 0
    /\ minted' = minted + 1
    /\ gateway' = [token |-> minted + 1, prev |-> 0, grace |-> FALSE]
    /\ rotator' = [rotator EXCEPT ![r] = IdleRotator]
    /\ outrun' = (outrun \/ ~Orderly(r))
    /\ UNCHANGED <<agent, poll, lost, rejected>>

\* gateway.update: previousToken is the token read before.
RotateUpdate(r) ==
    /\ rotator[r].pc = "update" /\ minted < MaxTokens
    /\ gateway.token # 0
    /\ minted' = minted + 1
    /\ gateway' = [token |-> minted + 1, prev |-> rotator[r].token, grace |-> TRUE]
    /\ rotator' = [rotator EXCEPT ![r] = IdleRotator]
    /\ outrun' = (outrun \/ ~Orderly(r))
    /\ UNCHANGED <<agent, poll, lost, rejected>>

\* The update of a row that was deleted meanwhile rejects.
RotateFails(r) ==
    /\ rotator[r].pc = "update" /\ gateway.token = 0
    /\ rotator' = [rotator EXCEPT ![r] = IdleRotator]
    /\ UNCHANGED <<gateway, minted, agent, poll, lost, history>>

\* previousTokenExpiresAt passes.
GraceEnds ==
    /\ gateway.grace
    /\ gateway' = [gateway EXCEPT !.grace = FALSE]
    /\ outrun' = (outrun \/ agent # gateway.token)
    /\ UNCHANGED <<minted, rotator, agent, poll, lost, rejected>>

\* deleteGateway, of this gateway.
RowDeleted ==
    /\ gateway.token # 0
    /\ gateway' = NoRow
    /\ outrun' = TRUE
    /\ UNCHANGED <<minted, rotator, agent, poll, lost, rejected>>

----------------------------------------------------------------------------
(* GatewayTokenGuard.canActivate and getPolicies *)

\* findUnique by token; no row: the fallback comes next.
GuardToken ==
    /\ poll.pc = "idle"
    /\ poll' = [poll EXCEPT !.pc = IF agent = gateway.token THEN "policies" ELSE "fallback"]
    /\ UNCHANGED <<gateway, minted, rotator, agent, lost, history>>

\* findFirst by previousToken within its grace period.
GuardPrevious ==
    /\ poll.pc = "fallback"
    /\ \/ /\ gateway.prev = agent /\ gateway.grace
          /\ poll' = [poll EXCEPT !.pc = "policies", !.old = TRUE]
          /\ UNCHANGED rejected
       \/ /\ ~(gateway.prev = agent /\ gateway.grace)
          /\ poll' = IdlePoll
          /\ rejected' = (rejected \/ ~outrun)
    /\ UNCHANGED <<gateway, minted, rotator, agent, lost, outrun>>

\* rotatedToken: the row's token when the previous one was used.
Policies ==
    /\ poll.pc = "policies" /\ gateway.token # 0
    /\ poll' = [poll EXCEPT !.pc = "answer", !.new = IF poll.old THEN gateway.token ELSE 0]
    /\ UNCHANGED <<gateway, minted, rotator, agent, lost, history>>

\* The row was deleted since the guard: NotFoundException.
PoliciesGone ==
    /\ poll.pc = "policies" /\ gateway.token = 0
    /\ poll' = IdlePoll
    /\ UNCHANGED <<gateway, minted, rotator, agent, lost, history>>

\* The agent keeps the token it is given.
Answer ==
    /\ poll.pc = "answer"
    /\ agent' = IF poll.new # 0 THEN poll.new ELSE agent
    /\ poll' = IdlePoll
    /\ lost' = 0
    /\ outrun' = (outrun /\ agent' # gateway.token)
    /\ UNCHANGED <<gateway, minted, rotator, rejected>>

AnswerLost ==
    /\ poll.pc # "idle" /\ lost < MaxLost
    /\ poll' = IdlePoll
    /\ lost' = lost + 1
    /\ UNCHANGED <<gateway, minted, rotator, agent, history>>

Poll == GuardToken \/ GuardPrevious \/ Policies \/ PoliciesGone \/ Answer

Next ==
    \/ \E r \in Rotators : RotateRead(r) \/ RotateUpdate(r) \/ RotateFails(r)
    \/ GraceEnds \/ RowDeleted \/ Poll \/ AnswerLost

Spec == Init /\ [][Next]_vars

----------------------------------------------------------------------------
(* Properties *)

\* The tokens of the gateway and of the agent are ones that were generated, or
\* the row is gone.
TypeOK ==
    /\ gateway \in [token : 0 .. MaxTokens, prev : 0 .. MaxTokens, grace : BOOLEAN]
    /\ minted \in 1 .. MaxTokens
    /\ rotator \in [Rotators -> [pc : {"idle", "update"}, token : 0 .. MaxTokens]]
    /\ agent \in 1 .. MaxTokens
    /\ poll \in [pc : {"idle", "fallback", "policies", "answer"}, old : BOOLEAN,
                 new : 0 .. MaxTokens]
    /\ lost \in 0 .. MaxLost /\ outrun \in BOOLEAN /\ rejected \in BOOLEAN

\* "a parent-triggered rotation never locks out an already-deployed agent": the
\* guard turns the agent away only if, since the agent last had the current token,
\* the grace period passed, the gateway was deleted, or a rotation overlapped
\* another or came before the agent had taken up the token of the one before.
\* Lost answers, late polls and rotations in the middle of a poll do not count.
NeverLockedOut == ~rejected

----------------------------------------------------------------------------
(* The inductive invariant behind NeverLockedOut                           *)

\* The agent has the current token, or the previous one within its grace period.
AgentHasToken == agent = gateway.token \/ (agent = gateway.prev /\ gateway.grace)

\* What the poll under way has found out is still so: it fell back because the
\* agent has the previous token, and answers with the current one.
PollUndisturbed ==
    /\ poll.pc = "fallback" => agent = gateway.prev /\ gateway.grace /\ agent # gateway.token
    /\ poll.old => agent # gateway.token
    /\ poll.new # 0 => poll.new = gateway.token

\* A poll that carries a token was authenticated with the previous one.
PollShape ==
    /\ poll.pc = "idle" => poll = IdlePoll
    /\ poll.new # 0 => poll.old

GatewayInv ==
    /\ TypeOK /\ PollShape /\ (~outrun => AgentHasToken /\ PollUndisturbed) /\ NeverLockedOut
============================================================================
