--------------------------- MODULE GatewayProofs ---------------------------
(***************************************************************************)
(* Proofs about the token of a gateway: its types, and that the guard      *)
(* turns the agent away only when the tokens have run away from it, for    *)
(* any overlap of rotations, polls, lost answers and a deletion; that the  *)
(* household of GatewayPolicies implements GatewayTokens, and so has these *)
(* properties too; and that only detections under way when their gateway   *)
(* was deleted outlive it.                                                 *)
(***************************************************************************)
EXTENDS GatewayPolicies, TLAPS

\* The row, the poll and the rotations of a gateway that was just registered.
LEMMA InitTyped == Init => TypeOK
<1> SUFFICES ASSUME Init PROVE TypeOK OBVIOUS
<1>0. MaxTokens \in Nat /\ MaxLost \in Nat /\ 1 \in 0 .. MaxTokens /\ 1 \in 1 .. MaxTokens /\ 0 \in 0 .. MaxTokens
      /\ 0 \in 0 .. MaxLost
  BY GatewayAssumption
<1>1. gateway \in [token : 0 .. MaxTokens, prev : 0 .. MaxTokens, grace : BOOLEAN]
  BY <1>0 DEF Init
<1>2. poll \in [pc : {"idle", "fallback", "policies", "answer"}, old : BOOLEAN, new : 0 .. MaxTokens]
  BY <1>0 DEF Init, IdlePoll
<1>3. rotator \in [Rotators -> [pc : {"idle", "update"}, token : 0 .. MaxTokens]]
  BY <1>0 DEF Init, IdleRotator
<1> QED BY <1>0, <1>1, <1>2, <1>3 DEF Init, TypeOK

\* The values of poll.
PollState == [pc : {"idle", "fallback", "policies", "answer"}, old : BOOLEAN, new : 0 .. MaxTokens]

\* A poll that goes on is a poll.
LEMMA PollGoesOn ==
    ASSUME NEW p \in PollState, NEW pc \in {"fallback", "policies"}, NEW n \in 0 .. MaxTokens
    PROVE  /\ [p EXCEPT !.pc = pc] \in PollState
           /\ [p EXCEPT !.pc = pc, !.old = TRUE] \in PollState
           /\ [p EXCEPT !.pc = "answer", !.new = n] \in PollState
  BY DEF PollState

\* The tokens of the gateway, of the agent and of the poll are ones that were
\* generated, however rotations overlap.
THEOREM TokensTyped == Spec => []TypeOK
<1>1. Init => TypeOK
  BY InitTyped
<1>2. TypeOK /\ [Next]_vars => TypeOK'
  <2> SUFFICES ASSUME TypeOK, [Next]_vars PROVE TypeOK' OBVIOUS
  <2> USE DEF TypeOK
  <2>0. MaxTokens \in Nat /\ MaxLost \in Nat
    BY GatewayAssumption
  <2>1. ASSUME NEW r \in Rotators, RotateRead(r) PROVE TypeOK'
    BY <2>0, <2>1 DEF RotateRead, history
  <2>2. ASSUME NEW r \in Rotators, RotateUpdate(r) PROVE TypeOK'
    <3>1. gateway' \in [token : 0 .. MaxTokens, prev : 0 .. MaxTokens, grace : BOOLEAN]
      BY <2>0, <2>2 DEF RotateUpdate
    <3>2. outrun' \in BOOLEAN
      BY <2>2 DEF RotateUpdate
    <3> QED BY <2>0, <2>2, <3>1, <3>2 DEF RotateUpdate, IdleRotator
  <2>f. ASSUME NEW r \in Rotators, RotateFails(r) PROVE TypeOK'
    BY <2>0, <2>f DEF RotateFails, IdleRotator, history
  <2>3. CASE GraceEnds
    <3>1. gateway' \in [token : 0 .. MaxTokens, prev : 0 .. MaxTokens, grace : BOOLEAN]
      BY <2>3 DEF GraceEnds
    <3>2. outrun' \in BOOLEAN
      BY <2>3 DEF GraceEnds
    <3> QED BY <2>3, <3>1, <3>2 DEF GraceEnds
  <2>d. CASE RowDeleted
    <3>1. gateway' \in [token : 0 .. MaxTokens, prev : 0 .. MaxTokens, grace : BOOLEAN]
      BY <2>0, <2>d DEF RowDeleted, NoRow
    <3> QED BY <2>d, <3>1 DEF RowDeleted
  <2>p. poll \in PollState /\ IdlePoll \in PollState /\ 0 \in 0 .. MaxTokens
        /\ gateway.token \in 0 .. MaxTokens
    BY <2>0 DEF PollState, IdlePoll
  <2>4. CASE GuardToken
    <3>1. poll' \in PollState
      BY <2>4, <2>p, PollGoesOn DEF GuardToken
    <3> QED BY <2>4, <3>1 DEF GuardToken, PollState, history
  <2>5. CASE GuardPrevious
    <3>1. poll' \in PollState
      BY <2>5, <2>p, PollGoesOn DEF GuardPrevious
    <3>2. rejected' \in BOOLEAN
      BY <2>5 DEF GuardPrevious
    <3> QED BY <2>5, <3>1, <3>2 DEF GuardPrevious, PollState
  <2>6. CASE Policies
    <3>1. poll' \in PollState
      BY <2>6, <2>p, PollGoesOn DEF Policies
    <3> QED BY <2>6, <3>1 DEF Policies, PollState, history
  <2>g. CASE PoliciesGone
    BY <2>0, <2>g DEF PoliciesGone, IdlePoll, history
  <2>7. CASE Answer
    <3>1. agent' \in 1 .. MaxTokens
      BY <2>0, <2>7 DEF Answer
    <3>2. outrun' \in BOOLEAN
      BY <2>7 DEF Answer
    <3> QED BY <2>0, <2>7, <3>1, <3>2 DEF Answer, IdlePoll
  <2>8. CASE AnswerLost
    BY <2>0, <2>8 DEF AnswerLost, IdlePoll, history
  <2>9. CASE UNCHANGED vars
    BY <2>9 DEF vars, history
  <2> QED BY <2>1, <2>2, <2>f, <2>3, <2>d, <2>4, <2>5, <2>6, <2>g, <2>7, <2>8, <2>9 DEF Next, Poll
<1> QED BY <1>1, <1>2, PTL DEF Spec

\* The guard's two lookups, the grace period and the hand-over of the new token in
\* the answer of getPolicies keep the agent in as long as the tokens do not run away
\* from it, however polls, rotations and a deletion interleave and answers are lost.
THEOREM TokenInvariance == Spec => []GatewayInv
<1>1. Init => GatewayInv
  <2> SUFFICES ASSUME Init PROVE GatewayInv OBVIOUS
  <2>1. TypeOK
    BY InitTyped
  <2>2. PollShape /\ AgentHasToken /\ PollUndisturbed /\ NeverLockedOut
    BY DEF Init, AgentHasToken, PollShape, PollUndisturbed, NeverLockedOut, IdlePoll
  <2> QED BY <2>1, <2>2 DEF GatewayInv
<1>2. GatewayInv /\ TypeOK' /\ [Next]_vars => GatewayInv'
  <2> SUFFICES ASSUME GatewayInv, TypeOK', [Next]_vars PROVE GatewayInv' OBVIOUS
  <2> USE DEF NeverLockedOut
  <2>0. TypeOK /\ PollShape /\ (~outrun => AgentHasToken /\ PollUndisturbed) /\ ~rejected
    BY DEF GatewayInv
  <2>t. /\ agent \in Nat /\ agent # 0
        /\ rotator \in [Rotators -> [pc : {"idle", "update"}, token : 0 .. MaxTokens]]
        /\ gateway \in [token : 0 .. MaxTokens, prev : 0 .. MaxTokens, grace : BOOLEAN]
        /\ poll \in [pc : {"idle", "fallback", "policies", "answer"}, old : BOOLEAN,
                     new : 0 .. MaxTokens]
        /\ IdlePoll.pc = "idle" /\ ~IdlePoll.old /\ IdlePoll.new = 0
    BY <2>0 DEF TypeOK, IdlePoll
  <2>s. ASSUME PollShape', ~rejected', ~outrun' => AgentHasToken' /\ PollUndisturbed'
        PROVE  GatewayInv'
    BY <2>s DEF GatewayInv
  <2>u. ASSUME UNCHANGED <<gateway, agent, poll, history>> PROVE GatewayInv'
    BY <2>0, <2>u, <2>s DEF AgentHasToken, PollShape, PollUndisturbed, history
  <2>1. ASSUME NEW r \in Rotators, RotateRead(r) \/ RotateFails(r) PROVE GatewayInv'
    BY <2>1, <2>u DEF RotateRead, RotateFails
  <2>2. ASSUME NEW r \in Rotators, RotateUpdate(r) PROVE GatewayInv'
    <3>1. /\ gateway'.token = minted + 1 /\ gateway'.prev = rotator[r].token /\ gateway'.grace
          /\ UNCHANGED <<agent, poll, rejected>> /\ outrun' = (outrun \/ ~Orderly(r))
      BY <2>2 DEF RotateUpdate
    <3>2. ASSUME ~outrun' PROVE AgentHasToken' /\ PollUndisturbed'
      <4>1. ~outrun /\ rotator[r].token = gateway.token /\ agent = gateway.token
        BY <3>1, <3>2 DEF Orderly
      <4>2. poll.pc # "fallback" /\ ~poll.old /\ poll.new = 0
        BY <2>0, <4>1 DEF PollUndisturbed, PollShape
      <4> QED BY <3>1, <4>1, <4>2 DEF AgentHasToken, PollUndisturbed
    <3> QED BY <2>0, <2>s, <3>1, <3>2 DEF PollShape
  <2>3. CASE GraceEnds
    <3>1. /\ gateway'.token = gateway.token
          /\ UNCHANGED <<agent, poll, rejected>> /\ outrun' = (outrun \/ agent # gateway.token)
      BY <2>3, <2>t DEF GraceEnds
    <3>2. ASSUME ~outrun' PROVE AgentHasToken' /\ PollUndisturbed'
      <4>1. ~outrun /\ agent = gateway.token
        BY <3>1, <3>2
      <4> QED BY <2>0, <3>1, <4>1 DEF AgentHasToken, PollUndisturbed
    <3> QED BY <2>0, <2>s, <3>1, <3>2 DEF PollShape
  <2>d. CASE RowDeleted
    BY <2>0, <2>d, <2>s DEF RowDeleted, PollShape
  <2>4. CASE GuardToken
    <3>1. /\ poll.pc = "idle" /\ poll'.pc = IF agent = gateway.token THEN "policies" ELSE "fallback"
          /\ poll'.old = poll.old /\ poll'.new = poll.new
          /\ UNCHANGED <<gateway, agent, history>>
      BY <2>4, <2>t DEF GuardToken
    <3>2. poll.old = FALSE /\ poll.new = 0
      BY <2>0, <2>t, <3>1 DEF PollShape, IdlePoll
    <3>3. PollShape' /\ (~outrun' => AgentHasToken' /\ PollUndisturbed')
      BY <2>0, <3>1, <3>2 DEF AgentHasToken, PollShape, PollUndisturbed, history
    <3> QED BY <2>0, <2>s, <3>1, <3>3 DEF history
  <2>5. CASE GuardPrevious
    <3>1. poll.pc = "fallback" /\ UNCHANGED <<gateway, agent, outrun>>
      BY <2>5 DEF GuardPrevious
    <3>2. CASE gateway.prev = agent /\ gateway.grace
      <4>1. /\ poll'.pc = "policies" /\ poll'.old = TRUE /\ poll'.new = poll.new
            /\ rejected' = rejected
        BY <2>5, <2>t, <3>2 DEF GuardPrevious
      <4>2. PollShape' /\ (~outrun' => AgentHasToken' /\ PollUndisturbed')
        BY <2>0, <3>1, <4>1 DEF AgentHasToken, PollShape, PollUndisturbed
      <4> QED BY <2>0, <2>s, <4>1, <4>2
    <3>3. CASE ~(gateway.prev = agent /\ gateway.grace)
      <4>1. outrun
        BY <2>0, <3>1, <3>3 DEF PollUndisturbed
      <4>2. poll' = IdlePoll /\ rejected' = (rejected \/ ~outrun)
        BY <2>5, <3>3 DEF GuardPrevious
      <4>3. PollShape' /\ ~rejected' /\ outrun'
        BY <2>0, <2>t, <3>1, <4>1, <4>2 DEF PollShape
      <4> QED BY <2>s, <4>3
    <3> QED BY <3>2, <3>3
  <2>6. CASE Policies
    <3>1. /\ poll.pc = "policies" /\ poll'.pc = "answer" /\ poll'.old = poll.old
          /\ poll'.new = IF poll.old THEN gateway.token ELSE 0
          /\ UNCHANGED <<gateway, agent, history>>
      BY <2>6, <2>t DEF Policies
    <3>2. PollShape' /\ (~outrun' => AgentHasToken' /\ PollUndisturbed')
      BY <2>0, <3>1 DEF AgentHasToken, PollShape, PollUndisturbed, history
    <3> QED BY <2>0, <2>s, <3>1, <3>2 DEF history
  <2>g. CASE PoliciesGone \/ AnswerLost
    <3>1. poll' = IdlePoll /\ UNCHANGED <<gateway, agent, history>>
      BY <2>g DEF PoliciesGone, AnswerLost
    <3>2. PollShape' /\ (~outrun' => AgentHasToken' /\ PollUndisturbed')
      BY <2>0, <2>t, <3>1 DEF AgentHasToken, PollShape, PollUndisturbed, history
    <3> QED BY <2>0, <2>s, <3>1, <3>2 DEF history
  <2>7. CASE Answer
    <3>1. /\ poll' = IdlePoll /\ UNCHANGED <<gateway, rejected>>
          /\ agent' = IF poll.new # 0 THEN poll.new ELSE agent
          /\ outrun' = (outrun /\ agent' # gateway.token)
      BY <2>7 DEF Answer
    <3>2. PollShape'
      BY <2>t, <3>1 DEF PollShape
    <3>3. ASSUME ~outrun' PROVE AgentHasToken' /\ PollUndisturbed'
      <4>1. CASE agent' = gateway.token
        BY <2>t, <3>1, <4>1 DEF AgentHasToken, PollUndisturbed
      <4>2. CASE agent' # gateway.token
        <5>1. ~outrun
          BY <3>1, <3>3, <4>2
        <5>2. poll.new = 0 /\ agent' = agent
          BY <2>0, <3>1, <4>2, <5>1 DEF PollUndisturbed
        <5> QED BY <2>0, <2>t, <3>1, <5>1, <5>2 DEF AgentHasToken, PollUndisturbed
      <4> QED BY <4>1, <4>2
    <3> QED BY <2>0, <2>s, <3>1, <3>2, <3>3
  <2>9. CASE UNCHANGED vars
    BY <2>9, <2>u DEF vars
  <2> QED BY <2>1, <2>2, <2>3, <2>d, <2>4, <2>5, <2>6, <2>g, <2>7, <2>9 DEF Next, Poll
<1> QED BY <1>1, <1>2, TokensTyped, PTL DEF Spec

\* The household of GatewayPolicies implements GatewayTokens: writing limits,
\* children, devices and detections takes no part in the tokens, deleting a gateway
\* deletes this row or none, and each step of the agent's longer poll is a step of
\* the shorter one or none.
THEOREM PoliciesImplementTokens == PoliciesSpec => Spec
<1>1. PoliciesInit => Init
  BY DEF PoliciesInit
<1>2. [PoliciesNext]_allVars => [Next]_vars
  <2> SUFFICES ASSUME [PoliciesNext]_allVars PROVE [Next]_vars OBVIOUS
  <2>1. CASE TokenStep
    BY <2>1 DEF TokenStep, Next, Poll
  <2>2. CASE PollPolicies \/ PollAnswer
    BY <2>2 DEF PollPolicies, PollAnswer, Next, Poll
  <2>3. CASE PollLost
    BY <2>3 DEF PollLost, Next
  <2>4. CASE PollLimits
    BY <2>4 DEF PollLimits
  <2>5. CASE Check
    BY <2>5 DEF Check, CheckLimit, CheckDetection
  <2>6. ASSUME NEW n \in 1 .. MaxChanges, Write(n) PROVE RowDeleted \/ UNCHANGED vars
    <3>1. ASSUME NEW g \in Gateways, DeleteGateway(g, n) PROVE RowDeleted \/ UNCHANGED vars
      BY <3>1 DEF DeleteGateway
    <3>2. Change(n) \/ \E g \in Gateways : DeleteGateway(g, n)
      BY <2>6 DEF Write, RemoveChild, MoveDevice, UpdateLimit, RemoveLimit,
                  CreateLimit, RecordVpnDetections
    <3> QED BY <3>1, <3>2 DEF Change
  <2>7. CASE UNCHANGED allVars
    BY <2>7 DEF allVars
  <2> QED BY <2>1, <2>2, <2>3, <2>4, <2>5, <2>6, <2>7 DEF PoliciesNext, Next
<1> QED BY <1>1, <1>2, PTL DEF PoliciesSpec, Spec

\* "a parent-triggered rotation never locks out an already-deployed agent", for any
\* number of rotators, tokens and lost answers and whatever parents change meanwhile,
\* unless the grace period passed, the gateway was deleted, or rotations overlapped
\* or followed each other before the agent had the token of the one before.
THEOREM AgentNeverLockedOut == PoliciesSpec => []NeverLockedOut
<1>1. GatewayInv => NeverLockedOut
  BY DEF GatewayInv
<1> QED BY <1>1, TokenInvariance, PoliciesImplementTokens, PTL

----------------------------------------------------------------------------
(* Detections *)

\* A step that leaves devices, gateways and detections alone.
LEMMA DetectionsFrame ==
    DetectionsRefer /\ UNCHANGED <<gateways, device, vpn, pending>> => DetectionsRefer'
  BY DEF DetectionsRefer, OrphansAreLate

\* However devices move and gateways are deleted between the check and the record
\* of a detection, only the detections that a deletion overtook outlive their
\* gateway, and no device is behind a gateway that is gone.
THEOREM DetectionsAlwaysRefer == PoliciesSpec => []DetectionsRefer
<1>1. PoliciesInit => DetectionsRefer
  <2>1. FirstChild \in Children
    BY PoliciesAssumption DEF FirstChild
  <2> QED BY <2>1, PoliciesAssumption DEF PoliciesInit, DetectionsRefer, OrphansAreLate
<1>2. DetectionsRefer /\ [PoliciesNext]_allVars => DetectionsRefer'
  <2> SUFFICES ASSUME DetectionsRefer, [PoliciesNext]_allVars PROVE DetectionsRefer'
    OBVIOUS
  <2>0. /\ device \in [Devices -> [child : Children \cup {Null}, gateway : gateways \cup {Null}]]
        /\ pending # Null /\ pending.kind = "vpn" => pending.late \/ Here \in gateways
        /\ \A v \in vpn : v.gateway \in gateways \/ v.late
    BY DEF DetectionsRefer, OrphansAreLate
  <2>s. ASSUME device' \in [Devices -> [child : Children \cup {Null}, gateway : gateways' \cup {Null}]],
               pending' # Null /\ pending'.kind = "vpn" => pending'.late \/ Here \in gateways',
               \A v \in vpn' : v.gateway \in gateways' \/ v.late
        PROVE  DetectionsRefer'
    BY <2>s DEF DetectionsRefer, OrphansAreLate
  <2>1. CASE TokenStep \/ PollPolicies \/ PollLimits \/ PollAnswer \/ PollLost \/ UNCHANGED allVars
    BY <2>1, DetectionsFrame
       DEF TokenStep, PollPolicies, PollLimits, PollAnswer, PollLost, allVars, tables
  <2>2. ASSUME NEW c, NEW d, NEW k, CheckLimit(c, d, k) PROVE DetectionsRefer'
    <3>1. UNCHANGED <<gateways, device, vpn>> /\ pending'.kind = "limit"
      BY <2>2 DEF CheckLimit, tables
    <3> QED BY <2>0, <2>s, <3>1
  <2>2a. ASSUME NEW d \in Devices, CheckDetection(d) PROVE DetectionsRefer'
    <3>1. UNCHANGED <<gateways, device, vpn>> /\ device[d].gateway = Here
      BY <2>2a DEF CheckDetection, tables
    <3>2. Here \in gateways
      BY <2>0, <3>1, PoliciesAssumption
    <3> QED BY <2>0, <2>s, <3>1, <3>2
  <2>3. ASSUME NEW n \in 1 .. MaxChanges, NEW c \in Children, RemoveChild(c, n)
        PROVE  DetectionsRefer'
    <3>1. device' \in [Devices -> [child : Children \cup {Null}, gateway : gateways \cup {Null}]]
      BY <2>0, <2>3 DEF RemoveChild
    <3> QED BY <2>0, <2>3, <2>s, <3>1 DEF RemoveChild
  <2>4. ASSUME NEW n \in 1 .. MaxChanges, NEW d \in Devices, NEW c \in Children, NEW g \in Gateways,
               MoveDevice(d, c, g, n)
        PROVE  DetectionsRefer'
    <3>1. device' \in [Devices -> [child : Children \cup {Null}, gateway : gateways \cup {Null}]]
      BY <2>0, <2>4 DEF MoveDevice
    <3> QED BY <2>0, <2>4, <2>s, <3>1 DEF MoveDevice
  <2>5. ASSUME NEW n \in 1 .. MaxChanges, NEW g \in Gateways, DeleteGateway(g, n)
        PROVE  DetectionsRefer'
    <3>1. gateways' = gateways \ {g} /\ pending' = Overtaken(g)
      BY <2>5 DEF DeleteGateway
    <3>2. device' \in [Devices -> [child : Children \cup {Null}, gateway : gateways' \cup {Null}]]
      BY <2>0, <2>5, <3>1 DEF DeleteGateway
    <3>3. \A v \in vpn' : v.gateway \in gateways' \/ v.late
      BY <2>0, <2>5, <3>1 DEF DeleteGateway
    <3>4. pending' # Null /\ pending'.kind = "vpn" => pending'.late \/ Here \in gateways'
      BY <2>0, <3>1 DEF Overtaken
    <3> QED BY <2>s, <3>2, <3>3, <3>4
  <2>6. ASSUME NEW n \in 1 .. MaxChanges, NEW l \in limits, UpdateLimit(l, n) \/ RemoveLimit(l, n)
        PROVE  DetectionsRefer'
    BY <2>6, DetectionsFrame DEF UpdateLimit, RemoveLimit
  <2>7. ASSUME NEW n \in 1 .. MaxChanges, CreateLimit(n) PROVE DetectionsRefer'
    BY <2>0, <2>7, <2>s DEF CreateLimit
  <2>8. ASSUME NEW n \in 1 .. MaxChanges, RecordVpnDetections(n) PROVE DetectionsRefer'
    <3>1. \A v \in vpn' : v.gateway \in gateways \/ v.late
      BY <2>0, <2>8 DEF RecordVpnDetections
    <3> QED BY <2>0, <2>8, <2>s, <3>1 DEF RecordVpnDetections
  <2> QED BY <2>1, <2>2, <2>2a, <2>3, <2>4, <2>5, <2>6, <2>7, <2>8 DEF PoliciesNext, Write, Check
<1> QED BY <1>1, <1>2, PTL DEF PoliciesSpec

\* A VPN detection whose gateway is gone was under way when it was deleted.
THEOREM OnlyLateDetectionsOrphaned == PoliciesSpec => []OrphansAreLate
<1>1. DetectionsRefer => OrphansAreLate
  BY DEF DetectionsRefer
<1> QED BY <1>1, DetectionsAlwaysRefer, PTL
============================================================================
