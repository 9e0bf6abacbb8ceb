---------------------------- MODULE AuthProofs ----------------------------
(***************************************************************************)
(* Proofs that a refresh token is redeemed at most once and that the       *)
(* refreshToken column implements SingleUseToken, and that a full count of *)
(* failures is locked, for any number of calls and values of the limits.   *)
(***************************************************************************)
EXTENDS Auth, TLAPS

\* How a step changes the local state of one call.
LEMMA CallUpdate ==
    ASSUME NEW x \in Call, NEW pc \in Pc, NEW n \in Nat
    PROVE  /\ IdleCall \in Call
           /\ [x EXCEPT !.pc = pc] \in Call
           /\ [x EXCEPT !.pc = pc, !.attempts = n] \in Call
           /\ [x EXCEPT !.pc = pc, !.token = n] \in Call
           /\ [x EXCEPT !.pc = pc, !.new = n] \in Call
  BY DEF Call, IdleCall, Pc, NoToken

\* The initial state satisfies the invariant.
LEMMA InitTokenInv == Init => TokenInv
<1> SUFFICES ASSUME Init PROVE TokenInv OBVIOUS
<1>1. IdleCall \in Call /\ IdleCall.pc = "idle" /\ IdleCall.token = NoToken
  BY DEF IdleCall, Call, Pc, NoToken
<1>2. TypeOK
  BY <1>1 DEF Init, TypeOK, NoToken
<1>3. TokensMinted
  BY AuthAssumption DEF Init, TokensMinted
<1>4. PendingFresh /\ PresentedIssued
  BY <1>1 DEF Init, PendingFresh, PresentedIssued
<1>5. LiveUnredeemed /\ RedeemedOnce
  BY DEF Init, LiveUnredeemed, RedeemedOnce
<1> QED BY <1>2, <1>3, <1>4, <1>5 DEF TokenInv

\* No step leaves the types.
LEMMA NextTypeOK ==
    ASSUME TypeOK, Next
    PROVE  TypeOK'
<1> USE DEF TypeOK
<1>0. \A c \in Calls : call[c] \in Call /\ call[c].attempts \in Nat /\ call[c].new \in Nat
                                        /\ call[c].token \in Nat
  BY DEF Call
<1>1. Pc = {"idle", "create", "fail", "reset", "mint", "persist", "swap"}
  BY DEF Pc
<1>2. Lockout \in Nat
  BY AuthAssumption
<1>3. IdleCall \in Call
  BY DEF IdleCall, Call, Pc, NoToken
<1>4. CASE Logout
  BY <1>4 DEF Logout, NoToken
<1>5. CASE Tick
  BY <1>5 DEF Tick, row
<1>6. ASSUME NEW c \in Calls, CallStep(c) PROVE TypeOK'
  <2>a. call[c] \in Call
    BY <1>0
  <2>1. CASE RegisterStart(c)
    BY <1>1, <1>3, <2>1, CallUpdate DEF RegisterStart, Begin, row
  <2>2. CASE RegisterCreate(c)
    BY <1>1, <1>3, <2>a, <2>2, CallUpdate DEF RegisterCreate, Goto, Done
  <2>3. ASSUME NEW correct \in BOOLEAN, LoginStart(c, correct) PROVE TypeOK'
    <3>1. [IdleCall EXCEPT !.pc = IF ~correct THEN "fail" ELSE IF attempts > 0 THEN "reset" ELSE "mint",
                           !.attempts = attempts] \in Call
      BY <1>1, <1>3, CallUpdate
    <3> QED BY <2>3, <3>1 DEF LoginStart, row
  <2>4. CASE LoginFail(c)
    BY <1>0, <1>2, <1>3, <2>4 DEF LoginFail, Done
  <2>5. CASE LoginReset(c)
    BY <1>1, <2>a, <2>5, CallUpdate DEF LoginReset, Goto
  <2>6. CASE Mint(c)
    <3> DEFINE pc1 == IF call[c].token = NoToken THEN "persist" ELSE "swap"
    <3>1. pc1 \in Pc /\ minted + 1 \in Nat
      BY <1>1
    <3>2. call' = [call EXCEPT ![c] = [call[c] EXCEPT !.pc = pc1, !.new = minted + 1]]
      BY <2>6 DEF Mint
    <3> HIDE DEF pc1
    <3>3. [call[c] EXCEPT !.pc = pc1, !.new = minted + 1] \in Call
      BY <2>a, <3>1, CallUpdate
    <3> QED BY <2>6, <3>1, <3>2, <3>3 DEF Mint, row
  <2>7. CASE Persist(c)
    BY <1>0, <1>3, <2>7 DEF Persist, Done
  <2>8. ASSUME NEW t \in issued, RefreshStart(c, t) PROVE TypeOK'
    <3>1. [IdleCall EXCEPT !.pc = "mint", !.token = t] \in Call
      BY <1>1, <1>3, CallUpdate
    <3> QED BY <2>8, <3>1 DEF RefreshStart, row
  <2>9. CASE RefreshSwap(c)
    <3>1. <<call[c].token, call[c].new>> \in Nat \X Nat
      BY <1>0
    <3>2. /\ redeemed' \subseteq Nat \X Nat /\ refused' \subseteq Nat
          /\ issued' \subseteq Nat /\ stored' \in Nat
      BY <1>0, <2>9, <3>1 DEF RefreshSwap
    <3> QED BY <1>3, <2>9, <3>2 DEF RefreshSwap, Done
  <2>10. CASE Abort(c)
    BY <1>3, <2>10 DEF Abort, Done, row
  <2> QED BY <1>6, <2>1, <2>2, <2>3, <2>4, <2>5, <2>6, <2>7, <2>8, <2>9, <2>10 DEF CallStep
<1> QED BY <1>4, <1>5, <1>6 DEF Next

\* A step that leaves the token column and its history alone, and moves one
\* call to a place where it carries no new token.
LEMMA QuietStep ==
    ASSUME TokenInv, TypeOK', NEW c \in Calls,
           UNCHANGED <<stored, minted, issued, redeemed>>,
           \A d \in Calls : d # c => call'[d] = call[d],
           call'[c].pc \notin {"persist", "swap"},
           call'[c].token \in issued \cup {NoToken}
    PROVE  TokenInv'
<1> USE DEF TokenInv
<1>1. TokensMinted' /\ LiveUnredeemed' /\ RedeemedOnce'
  BY DEF TokensMinted, LiveUnredeemed, RedeemedOnce
<1>2. PendingFresh'
  BY DEF PendingFresh
<1>3. PresentedIssued'
  BY DEF PresentedIssued
<1> QED BY <1>1, <1>2, <1>3

\* Signing a fresh token.
LEMMA MintStep ==
    ASSUME TokenInv, TypeOK', NEW c \in Calls, Mint(c)
    PROVE  TokenInv'
<1> USE DEF TokenInv
<1>0. /\ call \in [Calls -> Call] /\ call[c] \in Call /\ minted \in Nat
      /\ call[c].pc = "mint" /\ MaxTokens \in Nat
  BY AuthAssumption DEF TypeOK, Mint
<1> DEFINE pc1 == IF call[c].token = NoToken THEN "persist" ELSE "swap"
<1>1. /\ call'[c] = [call[c] EXCEPT !.pc = pc1, !.new = minted + 1]
      /\ \A d \in Calls : d # c => call'[d] = call[d]
      /\ UNCHANGED <<stored, issued, redeemed>>
      /\ minted' = minted + 1 /\ minted < MaxTokens
  BY <1>0 DEF Mint, row
<1>a. pc1 \in {"persist", "swap"} /\ (pc1 = "swap" => call[c].token # NoToken)
  OBVIOUS
<1> HIDE DEF pc1
<1>2. call'[c].pc = pc1 /\ call'[c].new = minted + 1 /\ call'[c].token = call[c].token
  BY <1>0, <1>1 DEF Call
<1>3. TokensMinted'
  BY <1>0, <1>1 DEF TokensMinted
<1>4. LiveUnredeemed' /\ RedeemedOnce'
  BY <1>1 DEF LiveUnredeemed, RedeemedOnce
<1>5. PendingFresh'
  <2>1. minted + 1 \notin issued /\ \A n \in 1 .. minted : n \in 1 .. (minted + 1) /\ n # minted + 1
    BY <1>0 DEF TokensMinted
  <2>2. ASSUME NEW d \in Calls, d # c, call[d].pc \in {"persist", "swap"}
        PROVE  call[d].new \in 1 .. (minted + 1) /\ call[d].new # minted + 1
               /\ call[d].new \notin issued
    BY <1>0, <2>1, <2>2 DEF PendingFresh
  <2>3. minted + 1 \in 1 .. (minted + 1)
    BY <1>0
  <2> SUFFICES ASSUME NEW d \in Calls, call'[d].pc \in {"persist", "swap"}
               PROVE  /\ call'[d].new \in 1 .. (minted + 1) /\ call'[d].new \notin issued
                      /\ \A e \in Calls : e # d /\ call'[e].pc \in {"persist", "swap"} =>
                            call'[e].new # call'[d].new
    BY <1>1 DEF PendingFresh
  <2>4. CASE d = c
    BY <1>1, <1>2, <2>1, <2>2, <2>3, <2>4
  <2>5. CASE d # c
    <3>1. call'[d] = call[d]
      BY <1>1, <2>5
    <3>2. ASSUME NEW e \in Calls, e # d, call'[e].pc \in {"persist", "swap"}
          PROVE  call'[e].new # call'[d].new
      BY <1>1, <1>2, <2>2, <2>5, <3>1, <3>2 DEF PendingFresh
    <3> QED BY <2>2, <2>5, <3>1, <3>2
  <2> QED BY <2>4, <2>5
<1>6. PresentedIssued'
  BY <1>0, <1>1, <1>2, <1>a DEF PresentedIssued
<1> QED BY <1>3, <1>4, <1>5, <1>6

\* Storing a fresh token, by issueTokens or by a refresh that found its token.
LEMMA StoreStep ==
    ASSUME TokenInv, TypeOK', NEW c \in Calls, call[c].pc \in {"persist", "swap"},
           call' = [call EXCEPT ![c] = IdleCall],
           stored' = call[c].new, issued' = issued \cup {call[c].new}, UNCHANGED minted,
           \/ UNCHANGED redeemed
           \/ /\ call[c].pc = "swap" /\ stored = call[c].token
              /\ redeemed' = redeemed \cup {<<call[c].token, call[c].new>>}
    PROVE  TokenInv'
<1> USE DEF TokenInv
<1> DEFINE new == call[c].new
<1>0. /\ call \in [Calls -> Call] /\ minted \in Nat
      /\ new \in 1 .. minted /\ new \notin issued
      /\ call[c].pc = "swap" => call[c].token \in issued
      /\ \A d \in Calls : d # c /\ call[d].pc \in {"persist", "swap"} =>
            call[d].new \in 1 .. minted /\ call[d].new \notin issued \cup {new}
  BY DEF TypeOK, PendingFresh, PresentedIssued
<1>1. /\ call'[c].pc = "idle" /\ call'[c].token = NoToken /\ \A d \in Calls : d # c => call'[d] = call[d]
  BY <1>0 DEF IdleCall
<1>2. TokensMinted'
  <2>1. \A p \in redeemed' : p \in redeemed \/ p[1] \in issued
    BY <1>0
  <2> QED BY <1>0, <2>1 DEF TokensMinted
<1>3. PendingFresh'
  BY <1>0, <1>1 DEF PendingFresh
<1>4. LiveUnredeemed'
  <2>1. \A p \in redeemed : p[1] # new
    BY <1>0 DEF TokensMinted
  <2> QED BY <1>0, <2>1 DEF LiveUnredeemed
<1>5. PresentedIssued'
  BY <1>1 DEF PresentedIssued
<1>6. RedeemedOnce'
  <2>1. CASE UNCHANGED redeemed
    BY <2>1 DEF RedeemedOnce
  <2>2. CASE /\ stored = call[c].token
             /\ redeemed' = redeemed \cup {<<call[c].token, call[c].new>>}
    BY <2>2 DEF RedeemedOnce, LiveUnredeemed
  <2> QED BY <2>1, <2>2
<1> QED BY <1>2, <1>3, <1>4, <1>5, <1>6

\* Every step keeps the invariant.
LEMMA NextTokenInv ==
    ASSUME TokenInv, Next
    PROVE  TokenInv'
<1>0. TypeOK' /\ call \in [Calls -> Call] /\ \A c \in Calls : call[c] \in Call
  BY NextTypeOK DEF TokenInv, TypeOK
<1>1. CASE Logout
  <2>1. TokensMinted' /\ PendingFresh' /\ PresentedIssued' /\ RedeemedOnce'
    BY <1>1 DEF Logout, TokenInv, TokensMinted, PendingFresh, PresentedIssued, RedeemedOnce
  <2>2. LiveUnredeemed'
    BY <1>1 DEF Logout, TokenInv, TokensMinted, LiveUnredeemed, NoToken
  <2> QED BY <1>0, <2>1, <2>2 DEF TokenInv
<1>2. CASE Tick
  BY <1>0, <1>2 DEF Tick, row, TokenInv, TokensMinted, PendingFresh, PresentedIssued,
                    RedeemedOnce, LiveUnredeemed
<1>3. ASSUME NEW c \in Calls, CallStep(c) PROVE TokenInv'
  <2>a. ASSUME NEW x, x.pc \notin {"persist", "swap"}, x.token \in issued \cup {NoToken},
               call' = [call EXCEPT ![c] = x],
               UNCHANGED <<stored, minted, issued, redeemed>>
        PROVE  TokenInv'
    <3>1. call'[c] = x /\ \A d \in Calls : d # c => call'[d] = call[d]
      BY <1>0, <2>a
    <3> QED BY <1>0, <2>a, <3>1, QuietStep
  <2>b. /\ IdleCall.pc = "idle" /\ IdleCall.token = NoToken /\ call[c] \in Call
        /\ call[c].token \in issued \cup {NoToken}
    BY <1>0 DEF IdleCall, TokenInv, PresentedIssued
  <2>1. CASE RegisterStart(c)
    <3>1. /\ [IdleCall EXCEPT !.pc = "create"].pc = "create"
          /\ [IdleCall EXCEPT !.pc = "create"].token = NoToken
      BY DEF IdleCall
    <3> QED BY <2>a, <2>1, <3>1 DEF RegisterStart, Begin, row
  <2>2. CASE RegisterCreate(c)
    <3>1. /\ [call[c] EXCEPT !.pc = "mint"].pc = "mint"
          /\ [call[c] EXCEPT !.pc = "mint"].token = call[c].token
      BY <2>b DEF Call
    <3>2. UNCHANGED <<stored, minted, issued, redeemed>>
      BY <2>2 DEF RegisterCreate
    <3>3. \/ call' = [call EXCEPT ![c] = [call[c] EXCEPT !.pc = "mint"]]
          \/ call' = [call EXCEPT ![c] = IdleCall]
      BY <2>2 DEF RegisterCreate, Goto, Done
    <3> QED BY <2>a, <2>b, <3>1, <3>2, <3>3
  <2>3. ASSUME NEW correct \in BOOLEAN, LoginStart(c, correct) PROVE TokenInv'
    <3> DEFINE pc1 == IF ~correct THEN "fail" ELSE IF attempts > 0 THEN "reset" ELSE "mint"
               x == [IdleCall EXCEPT !.pc = pc1, !.attempts = attempts]
    <3>1. pc1 \notin {"persist", "swap"}
      OBVIOUS
    <3>2. x.pc = pc1 /\ x.token = NoToken
      BY DEF IdleCall
    <3>3. call' = [call EXCEPT ![c] = x] /\ UNCHANGED <<stored, minted, issued, redeemed>>
      BY <2>3 DEF LoginStart, row
    <3> HIDE DEF x, pc1
    <3> QED BY <2>a, <3>1, <3>2, <3>3
  <2>4. CASE LoginFail(c)
    BY <2>a, <2>b, <2>4 DEF LoginFail, Done
  <2>5. CASE LoginReset(c)
    <3>1. /\ [call[c] EXCEPT !.pc = "mint"].pc = "mint"
          /\ [call[c] EXCEPT !.pc = "mint"].token = call[c].token
      BY <2>b DEF Call
    <3>2. /\ UNCHANGED <<stored, minted, issued, redeemed>>
          /\ call' = [call EXCEPT ![c] = [call[c] EXCEPT !.pc = "mint"]]
      BY <2>5 DEF LoginReset, Goto
    <3> QED BY <2>a, <2>b, <3>1, <3>2
  <2>6. CASE Mint(c)
    BY <1>0, <2>6, MintStep
  <2>7. CASE Persist(c)
    BY <1>0, <2>7, StoreStep DEF Persist, Done
  <2>8. ASSUME NEW t \in issued, RefreshStart(c, t) PROVE TokenInv'
    <3>1. /\ [IdleCall EXCEPT !.pc = "mint", !.token = t].pc = "mint"
          /\ [IdleCall EXCEPT !.pc = "mint", !.token = t].token = t
      BY DEF IdleCall
    <3> QED BY <2>a, <2>8, <3>1 DEF RefreshStart, row
  <2>9. CASE RefreshSwap(c)
    <3>1. CASE stored = call[c].token
      BY <1>0, <2>9, <3>1, StoreStep DEF RefreshSwap, Done
    <3>2. CASE stored # call[c].token
      BY <2>a, <2>b, <2>9, <3>2 DEF RefreshSwap, Done
    <3> QED BY <3>1, <3>2
  <2>10. CASE Abort(c)
    BY <2>a, <2>b, <2>10 DEF Abort, Done, row
  <2> QED BY <1>3, <2>1, <2>2, <2>3, <2>4, <2>5, <2>6, <2>7, <2>8, <2>9, <2>10 DEF CallStep
<1> QED BY <1>1, <1>2, <1>3 DEF Next

----------------------------------------------------------------------------
(* The theorems *)

\* The invariant holds in every reachable state.
THEOREM TokenInvariance == Spec => []TokenInv
<1>1. TokenInv /\ UNCHANGED vars => TokenInv'
  BY DEF vars, row, TokenInv, TypeOK, TokensMinted, PendingFresh, PresentedIssued,
         RedeemedOnce, LiveUnredeemed
<1> QED BY <1>1, InitTokenInv, NextTokenInv, PTL DEF Spec

\* Whatever calls of register, login, refresh and logout overlap, a refresh
\* token is exchanged for a new pair at most once.
THEOREM RefreshSingleUse == Spec => []RedeemedOnce
<1>1. TokenInv => RedeemedOnce
  BY DEF TokenInv
<1> QED BY <1>1, TokenInvariance, PTL

\* Every step of AuthService is, for the refreshToken column, a sign-in with a
\* token never used before, the exchange of the live token by the refresh that
\* presented it, the refusal of a dead one, a sign-out, or nothing at all.
THEOREM AuthImplementsSingleUse == Spec => ImplementsSingleUse
<1>1. Init => Chain!Init
  BY DEF Init, Chain!Init
<1>2. TokenInv /\ [Next]_vars => [Chain!Next]_(Chain!vars)
  <2> SUFFICES ASSUME TokenInv, [Next]_vars PROVE [Chain!Next]_(Chain!vars) OBVIOUS
  <2> USE DEF Chain!vars
  <2>0. /\ NoToken \notin issued /\ (stored = NoToken \/ stored \in issued)
        /\ minted <= MaxTokens /\ minted \in Nat /\ MaxTokens \in Nat
        /\ issued \subseteq 1 .. MaxTokens
    BY AuthAssumption DEF TokenInv, TypeOK, TokensMinted, NoToken
  <2>b. Chain!Buried = issued
    BY <2>0 DEF Chain!Buried
  <2>1. ASSUME NEW c \in Calls, call[c].pc \in {"persist", "swap"},
               stored' = call[c].new, issued' = issued \cup {call[c].new}
        PROVE  call[c].new \in 1 .. MaxTokens /\ Chain!Replace(call[c].new)
    <3>1. call[c].new \in 1 .. MaxTokens /\ call[c].new \notin issued /\ call[c].new # NoToken
      BY <2>0, <2>1 DEF TokenInv, PendingFresh, NoToken
    <3> QED BY <2>0, <2>1, <2>b, <3>1 DEF Chain!Replace
  <2>2. CASE Logout
    <3>1. stored' = NoToken /\ issued' \ {stored'} = issued /\ UNCHANGED <<redeemed, refused>>
      BY <2>0, <2>2 DEF Logout
    <3> QED BY <2>b, <3>1 DEF Chain!Next, Chain!SignOut
  <2>3. CASE Tick
    BY <2>3 DEF Tick, row
  <2>4. ASSUME NEW c \in Calls, CallStep(c) PROVE [Chain!Next]_(Chain!vars)
    <3>1. CASE Persist(c)
      <4>1. Chain!SignIn(call[c].new) /\ call[c].new \in 1 .. MaxTokens
        BY <2>1, <3>1 DEF Persist, Chain!SignIn
      <4> QED BY <4>1 DEF Chain!Next
    <3>2. CASE RefreshSwap(c)
      <4>0. call[c].token \in issued /\ call[c].token # NoToken
        BY <3>2 DEF RefreshSwap, TokenInv, PresentedIssued
      <4>1. CASE stored = call[c].token
        <5>1. Chain!Exchange(call[c].new) /\ call[c].new \in 1 .. MaxTokens
          BY <2>1, <3>2, <4>0, <4>1 DEF RefreshSwap, Chain!Exchange
        <5> QED BY <5>1 DEF Chain!Next
      <4>2. CASE stored # call[c].token
        <5>1. Chain!Refuse(call[c].token) /\ call[c].token \in 1 .. MaxTokens
          BY <2>0, <3>2, <4>0, <4>2 DEF RefreshSwap, Chain!Refuse
        <5> QED BY <5>1 DEF Chain!Next
      <4> QED BY <4>1, <4>2
    <3>3. CASE ~Persist(c) /\ ~RefreshSwap(c)
      BY <2>4, <3>3 DEF CallStep, RegisterStart, RegisterCreate, LoginStart, LoginFail,
            LoginReset, Mint, RefreshStart, Abort, row
    <3> QED BY <3>1, <3>2, <3>3
  <2>5. CASE UNCHANGED vars
    BY <2>5 DEF vars, row
  <2> QED BY <2>2, <2>3, <2>4, <2>5 DEF Next
<1> QED BY <1>1, <1>2, TokenInvariance, PTL DEF Spec, Chain!Spec, ImplementsSingleUse

\* Only three kinds of steps touch the columns of the lockout; the others leave
\* them, and the history of failures, alone.
LEMMA LockoutFrame ==
    ASSUME [Next]_vars, \A c \in Calls : ~LoginFail(c) /\ ~LoginReset(c)
    PROVE  UNCHANGED <<attempts, lockedUntil, lastFailure>>
<1>1. CASE Logout \/ Tick
  BY <1>1 DEF Logout, Tick, row
<1>2. ASSUME NEW c \in Calls, CallStep(c) PROVE UNCHANGED <<attempts, lockedUntil, lastFailure>>
  BY <1>2 DEF CallStep, RegisterStart, RegisterCreate, LoginStart, Mint, Persist, RefreshStart,
              RefreshSwap, Abort, row
<1>3. CASE UNCHANGED vars
  BY <1>3 DEF vars, row
<1> QED BY <1>1, <1>2, <1>3 DEF Next

\* However many logins overlap, each counting from a row read before its slow hash,
\* a full count is never stored without the lock of the latest wrong password.
THEOREM FullCountIsLocked == Spec => []FullCountLocks
<1>1. Init => FullCountLocks
  BY AuthAssumption DEF Init, FullCountLocks
<1>2. TokenInv /\ FullCountLocks /\ [Next]_vars => FullCountLocks'
  <2> SUFFICES ASSUME TokenInv, FullCountLocks, [Next]_vars PROVE FullCountLocks'
    OBVIOUS
  <2>0. \A c \in Calls : call[c].attempts \in Nat
    BY DEF TokenInv, TypeOK, Call
  <2>1. ASSUME NEW c \in Calls, LoginFail(c) PROVE FullCountLocks'
    BY <2>0, <2>1, AuthAssumption DEF LoginFail, FullCountLocks
  <2>2. ASSUME NEW c \in Calls, LoginReset(c) PROVE FullCountLocks'
    BY <2>2, AuthAssumption DEF LoginReset, FullCountLocks
  <2>3. CASE UNCHANGED <<attempts, lockedUntil, lastFailure>>
    BY <2>3 DEF FullCountLocks
  <2> QED BY <2>1, <2>2, <2>3, LockoutFrame
<1> QED BY <1>1, <1>2, TokenInvariance, PTL DEF Spec
============================================================================
