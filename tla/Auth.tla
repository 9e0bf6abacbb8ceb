------------------------------- MODULE Auth -------------------------------
(***************************************************************************)
(* AuthService for one account: register, login with lockout, refresh with *)
(* compare-and-swap rotation, logout.  Every database access and every     *)
(* awaited hash or signature is a step, so calls overlap.                  *)
(*                                                                         *)
(* A refresh token is the number of its jti; storing the hash of a token   *)
(* is storing its number (SHA-256 is taken to be injective).               *)
(***************************************************************************)
EXTENDS Naturals

CONSTANTS Calls,
          MaxFailedAttempts,  \* MAX_FAILED_ATTEMPTS
          Lockout,            \* LOCKOUT_DURATION_MINUTES
          MaxTime,            \* bound: minutes on the clock
          MaxTokens,          \* bound: tokens minted
          MaxFailures         \* bound: failed logins

NoToken == 0
ASSUME AuthAssumption ==
    /\ MaxFailedAttempts \in Nat \ {0} /\ Lockout \in Nat \ {0}
    /\ MaxTime \in Nat /\ MaxTokens \in Nat /\ MaxFailures \in Nat

VARIABLES
    account,      \* the user row exists
    attempts,     \* failedLoginAttempts
    lockedUntil,  \* lockedUntil, 0 for null
    stored,       \* refreshToken (its hash), NoToken for null
    now,          \* the clock, in minutes
    call,         \* local state of every request
    minted,       \* tokens signed so far
    issued,       \* history: tokens that have been stored in the row
    redeemed,     \* history: <<presented, successor>> of every refresh answered
    refused,      \* history: tokens of refreshes that lost the race for the row
    failures,     \* bounded: rejected passwords since the last accepted one
    lastFailure   \* history: when the latest password was rejected

row == <<account, attempts, lockedUntil, stored>>
vars == <<row, now, call, minted, issued, redeemed, refused, failures, lastFailure>>

Pc == {"idle", "create", "fail", "reset", "mint", "persist", "swap"}
Call == [pc : Pc, attempts : Nat, token : Nat, new : Nat]
IdleCall == [pc |-> "idle", attempts |-> 0, token |-> NoToken, new |-> NoToken]

Init ==
    /\ account = FALSE /\ attempts = 0 /\ lockedUntil = 0 /\ stored = NoToken
    /\ now = 1
    /\ call = [c \in Calls |-> IdleCall]
    /\ minted = 0 /\ issued = {} /\ redeemed = {} /\ refused = {}
    /\ failures = 0 /\ lastFailure = 0

Begin(c, pc) ==
    /\ call[c].pc = "idle"
    /\ call' = [call EXCEPT ![c] = [IdleCall EXCEPT !.pc = pc]]
Goto(c, pc) == call' = [call EXCEPT ![c].pc = pc]
Done(c) == call' = [call EXCEPT ![c] = IdleCall]

----------------------------------------------------------------------------
(* register *)

\* The address is not taken yet; the password is hashed next.
RegisterStart(c) ==
    /\ ~account
    /\ Begin(c, "create")
    /\ UNCHANGED <<row, now, minted, issued, redeemed, refused, failures, lastFailure>>

\* user.create; the unique index on email rejects the slower of two calls.
RegisterCreate(c) ==
    /\ call[c].pc = "create"
    /\ \/ ~account /\ Goto(c, "mint")
       \/ account /\ Done(c)
    /\ account' = TRUE
    /\ UNCHANGED <<attempts, lockedUntil, stored, now, minted, issued, redeemed, refused,
                   failures, lastFailure>>

----------------------------------------------------------------------------
(* login *)

Locked == lockedUntil # 0 /\ now < lockedUntil

\* The row is read and the account is not locked; bcrypt.compare will answer
\* correct.
LoginStart(c, correct) ==
    /\ account /\ ~Locked
    /\ call[c].pc = "idle"
    /\ LET next == IF ~correct THEN "fail"
                   ELSE IF attempts > 0 THEN "reset" ELSE "mint"
       IN call' = [call EXCEPT ![c] =
                       [IdleCall EXCEPT !.pc = next, !.attempts = attempts]]
    /\ UNCHANGED <<row, now, minted, issued, redeemed, refused, failures, lastFailure>>

\* Mutant: one more failure than the limit is allowed.
LoginFailLate(c) ==
    /\ call[c].pc = "fail"
    /\ failures < MaxFailures
    /\ attempts' = call[c].attempts + 1
    /\ lockedUntil' = IF call[c].attempts + 1 > MaxFailedAttempts
                      THEN now + Lockout ELSE lockedUntil
    /\ failures' = failures + 1
    /\ lastFailure' = now
    /\ Done(c)
    /\ UNCHANGED <<account, stored, now, minted, issued, redeemed, refused>>

\* The wrong password: count from the row read before, lock at the limit.
LoginFail(c) ==
    /\ call[c].pc = "fail"
    /\ failures < MaxFailures
    /\ attempts' = call[c].attempts + 1
    /\ lockedUntil' = IF call[c].attempts + 1 >= MaxFailedAttempts
                      THEN now + Lockout ELSE lockedUntil
    /\ failures' = failures + 1
    /\ lastFailure' = now
    /\ Done(c)
    /\ UNCHANGED <<account, stored, now, minted, issued, redeemed, refused>>

\* The right password after failures.
LoginReset(c) ==
    /\ call[c].pc = "reset"
    /\ attempts' = 0
    /\ lockedUntil' = 0
    /\ failures' = 0
    /\ Goto(c, "mint")
    /\ UNCHANGED <<account, stored, now, minted, issued, redeemed, refused, lastFailure>>

----------------------------------------------------------------------------
(* tokens *)

\* generateTokens: a fresh jti every time.
Mint(c) ==
    /\ call[c].pc = "mint"
    /\ minted < MaxTokens
    /\ minted' = minted + 1
    /\ call' = [call EXCEPT ![c] = [@ EXCEPT
            !.pc = IF call[c].token = NoToken THEN "persist" ELSE "swap",
            !.new = minted + 1]]
    /\ UNCHANGED <<row, now, issued, redeemed, refused, failures, lastFailure>>

\* issueTokens: the row takes the new hash, whatever it held.
Persist(c) ==
    /\ call[c].pc = "persist"
    /\ stored' = call[c].new
    /\ issued' = issued \cup {call[c].new}
    /\ Done(c)
    /\ UNCHANGED <<account, attempts, lockedUntil, now, minted, redeemed, refused,
                   failures, lastFailure>>

\* refresh with any token ever handed out; its signature verifies and the row
\* holds its hash.  (Otherwise the call ends here without effect.)
RefreshStart(c, t) ==
    /\ call[c].pc = "idle"
    /\ t \in issued /\ stored = t
    /\ call' = [call EXCEPT ![c] = [IdleCall EXCEPT !.pc = "mint", !.token = t]]
    /\ UNCHANGED <<row, now, minted, issued, redeemed, refused, failures, lastFailure>>

\* Mutant: the row is updated by id alone, without comparing the token.
RefreshSwapBlind(c) ==
    /\ call[c].pc = "swap"
    /\ stored' = call[c].new
    /\ issued' = issued \cup {call[c].new}
    /\ redeemed' = redeemed \cup {<<call[c].token, call[c].new>>}
    /\ Done(c)
    /\ UNCHANGED <<account, attempts, lockedUntil, now, minted, refused, failures, lastFailure>>

\* updateMany where refreshToken = presented; no row matched: rejected.
RefreshSwap(c) ==
    /\ call[c].pc = "swap"
    /\ \/ /\ stored = call[c].token
          /\ stored' = call[c].new
          /\ issued' = issued \cup {call[c].new}
          /\ redeemed' = redeemed \cup {<<call[c].token, call[c].new>>}
          /\ UNCHANGED refused
       \/ /\ stored # call[c].token
          /\ refused' = refused \cup {call[c].token}
          /\ UNCHANGED <<stored, issued, redeemed>>
    /\ Done(c)
    /\ UNCHANGED <<account, attempts, lockedUntil, now, minted, failures, lastFailure>>

Logout ==
    /\ account
    /\ stored' = NoToken
    /\ UNCHANGED <<account, attempts, lockedUntil, now, call, minted, issued,
                   redeemed, refused, failures, lastFailure>>

----------------------------------------------------------------------------
\* The process or the database fails under a call.
Abort(c) ==
    /\ call[c].pc # "idle"
    /\ Done(c)
    /\ UNCHANGED <<row, now, minted, issued, redeemed, refused, failures, lastFailure>>

Tick ==
    /\ now < MaxTime
    /\ now' = now + 1
    /\ UNCHANGED <<row, call, minted, issued, redeemed, refused, failures, lastFailure>>

CallStep(c) ==
    \/ RegisterStart(c) \/ RegisterCreate(c)
    \/ \E correct \in BOOLEAN : LoginStart(c, correct)
    \/ LoginFail(c) \/ LoginReset(c)
    \/ Mint(c) \/ Persist(c)
    \/ \E t \in issued : RefreshStart(c, t)
    \/ RefreshSwap(c) \/ Abort(c)

Next == (\E c \in Calls : CallStep(c)) \/ Logout \/ Tick

Spec == Init /\ [][Next]_vars

----------------------------------------------------------------------------
(* Properties *)

\* The row keeps its types; in particular login never writes a negative count.
TypeOK ==
    /\ account \in BOOLEAN
    /\ attempts \in Nat /\ lockedUntil \in Nat /\ stored \in Nat /\ now \in Nat
    /\ call \in [Calls -> Call]
    /\ minted \in Nat /\ issued \subseteq Nat /\ redeemed \subseteq Nat \X Nat
    /\ refused \subseteq Nat
    /\ failures \in Nat /\ lastFailure \in Nat

\* Each refresh token is exchanged for a new pair at most once, however many
\* calls present it at the same time: "A replayed or concurrent refresh with
\* the same token matches zero rows".
RedeemedOnce ==
    \A p, q \in redeemed : p[1] = q[1] => p = q

Chain == INSTANCE SingleUseToken
         WITH Tokens <- 1 .. MaxTokens, live <- stored, dead <- issued \ {stored},
              exchanged <- redeemed

\* The refreshToken column implements single-use tokens.  refresh compares the
\* token with a row it read, signs new tokens, and only then writes; still it acts
\* as one step: it replaces the token that it presented and no other (never that
\* of a login, nor the null of a logout, that came in between), never brings back
\* a token that was replaced or logged out, and fails only if its token is dead.
ImplementsSingleUse == Chain!Spec

\* Whatever logins overlap, a stored count at the limit means an account locked
\* for the whole period from the latest wrong password: a slower failure or the
\* reset of a success never leaves the full count without its lock, nor an
\* older lock with it (login).
FullCountLocks ==
    attempts >= MaxFailedAttempts => lockedUntil = lastFailure + Lockout

----------------------------------------------------------------------------
(* The inductive invariant behind RedeemedOnce and ImplementsSingleUse *)

\* Everything minted is counted; NoToken is not a token.
TokensMinted ==
    /\ issued \subseteq 1 .. minted
    /\ minted <= MaxTokens
    /\ stored = NoToken \/ stored \in issued
    /\ \A p \in redeemed : p[1] \in issued

\* A token on its way to the row is known to nobody else.
PendingFresh ==
    \A c \in Calls : call[c].pc \in {"persist", "swap"} =>
        /\ call[c].new \in 1 .. minted /\ call[c].new \notin issued
        /\ \A d \in Calls : d # c /\ call[d].pc \in {"persist", "swap"} =>
              call[d].new # call[c].new

\* The token in the row has not been redeemed.
LiveUnredeemed == \A p \in redeemed : p[1] # stored

\* A refresh goes on with a token it found in the row.
PresentedIssued ==
    \A c \in Calls : /\ call[c].token \in issued \cup {NoToken}
                     /\ call[c].pc = "swap" => call[c].token # NoToken

TokenInv == /\ TypeOK /\ TokensMinted /\ PendingFresh /\ LiveUnredeemed
            /\ PresentedIssued /\ RedeemedOnce
============================================================================
