------------------------------- MODULE Push -------------------------------
(***************************************************************************)
(* NotificationsService.create, PushService.sendToUser and                 *)
(* FcmSender.sendMulticast: a stored notification is sent to every         *)
(* registered token of the user, with retries, and tokens that FCM calls   *)
(* invalid are pruned.  Notifications are created, and tokens registered   *)
(* and removed, while other sends are under way.                           *)
(*                                                                         *)
(* FCM is external: it answers for every token of a batch, or not at all,  *)
(* and any answer is possible for any token.  INVALID_TOKEN_CODES holds    *)
(* codes, invalid-argument and mismatched-credential, that a working token *)
(* may get as well, so nothing is assumed of the tokens called invalid.    *)
(***************************************************************************)
EXTENDS Naturals, FiniteSets

CONSTANTS Users, Tokens, Sends, Null,
          Ready,         \* FirebaseService.isReady
          MaxRetries,    \* MAX_RETRIES
          MaxChanges     \* bound: registrations and removals

ASSUME PushAssumption ==
    Null \notin Users /\ Ready \in BOOLEAN /\ MaxRetries \in Nat /\ MaxChanges \in Nat

VARIABLES
    owner,      \* the push_tokens table: user of every token, Null: no row
    send,       \* local state of every NotificationsService.create
    changes

vars == <<owner, send, changes>>

None == [t \in Tokens |-> 0]
NewSend == [pc |-> "new", user |-> Null, tokens |-> {}, pending |-> {}, attempt |-> 0,
            sent |-> None, invalid |-> None, errored |-> None]

Init ==
    /\ owner \in [Tokens -> Users]
    /\ send = [s \in Sends |-> NewSend]
    /\ changes = 0

\* list.push(...tokens)
Pushed(list, tokens) == [t \in Tokens |-> IF t \in tokens THEN list[t] + 1 ELSE list[t]]
Listed(list) == {t \in Tokens : list[t] > 0}

----------------------------------------------------------------------------
(* create: the row is stored, then delivered if push is configured *)

Create(s, u) ==
    /\ send[s].pc = "new"
    /\ send' = [send EXCEPT ![s] = [@ EXCEPT !.user = u, !.pc = IF Ready THEN "read" ELSE "done"]]
    /\ UNCHANGED <<owner, changes>>

\* pushToken.findMany; without tokens there is nothing to send.
ReadTokens(s) ==
    /\ send[s].pc = "read"
    /\ LET mine == {t \in Tokens : owner[t] = send[s].user}
       IN send' = [send EXCEPT ![s] = [@ EXCEPT
              !.pc = IF mine = {} THEN "flag" ELSE "batch",
              !.tokens = mine, !.pending = mine]]
    /\ UNCHANGED <<owner, changes>>

\* findMany rejects: deliver answers false.
ReadFails(s) ==
    /\ send[s].pc = "read"
    /\ send' = [send EXCEPT ![s].pc = "done"]
    /\ UNCHANGED <<owner, changes>>

----------------------------------------------------------------------------
(* sendMulticast *)

Last(s) == send[s].attempt = MaxRetries

\* Mutant: transient failures of the last attempt are not reported.
AfterBatchSilent(s, ok, invalid, transient, other) ==
    LET x == send[s]
        retry == IF Last(s) THEN {} ELSE transient
    IN [x EXCEPT !.pc = IF retry = {} THEN "prune" ELSE "batch",
                 !.pending = retry, !.attempt = x.attempt + 1,
                 !.sent = Pushed(@, ok), !.invalid = Pushed(@, invalid),
                 !.errored = Pushed(@, other)]

\* Every answer is classified; transient failures are tried again until the
\* last attempt.
AfterBatch(s, ok, invalid, transient, other) ==
    LET x == send[s]
        retry == IF Last(s) THEN {} ELSE transient
    IN [x EXCEPT !.pc = IF retry = {} THEN "prune" ELSE "batch",
                 !.pending = retry, !.attempt = x.attempt + 1,
                 !.sent = Pushed(x.sent, ok), !.invalid = Pushed(x.invalid, invalid),
                 !.errored = Pushed(x.errored,
                                    IF Last(s) THEN other \cup transient ELSE other)]

Batch(s) ==
    /\ send[s].pc = "batch"
    /\ \E ok, invalid, transient \in SUBSET send[s].pending :
          /\ ok \cap invalid = {} /\ (ok \cup invalid) \cap transient = {}
          /\ send' = [send EXCEPT ![s] = AfterBatch(s, ok, invalid, transient,
                                           send[s].pending \ (ok \cup invalid \cup transient))]
    /\ UNCHANGED <<owner, changes>>

\* Mutant: a failing batch is tried again for ever.
BatchFailsForever(s) ==
    /\ send[s].pc = "batch"
    /\ send' = [send EXCEPT ![s].attempt = IF Last(s) THEN 0 ELSE @ + 1]
    /\ UNCHANGED <<owner, changes>>

\* The call rejects: the same batch again, or everything pending is errored.
BatchFails(s) ==
    /\ send[s].pc = "batch"
    /\ send' = [send EXCEPT ![s] =
           IF Last(s) THEN [@ EXCEPT !.pc = "prune", !.pending = {},
                                     !.errored = Pushed(send[s].errored, send[s].pending)]
           ELSE [@ EXCEPT !.attempt = send[s].attempt + 1]]
    /\ UNCHANGED <<owner, changes>>

----------------------------------------------------------------------------
(* The rest of sendToUser and of create *)

\* pushToken.deleteMany of the invalid tokens, whoever owns them now.
Prune(s) ==
    /\ send[s].pc = "prune"
    /\ owner' = [t \in Tokens |-> IF t \in Listed(send[s].invalid) THEN Null ELSE owner[t]]
    /\ send' = [send EXCEPT ![s].pc = "flag"]
    /\ UNCHANGED changes

\* The deletion fails and is logged.
PruneFails(s) ==
    /\ send[s].pc = "prune" /\ Listed(send[s].invalid) # {}
    /\ send' = [send EXCEPT ![s].pc = "flag"]
    /\ UNCHANGED <<owner, changes>>

\* sentViaFcm, which nothing reads, is set; a failure of that is ignored.
Flag(s) ==
    /\ send[s].pc = "flag"
    /\ send' = [send EXCEPT ![s].pc = "done"]
    /\ UNCHANGED <<owner, changes>>

----------------------------------------------------------------------------
(* Apps *)

Change == changes < MaxChanges /\ changes' = changes + 1

\* registerToken: the token now belongs to u, whoever had it.
Register(t, u) ==
    /\ Change
    /\ owner' = [owner EXCEPT ![t] = u]
    /\ UNCHANGED send

\* removeToken: only the user's own.
Remove(t, u) ==
    /\ Change
    /\ owner[t] = u
    /\ owner' = [owner EXCEPT ![t] = Null]
    /\ UNCHANGED send

SendStep(s) ==
    \/ ReadTokens(s) \/ ReadFails(s) \/ Batch(s) \/ BatchFails(s)
    \/ Prune(s) \/ PruneFails(s) \/ Flag(s)

Next ==
    \/ \E s \in Sends : SendStep(s) \/ \E u \in Users : Create(s, u)
    \/ \E t \in Tokens, u \in Users : Register(t, u) \/ Remove(t, u)

Spec == Init /\ [][Next]_vars

\* A create that was called goes on.
FairSpec == Spec /\ \A s \in Sends : WF_vars(SendStep(s))

----------------------------------------------------------------------------
(* Properties *)

\* Every token a send was started with is reported exactly once, as sent,
\* invalid or errored, or is still pending: "every still-pending token is
\* counted as errored exactly once" (sendMulticast).  So a token for which the
\* message was accepted does not get it again when others are retried.
ReportedOnce ==
    \A s \in Sends, t \in Tokens :
        LET x == send[s]
        IN x.sent[t] + x.invalid[t] + x.errored[t] + (IF t \in x.pending THEN 1 ELSE 0)
              = IF t \in x.tokens THEN 1 ELSE 0

\* "a push failure must not break the action that triggered it": create comes
\* to its end whatever FCM and the database do.
SendEnds == \A s \in Sends : (send[s].pc # "new") ~> (send[s].pc = "done")

----------------------------------------------------------------------------
(* The inductive invariant behind ReportedOnce *)

SendState == [pc : {"new", "read", "batch", "prune", "flag", "done"}, user : Users \cup {Null},
              tokens : SUBSET Tokens, pending : SUBSET Tokens, attempt : Nat,
              sent : [Tokens -> Nat], invalid : [Tokens -> Nat], errored : [Tokens -> Nat]]

\* The counts of a send are numbers, by token.
TypeOK ==
    /\ owner \in [Tokens -> Users \cup {Null}]
    /\ send \in [Sends -> SendState] /\ changes \in Nat

\* Nothing is pending before the tokens are read and after the last batch, and a
\* send has no tokens before it reads them.
PendingInBatch ==
    \A s \in Sends : /\ send[s].pc # "batch" => send[s].pending = {}
                     /\ send[s].pc \in {"new", "read"} => send[s].tokens = {}

PushInv == TypeOK /\ PendingInBatch /\ ReportedOnce
============================================================================
