-------------------------- MODULE SingleUseToken --------------------------
(***************************************************************************)
(* What refresh tokens promise.  At most one token is live.  A refresh is  *)
(* answered by exchanging the token it presents, which must be the live    *)
(* one at that moment, for a new one, in one step; it is refused only if   *)
(* its token is dead.  A sign-in replaces and a sign-out revokes the live  *)
(* token, and no dead token lives again.                                   *)
(***************************************************************************)
CONSTANTS Tokens, NoToken

VARIABLES live, dead,
          exchanged,  \* <<presented, new>> of every refresh that was answered
          refused     \* tokens presented to a refresh that was refused
vars == <<live, dead, exchanged, refused>>

Buried == IF live = NoToken THEN dead ELSE dead \cup {live}

Init == live = NoToken /\ dead = {} /\ exchanged = {} /\ refused = {}

Replace(t) == t \notin dead \cup {live} /\ live' = t /\ dead' = Buried

SignIn(t) == Replace(t) /\ UNCHANGED <<exchanged, refused>>

Exchange(t) ==
    /\ live # NoToken
    /\ Replace(t)
    /\ exchanged' = exchanged \cup {<<live, t>>}
    /\ UNCHANGED refused

Refuse(t) ==
    /\ t \in dead
    /\ refused' = refused \cup {t}
    /\ UNCHANGED <<live, dead, exchanged>>

SignOut ==
    /\ live' = NoToken /\ dead' = Buried
    /\ UNCHANGED <<exchanged, refused>>

Next == (\E t \in Tokens : SignIn(t) \/ Exchange(t) \/ Refuse(t)) \/ SignOut
Spec == Init /\ [][Next]_vars
============================================================================
