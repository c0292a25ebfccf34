---------------------------- MODULE UserSessions ----------------------------
(***************************************************************************)
(* The session table of session.ts.  A session remembers what opened it:    *)
(* the proof (a password, a challenge, an OIDC request) and the provider.   *)
(* Idle and absolute expiry, logout and revocation all end a session.       *)
(***************************************************************************)
EXTENDS Integers, FiniteSets

CONSTANTS Session,  \* session ids
          Nil

VARIABLE session    \* session |-> [status, proof, provider]

SessionInit == session = [s \in Session |-> [status |-> "none", proof |-> Nil, provider |-> Nil]]

Live == {s \in Session : session[s].status = "live"}

Closed(S) ==
    [s \in Session |-> IF s \in S \cap Live THEN [session[s] EXCEPT !.status = "over"] ELSE session[s]]

\* The two writes of createUserSession.  The session of the cookie presented, if
\* any, is revoked, and then a new one is inserted; nothing joins the two.
RevokePrevious == \E previous \in {{}} \cup {{p} : p \in Live} : session' = Closed(previous)

OpenSession(proof, provider) ==
    \E s \in {x \in Session : session[x].status = "none"} :
        session' = [session EXCEPT ![s] = [status |-> "live", proof |-> proof, provider |-> provider]]

\* Logout, revokeOwnSession and expiry end one session; revokeOtherSessions
\* ends the others.
EndSession(s) == s \in Live /\ session' \in {Closed({s}), Closed(Live \ {s})}
=============================================================================
