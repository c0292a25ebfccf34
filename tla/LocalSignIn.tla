---------------------------- MODULE LocalSignIn ----------------------------
(***************************************************************************)
(* One person's local identity: the password and its legacy hash, reset     *)
(* tokens, login challenges, TOTP methods and recovery codes, and the       *)
(* requests that use them (identity-auth.ts, identity-management.ts,        *)
(* password-reset.ts, mfa.ts).  A request reads, decides, and then writes   *)
(* in one transaction; other requests run in between.  The n-th password    *)
(* stands for itself, and a TOTP code for its method and counter.           *)
(***************************************************************************)
EXTENDS UserSessions

CONSTANTS Visit,        \* requests in progress
          Token,         \* password reset tokens
          Challenge,     \* login challenges
          Method,        \* TOTP methods
          Recovery,      \* recovery codes
          MaxAttempts,   \* LOGIN_CHALLENGE_MAX_ATTEMPTS
          MaxClock,      \* bound on the 30-second counter
          MaxChanges     \* bound on password changes

ASSUME SignInAssumption ==
    /\ MaxAttempts \in Nat \ {0} /\ MaxClock \in Nat /\ MaxChanges \in Nat
    /\ Nil \notin Challenge

Totp == [method : Method, at : 0..(MaxClock + 1)]
Code == Totp \cup Recovery

VARIABLES
    clock,
    credential,  \* [password, legacy]: which password the hash is of; PBKDF2 or not
    changes,     \* passwords set so far by reset or change
    token,       \* reset token |-> "none", "open", "expired" or "used"
    challenge,   \* challenge |-> [status, attempts], with the same four
    method,      \* TOTP method |-> [status, last]
    recovery,    \* recovery code |-> "none", "unused" or "gone"
    caller,      \* request |-> what it has read and where it is
    accepted     \* code |-> times it was accepted (history)

localVars == <<session, clock, credential, changes, token, challenge, method, recovery, caller, accepted>>

IdleVisit == [pc |-> "idle", item |-> Nil, code |-> Nil, password |-> 0]

\* The person may have enrolled long ago and used all recovery codes since.
SignInInit ==
    /\ SessionInit
    /\ clock = 0
    /\ credential \in [password : {0}, legacy : BOOLEAN]
    /\ changes = 0
    /\ token = [t \in Token |-> "none"]
    /\ challenge = [c \in Challenge |-> [status |-> "none", attempts |-> 0]]
    /\ \E enrolled \in {{}} \cup {{m} : m \in Method} :
          method = [m \in Method |-> [status |-> IF m \in enrolled THEN "ACTIVE" ELSE "NONE", last |-> -1]]
    /\ recovery = [r \in Recovery |-> "none"]
    /\ caller = [c \in Visit |-> IdleVisit]
    /\ accepted = [c \in Code |-> 0]

At(c, pc) == caller[c].pc = pc
Goes(c, pc, item) == caller' = [caller EXCEPT ![c] = [IdleVisit EXCEPT !.pc = pc, !.item = item]]
Returns(c) == caller' = [caller EXCEPT ![c] = IdleVisit]

ActiveMethods == {m \in Method : method[m].status = "ACTIVE"}

\* verifyTotp: one step of skew, and a counter above the last one used.
Verifies(m, code) ==
    /\ code \in Totp
    /\ code.method = m
    /\ code.at \in (clock - 1)..(clock + 1)
    /\ code.at > method[m].last

Counted(code) == accepted' = [accepted EXCEPT ![code] = @ + 1]

-----------------------------------------------------------------------------
\* authenticatePrimaryCredential: the credential, the user and the methods are
\* read together; a legacy hash is then replaced, whatever it has become.
ReadCredential(c) ==
    /\ At(c, "idle")
    /\ caller' = [caller EXCEPT ![c] =
          [IdleVisit EXCEPT !.pc = IF credential.legacy THEN "rehash" ELSE "decide",
                             !.item = IF ActiveMethods = {} THEN Nil ELSE "MFA",
                             !.password = credential.password]]
    /\ UNCHANGED <<session, clock, credential, changes, token, challenge, method, recovery, accepted>>

Rehash(c) ==
    /\ At(c, "rehash")
    /\ credential' = [password |-> caller[c].password, legacy |-> FALSE]
    /\ caller' = [caller EXCEPT ![c].pc = "decide"]
    /\ UNCHANGED <<session, clock, changes, token, challenge, method, recovery, accepted>>

\* A policy may require a second factor of someone who has none yet.
Decide(c) ==
    /\ At(c, "decide")
    /\ \/ /\ \E x \in Challenge :
                /\ challenge[x].status = "none"
                /\ challenge' = [challenge EXCEPT ![x].status = "open"]
          /\ Returns(c)
       \/ /\ caller[c].item = Nil
          /\ Goes(c, "rotate", Nil)
          /\ UNCHANGED challenge
    /\ UNCHANGED <<session, clock, credential, changes, token, method, recovery, accepted>>

-----------------------------------------------------------------------------
\* authenticateMfaChallenge: what the code is checked against is read first.
ReadChallenge(c, x, code) ==
    /\ At(c, "idle")
    /\ challenge[x].status = "open"
    /\ challenge[x].attempts < MaxAttempts
    /\ \E m \in IF ActiveMethods = {} THEN {Nil} ELSE ActiveMethods :
          LET valid == \/ m # Nil /\ Verifies(m, code)
                       \/ code \in Recovery /\ recovery[code] = "unused"
          IN  caller' = [caller EXCEPT ![c] = [IdleVisit EXCEPT !.pc = IF valid THEN "consume" ELSE "wrong",
                                                                 !.item = x,
                                                                 !.code = IF valid THEN code ELSE Nil]]
    /\ UNCHANGED <<session, clock, credential, changes, token, challenge, method, recovery, accepted>>

\* Mutation: a challenge that was used may be used again.
ConsumableAgain(x) == challenge[x].attempts < MaxAttempts

\* The expiry is compared with the time at which the request began.
Consumable(x) == challenge[x].status # "used" /\ challenge[x].attempts < MaxAttempts

WrongCode(c) ==
    /\ At(c, "wrong")
    /\ LET x == caller[c].item
       IN  challenge' = IF Consumable(x) THEN [challenge EXCEPT ![x].attempts = @ + 1] ELSE challenge
    /\ Returns(c)
    /\ UNCHANGED <<session, clock, credential, changes, token, method, recovery, accepted>>

\* Mutation: the transaction does not compare the counter again.
UnusedUnfenced(code) ==
    IF code \in Totp THEN method[code.method].status = "ACTIVE" ELSE recovery[code] = "unused"

\* The transaction that uses the code up, or finds it used and rolls back.
Unused(code) ==
    IF code \in Totp THEN method[code.method].status = "ACTIVE" /\ method[code.method].last < code.at
    ELSE recovery[code] = "unused"

UseUp(code) ==
    IF code \in Totp
    THEN method' = [method EXCEPT ![code.method].last = code.at] /\ UNCHANGED recovery
    ELSE recovery' = [recovery EXCEPT ![code] = "gone"] /\ UNCHANGED method

Consume(c) ==
    LET x == caller[c].item
        code == caller[c].code
    IN  /\ At(c, "consume")
        /\ IF Consumable(x) /\ Unused(code)
           THEN /\ challenge' = [challenge EXCEPT ![x].status = "used"]
                /\ UseUp(code)
                /\ Counted(code)
                /\ Goes(c, "rotate", x)
           ELSE /\ Returns(c)
                /\ UNCHANGED <<challenge, method, recovery, accepted>>
        /\ UNCHANGED <<session, clock, credential, changes, token>>

\* createUserSession, after a password or a challenge.
Rotate(c) ==
    /\ At(c, "rotate")
    /\ RevokePrevious
    /\ caller' = [caller EXCEPT ![c].pc = "open"]
    /\ UNCHANGED <<clock, credential, changes, token, challenge, method, recovery, accepted>>

Admit(c) ==
    /\ At(c, "open")
    /\ OpenSession(caller[c].item, Nil)
    /\ Returns(c)
    /\ UNCHANGED <<clock, credential, changes, token, challenge, method, recovery, accepted>>

-----------------------------------------------------------------------------
\* Enrolment.  beginTotpEnrollment looks for an active method and then, in a
\* transaction, replaces a pending one; confirmTotpEnrollment activates what is
\* still pending and replaces the recovery codes.
SignedIn == Live # {}

CheckEnrollment(c) ==
    /\ At(c, "idle") /\ SignedIn
    /\ ActiveMethods = {}
    /\ Goes(c, "enroll", Nil)
    /\ UNCHANGED <<session, clock, credential, changes, token, challenge, method, recovery, accepted>>

Enroll(c) ==
    /\ At(c, "enroll")
    /\ \E m \in Method :
          /\ method[m].status = "NONE"
          /\ method' = [x \in Method |->
                IF x = m THEN [method[x] EXCEPT !.status = "PENDING"]
                ELSE IF method[x].status = "PENDING" THEN [method[x] EXCEPT !.status = "DISABLED"]
                ELSE method[x]]
    /\ Returns(c)
    /\ UNCHANGED <<session, clock, credential, changes, token, challenge, recovery, accepted>>

CheckConfirmation(c, m, code) ==
    /\ At(c, "idle") /\ SignedIn
    /\ method[m].status = "PENDING"
    /\ Verifies(m, code)
    /\ caller' = [caller EXCEPT ![c] = [IdleVisit EXCEPT !.pc = "confirm", !.code = code]]
    /\ UNCHANGED <<session, clock, credential, changes, token, challenge, method, recovery, accepted>>

\* The old batch is deleted and a new one created.
Reissue ==
    \E r \in Recovery :
        /\ recovery[r] = "none"
        /\ recovery' = [x \in Recovery |-> IF x = r THEN "unused"
                                           ELSE IF recovery[x] = "unused" THEN "gone" ELSE recovery[x]]

Confirm(c) ==
    LET code == caller[c].code
    IN  /\ At(c, "confirm")
        /\ IF method[code.method].status = "PENDING"
           THEN /\ method' = [method EXCEPT ![code.method] = [status |-> "ACTIVE", last |-> code.at]]
                /\ Reissue
                /\ Counted(code)
           ELSE UNCHANGED <<method, recovery, accepted>>
        /\ Returns(c)
        /\ UNCHANGED <<session, clock, credential, changes, token, challenge>>

-----------------------------------------------------------------------------
\* regenerateRecoveryCodes and disableTotp: verifyActiveMfaCode reads, and then
\* uses the code up; a transaction of its own does the rest.
CheckCode(c, m, code, purpose) ==
    /\ At(c, "idle") /\ SignedIn
    /\ m \in ActiveMethods
    /\ Verifies(m, code)
    /\ caller' = [caller EXCEPT ![c] = [IdleVisit EXCEPT !.pc = "spend", !.item = purpose, !.code = code]]
    /\ UNCHANGED <<session, clock, credential, changes, token, challenge, method, recovery, accepted>>

SpendCode(c) ==
    LET code == caller[c].code
    IN  /\ At(c, "spend")
        /\ IF Unused(code)
           THEN UseUp(code) /\ Counted(code) /\ caller' = [caller EXCEPT ![c].pc = caller[c].item]
           ELSE Returns(c) /\ UNCHANGED <<method, recovery, accepted>>
        /\ UNCHANGED <<session, clock, credential, changes, token, challenge>>

Regenerate(c) ==
    /\ At(c, "regenerate")
    /\ Reissue
    /\ Returns(c)
    /\ UNCHANGED <<session, clock, credential, changes, token, challenge, method, accepted>>

DisableTotp(c) ==
    /\ At(c, "disable")
    /\ method' = [method EXCEPT ![caller[c].code.method].status = "DISABLED"]
    /\ recovery' = [r \in Recovery |-> IF recovery[r] = "unused" THEN "gone" ELSE recovery[r]]
    /\ session' = Closed(Live)
    /\ Returns(c)
    /\ UNCHANGED <<clock, credential, changes, token, challenge, accepted>>

-----------------------------------------------------------------------------
\* Both ways to a new password end every session and reset token.
SetPassword(c) ==
    /\ changes < MaxChanges
    /\ changes' = changes + 1
    /\ credential' = [password |-> changes + 1, legacy |-> FALSE]
    /\ token' = [t \in Token |-> IF token[t] \in {"open", "expired"} THEN "used" ELSE token[t]]
    /\ session' = Closed(Live)
    /\ Returns(c)
    /\ UNCHANGED <<clock, challenge, method, recovery, accepted>>

CheckChange(c) ==
    /\ At(c, "idle") /\ SignedIn
    /\ Goes(c, "change", Nil)
    /\ UNCHANGED <<session, clock, credential, changes, token, challenge, method, recovery, accepted>>

ChangePassword(c) == At(c, "change") /\ SetPassword(c)

\* createPasswordReset: earlier tokens are used up in the same transaction.
RequestReset(t) ==
    /\ token[t] = "none"
    /\ token' = [x \in Token |-> IF x = t THEN "open"
                                 ELSE IF token[x] = "none" THEN "none" ELSE "used"]
    /\ UNCHANGED <<session, clock, credential, changes, challenge, method, recovery, caller, accepted>>

CheckReset(c, t) ==
    /\ At(c, "idle")
    /\ token[t] = "open"
    /\ Goes(c, "reset", t)
    /\ UNCHANGED <<session, clock, credential, changes, token, challenge, method, recovery, accepted>>

ResetPassword(c) ==
    /\ At(c, "reset")
    /\ IF token[caller[c].item] # "used" THEN SetPassword(c)
       ELSE /\ Returns(c)
            /\ UNCHANGED <<session, clock, credential, changes, token, challenge, method, recovery, accepted>>

-----------------------------------------------------------------------------
Logout(s) ==
    /\ EndSession(s)
    /\ UNCHANGED <<clock, credential, changes, token, challenge, method, recovery, caller, accepted>>

Tick ==
    /\ clock < MaxClock
    /\ clock' = clock + 1
    /\ UNCHANGED <<session, credential, changes, token, challenge, method, recovery, caller, accepted>>

Expire ==
    /\ \/ \E t \in Token : token[t] = "open" /\ token' = [token EXCEPT ![t] = "expired"] /\ UNCHANGED challenge
       \/ /\ \E x \in Challenge : challenge[x].status = "open"
                                  /\ challenge' = [challenge EXCEPT ![x].status = "expired"]
          /\ UNCHANGED token
    /\ UNCHANGED <<session, clock, credential, changes, method, recovery, caller, accepted>>

SignInNext ==
    \/ \E c \in Visit :
          \/ ReadCredential(c) \/ Rehash(c) \/ Decide(c)
          \/ \E x \in Challenge, code \in Code : ReadChallenge(c, x, code)
          \/ WrongCode(c) \/ Consume(c) \/ Rotate(c) \/ Admit(c)
          \/ CheckEnrollment(c) \/ Enroll(c) \/ Confirm(c)
          \/ \E m \in Method, code \in Totp :
                \/ CheckConfirmation(c, m, code)
                \/ \E purpose \in {"regenerate", "disable"} : CheckCode(c, m, code, purpose)
          \/ SpendCode(c) \/ Regenerate(c) \/ DisableTotp(c)
          \/ CheckChange(c) \/ ChangePassword(c) \/ ResetPassword(c)
          \/ \E t \in Token : CheckReset(c, t)
    \/ \E t \in Token : RequestReset(t)
    \/ \E s \in Session : Logout(s)
    \/ Tick \/ Expire

SignInSpec == SignInInit /\ [][SignInNext]_localVars

-----------------------------------------------------------------------------
\* State keeps its shape.
SignInTypeOK ==
    /\ credential \in [password : 0..MaxChanges, legacy : BOOLEAN]
    /\ token \in [Token -> {"none", "open", "expired", "used"}]
    /\ challenge \in [Challenge -> [status : {"none", "open", "expired", "used"}, attempts : 0..MaxAttempts]]
    /\ method \in [Method -> [status : {"NONE", "PENDING", "ACTIVE", "DISABLED"}, last : -1..(MaxClock + 1)]]
    /\ recovery \in [Recovery -> {"none", "unused", "gone"}]

\* However many requests present it at once, and whatever they present it for,
\* a TOTP or recovery code is accepted once.
CodeAcceptedOnce == \A code \in Code : accepted[code] <= 1

\* A challenge opens at most one session.
ChallengeOpensOne ==
    \A x \in Challenge : Cardinality({s \in Session : session[s].proof = x}) <= 1

-----------------------------------------------------------------------------
(* What the documentation says and the code does not do; no run checks it. *)

\* The password on record is the last one set: docs/authentication.md:127.
LastPasswordStays == credential.password = changes

\* A person has one active TOTP method: beginTotpEnrollment refuses a second.
OneActiveMethod == Cardinality(ActiveMethods) <= 1
=============================================================================
