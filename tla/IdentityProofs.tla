--------------------------- MODULE IdentityProofs ---------------------------
(*****************************************************************************)
(* The safety properties of LocalSignIn, for any number of visits, tokens,   *)
(* challenges, TOTP methods, recovery codes and sessions, and of OidcSignIn, *)
(* for any operators, browsers, authorization requests and policies.  What   *)
(* they share is the table of sessions (UserSessions): ending sessions leaves *)
(* what opened them, and opening one uses an unused id.                      *)
(*                                                                           *)
(* Local visits read and then write.  What keeps a code from being accepted  *)
(* twice is that an accepted code stays spent (Spent): the counter of its    *)
(* method has reached it, or the recovery code is gone.  What keeps a        *)
(* challenge from opening two sessions is that the visit which used it up is *)
(* the only one on its way to open one (Opening, ChallengesOpened).          *)
(*                                                                           *)
(* Operators and callbacks of OIDC act on a provider they read earlier.  The *)
(* invariant says what a matching version still tells them of it             *)
(* (OperatorKnows, BrowserKnows), that only one callback gets past the       *)
(* consumption of a request (OnePast), and that a request which has served as *)
(* proof or opened a session serves nobody any more (Proven, RequestsOpened). *)
(*****************************************************************************)
EXTENDS LocalSignIn, OidcSignIn, FiniteSetTheorems, TLAPS

(* Sessions. *)

SessionRecord(Opener, Via) ==
    [status : {"none", "live", "over"}, proof : Opener, provider : Via]

\* What opened session t stays, and an id that is taken stays taken.
Kept(t) ==
    /\ session'[t].proof = session[t].proof
    /\ session'[t].status = "none" => session[t].status = "none"

\* Closing sessions (logout, revocation, expiry) leaves what opened them.
LEMMA CloseKeeps ==
    ASSUME NEW P, NEW Q, session \in [Session -> SessionRecord(P, Q)],
           NEW S \in SUBSET Session, session' = Closed(S)
    PROVE  session' \in [Session -> SessionRecord(P, Q)] /\ \A t \in Session : Kept(t)
  BY DEF Closed, Live, SessionRecord, Kept

\* Ending one session, or all but one, is closing some.
LEMMA EndKeeps ==
    ASSUME NEW P, NEW Q, session \in [Session -> SessionRecord(P, Q)],
           NEW s \in Session, EndSession(s)
    PROVE  session' \in [Session -> SessionRecord(P, Q)] /\ \A t \in Session : Kept(t)
  <1>1. PICK S \in SUBSET Session : session' = Closed(S)
    BY DEF EndSession, Live
  <1> QED BY <1>1, CloseKeeps

\* So is revoking the session of the cookie presented, if any.
LEMMA RevokeKeeps ==
    ASSUME NEW P, NEW Q, session \in [Session -> SessionRecord(P, Q)], RevokePrevious
    PROVE  session' \in [Session -> SessionRecord(P, Q)] /\ \A t \in Session : Kept(t)
  <1>1. PICK S \in SUBSET Session : session' = Closed(S)
    BY DEF RevokePrevious, Live
  <1> QED BY <1>1, CloseKeeps

\* Opening a session (createUserSession) gives its proof to one unused id.
LEMMA OpenAdds ==
    ASSUME NEW P, NEW Q, session \in [Session -> SessionRecord(P, Q)],
           NEW p \in P, NEW q \in Q, OpenSession(p, q)
    PROVE  /\ session' \in [Session -> SessionRecord(P, Q)]
           /\ \E s \in Session :
                 /\ session[s].status = "none"
                 /\ session'[s].status = "live" /\ session'[s].proof = p
                 /\ \A t \in Session \ {s} : Kept(t)
  <1> DEFINE new == [status |-> "live", proof |-> p, provider |-> q]
  <1>1. PICK s \in Session : session[s].status = "none" /\ session' = [session EXCEPT ![s] = new]
    BY DEF OpenSession
  <1>2. new \in SessionRecord(P, Q) /\ new.status = "live" /\ new.proof = p
    BY DEF SessionRecord
  <1> HIDE DEF new
  <1>3. /\ session' \in [Session -> SessionRecord(P, Q)] /\ session'[s] = new
        /\ \A t \in Session \ {s} : session'[t] = session[t]
    BY <1>1, <1>2
  <1> QED BY <1>1, <1>2, <1>3 DEF Kept

-----------------------------------------------------------------------------
(* Local sign-in. *)

Proof == Challenge \cup {Nil}

ChallengeState == [status : {"none", "open", "expired", "used"}, attempts : 0..MaxAttempts]
MethodState == [status : {"NONE", "PENDING", "ACTIVE", "DISABLED"}, last : -1..(MaxClock + 1)]
VisitState ==
    [pc : {"idle", "rehash", "decide", "wrong", "consume", "rotate", "open", "enroll", "confirm",
           "spend", "regenerate", "disable", "change", "reset"},
     item : Challenge \cup Token \cup {Nil, "MFA", "regenerate", "disable"},
     code : Code \cup {Nil}, password : 0..MaxChanges]

SignInStateOK ==
    /\ SignInTypeOK
    /\ session \in [Session -> SessionRecord(Proof, {Nil})]
    /\ clock \in 0..MaxClock
    /\ changes \in 0..MaxChanges
    /\ caller \in [Visit -> VisitState]
    /\ accepted \in [Code -> Nat]

\* It has been let in, and opens a session with what it has in hand: a
\* challenge, or nothing but a password.
OnWay(k) == k.pc \in {"rotate", "open"}

Holding(k, x) == OnWay(k) /\ k.item = x

\* What a request has in hand where it stands.
Equipped(k) ==
    /\ k.pc \in {"wrong", "consume"} => k.item \in Challenge
    /\ OnWay(k) => k.item \in Proof
    /\ k.pc = "consume" => k.code \in Code
    /\ k.pc \in {"confirm", "spend", "regenerate", "disable"} => k.code \in Totp
    /\ k.pc = "spend" => k.item \in {"regenerate", "disable"}

\* A method that was never active has accepted nothing.
Fresh == \A m \in Method : method[m].status \in {"NONE", "PENDING"} => method[m].last = -1

Gone(code) == IF code \in Totp THEN method[code.method].last >= code.at ELSE recovery[code] = "gone"

Spent == \A code \in Code : accepted[code] <= 1 /\ (accepted[code] > 0 => Gone(code))

\* One request at most is on its way to open a session for a challenge.
Opening ==
    \A x \in Challenge, c \in Visit : Holding(caller[c], x) =>
        /\ challenge[x].status = "used"
        /\ \A d \in Visit : Holding(caller[d], x) => c = d

ChallengesOpened ==
    \A s \in Session :
        LET x == session[s].proof
        IN  /\ session[s].status = "none" => x = Nil
            /\ x # Nil => /\ challenge[x].status = "used"
                          /\ \A c \in Visit : ~ Holding(caller[c], x)
                          /\ \A t \in Session : session[t].proof = x => t = s

SignInInv ==
    /\ SignInStateOK
    /\ \A c \in Visit : Equipped(caller[c])
    /\ Fresh /\ Spent
    /\ Opening /\ ChallengesOpened

-----------------------------------------------------------------------------
\* The initial state satisfies the inductive invariant.
LEMMA SignInInitInv == SignInInit => SignInInv
  <1> SUFFICES ASSUME SignInInit PROVE SignInInv
    OBVIOUS
  <1> USE SignInAssumption DEF SignInInit
  <1>1. PICK enrolled : method = [m \in Method |->
              [status |-> IF m \in enrolled THEN "ACTIVE" ELSE "NONE", last |-> -1]]
    OBVIOUS
  <1>2. -1 \in -1..(MaxClock + 1) /\ 0 \in 0..MaxAttempts /\ 0 \in 0..MaxChanges /\ 0 \in 0..MaxClock
    OBVIOUS
  <1>3. method \in [Method -> MethodState] /\ Fresh
    BY <1>1, <1>2 DEF MethodState, Fresh
  <1>4. challenge \in [Challenge -> ChallengeState]
    BY <1>2 DEF ChallengeState
  <1>5. credential \in [password : 0..MaxChanges, legacy : BOOLEAN]
    BY <1>2
  <1>6. SignInTypeOK
    BY <1>3, <1>4, <1>5 DEF SignInTypeOK, MethodState, ChallengeState
  <1>7. IdleVisit \in VisitState /\ IdleVisit.pc = "idle"
    BY <1>2 DEF IdleVisit, VisitState
  <1>8. session \in [Session -> SessionRecord(Proof, {Nil})]
    BY DEF SessionInit, SessionRecord, Proof
  <1>9. SignInStateOK
    BY <1>2, <1>6, <1>7, <1>8 DEF SignInStateOK
  <1>10. \A c \in Visit : Equipped(caller[c])
    BY <1>7 DEF Equipped, OnWay
  <1>11. Spent
    BY DEF Spent
  <1>12. Opening /\ ChallengesOpened
    BY <1>7 DEF Opening, ChallengesOpened, Holding, OnWay, SessionInit
  <1> QED BY <1>3, <1>9, <1>10, <1>11, <1>12 DEF SignInInv

-----------------------------------------------------------------------------
\* A session keeps what opened it, or nothing but a password has.
KeptOrFree(s) == Kept(s) \/ (session[s].proof = Nil /\ session'[s].proof = Nil)

\* A request that holds a challenge held it before.
HoldsNothingNew(k, next) == \A x \in Challenge : Holding(next, x) => Holding(k, x)

\* One request goes on, and takes no challenge in hand.
Onward(c, k) ==
    /\ caller' = [caller EXCEPT ![c] = k]
    /\ k \in VisitState /\ Equipped(k)
    /\ HoldsNothingNew(caller[c], k)

\* Sessions and the requests on their way to open one, when no request sets out to.
LEMMA OpeningsKept ==
    ASSUME SignInInv, \A s \in Session : KeptOrFree(s),
           \A c \in Visit : HoldsNothingNew(caller[c], caller'[c]),
           \A x \in Challenge : challenge[x].status = "used" => challenge'[x].status = "used"
    PROVE  Opening' /\ ChallengesOpened'
  <1>1. \A c \in Visit, x \in Challenge : Holding(caller'[c], x) => Holding(caller[c], x)
    BY DEF HoldsNothingNew
  <1>2. Opening'
    <2> SUFFICES ASSUME NEW x \in Challenge, NEW c \in Visit, Holding(caller'[c], x)
                 PROVE  challenge'[x].status = "used" /\ \A d \in Visit : Holding(caller'[d], x) => c = d
      BY DEF Opening, Holding, OnWay
    <2> QED BY <1>1 DEF SignInInv, Opening
  <1>3. \A s \in Session : session[s].proof \in Proof
    BY DEF SignInInv, SignInStateOK, SessionRecord
  <1>4. \A s \in Session : session'[s].proof = session[s].proof
    BY DEF Kept, KeptOrFree
  <1>5. ChallengesOpened'
    <2> SUFFICES ASSUME NEW s \in Session
                 PROVE  LET x == session[s].proof
                        IN  /\ session'[s].status = "none" => x = Nil
                            /\ x # Nil => /\ challenge'[x].status = "used"
                                          /\ \A c \in Visit : ~ Holding(caller'[c], x)
                                          /\ \A t \in Session : session[t].proof = x => t = s
      BY <1>4 DEF ChallengesOpened, Holding, OnWay
    <2>1. session'[s].status = "none" => session[s].proof = Nil
      BY DEF SignInInv, ChallengesOpened, Kept, KeptOrFree
    <2> QED BY <1>1, <1>3, <2>1 DEF SignInInv, ChallengesOpened, Proof
  <1> QED BY <1>2, <1>5

\* A step that accepts no code and opens no session keeps the invariant if spent
\* codes stay spent and used challenges stay used.
LEMMA QuietKeepsInv ==
    ASSUME SignInInv, SignInTypeOK', changes' \in 0..MaxChanges, clock' \in 0..MaxClock,
           session' \in [Session -> SessionRecord(Proof, {Nil})],
           \A s \in Session : KeptOrFree(s),
           UNCHANGED caller \/ \E c \in Visit, k \in VisitState : Onward(c, k),
           Fresh', UNCHANGED accepted,
           \A m \in Method : method'[m].last = method[m].last,
           \A r \in Recovery : recovery[r] = "gone" => recovery'[r] = "gone",
           \A x \in Challenge : challenge[x].status = "used" => challenge'[x].status = "used"
    PROVE  SignInInv'
  <1>1. /\ caller' \in [Visit -> VisitState]
        /\ \A c \in Visit : Equipped(caller'[c]) /\ HoldsNothingNew(caller[c], caller'[c])
    BY DEF SignInInv, SignInStateOK, Onward, HoldsNothingNew
  <1>2. SignInStateOK'
    BY <1>1 DEF SignInInv, SignInStateOK
  <1>3. \A c \in Visit : Equipped(caller[c])'
    BY <1>1 DEF Equipped, OnWay
  <1>4. Spent'
    <2> SUFFICES ASSUME NEW code \in Code
                 PROVE  accepted[code] <= 1 /\ (accepted[code] > 0 => Gone(code)')
      BY DEF Spent
    <2>1. Gone(code) => Gone(code)'
      BY DEF Gone, Code, Totp
    <2> QED BY <2>1 DEF SignInInv, Spent
  <1>5. Opening' /\ ChallengesOpened'
    BY <1>1, OpeningsKept
  <1> QED BY <1>2, <1>3, <1>4, <1>5 DEF SignInInv

\* A step that changes only what one request holds.
LEMMA ReadKeepsInv ==
    ASSUME SignInInv, NEW c \in Visit, NEW k \in VisitState, Onward(c, k),
           UNCHANGED <<session, clock, credential, changes, token, challenge, method, recovery, accepted>>
    PROVE  SignInInv'
  <1>1. SignInTypeOK' /\ Fresh'
    BY DEF SignInInv, SignInStateOK, SignInTypeOK, Fresh
  <1>2. /\ session' \in [Session -> SessionRecord(Proof, {Nil})] /\ \A s \in Session : KeptOrFree(s)
        /\ changes' \in 0..MaxChanges /\ clock' \in 0..MaxClock
    BY DEF SignInInv, SignInStateOK, Kept, KeptOrFree
  <1>3. UNCHANGED caller \/ \E d \in Visit, q \in VisitState : Onward(d, q)
    OBVIOUS
  <1>4. /\ \A m \in Method : method'[m].last = method[m].last
        /\ \A r \in Recovery : recovery[r] = "gone" => recovery'[r] = "gone"
        /\ \A x \in Challenge : challenge[x].status = "used" => challenge'[x].status = "used"
    OBVIOUS
  <1> QED BY <1>1, <1>2, <1>3, <1>4, QuietKeepsInv

\* What a request may hold next.
LEMMA IdleOnward == IdleVisit \in VisitState /\ Equipped(IdleVisit) /\ IdleVisit.pc = "idle"
  <1>1. 0 \in 0..MaxChanges
    BY SignInAssumption
  <1> QED BY <1>1 DEF IdleVisit, VisitState, Equipped, OnWay

\* A request that is not on its way to a session, or has a password only, holds
\* no challenge.
LEMMA HoldsNone ==
    ASSUME NEW k, NEW next, OnWay(next) => next.item = Nil
    PROVE  HoldsNothingNew(k, next)
  BY SignInAssumption DEF HoldsNothingNew, Holding

\* The step of a request that ends is a step onward.
LEMMA ReturnOnward ==
    ASSUME NEW c \in Visit, Returns(c)
    PROVE  \E k \in VisitState : Onward(c, k)
  BY IdleOnward, HoldsNone DEF Returns, Onward, OnWay

\* The steps that only read.
LEMMA ReadsKeepInv ==
    ASSUME SignInInv, NEW c \in Visit,
           \/ ReadCredential(c) \/ CheckEnrollment(c) \/ CheckChange(c)
           \/ \E x \in Challenge, code \in Code : ReadChallenge(c, x, code)
           \/ \E t \in Token : CheckReset(c, t)
           \/ \E m \in Method, code \in Totp :
                 \/ CheckConfirmation(c, m, code)
                 \/ \E purpose \in {"regenerate", "disable"} : CheckCode(c, m, code, purpose)
    PROVE  SignInInv'
  <1>0. 0 \in 0..MaxChanges /\ Totp \subseteq Code
    BY SignInAssumption DEF Code
  <1>1. UNCHANGED <<session, clock, credential, changes, token, challenge, method, recovery, accepted>>
    BY DEF ReadCredential, CheckEnrollment, CheckChange, ReadChallenge, CheckReset, CheckConfirmation, CheckCode
  <1>2. CASE ReadCredential(c)
    <2>1. PICK pc \in {"rehash", "decide"}, item \in {Nil, "MFA"} :
            caller' = [caller EXCEPT ![c] = [IdleVisit EXCEPT !.pc = pc, !.item = item,
                                                              !.password = credential.password]]
      BY <1>2 DEF ReadCredential
    <2> DEFINE k == [IdleVisit EXCEPT !.pc = pc, !.item = item, !.password = credential.password]
    <2>2. credential.password \in 0..MaxChanges
      BY DEF SignInInv, SignInStateOK, SignInTypeOK
    <2>3. k \in VisitState /\ k.pc = pc
      BY <2>2 DEF VisitState, IdleVisit
    <2>4. Onward(c, k)
      BY <2>1, <2>3, HoldsNone DEF Onward, Equipped, OnWay
    <2> HIDE DEF k
    <2> QED BY <1>1, <2>3, <2>4, ReadKeepsInv
  <1>3. ASSUME NEW pc \in {"enroll", "change", "reset"}, NEW item \in Token \cup {Nil}, Goes(c, pc, item)
        PROVE  SignInInv'
    <2> DEFINE k == [IdleVisit EXCEPT !.pc = pc, !.item = item]
    <2>1. k \in VisitState /\ k.pc = pc
      BY <1>0 DEF VisitState, IdleVisit
    <2>2. Onward(c, k)
      BY <1>3, <2>1, HoldsNone DEF Goes, Onward, Equipped, OnWay
    <2> HIDE DEF k
    <2> QED BY <1>1, <2>1, <2>2, ReadKeepsInv
  <1>4. ASSUME NEW pc \in {"wrong", "consume", "confirm", "spend"},
               NEW item \in Challenge \cup {Nil, "regenerate", "disable"}, NEW code \in Code \cup {Nil},
               caller' = [caller EXCEPT ![c] = [IdleVisit EXCEPT !.pc = pc, !.item = item, !.code = code]],
               Equipped([IdleVisit EXCEPT !.pc = pc, !.item = item, !.code = code])
        PROVE  SignInInv'
    <2> DEFINE k == [IdleVisit EXCEPT !.pc = pc, !.item = item, !.code = code]
    <2>1. k \in VisitState /\ k.pc = pc
      BY <1>0 DEF VisitState, IdleVisit
    <2>2. Onward(c, k)
      BY <1>4, <2>1, HoldsNone DEF Onward, OnWay
    <2> HIDE DEF k
    <2> QED BY <1>1, <2>1, <2>2, ReadKeepsInv
  <1>5. CASE CheckEnrollment(c) \/ CheckChange(c) \/ \E t \in Token : CheckReset(c, t)
    BY <1>3, <1>5 DEF CheckEnrollment, CheckChange, CheckReset
  <1>6. CASE \E x \in Challenge, code \in Code : ReadChallenge(c, x, code)
    <2>1. PICK x \in Challenge, code \in Code : ReadChallenge(c, x, code)
      BY <1>6
    <2>2. PICK pc \in {"wrong", "consume"} :
            caller' = [caller EXCEPT ![c] = [IdleVisit EXCEPT !.pc = pc, !.item = x,
                                                  !.code = IF pc = "consume" THEN code ELSE Nil]]
      BY <2>1 DEF ReadChallenge
    <2> DEFINE q == IF pc = "consume" THEN code ELSE Nil
    <2>3. q \in Code \cup {Nil} /\ (pc = "consume" => q \in Code)
      OBVIOUS
    <2>4. caller' = [caller EXCEPT ![c] = [IdleVisit EXCEPT !.pc = pc, !.item = x, !.code = q]]
      BY <2>2
    <2> HIDE DEF q
    <2>5. Equipped([IdleVisit EXCEPT !.pc = pc, !.item = x, !.code = q])
      BY <2>3 DEF Equipped, OnWay, IdleVisit
    <2> QED BY <1>4, <2>3, <2>4, <2>5
  <1>7. CASE \E m \in Method, code \in Totp : CheckConfirmation(c, m, code)
    <2>1. PICK code \in Totp : caller' = [caller EXCEPT ![c] = [IdleVisit EXCEPT !.pc = "confirm", !.code = code]]
      BY <1>7 DEF CheckConfirmation
    <2> DEFINE k == [IdleVisit EXCEPT !.pc = "confirm", !.code = code]
    <2>2. k \in VisitState /\ k.pc = "confirm" /\ k.code = code
      BY <1>0 DEF VisitState, IdleVisit
    <2>3. Onward(c, k)
      BY <2>1, <2>2, HoldsNone DEF Onward, Equipped, OnWay
    <2> HIDE DEF k
    <2> QED BY <1>1, <2>2, <2>3, ReadKeepsInv
  <1>8. CASE \E m \in Method, code \in Totp, purpose \in {"regenerate", "disable"} : CheckCode(c, m, code, purpose)
    <2>1. PICK code \in Totp, purpose \in {"regenerate", "disable"} :
            caller' = [caller EXCEPT ![c] = [IdleVisit EXCEPT !.pc = "spend", !.item = purpose, !.code = code]]
      BY <1>8 DEF CheckCode
    <2>2. Equipped([IdleVisit EXCEPT !.pc = "spend", !.item = purpose, !.code = code])
      BY DEF Equipped, OnWay, IdleVisit
    <2> QED BY <1>0, <1>4, <2>1, <2>2
  <1> QED BY <1>2, <1>5, <1>6, <1>7, <1>8

-----------------------------------------------------------------------------
\* Passwords and reset tokens: the rehash of a legacy password, a new password,
\* and the request for a reset.
LEMMA PasswordsKeepInv ==
    ASSUME SignInInv,
           \/ \E c \in Visit : Rehash(c) \/ ChangePassword(c) \/ ResetPassword(c)
           \/ \E t \in Token : RequestReset(t)
    PROVE  SignInInv'
  <1>1. UNCHANGED <<clock, challenge, method, recovery, accepted>>
    BY DEF Rehash, ChangePassword, ResetPassword, SetPassword, RequestReset
  <1>2. session \in [Session -> SessionRecord(Proof, {Nil})] /\ Live \in SUBSET Session
    BY DEF SignInInv, SignInStateOK, Live
  <1>3. session' = session \/ session' = Closed(Live)
    BY DEF Rehash, ChangePassword, ResetPassword, SetPassword, RequestReset
  <1>4. session' \in [Session -> SessionRecord(Proof, {Nil})] /\ \A s \in Session : KeptOrFree(s)
    <2>1. CASE session' = session
      BY <1>2, <2>1 DEF KeptOrFree, Kept
    <2>2. CASE session' = Closed(Live)
      BY <1>2, <2>2, CloseKeeps DEF KeptOrFree
    <2> QED BY <1>3, <2>1, <2>2
  <1>5. UNCHANGED caller \/ \E c \in Visit, k \in VisitState : Onward(c, k)
    <2>1. CASE \E c \in Visit : ChangePassword(c) \/ ResetPassword(c)
      BY <2>1, ReturnOnward DEF ChangePassword, ResetPassword, SetPassword
    <2>2. CASE \E c \in Visit : Rehash(c)
      <3>1. PICK c \in Visit : Rehash(c)
        BY <2>2
      <3> DEFINE k == [caller[c] EXCEPT !.pc = "decide"]
      <3>2. k \in VisitState /\ k.pc = "decide"
        BY DEF SignInInv, SignInStateOK, VisitState
      <3>3. caller' = [caller EXCEPT ![c] = k]
        BY <3>1 DEF Rehash
      <3> HIDE DEF k
      <3> QED BY <3>2, <3>3, HoldsNone DEF Onward, Equipped, OnWay
    <2>3. CASE \E t \in Token : RequestReset(t)
      BY <2>3 DEF RequestReset
    <2> QED BY <2>1, <2>2, <2>3
  <1>6. token' \in [Token -> {"none", "open", "expired", "used"}]
    BY DEF Rehash, ChangePassword, ResetPassword, SetPassword, RequestReset, SignInInv, SignInStateOK, SignInTypeOK
  <1>7. changes' \in 0..MaxChanges /\ credential' \in [password : 0..MaxChanges, legacy : BOOLEAN]
    <2>1. CASE UNCHANGED <<credential, changes>>
      BY <2>1 DEF SignInInv, SignInStateOK, SignInTypeOK
    <2>2. CASE \E c \in Visit : SetPassword(c)
      <3>1. changes \in Int /\ MaxChanges \in Int /\ changes < MaxChanges /\ 0 <= changes
        BY <2>2, SignInAssumption DEF SetPassword, SignInInv, SignInStateOK
      <3>2. changes + 1 \in 0..MaxChanges
        BY <3>1
      <3> QED BY <2>2, <3>2 DEF SetPassword
    <2>3. CASE \E c \in Visit : Rehash(c)
      <3>1. PICK c \in Visit : Rehash(c)
        BY <2>3
      <3>2. caller[c].password \in 0..MaxChanges
        BY DEF SignInInv, SignInStateOK, VisitState
      <3> QED BY <3>1, <3>2 DEF Rehash, SignInInv, SignInStateOK
    <2> QED BY <2>1, <2>2, <2>3 DEF ChangePassword, ResetPassword, RequestReset
  <1>8. SignInTypeOK' /\ Fresh'
    BY <1>1, <1>6, <1>7 DEF SignInInv, SignInStateOK, SignInTypeOK, Fresh
  <1>9. clock' \in 0..MaxClock
    BY <1>1 DEF SignInInv, SignInStateOK
  <1>10. /\ \A m \in Method : method'[m].last = method[m].last
         /\ \A r \in Recovery : recovery[r] = "gone" => recovery'[r] = "gone"
         /\ \A x \in Challenge : challenge[x].status = "used" => challenge'[x].status = "used"
    BY <1>1
  <1> QED BY <1>1, <1>4, <1>5, <1>7, <1>8, <1>9, <1>10, QuietKeepsInv

\* Challenges are created, get a wrong code, or expire; a password lets someone
\* in; sessions end, also for the one to be opened; time goes by.
LEMMA ChallengesKeepInv ==
    ASSUME SignInInv,
           \/ \E c \in Visit : Decide(c) \/ WrongCode(c) \/ Rotate(c)
           \/ \E s \in Session : Logout(s)
           \/ Expire \/ Tick
    PROVE  SignInInv'
  <1>1. UNCHANGED <<credential, changes, method, recovery, accepted>>
    BY DEF Decide, WrongCode, Rotate, Logout, Expire, Tick
  <1>2. UNCHANGED caller \/ \E c \in Visit, k \in VisitState : Onward(c, k)
    <2>1. ASSUME NEW c \in Visit, Goes(c, "rotate", Nil) PROVE \E k \in VisitState : Onward(c, k)
      <3> DEFINE k == [IdleVisit EXCEPT !.pc = "rotate", !.item = Nil]
      <3>1. k \in VisitState /\ k.pc = "rotate" /\ k.item = Nil
        BY IdleOnward DEF VisitState, IdleVisit
      <3>2. caller' = [caller EXCEPT ![c] = k]
        BY <2>1 DEF Goes
      <3> HIDE DEF k
      <3> QED BY <3>1, <3>2, HoldsNone DEF Onward, Equipped, Proof
    <2>2. ASSUME NEW c \in Visit, Rotate(c) PROVE \E k \in VisitState : Onward(c, k)
      <3> DEFINE k == [caller[c] EXCEPT !.pc = "open"]
      <3>1. k \in VisitState /\ k.pc = "open" /\ k.item = caller[c].item
        BY DEF SignInInv, SignInStateOK, VisitState
      <3>2. caller' = [caller EXCEPT ![c] = k] /\ caller[c].pc = "rotate"
        BY <2>2 DEF Rotate, At
      <3> HIDE DEF k
      <3>3. Equipped(k)
        BY <3>1, <3>2 DEF SignInInv, Equipped, OnWay
      <3>4. HoldsNothingNew(caller[c], k)
        BY <3>1, <3>2 DEF HoldsNothingNew, Holding, OnWay
      <3> QED BY <3>1, <3>2, <3>3, <3>4 DEF Onward
    <2> QED BY <2>1, <2>2, ReturnOnward DEF Decide, WrongCode, Logout, Expire, Tick
  <1>3. session \in [Session -> SessionRecord(Proof, {Nil})]
    BY DEF SignInInv, SignInStateOK
  <1>4. session' \in [Session -> SessionRecord(Proof, {Nil})] /\ \A s \in Session : KeptOrFree(s)
    <2>1. CASE UNCHANGED session
      BY <1>3, <2>1 DEF KeptOrFree, Kept
    <2>2. CASE \E s \in Session : Logout(s)
      BY <1>3, <2>2, EndKeeps DEF Logout, KeptOrFree
    <2>3. CASE RevokePrevious
      BY <1>3, <2>3, RevokeKeeps DEF KeptOrFree
    <2> QED BY <2>1, <2>2, <2>3 DEF Decide, WrongCode, Rotate, Expire, Tick
  <1> DEFINE UsedStay == /\ challenge' \in [Challenge -> ChallengeState]
                         /\ \A x \in Challenge : challenge[x].status = "used" => challenge'[x].status = "used"
  <1>5. UsedStay
    <2>1. challenge \in [Challenge -> ChallengeState] /\ MaxAttempts \in Nat
      BY SignInAssumption DEF SignInInv, SignInStateOK, SignInTypeOK, ChallengeState
    <2>2. CASE UNCHANGED challenge
      BY <2>1, <2>2
    <2>3. ASSUME NEW x \in Challenge, NEW status \in {"open", "expired"}, challenge[x].status # "used",
                 challenge' = [challenge EXCEPT ![x].status = status]
          PROVE  UsedStay
      <3>1. [challenge[x] EXCEPT !.status = status] \in ChallengeState
        BY <2>1 DEF ChallengeState
      <3> QED BY <2>1, <2>3, <3>1
    <2>4. ASSUME NEW x \in Challenge, Consumable(x),
                 challenge' = [challenge EXCEPT ![x].attempts = @ + 1]
          PROVE  UsedStay
      <3>1. challenge[x].attempts + 1 \in 0..MaxAttempts
        BY <2>1, <2>4 DEF Consumable, ChallengeState
      <3>2. [challenge[x] EXCEPT !.attempts = challenge[x].attempts + 1] \in ChallengeState
        BY <2>1, <3>1 DEF ChallengeState
      <3> QED BY <2>1, <2>4, <3>2 DEF Consumable
    <2>5. CASE (\E c \in Visit : Decide(c)) \/ Expire
      BY <2>2, <2>3, <2>5 DEF Decide, Expire
    <2>6. CASE \E c \in Visit : WrongCode(c)
      <3>1. PICK c \in Visit : WrongCode(c)
        BY <2>6
      <3>2. caller[c].item \in Challenge
        BY <3>1 DEF WrongCode, At, SignInInv, Equipped
      <3> QED BY <2>2, <2>4, <3>1, <3>2 DEF WrongCode
    <2> QED BY <2>2, <2>5, <2>6 DEF Rotate, Logout, Tick
  <1>6. token' \in [Token -> {"none", "open", "expired", "used"}]
    BY DEF Decide, WrongCode, Rotate, Logout, Expire, Tick, SignInInv, SignInStateOK, SignInTypeOK
  <1>7. SignInTypeOK' /\ Fresh'
    BY <1>1, <1>5, <1>6 DEF SignInInv, SignInStateOK, SignInTypeOK, ChallengeState, Fresh
  <1>8. clock' \in 0..MaxClock
    <2>1. CASE Tick
      BY <2>1, SignInAssumption DEF Tick, SignInInv, SignInStateOK
    <2>2. CASE clock' = clock
      BY <2>2 DEF SignInInv, SignInStateOK
    <2> QED BY <2>1, <2>2 DEF Decide, WrongCode, Rotate, Logout, Expire
  <1>9. /\ changes' \in 0..MaxChanges
        /\ \A m \in Method : method'[m].last = method[m].last
        /\ \A r \in Recovery : recovery[r] = "gone" => recovery'[r] = "gone"
    BY <1>1 DEF SignInInv, SignInStateOK
  <1> QED BY <1>1, <1>2, <1>4, <1>5, <1>7, <1>8, <1>9, QuietKeepsInv

\* Enrolment, new recovery codes and the end of a method.  Counters stay, and no
\* method becomes fresh again.
LEMMA MethodsKeepInv ==
    ASSUME SignInInv, NEW c \in Visit, Enroll(c) \/ Regenerate(c) \/ DisableTotp(c)
    PROVE  SignInInv'
  <1>1. UNCHANGED <<clock, credential, changes, token, challenge, accepted>>
    BY DEF Enroll, Regenerate, DisableTotp
  <1>2. \E k \in VisitState : Onward(c, k)
    BY ReturnOnward DEF Enroll, Regenerate, DisableTotp
  <1>3. session \in [Session -> SessionRecord(Proof, {Nil})] /\ Live \in SUBSET Session
    BY DEF SignInInv, SignInStateOK, Live
  <1>4. session' \in [Session -> SessionRecord(Proof, {Nil})] /\ \A s \in Session : KeptOrFree(s)
    <2>1. CASE session' = session
      BY <1>3, <2>1 DEF KeptOrFree, Kept
    <2>2. CASE session' = Closed(Live)
      BY <1>3, <2>2, CloseKeeps DEF KeptOrFree
    <2> QED BY <2>1, <2>2 DEF Enroll, Regenerate, DisableTotp
  <1>5. /\ recovery' \in [Recovery -> {"none", "unused", "gone"}]
        /\ \A r \in Recovery : recovery[r] = "gone" => recovery'[r] = "gone"
    BY DEF Enroll, Regenerate, DisableTotp, Reissue, SignInInv, SignInStateOK, SignInTypeOK
  <1>6. /\ method' \in [Method -> MethodState]
        /\ \A m \in Method : method'[m].last = method[m].last
        /\ Fresh'
    <2>1. method \in [Method -> MethodState] /\ Fresh
      BY DEF SignInInv, SignInStateOK, SignInTypeOK, MethodState
    <2>2. \A m \in Method, status \in {"PENDING", "DISABLED"} :
            /\ [method[m] EXCEPT !.status = status] \in MethodState
            /\ [method[m] EXCEPT !.status = status].last = method[m].last
            /\ [method[m] EXCEPT !.status = status].status = status
      BY <2>1 DEF MethodState
    <2>3. \/ UNCHANGED method
          \/ /\ DOMAIN method' = Method /\ method' = [m \in Method |-> method'[m]]
             /\ \A m \in Method :
                   \/ method'[m] = method[m]
                   \/ method'[m] = [method[m] EXCEPT !.status = "DISABLED"]
                   \/ method'[m] = [method[m] EXCEPT !.status = "PENDING"] /\ method[m].status = "NONE"
      <3>1. CASE Enroll(c)
        BY <3>1 DEF Enroll
      <3>2. CASE Regenerate(c)
        BY <3>2 DEF Regenerate
      <3>3. CASE DisableTotp(c)
        BY <2>1, <3>3 DEF DisableTotp
      <3> QED BY <3>1, <3>2, <3>3
    <2>4. CASE UNCHANGED method
      BY <2>1, <2>4 DEF Fresh
    <2>5. CASE ~ UNCHANGED method
      <3>1. \A m \in Method : /\ method'[m] \in MethodState /\ method'[m].last = method[m].last
                              /\ method'[m].status \in {"NONE", "PENDING"} => method[m].status \in {"NONE", "PENDING"}
        BY <2>1, <2>2, <2>3, <2>5
      <3>2. method' \in [Method -> MethodState]
        BY <2>3, <2>5, <3>1
      <3> QED BY <2>1, <3>1, <3>2 DEF Fresh
    <2> QED BY <2>4, <2>5
  <1>7. SignInTypeOK'
    BY <1>1, <1>5, <1>6 DEF SignInInv, SignInStateOK, SignInTypeOK, MethodState
  <1>8. /\ changes' \in 0..MaxChanges /\ clock' \in 0..MaxClock
        /\ \A x \in Challenge : challenge[x].status = "used" => challenge'[x].status = "used"
    BY <1>1 DEF SignInInv, SignInStateOK
  <1> QED BY <1>1, <1>2, <1>4, <1>5, <1>6, <1>7, <1>8, QuietKeepsInv

-----------------------------------------------------------------------------
\* Using a code up: it was not accepted before, and is spent now.
LEMMA AcceptedSpends ==
    ASSUME SignInInv, NEW code \in Code, ~ Gone(code), Gone(code)', Counted(code),
           \A m \in Method : method'[m].last >= method[m].last,
           method' \in [Method -> MethodState],
           \A r \in Recovery : recovery[r] = "gone" => recovery'[r] = "gone"
    PROVE  Spent' /\ accepted' \in [Code -> Nat]
  <1>1. accepted \in [Code -> Nat] /\ accepted[code] = 0
    <2>1. accepted[code] \in Nat /\ ~ (accepted[code] > 0)
      BY DEF SignInInv, SignInStateOK, Spent
    <2> QED BY <2>1 DEF SignInInv, SignInStateOK
  <1>2. /\ accepted' \in [Code -> Nat] /\ accepted'[code] = 1
        /\ \A other \in Code : other # code => accepted'[other] = accepted[other]
    BY <1>1 DEF Counted
  <1>3. \A other \in Code : Gone(other) => Gone(other)'
    <2> SUFFICES ASSUME NEW other \in Code, Gone(other) PROVE Gone(other)'
      OBVIOUS
    <2>1. CASE other \in Totp
      <3>1. MaxClock \in Nat
        BY SignInAssumption
      <3>2. /\ method[other.method].last \in Int /\ method'[other.method].last \in Int
            /\ other.at \in Int /\ other.method \in Method
        BY <2>1, <3>1 DEF Totp, SignInInv, SignInStateOK, SignInTypeOK, MethodState
      <3> QED BY <2>1, <3>2 DEF Gone
    <2>2. CASE other \notin Totp
      BY <2>2 DEF Gone, Code
    <2> QED BY <2>1, <2>2
  <1>4. Spent'
    <2> SUFFICES ASSUME NEW other \in Code
                 PROVE  accepted'[other] <= 1 /\ (accepted'[other] > 0 => Gone(other)')
      BY DEF Spent
    <2>1. CASE other = code
      BY <1>2, <2>1
    <2>2. CASE other # code
      BY <1>2, <1>3, <2>2 DEF SignInInv, Spent
    <2> QED BY <2>1, <2>2
  <1> QED BY <1>2, <1>4

\* UseUp of a code that is unused (the transactions of completeMfaChallenge and of
\* verifyActiveMfaCode).
LEMMA UseUpSpends ==
    ASSUME SignInInv, NEW code \in Code, Unused(code), UseUp(code), Counted(code)
    PROVE  /\ Spent' /\ Fresh'
           /\ accepted' \in [Code -> Nat]
           /\ method' \in [Method -> MethodState]
           /\ recovery' \in [Recovery -> {"none", "unused", "gone"}]
  <1>1. method \in [Method -> MethodState] /\ recovery \in [Recovery -> {"none", "unused", "gone"}] /\ MaxClock \in Nat
    BY SignInAssumption DEF SignInInv, SignInStateOK, SignInTypeOK, MethodState
  <1>2. \A m \in Method : method[m].last \in Int
    BY <1>1 DEF MethodState
  <1>3. CASE code \in Totp
    <2>1. /\ code.method \in Method /\ code.at \in 0..(MaxClock + 1)
          /\ method[code.method].status = "ACTIVE" /\ method[code.method].last < code.at
          /\ method' = [method EXCEPT ![code.method].last = code.at] /\ UNCHANGED recovery
      BY <1>3 DEF Totp, Unused, UseUp
    <2>2. code.at \in -1..(MaxClock + 1)
      BY <1>1, <2>1
    <2> DEFINE row == [method[code.method] EXCEPT !.last = code.at]
    <2>3. row \in MethodState /\ row.last = code.at /\ row.status = "ACTIVE"
      BY <1>1, <2>1, <2>2 DEF MethodState
    <2>4. method' = [method EXCEPT ![code.method] = row]
      BY <2>1
    <2> HIDE DEF row
    <2>5. /\ method' \in [Method -> MethodState] /\ method'[code.method] = row
          /\ \A m \in Method : m # code.method => method'[m] = method[m]
      BY <1>1, <2>1, <2>3, <2>4
    <2>6. \A m \in Method : method'[m].last >= method[m].last
      BY <1>1, <1>2, <2>1, <2>3, <2>5
    <2>7. ~ Gone(code) /\ Gone(code)'
      BY <1>1, <1>2, <1>3, <2>1, <2>3, <2>5 DEF Gone
    <2>8. Fresh'
      BY <2>3, <2>5 DEF SignInInv, Fresh
    <2>9. \A r \in Recovery : recovery[r] = "gone" => recovery'[r] = "gone"
      BY <2>1
    <2> QED BY <1>1, <2>1, <2>5, <2>6, <2>7, <2>8, <2>9, AcceptedSpends
  <1>4. CASE code \notin Totp
    <2>1. /\ code \in Recovery /\ recovery[code] = "unused"
          /\ recovery' = [recovery EXCEPT ![code] = "gone"] /\ UNCHANGED method
      BY <1>4 DEF Code, Unused, UseUp
    <2>2. recovery' \in [Recovery -> {"none", "unused", "gone"}] /\ method' \in [Method -> MethodState]
      BY <1>1, <2>1
    <2>3. ~ Gone(code) /\ Gone(code)'
      BY <1>1, <1>4, <2>1 DEF Gone
    <2>4. \A r \in Recovery : recovery[r] = "gone" => recovery'[r] = "gone"
      BY <1>1, <2>1
    <2>5. \A m \in Method : method'[m].last >= method[m].last
      BY <1>2, <2>1
    <2>6. Fresh'
      BY <2>1 DEF SignInInv, Fresh
    <2> QED BY <2>2, <2>3, <2>4, <2>5, <2>6, AcceptedSpends
  <1> QED BY <1>3, <1>4

\* A code for a new secret, or for the removal of one (verifyActiveMfaCode).
LEMMA SpendKeepsInv ==
    ASSUME SignInInv, NEW c \in Visit, SpendCode(c)
    PROVE  SignInInv'
  <1>1. caller[c].pc = "spend" /\ UNCHANGED <<session, clock, credential, changes, token, challenge>>
    BY DEF SpendCode, At
  <1>2. PICK code \in Totp : code = caller[c].code /\ code \in Code /\ caller[c].item \in {"regenerate", "disable"}
    BY <1>1 DEF SignInInv, Equipped, Code
  <1>3. CASE ~ Unused(code)
    <2>1. Returns(c) /\ UNCHANGED <<method, recovery, accepted>>
      BY <1>2, <1>3 DEF SpendCode
    <2>2. PICK k \in VisitState : Onward(c, k)
      BY <2>1, ReturnOnward
    <2> QED BY <1>1, <2>1, <2>2, ReadKeepsInv
  <1>4. CASE Unused(code)
    <2>1. UseUp(code) /\ Counted(code) /\ caller' = [caller EXCEPT ![c].pc = caller[c].item]
      BY <1>2, <1>4 DEF SpendCode
    <2>2. /\ Spent' /\ Fresh' /\ accepted' \in [Code -> Nat]
          /\ method' \in [Method -> MethodState]
          /\ recovery' \in [Recovery -> {"none", "unused", "gone"}]
      BY <1>2, <1>4, <2>1, UseUpSpends
    <2> DEFINE k == [caller[c] EXCEPT !.pc = caller[c].item]
    <2>3. k \in VisitState /\ k.pc \in {"regenerate", "disable"} /\ k.code = code
      BY <1>2 DEF SignInInv, SignInStateOK, VisitState
    <2>4. caller' = [caller EXCEPT ![c] = k]
      BY <2>1
    <2> HIDE DEF k
    <2>5. Equipped(k)
      BY <1>2, <2>3 DEF Equipped, OnWay
    <2>6. /\ caller' \in [Visit -> VisitState]
          /\ \A d \in Visit : Equipped(caller'[d]) /\ HoldsNothingNew(caller[d], caller'[d])
      BY <2>3, <2>4, <2>5, HoldsNone DEF SignInInv, SignInStateOK, HoldsNothingNew, OnWay
    <2>7. SignInStateOK'
      BY <1>1, <2>2, <2>6 DEF SignInInv, SignInStateOK, SignInTypeOK, MethodState
    <2>8. \A d \in Visit : Equipped(caller[d])'
      BY <2>6 DEF Equipped, OnWay
    <2>9. Opening' /\ ChallengesOpened'
      <3>1. \A s \in Session : KeptOrFree(s)
        BY <1>1 DEF KeptOrFree, Kept
      <3>2. \A x \in Challenge : challenge[x].status = "used" => challenge'[x].status = "used"
        BY <1>1
      <3> QED BY <2>6, <3>1, <3>2, OpeningsKept
    <2> QED BY <2>2, <2>7, <2>8, <2>9 DEF SignInInv
  <1> QED BY <1>3, <1>4

\* The confirmation of an enrolment accepts a first code, of a method that has
\* accepted none.
LEMMA ConfirmKeepsInv ==
    ASSUME SignInInv, NEW c \in Visit, Confirm(c)
    PROVE  SignInInv'
  <1>1. /\ caller[c].pc = "confirm" /\ Returns(c)
        /\ UNCHANGED <<session, clock, credential, changes, token, challenge>>
    BY DEF Confirm, At
  <1>2. PICK code \in Totp : code = caller[c].code /\ code \in Code
    BY <1>1 DEF SignInInv, Equipped, Code
  <1>3. PICK k \in VisitState : Onward(c, k)
    BY <1>1, ReturnOnward
  <1>4. CASE method[code.method].status # "PENDING"
    <2>1. UNCHANGED <<method, recovery, accepted>>
      BY <1>2, <1>4 DEF Confirm
    <2> QED BY <1>1, <1>3, <2>1, ReadKeepsInv
  <1>5. CASE method[code.method].status = "PENDING"
    <2>1. /\ method' = [method EXCEPT ![code.method] = [status |-> "ACTIVE", last |-> code.at]]
          /\ Reissue /\ Counted(code)
      BY <1>2, <1>5 DEF Confirm
    <2>2. MaxClock \in Nat /\ code.method \in Method /\ code.at \in 0..(MaxClock + 1) /\ code.at \in -1..(MaxClock + 1)
      BY <1>2, SignInAssumption DEF Totp
    <2>3. /\ method \in [Method -> MethodState] /\ recovery \in [Recovery -> {"none", "unused", "gone"}]
          /\ method[code.method].last = -1
      BY <1>5, <2>2 DEF SignInInv, SignInStateOK, SignInTypeOK, MethodState, Fresh
    <2> DEFINE row == [status |-> "ACTIVE", last |-> code.at]
    <2>4. row \in MethodState /\ row.last = code.at /\ row.status = "ACTIVE"
      BY <2>2 DEF MethodState
    <2>5. method' = [method EXCEPT ![code.method] = row]
      BY <2>1
    <2> HIDE DEF row
    <2>6. /\ method' \in [Method -> MethodState] /\ method'[code.method] = row
          /\ \A m \in Method : m # code.method => method'[m] = method[m]
      BY <2>2, <2>3, <2>4, <2>5
    <2>7. \A m \in Method : method'[m].last >= method[m].last
      <3>1. \A m \in Method : method[m].last \in Int
        BY <2>2, <2>3 DEF MethodState
      <3> QED BY <2>2, <2>3, <2>4, <2>6, <3>1
    <2>8. ~ Gone(code) /\ Gone(code)'
      BY <1>2, <2>2, <2>3, <2>4, <2>6 DEF Gone
    <2>9. /\ recovery' \in [Recovery -> {"none", "unused", "gone"}]
          /\ \A r \in Recovery : recovery[r] = "gone" => recovery'[r] = "gone"
      BY <2>1, <2>3 DEF Reissue
    <2>10. Fresh'
      BY <2>4, <2>6 DEF SignInInv, Fresh
    <2>11. Spent' /\ accepted' \in [Code -> Nat]
      BY <1>2, <2>1, <2>6, <2>7, <2>8, <2>9, AcceptedSpends
    <2>12. /\ caller' \in [Visit -> VisitState]
           /\ \A d \in Visit : Equipped(caller'[d]) /\ HoldsNothingNew(caller[d], caller'[d])
      BY <1>3 DEF SignInInv, SignInStateOK, Onward, HoldsNothingNew
    <2>13. SignInStateOK'
      BY <1>1, <2>6, <2>9, <2>11, <2>12 DEF SignInInv, SignInStateOK, SignInTypeOK, MethodState
    <2>14. \A d \in Visit : Equipped(caller[d])'
      BY <2>12 DEF Equipped, OnWay
    <2>15. Opening' /\ ChallengesOpened'
      <3>1. \A s \in Session : KeptOrFree(s)
        BY <1>1 DEF KeptOrFree, Kept
      <3>2. \A x \in Challenge : challenge[x].status = "used" => challenge'[x].status = "used"
        BY <1>1
      <3> QED BY <2>12, <3>1, <3>2, OpeningsKept
    <2> QED BY <2>10, <2>11, <2>13, <2>14, <2>15 DEF SignInInv
  <1> QED BY <1>4, <1>5

\* The transaction of a challenge: it uses up the code and the challenge, which
\* nobody had used, and sends this request alone to open a session.
LEMMA ConsumeChallengeKeeps ==
    ASSUME SignInInv, NEW c \in Visit, Consume(c)
    PROVE  SignInInv'
  <1>1. caller[c].pc = "consume" /\ UNCHANGED <<session, clock, credential, changes, token>>
    BY DEF Consume, At
  <1>2. PICK x \in Challenge, code \in Code : x = caller[c].item /\ code = caller[c].code
    BY <1>1 DEF SignInInv, Equipped
  <1>3. CASE ~ (Consumable(x) /\ Unused(code))
    <2>1. Returns(c) /\ UNCHANGED <<challenge, method, recovery, accepted>>
      BY <1>2, <1>3 DEF Consume
    <2>2. PICK k \in VisitState : Onward(c, k)
      BY <2>1, ReturnOnward
    <2> QED BY <1>1, <2>1, <2>2, ReadKeepsInv
  <1>4. CASE Consumable(x) /\ Unused(code)
    <2>1. /\ challenge' = [challenge EXCEPT ![x].status = "used"]
          /\ UseUp(code) /\ Counted(code) /\ Goes(c, "rotate", x)
      BY <1>2, <1>4 DEF Consume
    <2>2. /\ Spent' /\ Fresh' /\ accepted' \in [Code -> Nat]
          /\ method' \in [Method -> MethodState]
          /\ recovery' \in [Recovery -> {"none", "unused", "gone"}]
      BY <1>4, <2>1, UseUpSpends
    <2>3. challenge[x].status # "used"
      BY <1>4 DEF Consumable
    <2>4. /\ challenge' \in [Challenge -> ChallengeState] /\ challenge'[x].status = "used"
          /\ \A y \in Challenge : challenge[y].status = "used" => challenge'[y].status = "used"
      <3>1. challenge \in [Challenge -> ChallengeState]
        BY DEF SignInInv, SignInStateOK, SignInTypeOK, ChallengeState
      <3>2. [challenge[x] EXCEPT !.status = "used"] \in ChallengeState
        BY <3>1 DEF ChallengeState
      <3> QED BY <2>1, <3>1, <3>2
    <2> DEFINE k == [IdleVisit EXCEPT !.pc = "rotate", !.item = x]
    <2>5. k \in VisitState /\ k.pc = "rotate" /\ k.item = x
      <3>1. 0 \in 0..MaxChanges
        BY SignInAssumption
      <3> QED BY <3>1 DEF VisitState, IdleVisit
    <2>6. caller' = [caller EXCEPT ![c] = k]
      BY <2>1 DEF Goes
    <2> HIDE DEF k
    <2>7. /\ caller' \in [Visit -> VisitState] /\ caller'[c] = k
          /\ \A d \in Visit : d # c => caller'[d] = caller[d]
      BY <2>5, <2>6 DEF SignInInv, SignInStateOK
    <2>8. SignInStateOK'
      BY <1>1, <2>2, <2>4, <2>7 DEF SignInInv, SignInStateOK, SignInTypeOK, MethodState, ChallengeState
    <2>9. \A d \in Visit : Equipped(caller[d])'
      <3>1. \A d \in Visit : Equipped(caller'[d])
        <4>1. Equipped(k)
          BY <2>5 DEF Equipped, OnWay, Proof
        <4> QED BY <2>7, <4>1 DEF SignInInv
      <3> QED BY <3>1 DEF Equipped, OnWay
    <2>10. \A d \in Visit, y \in Challenge :
             Holding(caller'[d], y) => (d = c /\ y = x) \/ (d # c /\ y # x /\ Holding(caller[d], y))
      <3>1. \A d \in Visit : ~ Holding(caller[d], x)
        BY <2>3 DEF SignInInv, Opening
      <3>2. \A y \in Challenge : Holding(k, y) => y = x
        BY <2>5 DEF Holding
      <3> QED BY <2>7, <3>1, <3>2
    <2>11. Opening'
      <3> SUFFICES ASSUME NEW y \in Challenge, NEW d \in Visit, Holding(caller'[d], y)
                   PROVE  challenge'[y].status = "used" /\ \A e \in Visit : Holding(caller'[e], y) => d = e
        BY DEF Opening, Holding, OnWay
      <3> QED BY <2>4, <2>10 DEF SignInInv, Opening
    <2>12. ChallengesOpened'
      <3>1. \A s \in Session : session[s].proof \in Proof
        BY DEF SignInInv, SignInStateOK, SessionRecord
      <3>2. \A s \in Session : session[s].proof # Nil => session[s].proof \in Challenge /\ session[s].proof # x
        BY <2>3, <3>1 DEF SignInInv, ChallengesOpened, Proof
      <3> SUFFICES ASSUME NEW s \in Session
                   PROVE  LET y == session[s].proof
                          IN  /\ session[s].status = "none" => y = Nil
                              /\ y # Nil => /\ challenge'[y].status = "used"
                                            /\ \A d \in Visit : ~ Holding(caller'[d], y)
                                            /\ \A t \in Session : session[t].proof = y => t = s
        BY <1>1 DEF ChallengesOpened, Holding, OnWay
      <3>3. \A d \in Visit : session[s].proof # Nil => ~ Holding(caller'[d], session[s].proof)
        BY <2>10, <3>2 DEF SignInInv, ChallengesOpened
      <3> QED BY <2>4, <3>2, <3>3 DEF SignInInv, ChallengesOpened
    <2> QED BY <2>2, <2>8, <2>9, <2>11, <2>12 DEF SignInInv
  <1> QED BY <1>3, <1>4

\* The session of a password or of a challenge (createUserSession).
LEMMA AdmitKeepsInv ==
    ASSUME SignInInv, NEW c \in Visit, Admit(c)
    PROVE  SignInInv'
  <1>1. /\ caller[c].pc = "open" /\ Returns(c)
        /\ UNCHANGED <<clock, credential, changes, token, challenge, method, recovery, accepted>>
    BY DEF Admit, At
  <1>2. PICK x \in Proof : x = caller[c].item /\ OpenSession(x, Nil)
    BY <1>1 DEF Admit, SignInInv, Equipped, OnWay
  <1>3. session \in [Session -> SessionRecord(Proof, {Nil})]
    BY DEF SignInInv, SignInStateOK
  <1>4. /\ session' \in [Session -> SessionRecord(Proof, {Nil})]
        /\ \E s \in Session : /\ session[s].status = "none"
                              /\ session'[s].status = "live" /\ session'[s].proof = x
                              /\ \A t \in Session \ {s} : Kept(t)
    <2>1. x \in Proof /\ Nil \in {Nil} /\ OpenSession(x, Nil)
      BY <1>2
    <2> HIDE DEF Proof
    <2> QED BY <1>3, <2>1, OpenAdds
  <1>5. PICK s \in Session : /\ session[s].status = "none"
                             /\ session'[s].status = "live" /\ session'[s].proof = x
                             /\ \A t \in Session : t # s => Kept(t)
    BY <1>4
  <1>6. /\ caller' \in [Visit -> VisitState] /\ caller'[c] = IdleVisit
        /\ \A d \in Visit : d # c => caller'[d] = caller[d]
    BY <1>1, IdleOnward DEF Returns, SignInInv, SignInStateOK
  <1>7. SignInStateOK'
    BY <1>1, <1>4, <1>6 DEF SignInInv, SignInStateOK, SignInTypeOK
  <1>8. \A d \in Visit : Equipped(caller[d])'
    <2>1. \A d \in Visit : Equipped(caller'[d])
      BY <1>6, IdleOnward DEF SignInInv
    <2> QED BY <2>1 DEF Equipped, OnWay
  <1>9. Fresh' /\ Spent'
    BY <1>1 DEF SignInInv, Fresh, Spent, Gone
  <1>10. \A d \in Visit, y \in Challenge : Holding(caller'[d], y) => Holding(caller[d], y) /\ y # x
    <2>1. \A d \in Visit, y \in Challenge : Holding(caller'[d], y) => d # c /\ Holding(caller[d], y)
      BY <1>6, IdleOnward DEF Holding, OnWay
    <2>2. x \in Challenge => Holding(caller[c], x)
      BY <1>1, <1>2 DEF Holding, OnWay
    <2> QED BY <2>1, <2>2 DEF SignInInv, Opening
  <1>11. Opening'
    <2> SUFFICES ASSUME NEW y \in Challenge, NEW d \in Visit, Holding(caller'[d], y)
                 PROVE  challenge'[y].status = "used" /\ \A e \in Visit : Holding(caller'[e], y) => d = e
      BY DEF Opening, Holding, OnWay
    <2> QED BY <1>1, <1>10 DEF SignInInv, Opening
  <1>12. x # Nil => x \in Challenge /\ challenge[x].status = "used" /\ \A t \in Session : session[t].proof # x
    <2> SUFFICES ASSUME x \in Challenge
                 PROVE  challenge[x].status = "used" /\ \A t \in Session : session[t].proof # x
      BY DEF Proof
    <2>1. Holding(caller[c], x) /\ x # Nil
      BY <1>1, <1>2, SignInAssumption DEF Holding, OnWay
    <2> QED BY <2>1 DEF SignInInv, Opening, ChallengesOpened
  <1>14. \A t \in Session : session[t].proof \in Proof
    BY <1>3 DEF SessionRecord
  <1>13. ChallengesOpened'
    <2> SUFFICES ASSUME NEW t \in Session
                 PROVE  LET y == session'[t].proof
                        IN  /\ session'[t].status = "none" => y = Nil
                            /\ y # Nil => /\ challenge[y].status = "used"
                                          /\ \A d \in Visit : ~ Holding(caller'[d], y)
                                          /\ \A u \in Session : session'[u].proof = y => u = t
      BY <1>1 DEF ChallengesOpened, Holding, OnWay
    <2>1. CASE t = s
      BY <1>5, <1>10, <1>12, <2>1 DEF Kept
    <2>2. CASE t # s
      <3>1. /\ session'[t].proof = session[t].proof /\ (session[t].proof # Nil => session[t].proof # x)
            /\ session'[t].status = "none" => session[t].proof = Nil
        BY <1>5, <1>12, <2>2 DEF Kept, SignInInv, ChallengesOpened
      <3>2. session[t].proof # Nil
              => /\ challenge[session[t].proof].status = "used"
                 /\ \A d \in Visit : ~ Holding(caller'[d], session[t].proof)
        BY <1>10, <1>14 DEF SignInInv, ChallengesOpened, Proof
      <3>3. \A u \in Session : session[t].proof # Nil /\ session'[u].proof = session[t].proof => u = t
        BY <1>5, <3>1 DEF Kept, SignInInv, ChallengesOpened
      <3> QED BY <3>1, <3>2, <3>3
    <2> QED BY <2>1, <2>2
  <1> QED BY <1>7, <1>8, <1>9, <1>11, <1>13 DEF SignInInv

-----------------------------------------------------------------------------
\* Every step keeps the inductive invariant.
LEMMA SignInStepKeeps == SignInInv /\ [SignInNext]_localVars => SignInInv'
  <1> SUFFICES ASSUME SignInInv, [SignInNext]_localVars PROVE SignInInv'
    OBVIOUS
  <1>1. CASE UNCHANGED localVars
    <2>1. SignInStateOK' /\ Fresh' /\ Spent'
      BY <1>1 DEF localVars, SignInInv, SignInStateOK, SignInTypeOK, Fresh, Spent, Gone
    <2>2. (\A c \in Visit : Equipped(caller[c])') /\ Opening' /\ ChallengesOpened'
      BY <1>1 DEF localVars, SignInInv, Equipped, Opening, ChallengesOpened, Holding, OnWay
    <2> QED BY <2>1, <2>2 DEF SignInInv
  <1>2. ASSUME NEW c \in Visit,
               \/ ReadCredential(c) \/ CheckEnrollment(c) \/ CheckChange(c)
               \/ \E x \in Challenge, code \in Code : ReadChallenge(c, x, code)
               \/ \E t \in Token : CheckReset(c, t)
               \/ \E m \in Method, code \in Totp :
                     \/ CheckConfirmation(c, m, code)
                     \/ \E purpose \in {"regenerate", "disable"} : CheckCode(c, m, code, purpose)
        PROVE  SignInInv'
    BY <1>2, ReadsKeepInv
  <1>3. ASSUME NEW c \in Visit,
               \/ Rehash(c) \/ ChangePassword(c) \/ ResetPassword(c)
               \/ Decide(c) \/ WrongCode(c) \/ Rotate(c)
               \/ Enroll(c) \/ Regenerate(c) \/ DisableTotp(c)
        PROVE  SignInInv'
    BY <1>3, PasswordsKeepInv, ChallengesKeepInv, MethodsKeepInv
  <1>4. ASSUME NEW c \in Visit, Consume(c) \/ SpendCode(c) \/ Confirm(c) \/ Admit(c)
        PROVE  SignInInv'
    BY <1>4, ConsumeChallengeKeeps, SpendKeepsInv, ConfirmKeepsInv, AdmitKeepsInv
  <1>5. CASE \E t \in Token : RequestReset(t)
    BY <1>5, PasswordsKeepInv
  <1>6. CASE (\E s \in Session : Logout(s)) \/ Tick \/ Expire
    BY <1>6, ChallengesKeepInv
  <1> QED BY <1>1, <1>2, <1>3, <1>4, <1>5, <1>6 DEF SignInNext

\* The inductive invariant holds in every state the specification reaches.
THEOREM SignInInvariance == SignInSpec => []SignInInv
  BY SignInInitInv, SignInStepKeeps, PTL DEF SignInSpec

\* State keeps its shape: counters, attempts and statuses stay what the tables
\* hold (identity-auth.ts, identity-management.ts).
THEOREM SignInIsTyped == SignInSpec => []SignInTypeOK
  <1>1. SignInInv => SignInTypeOK
    BY DEF SignInInv, SignInStateOK
  <1> QED BY <1>1, SignInInvariance, PTL

\* A TOTP or recovery code is accepted once, however many requests present it and
\* whatever for: to sign in, to confirm an enrolment, to remove a method.
THEOREM NoCodeTwice == SignInSpec => []CodeAcceptedOnce
  <1>1. SignInInv => CodeAcceptedOnce
    BY DEF SignInInv, Spent, CodeAcceptedOnce
  <1> QED BY <1>1, SignInInvariance, PTL

\* A login challenge opens at most one session (completeMfaChallenge).
THEOREM OneSessionPerChallenge == SignInSpec => []ChallengeOpensOne
  <1>1. SignInInv => ChallengeOpensOne
    <2> SUFFICES ASSUME SignInInv, NEW x \in Challenge
                 PROVE  Cardinality({s \in Session : session[s].proof = x}) <= 1
      BY DEF ChallengeOpensOne
    <2> DEFINE opened == {s \in Session : session[s].proof = x}
    <2>1. CASE opened = {}
      <3>1. Cardinality(opened) = 0
        BY <2>1, FS_EmptySet
      <3> QED BY <3>1
    <2>2. CASE opened # {}
      <3>1. PICK s \in Session : session[s].proof = x
        BY <2>2
      <3>2. \A t \in Session : session[t].proof = x => t = s
        BY <3>1, SignInAssumption DEF SignInInv, ChallengesOpened
      <3>3. opened = {s}
        BY <3>1, <3>2
      <3>4. Cardinality({s}) = 1
        BY FS_Singleton
      <3>5. Cardinality(opened) = 1
        BY <3>3, <3>4
      <3> QED BY <3>5
    <2> QED BY <2>1, <2>2
  <1> QED BY <1>1, SignInInvariance, PTL

-----------------------------------------------------------------------------
(* OIDC. *)

SeenRecord == [version : 1..MaxVersion, config : 1..MaxVersion,
               status : {"NONE", "METADATA", "TENANT"}, revokes : BOOLEAN]
OperatorState == [pc : {"idle", "configure", "refresh", "enable", "disable", "policy"},
                  seen : SeenRecord \cup Policy \cup {Nil}]
BrowserState == [pc : {"idle", "consume", "exchange", "prove", "record",
                       "sign in", "challenge", "check", "rotate", "open"},
                 request : Request \cup {Nil}, seen : SeenRecord \cup {Nil}]
SessionState == SessionRecord(Request \cup {Nil}, {Idp, Nil})

OidcStateOK ==
    /\ OidcTypeOK
    /\ operator \in [Operator -> OperatorState]
    /\ browser \in [Browser -> BrowserState]
    /\ session \in [Session -> SessionState]

\* What a loaded row and the present one have in common.
StillTrue(seen) ==
    /\ seen \in SeenRecord
    /\ seen.version <= provider.version
    /\ seen.version = provider.version => seen.config = provider.config /\ seen.status = provider.status

OperatorKnows ==
    \A o \in Operator :
        /\ operator[o].pc \in {"configure", "refresh", "enable", "disable"} => StillTrue(operator[o].seen)
        /\ operator[o].pc = "enable" => operator[o].seen.status = "TENANT"
        /\ operator[o].pc = "policy" => operator[o].seen \in Policy

Past == {"exchange", "prove", "record", "sign in", "challenge", "check", "rotate", "open"}

\* Browser b holds request r, which it has consumed.
Holds(b, r) == browser[b].pc \in Past /\ browser[b].request = r

BrowserKnows ==
    \A b \in Browser :
        LET k == browser[b]
        IN  k.pc # "idle" =>
              /\ k.request \in Request
              /\ StillTrue(k.seen)
              /\ k.pc \in Past => request[k.request].status = "consumed"
              /\ k.pc \in {"prove", "record"} => /\ request[k.request].purpose = "VALIDATE"
                                                 /\ request[k.request].config = k.seen.config
              /\ k.pc \in {"sign in", "challenge", "check", "rotate", "open"}
                    => request[k.request].purpose = "LOGIN"

OnePast == \A b, c \in Browser, r \in Request : Holds(b, r) /\ Holds(c, r) => b = c

\* What the validation of the provider rests on does not change any more.
Proven ==
    /\ provider.enabled => provider.status = "TENANT"
    /\ provider.status = "TENANT" => provider.evidence # Nil
    /\ LET e == provider.evidence
       IN  e # Nil => /\ request[e].status = "consumed"
                      /\ request[e].purpose = "VALIDATE"
                      /\ request[e].config = provider.config
                      /\ \A b \in Browser : Holds(b, e) => browser[b].pc # "exchange"

RequestsOpened ==
    \A s \in Session :
        LET r == session[s].proof
        IN  /\ session[s].status = "none" => r = Nil
            /\ r # Nil => /\ request[r].status = "consumed"
                          /\ request[r].purpose = "LOGIN"
                          /\ \A b \in Browser : ~ Holds(b, r)
                          /\ \A t \in Session : session[t].proof = r => t = s

OidcInv == OidcStateOK /\ OperatorKnows /\ BrowserKnows /\ OnePast /\ Proven /\ RequestsOpened

-----------------------------------------------------------------------------
\* The initial state satisfies the inductive invariant.
LEMMA OidcInitInv == OidcInit => OidcInv
  <1> SUFFICES ASSUME OidcInit PROVE OidcInv
    OBVIOUS
  <1> USE OidcAssumption DEF OidcInit
  <1>5. PICK r \in BOOLEAN : provider = NewProvider(r)
    OBVIOUS
  <1>6. provider \in Provider
    BY <1>5 DEF NewProvider, Provider
  <1>7. policy \in Policy
    BY DEF Policy, Requirement
  <1>8. 0 \in 0..MaxVersion
    OBVIOUS
  <1>9. request \in [Request -> [status : {"none", "open", "expired", "consumed"},
                                purpose : {"LOGIN", "VALIDATE"}, config : 0..MaxVersion]]
    BY <1>8
  <1>1. OidcTypeOK
    BY <1>6, <1>7, <1>9 DEF OidcTypeOK
  <1>2. OidcStateOK
    BY <1>1 DEF OidcStateOK, OperatorState, BrowserState, SessionState, SessionRecord, SessionInit
  <1>3. OperatorKnows /\ BrowserKnows /\ OnePast
    BY DEF OperatorKnows, BrowserKnows, OnePast, Holds, Past
  <1>4. Proven /\ RequestsOpened
    BY DEF Proven, RequestsOpened, NewProvider, SessionInit
  <1> QED BY <1>2, <1>3, <1>4 DEF OidcInv

\* What is seen of the present row is true of it.
LEMMA SeenIsTrue == OidcStateOK => StillTrue(Seen)
  <1> SUFFICES ASSUME OidcStateOK PROVE StillTrue(Seen)
    OBVIOUS
  <1>0. MaxVersion \in Int
    BY OidcAssumption
  <1>1. provider \in Provider /\ MaxVersion \in Int
    BY <1>0 DEF OidcStateOK, OidcTypeOK
  <1>2. /\ Seen.version = provider.version /\ Seen.config = provider.config
        /\ Seen.status = provider.status
    BY DEF Seen
  <1>3. Seen \in SeenRecord
    BY <1>1 DEF Seen, SeenRecord, Provider
  <1>4. provider.version \in Int
    BY <1>1 DEF Provider
  <1> QED BY <1>2, <1>3, <1>4 DEF StillTrue

\* A later version makes what was seen of earlier ones irrelevant.
LEMMA NewVersion ==
    ASSUME OidcStateOK, provider'.version = provider.version + 1, NEW seen, StillTrue(seen)
    PROVE  StillTrue(seen)'
  <1>0. MaxVersion \in Int
    BY OidcAssumption
  <1>1. provider \in Provider /\ MaxVersion \in Int /\ seen \in SeenRecord
    BY <1>0 DEF OidcStateOK, OidcTypeOK, StillTrue
  <1>2. provider.version \in Int /\ seen.version \in Int
    BY <1>1 DEF Provider, SeenRecord
  <1> QED BY <1>1, <1>2 DEF StillTrue

\* What was true of the provider as it was read, and is still true, is still known.
LEMMA StillKnown ==
    ASSUME OperatorKnows, BrowserKnows, UNCHANGED <<operator, request>>,
           \A seen : StillTrue(seen) => StillTrue(seen)',
           \A b \in Browser : browser'[b] = browser[b] \/ browser'[b].pc = "idle"
    PROVE  OperatorKnows' /\ BrowserKnows'
  <1>1. OperatorKnows'
    BY DEF OperatorKnows
  <1>2. BrowserKnows'
    BY DEF BrowserKnows
  <1> QED BY <1>1, <1>2

\* The invariant is not about the policy.
LEMMA FrameKeepsInv ==
    ASSUME OidcInv, OidcStateOK', UNCHANGED <<session, provider, request, operator, browser>>
    PROVE  OidcInv'
  <1>1. \A seen : StillTrue(seen) => StillTrue(seen)'
    BY DEF StillTrue
  <1>2. OperatorKnows' /\ BrowserKnows'
    BY <1>1, StillKnown DEF OidcInv
  <1>3. OnePast' /\ Proven'
    BY DEF OidcInv, OnePast, Proven, Holds
  <1>4. RequestsOpened'
    BY DEF OidcInv, RequestsOpened, Holds
  <1> QED BY <1>2, <1>3, <1>4 DEF OidcInv

-----------------------------------------------------------------------------
\* The steps of operators that do not write the provider.
LEMMA OperatorReadsKeepInv ==
    ASSUME OidcInv, NEW o \in Operator,
           \/ \E op \in {"configure", "refresh", "enable", "disable"} : LoadProvider(o, op)
           \/ \E p \in AskedPolicy : LoadPolicy(o, p)
           \/ SetPolicy(o)
    PROVE  OidcInv'
  <1>1. UNCHANGED <<session, provider, request, browser>>
    BY DEF LoadProvider, LoadPolicy, SetPolicy
  <1>2. PICK state \in OperatorState :
          /\ operator' = [operator EXCEPT ![o] = state]
          /\ state.pc \in {"configure", "refresh", "enable", "disable"} => state.seen = Seen
          /\ state.pc = "enable" => provider.status = "TENANT"
          /\ state.pc = "policy" => state.seen \in Policy
    <2>1. CASE \E op \in {"configure", "refresh", "enable", "disable"} : LoadProvider(o, op)
      <3>1. Seen \in SeenRecord
        BY SeenIsTrue DEF OidcInv, StillTrue
      <3> QED BY <2>1, <3>1 DEF LoadProvider, OperatorState
    <2>2. CASE (\E p \in AskedPolicy : LoadPolicy(o, p)) \/ SetPolicy(o)
      <3>1. \A p \in Policy : [pc |-> "policy", seen |-> p] \in OperatorState
        BY DEF OperatorState
      <3>2. [pc |-> "idle", seen |-> Nil] \in OperatorState
        BY DEF OperatorState
      <3> QED BY <2>2, <3>1, <3>2, OidcAssumption DEF LoadPolicy, SetPolicy
    <2> QED BY <2>1, <2>2
  <1>3. policy' \in Policy
    <2>1. CASE SetPolicy(o)
      <3>1. operator[o].seen \in Policy
        BY <2>1 DEF OidcInv, OperatorKnows, SetPolicy
      <3> QED BY <2>1, <3>1 DEF SetPolicy, Policy
    <2>2. CASE ~ SetPolicy(o)
      BY <2>2 DEF LoadProvider, LoadPolicy, OidcInv, OidcStateOK, OidcTypeOK
    <2> QED BY <2>1, <2>2
  <1>4. OidcStateOK'
    BY <1>1, <1>2, <1>3 DEF OidcInv, OidcStateOK, OidcTypeOK, OperatorState
  <1>5. OperatorKnows'
    BY <1>1, <1>2, SeenIsTrue DEF OidcInv, OidcStateOK, OperatorKnows, StillTrue, Seen
  <1> QED BY <1>1, <1>4, <1>5 DEF OidcInv, BrowserKnows, OnePast, Proven, RequestsOpened, StillTrue, Holds

\* A write of the provider: a conflict, a failure, or a new version of the row,
\* which is either a new configuration, off and without evidence, or the row of the
\* present configuration and evidence with the status and switch it had.
LEMMA WriteKeepsInv ==
    ASSUME OidcInv, NEW o \in Operator,
           Configure(o) \/ Refresh(o) \/ SwitchOn(o) \/ SwitchOff(o)
    PROVE  OidcInv'
  <1> USE OidcAssumption
  <1>1. UNCHANGED <<request, browser, policy>>
    BY DEF Configure, Refresh, SwitchOn, SwitchOff, Write
  <1>2. operator' = [operator EXCEPT ![o] = [pc |-> "idle", seen |-> Nil]]
    BY DEF Configure, Refresh, SwitchOn, SwitchOff, Write
  <1>3. provider.config \in 1..MaxVersion /\ provider.version \in 1..MaxVersion /\ provider \in Provider
    BY DEF OidcInv, OidcStateOK, OidcTypeOK, Provider
  <1>4. CASE provider' = provider
    <2>1. session' = session
      BY <1>4 DEF Configure, Refresh, SwitchOn, SwitchOff
    <2>2. OidcStateOK'
      BY <1>1, <1>2, <1>4, <2>1 DEF OidcInv, OidcStateOK, OidcTypeOK, OperatorState
    <2>3. OperatorKnows'
      BY <1>2, <1>4 DEF OidcInv, OidcStateOK, OperatorKnows, StillTrue
    <2> QED BY <1>1, <1>4, <2>1, <2>2, <2>3
        DEF OidcInv, BrowserKnows, OnePast, Proven, RequestsOpened, StillTrue, Holds
  <1>5. CASE provider' # provider
    <2>1. PICK row \in Provider :
            /\ provider' = [row EXCEPT !.version = provider.version + 1]
            /\ \/ row.evidence = Nil /\ ~ row.enabled /\ row.status = "NONE"
               \/ /\ row.evidence = provider.evidence /\ row.config = provider.config
                  /\ row.status = "TENANT" => provider.status = "TENANT"
                  /\ row.enabled => row.status = "TENANT"
      <3>1. StillTrue(operator[o].seen) /\ provider.version < MaxVersion /\ Current(operator[o].seen)
        BY <1>5 DEF OidcInv, OperatorKnows, Configure, Refresh, SwitchOn, SwitchOff, Write
      <3>2. operator[o].seen.status = provider.status
        BY <3>1 DEF StillTrue, Current
      <3>3. CASE Configure(o)
        <4>1. PICK revokes \in BOOLEAN :
                provider' = [Configured(revokes) EXCEPT !.version = provider.version + 1]
          BY <1>5, <3>3 DEF Configure, Write
        <4>2. /\ Configured(revokes) \in Provider /\ Configured(revokes).evidence = Nil
              /\ ~ Configured(revokes).enabled /\ Configured(revokes).status = "NONE"
          <5>1. provider.version + 1 \in 1..MaxVersion /\ 1 \in 1..MaxVersion
            BY <1>3, <3>1
          <5>2. NewProvider(revokes) \in Provider /\ NewProvider(revokes).evidence = Nil
                /\ ~ NewProvider(revokes).enabled /\ NewProvider(revokes).status = "NONE"
            BY <5>1 DEF NewProvider, Provider
          <5> QED BY <5>1, <5>2 DEF Configured, Provider
        <4> QED BY <4>1, <4>2
      <3>4. CASE Refresh(o)
        <4> DEFINE row == [provider EXCEPT !.metadata = "fresh",
                              !.status = IF operator[o].seen.status = "TENANT" THEN "TENANT" ELSE "METADATA"]
        <4>1. provider' = [row EXCEPT !.version = provider.version + 1]
          BY <1>5, <3>4 DEF Refresh, Write
        <4>2. row \in Provider
          BY <1>3 DEF Provider
        <4>3. /\ row.evidence = provider.evidence /\ row.config = provider.config
              /\ row.status = "TENANT" => provider.status = "TENANT"
              /\ row.enabled => row.status = "TENANT"
          BY <1>3, <3>2 DEF Provider, OidcInv, Proven
        <4> HIDE DEF row
        <4> QED BY <4>1, <4>2, <4>3
      <3>5. CASE SwitchOn(o)
        <4> DEFINE row == [provider EXCEPT !.enabled = TRUE]
        <4>1. provider' = [row EXCEPT !.version = provider.version + 1]
          BY <1>5, <3>5 DEF SwitchOn, Write
        <4>2. provider.status = "TENANT"
          BY <3>2, <3>5 DEF SwitchOn, Write, OidcInv, OperatorKnows
        <4>3. /\ row \in Provider
              /\ row.evidence = provider.evidence /\ row.config = provider.config
              /\ row.status = "TENANT"
          BY <1>3, <4>2 DEF Provider
        <4> HIDE DEF row
        <4> QED BY <4>1, <4>2, <4>3
      <3>6. CASE SwitchOff(o)
        <4> DEFINE row == [provider EXCEPT !.enabled = FALSE]
        <4>1. provider' = [row EXCEPT !.version = provider.version + 1]
          BY <1>5, <3>6 DEF SwitchOff, Write
        <4>3. /\ row \in Provider
              /\ row.evidence = provider.evidence /\ row.config = provider.config
              /\ row.status = provider.status /\ ~ row.enabled
          BY <1>3 DEF Provider
        <4> HIDE DEF row
        <4> QED BY <4>1, <4>3
      <3> QED BY <3>3, <3>4, <3>5, <3>6
    <2>2. provider.version < MaxVersion
      BY <1>5 DEF Configure, Refresh, SwitchOn, SwitchOff, Write
    <2>3. /\ provider' \in Provider /\ provider'.version = provider.version + 1
          /\ provider'.evidence = row.evidence /\ provider'.enabled = row.enabled
          /\ provider'.status = row.status /\ provider'.config = row.config
      BY <1>3, <2>1, <2>2 DEF Provider
    <2>4. Proven'
      BY <1>1, <2>1, <2>3 DEF OidcInv, Proven, Holds
    <2>5. session' = session \/ session' = Closed(Through)
      BY DEF Configure, Refresh, SwitchOn, SwitchOff
    <2>6. /\ session' \in [Session -> SessionState]
          /\ \A s \in Session : /\ session'[s].proof = session[s].proof
                                /\ session'[s].status = "none" => session[s].status = "none"
      <3>1. session \in [Session -> SessionState] /\ Through \in SUBSET Session
        BY DEF OidcInv, OidcStateOK, Through
      <3>2. CASE session' = session
        BY <3>1, <3>2
      <3>3. CASE session' = Closed(Through)
        BY <3>1, <3>3, CloseKeeps DEF SessionState, Kept
      <3> QED BY <2>5, <3>2, <3>3
    <2>7. OidcStateOK'
      BY <1>1, <1>2, <2>3, <2>6 DEF OidcInv, OidcStateOK, OidcTypeOK, OperatorState
    <2>8. OperatorKnows'
      BY <1>2, <2>3, NewVersion DEF OidcInv, OidcStateOK, OperatorKnows
    <2>9. BrowserKnows'
      BY <1>1, <2>3, NewVersion DEF OidcInv, BrowserKnows
    <2>10. OnePast' /\ \A c \in Browser, r \in Request : Holds(c, r)' <=> Holds(c, r)
      BY <1>1 DEF OidcInv, OnePast, Holds
    <2>11. RequestsOpened'
      <3>1. \A s \in Session : /\ session'[s].proof = session[s].proof
                               /\ session'[s].status = "none" => session[s].status = "none"
        BY <2>6
      <3> QED BY <1>1, <3>1 DEF OidcInv, RequestsOpened, Holds
    <2> QED BY <2>4, <2>7, <2>8, <2>9, <2>10, <2>11 DEF OidcInv
  <1> QED BY <1>4, <1>5

-----------------------------------------------------------------------------
\* The provider row gets old; policies come into force.
LEMMA TimeKeepsInv ==
    ASSUME OidcInv, MetadataExpires \/ PolicyComesIntoForce
    PROVE  OidcInv'
  <1>1. CASE MetadataExpires
    <2>1. UNCHANGED <<session, request, operator, browser, policy>>
      BY <1>1 DEF MetadataExpires
    <2>2. /\ provider' \in Provider /\ provider'.version = provider.version
          /\ provider'.config = provider.config /\ provider'.status = provider.status
          /\ provider'.enabled = provider.enabled /\ provider'.evidence = provider.evidence
      BY <1>1 DEF MetadataExpires, OidcInv, OidcStateOK, OidcTypeOK, Provider
    <2>3. OidcStateOK'
      BY <2>1, <2>2 DEF OidcInv, OidcStateOK, OidcTypeOK
    <2>4. \A seen : StillTrue(seen) => StillTrue(seen)'
      BY <2>2 DEF StillTrue
    <2>5. OperatorKnows' /\ BrowserKnows'
      BY <2>1, <2>4, StillKnown DEF OidcInv
    <2>6. OnePast' /\ RequestsOpened'
      BY <2>1 DEF OidcInv, OnePast, RequestsOpened, Holds
    <2>7. Proven'
      BY <2>1, <2>2 DEF OidcInv, Proven, Holds
    <2> QED BY <2>3, <2>5, <2>6, <2>7 DEF OidcInv
  <1>2. CASE PolicyComesIntoForce
    <2>1. UNCHANGED <<session, provider, request, operator, browser>>
      BY <1>2 DEF PolicyComesIntoForce
    <2>2. policy' \in Policy
      BY <1>2 DEF PolicyComesIntoForce, OidcInv, OidcStateOK, OidcTypeOK, Policy
    <2>3. OidcStateOK'
      BY <2>1, <2>2 DEF OidcInv, OidcStateOK, OidcTypeOK
    <2> QED BY <2>1, <2>3, FrameKeepsInv DEF OidcInv
  <1> QED BY <1>1, <1>2

\* An authorization begins, or expires before it has come back.
LEMMA RequestKeepsInv ==
    ASSUME OidcInv, NEW r \in Request,
           StateExpires(r) \/ \E purpose \in {"LOGIN", "VALIDATE"} : BeginAuthorization(r, purpose)
    PROVE  OidcInv'
  <1>1. UNCHANGED <<session, provider, operator, browser, policy>>
    BY DEF StateExpires, BeginAuthorization
  <1>2. request[r].status # "consumed"
    BY DEF StateExpires, BeginAuthorization
  <1>3. /\ request' \in [Request -> [status : {"none", "open", "expired", "consumed"},
                                     purpose : {"LOGIN", "VALIDATE"}, config : 0..MaxVersion]]
        /\ \A q \in Request : request[q].status = "consumed" => request'[q] = request[q]
    <2>1. 0 \in 0..MaxVersion
      BY OidcAssumption
    <2> DEFINE Record == [status : {"none", "open", "expired", "consumed"},
                          purpose : {"LOGIN", "VALIDATE"}, config : 0..MaxVersion]
    <2>2. request \in [Request -> Record]
      BY DEF OidcInv, OidcStateOK, OidcTypeOK
    <2>3. PICK record \in Record : request' = [request EXCEPT ![r] = record]
      <3>1. CASE StateExpires(r)
        <4>1. [request[r] EXCEPT !.status = "expired"] \in Record
          BY <2>2
        <4> QED BY <3>1, <4>1 DEF StateExpires
      <3>2. CASE \E purpose \in {"LOGIN", "VALIDATE"} : BeginAuthorization(r, purpose)
        <4>1. \A purpose \in {"LOGIN", "VALIDATE"} :
                [status |-> "open", purpose |-> purpose, config |-> 0] \in Record
          BY <2>1
        <4> QED BY <3>2, <4>1 DEF BeginAuthorization
      <3> QED BY <3>1, <3>2
    <2> HIDE DEF Record
    <2>4. request' \in [Request -> Record] /\ \A q \in Request : q # r => request'[q] = request[q]
      BY <2>2, <2>3
    <2> QED BY <1>2, <2>4 DEF Record
  <1>4. OidcStateOK'
    BY <1>1, <1>3 DEF OidcInv, OidcStateOK, OidcTypeOK
  <1>5. BrowserKnows'
    BY <1>1, <1>3 DEF OidcInv, BrowserKnows, StillTrue, Past
  <1>6. provider.evidence \in Request \cup {Nil} /\ \A s \in Session : session[s].proof \in Request \cup {Nil}
    BY DEF OidcInv, OidcStateOK, OidcTypeOK, Provider, SessionState, SessionRecord
  <1> QED BY <1>1, <1>3, <1>4, <1>5, <1>6
      DEF OidcInv, OperatorKnows, OnePast, Proven, RequestsOpened, Holds, StillTrue

\* A callback goes on with the request it holds, or ends.
LEMMA BrowserGoesOn ==
    ASSUME OidcInv, NEW b \in Browser, NEW state \in BrowserState,
           browser' = [browser EXCEPT ![b] = state],
           UNCHANGED <<provider, operator, policy, request>>,
           session' \in [Session -> SessionState], \A s \in Session : Kept(s),
           state.pc # "idle" =>
              /\ state.request \in Request /\ StillTrue(state.seen)
              /\ state.pc \in Past => Holds(b, state.request) /\ state.pc # "exchange"
              /\ state.pc \in {"prove", "record"} => /\ request[state.request].purpose = "VALIDATE"
                                                     /\ request[state.request].config = state.seen.config
              /\ state.pc \in {"sign in", "challenge", "check", "rotate", "open"}
                    => request[state.request].purpose = "LOGIN"
    PROVE  OidcInv'
  <1>1. OidcStateOK'
    BY DEF OidcInv, OidcStateOK, OidcTypeOK, BrowserState
  <1>2. \A c \in Browser : browser'[c] = IF c = b THEN state ELSE browser[c]
    BY DEF OidcInv, OidcStateOK
  <1>3. \A c \in Browser, r \in Request : Holds(c, r)' => Holds(c, r) /\ (c = b => browser'[c].pc # "exchange")
    BY <1>2 DEF Holds, Past
  <1>8. \A seen : StillTrue(seen)' <=> StillTrue(seen)
    BY DEF StillTrue
  <1>9. Holds(b, state.request) => request[state.request].status = "consumed"
    BY DEF OidcInv, BrowserKnows, Holds, Past
  <1>4. BrowserKnows'
    <2> SUFFICES ASSUME NEW c \in Browser, browser'[c].pc # "idle"
                 PROVE  LET k == browser'[c]
                        IN  /\ k.request \in Request
                            /\ StillTrue(k.seen)
                            /\ k.pc \in Past => request[k.request].status = "consumed"
                            /\ k.pc \in {"prove", "record"} => /\ request[k.request].purpose = "VALIDATE"
                                                               /\ request[k.request].config = k.seen.config
                            /\ k.pc \in {"sign in", "challenge", "check", "rotate", "open"}
                                  => request[k.request].purpose = "LOGIN"
      BY <1>8 DEF BrowserKnows
    <2>1. CASE c = b
      BY <1>2, <1>9, <2>1
    <2>2. CASE c # b
      BY <1>2, <2>2 DEF OidcInv, BrowserKnows
    <2> QED BY <2>1, <2>2
  <1>5. OnePast'
    BY <1>3 DEF OidcInv, OnePast
  <1>6. provider.evidence \in Request \cup {Nil} /\ \A s \in Session : session[s].proof \in Request \cup {Nil}
    BY DEF OidcInv, OidcStateOK, OidcTypeOK, Provider, SessionState, SessionRecord
  <1>7. Proven'
    <2>1. \A c \in Browser : browser'[c].pc \in Past
             => /\ browser[c].pc \in Past /\ browser[c].request = browser'[c].request
                /\ browser'[c].pc = "exchange" => browser[c].pc = "exchange"
      BY <1>2 DEF Holds, Past
    <2> QED BY <2>1 DEF OidcInv, Proven, Holds
  <1>10. RequestsOpened'
    <2>1. \A s \in Session : /\ session'[s].proof = session[s].proof
                             /\ session'[s].status = "none" => session[s].status = "none"
      BY DEF Kept
    <2>2. \A c \in Browser : browser'[c].pc \in Past
             => browser[c].pc \in Past /\ browser[c].request = browser'[c].request
      BY <1>2 DEF Holds, Past
    <2>3. ASSUME NEW s \in Session
          PROVE  /\ session'[s].status = "none" => session'[s].proof = Nil
                 /\ session'[s].proof # Nil
                      => /\ request[session'[s].proof].status = "consumed"
                         /\ request[session'[s].proof].purpose = "LOGIN"
                         /\ \A c \in Browser :
                               ~ (browser'[c].pc \in Past /\ browser'[c].request = session'[s].proof)
                         /\ \A t \in Session : session'[t].proof = session'[s].proof => t = s
      <3>1. session'[s].proof = session[s].proof
        BY <2>1
      <3>2. session'[s].status = "none" => session[s].proof = Nil
        BY <2>1 DEF OidcInv, RequestsOpened
      <3>3. session[s].proof # Nil
              => /\ request[session[s].proof].status = "consumed"
                 /\ request[session[s].proof].purpose = "LOGIN"
                 /\ \A c \in Browser : ~ (browser[c].pc \in Past /\ browser[c].request = session[s].proof)
                 /\ \A t \in Session : session[t].proof = session[s].proof => t = s
        BY DEF OidcInv, RequestsOpened, Holds
      <3>4. session[s].proof # Nil
              => /\ \A c \in Browser : ~ (browser'[c].pc \in Past /\ browser'[c].request = session[s].proof)
                 /\ \A t \in Session : session'[t].proof = session[s].proof => t = s
        BY <2>1, <2>2, <3>3
      <3> QED BY <3>1, <3>2, <3>3, <3>4
    <2> QED BY <2>3 DEF RequestsOpened, Holds
  <1> QED BY <1>1, <1>4, <1>5, <1>7, <1>10 DEF OidcInv, OperatorKnows, StillTrue

\* Ending a callback takes nothing from the others.
LEMMA StopKeepsInv ==
    ASSUME OidcInv, NEW b \in Browser, Stops(b),
           UNCHANGED <<session, provider, operator, policy, request>>
    PROVE  OidcInv'
  <1> DEFINE none == [pc |-> "idle", request |-> Nil, seen |-> Nil]
  <1>1. none \in BrowserState /\ none.pc = "idle"
    BY DEF BrowserState
  <1>2. browser' = [browser EXCEPT ![b] = none]
    BY DEF Stops
  <1> HIDE DEF none
  <1>3. session' \in [Session -> SessionState] /\ \A s \in Session : Kept(s)
    BY DEF OidcInv, OidcStateOK, Kept
  <1> QED BY <1>1, <1>2, <1>3, BrowserGoesOn

\* The steps of a callback that change nothing but its own state, and at most end
\* the session it replaces.
LEMMA CallbackKeepsInv ==
    ASSUME OidcInv, NEW b \in Browser,
           \/ \E r \in Request : ReadState(b, r)
           \/ CheckProof(b) \/ SignIn(b) \/ AnswerChallenge(b) \/ CheckSession(b) \/ RotateOidc(b)
    PROVE  OidcInv'
  <1>0. session \in [Session -> SessionState]
    BY DEF OidcInv, OidcStateOK
  <1>1. /\ UNCHANGED <<provider, operator, policy, request>>
        /\ session' \in [Session -> SessionState] /\ \A s \in Session : Kept(s)
    <2>1. CASE RotateOidc(b)
      BY <1>0, <2>1, RevokeKeeps DEF RotateOidc, SessionState
    <2>2. CASE ~ RotateOidc(b)
      <3>1. UNCHANGED <<session, provider, operator, policy, request>>
        BY <2>2 DEF ReadState, CheckProof, SignIn, AnswerChallenge, CheckSession
      <3> QED BY <1>0, <3>1 DEF Kept
    <2> QED BY <2>1, <2>2
  <1>2. browser[b] \in BrowserState
    BY DEF OidcInv, OidcStateOK
  <1>3. CASE Stops(b) /\ UNCHANGED session
    BY <1>1, <1>3, StopKeepsInv
  <1>4. CASE \E r \in Request : ReadState(b, r)
    <2>1. PICK r \in Request : ReadState(b, r)
      BY <1>4
    <2> DEFINE state == [pc |-> "consume", request |-> r, seen |-> Seen]
    <2>2. StillTrue(Seen) /\ Seen \in SeenRecord
      BY SeenIsTrue DEF OidcInv, StillTrue
    <2>3. /\ state \in BrowserState /\ state.pc = "consume"
          /\ state.request = r /\ StillTrue(state.seen)
      BY <2>2 DEF BrowserState
    <2>4. browser' = [browser EXCEPT ![b] = state]
      BY <2>1 DEF ReadState
    <2> HIDE DEF state
    <2> QED BY <1>1, <2>3, <2>4, BrowserGoesOn DEF Past
  <1>5. ASSUME NEW pc \in {"record", "challenge", "check", "rotate", "open"}, GoesTo(b, pc),
               IF pc = "record" THEN browser[b].pc = "prove"
                                ELSE browser[b].pc \in {"sign in", "challenge", "check", "rotate"}
        PROVE  OidcInv'
    <2> DEFINE state == [browser[b] EXCEPT !.pc = pc]
    <2>1. /\ state \in BrowserState /\ state.pc = pc
          /\ state.request = browser[b].request /\ state.seen = browser[b].seen
      BY <1>2, <1>5 DEF BrowserState
    <2>2. browser' = [browser EXCEPT ![b] = state]
      BY <1>5 DEF GoesTo
    <2>3. /\ state.request \in Request /\ StillTrue(state.seen)
          /\ Holds(b, state.request)
      BY <1>5, <2>1 DEF OidcInv, BrowserKnows, Holds, Past
    <2>4. IF pc = "record" THEN /\ request[state.request].purpose = "VALIDATE"
                                /\ request[state.request].config = state.seen.config
                           ELSE request[state.request].purpose = "LOGIN"
      BY <1>5, <2>1 DEF OidcInv, BrowserKnows
    <2> HIDE DEF state
    <2> QED BY <1>1, <1>5, <2>1, <2>2, <2>3, <2>4, BrowserGoesOn
  <1>6. CASE CheckProof(b)
    BY <1>3, <1>5, <1>6 DEF CheckProof, AtStep
  <1>7. CASE SignIn(b)
    BY <1>3, <1>5, <1>7 DEF SignIn, AtStep
  <1>8. CASE AnswerChallenge(b)
    BY <1>3, <1>5, <1>8 DEF AnswerChallenge, AtStep
  <1>9. CASE CheckSession(b)
    BY <1>3, <1>5, <1>9 DEF CheckSession, AtStep
  <1>10. CASE RotateOidc(b)
    BY <1>5, <1>10 DEF RotateOidc, AtStep
  <1> QED BY <1>4, <1>6, <1>7, <1>8, <1>9, <1>10

\* The first callback of a request consumes it: none held it before, and
\* nothing rests on it yet.
LEMMA ConsumeRequestKeeps ==
    ASSUME OidcInv, NEW b \in Browser, ConsumeState(b)
    PROVE  OidcInv'
  <1> DEFINE r == browser[b].request
  <1>1. CASE ~ Unconsumed(r)
    BY <1>1, StopKeepsInv DEF ConsumeState
  <1>2. CASE Unconsumed(r)
    <2>1. /\ browser[b].pc = "consume" /\ GoesTo(b, "exchange")
          /\ request' = [request EXCEPT ![r].status = "consumed"]
          /\ UNCHANGED <<session, provider, operator, policy>>
      BY <1>2 DEF ConsumeState, AtStep
    <2>2. r \in Request /\ request[r].status # "consumed" /\ StillTrue(browser[b].seen)
      BY <1>2, <2>1 DEF OidcInv, BrowserKnows, Unconsumed
    <2>3. /\ browser' \in [Browser -> BrowserState]
          /\ browser'[b].pc = "exchange" /\ browser'[b].request = r /\ browser'[b].seen = browser[b].seen
          /\ \A c \in Browser : c # b => browser'[c] = browser[c]
      BY <2>1 DEF OidcInv, OidcStateOK, BrowserState, GoesTo
    <2> DEFINE Record == [status : {"none", "open", "expired", "consumed"},
                          purpose : {"LOGIN", "VALIDATE"}, config : 0..MaxVersion]
    <2>4. /\ request' \in [Request -> Record]
          /\ request'[r].status = "consumed"
          /\ \A q \in Request : q # r => request'[q] = request[q]
      <3>1. request \in [Request -> Record]
        BY DEF OidcInv, OidcStateOK, OidcTypeOK
      <3>2. [request[r] EXCEPT !.status = "consumed"] \in Record
        BY <2>2, <3>1
      <3> QED BY <2>1, <2>2, <3>1, <3>2
    <2>5. OidcStateOK'
      BY <2>1, <2>3, <2>4 DEF OidcInv, OidcStateOK, OidcTypeOK, BrowserState
    <2>6. \A c \in Browser : browser[c].pc \in Past => browser[c].request \in Request \ {r}
      BY <2>2 DEF OidcInv, BrowserKnows, Past
    <2> HIDE DEF r, Record
    <2>7. BrowserKnows'
      <3>1. \A seen : StillTrue(seen)' <=> StillTrue(seen)
        BY <2>1 DEF StillTrue
      <3> SUFFICES ASSUME NEW c \in Browser, browser'[c].pc # "idle"
                   PROVE  LET k == browser'[c]
                          IN  /\ k.request \in Request
                              /\ StillTrue(k.seen)
                              /\ k.pc \in Past => request'[k.request].status = "consumed"
                              /\ k.pc \in {"prove", "record"}
                                    => /\ request'[k.request].purpose = "VALIDATE"
                                       /\ request'[k.request].config = k.seen.config
                              /\ k.pc \in {"sign in", "challenge", "check", "rotate", "open"}
                                    => request'[k.request].purpose = "LOGIN"
        BY <3>1 DEF BrowserKnows
      <3>2. CASE c = b
        BY <2>2, <2>3, <2>4, <3>2
      <3>3. CASE c # b
        <4>1. browser'[c] = browser[c] /\ browser[c].pc # "idle"
          BY <2>3, <3>3
        <4>2. browser[c].pc \in Past => request'[browser[c].request] = request[browser[c].request]
          BY <2>4, <2>6
        <4> QED BY <4>1, <4>2 DEF OidcInv, BrowserKnows, Past
      <3> QED BY <3>2, <3>3
    <2>8. OnePast'
      BY <2>3, <2>6 DEF OidcInv, OnePast, Holds, Past
    <2>9. provider.evidence \in Request \cup {Nil} /\ \A s \in Session : session[s].proof \in Request \cup {Nil}
      BY DEF OidcInv, OidcStateOK, OidcTypeOK, Provider, SessionState, SessionRecord
    <2>10. Proven'
      BY <2>1, <2>2, <2>3, <2>4, <2>9 DEF OidcInv, Proven, Holds
    <2>11. RequestsOpened'
      BY <2>1, <2>2, <2>3, <2>4, <2>9 DEF OidcInv, RequestsOpened, Holds
    <2> QED BY <2>1, <2>5, <2>7, <2>8, <2>10, <2>11 DEF OidcInv, OperatorKnows, StillTrue
  <1> QED BY <1>1, <1>2

\* The exchange notes the configuration in a request that nobody else holds and
\* that nothing rests on yet.
LEMMA ExchangeKeepsInv ==
    ASSUME OidcInv, NEW b \in Browser, Exchange(b)
    PROVE  OidcInv'
  <1> DEFINE r == browser[b].request
  <1> DEFINE Record == [status : {"none", "open", "expired", "consumed"},
                        purpose : {"LOGIN", "VALIDATE"}, config : 0..MaxVersion]
  <1>1. CASE Stops(b) /\ UNCHANGED request
    BY <1>1, StopKeepsInv DEF Exchange
  <1>2. CASE ~ (Stops(b) /\ UNCHANGED request)
    <2>1. /\ browser[b].pc = "exchange"
          /\ GoesTo(b, IF request[r].purpose = "VALIDATE" THEN "prove" ELSE "sign in")
          /\ request' = [request EXCEPT ![r].config = browser[b].seen.config]
          /\ UNCHANGED <<session, provider, operator, policy>>
      BY <1>2 DEF Exchange, AtStep
    <2>2. /\ r \in Request /\ request[r].status = "consumed"
          /\ StillTrue(browser[b].seen) /\ Holds(b, r)
      BY <2>1 DEF OidcInv, BrowserKnows, Holds, Past
    <2>3. request[r] \in Record /\ request \in [Request -> Record]
      BY <2>2 DEF OidcInv, OidcStateOK, OidcTypeOK
    <2>4. /\ browser' \in [Browser -> BrowserState]
          /\ browser'[b].pc = IF request[r].purpose = "VALIDATE" THEN "prove" ELSE "sign in"
          /\ browser'[b].request = r /\ browser'[b].seen = browser[b].seen
          /\ \A c \in Browser : c # b => browser'[c] = browser[c]
      BY <2>1 DEF OidcInv, OidcStateOK, BrowserState, GoesTo
    <2>5. /\ request' \in [Request -> Record]
          /\ request'[r].status = "consumed" /\ request'[r].purpose = request[r].purpose
          /\ request'[r].config = browser[b].seen.config
          /\ \A q \in Request : q # r => request'[q] = request[q]
      <3>1. MaxVersion \in Int
        BY OidcAssumption
      <3>2. browser[b].seen.config \in 0..MaxVersion
        BY <2>2, <3>1 DEF StillTrue, SeenRecord
      <3>3. [request[r] EXCEPT !.config = browser[b].seen.config] \in Record
        BY <2>3, <3>2
      <3> QED BY <2>1, <2>2, <2>3, <3>3
    <2>6. OidcStateOK'
      BY <2>1, <2>4, <2>5 DEF OidcInv, OidcStateOK, OidcTypeOK, BrowserState
    <2>7. \A c \in Browser : c # b /\ browser[c].pc \in Past => browser[c].request \in Request \ {r}
      BY <2>2 DEF OidcInv, OnePast, BrowserKnows, Holds, Past
    <2>8. provider.evidence \in Request \cup {Nil} /\ \A s \in Session : session[s].proof \in Request \cup {Nil}
      BY DEF OidcInv, OidcStateOK, OidcTypeOK, Provider, SessionState, SessionRecord
    <2>9. provider.evidence # r /\ \A s \in Session : session[s].proof # r
      BY <2>1, <2>2, OidcAssumption DEF OidcInv, Proven, RequestsOpened
    <2>10. request[r].purpose \in {"LOGIN", "VALIDATE"}
      BY <2>3
    <2> HIDE DEF r, Record
    <2>11. BrowserKnows'
      <3>1. \A seen : StillTrue(seen)' <=> StillTrue(seen)
        BY <2>1 DEF StillTrue
      <3> SUFFICES ASSUME NEW c \in Browser, browser'[c].pc # "idle"
                   PROVE  LET k == browser'[c]
                          IN  /\ k.request \in Request
                              /\ StillTrue(k.seen)
                              /\ k.pc \in Past => request'[k.request].status = "consumed"
                              /\ k.pc \in {"prove", "record"}
                                    => /\ request'[k.request].purpose = "VALIDATE"
                                       /\ request'[k.request].config = k.seen.config
                              /\ k.pc \in {"sign in", "challenge", "check", "rotate", "open"}
                                    => request'[k.request].purpose = "LOGIN"
        BY <3>1 DEF BrowserKnows
      <3>2. CASE c = b
        BY <2>2, <2>4, <2>5, <2>10, <3>2
      <3>3. CASE c # b
        <4>1. browser'[c] = browser[c] /\ browser[c].pc # "idle"
          BY <2>4, <3>3
        <4>2. browser[c].pc \in Past => request'[browser[c].request] = request[browser[c].request]
          BY <2>5, <2>7, <3>3
        <4> QED BY <4>1, <4>2 DEF OidcInv, BrowserKnows, Past
      <3> QED BY <3>2, <3>3
    <2>12. \A c \in Browser, q \in Request : Holds(c, q)' => Holds(c, q) /\ browser'[c].pc \in {browser[c].pc, "prove", "sign in"}
      BY <2>1, <2>2, <2>4 DEF Holds, Past
    <2>13. OnePast'
      BY <2>12 DEF OidcInv, OnePast
    <2>14. Proven'
      BY <2>1, <2>4, <2>5, <2>8, <2>9 DEF OidcInv, Proven, Holds, Past
    <2>15. RequestsOpened'
      <3>1. \A s \in Session : session[s].proof # Nil => request'[session[s].proof] = request[session[s].proof]
        BY <2>5, <2>8, <2>9
      <3>2. \A c \in Browser : browser'[c].pc \in Past
               => browser[c].pc \in Past /\ browser[c].request = browser'[c].request
        BY <2>1, <2>2, <2>4 DEF Holds, Past
      <3> SUFFICES ASSUME NEW s \in Session
                   PROVE  LET q == session[s].proof
                          IN  /\ session[s].status = "none" => q = Nil
                              /\ q # Nil => /\ request'[q].status = "consumed"
                                            /\ request'[q].purpose = "LOGIN"
                                            /\ \A c \in Browser : ~ (browser'[c].pc \in Past /\ browser'[c].request = q)
                                            /\ \A t \in Session : session[t].proof = q => t = s
        BY <2>1 DEF RequestsOpened, Holds
      <3> QED BY <3>1, <3>2 DEF OidcInv, RequestsOpened, Holds
    <2> QED BY <2>1, <2>6, <2>11, <2>13, <2>14, <2>15 DEF OidcInv, OperatorKnows, StillTrue
  <1> QED BY <1>1, <1>2

\* The record of a proof is made by the callback that holds the request, where
\* the version tells it that the configuration is the one it was proven with.
LEMMA RecordKeepsInv ==
    ASSUME OidcInv, NEW b \in Browser, RecordProof(b)
    PROVE  OidcInv'
  <1> DEFINE r == browser[b].request
  <1>1. CASE UNCHANGED provider
    BY <1>1, StopKeepsInv DEF RecordProof
  <1>2. CASE ~ UNCHANGED provider
    <2>1. /\ browser[b].pc = "record" /\ Stops(b) /\ Current(browser[b].seen)
          /\ provider.version < MaxVersion /\ provider.status = "METADATA"
          /\ provider' = [provider EXCEPT !.status = "TENANT", !.evidence = r,
                                          !.version = provider.version + 1]
          /\ UNCHANGED <<session, request, operator, policy>>
      BY <1>2 DEF RecordProof, AtStep
    <2>2. /\ r \in Request /\ StillTrue(browser[b].seen) /\ Holds(b, r)
          /\ request[r].status = "consumed" /\ request[r].purpose = "VALIDATE"
          /\ request[r].config = browser[b].seen.config
      BY <2>1 DEF OidcInv, BrowserKnows, Holds, Past
    <2>3. request[r].config = provider.config
      BY <2>1, <2>2 DEF StillTrue, Current
    <2>4. /\ browser' \in [Browser -> BrowserState] /\ browser'[b].pc = "idle"
          /\ \A c \in Browser : c # b => browser'[c] = browser[c]
      BY <2>1 DEF OidcInv, OidcStateOK, BrowserState, Stops
    <2>5. /\ provider' \in Provider /\ provider'.version = provider.version + 1
          /\ provider'.config = provider.config /\ provider'.status = "TENANT"
          /\ provider'.evidence = r
      <3>1. MaxVersion \in Int
        BY OidcAssumption
      <3>2. provider \in Provider
        BY DEF OidcInv, OidcStateOK, OidcTypeOK
      <3>3. provider.version + 1 \in 1..MaxVersion
        BY <2>1, <3>1, <3>2 DEF Provider
      <3> QED BY <2>1, <2>2, <3>2, <3>3 DEF Provider
    <2>6. OidcStateOK'
      BY <2>1, <2>4, <2>5 DEF OidcInv, OidcStateOK, OidcTypeOK
    <2>7. \A c \in Browser : c # b /\ browser[c].pc \in Past => browser[c].request # r
      BY <2>2 DEF OidcInv, OnePast, Holds
    <2> HIDE DEF r
    <2>8. \A seen : StillTrue(seen) => StillTrue(seen)'
      BY <2>5, NewVersion DEF OidcInv
    <2>9. OperatorKnows' /\ BrowserKnows'
      BY <2>1, <2>4, <2>8, StillKnown DEF OidcInv
    <2>10. OnePast'
      BY <2>4 DEF OidcInv, OnePast, Holds, Past
    <2>11. Proven'
      BY <2>1, <2>2, <2>3, <2>4, <2>5, <2>7, OidcAssumption DEF Proven, Holds, Past
    <2>12. RequestsOpened'
      <3>1. \A c \in Browser : browser'[c].pc \in Past => browser'[c] = browser[c]
        BY <2>4 DEF Past
      <3> QED BY <2>1, <3>1 DEF OidcInv, RequestsOpened, Holds
    <2> QED BY <2>6, <2>9, <2>10, <2>11, <2>12 DEF OidcInv
  <1> QED BY <1>1, <1>2

\* A session is opened by the callback that holds the request, which ends with it.
LEMMA OpenKeepsInv ==
    ASSUME OidcInv, NEW b \in Browser, OpenOidc(b)
    PROVE  OidcInv'
  <1> DEFINE r == browser[b].request
  <1>1. /\ browser[b].pc = "open" /\ Stops(b) /\ OpenSession(r, Idp)
        /\ UNCHANGED <<provider, request, operator, policy>>
    BY DEF OpenOidc, AtStep
  <1>2. /\ r \in Request /\ Holds(b, r)
        /\ request[r].status = "consumed" /\ request[r].purpose = "LOGIN"
    BY <1>1 DEF OidcInv, BrowserKnows, Holds, Past
  <1>3. /\ browser' \in [Browser -> BrowserState] /\ browser'[b].pc = "idle"
        /\ \A c \in Browser : c # b => browser'[c] = browser[c]
    BY <1>1 DEF OidcInv, OidcStateOK, BrowserState, Stops
  <1>4. session \in [Session -> SessionState]
    BY DEF OidcInv, OidcStateOK
  <1>5. /\ session' \in [Session -> SessionState]
        /\ \E s \in Session : /\ session'[s].status = "live" /\ session'[s].proof = r
                              /\ \A t \in Session \ {s} : Kept(t)
    <2> DEFINE Proofs == Request \cup {Nil}
               Providers == {Idp, Nil}
    <2>1. r \in Proofs /\ Idp \in Providers /\ OpenSession(r, Idp)
      BY <1>1, <1>2
    <2>2. session \in [Session -> SessionRecord(Proofs, Providers)] /\ SessionState = SessionRecord(Proofs, Providers)
      BY <1>4 DEF SessionState
    <2> HIDE DEF r, Proofs, Providers
    <2> QED BY <2>1, <2>2, OpenAdds
  <1>6. PICK s \in Session :
          /\ session'[s].status = "live" /\ session'[s].proof = r
          /\ \A t \in Session : t # s => /\ session'[t].proof = session[t].proof
                                         /\ session'[t].status = "none" => session[t].status = "none"
    BY <1>5 DEF Kept
  <1>7. \A t \in Session : session[t].proof # r
    BY <1>2, OidcAssumption DEF OidcInv, RequestsOpened
  <1>8. \A c \in Browser : browser'[c].pc \in Past
           => /\ c # b /\ browser[c].pc \in Past
              /\ browser[c].request = browser'[c].request /\ browser'[c].request # r
    <2> SUFFICES ASSUME NEW c \in Browser, browser'[c].pc \in Past
                 PROVE  c # b /\ browser'[c] = browser[c] /\ ~ Holds(c, r)
      BY DEF Holds
    <2>1. c # b
      BY <1>3 DEF Past
    <2> QED BY <1>2, <1>3, <2>1 DEF OidcInv, OnePast
  <1>9. OidcStateOK'
    BY <1>1, <1>3, <1>5 DEF OidcInv, OidcStateOK, OidcTypeOK
  <1> HIDE DEF r
  <1>10. OperatorKnows' /\ BrowserKnows'
    <2>1. \A seen : StillTrue(seen) => StillTrue(seen)'
      BY <1>1 DEF StillTrue
    <2> QED BY <1>1, <1>3, <2>1, StillKnown DEF OidcInv
  <1>11. OnePast'
    BY <1>3 DEF OidcInv, OnePast, Holds, Past
  <1>12. Proven'
    BY <1>1, <1>3 DEF OidcInv, Proven, Holds, Past
  <1>13. RequestsOpened'
    <2> SUFFICES ASSUME NEW t \in Session
                 PROVE  LET q == session'[t].proof
                        IN  /\ session'[t].status = "none" => q = Nil
                            /\ q # Nil => /\ request[q].status = "consumed"
                                          /\ request[q].purpose = "LOGIN"
                                          /\ \A c \in Browser : ~ (browser'[c].pc \in Past /\ browser'[c].request = q)
                                          /\ \A u \in Session : session'[u].proof = q => u = t
      BY <1>1 DEF RequestsOpened, Holds
    <2>1. CASE t = s
      BY <1>2, <1>6, <1>7, <1>8, <2>1
    <2>2. CASE t # s
      BY <1>6, <1>7, <1>8, <2>2 DEF OidcInv, RequestsOpened, Holds
    <2> QED BY <2>1, <2>2
  <1> QED BY <1>9, <1>10, <1>11, <1>12, <1>13 DEF OidcInv

\* Sessions end, and leave what opened them.
LEMMA LogoutKeepsInv ==
    ASSUME OidcInv, NEW s \in Session, OidcLogout(s)
    PROVE  OidcInv'
  <1>1. UNCHANGED <<provider, request, operator, browser, policy>>
    BY DEF OidcLogout
  <1>3. session \in [Session -> SessionState]
    BY DEF OidcInv, OidcStateOK
  <1>4. /\ session' \in [Session -> SessionState]
        /\ \A t \in Session : /\ session'[t].proof = session[t].proof
                              /\ session'[t].status = "none" => session[t].status = "none"
    BY <1>3, EndKeeps DEF OidcLogout, SessionState, Kept
  <1>5. OidcStateOK'
    BY <1>1, <1>4 DEF OidcInv, OidcStateOK, OidcTypeOK
  <1>6. RequestsOpened'
    BY <1>1, <1>4 DEF OidcInv, RequestsOpened, Holds
  <1>7. OperatorKnows' /\ BrowserKnows'
    <2>1. \A seen : StillTrue(seen) => StillTrue(seen)'
      BY <1>1 DEF StillTrue
    <2> QED BY <1>1, <2>1, StillKnown DEF OidcInv
  <1>8. OnePast' /\ Proven'
    BY <1>1 DEF OidcInv, OnePast, Proven, Holds
  <1> QED BY <1>5, <1>6, <1>7, <1>8 DEF OidcInv

-----------------------------------------------------------------------------
\* Every step keeps the inductive invariant.
LEMMA OidcStepKeeps == OidcInv /\ [OidcNext]_oidcVars => OidcInv'
  <1> SUFFICES ASSUME OidcInv, [OidcNext]_oidcVars PROVE OidcInv'
    OBVIOUS
  <1>1. CASE UNCHANGED oidcVars
    <2>1. OidcStateOK'
      BY <1>1 DEF oidcVars, OidcInv, OidcStateOK, OidcTypeOK
    <2> QED BY <1>1, <2>1, FrameKeepsInv DEF oidcVars
  <1>2. ASSUME NEW o \in Operator,
               \/ \E op \in {"configure", "refresh", "enable", "disable"} : LoadProvider(o, op)
               \/ Configure(o) \/ Refresh(o) \/ SwitchOn(o) \/ SwitchOff(o)
               \/ \E p \in AskedPolicy : LoadPolicy(o, p)
               \/ SetPolicy(o)
        PROVE  OidcInv'
    BY <1>2, OperatorReadsKeepInv, WriteKeepsInv
  <1>3. ASSUME NEW b \in Browser,
               \/ \E r \in Request : ReadState(b, r)
               \/ ConsumeState(b) \/ Exchange(b) \/ CheckProof(b) \/ RecordProof(b)
               \/ SignIn(b) \/ AnswerChallenge(b) \/ CheckSession(b) \/ RotateOidc(b) \/ OpenOidc(b)
        PROVE  OidcInv'
    BY <1>3, CallbackKeepsInv, ConsumeRequestKeeps, ExchangeKeepsInv, RecordKeepsInv, OpenKeepsInv
  <1>4. CASE \E r \in Request :
                \/ \E purpose \in {"LOGIN", "VALIDATE"} : BeginAuthorization(r, purpose)
                \/ StateExpires(r)
    BY <1>4, RequestKeepsInv
  <1>5. CASE \E s \in Session : OidcLogout(s)
    BY <1>5, LogoutKeepsInv
  <1>6. CASE MetadataExpires \/ PolicyComesIntoForce
    BY <1>6, TimeKeepsInv
  <1> QED BY <1>1, <1>2, <1>3, <1>4, <1>5, <1>6 DEF OidcNext

\* The inductive invariant holds in every state the specification reaches.
THEOREM OidcInvariance == OidcSpec => []OidcInv
  BY OidcInitInv, OidcStepKeeps, PTL DEF OidcSpec

\* State keeps its shape: what operators and callbacks write is a row, a request
\* or a policy again (oidc-provider-configuration.ts, oidc-flow.ts).
THEOREM OidcIsTyped == OidcSpec => []OidcTypeOK
  <1>1. OidcInv => OidcTypeOK
    BY DEF OidcInv, OidcStateOK
  <1> QED BY <1>1, OidcInvariance, PTL

\* A provider that is on was proven, by a sign-in made to validate it, with the
\* configuration it has now, whichever operators and callbacks overtake each other
\* (enableOidcProvider, recordOidcTenantValidationFromCallback).
THEOREM OnMeansProven == OidcSpec => []EnabledIsProven
  <1>1. OidcInv => EnabledIsProven
    BY DEF OidcInv, Proven, EnabledIsProven
  <1> QED BY <1>1, OidcInvariance, PTL

\* A request opens at most one session however often its callback is called, and
\* none if it was made to validate the provider (consumeOidcAuthorization).
THEOREM OneSessionPerRequest == OidcSpec => []RequestOpensOne
  <1>1. OidcInv => RequestOpensOne
    <2> SUFFICES ASSUME OidcInv, NEW r \in Request
                 PROVE  Cardinality({s \in Session : session[s].proof = r})
                          <= IF request[r].purpose = "LOGIN" THEN 1 ELSE 0
      BY DEF RequestOpensOne
    <2> DEFINE opened == {s \in Session : session[s].proof = r}
    <2>1. r # Nil
      BY OidcAssumption
    <2>2. CASE opened = {}
      <3>1. Cardinality(opened) = 0
        BY <2>2, FS_EmptySet
      <3> QED BY <3>1
    <2>3. CASE opened # {}
      <3>1. PICK s \in Session : session[s].proof = r
        BY <2>3
      <3>2. request[r].purpose = "LOGIN" /\ \A t \in Session : session[t].proof = r => t = s
        BY <2>1, <3>1 DEF OidcInv, RequestsOpened
      <3>3. opened = {s}
        BY <3>1, <3>2
      <3>4. Cardinality({s}) = 1
        BY FS_Singleton
      <3>5. Cardinality(opened) = 1
        BY <3>3, <3>4
      <3> QED BY <3>2, <3>5
    <2> QED BY <2>2, <2>3
  <1> QED BY <1>1, OidcInvariance, PTL
=============================================================================
