-------------------- MODULE OrganizationMembershipProofs --------------------
(***************************************************************************)
(* The safety properties of OrganizationMembership for every set of        *)
(* persons, callers and invitations.                                       *)
(*                                                                         *)
(* A call decides on a membership it read before the lock.  The argument   *)
(* is that the version it sends along is at most that of the membership    *)
(* read, which is at most the present one, and that equal versions mean    *)
(* equal memberships (ReadIsPast); so an update that matches acts on the   *)
(* membership it was decided on.  Of the owners counted under the lock,    *)
(* only accepting an invitation can change one before the update, and only *)
(* by rejoining (OwnersAsCounted).                                         *)
(***************************************************************************)
EXTENDS OrganizationMembership, FiniteSetTheorems, TLAPS

\* Caller c has a change under way and is at one of these steps.
AtStep(c, pcs) == call[c] # None /\ call[c].pc \in pcs

ReadIsPast(c) ==
    LET k == call[c]
        m == membership[k.target]
    IN  AtStep(c, {"load", "lock", "update"}) =>
            /\ k.expected <= m.version
            /\ k.change.kind # "bootstrap" /\ k.pc # "load" =>
                 /\ k.expected <= k.seen.version
                 /\ k.seen.version <= m.version
                 /\ k.seen.status # "NONE"
                 /\ k.seen.version = m.version => k.seen = m

OwnersAsCounted(c) ==
    LET k == call[c]
    IN  AtStep(c, {"update"}) =>
            /\ k.change.kind = "bootstrap" => Owners = {}
            /\ /\ k.change.kind # "bootstrap"
               /\ k.change.to \notin {"OWNER", "ACTIVE"}
               /\ k.seen.role = "OWNER"
               => Rejoined \/ Cardinality(Owners) > 1

Accepted(i, p) == invitation[i].state = "ACCEPTED" /\ invitation[i].person = p

MembersWereInvited ==
    \A p \in Person :
        membership[p].status # "NONE" => p \in Founder \/ \E i \in Invitation : Accepted(i, p)

NoOwnerInvited ==
    /\ \A i \in Invitation :
          invitation[i].state # "UNUSED" => /\ invitation[i].person \in Person
                                            /\ invitation[i].role # "OWNER"
    /\ \A c \in Caller : AtStep(c, {"invite"}) => call[c].to # "OWNER"

Inv ==
    /\ TypeOK
    /\ \A c \in Caller : ReadIsPast(c) /\ OwnersAsCounted(c)
    /\ MembersWereInvited
    /\ NoOwnerInvited

-----------------------------------------------------------------------------
\* The initial state satisfies the inductive invariant.
LEMMA InitInv == Init => Inv
  <1> SUFFICES ASSUME Init PROVE Inv
    OBVIOUS
  <1> USE MembershipAssumption DEF Init
  <1>1. TypeOK
    <2>1. membership \in [Person -> MembershipState]
      <3>1. NoMembership \in MembershipState
        BY DEF MembershipState, NoMembership, AllRoles
      <3>2. \A role \in AllRoles : NewMembership(role) \in MembershipState
        BY DEF MembershipState, NewMembership
      <3> QED BY <3>1, <3>2
    <2>2. invitation \in [Invitation -> InvitationState]
      BY DEF InvitationState, NoInvitation, AllRoles
    <2> QED BY <2>1, <2>2 DEF TypeOK
  <1>2. \A c \in Caller : ReadIsPast(c) /\ OwnersAsCounted(c)
    BY DEF ReadIsPast, OwnersAsCounted, AtStep
  <1>3. MembersWereInvited
    BY DEF MembersWereInvited, NoMembership
  <1>4. NoOwnerInvited
    BY DEF NoOwnerInvited, NoInvitation, AtStep
  <1> QED BY <1>1, <1>2, <1>3, <1>4 DEF Inv

\* A step that leaves memberships and accepted invitations alone keeps what is
\* known of the calls it leaves alone.
LEMMA OthersKeep ==
    ASSUME Inv, UNCHANGED membership,
           \A i \in Invitation : invitation[i].state = "ACCEPTED" => invitation'[i] = invitation[i]
    PROVE  /\ MembersWereInvited'
           /\ \A d \in Caller : call'[d] = call[d] => ReadIsPast(d)' /\ OwnersAsCounted(d)'
  <1> USE DEF Inv
  <1>1. MembersWereInvited'
    BY DEF MembersWereInvited, Accepted
  <1>2. ASSUME NEW d \in Caller, call'[d] = call[d] PROVE ReadIsPast(d)'
    BY <1>2 DEF ReadIsPast, AtStep
  <1>3. ASSUME NEW d \in Caller, call'[d] = call[d] PROVE OwnersAsCounted(d)'
    <2>1. Owners' = Owners
      BY DEF Owners, Active
    <2>2. Rejoined => Rejoined'
      BY DEF Rejoined
    <2> QED BY <1>3, <2>1, <2>2 DEF OwnersAsCounted, AtStep
  <1> QED BY <1>1, <1>2, <1>3

\* The route keeps the invariant: the version it passes on was seen.
LEMMA AuthorizeInv ==
    ASSUME Inv, NEW c \in Caller, NEW p \in Person, NEW q \in Person, NEW change \in Asked,
           NEW v \in 1..membership[q].version, Authorize(c, p, q, change, v)
    PROVE  Inv'
  <1> USE MembershipAssumption DEF Inv
  <1> DEFINE own == p = q
             k == [pc |-> IF change.kind = "bootstrap" THEN "lock" ELSE "load",
                   change |-> change, target |-> q, self |-> own,
                   actorRole |-> membership[p].role, expected |-> v, seen |-> NoMembership]
  <1>1. /\ change \in Change /\ NoMembership \in MembershipState /\ membership[q].version \in Nat
        /\ membership[p].role \in AllRoles
    BY DEF TypeOK, Asked, Change, MembershipState, NoMembership, AllRoles
  <1>2. k \in ChangeCall /\ k \in CallRecord /\ k # None
    <2>1. own \in BOOLEAN
      OBVIOUS
    <2> HIDE DEF own
    <2> QED BY <1>1, <2>1 DEF ChangeCall, CallRecord
  <1>3. call' = [call EXCEPT ![c] = k] /\ UNCHANGED <<membership, invitation, lock>>
        /\ calls' = calls + 1 /\ call[c] = None
    BY DEF Authorize
  <1>4. /\ k.target = q /\ k.expected = v /\ k.pc \in {"lock", "load"}
        /\ k.change.kind # "bootstrap" => k.pc = "load"
    OBVIOUS
  <1> HIDE DEF k
  <1>5. TypeOK'
    BY <1>2, <1>3, <1>4 DEF TypeOK
  <1>6. ASSUME NEW d \in Caller PROVE ReadIsPast(d)' /\ OwnersAsCounted(d)'
    <2>1. CASE d = c
      BY <1>1, <1>2, <1>3, <1>4, <2>1 DEF TypeOK, ReadIsPast, OwnersAsCounted, AtStep
    <2>2. CASE d # c
      BY <1>3, <2>2, OthersKeep DEF TypeOK
    <2> QED BY <2>1, <2>2
  <1>7. MembersWereInvited'
    BY <1>3, OthersKeep
  <1>8. NoOwnerInvited'
    BY <1>2, <1>3, <1>4 DEF TypeOK, NoOwnerInvited, AtStep
  <1> QED BY <1>5, <1>6, <1>7, <1>8

\* A call that ends without having changed anything keeps the invariant, and
\* so does giving up the lock.
LEMMA EndInv ==
    ASSUME Inv, NEW c \in Caller, call' = [call EXCEPT ![c] = None],
           UNCHANGED <<membership, invitation, calls>>,
           lock' = IF lock = c THEN None ELSE lock
    PROVE  Inv'
  <1> USE MembershipAssumption DEF Inv
  <1>1. TypeOK'
    BY DEF TypeOK
  <1>2. ASSUME NEW d \in Caller PROVE ReadIsPast(d)' /\ OwnersAsCounted(d)'
    <2>1. CASE d = c
      BY <2>1 DEF TypeOK, ReadIsPast, OwnersAsCounted, AtStep
    <2>2. CASE d # c
      BY <2>2, OthersKeep DEF TypeOK
    <2> QED BY <2>1, <2>2
  <1>3. MembersWereInvited'
    BY OthersKeep
  <1>4. NoOwnerInvited'
    BY DEF TypeOK, NoOwnerInvited, AtStep
  <1> QED BY <1>1, <1>2, <1>3, <1>4

\* loadMembershipForChange keeps the invariant: what it reads is present.
LEMMA LoadInv ==
    ASSUME Inv, NEW c \in Caller, Load(c)
    PROVE  Inv'
  <1> USE MembershipAssumption DEF Inv
  <1> DEFINE k == call[c]
             m == membership[k.target]
             new == [k EXCEPT !.pc = "lock", !.seen = m]
  <1>1. k \in ChangeCall /\ k # None /\ k.pc = "load" /\ m \in MembershipState
    BY DEF Load, TypeOK, CallRecord, ChangeCall, InviteCall, AcceptCall
  <1>2. /\ new \in ChangeCall /\ new \in CallRecord /\ new # None /\ new.pc = "lock"
        /\ new.seen = m /\ new.target = k.target /\ new.expected = k.expected
    BY <1>1 DEF ChangeCall, CallRecord
  <1>3. UNCHANGED <<membership, invitation, lock, calls>>
    BY DEF Load
  <1>4. \/ call' = [call EXCEPT ![c] = new] /\ m.status # "NONE"
        \/ call' = [call EXCEPT ![c] = None]
    BY DEF Load
  <1>5. lock # c
    BY <1>1 DEF TypeOK
  <1>6. CASE call' = [call EXCEPT ![c] = None]
    BY <1>3, <1>5, <1>6, EndInv
  <1>7. CASE call' = [call EXCEPT ![c] = new] /\ m.status # "NONE"
    <2> HIDE DEF new
    <2>1. TypeOK'
      BY <1>1, <1>2, <1>3, <1>5, <1>7 DEF TypeOK
    <2>2. ASSUME NEW d \in Caller PROVE ReadIsPast(d)' /\ OwnersAsCounted(d)'
      <3>1. CASE d = c
        <4>1. k.expected <= m.version /\ k.expected \in Nat /\ m.version \in Nat
          BY <1>1 DEF ReadIsPast, AtStep, ChangeCall, MembershipState
        <4> QED BY <1>1, <1>2, <1>3, <1>7, <3>1, <4>1 DEF TypeOK, ReadIsPast, OwnersAsCounted, AtStep
      <3>2. CASE d # c
        BY <1>3, <1>7, <3>2, OthersKeep DEF TypeOK
      <3> QED BY <3>1, <3>2
    <2>3. MembersWereInvited'
      BY <1>3, OthersKeep
    <2>4. NoOwnerInvited'
      BY <1>2, <1>3, <1>7 DEF TypeOK, NoOwnerInvited, AtStep
    <2> QED BY <2>1, <2>2, <2>3, <2>4
  <1> QED BY <1>4, <1>6, <1>7

\* Counting under the lock keeps the invariant.
LEMMA LockInv ==
    ASSUME Inv, NEW c \in Caller, Lock(c)
    PROVE  Inv'
  <1> USE MembershipAssumption DEF Inv
  <1> DEFINE k == call[c]
             new == [k EXCEPT !.pc = "update"]
  <1>1. k \in ChangeCall /\ k # None /\ k.pc = "lock" /\ lock = None
    BY DEF Lock, TypeOK, CallRecord, ChangeCall, InviteCall, AcceptCall
  <1>2. /\ new \in ChangeCall /\ new \in CallRecord /\ new # None /\ new.pc = "update"
        /\ new.seen = k.seen /\ new.target = k.target /\ new.expected = k.expected
        /\ new.change = k.change
    BY <1>1 DEF ChangeCall, CallRecord
  <1>3. UNCHANGED <<membership, invitation, calls>>
    BY DEF Lock
  <1>4. \/ call' = [call EXCEPT ![c] = new] /\ lock' = c /\ Allowed(k)
        \/ call' = [call EXCEPT ![c] = None] /\ lock' = lock
    BY DEF Lock
  <1>5. lock # c
    BY <1>1
  <1>6. CASE call' = [call EXCEPT ![c] = None] /\ lock' = lock
    BY <1>3, <1>5, <1>6, EndInv
  <1>7. CASE call' = [call EXCEPT ![c] = new] /\ lock' = c /\ Allowed(k)
    <2> HIDE DEF new
    <2>1. TypeOK'
      BY <1>1, <1>2, <1>3, <1>7 DEF TypeOK
    <2>2. ASSUME NEW d \in Caller PROVE ReadIsPast(d)' /\ OwnersAsCounted(d)'
      <3>1. CASE d = c
        <4>1. ReadIsPast(c)'
          BY <1>1, <1>2, <1>3, <1>7 DEF TypeOK, ReadIsPast, AtStep
        <4>2. /\ k.change.kind = "bootstrap" => Owners = {}
              /\ /\ k.change.kind # "bootstrap"
                 /\ k.change.to \notin {"OWNER", "ACTIVE"}
                 /\ k.seen.role = "OWNER"
                 => Cardinality(Owners) > 1
          <5>1. k.change \in Change
            BY <1>1 DEF ChangeCall
          <5> QED BY <1>7, <5>1 DEF Change, Allowed, KeepsAnOwner, NoOwnerYet
        <4>3. Owners' = Owners
          BY <1>3 DEF Owners, Active
        <4>4. OwnersAsCounted(c)'
          BY <1>2, <1>7, <4>2, <4>3 DEF TypeOK, OwnersAsCounted, AtStep
        <4> QED BY <3>1, <4>1, <4>4
      <3>2. CASE d # c
        BY <1>3, <1>7, <3>2, OthersKeep DEF TypeOK
      <3> QED BY <3>1, <3>2
    <2>3. MembersWereInvited'
      BY <1>3, OthersKeep
    <2>4. NoOwnerInvited'
      BY <1>2, <1>3, <1>7 DEF TypeOK, NoOwnerInvited, AtStep
    <2> QED BY <2>1, <2>2, <2>3, <2>4
  <1> QED BY <1>4, <1>6, <1>7

\* An update that matches acts on the membership it was decided on.
LEMMA MatchedIsSeen ==
    ASSUME Inv, NEW c \in Caller, AtStep(c, {"update"}), Matches(call[c]),
           call[c].change.kind # "bootstrap"
    PROVE  membership[call[c].target] = call[c].seen /\ call[c].seen.status # "NONE"
  <1>1. /\ call[c] \in ChangeCall
        /\ membership[call[c].target] \in MembershipState
    BY DEF Inv, TypeOK, AtStep, CallRecord, ChangeCall, InviteCall, AcceptCall
  <1>2. /\ call[c].expected \in Nat /\ call[c].seen.version \in Nat
        /\ membership[call[c].target].version \in Nat
    BY <1>1 DEF ChangeCall, MembershipState
  <1> QED BY <1>2 DEF Inv, ReadIsPast, AtStep, Matches

\* A call's past stays past when a membership gets its next version.
LEMMA NextVersion ==
    ASSUME Inv, NEW p \in Person, NEW m \in MembershipState,
           m.version = membership[p].version + 1,
           membership' = [membership EXCEPT ![p] = m],
           NEW d \in Caller, call'[d] = call[d]
    PROVE  ReadIsPast(d)'
  <1> SUFFICES ASSUME AtStep(d, {"load", "lock", "update"}) PROVE ReadIsPast(d)'
    BY DEF ReadIsPast, AtStep
  <1>1. /\ call[d] \in ChangeCall /\ call[d].target \in Person
        /\ membership[p] \in MembershipState /\ membership[call[d].target] \in MembershipState
    BY DEF Inv, TypeOK, AtStep, CallRecord, ChangeCall, InviteCall, AcceptCall
  <1>2. /\ call[d].expected \in Nat /\ call[d].seen.version \in Nat
        /\ membership[p].version \in Nat /\ membership[call[d].target].version \in Nat
    BY <1>1 DEF ChangeCall, MembershipState
  <1>3. ReadIsPast(d)
    BY DEF Inv
  <1>4. CASE call[d].target = p
    <2>1. membership'[call[d].target] = m
      BY <1>4 DEF Inv, TypeOK
    <2> QED BY <1>2, <1>3, <1>4, <2>1 DEF ReadIsPast, AtStep
  <1>5. CASE call[d].target # p
    <2>1. membership'[call[d].target] = membership[call[d].target]
      BY <1>1, <1>5 DEF Inv, TypeOK
    <2> QED BY <1>3, <2>1 DEF ReadIsPast, AtStep
  <1> QED BY <1>4, <1>5

\* Who and what an update that matches writes.
LEMMA Updated ==
    ASSUME Inv, NEW c \in Caller, Update(c), Matches(call[c])
    PROVE  LET k == call[c]
               t == k.target
               m == membership[t]
           IN  \E new \in MembershipState :
                  /\ t \in Person
                  /\ m.status # "NONE"
                  /\ membership' = [membership EXCEPT ![t] = new]
                  /\ new.version = m.version + 1
                  /\ k.change.kind = "status" => new.role = m.role /\ new.status = k.change.to
                  /\ k.change.kind # "status" => new.role = k.change.to /\ new.status = m.status
  <1> DEFINE k == call[c]
             t == k.target
             m == membership[t]
             new == [status |-> IF k.change.kind = "status" THEN k.change.to ELSE m.status,
                     role |-> IF k.change.kind = "status" THEN m.role ELSE k.change.to,
                     version |-> m.version + 1]
  <1>1. /\ AtStep(c, {"update"}) /\ k \in ChangeCall /\ k.change \in Change /\ t \in Person
        /\ m \in MembershipState
    BY DEF Update, Inv, TypeOK, AtStep, CallRecord, ChangeCall, InviteCall, AcceptCall
  <1>2. new \in MembershipState
    BY <1>1 DEF Change, MembershipState, AllRoles
  <1>3. m.status # "NONE"
    <2>1. CASE k.change.kind = "status"
      BY <1>1, <2>1, MatchedIsSeen
    <2>2. CASE k.change.kind # "status"
      BY <2>2 DEF Matches, Active
    <2> QED BY <2>1, <2>2
  <1>4. membership' = [membership EXCEPT ![t] = new]
    BY DEF Update
  <1> QED BY <1>1, <1>2, <1>3, <1>4

\* The update keeps the invariant; every other call is outside the lock.
LEMMA UpdateInv ==
    ASSUME Inv, NEW c \in Caller, Update(c)
    PROVE  Inv'
  <1> USE MembershipAssumption DEF Inv
  <1> DEFINE t == call[c].target
  <1>1. /\ call' = [call EXCEPT ![c] = None] /\ lock' = None /\ lock = c
        /\ UNCHANGED <<invitation, calls>>
    BY DEF Update, TypeOK
  <1>2. CASE ~ Matches(call[c])
    BY <1>1, <1>2, EndInv DEF Update
  <1>3. CASE Matches(call[c])
    <2>1. PICK new \in MembershipState :
                  /\ t \in Person
                  /\ membership[t].status # "NONE"
                  /\ membership' = [membership EXCEPT ![t] = new]
                  /\ new.version = membership[t].version + 1
      BY <1>3, Updated
    <2>2. TypeOK'
      BY <1>1, <2>1 DEF TypeOK
    <2>3. ASSUME NEW d \in Caller PROVE ReadIsPast(d)' /\ OwnersAsCounted(d)'
      <3>1. CASE d = c
        BY <1>1, <3>1 DEF TypeOK, ReadIsPast, OwnersAsCounted, AtStep
      <3>2. CASE d # c
        <4>1. call'[d] = call[d]
          BY <1>1, <3>2 DEF TypeOK
        <4>2. ~ AtStep(d, {"update"})
          BY <1>1, <3>2 DEF TypeOK, AtStep
        <4> QED BY <2>1, <4>1, <4>2, NextVersion DEF OwnersAsCounted, AtStep
      <3> QED BY <3>1, <3>2
    <2>4. MembersWereInvited'
      BY <1>1, <2>1 DEF TypeOK, MembersWereInvited, Accepted
    <2>5. NoOwnerInvited'
      BY <1>1 DEF TypeOK, NoOwnerInvited, AtStep
    <2> QED BY <2>2, <2>3, <2>4, <2>5
  <1> QED BY <1>2, <1>3

\* The checks of inviteCompanyMember keep the invariant.
LEMMA InviteCheckInv ==
    ASSUME Inv, NEW c \in Caller, NEW p \in Person, NEW q \in Person, NEW role \in Role,
           InviteCheck(c, p, q, role)
    PROVE  Inv'
  <1> USE MembershipAssumption DEF Inv
  <1> DEFINE k == [pc |-> "invite", target |-> q, to |-> role,
                   revoking |-> {i \in Invitation : /\ invitation[i].state = "PENDING"
                                                    /\ invitation[i].person = q}]
  <1>1. /\ k \in CallRecord /\ k # None /\ k.pc = "invite" /\ k.to # "OWNER"
    <2>1. k.revoking \in SUBSET Invitation /\ role \in AllRoles /\ role # "OWNER"
      BY DEF InviteCheck
    <2> QED BY <2>1 DEF CallRecord, InviteCall
  <1>2. /\ call' = [call EXCEPT ![c] = k] /\ UNCHANGED <<membership, invitation, lock>>
        /\ calls' = calls + 1 /\ call[c] = None
    BY DEF InviteCheck
  <1> HIDE DEF k
  <1>3. TypeOK'
    BY <1>1, <1>2 DEF TypeOK
  <1>4. ASSUME NEW d \in Caller PROVE ReadIsPast(d)' /\ OwnersAsCounted(d)'
    <2>1. CASE d = c
      BY <1>1, <1>2, <2>1 DEF TypeOK, ReadIsPast, OwnersAsCounted, AtStep
    <2>2. CASE d # c
      BY <1>2, <2>2, OthersKeep DEF TypeOK
    <2> QED BY <2>1, <2>2
  <1>5. MembersWereInvited'
    BY <1>2, OthersKeep
  <1>6. NoOwnerInvited'
    BY <1>1, <1>2 DEF TypeOK, NoOwnerInvited, AtStep
  <1> QED BY <1>3, <1>4, <1>5, <1>6

\* The writes of inviteCompanyMember keep the invariant.
LEMMA InviteInv ==
    ASSUME Inv, NEW c \in Caller, Invite(c)
    PROVE  Inv'
  <1> USE MembershipAssumption DEF Inv
  <1> DEFINE k == call[c]
             sent == [state |-> "PENDING", person |-> k.target, role |-> k.to]
  <1>1. k \in InviteCall /\ k # None /\ k.pc = "invite" /\ k.to # "OWNER"
    BY DEF Invite, TypeOK, CallRecord, ChangeCall, InviteCall, AcceptCall, NoOwnerInvited, AtStep
  <1>2. sent \in InvitationState
    BY <1>1 DEF InvitationState, InviteCall
  <1>3. PICK i \in Invitation :
          /\ invitation[i].state = "UNUSED"
          /\ invitation' = [j \in Invitation |->
                IF j = i THEN sent
                ELSE IF j \in k.revoking /\ invitation[j].state = "PENDING"
                     THEN [invitation[j] EXCEPT !.state = "REVOKED"]
                     ELSE invitation[j]]
    BY DEF Invite
  <1>4. call' = [call EXCEPT ![c] = None] /\ UNCHANGED <<membership, lock, calls>> /\ lock # c
    BY <1>1 DEF Invite, TypeOK
  <1>5. ASSUME NEW j \in Invitation
        PROVE  /\ invitation'[j] \in InvitationState
               /\ invitation[j].state = "ACCEPTED" => invitation'[j] = invitation[j]
               /\ invitation'[j].state # "UNUSED" => /\ invitation'[j].person \in Person
                                                     /\ invitation'[j].role # "OWNER"
    <2>1. CASE j = i
      BY <1>1, <1>2, <1>3, <2>1 DEF InviteCall
    <2>2. CASE j # i /\ invitation'[j] = [invitation[j] EXCEPT !.state = "REVOKED"]
               /\ invitation[j].state = "PENDING"
      <3>1. invitation[j] \in InvitationState
        BY DEF TypeOK
      <3> QED BY <2>2, <3>1 DEF InvitationState, NoOwnerInvited
    <2>3. CASE j # i /\ invitation'[j] = invitation[j]
      BY <2>3 DEF TypeOK, NoOwnerInvited
    <2> QED BY <1>3, <2>1, <2>2, <2>3
  <1>6. TypeOK'
    <2>1. invitation' \in [Invitation -> InvitationState]
      BY <1>3, <1>5
    <2> QED BY <1>4, <2>1 DEF TypeOK
  <1>7. ASSUME NEW d \in Caller PROVE ReadIsPast(d)' /\ OwnersAsCounted(d)'
    <2>1. CASE d = c
      BY <1>4, <2>1 DEF TypeOK, ReadIsPast, OwnersAsCounted, AtStep
    <2>2. CASE d # c
      BY <1>4, <1>5, <2>2, OthersKeep DEF TypeOK
    <2> QED BY <2>1, <2>2
  <1>8. MembersWereInvited'
    BY <1>4, <1>5, OthersKeep
  <1>9. NoOwnerInvited'
    BY <1>4, <1>5 DEF TypeOK, NoOwnerInvited, AtStep
  <1> QED BY <1>6, <1>7, <1>8, <1>9

\* Revoking an invitation, or its expiry, keeps the invariant.
LEMMA RevokeInv ==
    ASSUME Inv, NEW i \in Invitation, Revoke(i)
    PROVE  Inv'
  <1> USE MembershipAssumption DEF Inv, Revoke
  <1>1. \A j \in Invitation :
          /\ invitation'[j] \in InvitationState
          /\ j # i => invitation'[j] = invitation[j]
          /\ invitation'[j].person = invitation[j].person
          /\ invitation'[j].role = invitation[j].role
    BY DEF TypeOK, InvitationState
  <1>2. TypeOK'
    BY <1>1 DEF TypeOK
  <1>3. MembersWereInvited' /\ \A d \in Caller : ReadIsPast(d)' /\ OwnersAsCounted(d)'
    BY <1>1, OthersKeep
  <1>4. NoOwnerInvited'
    BY <1>1 DEF NoOwnerInvited, AtStep
  <1> QED BY <1>2, <1>3, <1>4

\* The reads of acceptCompanyInvitation keep the invariant.
LEMMA AcceptCheckInv ==
    ASSUME Inv, NEW c \in Caller, NEW i \in Invitation, AcceptCheck(c, i)
    PROVE  Inv'
  <1> USE MembershipAssumption DEF Inv
  <1> DEFINE k == [pc |-> "accept", invitation |-> i]
  <1>1. k \in CallRecord /\ k # None /\ k.pc = "accept"
    BY DEF CallRecord, AcceptCall
  <1>2. /\ call' = [call EXCEPT ![c] = k] /\ UNCHANGED <<membership, invitation, lock, calls>>
        /\ call[c] = None
    BY DEF AcceptCheck
  <1> HIDE DEF k
  <1>3. TypeOK'
    BY <1>1, <1>2 DEF TypeOK
  <1>4. ASSUME NEW d \in Caller PROVE ReadIsPast(d)' /\ OwnersAsCounted(d)'
    <2>1. CASE d = c
      BY <1>1, <1>2, <2>1 DEF TypeOK, ReadIsPast, OwnersAsCounted, AtStep
    <2>2. CASE d # c
      BY <1>2, <2>2, OthersKeep DEF TypeOK
    <2> QED BY <2>1, <2>2
  <1>5. MembersWereInvited'
    BY <1>2, OthersKeep
  <1>6. NoOwnerInvited'
    BY <1>1, <1>2 DEF TypeOK, NoOwnerInvited, AtStep
  <1> QED BY <1>3, <1>4, <1>5, <1>6

\* An owner who accepts an invitation has rejoined; anybody else who accepts
\* one leaves the owners as they are.
LEMMA AcceptedByOwner ==
    ASSUME Inv, NEW i \in Invitation, invitation[i].state = "PENDING",
           invitation' = [invitation EXCEPT ![i].state = "ACCEPTED"],
           NEW new \in MembershipState, new.role # "OWNER",
           membership' = [membership EXCEPT ![invitation[i].person] = new]
    PROVE  /\ Owners' \subseteq Owners
           /\ Owners' = Owners \/ Rejoined'
           /\ Rejoined => Rejoined'
  <1> DEFINE p == invitation[i].person
  <1> USE DEF Inv
  <1>1. p \in Person
    BY DEF NoOwnerInvited
  <1>2. /\ invitation'[i].state = "ACCEPTED" /\ invitation'[i].person = p
        /\ \A j \in Invitation \ {i} : invitation'[j] = invitation[j]
    BY DEF TypeOK, InvitationState
  <1>3. \A q \in Person : membership'[q] = IF q = p THEN new ELSE membership[q]
    BY <1>1 DEF TypeOK
  <1>4. Rejoined => Rejoined'
    BY <1>2 DEF Rejoined
  <1>5. CASE p \in Owners
    <2>1. p \in Founder \/ \E j \in Invitation : Accepted(j, p)
      BY <1>1, <1>5 DEF MembersWereInvited, Owners, Active
    <2>2. Rejoined'
      <3>1. CASE p \in Founder
        BY <1>2, <3>1 DEF Rejoined
      <3>2. CASE \E j \in Invitation : Accepted(j, p)
        BY <1>2, <3>2 DEF Rejoined, Accepted
      <3> QED BY <2>1, <3>1, <3>2
    <2> QED BY <1>3, <1>4, <2>2 DEF Owners, Active
  <1>6. CASE p \notin Owners
    BY <1>3, <1>4, <1>6 DEF Owners, Active
  <1> QED BY <1>5, <1>6

\* The transaction of acceptCompanyInvitation keeps the invariant.
LEMMA AcceptInv ==
    ASSUME Inv, NEW c \in Caller, Accept(c)
    PROVE  Inv'
  <1> USE MembershipAssumption DEF Inv
  <1> DEFINE i == call[c].invitation
             p == invitation[i].person
             new == [NewMembership(invitation[i].role) EXCEPT !.version = membership[p].version + 1]
  <1>1. i \in Invitation /\ call[c] # None /\ call[c].pc = "accept"
    BY DEF Accept, TypeOK, CallRecord, ChangeCall, InviteCall, AcceptCall
  <1>2. call' = [call EXCEPT ![c] = None] /\ UNCHANGED <<lock, calls>> /\ lock # c
    BY <1>1 DEF Accept, TypeOK
  <1>3. CASE invitation[i].state # "PENDING"
    BY <1>2, <1>3, EndInv DEF Accept
  <1>4. CASE invitation[i].state = "PENDING"
    <2>1. p \in Person /\ invitation[i].role \in AllRoles /\ invitation[i].role # "OWNER"
      BY <1>1, <1>4 DEF TypeOK, InvitationState, NoOwnerInvited
    <2>2. membership[p].version \in Nat
      BY <2>1 DEF TypeOK, MembershipState
    <2>3. /\ new \in MembershipState /\ new.role # "OWNER" /\ new.status = "ACTIVE"
          /\ new.version = membership[p].version + 1
      BY <2>1, <2>2 DEF NewMembership, MembershipState
    <2>4. /\ invitation' = [invitation EXCEPT ![i].state = "ACCEPTED"]
          /\ membership' = [membership EXCEPT ![p] = new]
      BY <1>4 DEF Accept
    <2> HIDE DEF new
    <2>5. /\ \A j \in Invitation : invitation'[j] \in InvitationState
          /\ \A j \in Invitation : j # i => invitation'[j] = invitation[j]
          /\ invitation'[i].state = "ACCEPTED" /\ invitation'[i].person = p
          /\ invitation'[i].role = invitation[i].role
      BY <1>1, <2>4 DEF TypeOK, InvitationState
    <2>6. TypeOK'
      BY <1>2, <2>3, <2>4, <2>5 DEF TypeOK
    <2>7. ASSUME NEW d \in Caller PROVE ReadIsPast(d)' /\ OwnersAsCounted(d)'
      <3>1. CASE d = c
        BY <1>2, <3>1 DEF TypeOK, ReadIsPast, OwnersAsCounted, AtStep
      <3>2. CASE d # c
        <4>1. call'[d] = call[d]
          BY <1>2, <3>2 DEF TypeOK
        <4>2. /\ Owners' \subseteq Owners
              /\ Owners' = Owners \/ Rejoined'
              /\ Rejoined => Rejoined'
          BY <1>1, <1>4, <2>3, <2>4, AcceptedByOwner
        <4>3. OwnersAsCounted(d)'
          BY <4>1, <4>2 DEF OwnersAsCounted, AtStep
        <4> QED BY <2>1, <2>3, <2>4, <4>1, <4>3, NextVersion
      <3> QED BY <3>1, <3>2
    <2>8. MembersWereInvited'
      BY <1>1, <1>4, <2>1, <2>4, <2>5 DEF TypeOK, MembersWereInvited, Accepted
    <2>9. NoOwnerInvited'
      BY <1>2, <2>1, <2>5 DEF TypeOK, NoOwnerInvited, AtStep
    <2> QED BY <2>6, <2>7, <2>8, <2>9
  <1> QED BY <1>3, <1>4

\* Every step keeps the invariant.
LEMMA NextInv == Inv /\ [Next]_vars => Inv'
  <1> SUFFICES ASSUME Inv, [Next]_vars PROVE Inv'
    OBVIOUS
  <1>1. CASE UNCHANGED vars
    <2>1. UNCHANGED <<membership, invitation, lock, call, calls>>
      BY <1>1 DEF vars
    <2>2. TypeOK' /\ NoOwnerInvited'
      BY <2>1 DEF Inv, TypeOK, NoOwnerInvited, AtStep
    <2> QED BY <2>1, <2>2, OthersKeep DEF Inv
  <1>2. ASSUME NEW c \in Caller, CallerNext(c) PROVE Inv'
    BY <1>2, AuthorizeInv, LoadInv, LockInv, UpdateInv, InviteCheckInv, InviteInv,
       AcceptCheckInv, AcceptInv DEF CallerNext
  <1>3. ASSUME NEW i \in Invitation, Revoke(i) PROVE Inv'
    BY <1>3, RevokeInv
  <1> QED BY <1>1, <1>2, <1>3 DEF Next

\* The inductive invariant holds in every reachable state.
LEMMA Invariance == Spec => []Inv
  BY InitInv, NextInv, PTL DEF Spec

-----------------------------------------------------------------------------
\* Memberships change in an update that matches or in an acceptance.
LEMMA MembershipChanges ==
    ASSUME [Next]_vars, membership' # membership
    PROVE  \E c \in Caller : \/ Update(c) /\ Matches(call[c])
                             \/ Accept(c)
  <1>1. ~ UNCHANGED vars
    BY DEF vars
  <1>2. ASSUME NEW i \in Invitation, Revoke(i) PROVE FALSE
    BY <1>2 DEF Revoke
  <1>3. ASSUME NEW c \in Caller, CallerNext(c)
        PROVE  (Update(c) /\ Matches(call[c])) \/ Accept(c)
    <2>1. ASSUME NEW p \in Person, NEW q \in Person, NEW change \in Asked,
                 NEW v \in 1..membership[q].version, Authorize(c, p, q, change, v)
          PROVE  FALSE
      BY <2>1 DEF Authorize
    <2>2. ~ Load(c) /\ ~ Lock(c) /\ ~ Invite(c)
      BY DEF Load, Lock, Invite
    <2>3. ASSUME NEW p \in Person, NEW q \in Person, NEW role \in Role, InviteCheck(c, p, q, role)
          PROVE  FALSE
      BY <2>3 DEF InviteCheck
    <2>4. ASSUME NEW i \in Invitation, AcceptCheck(c, i) PROVE FALSE
      BY <2>4 DEF AcceptCheck
    <2>5. Update(c) => Matches(call[c])
      BY DEF Update
    <2> QED BY <1>3, <2>1, <2>2, <2>3, <2>4, <2>5 DEF CallerNext
  <1> QED BY <1>1, <1>2, <1>3 DEF Next

\* Among two owners one is not the given person.
LEMMA AnotherOwner ==
    ASSUME IsFiniteSet(Person), Cardinality(Owners) > 1, NEW t
    PROVE  Owners \ {t} # {}
  <1>1. IsFiniteSet(Owners)
    BY FS_Subset DEF Owners
  <1>2. IsFiniteSet({t}) /\ Cardinality({t}) = 1
    BY FS_Singleton
  <1>3. SUFFICES ASSUME Owners \ {t} = {} PROVE FALSE
    OBVIOUS
  <1>4. Owners \subseteq {t}
    BY <1>3
  <1>5. Cardinality(Owners) <= 1
    BY <1>2, <1>4, FS_Subset
  <1>6. Cardinality(Owners) \in Nat
    BY <1>1, FS_CardinalityType
  <1> QED BY <1>5, <1>6

\* The type invariant: every variable holds a value the code could have put
\* there, and the organization row is locked between count and update.
THEOREM TypeCorrect == Spec => []TypeOK
  BY Invariance, PTL DEF Inv

\* Without rejoining, an organization that has an owner keeps one: the update
\* that takes an owner away was decided when there were two.
LEMMA UpdateKeepsAnOwner ==
    ASSUME Inv, NEW c \in Caller, Update(c), Matches(call[c]), Owners # {}, ~ Rejoined
    PROVE  Owners' # {}
  <1> DEFINE k == call[c]
             t == k.target
             m == membership[t]
  <1>1. AtStep(c, {"update"}) /\ k \in ChangeCall /\ k.change \in Change
    BY DEF Update, Inv, TypeOK, AtStep, CallRecord, ChangeCall, InviteCall, AcceptCall
  <1>2. PICK new \in MembershipState :
            /\ t \in Person
            /\ membership' = [membership EXCEPT ![t] = new]
            /\ k.change.kind = "status" => new.role = m.role /\ new.status = k.change.to
            /\ k.change.kind # "status" => new.role = k.change.to /\ new.status = m.status
    BY Updated
  <1>3. \A q \in Person : membership'[q] = IF q = t THEN new ELSE membership[q]
    BY <1>2 DEF Inv, TypeOK
  <1>4. Owners \ {t} \subseteq Owners'
    BY <1>3 DEF Owners, Active
  <1>5. CASE t \notin Owners
    BY <1>4, <1>5
  <1>6. CASE t \in Owners /\ t \in Owners'
    BY <1>6
  <1>7. CASE t \in Owners /\ t \notin Owners'
    <2>1. k.change.kind # "bootstrap"
      BY <1>1, <1>7 DEF Inv, OwnersAsCounted
    <2>2. k.seen.role = "OWNER"
      BY <1>1, <1>7, <2>1, MatchedIsSeen DEF Owners
    <2>3. k.change.to \notin {"OWNER", "ACTIVE"}
      <3>1. m.role = "OWNER" /\ m.status = "ACTIVE" /\ ~ (new.role = "OWNER" /\ new.status = "ACTIVE")
        BY <1>2, <1>3, <1>7 DEF Owners, Active
      <3> QED BY <1>1, <1>2, <2>1, <3>1 DEF Change, AllRoles
    <2>4. Cardinality(Owners) > 1
      BY <1>1, <2>1, <2>2, <2>3 DEF Inv, OwnersAsCounted
    <2> QED BY <1>4, <2>4, AnotherOwner, MembershipAssumption, FS_Subset
  <1> QED BY <1>5, <1>6, <1>7

\* docs/AUTHORIZATION_ARCHITECTURE.md:74 "The last active OWNER cannot be
\* demoted, suspended or removed" by any interleaving of the changes of
\* team.ts, as long as nobody accepts an invitation twice.
THEOREM LastOwner == Spec => LastOwnerStays
  <1>1. Inv /\ [Next]_vars => [~ Rejoined' /\ Owners # {} => Owners' # {}]_vars
    <2> SUFFICES ASSUME Inv, [Next]_vars, ~ Rejoined', Owners # {} PROVE Owners' # {}
      OBVIOUS
    <2>1. CASE UNCHANGED membership
      BY <2>1 DEF Owners, Active
    <2>2. ASSUME NEW c \in Caller, Update(c), Matches(call[c]) PROVE Owners' # {}
      <3>1. ~ Rejoined
        BY <2>2 DEF Update, Rejoined
      <3> QED BY <2>2, <3>1, UpdateKeepsAnOwner
    <2>3. ASSUME NEW c \in Caller, Accept(c), membership' # membership PROVE Owners' # {}
      <3> DEFINE i == call[c].invitation
                 p == invitation[i].person
                 new == [NewMembership(invitation[i].role) EXCEPT !.version = membership[p].version + 1]
      <3>1. i \in Invitation /\ invitation[i].state = "PENDING"
        BY <2>3 DEF Accept, Inv, TypeOK, CallRecord, ChangeCall, InviteCall, AcceptCall
      <3>2. p \in Person /\ invitation[i].role \in AllRoles /\ invitation[i].role # "OWNER"
        BY <3>1 DEF Inv, TypeOK, InvitationState, NoOwnerInvited
      <3>3. membership[p].version \in Nat
        BY <3>2 DEF Inv, TypeOK, MembershipState
      <3>4. new \in MembershipState /\ new.role # "OWNER"
        BY <3>2, <3>3 DEF NewMembership, MembershipState
      <3>5. /\ invitation' = [invitation EXCEPT ![i].state = "ACCEPTED"]
            /\ membership' = [membership EXCEPT ![p] = new]
        BY <2>3, <3>1 DEF Accept
      <3>6. Owners' = Owners
        <4> HIDE DEF new
        <4> QED BY <3>1, <3>4, <3>5, AcceptedByOwner
      <3> QED BY <3>6
    <2> QED BY <2>1, <2>2, <2>3, MembershipChanges
  <1> QED BY <1>1, Invariance, PTL DEF Spec, LastOwnerStays

\* A call at its update that ends while a membership changes is the one that
\* updates it.
LEMMA TheOneThatUpdates ==
    ASSUME [Next]_vars, NEW c \in Caller, AtStep(c, {"update"}), Inv,
           call'[c] = None, membership' # membership
    PROVE  Update(c) /\ Matches(call[c])
  <1>1. PICK d \in Caller : (Update(d) /\ Matches(call[d])) \/ Accept(d)
    BY MembershipChanges
  <1>2. call' = [call EXCEPT ![d] = None]
    BY <1>1 DEF Update, Accept
  <1>3. d = c
    BY <1>2 DEF Inv, TypeOK, AtStep
  <1> QED BY <1>1, <1>3 DEF Accept, AtStep

\* team.ts decides on the membership it loaded before its transaction; an
\* update goes through only when the membership is still that one.
THEOREM CurrentWhenDecided == Spec => DecidesOnCurrent
  <1>1. Inv /\ [Next]_vars =>
          [\A c \in Caller :
             /\ call[c] # None /\ call[c].pc = "update" /\ call[c].change.kind # "bootstrap"
             /\ call'[c] = None /\ membership' # membership
             => membership[call[c].target] = call[c].seen]_vars
    BY TheOneThatUpdates, MatchedIsSeen DEF AtStep
  <1> QED BY <1>1, Invariance, PTL DEF Spec, DecidesOnCurrent

\* docs/AUTHORIZATION_ARCHITECTURE.md:71 "The first OWNER can be bootstrapped
\* only when no active owner exists": still true when the update is made.
THEOREM FirstOwner == Spec => BootstrapsTheFirst
  <1>1. Inv /\ [Next]_vars =>
          [\A c \in Caller :
             /\ call[c] # None /\ call[c].pc = "update" /\ call[c].change.kind = "bootstrap"
             /\ call'[c] = None /\ membership' # membership
             => Owners = {}]_vars
    BY DEF Inv, OwnersAsCounted, AtStep
  <1> QED BY <1>1, Invariance, PTL DEF Spec, BootstrapsTheFirst
=============================================================================
