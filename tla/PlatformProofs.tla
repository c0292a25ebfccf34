--------------------------- MODULE PlatformProofs ---------------------------
(*****************************************************************************)
(* The safety properties of PlatformGovernance, for every set of persons,    *)
(* approvals and callers, and of PlatformAccess, for every set of companies, *)
(* support requests, consents and handlers.                                  *)
(*                                                                           *)
(* What has to be added to the properties of approvals is what a caller still *)
(* knows of the rows it has read (CallerKnows): that a decision is not by the *)
(* requester; that from the first check of the version on, the version sent  *)
(* along is the approval's; and that under the lock nothing it has read has  *)
(* changed.  Of a support handler (DeskKnows) it is that the session it goes by *)
(* is for the company of its request and, once its scopes were read, covers  *)
(* the action.                                                               *)
(*****************************************************************************)
EXTENDS PlatformGovernance, PlatformAccess, FiniteSetTheorems, TLAPS

\* What is certain of the rows when caller c takes its next step.
CallerKnows(c) ==
    LET k == call[c]
        r == approval[k.id]
    IN  call[c] # None =>
            /\ Exists(k.id)
            /\ k.pc = "decide" => k.actor # r.requester
            /\ k.pc \in {"lock", "write"} => k.version = r.version
            /\ k.pc = "write" => /\ r.status = "APPROVED"
                                 /\ owner[r.target].version = k.version
                                 /\ OwnerWouldRemain(r)

GovernanceInv ==
    /\ TypeOK
    /\ AnOwnerStays
    /\ ExecutedOnce
    /\ DecisionsAgree
    /\ \A c \in Caller : CallerKnows(c)

\* The executed approvals of an assignment.
GrantedFor(p) == {a \in Approval : Granted(a) /\ approval[a].target = p}

-----------------------------------------------------------------------------
\* The owners are finitely many.
LEMMA OwnersFinite == IsFiniteSet(Owners)
  <1>1. Owners \subseteq Person
    BY DEF Owners
  <1> QED BY <1>1, FS_Subset, GovernanceAssumption

\* The initial state satisfies the inductive invariant.
LEMMA GovernanceInitInv == Init => GovernanceInv
  <1> SUFFICES ASSUME Init PROVE GovernanceInv
    OBVIOUS
  <1> USE GovernanceAssumption DEF Init
  <1>1. TypeOK
    BY DEF TypeOK, Assignment, ApprovalState, CallState, At
  <1>2. AnOwnerStays
    BY DEF AnOwnerStays, Owners
  <1>3. ExecutedOnce
    <2> SUFFICES ASSUME NEW p \in Person
                 PROVE  owner[p].version = (IF p \in FirstOwner THEN 1 ELSE 0)
                                           + Cardinality(GrantedFor(p))
      BY DEF ExecutedOnce, GrantedFor
    <2>1. GrantedFor(p) = {}
      BY DEF GrantedFor, Granted
    <2> QED BY <2>1, FS_EmptySet
  <1>4. DecisionsAgree
    BY DEF DecisionsAgree, Exists
  <1>5. \A c \in Caller : CallerKnows(c)
    BY DEF CallerKnows
  <1> QED BY <1>1, <1>2, <1>3, <1>4, <1>5 DEF GovernanceInv

\* As long as no approval becomes or ceases to be executed and no assignment
\* changes, the count of executions stays right.
LEMMA CountUnchanged ==
    ASSUME ExecutedOnce, owner' = owner,
           \A a \in Approval : Granted(a)' <=> Granted(a),
           \A a \in Approval : Granted(a) => approval'[a].target = approval[a].target
    PROVE  ExecutedOnce'
  <1>1. \A p \in Person : GrantedFor(p)' = GrantedFor(p)
    BY DEF GrantedFor
  <1> QED BY <1>1 DEF ExecutedOnce, GrantedFor

\* requestGovernanceApproval keeps the invariant.
LEMMA RequestInv ==
    ASSUME GovernanceInv, NEW a \in Approval, NEW p \in Person, NEW t \in Person,
           NEW action \in {"ASSIGN", "REMOVE"}, NEW v \in 0..owner[t].version,
           RequestApproval(a, p, action, t, v)
    PROVE  GovernanceInv'
  <1> USE GovernanceAssumption DEF GovernanceInv, RequestApproval
  <1>1. TypeOK'
    BY DEF TypeOK, Assignment, ApprovalState, Status, At, Exists
  <1>2. AnOwnerStays'
    BY DEF AnOwnerStays, Owners
  <1>3. ExecutedOnce'
    BY CountUnchanged DEF TypeOK, Granted, Exists
  <1>4. DecisionsAgree'
    BY DEF TypeOK, DecisionsAgree, Exists
  <1>5. ASSUME NEW c \in Caller PROVE CallerKnows(c)'
    BY DEF TypeOK, CallerKnows, Exists, OwnerWouldRemain, Owners, CallState, CallRecord
  <1> QED BY <1>1, <1>2, <1>3, <1>4, <1>5

\* The first half of decideGovernanceApproval keeps the invariant.
LEMMA ReadToDecideInv ==
    ASSUME GovernanceInv, NEW c \in Caller, NEW a \in Approval, NEW p \in Person,
           NEW approved \in BOOLEAN, ReadToDecide(c, a, p, approved)
    PROVE  GovernanceInv'
  <1> USE GovernanceAssumption DEF GovernanceInv, ReadToDecide
  <1>0. approval[a].approvers \subseteq Person
    BY DEF TypeOK, ApprovalState
  <1>1. TypeOK'
    BY <1>0 DEF TypeOK, CallState, CallRecord, At
  <1>2. AnOwnerStays'
    BY DEF AnOwnerStays, Owners
  <1>3. ExecutedOnce'
    BY CountUnchanged DEF Granted
  <1>4. DecisionsAgree'
    BY DEF DecisionsAgree, Exists
  <1>5. ASSUME NEW d \in Caller PROVE CallerKnows(d)'
    BY DEF TypeOK, CallerKnows, Exists, OwnerWouldRemain, Owners, MayDecide
  <1> QED BY <1>1, <1>2, <1>3, <1>4, <1>5

\* What an approval request consists of.
LEMMA RequestFields ==
    ASSUME TypeOK, NEW a \in Approval, Exists(a)
    PROVE  approval[a] \in [status : Status, action : {"ASSIGN", "REMOVE"}, target : Person,
                            requester : Person, version : Nat,
                            approvers : SUBSET Person, rejecters : SUBSET Person]
  BY DEF TypeOK, ApprovalState, Exists

\* The second half of decideGovernanceApproval keeps the invariant: one
\* approval is enough, so a request still open has no decisions.
LEMMA DecideInv ==
    ASSUME GovernanceInv, NEW c \in Caller, Decide(c)
    PROVE  GovernanceInv'
  <1> USE GovernanceAssumption DEF GovernanceInv
  <1> DEFINE k == call[c]
             r == approval[k.id]
             new == [r EXCEPT !.status = Verdict(k),
                              !.approvers = IF k.approved THEN @ \cup {k.actor} ELSE @,
                              !.rejecters = IF k.approved THEN @ ELSE @ \cup {k.actor}]
             decides == StillRequested(k.id) /\ k.actor \notin r.approvers \cup r.rejecters
  <1>1. /\ k \in CallRecord /\ k.pc = "decide"
        /\ k.id \in Approval /\ k.actor \in Person /\ k.approved \in BOOLEAN
        /\ Exists(k.id) /\ k.actor # r.requester
    BY DEF Decide, TypeOK, CallState, CallRecord, At, CallerKnows
  <1>2. Verdict(k) = IF k.approved THEN "APPROVED" ELSE "REJECTED"
    <2>1. k.seen \subseteq Person
      BY <1>1 DEF CallRecord
    <2>2. Cardinality(k.seen) \in Nat
      BY <2>1, FS_Subset, FS_CardinalityType
    <2> QED BY <2>2, <1>1 DEF Verdict, MinimumApprovals
  <1>3. /\ decides => approval' = [approval EXCEPT ![k.id] = new]
        /\ ~ decides => approval' = approval
        /\ call' = [call EXCEPT ![c] = None]
        /\ UNCHANGED <<owner, lock>>
    BY DEF Decide
  <1>4. r \in [status : Status, action : {"ASSIGN", "REMOVE"}, target : Person,
               requester : Person, version : Nat,
               approvers : SUBSET Person, rejecters : SUBSET Person]
    BY <1>1, RequestFields
  <1>5. /\ new \in ApprovalState
        /\ new.status = Verdict(k) /\ new.status \in {"APPROVED", "REJECTED"}
        /\ new.requester = r.requester /\ new.version = r.version /\ new.target = r.target
        /\ new.approvers = IF k.approved THEN r.approvers \cup {k.actor} ELSE r.approvers
        /\ new.rejecters = IF k.approved THEN r.rejecters ELSE r.rejecters \cup {k.actor}
    <2>1. /\ r.approvers \cup {k.actor} \in SUBSET Person
          /\ r.rejecters \cup {k.actor} \in SUBSET Person
      BY <1>1, <1>4
    <2> HIDE DEF r, k
    <2> QED BY <1>1, <1>2, <1>4, <2>1 DEF ApprovalState, Status
  <1>6. decides => r.status = "REQUESTED" /\ r.rejecters = {}
    BY <1>1 DEF StillRequested, DecisionsAgree
  <1> HIDE DEF decides, new
  <1>7. \A a \in Approval : approval'[a] = IF decides /\ a = k.id THEN new ELSE approval[a]
    BY <1>1, <1>3 DEF TypeOK
  <1>8. TypeOK'
    BY <1>1, <1>3, <1>5 DEF TypeOK, CallState, At
  <1>9. AnOwnerStays'
    BY <1>3 DEF AnOwnerStays, Owners
  <1>10. ExecutedOnce'
    BY CountUnchanged, <1>1, <1>3, <1>5, <1>6, <1>7 DEF Granted
  <1>11. DecisionsAgree'
    <2> SUFFICES ASSUME NEW a \in Approval, Exists(a)'
                 PROVE  /\ approval'[a].requester \notin approval'[a].approvers
                        /\ approval'[a].status \in {"APPROVED", "EXECUTED"}
                             => approval'[a].approvers # {} /\ approval'[a].rejecters = {}
                        /\ approval'[a].status = "REJECTED" <=> approval'[a].rejecters # {}
      BY DEF DecisionsAgree
    <2>1. CASE decides /\ a = k.id
      <3>1. r.requester \notin r.approvers
        BY <1>1 DEF DecisionsAgree
      <3> QED BY <1>1, <1>2, <1>5, <1>6, <1>7, <2>1, <3>1
    <2>2. CASE ~ (decides /\ a = k.id)
      BY <1>7, <2>2 DEF DecisionsAgree, Exists
    <2> QED BY <2>1, <2>2
  <1>12. ASSUME NEW d \in Caller PROVE CallerKnows(d)'
    <2> SUFFICES ASSUME call'[d] # None PROVE CallerKnows(d)'
      BY DEF CallerKnows
    <2>1. call'[d] = call[d] /\ call[d] # None /\ CallerKnows(d)
      BY <1>3 DEF TypeOK
    <2>2. call[d].id \in Approval
      BY <2>1 DEF TypeOK, CallState, CallRecord
    <2>3. CASE decides /\ call[d].id = k.id
      BY <1>5, <1>6, <1>7, <2>1, <2>2, <2>3 DEF CallerKnows, Exists
    <2>4. CASE ~ (decides /\ call[d].id = k.id)
      BY <1>3, <1>7, <2>1, <2>2, <2>4 DEF CallerKnows, Exists, OwnerWouldRemain, Owners
    <2> QED BY <2>3, <2>4
  <1> QED BY <1>8, <1>9, <1>10, <1>11, <1>12

\* Closing an approval that is open and not being executed, without executing
\* or rejecting it, keeps the invariant.
LEMMA CloseInv ==
    ASSUME GovernanceInv, NEW a \in Approval, NEW s \in {"CANCELLED", "EXPIRED"},
           approval[a].status \in {"REQUESTED", "APPROVED"},
           ~ \E c \in Caller : At(c, "write") /\ call[c].id = a,
           approval' = [approval EXCEPT ![a].status = s], UNCHANGED <<owner, call, lock>>
    PROVE  GovernanceInv'
  <1> USE GovernanceAssumption DEF GovernanceInv
  <1> DEFINE new == [approval[a] EXCEPT !.status = s]
  <1>1. approval[a] \in [status : Status, action : {"ASSIGN", "REMOVE"}, target : Person,
                         requester : Person, version : Nat,
                         approvers : SUBSET Person, rejecters : SUBSET Person]
    BY RequestFields DEF Exists
  <1>2. /\ new \in ApprovalState /\ new.status = s
        /\ new.requester = approval[a].requester /\ new.version = approval[a].version
        /\ new.target = approval[a].target
        /\ new.approvers = approval[a].approvers /\ new.rejecters = approval[a].rejecters
    BY <1>1 DEF ApprovalState, Status
  <1>3. \A b \in Approval : approval'[b] = IF b = a THEN new ELSE approval[b]
    BY DEF TypeOK
  <1> HIDE DEF new
  <1>4. TypeOK'
    BY <1>2, <1>3 DEF TypeOK, At
  <1>5. AnOwnerStays'
    BY DEF AnOwnerStays, Owners
  <1>6. ExecutedOnce'
    BY CountUnchanged, <1>2, <1>3 DEF Granted
  <1>7. DecisionsAgree'
    BY <1>2, <1>3 DEF DecisionsAgree, Exists
  <1>8. ASSUME NEW c \in Caller PROVE CallerKnows(c)'
    <2> SUFFICES ASSUME call[c] # None PROVE CallerKnows(c)'
      BY DEF CallerKnows
    <2>1. CallerKnows(c) /\ call[c].id \in Approval
      BY DEF TypeOK, CallState, CallRecord
    <2>2. CASE call[c].id = a
      BY <1>2, <1>3, <2>1, <2>2 DEF CallerKnows, Exists, At
    <2>3. CASE call[c].id # a
      BY <1>3, <2>1, <2>3 DEF CallerKnows, Exists, OwnerWouldRemain, Owners
    <2> QED BY <2>2, <2>3
  <1> QED BY <1>4, <1>5, <1>6, <1>7, <1>8

\* cancelGovernanceApproval keeps the invariant: what is executed is approved.
LEMMA CancelInv ==
    ASSUME GovernanceInv, NEW a \in Approval, Cancel(a)
    PROVE  GovernanceInv'
  <1>1. ~ \E c \in Caller : At(c, "write") /\ call[c].id = a
    BY DEF GovernanceInv, Cancel, CallerKnows, At
  <1> QED BY <1>1, CloseInv DEF Cancel

\* Expiry keeps the invariant.
LEMMA ExpireInv ==
    ASSUME GovernanceInv, NEW a \in Approval, Expire(a)
    PROVE  GovernanceInv'
  BY CloseInv DEF Expire

\* The first read of executePlatformOwnerChange keeps the invariant.
LEMMA StartExecutionInv ==
    ASSUME GovernanceInv, NEW c \in Caller, NEW a \in Approval, StartExecution(c, a)
    PROVE  GovernanceInv'
  <1> USE GovernanceAssumption DEF GovernanceInv, StartExecution
  <1>0. owner[approval[a].target].version \in Nat
    BY RequestFields DEF TypeOK, Assignment
  <1>1. TypeOK'
    BY <1>0 DEF TypeOK, CallState, CallRecord, At
  <1>2. AnOwnerStays'
    BY DEF AnOwnerStays, Owners
  <1>3. ExecutedOnce'
    BY CountUnchanged DEF Granted
  <1>4. DecisionsAgree'
    BY DEF DecisionsAgree, Exists
  <1>5. ASSUME NEW d \in Caller PROVE CallerKnows(d)'
    BY DEF TypeOK, CallerKnows, Exists, OwnerWouldRemain, Owners
  <1> QED BY <1>1, <1>2, <1>3, <1>4, <1>5

\* The checks of executeGovernanceApproval keep the invariant; from here on the
\* version sent along is the approval's.
LEMMA ReadToExecuteInv ==
    ASSUME GovernanceInv, NEW c \in Caller, ReadToExecute(c)
    PROVE  GovernanceInv'
  <1> USE GovernanceAssumption DEF GovernanceInv, ReadToExecute
  <1>1. TypeOK'
    BY DEF TypeOK, CallState, CallRecord, At
  <1>2. AnOwnerStays'
    BY DEF AnOwnerStays, Owners
  <1>3. ExecutedOnce'
    BY CountUnchanged DEF Granted
  <1>4. DecisionsAgree'
    BY DEF DecisionsAgree, Exists
  <1>5. ASSUME NEW d \in Caller PROVE CallerKnows(d)'
    <2>1. CallerKnows(d)
      OBVIOUS
    <2>2. CASE call'[d] = call[d]
      BY <2>1, <2>2 DEF CallerKnows, Exists, OwnerWouldRemain, Owners
    <2>3. CASE call'[d] = None
      BY <2>3 DEF CallerKnows
    <2>4. CASE d = c /\ call' = [call EXCEPT ![c].pc = "lock"] /\ call'[d] # None
      <3>1. /\ call[c] \in [pc : {"read", "lock", "write"}, id : Approval, version : Nat]
            /\ call[c] # None
        BY DEF TypeOK, CallState, CallRecord, At
      <3>2. /\ call'[c].pc = "lock" /\ call'[c].id = call[c].id
            /\ call'[c].version = call[c].version
        BY <2>4, <3>1 DEF TypeOK
      <3>3. call[c].version = approval[call[c].id].version
        <4>1. call' # [call EXCEPT ![c] = None]
          BY <2>4 DEF TypeOK
        <4> QED BY <4>1
      <3> QED BY <2>1, <2>4, <3>1, <3>2, <3>3 DEF CallerKnows, Exists
    <2> QED BY <2>2, <2>3, <2>4 DEF TypeOK
  <1> QED BY <1>1, <1>2, <1>3, <1>4, <1>5

\* The claim and the executor's reads keep the invariant: only one caller holds
\* the advisory lock.
LEMMA ClaimAndLockInv ==
    ASSUME GovernanceInv, NEW c \in Caller, ClaimAndLock(c)
    PROVE  GovernanceInv'
  <1> USE GovernanceAssumption DEF GovernanceInv, ClaimAndLock, Lock
  <1>1. TypeOK'
    BY DEF TypeOK, CallState, CallRecord, At
  <1>2. AnOwnerStays'
    BY DEF AnOwnerStays, Owners
  <1>3. ExecutedOnce'
    BY CountUnchanged DEF Granted
  <1>4. DecisionsAgree'
    BY DEF DecisionsAgree, Exists
  <1>5. ASSUME NEW d \in Caller PROVE CallerKnows(d)'
    <2>1. /\ call[c] \in [pc : {"read", "lock", "write"}, id : Approval, version : Nat]
          /\ call[c] # None
      BY DEF TypeOK, CallState, CallRecord, At
    <2>2. CASE call'[d] = call[d]
      BY <2>2 DEF CallerKnows, Exists, OwnerWouldRemain, Owners
    <2>3. CASE call'[d] = None
      BY <2>3 DEF CallerKnows
    <2>4. CASE d = c /\ call' = [call EXCEPT ![c].pc = "write"] /\ call'[d] # None
      <3>1. /\ call'[c].pc = "write" /\ call'[c].id = call[c].id
            /\ call'[c].version = call[c].version
        BY <2>1, <2>4 DEF TypeOK
      <3>2. Claimable(call[c].id) /\ SameVersion(call[c]) /\ OwnerWouldRemain(approval[call[c].id])
        BY <2>4 DEF TypeOK
      <3>3. CallerKnows(c) /\ call[c].pc = "lock"
        BY DEF At
      <3>4. OwnerWouldRemain(approval[call[c].id])'
        BY <2>1, <2>4, <3>1, <3>2 DEF OwnerWouldRemain, Owners
      <3> QED BY <2>1, <2>4, <3>1, <3>2, <3>3, <3>4 DEF CallerKnows, Exists, Claimable, SameVersion
    <2> QED BY <2>2, <2>3, <2>4 DEF TypeOK
  <1> QED BY <1>1, <1>2, <1>3, <1>4, <1>5

\* A failing handler keeps the invariant.
LEMMA AbortInv ==
    ASSUME GovernanceInv, NEW c \in Caller, Abort(c)
    PROVE  GovernanceInv'
  <1> USE GovernanceAssumption DEF GovernanceInv, Abort
  <1>1. TypeOK'
    BY DEF TypeOK, CallState, At
  <1>2. AnOwnerStays'
    BY DEF AnOwnerStays, Owners
  <1>3. ExecutedOnce'
    BY CountUnchanged DEF Granted
  <1>4. DecisionsAgree'
    BY DEF DecisionsAgree, Exists
  <1>5. ASSUME NEW d \in Caller PROVE CallerKnows(d)'
    BY DEF TypeOK, CallerKnows, Exists, OwnerWouldRemain, Owners
  <1> QED BY <1>1, <1>2, <1>3, <1>4, <1>5

\* Of more than one owner, one is left without any given person.
LEMMA AnotherOwner ==
    ASSUME Cardinality(Owners) > 1, NEW t
    PROVE  Owners \ {t} # {}
  <1> SUFFICES ASSUME Owners \ {t} = {} PROVE FALSE
    OBVIOUS
  <1>1. Owners \subseteq {t} /\ IsFiniteSet({t}) /\ Cardinality({t}) = 1
    BY FS_Singleton
  <1>2. Cardinality(Owners) <= 1
    BY <1>1, FS_Subset
  <1>3. Cardinality(Owners) \in Nat
    BY OwnersFinite, FS_CardinalityType
  <1> QED BY <1>2, <1>3

\* The executor's write keeps the invariant: it changes one assignment and adds
\* one to its version and to the count of its executed approvals.
LEMMA ExecuteInv ==
    ASSUME GovernanceInv, NEW c \in Caller, Execute(c)
    PROVE  GovernanceInv'
  <1> USE GovernanceAssumption DEF GovernanceInv
  <1> DEFINE k == call[c]
             r == approval[k.id]
             t == r.target
             new == [r EXCEPT !.status = "EXECUTED"]
             assigned == [active |-> r.action = "ASSIGN", version |-> owner[t].version + 1]
  <1>1. /\ k # None /\ k.pc = "write" /\ k.id \in Approval /\ Exists(k.id)
        /\ r.status = "APPROVED" /\ OwnerWouldRemain(r) /\ lock = c
    BY DEF Execute, TypeOK, CallState, CallRecord, At, CallerKnows
  <1>2. r \in [status : Status, action : {"ASSIGN", "REMOVE"}, target : Person,
               requester : Person, version : Nat,
               approvers : SUBSET Person, rejecters : SUBSET Person]
    BY <1>1, RequestFields
  <1>3. /\ owner' = [owner EXCEPT ![t] = assigned]
        /\ approval' = [approval EXCEPT ![k.id] = new]
        /\ call' = [call EXCEPT ![c] = None]
        /\ lock' = None
    BY DEF Execute
  <1>4. /\ new \in ApprovalState /\ new.status = "EXECUTED"
        /\ new.requester = r.requester /\ new.version = r.version /\ new.target = t
        /\ new.approvers = r.approvers /\ new.rejecters = r.rejecters
    BY <1>2 DEF ApprovalState, Status
  <1>5. t \in Person /\ owner[t].version \in Nat /\ assigned \in Assignment
    BY <1>2 DEF TypeOK, Assignment
  <1>6. /\ assigned.version = owner[t].version + 1
        /\ assigned.active <=> r.action = "ASSIGN"
    OBVIOUS
  <1> HIDE DEF new, assigned
  <1>7. \A a \in Approval : approval'[a] = IF a = k.id THEN new ELSE approval[a]
    BY <1>1, <1>3 DEF TypeOK
  <1>8. \A p \in Person : owner'[p] = IF p = t THEN assigned ELSE owner[p]
    BY <1>3, <1>5 DEF TypeOK
  <1>9. TypeOK'
    BY <1>1, <1>3, <1>4, <1>5 DEF TypeOK, CallState, At
  <1>10. AnOwnerStays'
    <2>1. CASE r.action = "ASSIGN"
      BY <1>5, <1>6, <1>8, <2>1 DEF AnOwnerStays, Owners
    <2>2. CASE r.action # "ASSIGN"
      <3>1. Owners \ {t} # {}
        BY <1>1, <1>2, <2>2, AnotherOwner DEF OwnerWouldRemain
      <3> QED BY <1>8, <3>1 DEF AnOwnerStays, Owners
    <2> QED BY <2>1, <2>2
  <1>11. ExecutedOnce'
    <2> SUFFICES ASSUME NEW p \in Person
                 PROVE  owner'[p].version = (IF p \in FirstOwner THEN 1 ELSE 0)
                                            + Cardinality(GrantedFor(p)')
      BY DEF ExecutedOnce, GrantedFor
    <2>1. /\ owner[p].version = (IF p \in FirstOwner THEN 1 ELSE 0) + Cardinality(GrantedFor(p))
          /\ IsFiniteSet(GrantedFor(p))
      <3>1. GrantedFor(p) \subseteq Approval
        BY DEF GrantedFor
      <3> QED BY <3>1, FS_Subset DEF ExecutedOnce, GrantedFor
    <2>2. Cardinality(GrantedFor(p)) \in Nat
      BY <2>1, FS_CardinalityType
    <2>3. CASE p = t
      <3>1. GrantedFor(p)' = GrantedFor(p) \cup {k.id} /\ k.id \notin GrantedFor(p)
        BY <1>1, <1>4, <1>7, <2>3 DEF GrantedFor, Granted
      <3>2. Cardinality(GrantedFor(p)') = Cardinality(GrantedFor(p)) + 1
        BY <2>1, <3>1, FS_AddElement
      <3> QED BY <1>5, <1>6, <1>8, <2>1, <2>2, <2>3, <3>2
    <2>4. CASE p # t
      <3>1. GrantedFor(p)' = GrantedFor(p)
        BY <1>1, <1>4, <1>7, <2>4 DEF GrantedFor, Granted
      <3> QED BY <1>8, <2>1, <2>4, <3>1
    <2> QED BY <2>3, <2>4
  <1>12. DecisionsAgree'
    BY <1>1, <1>4, <1>7 DEF DecisionsAgree, Exists
  <1>13. ASSUME NEW d \in Caller PROVE CallerKnows(d)'
    <2> SUFFICES ASSUME call'[d] # None PROVE CallerKnows(d)'
      BY DEF CallerKnows
    <2>1. /\ call'[d] = call[d] /\ call[d] # None /\ CallerKnows(d)
          /\ call[d].id \in Approval /\ call[d].pc # "write"
      BY <1>1, <1>3 DEF TypeOK, CallState, CallRecord, At
    <2> QED BY <1>1, <1>4, <1>7, <2>1 DEF CallerKnows, Exists
  <1> QED BY <1>9, <1>10, <1>11, <1>12, <1>13

-----------------------------------------------------------------------------
\* Every step keeps the invariant.
LEMMA NextInv == GovernanceInv /\ [Next]_vars => GovernanceInv'
  <1> SUFFICES ASSUME GovernanceInv, [Next]_vars PROVE GovernanceInv'
    OBVIOUS
  <1>1. CASE UNCHANGED vars
    <2> USE <1>1 DEF GovernanceInv, vars
    <2>1. ExecutedOnce'
      BY CountUnchanged DEF Granted
    <2>2. ASSUME NEW c \in Caller PROVE CallerKnows(c)'
      BY DEF CallerKnows, Exists, OwnerWouldRemain, Owners
    <2> QED BY <2>1, <2>2 DEF TypeOK, AnOwnerStays, DecisionsAgree, Owners, Exists, At
  <1>2. ASSUME NEW a \in Approval, ApprovalNext(a) PROVE GovernanceInv'
    BY <1>2, RequestInv, CancelInv, ExpireInv DEF ApprovalNext
  <1>3. ASSUME NEW c \in Caller, CallerNext(c) PROVE GovernanceInv'
    BY <1>3, ReadToDecideInv, DecideInv, StartExecutionInv, ReadToExecuteInv, ClaimAndLockInv,
       ExecuteInv, AbortInv
    DEF CallerNext
  <1> QED BY <1>1, <1>2, <1>3 DEF Next

\* The invariant holds in every reachable state.
LEMMA GovernanceInvariance == Spec => []GovernanceInv
  <1> QED BY GovernanceInitInv, NextInv, PTL DEF Spec

\* Approvals, assignments and callers always have the values the code gives
\* them, and the advisory lock is held exactly between reading and writing.
THEOREM GovernanceIsTyped == Spec => []TypeOK
  <1>1. GovernanceInv => TypeOK
    BY DEF GovernanceInv
  <1> QED BY <1>1, GovernanceInvariance, PTL

\* However many approved removals are executed at once, a platform owner stays.
THEOREM OwnerStays == Spec => []AnOwnerStays
  <1>1. GovernanceInv => AnOwnerStays
    BY DEF GovernanceInv
  <1> QED BY <1>1, GovernanceInvariance, PTL

\* executeGovernanceApproval: an assignment has changed exactly as often as
\* approvals of it were executed.
THEOREM Once == Spec => []ExecutedOnce
  <1>1. GovernanceInv => ExecutedOnce
    BY DEF GovernanceInv
  <1> QED BY <1>1, GovernanceInvariance, PTL

\* decideGovernanceApproval: the status is what the decisions of persons other
\* than the requester say.
THEOREM StatusAgrees == Spec => []DecisionsAgree
  <1>1. GovernanceInv => DecisionsAgree
    BY DEF GovernanceInv
  <1> QED BY <1>1, GovernanceInvariance, PTL

\* A final status is never left: every update of a status asks for the status
\* it is to leave, and the row of a claimed approval is locked.
THEOREM FinalNeverLeft == Spec => FinalStays
  <1>1. ASSUME GovernanceInv, [Next]_vars
        PROVE  \A a \in Approval :
                   approval[a].status \in Final => approval'[a].status = approval[a].status
    <2>1. CASE UNCHANGED vars
      BY <2>1 DEF vars
    <2>2. ASSUME NEW a \in Approval, ApprovalNext(a) PROVE \A b \in Approval :
              approval[b].status \in Final => approval'[b].status = approval[b].status
      BY <1>1, <2>2 DEF GovernanceInv, TypeOK, ApprovalNext, RequestApproval, Cancel, Expire, Exists, Final
    <2>3. ASSUME NEW c \in Caller, CallerNext(c) PROVE \A b \in Approval :
              approval[b].status \in Final => approval'[b].status = approval[b].status
      <3>1. CASE Decide(c)
        BY <1>1, <3>1 DEF GovernanceInv, TypeOK, Decide, StillRequested, Final
      <3>2. CASE Execute(c)
        BY <1>1, <3>2 DEF GovernanceInv, TypeOK, CallerKnows, Execute, At, Final
      <3>3. CASE UNCHANGED approval
        BY <3>3
      <3> QED BY <2>3, <3>1, <3>2, <3>3
          DEF CallerNext, ReadToDecide, StartExecution, ReadToExecute, ClaimAndLock, Lock, Abort
    <2> QED BY <1>1, <2>1, <2>2, <2>3 DEF Next
  <1> QED BY <1>1, GovernanceInvariance, PTL DEF Spec, FinalStays

\* executePlatformOwnerChange executes an approval only on the version of the
\* assignment it was given for.
THEOREM ApprovedVersion == Spec => ExecutesWhatWasApproved
  <1>1. ASSUME GovernanceInv, [Next]_vars
        PROVE  \A a \in Approval :
                   ~ Granted(a) /\ Granted(a)' => owner[approval[a].target].version = approval[a].version
    <2> SUFFICES ASSUME NEW a \in Approval, ~ Granted(a), Granted(a)'
                 PROVE  owner[approval[a].target].version = approval[a].version
      OBVIOUS
    <2>1. approval' # approval
      BY DEF Granted
    <2>2. ~ \E b \in Approval : ApprovalNext(b)
      <3> SUFFICES ASSUME NEW b \in Approval, ApprovalNext(b) PROVE FALSE
        OBVIOUS
      <3>1. approval[b] \in ApprovalState
        BY <1>1 DEF GovernanceInv, TypeOK
      <3>2. approval'[b].status \in {"REQUESTED", "CANCELLED", "EXPIRED"}
        BY <1>1, <3>1
        DEF GovernanceInv, TypeOK, ApprovalState, ApprovalNext, RequestApproval, Cancel, Expire
      <3>3. a # b => approval'[a] = approval[a]
        BY <1>1 DEF GovernanceInv, TypeOK, ApprovalNext, RequestApproval, Cancel, Expire
      <3> QED BY <3>2, <3>3 DEF Granted
    <2>3. PICK c \in Caller : Decide(c) \/ Execute(c)
      BY <1>1, <2>1, <2>2
      DEF Next, vars, CallerNext, ReadToDecide, StartExecution, ReadToExecute, ClaimAndLock, Lock, Abort
    <2>4. ~ Decide(c)
      <3> SUFFICES ASSUME Decide(c) PROVE FALSE
        OBVIOUS
      <3>1. call[c] \in CallRecord /\ call[c].id \in Approval
        BY <1>1 DEF GovernanceInv, TypeOK, CallState, CallRecord, Decide, At
      <3>2. approval[call[c].id] \in ApprovalState
        BY <1>1, <3>1 DEF GovernanceInv, TypeOK
      <3>3. a # call[c].id => approval'[a] = approval[a]
        BY <1>1, <2>1 DEF GovernanceInv, TypeOK, Decide
      <3>4. approval'[call[c].id].status = Verdict(call[c])
        <4>1. approval[call[c].id].status = "REQUESTED"
          BY <2>1 DEF Decide, StillRequested
        <4>2. approval[call[c].id] \in [status : Status, action : {"ASSIGN", "REMOVE"},
                 target : Person, requester : Person, version : Nat,
                 approvers : SUBSET Person, rejecters : SUBSET Person]
          BY <3>2, <4>1 DEF ApprovalState
        <4> DEFINE k == call[c]
                   r == approval[k.id]
                   new == [r EXCEPT !.status = Verdict(k),
                                    !.approvers = IF k.approved THEN @ \cup {k.actor} ELSE @,
                                    !.rejecters = IF k.approved THEN @ ELSE @ \cup {k.actor}]
        <4>3. approval' = [approval EXCEPT ![k.id] = new]
          BY <2>1 DEF Decide
        <4>4. new.status = Verdict(k)
          BY <4>2
        <4> HIDE DEF new
        <4> QED BY <1>1, <3>1, <4>3, <4>4 DEF GovernanceInv, TypeOK
      <3> QED BY <3>3, <3>4 DEF Granted, Verdict
    <2>5. Execute(c) /\ a = call[c].id
      BY <1>1, <2>3, <2>4 DEF GovernanceInv, TypeOK, Granted, Execute
    <2> QED BY <1>1, <2>5 DEF GovernanceInv, CallerKnows, Execute, At
  <1> QED BY <1>1, GovernanceInvariance, PTL DEF Spec, ExecutesWhatWasApproved

-----------------------------------------------------------------------------
(* Support access. *)

\* What is certain of the support session a handler goes by: it is for the
\* company of the request the handler has read, and once the roles have been
\* read it covers actions.
DeskKnows(d) ==
    LET h == desk[d]
    IN  DeskAt(d, "authorize") \/ DeskAt(d, "execute") =>
            /\ support[h.support] # Absent
            /\ support[h.support].company = h.company
            /\ DeskAt(d, "execute") => "support.action.execute" \in support[h.support].scopes

PlatformInv == PlatformTypeOK /\ \A d \in Desk : DeskKnows(d)

\* The initial state satisfies the invariant.
LEMMA InitPlatformInv == PlatformInit => PlatformInv
  <1> USE PlatformAssumption
  <1>1. PlatformInit => PlatformTypeOK
    BY DEF PlatformInit, PlatformTypeOK, TicketState
  <1>2. PlatformInit => \A d \in Desk : DeskKnows(d)
    BY DEF PlatformInit, DeskKnows, DeskAt
  <1> QED BY <1>1, <1>2 DEF PlatformInv

\* A step that leaves the handlers alone, and the company and the scopes of
\* every support session, leaves what they know.
LEMMA DeskKnowsStays ==
    ASSUME \A d \in Desk : DeskKnows(d), desk' = desk, PlatformTypeOK,
           \A s \in Support : support[s] # Absent =>
               /\ support'[s] # Absent
               /\ support'[s].company = support[s].company
               /\ support'[s].scopes = support[s].scopes
    PROVE  \A d \in Desk : DeskKnows(d)'
  <1> SUFFICES ASSUME NEW d \in Desk, DeskAt(d, "authorize") \/ DeskAt(d, "execute")
               PROVE  DeskKnows(d)'
    BY DEF DeskKnows, DeskAt
  <1>1. desk[d].support \in Support
    BY DEF PlatformTypeOK, DeskAt, DeskRecord
  <1> QED BY <1>1 DEF DeskKnows, DeskAt

\* The end of a support session, by a person or by the clock, leaves its company
\* and its scopes.
LEMMA SupportEndsKeeps ==
    ASSUME PlatformInv, NEW s \in Support, EndOf(s) \/ SupportExpires(s)
    PROVE  PlatformInv'
  <1> DEFINE r == support[s]
  <1> USE PlatformAssumption DEF PlatformInv
  <1>1. PICK new \in SupportRecord :
          /\ new.company = r.company /\ new.scopes = r.scopes
          /\ support' = [support EXCEPT ![s] = new]
    <2>1. r \in SupportRecord
      BY DEF EndOf, SupportExpires, PlatformTypeOK
    <2>2. [r EXCEPT !.ended = TRUE] \in SupportRecord /\ [r EXCEPT !.expired = TRUE] \in SupportRecord
      BY <2>1 DEF SupportRecord
    <2>3. CASE EndOf(s)
      <3>1. support' = [support EXCEPT ![s] = [r EXCEPT !.ended = TRUE]]
        BY <2>3 DEF EndOf
      <3> QED BY <2>1, <2>2, <3>1 DEF SupportRecord
    <2>4. CASE SupportExpires(s)
      <3>1. support' = [support EXCEPT ![s] = [r EXCEPT !.expired = TRUE]]
        BY <2>4 DEF SupportExpires
      <3> QED BY <2>1, <2>2, <3>1 DEF SupportRecord
    <2> QED BY <2>3, <2>4
  <1>2. UNCHANGED <<roles, signedIn, ledger, consent, ticket, desk>>
    BY DEF EndOf, SupportExpires
  <1>3. PlatformTypeOK'
    BY <1>1, <1>2 DEF PlatformTypeOK
  <1>4. \A t \in Support : support[t] # Absent =>
            /\ support'[t] # Absent
            /\ support'[t].company = support[t].company /\ support'[t].scopes = support[t].scopes
    BY <1>1 DEF PlatformTypeOK
  <1>5. \A d \in Desk : DeskKnows(d)'
    BY <1>2, <1>4, DeskKnowsStays
  <1> QED BY <1>3, <1>5

\* What persons do keeps the invariant.
LEMMA StaffKeeps ==
    ASSUME PlatformInv, NEW p \in Staff, StaffNext(p)
    PROVE  PlatformInv'
  <1> USE PlatformAssumption DEF PlatformInv
  <1>1. CASE SignIn(p) \/ SignInAges(p) \/ Bootstrap(p)
    <2>1. PlatformTypeOK'
      BY <1>1 DEF SignIn, SignInAges, Bootstrap, PlatformTypeOK, SystemRole
    <2>2. \A d \in Desk : DeskKnows(d)'
      BY <1>1 DEF SignIn, SignInAges, Bootstrap, DeskKnows, DeskAt
    <2> QED BY <2>1, <2>2
  <1>2. ASSUME NEW q \in Staff, NEW r \in Grant, NEW active \in BOOLEAN, ChangeRole(p, q, r, active)
        PROVE  PlatformInv'
    <2>1. PlatformTypeOK'
      BY <1>2 DEF ChangeRole, PlatformTypeOK, AssignableRole
    <2>2. \A d \in Desk : DeskKnows(d)'
      BY <1>2 DEF ChangeRole, DeskKnows, DeskAt
    <2> QED BY <2>1, <2>2
  <1>3. ASSUME NEW s \in Support, NEW c \in Company, NEW scopes \in Scopes,
               StartSupport(p, s, c, scopes)
        PROVE  PlatformInv'
    <2> DEFINE new == [actor |-> p, company |-> c, scopes |-> scopes, ended |-> FALSE,
                       expired |-> FALSE]
    <2>0. scopes \in (SUBSET SupportScope) \ {{}}
      <3>1. scopes # {}
        BY <1>3 DEF StartSupport
      <3>2. scopes \in SUBSET SupportScope
        BY <1>3
      <3> QED BY <3>1, <3>2
    <2>1. new \in SupportRecord
      BY <2>0 DEF SupportRecord
    <2>2. support' = [support EXCEPT ![s] = new]
      BY <1>3 DEF StartSupport
    <2> HIDE DEF new
    <2>3. PlatformTypeOK'
      BY <1>3, <2>1, <2>2 DEF StartSupport, PlatformTypeOK
    <2>4. \A d \in Desk : DeskKnows(d)'
      BY <1>3, <2>2, DeskKnowsStays DEF StartSupport, PlatformTypeOK
    <2> QED BY <2>3, <2>4
  <1>4. ASSUME NEW s \in Support, TerminateSupport(p, s) PROVE PlatformInv'
    <2>1. EndOf(s)
      BY <1>4 DEF TerminateSupport
    <2> QED BY <2>1, SupportEndsKeeps
  <1>5. ASSUME NEW k \in Consent, NEW s \in Support, NEW to \in Step, NEW v \in 1..LastVersion,
               RequestConsent(p, k, s, to, v)
        PROVE  PlatformInv'
    <2>1. support[s].company \in Company
      BY <1>5 DEF RequestConsent, PlatformTypeOK, SupportRecord
    <2> DEFINE new == [status |-> "REQUESTED", requester |-> p, approver |-> Absent, support |-> s,
                       company |-> support[s].company, version |-> v, to |-> to]
    <2>2. new \in ConsentRecord
      BY <2>1 DEF ConsentRecord
    <2>3. consent' = [consent EXCEPT ![k] = new]
      BY <1>5 DEF RequestConsent
    <2> HIDE DEF new
    <2>4. PlatformTypeOK'
      BY <1>5, <2>2, <2>3 DEF RequestConsent, PlatformTypeOK
    <2>5. \A d \in Desk : DeskKnows(d)'
      BY <1>5 DEF RequestConsent, DeskKnows, DeskAt
    <2> QED BY <2>4, <2>5
  <1>6. ASSUME NEW k \in Consent, GrantConsent(p, k) PROVE PlatformInv'
    <2>0. consent[k] \in ConsentRecord
      BY <1>6 DEF GrantConsent, PlatformTypeOK
    <2>1. [consent[k] EXCEPT !.status = "APPROVED", !.approver = p] \in ConsentRecord
      BY <2>0 DEF ConsentRecord
    <2>2. consent' = [consent EXCEPT ![k] = [consent[k] EXCEPT !.status = "APPROVED", !.approver = p]]
      BY <1>6, <2>0 DEF GrantConsent, PlatformTypeOK, ConsentRecord
    <2>3. PlatformTypeOK'
      BY <1>6, <2>1, <2>2 DEF GrantConsent, PlatformTypeOK
    <2>4. \A d \in Desk : DeskKnows(d)'
      BY <1>6 DEF GrantConsent, DeskKnows, DeskAt
    <2> QED BY <2>3, <2>4
  <1> QED BY <1>1, <1>2, <1>3, <1>4, <1>5, <1>6 DEF StaffNext

\* What a handler that changes a request's status does keeps the invariant.
LEMMA DeskKeeps ==
    ASSUME PlatformInv, NEW d \in Desk, DeskNext(d)
    PROVE  PlatformInv'
  <1> USE PlatformAssumption DEF PlatformInv
  <1>1. ASSUME NEW c \in Company, ReadTicket(d, c) PROVE PlatformInv'
    <2>1. PlatformTypeOK'
      BY <1>1 DEF ReadTicket, PlatformTypeOK, TicketState, DeskRecord
    <2>2. \A e \in Desk : DeskKnows(e)'
      BY <1>1 DEF ReadTicket, DeskKnows, DeskAt, PlatformTypeOK
    <2> QED BY <2>1, <2>2
  <1>2. ASSUME NEW p \in Staff, NEW s \in Support, NEW k \in Consent, NEW to \in Step,
               LoadSupport(d, p, s, k, to)
        PROVE  PlatformInv'
    <2>1. desk[d].company \in Company /\ desk[d].version \in 1..LastVersion
      BY <1>2 DEF LoadSupport, DeskAt, PlatformTypeOK, DeskRecord
    <2>2. PlatformTypeOK'
      BY <1>2, <2>1 DEF LoadSupport, PlatformTypeOK, DeskRecord
    <2>3. \A e \in Desk : DeskKnows(e)'
      BY <1>2 DEF LoadSupport, Serves, DeskKnows, DeskAt, PlatformTypeOK
    <2> QED BY <2>2, <2>3
  <1>3. CASE Authorize(d)
    <2>1. PlatformTypeOK'
      BY <1>3 DEF Authorize, Leave, DeskAt, PlatformTypeOK, DeskRecord
    <2>2. \A e \in Desk : DeskKnows(e)'
      BY <1>3 DEF Authorize, PermittedInSupport, Leave, DeskKnows, DeskAt, PlatformTypeOK,
                  DeskRecord
    <2> QED BY <2>1, <2>2
  <1>4. CASE ExecuteSupport(d)
    <2> DEFINE h == desk[d]
    <2>1. /\ h.company \in Company /\ h.support \in Support /\ h.consent \in Consent
          /\ h.to \in Step
      BY <1>4 DEF ExecuteSupport, DeskAt, PlatformTypeOK, DeskRecord
    <2>2. ticket' \in [Company -> TicketState] /\ consent' \in [Consent -> ConsentRecord \cup {Absent}]
      BY <1>4, <2>1 DEF ExecuteSupport, Executable, PlatformTypeOK, TicketState, ConsentRecord
    <2>3. PlatformTypeOK'
      BY <1>4, <2>2 DEF ExecuteSupport, Leave, PlatformTypeOK
    <2>4. \A e \in Desk : DeskKnows(e)'
      BY <1>4 DEF ExecuteSupport, Leave, DeskKnows, DeskAt, PlatformTypeOK
    <2> QED BY <2>3, <2>4
  <1>5. CASE DeskFails(d)
    <2>1. PlatformTypeOK'
      BY <1>5 DEF DeskFails, Leave, PlatformTypeOK
    <2>2. \A e \in Desk : DeskKnows(e)'
      BY <1>5 DEF DeskFails, Leave, DeskKnows, DeskAt, PlatformTypeOK
    <2> QED BY <2>1, <2>2
  <1> QED BY <1>1, <1>2, <1>3, <1>4, <1>5 DEF DeskNext

\* Every step keeps the invariant.
LEMMA PlatformInvKept == PlatformInv /\ [PlatformNext]_platformVars => PlatformInv'
  <1> SUFFICES ASSUME PlatformInv, [PlatformNext]_platformVars PROVE PlatformInv'
    OBVIOUS
  <1> USE PlatformAssumption
  <1>1. ASSUME NEW p \in Staff, StaffNext(p) PROVE PlatformInv'
    BY <1>1, StaffKeeps
  <1>2. ASSUME NEW s \in Support, EndSupport(s) \/ SupportExpires(s) PROVE PlatformInv'
    <2>1. EndOf(s) \/ SupportExpires(s)
      BY <1>2 DEF EndSupport
    <2> QED BY <2>1, SupportEndsKeeps
  <1>3. ASSUME NEW k \in Consent, CloseConsent(k) PROVE PlatformInv'
    <2>1. PlatformTypeOK'
      BY <1>3 DEF PlatformInv, CloseConsent, PlatformTypeOK, ConsentRecord
    <2>2. \A d \in Desk : DeskKnows(d)'
      BY <1>3 DEF PlatformInv, CloseConsent, DeskKnows, DeskAt
    <2> QED BY <2>1, <2>2 DEF PlatformInv
  <1>4. ASSUME NEW d \in Desk, DeskNext(d) PROVE PlatformInv'
    BY <1>4, DeskKeeps
  <1>5. ASSUME NEW c \in Company, TicketMoves(c) PROVE PlatformInv'
    <2>1. PlatformTypeOK'
      BY <1>5 DEF PlatformInv, TicketMoves, PlatformTypeOK, TicketState
    <2>2. \A d \in Desk : DeskKnows(d)'
      BY <1>5 DEF PlatformInv, TicketMoves, DeskKnows, DeskAt
    <2> QED BY <2>1, <2>2 DEF PlatformInv
  <1>6. CASE UNCHANGED platformVars
    BY <1>6 DEF platformVars, PlatformInv, PlatformTypeOK, DeskKnows, DeskAt
  <1> QED BY <1>1, <1>2, <1>3, <1>4, <1>5, <1>6 DEF PlatformNext

\* The state of roles, support sessions, approvals and requests keeps its shape.
THEOREM PlatformIsTyped == PlatformSpec => []PlatformTypeOK
  <1>1. PlatformInv => PlatformTypeOK
    BY DEF PlatformInv
  <1> QED BY <1>1, InitPlatformInv, PlatformInvKept, PTL DEF PlatformSpec

\* Support changes a company's request only as somebody else has approved it:
\* the handler's fenced transaction, together with what it knows of the support
\* session it has read before (PATCH /api/admin/requests/[id]/status).
THEOREM SupportIsApproved == PlatformSpec => SupportActsAsApproved
  <1> DEFINE Acts == \A d \in Desk :
                        DeskAt(d, "execute") /\ ticket' # ticket /\ desk'[d] # desk[d] => ActsAsApproved(d)
  <1>1. ASSUME PlatformInv, [PlatformNext]_platformVars PROVE [Acts]_platformVars
    <2> SUFFICES ASSUME PlatformNext,
                        NEW d \in Desk, DeskAt(d, "execute"), ticket' # ticket, desk'[d] # desk[d]
                 PROVE  ActsAsApproved(d)
      BY <1>1
    <2> USE <1>1 DEF PlatformInv
    <2>1. PICK e \in Desk : ExecuteSupport(e)
      BY DEF PlatformNext, StaffNext, DeskNext, SignIn, SignInAges, Bootstrap, ChangeRole,
             StartSupport, TerminateSupport, EndSupport, EndOf, SupportExpires, RequestConsent,
             GrantConsent, CloseConsent, ReadTicket, LoadSupport, Authorize, DeskFails,
             TicketMoves
    <2>2. e = d
      BY <2>1 DEF ExecuteSupport, Leave, PlatformTypeOK
    <2> DEFINE h == desk[d]
               k == consent[h.consent]
    <2>3. /\ Executable(k, h) /\ SameTarget(k, h) /\ VersionStands(h)
          /\ ticket' = [ticket EXCEPT ![h.company] = [version |-> @.version + 1, status |-> h.to]]
          /\ consent' = [consent EXCEPT ![h.consent].status = "EXECUTED"]
      BY <2>1, <2>2 DEF ExecuteSupport
    <2>4. h.company \in Company /\ h.support \in Support /\ h.consent \in Consent
      BY DEF PlatformTypeOK, DeskAt, DeskRecord
    <2>5. /\ support[h.support] # Absent /\ support[h.support].company = h.company
          /\ "support.action.execute" \in support[h.support].scopes
      BY DEF DeskKnows
    <2>6. k \in ConsentRecord
      <3>1. k # Absent
        BY <2>3 DEF Executable
      <3> QED BY <2>4, <3>1 DEF PlatformTypeOK
    <2>7. consent'[h.consent].status = "EXECUTED"
      <3>1. consent'[h.consent] = [k EXCEPT !.status = "EXECUTED"]
        BY <2>3, <2>4 DEF PlatformTypeOK
      <3> QED BY <2>6, <3>1 DEF ConsentRecord
    <2>8. ticket'[h.company].status = h.to
      BY <2>3, <2>4 DEF PlatformTypeOK, TicketState
    <2> QED BY <2>3, <2>5, <2>7, <2>8 DEF ActsAsApproved, Executable, SameTarget, VersionStands
  <1> QED BY <1>1, InitPlatformInv, PlatformInvKept, PTL DEF PlatformSpec, SupportActsAsApproved
=============================================================================
