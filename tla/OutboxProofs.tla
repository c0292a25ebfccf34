---------------------------- MODULE OutboxProofs ----------------------------
(*****************************************************************************)
(* The safety properties of JiraSync, both directions of the Jira            *)
(* integration, for any requests, messages, operators, events and workers of *)
(* either kind, and of NotificationOutbox for any notifications and workers. *)
(* Both are queues of rows under leases (OutboxRows).                        *)
(*                                                                           *)
(* CopiesCostALapse is not inductive: a worker may post long after its lease *)
(* is gone.  CopyInv keeps an account of it.  Every worker that holds an     *)
(* operation without a lease that runs (StaleHolders), and every operator who *)
(* has checked a row and not yet changed it (Pending), was paid for by a lapse *)
(* or a command; whoever is about to post (Posters) saw nothing posted; so   *)
(* what is posted and about to be is one more than what was spent.           *)
(*                                                                           *)
(* CopiesCostARetry has the same weakness.  KeyCovers adds that as long as   *)
(* anybody may still post, either the provider knows the key or the latest   *)
(* retry has not been paid out in a copy yet.                                *)
(*****************************************************************************)
EXTENDS JiraSync, NotificationOutbox, FiniteSetTheorems, TLAPS

\* What a worker has in hand, and where it is, fit together.
SenderFits(s) ==
    /\ s.pc \in {"search", "post", "complete", "fail"} => s.at \in Operation
    /\ s.pc \in {"idle", "next"} => s.at = None
    /\ s.pc = "idle" => s.batch = {}
    /\ s.at \notin s.batch

ImporterFits(s) == s.pc \in {"apply", "fail"} => s.at \in Event

TypeInv ==
    /\ TypeOK
    /\ \A w \in Sender : SenderFits(sender[w])
    /\ \A w \in Importer : ImporterFits(importer[w])
    /\ \A k \in Disturbance : left[k] <= Allowance[k]

Holds(s, o) == o \in s.batch \/ o = s.at

\* The worker whose lease on o still runs; of those that hold o, all the others
\* may not be there as far as the row is concerned.
Fresh(o, w) == Owned(op[o], w) /\ ~ op[o].ripe
StaleHolders(o) == {w \in Sender : Holds(sender[w], o) /\ ~ Fresh(o, w)}

\* Operators that have checked a row and will change it; workers about to post.
Pending == {p \in Operator : operator[p] # None}
Posters(o) == {w \in Sender : sender[w].pc = "post" /\ sender[w].at = o}

\* What lapses, unseen comments and operators have cost so far.
Spent == (Allowance["lapse"] - left["lapse"]) + (Allowance["page"] - left["page"])
         + (Allowance["operator"] - left["operator"])

\* Every worker that holds an operation without its lease has been paid for, and
\* so has every copy, made or about to be made, but the first.
CopyInv ==
    \A o \in Operation :
        /\ Cardinality(StaleHolders(o)) + Cardinality(Pending) <= Spent
        /\ posted[o] + Cardinality(Posters(o)) <= 1 + Spent

OutInv == TypeInv /\ ShownIsTrue /\ CopyInv

-----------------------------------------------------------------------------
(* Rows. *)

LEMMA RowsAreRows ==
    ASSUME NEW W
    PROVE  NoRow \in Row(W) /\ PendingRow \in Row(W)
           /\ NoRow.status = "ABSENT" /\ PendingRow.status = "PENDING" /\ PendingRow.ripe
  <1>1. NoRow \in Row(W)
    BY OutboxAssumption DEF NoRow, Row, RowStatus
  <1> QED BY <1>1 DEF NoRow, PendingRow, Row, RowStatus

LEMMA EndedRows ==
    ASSUME NEW W, NEW row \in Row(W), NEW s \in RowStatus
    PROVE  Ended(row, s) \in Row(W) /\ Ended(row, s).status = s /\ ~ Ended(row, s).ripe
  BY DEF Ended, Row

LEMMA FailedRows ==
    ASSUME NEW W, NEW row \in Row(W), NEW permanent \in BOOLEAN
    PROVE  /\ Failed(row, permanent) \in Row(W)
           /\ Failed(row, permanent).status \in {"FAILED", "DEAD_LETTER"}
  BY EndedRows DEF Failed, RowStatus

LEMMA RipenedRows ==
    ASSUME NEW W, NEW row \in Row(W)
    PROVE  Ripened(row) \in Row(W) /\ Ripened(row).status = row.status
           /\ Ripened(row).lease = row.lease /\ Ripened(row).ripe
  BY DEF Ripened, Row

LEMMA ClaimedRows ==
    ASSUME NEW W, NEW row \in Row(W), NEW w \in W, Claimable(row)
    PROVE  Claimed(row, w) \in Row(W) /\ Claimed(row, w).status = "PROCESSING"
           /\ Claimed(row, w).lease = w /\ ~ Claimed(row, w).ripe
  BY OutboxAssumption DEF Claimed, Claimable, Row, RowStatus

\* What a claim makes of every row: it buries what is exhausted, takes its
\* batch, and leaves the rest.
ClaimOf(before, after, w, taken) ==
    \/ Exhausted(before) /\ after.status = "DEAD_LETTER" /\ ~ taken
    \/ /\ Claimable(before) /\ ~ Exhausted(before) /\ taken
       /\ after.status = "PROCESSING" /\ after.lease = w /\ ~ after.ripe
    \/ ~ Exhausted(before) /\ ~ taken /\ after = before

LEMMA ClaimRows ==
    ASSUME NEW K, NEW W, NEW rows \in [K -> Row(W)], NEW w \in W, NEW S \in Batches(rows)
    PROVE  /\ S \in SUBSET K
           /\ AfterClaim(rows, w, S) \in [K -> Row(W)]
           /\ \A k \in K : ClaimOf(rows[k], AfterClaim(rows, w, S)[k], w, k \in S)
  <1>1. S \subseteq K /\ \A k \in S : Claimable(rows[k])
    BY DEF Batches
  <1>2. \A k \in K : Claimable(rows[k]) => ~ Exhausted(rows[k])
    BY OutboxAssumption DEF Claimable, Exhausted, Row
  <1>3. ASSUME NEW k \in K
        PROVE  /\ AfterClaim(rows, w, S)[k] \in Row(W)
               /\ ClaimOf(rows[k], AfterClaim(rows, w, S)[k], w, k \in S)
    <2>1. rows[k] \in Row(W) /\ "DEAD_LETTER" \in RowStatus
      BY DEF RowStatus
    <2>2. CASE Exhausted(rows[k])
      <3>1. AfterClaim(rows, w, S)[k] = Ended(rows[k], "DEAD_LETTER")
        BY <2>2 DEF AfterClaim
      <3> QED BY <1>1, <1>2, <2>1, <2>2, <3>1, EndedRows DEF ClaimOf
    <2>3. CASE ~ Exhausted(rows[k]) /\ k \in S
      <3>1. AfterClaim(rows, w, S)[k] = Claimed(rows[k], w) /\ Claimable(rows[k])
        BY <1>1, <2>3 DEF AfterClaim
      <3> QED BY <2>1, <2>3, <3>1, ClaimedRows DEF ClaimOf
    <2>4. CASE ~ Exhausted(rows[k]) /\ k \notin S
      <3>1. AfterClaim(rows, w, S)[k] = rows[k]
        BY <2>4 DEF AfterClaim
      <3> QED BY <2>1, <2>4, <3>1 DEF ClaimOf
    <2> QED BY <2>2, <2>3, <2>4
  <1>4. AfterClaim(rows, w, S) = [k \in K |-> AfterClaim(rows, w, S)[k]]
    BY DEF AfterClaim
  <1> QED BY <1>1, <1>3, <1>4

-----------------------------------------------------------------------------
(* The outbound worker. *)

\* What a step of worker w other than a claim does.  It goes on with what it
\* holds; a row it ends it lets go of, and what is shown follows it; and it is
\* about to post only what is not there, or posts and is no longer.
Works(w, x) ==
    LET o == sender[w].at
    IN  /\ sender' = [sender EXCEPT ![w] = x]
        /\ \A p \in Operation : Holds(x, p) => Holds(sender[w], p)
        /\ left' \in [Disturbance -> Nat] /\ left'["lapse"] = left["lapse"]
        /\ left'["page"] = left["page"] /\ left'["operator"] = left["operator"]
        /\ \A k \in Disturbance : left'[k] <= left[k]
        /\ \/ UNCHANGED <<op, shown, linked>>
           \/ /\ o \in Operation /\ Owned(op[o], w) /\ ~ Holds(x, o)
              /\ linked' \in [Operation -> BOOLEAN]
              /\ \E row \in Row(Sender) :
                    /\ row.status \in {"COMPLETED", "FAILED", "DEAD_LETTER"}
                    /\ op' = [op EXCEPT ![o] = row]
                    /\ shown' = [shown EXCEPT ![o] = ShownFor(row.status)]
        /\ \/ posted' = posted /\ (x.pc = "post" => x.at \in Operation /\ posted[x.at] = 0)
           \/ /\ o \in Operation /\ sender[w].pc = "post" /\ x.pc # "post"
              /\ posted' = [posted EXCEPT ![o] = @ + 1]

SenderOK(x) == x \in SenderState /\ SenderFits(x)

\* What a worker becomes when it lets go of everything, goes on to the next
\* record, changes its place or fails.
LEMMA IdleIsOK ==
    /\ SenderOK(IdleSender) /\ IdleSender.pc = "idle"
    /\ \A o \in Operation : ~ Holds(IdleSender, o)
  BY JiraAssumption DEF SenderOK, IdleSender, SenderState, SenderFits, Holds

Next1(s) == IF s.batch = {} THEN IdleSender
            ELSE [IdleSender EXCEPT !.pc = "next", !.batch = s.batch]

LEMMA NextIsOK ==
    ASSUME NEW s, SenderOK(s), s.at \in Operation
    PROVE  /\ SenderOK(Next1(s)) /\ Next1(s).pc # "post" /\ ~ Holds(Next1(s), s.at)
           /\ \A o \in Operation : Holds(Next1(s), o) => Holds(s, o)
  <1>1. CASE s.batch = {}
    <2>1. Next1(s) = IdleSender
      BY <1>1 DEF Next1
    <2> QED BY <2>1, IdleIsOK
  <1>2. CASE s.batch # {}
    <2>1. Next1(s) = [pc |-> "next", batch |-> s.batch, at |-> None, permanent |-> FALSE]
      BY <1>2 DEF Next1, IdleSender
    <2>2. s.batch \in SUBSET Operation /\ s.at \notin s.batch /\ s.at # None
      BY JiraAssumption DEF SenderOK, SenderState, SenderFits
    <2>3. SenderOK(Next1(s))
      BY <1>2, <2>1, <2>2, JiraAssumption DEF SenderOK, SenderState, SenderFits
    <2>4. Next1(s).batch = s.batch /\ Next1(s).at = None /\ Next1(s).pc = "next"
      BY <2>1
    <2> QED BY <2>2, <2>3, <2>4, JiraAssumption DEF Holds
  <1> QED BY <1>1, <1>2

Moved(s, pc, permanent) ==
    {[s EXCEPT !.pc = pc], [s EXCEPT !.pc = pc, !.permanent = permanent]}

LEMMA PlaceIsOK ==
    ASSUME NEW s, SenderOK(s), s.at \in Operation,
           NEW pc \in {"search", "post", "complete", "fail"}, NEW permanent \in BOOLEAN
    PROVE  \A x \in Moved(s, pc, permanent) :
              /\ SenderOK(x) /\ x.pc = pc /\ x.at = s.at
              /\ \A o \in Operation : Holds(x, o) => Holds(s, o)
  BY DEF SenderOK, SenderState, SenderFits, Holds, Moved

\* A fault, a crash: nothing that the proof counts is spent.
LEMMA SpendLess ==
    ASSUME TypeInv, NEW k \in Disturbance, Spend(k)
    PROVE  /\ left' \in [Disturbance -> Nat] /\ \A j \in Disturbance : left'[j] <= left[j]
           /\ left'[k] = left[k] - 1 /\ \A j \in Disturbance \ {k} : left'[j] = left[j]
  BY DEF TypeInv, TypeOK, OutboxTypeOK, Spend

LEMMA FaultSpends ==
    ASSUME TypeInv, Spend("fault") \/ Spend("crash") \/ left' = left
    PROVE  /\ left' \in [Disturbance -> Nat] /\ \A j \in Disturbance : left'[j] <= left[j]
           /\ left'["lapse"] = left["lapse"] /\ left'["operator"] = left["operator"]
           /\ left'["page"] = left["page"]
  BY SpendLess DEF TypeInv, TypeOK, OutboxTypeOK, Disturbance

LEMMA ReadWorks ==
    ASSUME TypeInv, NEW w \in Sender, Read(w)
    PROVE  \E x : SenderOK(x) /\ Works(w, x)
  <1> DEFINE s == sender[w]
  <1>1. SenderOK(s) /\ s.pc = "next"
    BY DEF Read, TypeInv, TypeOK, OutboxTypeOK, SenderOK
  <1>2. PICK o \in s.batch :
          LET t == [s EXCEPT !.batch = @ \ {o}, !.at = o]
          IN  /\ \E x \in {[t EXCEPT !.pc = "search"], [t EXCEPT !.pc = "fail"],
                           [t EXCEPT !.pc = "fail", !.permanent = TRUE]} :
                    sender' = [sender EXCEPT ![w] = x]
              /\ Spend("fault") \/ left' = left
    BY DEF Read
  <1> DEFINE t == [s EXCEPT !.batch = @ \ {o}, !.at = o]
  <1>3. t \in SenderState /\ t.batch = s.batch \ {o} /\ t.at = o /\ o \in Operation
    BY <1>1 DEF SenderOK, SenderState
  <1>7. PICK x \in {[t EXCEPT !.pc = "search"], [t EXCEPT !.pc = "fail"],
                    [t EXCEPT !.pc = "fail", !.permanent = TRUE]} :
          sender' = [sender EXCEPT ![w] = x]
    BY <1>2
  <1> HIDE DEF t
  <1>4. x \in SenderState /\ x.batch = t.batch /\ x.at = t.at /\ x.pc \in {"search", "fail"}
    BY <1>3, <1>7 DEF SenderState, t
  <1>5. SenderOK(x) /\ \A p \in Operation : Holds(x, p) => Holds(s, p)
    BY <1>3, <1>4 DEF SenderOK, SenderFits, Holds
  <1>6. UNCHANGED <<op, shown, linked, posted>>
    BY DEF Read
  <1> QED BY <1>2, <1>4, <1>5, <1>6, <1>7, FaultSpends DEF Works

\* A search that shows fewer comments than there are changes the worker alone.
Overlooks(w) ==
    /\ Spend("page")
    /\ UNCHANGED <<op, shown, linked, posted>>
    /\ \E x : /\ SenderOK(x)
             /\ sender' = [sender EXCEPT ![w] = x]
             /\ \A o \in Operation : Holds(x, o) => Holds(sender[w], o)

LEMMA FoundMoves ==
    ASSUME TypeInv, NEW w \in Sender, NEW copies \in Nat, Found(w, copies),
           sender[w].at \in Operation
    PROVE  \E pc \in {"post", "complete", "fail"}, permanent \in BOOLEAN :
              /\ \E x \in Moved(sender[w], pc, permanent) : sender' = [sender EXCEPT ![w] = x]
              /\ pc = "post" => copies = 0
  <1>1. CASE copies = 0 /\ Goto(w, "post")
    BY <1>1 DEF Goto, Moved, TypeInv, TypeOK, OutboxTypeOK
  <1>2. CASE copies = 1 /\ Goto(w, "complete")
    BY <1>2 DEF Goto, Moved, TypeInv, TypeOK, OutboxTypeOK
  <1>3. CASE copies > 1 /\ Fail(w, TRUE)
    BY <1>3 DEF Fail, Moved, TypeInv, TypeOK, OutboxTypeOK
  <1> QED BY <1>1, <1>2, <1>3 DEF Found

LEMMA SearchWorks ==
    ASSUME TypeInv, NEW w \in Sender, Search(w), ~ Overlooks(w)
    PROVE  \E x : SenderOK(x) /\ Works(w, x)
  <1> DEFINE s == sender[w]
  <1>1. SenderOK(s) /\ s.pc = "search" /\ s.at \in Operation
    BY DEF Search, TypeInv, TypeOK, OutboxTypeOK, SenderOK, SenderFits
  <1>2. UNCHANGED <<op, shown, linked, posted>>
    BY DEF Search
  <1>3. ASSUME NEW pc \in {"post", "complete", "fail"}, NEW permanent \in BOOLEAN,
               NEW x \in Moved(s, pc, permanent), sender' = [sender EXCEPT ![w] = x]
        PROVE  /\ SenderOK(x) /\ x.pc = pc /\ x.at = s.at
               /\ \A o \in Operation : Holds(x, o) => Holds(s, o)
    BY <1>1, PlaceIsOK
  <1>4. CASE Found(w, posted[s.at]) /\ UNCHANGED left
    <2>1. PICK pc \in {"post", "complete", "fail"}, permanent \in BOOLEAN :
            /\ \E x \in Moved(s, pc, permanent) : sender' = [sender EXCEPT ![w] = x]
            /\ pc = "post" => posted[s.at] = 0
      BY <1>1, <1>4, FoundMoves DEF TypeInv, TypeOK, OutboxTypeOK
    <2>2. PICK x \in Moved(s, pc, permanent) : sender' = [sender EXCEPT ![w] = x]
      BY <2>1
    <2>3. /\ SenderOK(x) /\ x.pc = pc /\ x.at = s.at
          /\ \A o \in Operation : Holds(x, o) => Holds(s, o)
      BY <1>3, <2>2
    <2>4. /\ left' \in [Disturbance -> Nat] /\ left' = left
          /\ \A k \in Disturbance : left'[k] <= left[k]
      BY <1>4, FaultSpends
    <2>5. x.pc = "post" => x.at \in Operation /\ posted[x.at] = 0
      BY <1>1, <2>1, <2>3
    <2> QED BY <1>2, <2>2, <2>3, <2>4, <2>5 DEF Works
  <1>5. CASE Spend("page") /\ \E copies \in 0..(posted[s.at] - 1) : Found(w, copies)
    <2>1. PICK copies \in Nat : Found(w, copies)
      BY <1>1, <1>5 DEF TypeInv, TypeOK, OutboxTypeOK
    <2>2. PICK pc \in {"post", "complete", "fail"}, permanent \in BOOLEAN :
            \E x \in Moved(s, pc, permanent) : sender' = [sender EXCEPT ![w] = x]
      BY <1>1, <2>1, FoundMoves
    <2> QED BY <1>2, <1>3, <1>5, <2>2 DEF Overlooks
  <1>6. CASE Spend("fault") /\ \E permanent \in BOOLEAN : Fail(w, permanent)
    <2>1. PICK permanent \in BOOLEAN :
            \E x \in Moved(s, "fail", permanent) : sender' = [sender EXCEPT ![w] = x]
      BY <1>1, <1>6 DEF Fail, Moved, TypeInv, TypeOK, OutboxTypeOK
    <2> QED BY <1>2, <1>3, <1>6, <2>1, FaultSpends DEF Works
  <1> QED BY <1>4, <1>5, <1>6 DEF Search

LEMMA PostWorks ==
    ASSUME TypeInv, NEW w \in Sender, Post(w)
    PROVE  \E x : SenderOK(x) /\ Works(w, x)
  <1> DEFINE s == sender[w]
  <1>1. SenderOK(s) /\ s.pc = "post" /\ s.at \in Operation
    BY DEF Post, TypeInv, TypeOK, OutboxTypeOK, SenderOK, SenderFits
  <1>2. PICK pc \in {"complete", "fail"}, permanent \in BOOLEAN :
          /\ \E x \in Moved(s, pc, permanent) : sender' = [sender EXCEPT ![w] = x]
          /\ posted' = posted \/ posted' = [posted EXCEPT ![s.at] = @ + 1]
          /\ Spend("fault") \/ left' = left
    BY <1>1 DEF Post, Goto, Fail, Moved, TypeInv, TypeOK, OutboxTypeOK
  <1>5. PICK x \in Moved(s, pc, permanent) : sender' = [sender EXCEPT ![w] = x]
    BY <1>2
  <1>3. /\ SenderOK(x) /\ x.pc = pc /\ x.at = s.at
        /\ \A o \in Operation : Holds(x, o) => Holds(s, o)
    BY <1>1, PlaceIsOK
  <1>4. UNCHANGED <<op, shown, linked>>
    BY DEF Post
  <1> QED BY <1>1, <1>2, <1>3, <1>4, <1>5, FaultSpends DEF Works

LEMMA CompleteWorks ==
    ASSUME TypeInv, NEW w \in Sender, Complete(w)
    PROVE  \E x : SenderOK(x) /\ Works(w, x)
  <1> DEFINE s == sender[w]
             o == s.at
  <1>1. SenderOK(s) /\ s.pc = "complete" /\ o \in Operation
    BY DEF Complete, TypeInv, TypeOK, OutboxTypeOK, SenderOK, SenderFits
  <1>2. CASE /\ Owned(op[o], w) /\ op' = [op EXCEPT ![o] = Ended(@, "COMPLETED")]
             /\ shown' = [shown EXCEPT ![o] = "DONE"] /\ linked' = [linked EXCEPT ![o] = TRUE]
             /\ Advance(w) /\ left' = left
    <2>1. sender' = [sender EXCEPT ![w] = Next1(s)]
      BY <1>2 DEF Advance, Next1
    <2>2. op[o] \in Row(Sender) /\ "COMPLETED" \in RowStatus
      BY <1>1 DEF TypeInv, TypeOK, OutboxTypeOK, RowStatus
    <2>3. PICK row \in Row(Sender) : row.status = "COMPLETED" /\ op' = [op EXCEPT ![o] = row]
      <3>1. Ended(op[o], "COMPLETED") \in Row(Sender) /\ Ended(op[o], "COMPLETED").status = "COMPLETED"
        BY <2>2, EndedRows
      <3> QED BY <1>2, <3>1
    <2>4. shown' = [shown EXCEPT ![o] = ShownFor(row.status)]
      BY <1>2, <2>3 DEF ShownFor
    <2>5. linked' \in [Operation -> BOOLEAN]
      BY <1>2 DEF TypeInv, TypeOK, OutboxTypeOK
    <2>6. UNCHANGED posted
      BY DEF Complete
    <2>7. Owned(op[o], w) /\ row.status \in {"COMPLETED", "FAILED", "DEAD_LETTER"}
      BY <1>2, <2>3
    <2>8. left' \in [Disturbance -> Nat] /\ left' = left
          /\ \A k \in Disturbance : left'[k] <= left[k]
      BY <1>2, FaultSpends
    <2>9. PICK x : x = Next1(s)
      OBVIOUS
    <2>10. SenderOK(x) /\ x.pc # "post" /\ ~ Holds(x, o)
           /\ \A p \in Operation : Holds(x, p) => Holds(s, p)
      BY <1>1, <2>9, NextIsOK
    <2> HIDE DEF s
    <2>11. op' = [op EXCEPT ![o] = row] /\ sender' = [sender EXCEPT ![w] = x]
      BY <2>1, <2>3, <2>9
    <2>12. Works(w, x)
      BY <1>1, <2>4, <2>5, <2>6, <2>7, <2>8, <2>10, <2>11 DEF Works, s
    <2> QED BY <2>10, <2>12
  <1>3. CASE /\ Fail(w, FALSE) /\ UNCHANGED <<op, shown, linked>> /\ (Spend("fault") \/ left' = left)
    <2>1. PICK x \in Moved(s, "fail", FALSE) : sender' = [sender EXCEPT ![w] = x]
      BY <1>1, <1>3 DEF Fail, Moved, TypeInv, TypeOK, OutboxTypeOK
    <2>2. UNCHANGED posted
      BY DEF Complete
    <2>3. SenderOK(x) /\ x.pc = "fail" /\ \A p \in Operation : Holds(x, p) => Holds(s, p)
      BY <1>1, <2>1, PlaceIsOK
    <2> QED BY <1>3, <2>1, <2>2, <2>3, FaultSpends DEF Works
  <1> QED BY <1>2, <1>3 DEF Complete, Completable

LEMMA FailureWorks ==
    ASSUME TypeInv, NEW w \in Sender, RecordFailure(w)
    PROVE  \E x : SenderOK(x) /\ Works(w, x)
  <1> DEFINE s == sender[w]
             o == s.at
             row == Failed(op[o], s.permanent)
  <1>1. SenderOK(s) /\ s.pc = "fail" /\ o \in Operation /\ s.permanent \in BOOLEAN
    BY DEF RecordFailure, TypeInv, TypeOK, OutboxTypeOK, SenderOK, SenderFits, SenderState
  <1>2. UNCHANGED <<linked, posted>>
    BY DEF RecordFailure
  <1>3. CASE /\ Owned(op[o], w) /\ op' = [op EXCEPT ![o] = row] /\ left' = left
             /\ shown' = [shown EXCEPT ![o] = ShownFor(row.status)] /\ Advance(w)
    <2>1. sender' = [sender EXCEPT ![w] = Next1(s)]
      BY <1>3 DEF Advance, Next1
    <2>2. row \in Row(Sender) /\ row.status \in {"COMPLETED", "FAILED", "DEAD_LETTER"}
      BY <1>1, FailedRows DEF TypeInv, TypeOK, OutboxTypeOK
    <2>3. linked' \in [Operation -> BOOLEAN]
      BY <1>2 DEF TypeInv, TypeOK, OutboxTypeOK
    <2> HIDE DEF row
    <2> QED BY <1>1, <1>2, <1>3, <2>1, <2>2, <2>3, NextIsOK, FaultSpends DEF Works
  <1>4. CASE Drop(w) /\ UNCHANGED <<op, shown>> /\ (Spend("fault") \/ left' = left)
    BY <1>2, <1>4, IdleIsOK, FaultSpends DEF Works, Drop
  <1> QED BY <1>3, <1>4 DEF RecordFailure, MayFail

LEMMA CrashWorks ==
    ASSUME TypeInv, NEW w \in Sender, SenderCrash(w)
    PROVE  \E x : SenderOK(x) /\ Works(w, x)
  BY IdleIsOK, FaultSpends DEF Works, SenderCrash, Drop

LEMMA StepsWork ==
    ASSUME TypeInv, NEW w \in Sender,
           \/ Read(w) \/ Search(w) \/ Post(w) \/ Complete(w) \/ RecordFailure(w) \/ SenderCrash(w)
    PROVE  /\ Overlooks(w) \/ \E x : SenderOK(x) /\ Works(w, x)
           /\ UNCHANGED <<mapping, imported, operator>>
  <1>1. Overlooks(w) \/ \E x : SenderOK(x) /\ Works(w, x)
    BY ReadWorks, SearchWorks, PostWorks, CompleteWorks, FailureWorks, CrashWorks
  <1>2. UNCHANGED <<mapping, imported, operator>>
    BY DEF Read, Search, Post, Complete, RecordFailure, SenderCrash
  <1> QED BY <1>1, <1>2

-----------------------------------------------------------------------------
(* Counting. *)

LEMMA CountsAreFinite ==
    ASSUME NEW o
    PROVE  /\ IsFiniteSet(StaleHolders(o)) /\ Cardinality(StaleHolders(o)) \in Nat
           /\ IsFiniteSet(Posters(o)) /\ Cardinality(Posters(o)) \in Nat
           /\ IsFiniteSet(Pending) /\ Cardinality(Pending) \in Nat
           /\ IsFiniteSet(StaleHolders(o)') /\ Cardinality(StaleHolders(o)') \in Nat
           /\ IsFiniteSet(Posters(o)') /\ Cardinality(Posters(o)') \in Nat
           /\ IsFiniteSet(Pending') /\ Cardinality(Pending') \in Nat
  <1>1. /\ StaleHolders(o) \subseteq Sender /\ Posters(o) \subseteq Sender
        /\ Pending \subseteq Operator
        /\ StaleHolders(o)' \subseteq Sender /\ Posters(o)' \subseteq Sender
        /\ Pending' \subseteq Operator
    BY DEF StaleHolders, Posters, Pending
  <1>2. /\ IsFiniteSet(StaleHolders(o)) /\ IsFiniteSet(Posters(o)) /\ IsFiniteSet(Pending)
        /\ IsFiniteSet(StaleHolders(o)') /\ IsFiniteSet(Posters(o)') /\ IsFiniteSet(Pending')
    BY <1>1, FS_Subset, JiraAssumption
  <1> QED BY <1>2, FS_CardinalityType

\* A set gains at most one element, or loses one.
LEMMA OneMore ==
    ASSUME NEW S, NEW T, NEW e, IsFiniteSet(S), T \subseteq S \cup {e}
    PROVE  IsFiniteSet(T) /\ Cardinality(T) <= Cardinality(S) + 1
  <1>1. /\ IsFiniteSet(S \cup {e}) /\ Cardinality(S) \in Nat
        /\ Cardinality(S \cup {e}) = IF e \in S THEN Cardinality(S) ELSE Cardinality(S) + 1
    BY FS_AddElement, FS_CardinalityType
  <1>2. IsFiniteSet(T) /\ Cardinality(T) <= Cardinality(S \cup {e})
    BY <1>1, FS_Subset
  <1>3. Cardinality(T) \in Nat
    BY <1>2, FS_CardinalityType
  <1> QED BY <1>1, <1>2, <1>3

LEMMA NoMore ==
    ASSUME NEW S, NEW T, IsFiniteSet(S), T \subseteq S
    PROVE  Cardinality(T) <= Cardinality(S)
  BY FS_Subset

LEMMA OneLess ==
    ASSUME NEW S, NEW T, NEW e, IsFiniteSet(S), e \in S, T \subseteq S \ {e}
    PROVE  Cardinality(T) <= Cardinality(S) - 1
  <1>1. /\ IsFiniteSet(S \ {e}) /\ Cardinality(S \ {e}) = Cardinality(S) - 1
    BY FS_RemoveElement
  <1> QED BY <1>1, NoMore

\* At most one worker is about to post with a lease that still runs.
LEMMA PostersCounted ==
    ASSUME NEW o \in Operation
    PROVE  Cardinality(Posters(o)') <= Cardinality(StaleHolders(o)') + 1
  <1>1. Posters(o)' \subseteq StaleHolders(o)' \cup {op'[o].lease}
    BY DEF Posters, Holds, StaleHolders, Fresh, Owned
  <1> QED BY <1>1, OneMore, CountsAreFinite

LEMMA SpentIsCounted ==
    ASSUME TypeInv
    PROVE  Spent \in Nat
  <1>1. \A k \in {"lapse", "page", "operator"} :
           Allowance[k] \in Nat /\ left[k] \in Nat /\ left[k] <= Allowance[k]
    BY JiraAssumption DEF TypeInv, TypeOK, OutboxTypeOK, Disturbance
  <1> QED BY <1>1 DEF Spent

LEMMA SpentStaysCounted ==
    ASSUME TypeInv'
    PROVE  Spent' \in Nat
  <1>1. \A k \in {"lapse", "page", "operator"} :
           Allowance[k] \in Nat /\ left'[k] \in Nat /\ left'[k] <= Allowance[k]
    BY JiraAssumption DEF TypeInv, TypeOK, OutboxTypeOK, Disturbance
  <1> QED BY <1>1 DEF Spent

LEMMA PagePays ==
    ASSUME OutInv, Spend("page")
    PROVE  /\ Spent' = Spent + 1 /\ Spent \in Nat
           /\ left' \in [Disturbance -> Nat] /\ \A k \in Disturbance : left'[k] <= Allowance[k]
  <1>1. /\ left' \in [Disturbance -> Nat] /\ \A j \in Disturbance : left'[j] <= left[j]
        /\ left'["page"] = left["page"] - 1 /\ left'["lapse"] = left["lapse"]
        /\ left'["operator"] = left["operator"]
    BY SpendLess DEF OutInv, Disturbance
  <1>2. left \in [Disturbance -> Nat] /\ Allowance \in [Disturbance -> Nat]
        /\ \A j \in Disturbance : left[j] <= Allowance[j]
    BY JiraAssumption DEF OutInv, TypeInv, TypeOK, OutboxTypeOK
  <1>3. Spent' = Spent + 1
    BY <1>1, <1>2 DEF Spent, Disturbance
  <1> QED BY <1>1, <1>2, <1>3, SpentIsCounted DEF OutInv

-----------------------------------------------------------------------------
(* Steps of the outbound worker keep the invariant. *)

LEMMA WorksTyped ==
    ASSUME OutInv, NEW w \in Sender, NEW x, SenderOK(x), Works(w, x),
           UNCHANGED <<mapping, imported, operator>>, UNCHANGED Inbound
    PROVE  TypeInv' /\ ShownIsTrue'
  <1> DEFINE o == sender[w].at
  <1>1. UNCHANGED <<status, jiraAt, synced, event, importer>>
    BY DEF Inbound
  <1>2. /\ op' \in [Operation -> Row(Sender)] /\ shown' \in [Operation -> Shown]
        /\ linked' \in [Operation -> BOOLEAN]
        /\ \A p \in Operation : \/ op'[p] = op[p] /\ shown'[p] = shown[p]
                                \/ shown'[p] = ShownFor(op'[p].status)
    <2>1. CASE UNCHANGED <<op, shown, linked>>
      BY <2>1 DEF OutInv, TypeInv, TypeOK, OutboxTypeOK
    <2>2. CASE ~ UNCHANGED <<op, shown, linked>>
      <3>1. PICK row \in Row(Sender) :
              /\ row.status \in {"COMPLETED", "FAILED", "DEAD_LETTER"}
              /\ op' = [op EXCEPT ![o] = row]
              /\ shown' = [shown EXCEPT ![o] = ShownFor(row.status)]
        BY <2>2 DEF Works
      <3>2. ShownFor(row.status) \in Shown
        BY <3>1 DEF ShownFor, Shown
      <3>3. linked' \in [Operation -> BOOLEAN] /\ o \in Operation
        BY <2>2 DEF Works
      <3> QED BY <3>1, <3>2, <3>3 DEF OutInv, TypeInv, TypeOK, OutboxTypeOK
    <2> QED BY <2>1, <2>2
  <1>3. posted' \in [Operation -> Nat]
    BY DEF Works, OutInv, TypeInv, TypeOK, OutboxTypeOK
  <1>4. sender' \in [Sender -> SenderState] /\ \A v \in Sender : SenderFits(sender'[v])
    BY DEF Works, SenderOK, OutInv, TypeInv, TypeOK, OutboxTypeOK
  <1>5. left' \in [Disturbance -> Nat] /\ \A k \in Disturbance : left'[k] <= Allowance[k]
    <2>1. \A k \in Disturbance : left'[k] <= left[k] /\ left[k] <= Allowance[k]
      BY DEF Works, OutInv, TypeInv
    <2>2. left' \in [Disturbance -> Nat] /\ left \in [Disturbance -> Nat]
      BY DEF Works, OutInv, TypeInv, TypeOK, OutboxTypeOK
    <2> QED BY <2>1, <2>2, JiraAssumption
  <1>6. TypeOK'
    BY <1>1, <1>2, <1>3, <1>4, <1>5
      DEF OutInv, TypeInv, TypeOK, OutboxTypeOK, InboundTypeOK
  <1>7. \A v \in Sender : SenderFits(sender[v])'
    BY <1>4 DEF SenderFits
  <1>8. \A v \in Importer : ImporterFits(importer[v])'
    BY <1>1 DEF OutInv, TypeInv, ImporterFits
  <1>9. ShownIsTrue'
    BY <1>1, <1>2 DEF OutInv, ShownIsTrue
  <1> QED BY <1>5, <1>6, <1>7, <1>8, <1>9 DEF TypeInv

LEMMA WorksCounted ==
    ASSUME OutInv, NEW w \in Sender, NEW x, SenderOK(x), Works(w, x), UNCHANGED operator,
           TypeInv'
    PROVE  CopyInv'
  <1> DEFINE at == sender[w].at
  <1>1. sender \in [Sender -> SenderState] /\ posted \in [Operation -> Nat]
        /\ sender' = [sender EXCEPT ![w] = x] /\ op \in [Operation -> Row(Sender)]
    BY DEF Works, OutInv, TypeInv, TypeOK, OutboxTypeOK
  <1>2. Spent' = Spent /\ Pending' = Pending
    BY DEF Spent, Pending, Works
  <1> SUFFICES ASSUME NEW o \in Operation
               PROVE  /\ Cardinality(StaleHolders(o)') + Cardinality(Pending') <= Spent'
                      /\ posted'[o] + Cardinality(Posters(o)') <= 1 + Spent'
    BY DEF CopyInv
  <1>3. /\ Cardinality(StaleHolders(o)) + Cardinality(Pending) <= Spent
        /\ posted[o] + Cardinality(Posters(o)) <= 1 + Spent
    BY DEF OutInv, CopyInv
  <1>4. Spent \in Nat
    BY SpentIsCounted DEF OutInv
  <1>5. StaleHolders(o)' \subseteq StaleHolders(o)
    <2> SUFFICES ASSUME NEW v \in Sender, Holds(sender'[v], o), ~ Fresh(o, v)'
                 PROVE  Holds(sender[v], o) /\ ~ Fresh(o, v)
      BY DEF StaleHolders, Holds
    <2>1. Holds(sender[v], o)
      BY <1>1 DEF Works
    <2>2. CASE op'[o] = op[o]
      BY <2>1, <2>2 DEF Fresh, Owned
    <2>3. CASE op'[o] # op[o]
      <3>1. at = o /\ Owned(op[o], w) /\ ~ Holds(x, o)
        BY <1>1, <2>3 DEF Works
      <3>2. v # w
        BY <1>1, <3>1
      <3> QED BY <2>1, <3>1, <3>2 DEF Fresh, Owned
    <2> QED BY <2>2, <2>3
  <1>6. Cardinality(StaleHolders(o)') + Cardinality(Pending') <= Spent'
    BY <1>2, <1>3, <1>4, <1>5, NoMore, CountsAreFinite
  <1>7. posted'[o] + Cardinality(Posters(o)') <= 1 + Spent'
    <2>1. CASE x.pc = "post" /\ x.at = o
      <3>1. posted'[o] = 0
        BY <2>1 DEF Works
      <3>2. Cardinality(Posters(o)') <= Cardinality(StaleHolders(o)') + 1
        BY PostersCounted
      <3> QED BY <1>2, <1>4, <1>6, <3>1, <3>2, CountsAreFinite
    <2>2. CASE ~ (x.pc = "post" /\ x.at = o)
      <3>1. Posters(o)' \subseteq Posters(o) /\ w \notin Posters(o)'
        BY <1>1, <2>2 DEF Posters
      <3>2. CASE posted'[o] = posted[o]
        BY <1>1, <1>2, <1>3, <1>4, <3>1, <3>2, NoMore, CountsAreFinite
      <3>3. CASE posted'[o] # posted[o]
        <4>1. w \in Posters(o) /\ posted'[o] = posted[o] + 1
          BY <1>1, <3>3 DEF Works, Posters
        <4>2. Cardinality(Posters(o)') <= Cardinality(Posters(o)) - 1
          BY <3>1, <4>1, OneLess, CountsAreFinite
        <4> QED BY <1>1, <1>2, <1>3, <1>4, <4>1, <4>2, CountsAreFinite
      <3> QED BY <3>2, <3>3
    <2> QED BY <2>1, <2>2
  <1> QED BY <1>6, <1>7

\* An unseen comment pays for the copy its worker is now about to post.
LEMMA OverlookKeepsInv ==
    ASSUME OutInv, NEW w \in Sender, Overlooks(w),
           UNCHANGED <<mapping, imported, operator>>, UNCHANGED Inbound
    PROVE  OutInv'
  <1>1. PICK x : /\ SenderOK(x)
                 /\ sender' = [sender EXCEPT ![w] = x]
                 /\ \A o \in Operation : Holds(x, o) => Holds(sender[w], o)
    BY DEF Overlooks
  <1>2. UNCHANGED <<mapping, op, shown, linked, posted, imported, operator, status, jiraAt, synced,
                    event, importer>>
    BY DEF Overlooks, Inbound
  <1>3. /\ left' \in [Disturbance -> Nat] /\ \A k \in Disturbance : left'[k] <= Allowance[k]
        /\ Spent' = Spent + 1 /\ Spent \in Nat
    BY PagePays DEF Overlooks
  <1>4. sender' \in [Sender -> SenderState] /\ sender \in [Sender -> SenderState]
        /\ \A v \in Sender : SenderFits(sender'[v])
    BY <1>1 DEF SenderOK, OutInv, TypeInv, TypeOK, OutboxTypeOK
  <1>5. TypeInv'
    BY <1>2, <1>3, <1>4
      DEF OutInv, TypeInv, TypeOK, OutboxTypeOK, InboundTypeOK, SenderFits, ImporterFits
  <1>6. ShownIsTrue'
    BY <1>2 DEF OutInv, ShownIsTrue
  <1>7. ASSUME NEW o \in Operation
        PROVE  /\ StaleHolders(o)' \subseteq StaleHolders(o)
               /\ Posters(o)' \subseteq Posters(o) \cup {w}
    BY <1>1, <1>2, <1>4 DEF StaleHolders, Posters, Fresh, Owned, Holds
  <1>8. CopyInv'
    <2> SUFFICES ASSUME NEW o \in Operation
                 PROVE  /\ Cardinality(StaleHolders(o)') + Cardinality(Pending') <= Spent'
                        /\ posted'[o] + Cardinality(Posters(o)') <= 1 + Spent'
      BY DEF CopyInv
    <2>1. /\ Cardinality(StaleHolders(o)') <= Cardinality(StaleHolders(o))
          /\ Cardinality(Posters(o)') <= Cardinality(Posters(o)) + 1
      BY <1>7, NoMore, OneMore, CountsAreFinite
    <2>2. Pending' = Pending /\ posted' = posted /\ posted[o] \in Nat
      BY <1>2 DEF Pending, OutInv, TypeInv, TypeOK, OutboxTypeOK
    <2>3. /\ Cardinality(StaleHolders(o)) + Cardinality(Pending) <= Spent
          /\ posted[o] + Cardinality(Posters(o)) <= 1 + Spent
      BY DEF OutInv, CopyInv
    <2> QED BY <1>3, <2>1, <2>2, <2>3, CountsAreFinite
  <1> QED BY <1>5, <1>6, <1>8 DEF OutInv

LEMMA WorkKeepsInv ==
    ASSUME OutInv, NEW w \in Sender,
           \/ Read(w) \/ Search(w) \/ Post(w) \/ Complete(w) \/ RecordFailure(w) \/ SenderCrash(w),
           UNCHANGED Inbound
    PROVE  OutInv'
  <1>1. UNCHANGED <<mapping, imported, operator>>
    BY StepsWork DEF OutInv
  <1>2. CASE Overlooks(w)
    BY <1>1, <1>2, OverlookKeepsInv
  <1>3. CASE ~ Overlooks(w)
    <2>1. PICK x : SenderOK(x) /\ Works(w, x)
      BY <1>3, StepsWork DEF OutInv
    <2>2. TypeInv' /\ ShownIsTrue'
      BY <1>1, <2>1, WorksTyped
    <2>3. CopyInv'
      BY <1>1, <2>1, <2>2, WorksCounted
    <2> QED BY <2>2, <2>3 DEF OutInv
  <1> QED BY <1>2, <1>3

-----------------------------------------------------------------------------
(* So do claims, time, the portal and the operators. *)

\* A step that posts nothing keeps the account when what it adds to one side it
\* adds to the other.
LEMMA CountsKept ==
    ASSUME OutInv, TypeInv', UNCHANGED posted, Spent <= Spent',
           \A o \in Operation :
              /\ Posters(o)' \subseteq Posters(o)
              /\ Cardinality(StaleHolders(o)') + Cardinality(Pending') + Spent
                   <= Cardinality(StaleHolders(o)) + Cardinality(Pending) + Spent'
    PROVE  CopyInv'
  <1>1. Spent \in Nat /\ Spent' \in Nat
    BY SpentIsCounted, SpentStaysCounted DEF OutInv
  <1> SUFFICES ASSUME NEW o \in Operation
               PROVE  /\ Cardinality(StaleHolders(o)') + Cardinality(Pending') <= Spent'
                      /\ posted[o] + Cardinality(Posters(o)') <= 1 + Spent'
    BY DEF CopyInv
  <1>2. posted[o] \in Nat /\ Cardinality(Posters(o)') <= Cardinality(Posters(o))
    BY NoMore, CountsAreFinite DEF OutInv, TypeInv, TypeOK, OutboxTypeOK
  <1> QED BY <1>1, <1>2, CountsAreFinite DEF OutInv, CopyInv

LEMMA RowsAreTyped ==
    ASSUME OutInv
    PROVE  /\ op \in [Operation -> Row(Sender)] /\ shown \in [Operation -> Shown]
           /\ linked \in [Operation -> BOOLEAN] /\ posted \in [Operation -> Nat]
           /\ sender \in [Sender -> SenderState] /\ operator \in [Operator -> OperatorState]
           /\ left \in [Disturbance -> Nat] /\ mapping \in BOOLEAN
  BY DEF OutInv, TypeInv, TypeOK, OutboxTypeOK

LEMMA ClaimKeepsInv ==
    ASSUME OutInv, NEW w \in Sender, ClaimOperations(w), UNCHANGED Inbound
    PROVE  OutInv'
  <1>1. UNCHANGED <<mapping, linked, posted, imported, operator, left, status, jiraAt, synced,
                    event, importer>>
    BY DEF ClaimOperations, Inbound
  <1>2. PICK S \in Batches(op) :
          /\ op' = AfterClaim(op, w, S)
          /\ shown' = AfterClaimShown(S)
          /\ sender' = [sender EXCEPT ![w] =
                          IF S = {} THEN IdleSender
                          ELSE [IdleSender EXCEPT !.pc = "next", !.batch = S]]
    BY DEF ClaimOperations
  <1>3. /\ S \in SUBSET Operation /\ op' \in [Operation -> Row(Sender)]
        /\ \A o \in Operation : ClaimOf(op[o], op'[o], w, o \in S)
    BY <1>2, RowsAreTyped, ClaimRows
  <1>4. shown' \in [Operation -> Shown]
    BY <1>2, RowsAreTyped DEF AfterClaimShown, Shown
  <1>5. PICK s : s.batch = S
    <2>1. [batch |-> S].batch = S
      OBVIOUS
    <2> QED BY <2>1
  <1>6. PICK x : x = Next1(s) /\ sender' = [sender EXCEPT ![w] = x]
    BY <1>2, <1>5 DEF Next1
  <1>7. /\ SenderOK(x) /\ x.pc # "post"
        /\ \A o \in Operation : Holds(x, o) => o \in S
    <2>1. x.pc \in {"idle", "next"} /\ x.batch = S /\ x.at = None
          /\ x \in SenderState /\ (x.pc = "idle" => S = {})
      <3>1. CASE S = {}
        BY <1>5, <1>6, <3>1 DEF Next1, IdleSender, SenderState
      <3>2. CASE S # {}
        <4>1. x = [pc |-> "next", batch |-> s.batch, at |-> None, permanent |-> FALSE]
          BY <1>5, <1>6, <3>2 DEF Next1, IdleSender
        <4> QED BY <1>3, <1>5, <3>2, <4>1 DEF SenderState
      <3> QED BY <3>1, <3>2
    <2> QED BY <1>3, <2>1, JiraAssumption DEF SenderOK, SenderFits, Holds
  <1>8. TypeInv'
    BY <1>1, <1>3, <1>4, <1>6, <1>7
      DEF OutInv, TypeInv, TypeOK, OutboxTypeOK, InboundTypeOK, SenderOK, SenderFits, ImporterFits
  <1>9. ShownIsTrue'
    <2> SUFFICES ASSUME NEW o \in Operation
                 PROVE  \/ op'[o] = op[o] /\ shown'[o] = shown[o]
                        \/ shown'[o] = ShownFor(op'[o].status)
      BY <1>1 DEF OutInv, ShownIsTrue
    <2>1. shown'[o] = IF Exhausted(op[o]) THEN "DEAD_LETTER"
                      ELSE IF o \in S THEN "PROCESSING"
                      ELSE shown[o]
      BY <1>2 DEF AfterClaimShown
    <2> QED BY <1>3, <2>1 DEF ClaimOf, ShownFor
  <1>10. \A o \in Operation : /\ StaleHolders(o)' \subseteq StaleHolders(o)
                              /\ Posters(o)' \subseteq Posters(o)
    <2> TAKE o \in Operation
    <2>1. ClaimOf(op[o], op'[o], w, o \in S)
      BY <1>3
    <2>2. ASSUME NEW v \in Sender, Holds(sender'[v], o), ~ Fresh(o, v)'
          PROVE  Holds(sender[v], o) /\ ~ Fresh(o, v)
      <3>1. CASE v = w
        <4>1. o \in S
          BY <1>6, <1>7, <2>2, <3>1, RowsAreTyped
        <4> QED BY <2>1, <2>2, <3>1, <4>1 DEF ClaimOf, Fresh, Owned
      <3>2. CASE v # w
        <4>1. Holds(sender[v], o)
          BY <1>6, <2>2, <3>2, RowsAreTyped
        <4> QED BY <2>1, <2>2, <3>2, <4>1 DEF ClaimOf, Fresh, Owned, Exhausted, Claimable
      <3> QED BY <3>1, <3>2
    <2>3. StaleHolders(o)' \subseteq StaleHolders(o)
      BY <2>2 DEF StaleHolders, Holds
    <2>4. Posters(o)' \subseteq Posters(o)
      BY <1>6, <1>7, RowsAreTyped DEF Posters
    <2> QED BY <2>3, <2>4
  <1>11. CopyInv'
    <2>1. Spent' = Spent /\ Pending' = Pending /\ Spent \in Nat
      BY <1>1, SpentIsCounted DEF Spent, Pending, OutInv
    <2>2. \A o \in Operation : Cardinality(StaleHolders(o)') <= Cardinality(StaleHolders(o))
      BY <1>10, NoMore, CountsAreFinite
    <2> QED BY <1>1, <1>8, <1>10, <2>1, <2>2, CountsKept, CountsAreFinite
  <1> QED BY <1>8, <1>9, <1>11 DEF OutInv

\* What the portal and the operators change is one row, and what is shown of it.
ChangesRow(o, row, display) ==
    /\ o \in Operation /\ row \in Row(Sender) /\ display \in Shown
    /\ row.status # "ABSENT" => display = ShownFor(row.status)
    /\ op' = [op EXCEPT ![o] = row]
    /\ shown' = [shown EXCEPT ![o] = display]

\* Anything but a worker's step changes a row or ripens it, and leaves Jira and
\* the workers as they are.
LEMMA RowChangesTyped ==
    ASSUME OutInv, NEW o, NEW row, NEW display, ChangesRow(o, row, display),
           linked' \in [Operation -> BOOLEAN], operator' \in [Operator -> OperatorState],
           UNCHANGED <<mapping, posted, imported, sender, left>>, UNCHANGED Inbound
    PROVE  TypeInv' /\ ShownIsTrue'
  <1>1. UNCHANGED <<status, jiraAt, synced, event, importer>>
    BY DEF Inbound
  <1>2. op' \in [Operation -> Row(Sender)] /\ shown' \in [Operation -> Shown]
    BY RowsAreTyped DEF ChangesRow
  <1>3. TypeInv'
    BY <1>1, <1>2 DEF OutInv, TypeInv, TypeOK, OutboxTypeOK, InboundTypeOK, SenderFits, ImporterFits
  <1>4. ShownIsTrue'
    <2> SUFFICES ASSUME NEW p \in Operation, op'[p].status # "ABSENT"
                 PROVE  \/ op'[p] = op[p] /\ shown'[p] = shown[p]
                        \/ shown'[p] = ShownFor(op'[p].status)
      BY <1>1 DEF OutInv, ShownIsTrue
    <2> QED BY RowsAreTyped DEF ChangesRow
  <1> QED BY <1>3, <1>4

\* When the row that changes had no lease that ran, or keeps what it had, nobody
\* loses one.
LEMMA CreationKeepsInv ==
    ASSUME OutInv, NEW o, NEW row, NEW display, ChangesRow(o, row, display),
           op[o].status = "ABSENT",
           UNCHANGED <<mapping, linked, posted, imported, sender, operator, left>>,
           UNCHANGED Inbound
    PROVE  OutInv'
  <1>1. TypeInv' /\ ShownIsTrue'
    BY RowChangesTyped, RowsAreTyped
  <1>2. ASSUME NEW p \in Operation
        PROVE  StaleHolders(p)' \subseteq StaleHolders(p) /\ Posters(p)' = Posters(p)
    <2>1. \A w \in Sender : Fresh(p, w) => Fresh(p, w)'
      BY RowsAreTyped DEF ChangesRow, Fresh, Owned
    <2> QED BY <2>1 DEF StaleHolders, Posters, Holds
  <1>3. Spent' = Spent /\ Pending' = Pending /\ Spent \in Nat
    BY SpentIsCounted DEF Spent, Pending, OutInv
  <1>4. \A p \in Operation : Cardinality(StaleHolders(p)') <= Cardinality(StaleHolders(p))
    BY <1>2, NoMore, CountsAreFinite
  <1> QED BY <1>1, <1>2, <1>3, <1>4, CountsKept, CountsAreFinite DEF OutInv

LEMMA AbsentIsAbsent ==
    ASSUME OutInv, NEW o \in Operation, shown[o] = "ABSENT"
    PROVE  op[o].status = "ABSENT"
  BY DEF OutInv, ShownIsTrue, ShownFor

LEMMA CreateRequestKeepsInv ==
    ASSUME OutInv, NEW r \in Request, CreateRequest(r), UNCHANGED Inbound
    PROVE  OutInv'
  <1>1. r \in Operation /\ op[r].status = "ABSENT" /\ op[r] \in Row(Sender)
    BY AbsentIsAbsent, RowsAreTyped DEF CreateRequest, Operation
  <1>2. CASE mapping
    <2>1. ChangesRow(r, PendingRow, "PENDING")
      BY <1>1, <1>2, RowsAreRows DEF ChangesRow, CreateRequest, ShownFor, Shown
    <2> QED BY <1>1, <2>1, CreationKeepsInv DEF CreateRequest
  <1>3. CASE ~ mapping
    <2>1. ChangesRow(r, op[r], "NONE")
      BY <1>1, <1>3, RowsAreTyped DEF ChangesRow, CreateRequest, ShownFor, Shown
    <2> QED BY <1>1, <2>1, CreationKeepsInv DEF CreateRequest
  <1> QED BY <1>2, <1>3

LEMMA AddMessageKeepsInv ==
    ASSUME OutInv, NEW m \in Message, AddMessage(m), UNCHANGED Inbound
    PROVE  OutInv'
  <1> DEFINE enqueue == mapping /\ shown[Owner[m]] = "DONE" /\ linked[Owner[m]]
  <1>1. m \in Operation /\ op[m].status = "ABSENT" /\ op[m] \in Row(Sender)
    BY AbsentIsAbsent, RowsAreTyped DEF AddMessage, Operation
  <1>2. CASE enqueue
    <2>1. ChangesRow(m, PendingRow, "PENDING")
      BY <1>1, <1>2, RowsAreRows DEF ChangesRow, AddMessage, ShownFor, Shown
    <2> QED BY <1>1, <2>1, CreationKeepsInv DEF AddMessage
  <1>3. CASE ~ enqueue
    <2>1. ChangesRow(m, op[m], "NONE")
      BY <1>1, <1>3, RowsAreTyped DEF ChangesRow, AddMessage, ShownFor, Shown
    <2> QED BY <1>1, <2>1, CreationKeepsInv DEF AddMessage
  <1> QED BY <1>2, <1>3

\* An operator's command: the check is paid for, the change uses the payment up.
LEMMA OperatorPays ==
    ASSUME OutInv, Spend("operator")
    PROVE  /\ Spent' = Spent + 1 /\ Spent \in Nat
           /\ left' \in [Disturbance -> Nat] /\ \A k \in Disturbance : left'[k] <= Allowance[k]
  <1>1. /\ left' \in [Disturbance -> Nat] /\ \A j \in Disturbance : left'[j] <= left[j]
        /\ left'["operator"] = left["operator"] - 1 /\ left'["lapse"] = left["lapse"]
        /\ left'["page"] = left["page"]
    BY SpendLess DEF OutInv, Disturbance
  <1>2. left \in [Disturbance -> Nat] /\ Allowance \in [Disturbance -> Nat]
        /\ \A j \in Disturbance : left[j] <= Allowance[j]
    BY RowsAreTyped, JiraAssumption DEF OutInv, TypeInv
  <1>3. Spent' = Spent + 1
    BY <1>1, <1>2 DEF Spent, Disturbance
  <1> QED BY <1>1, <1>2, <1>3, SpentIsCounted DEF OutInv

LEMMA EditKeepsInv ==
    ASSUME OutInv, EditMapping, UNCHANGED Inbound
    PROVE  OutInv'
  <1>1. UNCHANGED <<op, shown, linked, posted, imported, sender, operator, status, jiraAt, synced,
                    event, importer>>
        /\ mapping' \in BOOLEAN /\ Spend("operator")
    BY RowsAreTyped DEF EditMapping, Inbound
  <1>2. TypeInv'
    BY <1>1, OperatorPays
      DEF OutInv, TypeInv, TypeOK, OutboxTypeOK, InboundTypeOK, SenderFits, ImporterFits
  <1>3. ShownIsTrue'
    BY <1>1 DEF OutInv, ShownIsTrue
  <1>4. Pending' = Pending /\ \A o \in Operation : /\ StaleHolders(o)' = StaleHolders(o)
                                                   /\ Posters(o)' = Posters(o)
    BY <1>1 DEF Pending, StaleHolders, Posters, Fresh, Owned, Holds
  <1> QED BY <1>1, <1>2, <1>3, <1>4, OperatorPays, CountsKept, CountsAreFinite DEF OutInv

LEMMA CheckKeepsInv ==
    ASSUME OutInv, NEW p \in Operator, NEW o \in Operation, CheckOperation(p, o), UNCHANGED Inbound
    PROVE  OutInv'
  <1>1. UNCHANGED <<mapping, op, shown, linked, posted, imported, sender, status, jiraAt, synced,
                    event, importer>> /\ Spend("operator")
    BY DEF CheckOperation, Inbound
  <1>2. PICK x \in OperatorState : operator' = [operator EXCEPT ![p] = x]
    <2>1. [retry |-> TRUE, op |-> o] \in OperatorState /\ [retry |-> FALSE, op |-> o] \in OperatorState
      BY DEF OperatorState
    <2> QED BY <2>1 DEF CheckOperation
  <1>3. TypeInv'
    BY <1>1, <1>2, OperatorPays
      DEF OutInv, TypeInv, TypeOK, OutboxTypeOK, InboundTypeOK, SenderFits, ImporterFits
  <1>4. ShownIsTrue'
    BY <1>1 DEF OutInv, ShownIsTrue
  <1>5. \A q \in Operation : StaleHolders(q)' = StaleHolders(q) /\ Posters(q)' = Posters(q)
    BY <1>1 DEF StaleHolders, Posters, Fresh, Owned, Holds
  <1>6. Cardinality(Pending') <= Cardinality(Pending) + 1
    <2>1. Pending' \subseteq Pending \cup {p}
      BY <1>2, RowsAreTyped DEF Pending
    <2> QED BY <2>1, OneMore, CountsAreFinite
  <1> QED BY <1>1, <1>3, <1>4, <1>5, <1>6, OperatorPays, CountsKept, CountsAreFinite DEF OutInv

\* The change itself: its operator is no longer pending, and of the workers that
\* hold the row at most one loses its lease.
LEMMA CommandKeepsInv ==
    ASSUME OutInv, NEW p \in Operator, operator[p] # None,
           NEW o, NEW row, NEW display, ChangesRow(o, row, display),
           linked' \in [Operation -> BOOLEAN], operator' = [operator EXCEPT ![p] = None],
           UNCHANGED <<mapping, posted, imported, sender, left>>, UNCHANGED Inbound
    PROVE  OutInv'
  <1>1. operator' \in [Operator -> OperatorState]
    BY RowsAreTyped DEF OperatorState
  <1>2. TypeInv' /\ ShownIsTrue'
    BY <1>1, RowChangesTyped
  <1>3. Spent' = Spent /\ Spent \in Nat
    BY SpentIsCounted DEF Spent, OutInv
  <1>4. Cardinality(Pending') <= Cardinality(Pending) - 1
    <2>1. p \in Pending /\ Pending' \subseteq Pending \ {p}
      BY RowsAreTyped DEF Pending
    <2> QED BY <2>1, OneLess, CountsAreFinite
  <1>5. ASSUME NEW q \in Operation
        PROVE  /\ Posters(q)' = Posters(q)
               /\ Cardinality(StaleHolders(q)') <= Cardinality(StaleHolders(q)) + 1
    <2>1. StaleHolders(q)' \subseteq StaleHolders(q) \cup {op[q].lease}
      BY DEF StaleHolders, Fresh, Owned, Holds
    <2> QED BY <2>1, OneMore, CountsAreFinite DEF Posters
  <1> QED BY <1>2, <1>3, <1>4, <1>5, CountsKept, CountsAreFinite DEF OutInv

LEMMA CommandIs ==
    ASSUME OutInv, NEW p \in Operator, operator[p] # None
    PROVE  operator[p].op \in Operation /\ op[operator[p].op] \in Row(Sender)
  BY RowsAreTyped DEF OperatorState

LEMMA RetryKeepsInv ==
    ASSUME OutInv, NEW p \in Operator, RetryOperation(p), UNCHANGED Inbound
    PROVE  OutInv'
  <1>1. PICK o : o = operator[p].op
    OBVIOUS
  <1>2. o \in Operation
    BY <1>1, CommandIs DEF RetryOperation
  <1>3. ChangesRow(o, PendingRow, "PENDING")
    BY <1>1, <1>2, RowsAreRows DEF ChangesRow, RetryOperation, ShownFor, Shown
  <1>4. linked' \in [Operation -> BOOLEAN]
    BY <1>1, <1>2, RowsAreTyped DEF RetryOperation
  <1> QED BY <1>3, <1>4, CommandKeepsInv DEF RetryOperation

LEMMA BuryKeepsInv ==
    ASSUME OutInv, NEW p \in Operator, BuryOperation(p), UNCHANGED Inbound
    PROVE  OutInv'
  <1>1. PICK o : o = operator[p].op
    OBVIOUS
  <1>2. o \in Operation /\ op[o] \in Row(Sender)
    BY <1>1, CommandIs DEF BuryOperation
  <1>3. PICK row : row = Ended(op[o], "DEAD_LETTER")
    OBVIOUS
  <1>4. row \in Row(Sender) /\ row.status = "DEAD_LETTER"
    BY <1>2, <1>3, EndedRows DEF RowStatus
  <1>5. op' = [op EXCEPT ![o] = row] /\ shown' = [shown EXCEPT ![o] = "DEAD_LETTER"]
    BY <1>1, <1>3 DEF BuryOperation
  <1>6. ChangesRow(o, row, "DEAD_LETTER")
    BY <1>2, <1>4, <1>5 DEF ChangesRow, ShownFor, Shown
  <1> QED BY <1>6, CommandKeepsInv, RowsAreTyped DEF BuryOperation

\* A lease that runs out under a worker still at it is a lapse; any other was
\* nobody's.
LEMMA RipensKeepsInv ==
    ASSUME OutInv, NEW o \in Operation, OperationRipens(o), UNCHANGED Inbound
    PROVE  OutInv'
  <1>1. UNCHANGED <<mapping, shown, linked, posted, imported, sender, operator, status, jiraAt,
                    synced, event, importer>>
    BY DEF OperationRipens, Inbound
  <1>2. PICK row : row = Ripened(op[o])
    OBVIOUS
  <1>3. /\ row \in Row(Sender) /\ row.status = op[o].status /\ row.lease = op[o].lease /\ row.ripe
        /\ op' = [op EXCEPT ![o] = row]
    BY <1>2, RipenedRows, RowsAreTyped DEF OperationRipens
  <1>4. op' \in [Operation -> Row(Sender)]
    BY <1>3, RowsAreTyped
  <1>5. ShownIsTrue'
    BY <1>1, <1>3, RowsAreTyped DEF OutInv, ShownIsTrue
  <1>6. Pending' = Pending /\ \A q \in Operation : Posters(q)' = Posters(q)
    BY <1>1 DEF Pending, Posters
  <1>7. CASE Spend("lapse")
    <2>1. /\ left' \in [Disturbance -> Nat] /\ \A j \in Disturbance : left'[j] <= left[j]
          /\ left'["lapse"] = left["lapse"] - 1 /\ left'["operator"] = left["operator"]
          /\ left'["page"] = left["page"]
      BY <1>7, SpendLess DEF OutInv, Disturbance
    <2>2. left \in [Disturbance -> Nat] /\ Allowance \in [Disturbance -> Nat]
          /\ \A j \in Disturbance : left[j] <= Allowance[j]
      BY RowsAreTyped, JiraAssumption DEF OutInv, TypeInv
    <2>3. Spent' = Spent + 1 /\ Spent \in Nat
      BY <2>1, <2>2, SpentIsCounted DEF Spent, Disturbance, OutInv
    <2>4. TypeInv'
      BY <1>1, <1>4, <2>1, <2>2
        DEF OutInv, TypeInv, TypeOK, OutboxTypeOK, InboundTypeOK, SenderFits, ImporterFits
    <2>5. ASSUME NEW q \in Operation
          PROVE  Cardinality(StaleHolders(q)') <= Cardinality(StaleHolders(q)) + 1
      <3>1. StaleHolders(q)' \subseteq StaleHolders(q) \cup {op[q].lease}
        BY <1>1 DEF StaleHolders, Fresh, Owned, Holds
      <3> QED BY <3>1, OneMore, CountsAreFinite
    <2> QED BY <1>1, <1>5, <1>6, <2>3, <2>4, <2>5, CountsKept, CountsAreFinite DEF OutInv
  <1>8. CASE left' = left /\ ~ (op[o].status = "PROCESSING" /\ Working(o))
    <2>1. TypeInv'
      BY <1>1, <1>4, <1>8
        DEF OutInv, TypeInv, TypeOK, OutboxTypeOK, InboundTypeOK, SenderFits, ImporterFits
    <2>2. Spent' = Spent /\ Spent \in Nat
      BY <1>8, SpentIsCounted DEF Spent, OutInv
    <2>3. ASSUME NEW q \in Operation
          PROVE  StaleHolders(q)' \subseteq StaleHolders(q)
      <3>1. CASE q = o
        <4>1. \A w \in Sender : Holds(sender[w], o) => ~ Fresh(o, w)
          BY <1>8 DEF Working, Holds, Fresh, Owned
        <4> QED BY <1>1, <3>1, <4>1 DEF StaleHolders, Holds
      <3>2. CASE q # o
        BY <1>1, <1>3, <3>2, RowsAreTyped DEF StaleHolders, Holds, Fresh, Owned
      <3> QED BY <3>1, <3>2
    <2>4. \A q \in Operation : Cardinality(StaleHolders(q)') <= Cardinality(StaleHolders(q))
      BY <2>3, NoMore, CountsAreFinite
    <2> QED BY <1>1, <1>5, <1>6, <2>1, <2>2, <2>4, CountsKept, CountsAreFinite DEF OutInv
  <1> QED BY <1>7, <1>8 DEF OperationRipens

-----------------------------------------------------------------------------
(* What comes in. *)

Completed(e) == event[e].status = "COMPLETED"

\* Nothing that was applied is undone, and a status event is applied together
\* with its effect.
Applies ==
    \/ /\ UNCHANGED <<jiraAt, synced>>
       /\ \A e \in Event : Kind(e) = "status" => Completed(e)' = Completed(e)
    \/ \E e \in Event :
          /\ Kind(e) = "status" /\ ~ Completed(e) /\ Completed(e)'
          /\ \A f \in Event \ {e} : Completed(f)' = Completed(f)
          /\ jiraAt[Subject(e)] < Payload[e].at
          /\ jiraAt' = [jiraAt EXCEPT ![Subject(e)] = Payload[e].at]
          /\ synced' = [synced EXCEPT ![Subject(e)] = @ + 1]

\* What an inbound step does to the outbound side: at most it marks a request
\* whose issue was deleted.
Comes ==
    /\ UNCHANGED <<mapping, op, linked, posted, sender, operator>>
    /\ left' = left \/ \E k \in Disturbance : Spend(k)
    /\ InboundTypeOK' /\ \A v \in Importer : ImporterFits(importer'[v])
    /\ \A e \in Event : Completed(e) => Completed(e)'
    /\ \/ shown' = shown
       \/ \E e \in Event : /\ Kind(e) = "deleted" /\ Completed(e)'
                           /\ shown' = [shown EXCEPT ![Subject(e)] = "FAILED"]
    /\ Applies

LEMMA PayloadFits ==
    ASSUME NEW e \in Event
    PROVE  /\ Kind(e) \in {"status", "comment", "deleted", "other"}
           /\ Kind(e) # "comment" => Subject(e) \in Request
           /\ Kind(e) = "comment" => Subject(e) \in Comment \cup Message
           /\ Kind(e) \in {"status", "comment"} => Payload[e].at \in Nat \ {0}
           /\ Kind(e) = "status" => Payload[e].status \in PortalStatus
  <1>1. Payload[e] \in PayloadSet
    BY InboundAssumption
  <1>2. CASE Payload[e] \in [kind : {"status"}, request : Request, at : Nat \ {0},
                             status : PortalStatus]
    BY <1>2 DEF Kind, Subject
  <1>3. CASE Payload[e] \in [kind : {"comment"}, request : Request,
                             comment : Comment \cup Message, at : Nat \ {0}]
    BY <1>3 DEF Kind, Subject
  <1>4. CASE Payload[e] \in [kind : {"deleted", "other"}, request : Request]
    BY <1>4 DEF Kind, Subject
  <1> QED BY <1>1, <1>2, <1>3, <1>4 DEF PayloadSet

LEMMA InboundIsTyped ==
    ASSUME OutInv
    PROVE  /\ InboundTypeOK /\ event \in [Event -> Row(Importer)]
           /\ importer \in [Importer -> ImporterState]
           /\ \A v \in Importer : ImporterFits(importer[v])
  BY DEF OutInv, TypeInv, TypeOK, InboundTypeOK

ImporterOK(x) == x \in ImporterState /\ ImporterFits(x)

NextEvent1(s) == IF s.batch = {} THEN IdleImporter
                 ELSE [IdleImporter EXCEPT !.pc = "next", !.batch = s.batch]

LEMMA IdleImporterIsOK == ImporterOK(IdleImporter)
  BY DEF ImporterOK, IdleImporter, ImporterState, ImporterFits, PortalStatus

LEMMA NextEventIsOK ==
    ASSUME NEW s, s.batch \in SUBSET Event
    PROVE  ImporterOK(NextEvent1(s))
  <1>1. CASE s.batch = {}
    BY <1>1, IdleImporterIsOK DEF NextEvent1
  <1>2. CASE s.batch # {}
    <2>1. NextEvent1(s) = [pc |-> "next", batch |-> s.batch, at |-> None, status |-> "NEW",
                           jiraAt |-> 0, version |-> 0]
      BY <1>2 DEF NextEvent1, IdleImporter
    <2> QED BY <2>1 DEF ImporterOK, ImporterState, ImporterFits, PortalStatus
  <1> QED BY <1>1, <1>2

LEMMA NextEventMoves ==
    ASSUME OutInv, NEW w \in Importer, NextEvent(w)
    PROVE  importer' \in [Importer -> ImporterState]
           /\ \A v \in Importer : ImporterFits(importer'[v])
  <1>1. importer[w].batch \in SUBSET Event
    BY InboundIsTyped DEF ImporterState
  <1>2. PICK x : x = NextEvent1(importer[w])
    OBVIOUS
  <1>3. importer' = [importer EXCEPT ![w] = x]
    BY <1>2 DEF NextEvent, NextEvent1
  <1>4. ImporterOK(x)
    BY <1>1, <1>2, NextEventIsOK
  <1> QED BY <1>3, <1>4, InboundIsTyped DEF ImporterOK

LEMMA ImporterMoves ==
    ASSUME OutInv, NEW w \in Importer, NEW x, ImporterOK(x),
           importer' = [importer EXCEPT ![w] = x]
    PROVE  importer' \in [Importer -> ImporterState]
           /\ \A v \in Importer : ImporterFits(importer'[v])
  BY InboundIsTyped DEF ImporterOK

\* Inbound steps that neither apply nor change anything but a worker's place and
\* a row that is not completed.
LEMMA QuietComes ==
    ASSUME OutInv, UNCHANGED <<outVars, status, jiraAt, synced, imported>>,
           left' = left \/ \E k \in Disturbance : Spend(k),
           event' \in [Event -> Row(Importer)],
           importer' \in [Importer -> ImporterState],
           \A v \in Importer : ImporterFits(importer'[v]),
           \A e \in Event : Completed(e)' = Completed(e)
    PROVE  Comes
  BY InboundIsTyped DEF Comes, Applies, outVars, InboundTypeOK

LEMMA IngestComes ==
    ASSUME OutInv, NEW e \in Event, Ingest(e)
    PROVE  Comes
  <1>1. event' \in [Event -> Row(Importer)] /\ \A f \in Event : Completed(f)' = Completed(f)
    BY InboundIsTyped, RowsAreRows DEF Ingest, Completed
  <1> QED BY <1>1, InboundIsTyped, QuietComes DEF Ingest

LEMMA ClaimEventsComes ==
    ASSUME OutInv, NEW w \in Importer, ClaimEvents(w)
    PROVE  Comes
  <1>1. PICK S \in Batches(event) :
          /\ event' = AfterClaim(event, w, S)
          /\ importer' = [importer EXCEPT ![w] =
                            IF S = {} THEN IdleImporter
                            ELSE [IdleImporter EXCEPT !.pc = "next", !.batch = S]]
    BY DEF ClaimEvents
  <1>2. /\ S \in SUBSET Event /\ event' \in [Event -> Row(Importer)]
        /\ \A e \in Event : ClaimOf(event[e], event'[e], w, e \in S)
    BY <1>1, InboundIsTyped, ClaimRows
  <1>3. \A e \in Event : Completed(e)' = Completed(e)
    BY <1>2 DEF Completed, ClaimOf, Exhausted, Claimable
  <1>4. PICK s : s.batch = S
    <2>1. [batch |-> S].batch = S
      OBVIOUS
    <2> QED BY <2>1
  <1>5. PICK x : x = NextEvent1(s)
    OBVIOUS
  <1>6. ImporterOK(x) /\ importer' = [importer EXCEPT ![w] = x]
    <2>1. ImporterOK(x)
      BY <1>2, <1>4, <1>5, NextEventIsOK
    <2>2. importer' = [importer EXCEPT ![w] = x]
      BY <1>1, <1>4, <1>5 DEF NextEvent1
    <2> QED BY <2>1, <2>2
  <1> QED BY <1>2, <1>3, <1>6, ImporterMoves, QuietComes DEF ClaimEvents

Begun(s, e, st, n) ==
    LET t == [s EXCEPT !.batch = @ \ {e}, !.at = e]
    IN  {[t EXCEPT !.pc = "apply", !.version = n],
         [t EXCEPT !.pc = "apply", !.status = st, !.jiraAt = n],
         [t EXCEPT !.pc = "fail"]}

LEMMA BegunIsOK ==
    ASSUME NEW s \in ImporterState, NEW e \in s.batch, NEW st \in PortalStatus, NEW n \in Nat,
           NEW x \in Begun(s, e, st, n)
    PROVE  ImporterOK(x)
  <1> DEFINE t == [s EXCEPT !.batch = @ \ {e}, !.at = e]
  <1>1. t \in ImporterState /\ t.at = e /\ e \in Event
    BY DEF ImporterState
  <1>2. \/ x = [t EXCEPT !.pc = "apply", !.version = n]
        \/ x = [t EXCEPT !.pc = "apply", !.status = st, !.jiraAt = n]
        \/ x = [t EXCEPT !.pc = "fail"]
    BY DEF Begun
  <1> HIDE DEF t
  <1> QED BY <1>1, <1>2 DEF ImporterOK, ImporterState, ImporterFits

LEMMA ReadEventComes ==
    ASSUME OutInv, NEW w \in Importer, ReadEvent(w)
    PROVE  Comes
  <1> DEFINE s == importer[w]
  <1>1. s \in ImporterState /\ jiraAt \in [Request -> Nat] /\ status \in [Request -> PortalStatus]
        /\ imported \in [Comment \cup Message -> Nat]
    BY InboundIsTyped DEF InboundTypeOK
  <1>2. PICK e \in s.batch :
          \/ /\ Kind(e) = "comment" /\ left' = left
             /\ \E x \in Begun(s, e, "NEW", IF Own(e) THEN Payload[e].at
                                             ELSE imported[Subject(e)]) :
                   importer' = [importer EXCEPT ![w] = x]
          \/ /\ Kind(e) # "comment" /\ left' = left
             /\ \E x \in Begun(s, e, status[Subject(e)], jiraAt[Subject(e)]) :
                   importer' = [importer EXCEPT ![w] = x]
          \/ /\ Spend("fault")
             /\ \E x \in Begun(s, e, "NEW", 0) : importer' = [importer EXCEPT ![w] = x]
    BY DEF ReadEvent, Begun
  <1>3. e \in Event /\ "NEW" \in PortalStatus /\ 0 \in Nat
    BY <1>1 DEF ImporterState, PortalStatus
  <1>4. /\ Kind(e) = "comment" =>
              (IF Own(e) THEN Payload[e].at ELSE imported[Subject(e)]) \in Nat
        /\ Kind(e) # "comment" =>
              status[Subject(e)] \in PortalStatus /\ jiraAt[Subject(e)] \in Nat
    BY <1>1, <1>3, PayloadFits
  <1>5. PICK st \in PortalStatus, n \in Nat :
          \E x \in Begun(s, e, st, n) : importer' = [importer EXCEPT ![w] = x]
    BY <1>2, <1>3, <1>4
  <1>6. PICK x \in Begun(s, e, st, n) : importer' = [importer EXCEPT ![w] = x]
    BY <1>5
  <1>7. ImporterOK(x)
    BY <1>1, BegunIsOK
  <1>8. event' \in [Event -> Row(Importer)] /\ \A f \in Event : Completed(f)' = Completed(f)
    BY InboundIsTyped DEF ReadEvent, Completed
  <1>9. left' = left \/ Spend("fault")
    BY <1>2
  <1> QED BY <1>6, <1>7, <1>8, <1>9, ImporterMoves, QuietComes DEF ReadEvent, Disturbance

LEMMA FailEventComes ==
    ASSUME OutInv, NEW w \in Importer, FailEvent(w)
    PROVE  Comes
  <1> DEFINE e == importer[w].at
  <1>1. e \in Event /\ event[e] \in Row(Importer)
    BY InboundIsTyped DEF FailEvent, ImporterFits
  <1>2. CASE /\ Owned(event[e], w) /\ event' = [event EXCEPT ![e] = Failed(@, FALSE)]
             /\ NextEvent(w) /\ left' = left
    <2>1. PICK row : row = Failed(event[e], FALSE)
      OBVIOUS
    <2>2. row \in Row(Importer) /\ row.status # "COMPLETED"
      BY <1>1, <2>1, FailedRows
    <2>3. event' = [event EXCEPT ![e] = row]
      BY <1>2, <2>1
    <2>4. event' \in [Event -> Row(Importer)] /\ \A f \in Event : Completed(f)' = Completed(f)
      BY <1>1, <1>2, <2>2, <2>3, InboundIsTyped DEF Completed, Owned
    <2> QED BY <1>2, <2>4, NextEventMoves, QuietComes DEF FailEvent
  <1>3. CASE /\ importer' = [importer EXCEPT ![w] = IdleImporter] /\ event' = event
             /\ left' = left \/ Spend("fault")
    <2>1. event' \in [Event -> Row(Importer)] /\ \A f \in Event : Completed(f)' = Completed(f)
      BY <1>3, InboundIsTyped DEF Completed
    <2> QED BY <1>3, <2>1, IdleImporterIsOK, ImporterMoves, QuietComes DEF FailEvent, Disturbance
  <1> QED BY <1>2, <1>3 DEF FailEvent

LEMMA ImporterCrashComes ==
    ASSUME OutInv, NEW w \in Importer, ImporterCrash(w)
    PROVE  Comes
  <1>1. event' \in [Event -> Row(Importer)] /\ \A f \in Event : Completed(f)' = Completed(f)
    BY InboundIsTyped DEF ImporterCrash, Completed
  <1> QED BY <1>1, IdleImporterIsOK, ImporterMoves, QuietComes DEF ImporterCrash, Disturbance

LEMMA EventRipensComes ==
    ASSUME OutInv, NEW e \in Event, EventRipens(e)
    PROVE  Comes
  <1>1. PICK row : row = Ripened(event[e])
    OBVIOUS
  <1>2. row \in Row(Importer) /\ row.status = event[e].status
    BY <1>1, RipenedRows, InboundIsTyped
  <1>3. event' = [event EXCEPT ![e] = row]
    BY <1>1 DEF EventRipens
  <1>4. event' \in [Event -> Row(Importer)] /\ \A f \in Event : Completed(f)' = Completed(f)
    BY <1>2, <1>3, InboundIsTyped DEF Completed
  <1> QED BY <1>4, InboundIsTyped, QuietComes DEF EventRipens, Disturbance

LEMMA OperateEventComes ==
    ASSUME OutInv, NEW e \in Event, OperateEvent(e)
    PROVE  Comes
  <1>1. PICK row \in Row(Importer) : row.status # "COMPLETED" /\ event' = [event EXCEPT ![e] = row]
                                     /\ event[e].status \in {"FAILED", "DEAD_LETTER"}
    <2>1. /\ PendingRow \in Row(Importer) /\ PendingRow.status = "PENDING"
          /\ Ended(event[e], "DEAD_LETTER") \in Row(Importer)
          /\ Ended(event[e], "DEAD_LETTER").status = "DEAD_LETTER"
      BY RowsAreRows, EndedRows, InboundIsTyped DEF RowStatus
    <2> QED BY <2>1 DEF OperateEvent
  <1>2. event' \in [Event -> Row(Importer)] /\ \A f \in Event : Completed(f)' = Completed(f)
    BY <1>1, InboundIsTyped DEF Completed
  <1> QED BY <1>2, InboundIsTyped, QuietComes DEF OperateEvent, Disturbance

LEMMA SetStatusComes ==
    ASSUME OutInv, NEW r \in Request, NEW s \in PortalStatus, SetStatus(r, s)
    PROVE  Comes
  <1>1. InboundTypeOK'
    BY InboundIsTyped DEF SetStatus, InboundTypeOK
  <1> QED BY <1>1, InboundIsTyped DEF SetStatus, Comes, Applies, Completed, outVars, Disturbance

LEMMA FinishMoves ==
    ASSUME OutInv, NEW w \in Importer, NEW e \in Event, e = importer[w].at, Owned(event[e], w),
           NEW result \in {"COMPLETED", "IGNORED"}, Finish(w, result)
    PROVE  /\ importer' \in [Importer -> ImporterState]
           /\ \A v \in Importer : ImporterFits(importer'[v])
           /\ event' \in [Event -> Row(Importer)]
           /\ ~ Completed(e) /\ (Completed(e)' <=> result = "COMPLETED")
           /\ \A f \in Event \ {e} : Completed(f)' = Completed(f)
  <1>1. PICK row : row = Ended(event[e], result)
    OBVIOUS
  <1>2. row \in Row(Importer) /\ row.status = result
    BY <1>1, EndedRows, InboundIsTyped DEF RowStatus
  <1>3. event' = [event EXCEPT ![e] = row]
    BY <1>1 DEF Finish
  <1>4. NextEvent(w)
    BY DEF Finish
  <1> QED BY <1>2, <1>3, <1>4, InboundIsTyped, NextEventMoves DEF Completed, Owned

LEMMA ApplyComes ==
    ASSUME OutInv, NEW w \in Importer, ApplyEvent(w)
    PROVE  Comes
  <1>1. PICK e \in Event : e = importer[w].at
    BY InboundIsTyped DEF ApplyEvent, ImporterFits
  <1>2. UNCHANGED <<mapping, op, linked, posted, sender, operator>>
    BY DEF ApplyEvent
  <1>3. /\ status \in [Request -> PortalStatus] /\ jiraAt \in [Request -> Nat]
        /\ synced \in [Request -> Nat] /\ imported \in [Comment \cup Message -> Nat]
    BY InboundIsTyped DEF InboundTypeOK
  <1>4. CASE Throws(w) /\ (left' = left \/ Spend("fault"))
    <2>1. PICK x : x = [importer[w] EXCEPT !.pc = "fail"]
      OBVIOUS
    <2>2. ImporterOK(x)
      BY <1>1, <2>1, InboundIsTyped DEF ImporterOK, ImporterState, ImporterFits
    <2>3. importer' = [importer EXCEPT ![w] = x]
      BY <1>4, <2>1, InboundIsTyped DEF Throws
    <2>4. UNCHANGED outVars /\ UNCHANGED <<status, jiraAt, synced, imported, event>>
      BY <1>2, <1>4 DEF outVars, Throws
    <2>5. \A f \in Event : Completed(f)' = Completed(f)
      BY <2>4 DEF Completed
    <2> QED BY <1>4, <2>2, <2>3, <2>4, <2>5, ImporterMoves, QuietComes, InboundIsTyped DEF Disturbance
  <1>5. CASE /\ MayFinish(w) /\ left' = left
             /\ ApplyStatus(w) \/ ApplyComment(w) \/ ApplyDeleted(w) \/ IgnoreOther(w)
    <2>1. Owned(event[e], w)
      BY <1>1, <1>5 DEF MayFinish
    <2>2. CASE ApplyStatus(w)
      <3>1. Kind(e) = "status" /\ Subject(e) \in Request /\ Payload[e].at \in Nat
            /\ Payload[e].status \in PortalStatus /\ UNCHANGED <<imported, shown>>
        BY <1>1, <2>2, PayloadFits DEF ApplyStatus
      <3>2. CASE /\ jiraAt[Subject(e)] < Payload[e].at
                 /\ status' = [status EXCEPT ![Subject(e)] =
                                 IF Decision(w) = "APPLY" THEN Payload[e].status ELSE @]
                 /\ jiraAt' = [jiraAt EXCEPT ![Subject(e)] = Payload[e].at]
                 /\ synced' = [synced EXCEPT ![Subject(e)] = @ + 1]
                 /\ Finish(w, "COMPLETED")
        <4>1. /\ status' \in [Request -> PortalStatus] /\ jiraAt' \in [Request -> Nat]
              /\ synced' \in [Request -> Nat]
          BY <1>3, <3>1, <3>2
        <4>2. /\ importer' \in [Importer -> ImporterState]
              /\ \A v \in Importer : ImporterFits(importer'[v])
              /\ event' \in [Event -> Row(Importer)]
              /\ ~ Completed(e) /\ Completed(e)'
              /\ \A f \in Event \ {e} : Completed(f)' = Completed(f)
          BY <1>1, <2>1, <3>2, FinishMoves
        <4>3. Applies
          BY <3>1, <3>2, <4>2 DEF Applies
        <4> QED BY <1>2, <1>3, <1>5, <3>1, <4>1, <4>2, <4>3 DEF Comes, InboundTypeOK
      <3>3. CASE Finish(w, "IGNORED") /\ UNCHANGED <<status, jiraAt, synced>>
        <4>1. /\ importer' \in [Importer -> ImporterState]
              /\ \A v \in Importer : ImporterFits(importer'[v])
              /\ event' \in [Event -> Row(Importer)]
              /\ \A f \in Event : Completed(f)' = Completed(f)
          BY <1>1, <2>1, <3>3, FinishMoves DEF Completed
        <4> QED BY <1>2, <1>3, <1>5, <3>1, <3>3, <4>1 DEF Comes, Applies, InboundTypeOK
      <3> QED BY <1>1, <2>2, <3>2, <3>3 DEF ApplyStatus, StillNewer
    <2>3. CASE ApplyComment(w)
      <3>1. Kind(e) = "comment" /\ Subject(e) \in Comment \cup Message /\ Payload[e].at \in Nat
            /\ UNCHANGED <<shown, status, jiraAt, synced>>
        BY <1>1, <2>3, PayloadFits DEF ApplyComment
      <3>2. imported' \in [Comment \cup Message -> Nat]
        BY <1>1, <1>3, <2>3, <3>1 DEF ApplyComment
      <3>3. PICK result \in {"COMPLETED", "IGNORED"} : Finish(w, result)
        BY <2>3 DEF ApplyComment
      <3>4. /\ importer' \in [Importer -> ImporterState]
            /\ \A v \in Importer : ImporterFits(importer'[v])
            /\ event' \in [Event -> Row(Importer)]
            /\ ~ Completed(e)
            /\ \A f \in Event \ {e} : Completed(f)' = Completed(f)
        BY <1>1, <2>1, <3>3, FinishMoves
      <3> QED BY <1>2, <1>3, <1>5, <3>1, <3>2, <3>4 DEF Comes, Applies, InboundTypeOK
    <2>4. CASE ApplyDeleted(w)
      <3>1. Kind(e) = "deleted" /\ Finish(w, "COMPLETED")
            /\ UNCHANGED <<status, jiraAt, synced, imported>>
            /\ shown' = [shown EXCEPT ![Subject(e)] = "FAILED"]
        BY <1>1, <2>4 DEF ApplyDeleted
      <3>2. /\ importer' \in [Importer -> ImporterState]
            /\ \A v \in Importer : ImporterFits(importer'[v])
            /\ event' \in [Event -> Row(Importer)]
            /\ ~ Completed(e) /\ Completed(e)'
            /\ \A f \in Event \ {e} : Completed(f)' = Completed(f)
        BY <1>1, <2>1, <3>1, FinishMoves
      <3> QED BY <1>2, <1>3, <1>5, <3>1, <3>2 DEF Comes, Applies, InboundTypeOK
    <2>5. CASE IgnoreOther(w)
      <3>1. Finish(w, "IGNORED") /\ UNCHANGED <<shown, status, jiraAt, synced, imported>>
        BY <2>5 DEF IgnoreOther
      <3>2. /\ importer' \in [Importer -> ImporterState]
            /\ \A v \in Importer : ImporterFits(importer'[v])
            /\ event' \in [Event -> Row(Importer)]
            /\ \A f \in Event : Completed(f)' = Completed(f)
        BY <1>1, <2>1, <3>1, FinishMoves DEF Completed
      <3> QED BY <1>2, <1>3, <1>5, <3>1, <3>2 DEF Comes, Applies, InboundTypeOK
    <2> QED BY <1>5, <2>2, <2>3, <2>4, <2>5
  <1> QED BY <1>4, <1>5 DEF ApplyEvent

-----------------------------------------------------------------------------
(* Whatever comes in keeps the outbound invariant. *)

LEMMA ComesKeepsInv ==
    ASSUME OutInv, Comes
    PROVE  OutInv'
  <1>1. UNCHANGED <<mapping, op, linked, posted, sender, operator>>
    BY DEF Comes
  <1>2. /\ left' \in [Disturbance -> Nat] /\ \A k \in Disturbance : left'[k] <= Allowance[k]
        /\ Spent <= Spent' /\ Spent \in Nat
    <2>1. left' \in [Disturbance -> Nat] /\ \A k \in Disturbance : left'[k] <= left[k]
      <3>1. CASE left' = left
        BY <3>1, RowsAreTyped
      <3>2. CASE \E k \in Disturbance : Spend(k)
        BY <3>2, SpendLess DEF OutInv
      <3> QED BY <3>1, <3>2 DEF Comes
    <2>2. left \in [Disturbance -> Nat] /\ Allowance \in [Disturbance -> Nat]
          /\ \A k \in Disturbance : left[k] <= Allowance[k]
      BY RowsAreTyped, JiraAssumption DEF OutInv, TypeInv
    <2>3. Spent \in Nat
      BY SpentIsCounted DEF OutInv
    <2>4. \A k \in {"lapse", "page", "operator"} :
             left'[k] <= left[k] /\ left'[k] \in Nat /\ left[k] \in Nat /\ Allowance[k] \in Nat
      BY <2>1, <2>2 DEF Disturbance
    <2>5. Spent <= Spent'
      BY <2>4 DEF Spent
    <2> QED BY <2>1, <2>2, <2>3, <2>5
  <1>3. shown' \in [Operation -> Shown]
    BY RowsAreTyped DEF Comes, Shown
  <1>4. TypeInv'
    BY <1>1, <1>2, <1>3, RowsAreTyped
      DEF OutInv, TypeInv, TypeOK, OutboxTypeOK, Comes, SenderFits, ImporterFits
  <1>5. ShownIsTrue'
    <2> SUFFICES ASSUME NEW o \in Operation, op[o].status # "ABSENT"
                 PROVE  \/ shown'[o] = ShownFor(op[o].status)
                        \/ /\ o \in Request /\ shown'[o] = "FAILED"
                           /\ \E e \in Event : Kind(e) = "deleted" /\ Completed(e)'
      BY <1>1 DEF ShownIsTrue, Completed
    <2>1. CASE shown'[o] = shown[o]
      <3>1. \/ shown[o] = ShownFor(op[o].status)
            \/ /\ o \in Request /\ shown[o] = "FAILED"
               /\ \E e \in Event : Kind(e) = "deleted" /\ Completed(e)
        BY DEF OutInv, ShownIsTrue, Completed
      <3> QED BY <2>1, <3>1 DEF Comes
    <2>2. CASE shown'[o] # shown[o]
      <3>1. PICK e \in Event : /\ Kind(e) = "deleted" /\ Completed(e)'
                               /\ shown' = [shown EXCEPT ![Subject(e)] = "FAILED"]
        BY <2>2 DEF Comes
      <3>2. Subject(e) \in Request
        BY <3>1, PayloadFits
      <3> QED BY <2>2, <3>1, <3>2, RowsAreTyped
    <2> QED BY <2>1, <2>2
  <1>6. Pending' = Pending /\ \A o \in Operation : /\ StaleHolders(o)' = StaleHolders(o)
                                                   /\ Posters(o)' = Posters(o)
    BY <1>1 DEF Pending, StaleHolders, Posters, Fresh, Owned, Holds
  <1>7. Spent' \in Nat
    BY <1>4, SpentStaysCounted
  <1> QED BY <1>1, <1>2, <1>4, <1>5, <1>6, <1>7, CountsKept, CountsAreFinite DEF OutInv

-----------------------------------------------------------------------------
(* The inbound invariant: Jira's time on a request, and the count of events. *)

Applied(r) == {e \in Event : /\ Kind(e) = "status"
                             /\ Subject(e) = r
                             /\ event[e].status = "COMPLETED"}

InInv ==
    /\ JiraTimeFenced
    /\ \A r \in Request : IsFiniteSet(Applied(r)) /\ synced[r] = Cardinality(Applied(r))

JiraInv == OutInv /\ InInv

LEMMA AppliesKeepsInv ==
    ASSUME JiraInv, Applies, OutInv'
    PROVE  InInv'
  <1>1. jiraAt \in [Request -> Nat] /\ synced \in [Request -> Nat]
    BY InboundIsTyped DEF JiraInv, InboundTypeOK
  <1>2. CASE /\ UNCHANGED <<jiraAt, synced>>
             /\ \A e \in Event : Kind(e) = "status" => Completed(e)' = Completed(e)
    <2>1. \A r \in Request : Applied(r)' = Applied(r)
      BY <1>2 DEF Applied, Completed
    <2>2. JiraTimeFenced'
      BY <1>2 DEF JiraInv, InInv, JiraTimeFenced, Completed
    <2> QED BY <1>2, <2>1, <2>2 DEF JiraInv, InInv
  <1>3. CASE ~ /\ UNCHANGED <<jiraAt, synced>>
               /\ \A e \in Event : Kind(e) = "status" => Completed(e)' = Completed(e)
    <2>1. PICK e \in Event :
            /\ Kind(e) = "status" /\ ~ Completed(e) /\ Completed(e)'
            /\ \A f \in Event \ {e} : Completed(f)' = Completed(f)
            /\ jiraAt[Subject(e)] < Payload[e].at
            /\ jiraAt' = [jiraAt EXCEPT ![Subject(e)] = Payload[e].at]
            /\ synced' = [synced EXCEPT ![Subject(e)] = @ + 1]
      BY <1>3 DEF Applies
    <2>2. Subject(e) \in Request /\ Payload[e].at \in Nat
      BY <2>1, PayloadFits
    <2>3. JiraTimeFenced'
      <3> SUFFICES ASSUME NEW f \in Event, Kind(f) = "status", Completed(f)'
                   PROVE  jiraAt'[Subject(f)] >= Payload[f].at
        BY DEF JiraTimeFenced, Completed
      <3>1. Subject(f) \in Request /\ Payload[f].at \in Nat
        BY PayloadFits
      <3>2. CASE f = e
        BY <1>1, <2>1, <2>2, <3>1, <3>2
      <3>3. CASE f # e
        <4>1. jiraAt[Subject(f)] >= Payload[f].at
          BY <2>1, <3>3 DEF JiraInv, InInv, JiraTimeFenced, Completed
        <4> QED BY <1>1, <2>1, <2>2, <3>1, <4>1
      <3> QED BY <3>2, <3>3
    <2>4. ASSUME NEW r \in Request
          PROVE  IsFiniteSet(Applied(r)') /\ synced'[r] = Cardinality(Applied(r)')
      <3>1. IsFiniteSet(Applied(r)) /\ synced[r] = Cardinality(Applied(r))
        BY DEF JiraInv, InInv
      <3>2. CASE r = Subject(e)
        <4>1. e \notin Applied(r) /\ Applied(r)' = Applied(r) \cup {e}
          BY <2>1, <3>2 DEF Applied, Completed
        <4>2. IsFiniteSet(Applied(r) \cup {e})
              /\ Cardinality(Applied(r) \cup {e}) = Cardinality(Applied(r)) + 1
          BY <3>1, <4>1, FS_AddElement
        <4> QED BY <1>1, <2>1, <3>1, <3>2, <4>1, <4>2
      <3>3. CASE r # Subject(e)
        <4>1. Applied(r)' = Applied(r)
          BY <2>1, <3>3 DEF Applied, Completed
        <4>2. synced'[r] = synced[r]
          BY <1>1, <2>1, <2>2, <3>3
        <4> QED BY <3>1, <4>1, <4>2
      <3> QED BY <3>2, <3>3
    <2> QED BY <2>3, <2>4 DEF InInv
  <1> QED BY <1>2, <1>3

-----------------------------------------------------------------------------
(* The theorems. *)

LEMMA InitOutbox == Init => OutInv
  <1> SUFFICES ASSUME Init PROVE OutInv
    OBVIOUS
  <1>1. /\ Allowance \in [Disturbance -> Nat] /\ MaxAttempts \in Nat \ {0}
        /\ Created \subseteq Operation
    BY JiraAssumption, OutboxAssumption, CreatedAssumption DEF Operation
  <1>2. op \in [Operation -> Row(Sender)]
    <2>1. [NoRow EXCEPT !.status = "COMPLETED", !.attempts = 1] \in Row(Sender)
          /\ [NoRow EXCEPT !.status = "COMPLETED", !.attempts = 1].status = "COMPLETED"
      <3>1. NoRow \in Row(Sender) /\ 1 \in 0..MaxAttempts
        BY <1>1, RowsAreRows
      <3> QED BY <3>1 DEF Row, RowStatus
    <2> QED BY <2>1, RowsAreRows DEF Init
  <1>3. \A o \in Operation : op[o].status = IF o \in Created THEN "COMPLETED" ELSE "ABSENT"
    <2>1. [NoRow EXCEPT !.status = "COMPLETED", !.attempts = 1].status = "COMPLETED"
      BY DEF NoRow
    <2> QED BY <2>1, RowsAreRows DEF Init
  <1>4. \A w \in Sender : sender[w] = IdleSender
    BY DEF Init
  <1>5. OutboxTypeOK
    BY <1>1, <1>2, IdleIsOK DEF Init, OutboxTypeOK, SenderOK, Shown, OperatorState
  <1>6. InboundTypeOK
    BY RowsAreRows, IdleImporterIsOK DEF Init, InboundTypeOK, ImporterOK, PortalStatus
  <1>7. TypeInv
    <2>1. \A w \in Sender : SenderFits(sender[w])
      BY <1>4, IdleIsOK DEF SenderOK
    <2>2. \A w \in Importer : ImporterFits(importer[w])
      BY IdleImporterIsOK DEF Init, ImporterOK
    <2>3. \A k \in Disturbance : left[k] <= Allowance[k]
      BY <1>1 DEF Init
    <2> QED BY <1>5, <1>6, <2>1, <2>2, <2>3 DEF TypeInv, TypeOK
  <1>8. ShownIsTrue
    BY <1>3 DEF Init, ShownIsTrue, ShownFor
  <1>9. CopyInv
    <2> SUFFICES ASSUME NEW o \in Operation
                 PROVE  /\ Cardinality(StaleHolders(o)) + Cardinality(Pending) <= Spent
                        /\ posted[o] + Cardinality(Posters(o)) <= 1 + Spent
      BY DEF CopyInv
    <2>1. StaleHolders(o) = {} /\ Posters(o) = {}
      BY <1>4, IdleIsOK DEF StaleHolders, Posters
    <2>2. Pending = {}
      BY DEF Init, Pending
    <2>3. Spent = 0
      BY <1>1 DEF Init, Spent, Disturbance
    <2>4. posted[o] \in 0..1
      BY DEF Init
    <2> QED BY <2>1, <2>2, <2>3, <2>4, FS_EmptySet
  <1> QED BY <1>7, <1>8, <1>9 DEF OutInv

LEMMA JiraInitInv == Init => JiraInv
  <1> SUFFICES ASSUME Init PROVE InInv
    BY InitOutbox DEF JiraInv
  <1>1. \A e \in Event : event[e].status # "COMPLETED"
    BY RowsAreRows DEF Init
  <1>2. \A r \in Request : Applied(r) = {} /\ synced[r] = 0
    BY <1>1 DEF Applied, Init
  <1> QED BY <1>1, <1>2, FS_EmptySet DEF InInv, JiraTimeFenced

LEMMA PortalKeepsInv ==
    ASSUME OutInv, PortalNext, UNCHANGED Inbound
    PROVE  OutInv'
  <1>1. CASE \E r \in Request : CreateRequest(r)
    BY <1>1, CreateRequestKeepsInv
  <1>2. CASE \E m \in Message : AddMessage(m)
    BY <1>2, AddMessageKeepsInv
  <1>3. CASE EditMapping
    BY <1>3, EditKeepsInv
  <1>4. CASE \E p \in Operator, o \in Operation : CheckOperation(p, o)
    BY <1>4, CheckKeepsInv
  <1>5. CASE \E p \in Operator : RetryOperation(p)
    BY <1>5, RetryKeepsInv
  <1>6. CASE \E p \in Operator : BuryOperation(p)
    BY <1>6, BuryKeepsInv
  <1> QED BY <1>1, <1>2, <1>3, <1>4, <1>5, <1>6 DEF PortalNext

LEMMA JiraInvariance == JiraInv /\ [Next]_vars => JiraInv'
  <1> SUFFICES ASSUME JiraInv, [Next]_vars PROVE JiraInv'
    OBVIOUS
  <1> USE DEF JiraInv
  <1>1. CASE OutInv' /\ UNCHANGED Inbound
    <2>1. Applies
      BY <1>1 DEF Applies, Inbound, Completed
    <2> QED BY <1>1, <2>1, AppliesKeepsInv
  <1>2. CASE Comes
    <2>1. OutInv' /\ Applies
      BY <1>2, ComesKeepsInv DEF Comes
    <2> QED BY <2>1, AppliesKeepsInv
  <1>3. CASE \E w \in Sender : SenderNext(w)
    <2>1. OutInv' /\ UNCHANGED Inbound
      BY <1>3, ClaimKeepsInv, WorkKeepsInv DEF SenderNext, SenderStep
    <2> QED BY <1>1, <2>1
  <1>4. CASE \E w \in Sender : SenderCrash(w) /\ UNCHANGED Inbound
    BY <1>1, <1>4, WorkKeepsInv
  <1>5. CASE \E o \in Operation : OperationNext(o)
    BY <1>1, <1>5, RipensKeepsInv DEF OperationNext
  <1>6. CASE PortalNext /\ UNCHANGED Inbound
    BY <1>1, <1>6, PortalKeepsInv
  <1>7. CASE \/ \E e \in Event : Ingest(e) \/ EventRipens(e) \/ OperateEvent(e)
             \/ \E w \in Importer : ImporterStep(w) \/ ImporterCrash(w)
             \/ \E r \in Request, s \in PortalStatus : SetStatus(r, s)
    <2>1. Comes
      BY <1>7, IngestComes, EventRipensComes, OperateEventComes, ClaimEventsComes,
         ReadEventComes, ApplyComes, FailEventComes, ImporterCrashComes, SetStatusComes
        DEF ImporterStep
    <2> QED BY <1>2, <2>1
  <1>8. CASE UNCHANGED vars
    <2>1. /\ UNCHANGED <<mapping, op, shown, linked, posted, sender, operator, left>>
          /\ UNCHANGED <<status, jiraAt, synced, event, importer, imported>>
      BY <1>8 DEF vars, outVars, inVars
    <2>2. Comes
      BY <2>1, InboundIsTyped DEF Comes, Applies, Completed, InboundTypeOK
    <2> QED BY <1>2, <2>2
  <1> QED BY <1>3, <1>4, <1>5, <1>6, <1>7, <1>8 DEF Next

LEMMA AlwaysInv == Spec => []JiraInv
  BY JiraInitInv, JiraInvariance, PTL DEF Spec

\* Requests, messages, queue rows and workers hold what the code puts there.
THEOREM SyncIsTyped == Spec => []TypeOK
  <1>1. JiraInv => TypeOK
    BY DEF JiraInv, OutInv, TypeInv
  <1> QED BY <1>1, AlwaysInv, PTL

\* What the portal shows of a request or comment is the state of its operation.
THEOREM ShownAlwaysTrue == Spec => []ShownIsTrue
  <1>1. JiraInv => ShownIsTrue
    BY DEF JiraInv, OutInv
  <1> QED BY <1>1, AlwaysInv, PTL

\* Crashes, lost answers and retries alone make no second issue or comment.
THEOREM CopiesAlwaysCost == Spec => []CopiesCostALapse
  <1>1. JiraInv => CopiesCostALapse
    <2> SUFFICES ASSUME JiraInv, NEW o \in Operation
                 PROVE  posted[o] <= 1 + (Allowance["lapse"] - left["lapse"])
                                       + (Allowance["page"] - left["page"])
                                       + (Allowance["operator"] - left["operator"])
      BY DEF CopiesCostALapse
    <2>1. \A k \in {"lapse", "page", "operator"} : Allowance[k] \in Nat /\ left[k] \in Nat
      BY JiraAssumption, RowsAreTyped DEF JiraInv, Disturbance
    <2>2. posted[o] + Cardinality(Posters(o)) <= 1 + Spent /\ posted[o] \in Nat
      BY RowsAreTyped DEF JiraInv, OutInv, CopyInv
    <2> QED BY <2>1, <2>2, CountsAreFinite DEF Spent
  <1> QED BY <1>1, AlwaysInv, PTL

\* A request never goes back to an older Jira time.
THEOREM TimeAlwaysFenced == Spec => []JiraTimeFenced
  <1>1. JiraInv => JiraTimeFenced
    BY DEF JiraInv, InInv
  <1> QED BY <1>1, AlwaysInv, PTL

\* An inbound status takes effect exactly once.
THEOREM AlwaysAppliedOnce == Spec => []AppliedOnce
  <1>1. JiraInv => AppliedOnce
    BY DEF JiraInv, InInv, AppliedOnce, Applied
  <1> QED BY <1>1, AlwaysInv, PTL

-----------------------------------------------------------------------------
(* The notification outbox. *)

NotifierState ==
    [pc : {"idle", "next", "post", "poll", "accepted", "delivered", "fail"},
     batch : SUBSET Notification, item : Notification \cup {None}]

\* A worker is about to handle n or is handling it.
InHand(n) == \E w \in Notifier : n \in notifier[w].batch \cup {notifier[w].item}

KeyCovers ==
    \A n \in Notification :
        (~ mail[n].keyKnown /\ (outbox[n].status \notin Settled \/ InHand(n)))
        => mail[n].copies <= retried[n]

HasItem ==
    \A w \in Notifier : notifier[w].pc \notin {"idle", "next"} => notifier[w].item \in Notification

NotifyInv == NotifyTypeOK /\ HasItem /\ KeyCovers /\ CopiesCostARetry

-----------------------------------------------------------------------------
\* The initial state satisfies the inductive invariant.
LEMMA NotifyInitInv == NotifyInit => NotifyInv
  BY NotificationAssumption, OutboxAssumption
  DEF NotifyInit, NotifyInv, NotifyTypeOK, HasItem, KeyCovers, CopiesCostARetry, InHand, NoRow, Row,
      RowStatus, IdleNotifier

\* What the steps write into a row is a row.
LEMMA NotifyRows ==
    ASSUME NEW row \in Row(Notifier)
    PROVE  /\ Failed(row, FALSE) \in Row(Notifier)
           /\ Ended(row, "COMPLETED") \in Row(Notifier)
           /\ Ended(row, "DEAD_LETTER") \in Row(Notifier)
           /\ Ripened(row) \in Row(Notifier) /\ Ripened(row).status = row.status
           /\ Claimable(row) => \A w \in Notifier : Claimed(row, w) \in Row(Notifier)
           /\ [row EXCEPT !.lease = None, !.ripe = FALSE] \in Row(Notifier)
  <1> USE OutboxAssumption
  <1>2. \A s \in RowStatus : Ended(row, s) \in Row(Notifier)
    BY DEF Row, Ended
  <1>3. Failed(row, FALSE) \in Row(Notifier)
    BY <1>2 DEF Failed, RowStatus
  <1>4. Ripened(row) \in Row(Notifier) /\ Ripened(row).status = row.status
    BY DEF Row, Ripened
  <1>5. Claimable(row) => \A w \in Notifier : Claimed(row, w) \in Row(Notifier)
    BY DEF Row, Claimed, Claimable, RowStatus
  <1>6. [row EXCEPT !.lease = None, !.ripe = FALSE] \in Row(Notifier)
    BY DEF Row
  <1> QED BY <1>2, <1>3, <1>4, <1>5, <1>6 DEF RowStatus

\* The counters and keys are kept; rows may be settled and hands may let go.
LEMMA NotifierLetsGo ==
    ASSUME NotifyInv, NotifyTypeOK', HasItem', mail' = mail, retried' = retried,
           \A n \in Notification : outbox'[n].status \notin Settled => outbox[n].status \notin Settled,
           \A n \in Notification : InHand(n)' => InHand(n) \/ outbox[n].status \notin Settled
    PROVE  NotifyInv'
  BY DEF NotifyInv, KeyCovers, CopiesCostARetry

\* Worker w goes on with what it has.
LEMMA NotifierHandsKeep ==
    ASSUME NotifyTypeOK, NEW w \in Notifier, NEW state,
           notifier' = [notifier EXCEPT ![w] = state],
           state.batch \cup {state.item} \subseteq
               notifier[w].batch \cup {notifier[w].item, None}
    PROVE  \A n \in Notification : InHand(n)' => InHand(n)
  <1> SUFFICES ASSUME NEW n \in Notification, NEW v \in Notifier,
                      n \in notifier'[v].batch \cup {notifier'[v].item}
               PROVE  InHand(n)
    BY DEF InHand
  <1>1. CASE v = w
    BY <1>1, NotificationAssumption DEF NotifyTypeOK, InHand
  <1>2. CASE v # w
    BY <1>2 DEF NotifyTypeOK, InHand
  <1> QED BY <1>1, <1>2

-----------------------------------------------------------------------------
\* Enqueueing, the passing of time and the provider.
LEMMA MailKeeps ==
    ASSUME NotifyInv, NEW n \in Notification,
           \/ EnqueueNotification(n) \/ OutboxRipens(n)
           \/ ProviderDelivers(n) \/ ProviderForgets(n) \/ RetryDeadLetter(n)
    PROVE  NotifyInv'
  <1> USE NotificationAssumption
  <1>1. CASE EnqueueNotification(n) \/ OutboxRipens(n)
    <2>1. /\ UNCHANGED <<message, notifier, mail, retried>>
          /\ \/ outbox' = [outbox EXCEPT ![n] = PendingRow] /\ outbox[n].status = "ABSENT"
             \/ outbox' = [outbox EXCEPT ![n] = Ripened(outbox[n])]
      BY <1>1 DEF EnqueueNotification, OutboxRipens, NotifyInv, NotifyTypeOK
    <2>4. outbox[n] \in Row(Notifier)
      BY DEF NotifyInv, NotifyTypeOK
    <2>5. PICK row \in Row(Notifier) :
            /\ outbox' = [outbox EXCEPT ![n] = row]
            /\ row.status = outbox[n].status \/ outbox[n].status = "ABSENT"
      <3>1. PendingRow \in Row(Notifier) /\ Ripened(outbox[n]) \in Row(Notifier)
            /\ Ripened(outbox[n]).status = outbox[n].status
        BY <2>4, RowsAreRows, NotifyRows
      <3> QED BY <2>1, <3>1
    <2>2. NotifyTypeOK'
      BY <2>1, <2>5 DEF NotifyInv, NotifyTypeOK
    <2>3. \A m \in Notification : outbox'[m].status \notin Settled => outbox[m].status \notin Settled
      BY <2>5 DEF NotifyInv, NotifyTypeOK, Settled
    <2> QED BY <2>1, <2>2, <2>3, NotifierLetsGo DEF NotifyInv, HasItem, InHand
  <1>2. CASE ProviderDelivers(n)
    <2>1. NotifyTypeOK' /\ HasItem'
      BY <1>2 DEF NotifyInv, NotifyTypeOK, HasItem, ProviderDelivers
    <2>2. KeyCovers' /\ CopiesCostARetry'
      BY <1>2 DEF NotifyInv, NotifyTypeOK, KeyCovers, CopiesCostARetry, InHand, ProviderDelivers
    <2> QED BY <2>1, <2>2 DEF NotifyInv
  <1>3. CASE ProviderForgets(n)
    <2>1. ~ InHand(n) /\ outbox[n].status \in Settled
      BY <1>3 DEF ProviderForgets, InHand
    <2>2. NotifyTypeOK' /\ HasItem'
      BY <1>3 DEF NotifyInv, NotifyTypeOK, HasItem, ProviderForgets
    <2>3. KeyCovers' /\ CopiesCostARetry'
      BY <1>3, <2>1 DEF NotifyInv, NotifyTypeOK, KeyCovers, CopiesCostARetry, InHand, ProviderForgets
    <2> QED BY <2>2, <2>3 DEF NotifyInv
  <1>4. CASE RetryDeadLetter(n)
    <2>1. NotifyTypeOK'
      BY <1>4, RowsAreRows DEF NotifyInv, NotifyTypeOK, RetryDeadLetter
    <2>2. retried' = [retried EXCEPT ![n] = @ + 1] /\ UNCHANGED <<notifier, mail>>
      BY <1>4 DEF RetryDeadLetter
    <2>3. mail'[n].copies <= retried'[n]
      BY <2>2 DEF NotifyInv, NotifyTypeOK, CopiesCostARetry
    <2>4. \A m \in Notification : m # n =>
             outbox'[m] = outbox[m] /\ retried'[m] = retried[m] /\ (InHand(m)' <=> InHand(m))
      BY <1>4 DEF NotifyInv, NotifyTypeOK, RetryDeadLetter, InHand
    <2>5. KeyCovers'
      BY <2>2, <2>3, <2>4 DEF NotifyInv, KeyCovers
    <2>6. CopiesCostARetry'
      BY <2>1, <2>2, <2>3, <2>4 DEF NotifyInv, CopiesCostARetry, NotifyTypeOK
    <2> QED BY <2>1, <2>2, <2>5, <2>6 DEF NotifyInv, HasItem
  <1> QED BY <1>1, <1>2, <1>3, <1>4

\* A claim takes rows that are not settled.
LEMMA NotifyClaimKeeps ==
    ASSUME NotifyInv, NEW w \in Notifier, ClaimNotifications(w)
    PROVE  NotifyInv'
  <1>1. PICK S \in Batches(outbox) :
          /\ outbox' = AfterClaim(outbox, w, S)
          /\ notifier' = [notifier EXCEPT ![w] =
                IF S = {} THEN IdleNotifier ELSE [IdleNotifier EXCEPT !.pc = "next", !.batch = S]]
    BY DEF ClaimNotifications
  <1>2. DOMAIN outbox = Notification /\ UNCHANGED <<message, mail, retried>>
    BY DEF NotifyInv, NotifyTypeOK, ClaimNotifications
  <1>3. S \subseteq Notification /\ \A n \in S : Claimable(outbox[n])
    BY <1>2 DEF Batches
  <1>4. outbox' \in [Notification -> Row(Notifier)]
    <2>1. \A n \in Notification :
             (IF Exhausted(outbox[n]) THEN Ended(outbox[n], "DEAD_LETTER")
              ELSE IF n \in S THEN Claimed(outbox[n], w) ELSE outbox[n]) \in Row(Notifier)
      BY <1>3, NotifyRows DEF NotifyInv, NotifyTypeOK
    <2> QED BY <1>1, <1>2, <2>1 DEF AfterClaim
  <1>5. NotifyTypeOK' /\ HasItem'
    BY <1>1, <1>2, <1>3, <1>4 DEF NotifyInv, NotifyTypeOK, HasItem, IdleNotifier
  <1>6. \A n \in Notification : outbox'[n].status \notin Settled => outbox[n].status \notin Settled
    BY <1>1, <1>2, <1>3
    DEF AfterClaim, Ended, Claimed, Claimable, Exhausted, Settled, NotifyInv, NotifyTypeOK, Row, RowStatus
  <1>7. \A n \in Notification : InHand(n)' => InHand(n) \/ outbox[n].status \notin Settled
    <2> SUFFICES ASSUME NEW n \in Notification, NEW v \in Notifier,
                        n \in notifier'[v].batch \cup {notifier'[v].item}
                 PROVE  InHand(n) \/ outbox[n].status \notin Settled
      BY DEF InHand
    <2>1. CASE v # w
      BY <1>1, <2>1 DEF NotifyInv, NotifyTypeOK, InHand
    <2>2. CASE v = w
      BY <1>1, <1>3, <2>2, NotificationAssumption
      DEF NotifyInv, NotifyTypeOK, IdleNotifier, Claimable, Settled
    <2> QED BY <2>1, <2>2
  <1> QED BY <1>2, <1>5, <1>6, <1>7, NotifierLetsGo

\* Posting is the only step that makes a copy.
LEMMA DeliverKeeps ==
    ASSUME NotifyInv, NEW w \in Notifier, Deliver(w)
    PROVE  NotifyInv'
  <1> DEFINE n == notifier[w].item
  <1>1. n \in Notification /\ InHand(n)
    BY DEF NotifyInv, HasItem, Deliver, InHand
  <1>2. /\ mail' = mail \/ mail' = [mail EXCEPT ![n] = Sent(@)]
        /\ \E pc \in {"accepted", "fail"} : notifier' = [notifier EXCEPT ![w].pc = pc]
        /\ UNCHANGED <<outbox, message, retried>>
    BY DEF Deliver, Outcome
  <1>3. mail[n].copies \in Nat /\ retried[n] \in 0..MaxRetries /\ MaxRetries \in Nat
    BY <1>1, NotificationAssumption DEF NotifyInv, NotifyTypeOK
  <1>4. /\ Sent(mail[n]).keyKnown
        /\ Sent(mail[n]).copies <= 1 + retried[n]
        /\ Sent(mail[n]) \in [state : {"none", "accepted", "delivered"}, keyKnown : BOOLEAN,
                              copies : 0..(MaxRetries + 1)]
    BY <1>1, <1>3 DEF NotifyInv, KeyCovers, CopiesCostARetry, NotifyTypeOK, Sent
  <1>8. \E state \in NotifierState :
          notifier' = [notifier EXCEPT ![w] = state] /\ state.item = n
    <2>1. PICK pc \in {"accepted", "fail"} :
            notifier' = [notifier EXCEPT ![w] = [notifier[w] EXCEPT !.pc = pc]]
      BY <1>2
    <2>2. notifier[w] \in NotifierState
      BY DEF NotifyInv, NotifyTypeOK, NotifierState
    <2>3. /\ [notifier[w] EXCEPT !.pc = pc] \in NotifierState
          /\ [notifier[w] EXCEPT !.pc = pc].item = n
      BY <2>2 DEF NotifierState
    <2> QED BY <2>1, <2>3
  <1>9. NotifyTypeOK'
    <2>1. notifier' \in [Notifier -> NotifierState]
      BY <1>8 DEF NotifyInv, NotifyTypeOK, NotifierState
    <2>2. mail' \in [Notification -> [state : {"none", "accepted", "delivered"},
                                      keyKnown : BOOLEAN, copies : 0..(MaxRetries + 1)]]
      BY <1>1, <1>2, <1>4 DEF NotifyInv, NotifyTypeOK
    <2> QED BY <1>2, <2>1, <2>2 DEF NotifyInv, NotifyTypeOK, NotifierState
  <1>5. NotifyTypeOK' /\ HasItem'
    BY <1>1, <1>8, <1>9 DEF NotifyInv, NotifyTypeOK, HasItem
  <1>6. \A m \in Notification : InHand(m)' <=> InHand(m)
    BY <1>2 DEF NotifyInv, NotifyTypeOK, InHand
  <1>7. \A m \in Notification : mail'[m] = mail[m] \/ (m = n /\ mail'[m] = Sent(mail[n]))
    BY <1>1, <1>2 DEF NotifyInv, NotifyTypeOK
  <1> HIDE DEF n
  <1> QED BY <1>2, <1>4, <1>5, <1>6, <1>7 DEF NotifyInv, KeyCovers, CopiesCostARetry

\* The other steps of a worker only settle rows and let go of them.
LEMMA NotifierKeeps ==
    ASSUME NotifyInv, NEW w \in Notifier,
           \/ NextNotification(w) \/ Poll(w) \/ MarkDelivered(w) \/ MarkAccepted(w)
           \/ MarkFailed(w) \/ NotifierCrash(w)
    PROVE  NotifyInv'
  <1> USE NotificationAssumption
  <1>1. mail' = mail /\ retried' = retried
    BY DEF NextNotification, Poll, MarkDelivered, MarkAccepted, MarkFailed, NotifierCrash, Outcome
  <1>2. \E state \in NotifierState :
          /\ notifier' = [notifier EXCEPT ![w] = state]
          /\ state.batch \cup {state.item} \subseteq notifier[w].batch \cup {notifier[w].item, None}
          /\ state.pc \notin {"idle", "next"} => state.item \in Notification
    <2> DEFINE k == notifier[w]
               onward == [IdleNotifier EXCEPT !.pc = "next", !.batch = k.batch]
    <2>0. k \in NotifierState /\ (k.pc \notin {"idle", "next"} => k.item \in Notification)
      BY DEF NotifyInv, NotifyTypeOK, HasItem, NotifierState
    <2>1. IdleNotifier \in NotifierState /\ IdleNotifier.pc = "idle"
          /\ IdleNotifier.batch = {} /\ IdleNotifier.item = None
      BY DEF NotifierState, IdleNotifier
    <2>2. onward \in NotifierState /\ onward.pc = "next" /\ onward.batch = k.batch /\ onward.item = None
      BY <2>0 DEF NotifierState, IdleNotifier
    <2>3. CASE NextNotification(w)
      <3>1. CASE k.batch = {}
        BY <2>1, <2>3, <3>1 DEF NextNotification
      <3>2. CASE k.batch # {}
        <4>1. PICK n \in k.batch :
                notifier' = [notifier EXCEPT ![w] =
                   [k EXCEPT !.pc = IF message[n] THEN "poll" ELSE "post",
                             !.batch = @ \ {n}, !.item = n]]
          BY <2>3, <3>2 DEF NextNotification
        <4> DEFINE state == [k EXCEPT !.pc = IF message[n] THEN "poll" ELSE "post",
                                      !.batch = @ \ {n}, !.item = n]
        <4>2. /\ state \in NotifierState /\ state.item = n /\ n \in Notification
              /\ state.batch = k.batch \ {n}
          BY <2>0 DEF NotifierState
        <4> QED BY <4>1, <4>2
      <3> QED BY <3>1, <3>2
    <2>4. \A pc \in {"accepted", "delivered", "fail"} :
             /\ [k EXCEPT !.pc = pc] \in NotifierState
             /\ [k EXCEPT !.pc = pc].batch = k.batch
             /\ [k EXCEPT !.pc = pc].item = k.item
      BY <2>0 DEF NotifierState
    <2>5. CASE \E pc \in {"accepted", "delivered", "fail"} :
                 notifier' = [notifier EXCEPT ![w] = [k EXCEPT !.pc = pc]] /\ k.item \in Notification
      BY <2>4, <2>5
    <2>6. CASE notifier' = [notifier EXCEPT ![w] = onward]
      <3> HIDE DEF onward
      <3> QED BY <2>2, <2>6
    <2>7. CASE notifier' = [notifier EXCEPT ![w] = IdleNotifier]
      BY <2>1, <2>7
    <2>8. CASE Poll(w)
      BY <2>0, <2>5, <2>8 DEF Poll, Outcome, Receipt
    <2>9. CASE MarkDelivered(w) \/ MarkAccepted(w) \/ MarkFailed(w) \/ NotifierCrash(w)
      BY <2>0, <2>5, <2>6, <2>7, <2>9
      DEF MarkDelivered, MarkAccepted, MarkFailed, NotifierCrash, Outcome, NextUp
    <2> QED BY <2>3, <2>8, <2>9
  <1>3. \/ outbox' = outbox
        \/ \E n \in Notification, row \in Row(Notifier) :
             outbox' = [outbox EXCEPT ![n] = row] /\ outbox[n].status = "PROCESSING"
    <2>1. CASE NextNotification(w) \/ Poll(w) \/ NotifierCrash(w)
      BY <2>1 DEF NextNotification, Poll, NotifierCrash
    <2>2. CASE MarkDelivered(w) \/ MarkAccepted(w) \/ MarkFailed(w)
      <3>1. notifier[w].item \in Notification
        BY <2>2 DEF NotifyInv, HasItem, MarkDelivered, MarkAccepted, MarkFailed
      <3>2. outbox[notifier[w].item] \in Row(Notifier)
        BY <3>1 DEF NotifyInv, NotifyTypeOK
      <3>3. CASE outbox' = outbox
        BY <3>3
      <3>4. CASE MarkDelivered(w) /\ outbox' # outbox
        <4>1. Ended(outbox[notifier[w].item], "COMPLETED") \in Row(Notifier)
          BY <3>2, NotifyRows
        <4> QED BY <3>1, <3>4, <4>1 DEF MarkDelivered, Owned
      <3>5. CASE MarkAccepted(w) /\ outbox' # outbox
        <4>1. [outbox[notifier[w].item] EXCEPT !.lease = None, !.ripe = FALSE] \in Row(Notifier)
          BY <3>2, NotifyRows
        <4> QED BY <3>1, <3>5, <4>1 DEF MarkAccepted, Owned
      <3>6. CASE MarkFailed(w) /\ outbox' # outbox
        <4>1. Failed(outbox[notifier[w].item], FALSE) \in Row(Notifier)
          BY <3>2, NotifyRows
        <4> QED BY <3>1, <3>6, <4>1 DEF MarkFailed, Owned
      <3> QED BY <2>2, <3>3, <3>4, <3>5, <3>6
    <2> QED BY <2>1, <2>2
  <1>4. message' \in [Notification -> BOOLEAN]
    <2>1. CASE MarkDelivered(w) \/ MarkAccepted(w)
      BY <2>1 DEF MarkDelivered, MarkAccepted, NotifyInv, NotifyTypeOK
    <2>2. CASE NextNotification(w) \/ Poll(w) \/ MarkFailed(w) \/ NotifierCrash(w)
      BY <2>2 DEF NextNotification, Poll, MarkFailed, NotifierCrash, NotifyInv, NotifyTypeOK
    <2> QED BY <2>1, <2>2
  <1>5. NotifyTypeOK'
    BY <1>1, <1>2, <1>3, <1>4 DEF NotifyInv, NotifyTypeOK, NotifierState
  <1>6. HasItem'
    BY <1>2 DEF NotifyInv, NotifyTypeOK, HasItem
  <1>7. \A n \in Notification : outbox'[n].status \notin Settled => outbox[n].status \notin Settled
    BY <1>3 DEF NotifyInv, NotifyTypeOK, Settled
  <1>8. \A n \in Notification : InHand(n)' => InHand(n)
    <2>1. PICK state \in NotifierState :
            /\ notifier' = [notifier EXCEPT ![w] = state]
            /\ state.batch \cup {state.item} \subseteq notifier[w].batch \cup {notifier[w].item, None}
      BY <1>2
    <2> QED BY <2>1, NotifierHandsKeep DEF NotifyInv
  <1> QED BY <1>1, <1>5, <1>6, <1>7, <1>8, NotifierLetsGo

-----------------------------------------------------------------------------
\* The inductive invariant of the notification outbox.
THEOREM NotifyInvariance == NotifySpec => []NotifyInv
  <1>1. NotifyInv /\ [NotifyNext]_notifyVars => NotifyInv'
    <2> SUFFICES ASSUME NotifyInv, [NotifyNext]_notifyVars PROVE NotifyInv'
      OBVIOUS
    <2>1. CASE UNCHANGED notifyVars
      BY <2>1 DEF notifyVars, NotifyInv, NotifyTypeOK, HasItem, KeyCovers, CopiesCostARetry, InHand
    <2>2. CASE NotifyNext
      BY <2>2, MailKeeps, NotifyClaimKeeps, DeliverKeeps, NotifierKeeps DEF NotifyNext, NotifierStep
    <2> QED BY <2>1, <2>2
  <1> QED BY NotifyInitInv, <1>1, PTL DEF NotifySpec

\* Rows, workers and the provider's records keep their shape.
THEOREM NotifyIsTyped == NotifySpec => []NotifyTypeOK
  BY NotifyInvariance, PTL DEF NotifyInv

\* Crashes, lost answers, lapsed leases and polling never make the provider send a
\* notification twice (markNotificationFailed, ResendNotificationProvider.deliver):
\* every copy beyond the first is paid for by an operator's retry of a dead letter.
THEOREM OneCopyPerRetry == NotifySpec => []CopiesCostARetry
  BY NotifyInvariance, PTL DEF NotifyInv
=============================================================================
