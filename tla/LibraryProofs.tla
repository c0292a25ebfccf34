--------------------------- MODULE LibraryProofs ----------------------------
(*****************************************************************************)
(* Theorems about what stands around the documents: asking questions         *)
(* (KnowledgeAnswers), the migration of local files (DocumentMigration), the *)
(* rollout of a release (StagingReadiness), the backups (Backups) and the    *)
(* file queues of a development machine (LocalQueue), each for any           *)
(* documents, callers, workers and bounds.                                   *)
(*                                                                           *)
(* An answer is built over many reads, and sources come and go meanwhile.    *)
(* GroundedInv says what each stage knows of the passages it carries.        *)
(*                                                                           *)
(* A migration may stop anywhere and be run again while both sides are used. *)
(* MigrationInv says who may still write an original (Settled: a row is seen *)
(* only once its original is whole, and its id is not given out again), what *)
(* the run knows of the document in hand (RunKnows), and what it has copied  *)
(* so far if nobody else changed anything (QuietRunCopies).                  *)
(*                                                                           *)
(* A ready report is about several reads, of heartbeats and rows that others *)
(* go on writing.  ReadinessInv says what a heartbeat is a proof of          *)
(* (BeatIsTrue), and what the check knows of the workers it has looked at.   *)
(*                                                                           *)
(* A backup is complete when its archive, manifest and record agree.  DumpInv *)
(* follows the database script from the dump to the record, and sets apart   *)
(* dumps that share a file; ObjectInv follows the copies of the objects.     *)
(*                                                                           *)
(* An operation of a file queue changes a copy of the file.  LocalInv says   *)
(* that the one that has read the file has it as it is.                      *)
(*****************************************************************************)
EXTENDS KnowledgeAnswers, DocumentMigration, StagingReadiness, Backups, LocalQueue,
        SequenceTheorems, FiniteSetTheorems, WellFoundedInduction, TLAPS

-----------------------------------------------------------------------------
(* Selections from a sequence.  At is computed place by place; what it keeps *)
(* is shown from the least place at which it would fail.                     *)

\* h is the function At computes, up to place n.
Collects(h, s, kept, n) ==
    h = [i \in 0..n |-> IF i = 0 THEN <<>>
                        ELSE IF i \in kept THEN Append(h[i - 1], s[i]) ELSE h[i - 1]]

LEMMA AtIs ==
    ASSUME NEW s, NEW kept
    PROVE  At(s, kept) = (CHOOSE h : Collects(h, s, kept, Len(s)))[Len(s)]
  BY Zenon DEF At, Collects

\* A set of numbers up to n has a least one.
LEMMA LeastOf ==
    ASSUME NEW n \in Nat, NEW T, T \subseteq 0..n, T # {}
    PROVE  \E m \in T : \A t \in T : m <= t
  <1> DEFINE U == {1..t : t \in T}
  <1>1. U \subseteq SUBSET (1..n) /\ U # {}
    <2>1. \A t \in T : 1..t \subseteq 1..n
      OBVIOUS
    <2> QED BY <2>1
  <1>2. IsFiniteSet(1..n)
    BY FS_Interval
  <1>3. PICK u \in U : \A v \in U : ~ (<<v, u>> \in StrictSubsetOrdering(1..n))
    <2> HIDE DEF U
    <2>1. IsFiniteSet(1..n) /\ \A v \in U : IsFiniteSet(v)
      BY <1>1, <1>2, FS_Subset
    <2>2. IsWellFoundedOn(StrictSubsetOrdering(1..n), FiniteSubsetsOf(1..n)) /\ U \subseteq FiniteSubsetsOf(1..n)
      BY <1>1, <2>1, FS_StrictSubsetOrderingWellFounded DEF FiniteSubsetsOf
    <2> QED BY <1>1, <2>2, WFMin
  <1>4. PICK m \in T : u = 1..m
    OBVIOUS
  <1>5. ASSUME NEW t \in T, t < m PROVE FALSE
    <2>1. 1..t \subseteq 1..m /\ m \in 1..m /\ m \notin 1..t /\ 1..t \in U /\ 1..t \subseteq 1..n /\ 1..m \subseteq 1..n
      BY <1>5
    <2> QED BY <1>3, <1>4, <2>1 DEF StrictSubsetOrdering
  <1> QED BY <1>5

LEMMA CollectionsAgree ==
    ASSUME NEW s, NEW kept, NEW m \in Nat, NEW n \in Nat, NEW g, NEW h,
           Collects(g, s, kept, m), Collects(h, s, kept, n)
    PROVE  \A i \in Nat : i <= m /\ i <= n => g[i] = h[i]
  <1> DEFINE T == {i \in 0..m : i <= n /\ g[i] # h[i]}
  <1> SUFFICES ASSUME T # {} PROVE FALSE
    OBVIOUS
  <1>1. PICK i \in T : \A t \in T : i <= t
    <2>1. T \subseteq 0..m
      OBVIOUS
    <2> HIDE DEF T
    <2> QED BY <2>1, LeastOf
  <1>2. /\ \A j \in 0..m : g[j] = IF j = 0 THEN <<>>
                             ELSE IF j \in kept THEN Append(g[j - 1], s[j]) ELSE g[j - 1]
        /\ \A j \in 0..n : h[j] = IF j = 0 THEN <<>>
                             ELSE IF j \in kept THEN Append(h[j - 1], s[j]) ELSE h[j - 1]
    BY DEF Collects
  <1>3. i # 0
    <2>1. g[0] = <<>> /\ h[0] = <<>>
      BY <1>2
    <2> QED BY <1>1, <2>1
  <1>4. i - 1 \in 0..m /\ i - 1 <= n /\ i - 1 \notin T
    BY <1>1, <1>3
  <1>5. g[i - 1] = h[i - 1] /\ i \in 0..m /\ i \in 0..n
    BY <1>1, <1>4
  <1>6. g[i] = h[i]
    BY <1>2, <1>3, <1>5
  <1> QED BY <1>1, <1>6

LEMMA CollectionExists ==
    ASSUME NEW s, NEW kept, NEW n \in Nat
    PROVE  \E h : Collects(h, s, kept, n)
  <1> DEFINE T == {i \in 0..n : ~ \E h : Collects(h, s, kept, i)}
  <1> SUFFICES ASSUME T # {} PROVE FALSE
    OBVIOUS
  <1>1. PICK m \in T : \A t \in T : m <= t
    <2>1. T \subseteq 0..n
      OBVIOUS
    <2> HIDE DEF T
    <2> QED BY <2>1, LeastOf
  <1>2. CASE m = 0
    <2> DEFINE g == [i \in 0..0 |-> <<>>]
    <2>1. Collects(g, s, kept, 0)
      BY DEF Collects
    <2> QED BY <1>1, <1>2, <2>1
  <1>3. CASE m # 0
    <2>1. m - 1 \in 0..n /\ m - 1 \notin T /\ m \in Nat
      BY <1>1, <1>3
    <2>2. PICK h : Collects(h, s, kept, m - 1)
      BY <2>1
    <2> DEFINE g == [i \in 0..m |-> IF i < m THEN h[i]
                                    ELSE IF m \in kept THEN Append(h[m - 1], s[m]) ELSE h[m - 1]]
    <2>3. \A i \in 0..(m - 1) : h[i] = IF i = 0 THEN <<>>
                                       ELSE IF i \in kept THEN Append(h[i - 1], s[i]) ELSE h[i - 1]
      BY <2>1, <2>2 DEF Collects
    <2>4. \A i \in 0..m : g[i] = IF i = 0 THEN <<>>
                                 ELSE IF i \in kept THEN Append(g[i - 1], s[i]) ELSE g[i - 1]
      <3> SUFFICES ASSUME NEW i \in 0..m
                   PROVE  g[i] = IF i = 0 THEN <<>>
                                 ELSE IF i \in kept THEN Append(g[i - 1], s[i]) ELSE g[i - 1]
        OBVIOUS
      <3>1. CASE i < m
        <4>1. i \in 0..(m - 1) /\ g[i] = h[i] /\ (i # 0 => g[i - 1] = h[i - 1])
          BY <2>1, <3>1
        <4> QED BY <2>3, <4>1
      <3>2. CASE i = m
        <4>1. g[m - 1] = h[m - 1]
          BY <1>3, <2>1
        <4> QED BY <1>3, <3>2, <4>1
      <3> QED BY <2>1, <3>1, <3>2
    <2>5. g = [i \in 0..m |-> IF i = 0 THEN <<>>
                              ELSE IF i \in kept THEN Append(g[i - 1], s[i]) ELSE g[i - 1]]
      BY <2>4
    <2> HIDE DEF g
    <2>6. Collects(g, s, kept, m)
      BY <2>5 DEF Collects
    <2> QED BY <1>1, <2>6
  <1> QED BY <1>2, <1>3

\* What is kept comes from the places to keep, in their order, and from each.
LEMMA AllKeptAre ==
    ASSUME NEW X, NEW s \in Seq(X), NEW kept \in SUBSET (DOMAIN s)
    PROVE  /\ At(s, kept) \in Seq(X)
           /\ \E from \in [DOMAIN At(s, kept) -> kept] :
                 /\ \A a \in DOMAIN At(s, kept) : At(s, kept)[a] = s[from[a]]
                 /\ \A a, b \in DOMAIN At(s, kept) : a < b => from[a] < from[b]
                 /\ \A k \in kept : \E a \in DOMAIN At(s, kept) : from[a] = k
  <1> DEFINE h == CHOOSE g : Collects(g, s, kept, Len(s))
             Places(from, q, i) ==
                 /\ \A a \in DOMAIN q : q[a] = s[from[a]]
                 /\ \A a, b \in DOMAIN q : a < b => from[a] < from[b]
                 /\ \A k \in kept \cap (1..i) : \E a \in DOMAIN q : from[a] = k
             Comes(q, i) == /\ q \in Seq(X)
                            /\ \E from \in [DOMAIN q -> kept \cap (1..i)] : Places(from, q, i)
             T == {i \in 0..Len(s) : ~ Comes(h[i], i)}
  <1>1. Len(s) \in Nat /\ DOMAIN s = 1..Len(s)
    OBVIOUS
  <1>2. Collects(h, s, kept, Len(s)) /\ At(s, kept) = h[Len(s)]
    BY <1>1, CollectionExists, AtIs
  <1>3. \A i \in 0..Len(s) : h[i] = IF i = 0 THEN <<>>
                                   ELSE IF i \in kept THEN Append(h[i - 1], s[i]) ELSE h[i - 1]
    BY <1>2 DEF Collects
  <1> HIDE DEF h
  <1>4. T = {}
    <2> SUFFICES ASSUME T # {} PROVE FALSE
      OBVIOUS
    <2>1. PICK m \in T : \A t \in T : m <= t
      <3>1. T \subseteq 0..Len(s)
        OBVIOUS
      <3> HIDE DEF T
      <3> QED BY <1>1, <3>1, LeastOf
    <2>2. m \in 0..Len(s) /\ ~ Comes(h[m], m)
      BY <2>1
    <2>3. m # 0
      <3>1. h[0] = <<>>
        BY <1>1, <1>3
      <3>2. Comes(<<>>, 0)
        <4>1. <<>> \in Seq(X) /\ DOMAIN <<>> = {}
          OBVIOUS
        <4>2. PICK from : from = [a \in {} |-> a]
          OBVIOUS
        <4>3. from \in [{} -> kept \cap (1..0)] /\ kept \cap (1..0) = {}
          BY <4>2
        <4>4. Places(from, <<>>, 0)
          BY <4>1, <4>3
        <4> HIDE DEF Places
        <4> QED BY <4>1, <4>3, <4>4
      <3> HIDE DEF Comes
      <3> QED BY <2>2, <3>1, <3>2
    <2>4. m - 1 \in 0..Len(s) /\ Comes(h[m - 1], m - 1)
      <3>1. m - 1 \in 0..Len(s) /\ m - 1 < m
        BY <1>1, <2>2, <2>3
      <3> HIDE DEF Comes
      <3>2. m - 1 \notin T
        <4> HIDE DEF T
        <4> QED BY <1>1, <2>1, <2>2, <3>1
      <3> QED BY <3>1, <3>2
    <2> DEFINE q == h[m - 1]
    <2>5. q \in Seq(X) /\ DOMAIN q = 1..Len(q) /\ Len(q) \in Nat
      BY <2>4
    <2>6. PICK from \in [DOMAIN q -> kept \cap (1..(m - 1))] :
              /\ \A a \in DOMAIN q : q[a] = s[from[a]]
              /\ \A a, b \in DOMAIN q : a < b => from[a] < from[b]
              /\ \A k \in kept \cap (1..(m - 1)) : \E a \in DOMAIN q : from[a] = k
      BY <2>4
    <2>7. CASE m \notin kept
      <3>1. h[m] = q
        BY <1>3, <2>2, <2>3, <2>7
      <3>2. from \in [DOMAIN q -> kept \cap (1..m)]
        BY <1>1, <2>2, <2>6
      <3>4. \A k \in kept \cap (1..m) : \E a \in DOMAIN q : from[a] = k
        <4>1. \A k \in kept \cap (1..m) : k \in 1..(m - 1)
          BY <1>1, <2>2, <2>7
        <4> QED BY <2>6, <4>1
      <3>5. Places(from, q, m)
        BY <2>6, <3>4
      <3>3. Comes(q, m)
        <4> HIDE DEF Places
        <4> QED BY <2>5, <3>2, <3>5
      <3> HIDE DEF Comes
      <3> QED BY <2>2, <3>1, <3>3
    <2>8. CASE m \in kept
      <3> DEFINE p == Append(q, s[m])
                 to == [a \in 1..(Len(q) + 1) |-> IF a = Len(q) + 1 THEN m ELSE from[a]]
      <3>1. h[m] = p
        BY <1>3, <2>2, <2>3, <2>8
      <3>2. /\ p \in Seq(X) /\ DOMAIN p = 1..(Len(q) + 1)
            /\ \A a \in DOMAIN p : p[a] = IF a = Len(q) + 1 THEN s[m] ELSE q[a]
        BY <1>1, <2>5, <2>8
      <3>3. to \in [DOMAIN p -> kept \cap (1..m)]
        BY <1>1, <2>2, <2>5, <2>6, <2>8, <3>2
      <3>4. \A a \in DOMAIN p : p[a] = s[to[a]]
        BY <2>5, <2>6, <3>2
      <3>5. \A a, b \in DOMAIN p : a < b => to[a] < to[b]
        <4>1. \A a \in DOMAIN q : from[a] \in 1..(m - 1)
          BY <2>6
        <4>2. \A a \in DOMAIN p : to[a] = IF a = Len(q) + 1 THEN m ELSE from[a]
          BY <3>2
        <4>3. \A a \in DOMAIN p : a = Len(q) + 1 \/ a \in DOMAIN q
          BY <2>5, <3>2
        <4> HIDE DEF p, to, q
        <4> QED BY <1>1, <2>2, <2>5, <2>6, <3>2, <4>1, <4>2, <4>3
      <3>7. \A k \in kept \cap (1..m) : \E a \in DOMAIN p : to[a] = k
        <4> SUFFICES ASSUME NEW k \in kept \cap (1..m) PROVE \E a \in DOMAIN p : to[a] = k
          OBVIOUS
        <4>1. CASE k = m
          <5>1. Len(q) + 1 \in DOMAIN p /\ to[Len(q) + 1] = m
            <6>1. Len(q) + 1 \in 1..(Len(q) + 1)
              BY <2>5
            <6>2. to[Len(q) + 1] = m
              BY <6>1
            <6> HIDE DEF p, to
            <6> QED BY <3>2, <6>1, <6>2
          <5> QED BY <4>1, <5>1
        <4>2. CASE k # m
          <5>1. k \in 1..(m - 1)
            BY <1>1, <2>2, <4>2
          <5>2. PICK a \in DOMAIN q : from[a] = k
            BY <2>6, <5>1
          <5>3. a \in DOMAIN p /\ to[a] = k
            BY <2>5, <3>2, <5>2
          <5> QED BY <5>3
        <4> QED BY <4>1, <4>2
      <3> HIDE DEF p, to
      <3>8. Places(to, p, m)
        BY <3>4, <3>5, <3>7
      <3>6. Comes(p, m)
        <4> HIDE DEF Places
        <4> QED BY <3>2, <3>3, <3>8
      <3> HIDE DEF Comes
      <3> QED BY <2>2, <3>1, <3>6
    <2> QED BY <2>7, <2>8
  <1>5. Comes(At(s, kept), Len(s))
    <2> HIDE DEF Comes
    <2>1. Len(s) \in 0..Len(s) /\ Len(s) \notin T
      BY <1>1, <1>4
    <2> QED BY <1>2, <2>1
  <1>6. kept \cap (1..Len(s)) = kept
    BY <1>1
  <1> QED BY <1>5, <1>6

\* The same, of what is kept alone.
LEMMA KeptAre ==
    ASSUME NEW X, NEW s \in Seq(X), NEW kept \in SUBSET (DOMAIN s)
    PROVE  /\ At(s, kept) \in Seq(X)
           /\ \E from \in [DOMAIN At(s, kept) -> kept] :
                 /\ \A a \in DOMAIN At(s, kept) : At(s, kept)[a] = s[from[a]]
                 /\ \A a, b \in DOMAIN At(s, kept) : a < b => from[a] < from[b]
  BY AllKeptAre

-----------------------------------------------------------------------------
(* Answers. *)

\* Versions, and copies of the history, are left open: grounding does not
\* depend on them.
Asking(todo, found, version) ==
    [phase : {"idle", "retrieving", "citing", "generating", "answered", "no_answer", "error"},
     todo : {todo}, found : {found}, ranked : SUBSET Passage, citing : Passage \cup {Nothing},
     version : {version}, cited : Seq(Passage), selected : SUBSET Nat, markers : SUBSET Nat]

Handler(item, version, rows) ==
    [phase : {"idle", "resolving", "listed", "replied", "failed"},
     kind : {"none", "save", "delete", "clear"}, item : {item}, refs : SUBSET Passage,
     citing : Passage \cup {Nothing}, version : {version}, kept : SUBSET Passage, copy : {rows},
     mine : BOOLEAN]

AnswersShape ==
    /\ ask \in Asking(ask.todo, ask.found, ask.version)
    /\ clerk = [h \in Clerk |-> clerk[h]]
    /\ \A h \in Clerk : clerk[h] \in Handler(clerk[h].item, clerk[h].version, clerk[h].copy)
    /\ known \in [Reader -> SUBSET Source]

\* Whoever has begun to read has seen what can be read now: nothing becomes
\* readable unseen.
SeesSources ==
    /\ ask.phase \in {"citing", "generating", "answered"} => ReadableSources \subseteq known["ask"]
    /\ \A h \in Clerk : clerk[h].phase # "idle" => ReadableSources \subseteq known[h]

\* The passages of an answer, and the one that is being read, were readable.
AskKnows ==
    ask.phase \in {"citing", "generating", "answered"} =>
        /\ \A n \in DOMAIN ask.cited : SourceOf[ask.cited[n]] \in known["ask"]
        /\ ask.citing # Nothing => SourceOf[ask.citing] \in known["ask"]
        /\ ask.phase # "citing" => ask.selected # {} /\ ask.selected \subseteq DOMAIN ask.cited
        /\ ask.markers \subseteq ask.selected

\* What a handler of the history keeps, or is about to keep, it has seen.
ClerkKnows(h) ==
    /\ \A p \in clerk[h].kept : SourceOf[p] \in known[h]
    /\ clerk[h].citing # Nothing => SourceOf[clerk[h].citing] \in known[h]

\* Work that has not begun has kept nothing.
IdleIsClean ==
    /\ ask.phase = "retrieving" => ask.cited = <<>> /\ ask.citing = Nothing
    /\ ask.phase \in {"retrieving", "citing", "generating"} => ask.markers = {}
    /\ ask.phase = "no_answer" => ask.selected = {}
    /\ \A h \in Clerk : clerk[h].phase = "idle" => clerk[h].kept = {} /\ clerk[h].citing = Nothing

GroundedInv ==
    /\ AnswersShape /\ SeesSources /\ AskKnows /\ IdleIsClean
    /\ \A h \in Clerk : ClerkKnows(h)

-----------------------------------------------------------------------------
LEMMA AnswersConstants ==
    /\ Nothing \notin Passage /\ "ask" \notin Clerk
    /\ "ask" \in Reader /\ Clerk \subseteq Reader
    /\ ReadableSources \subseteq Source
    /\ \A p \in Passage : SourceOf[p] \in Source
    /\ \A p \in Passage : LooksReadable(p) => SourceOf[p] \in ReadableSources
  BY AnswersAssumption DEF Reader, ReadableSources, LooksReadable, Source

LEMMA GroundedStays == GroundedInv /\ UNCHANGED <<libraryVars, ask, clerk, known>> => GroundedInv'
  BY DEF GroundedInv, AnswersShape, SeesSources, AskKnows, IdleIsClean, ClerkKnows, libraryVars, ReadableSources, Readable

LEMMA GroundedMeans == GroundedInv => AnswersAreGrounded
  <1> SUFFICES ASSUME GroundedInv PROVE AnswersAreGrounded
    OBVIOUS
  <1>1. ASSUME ask.phase = "answered"
        PROVE  /\ ask.selected # {} /\ ask.markers \subseteq ask.selected
               /\ \A n \in ask.selected : SourceOf[ask.cited[n]] \in known["ask"]
    BY <1>1 DEF GroundedInv, AskKnows
  <1> QED BY <1>1 DEF AnswersAreGrounded, GroundedInv, ClerkKnows

\* An ending without an answer leaves nothing of the question.
LEMMA EndIsClean ==
    ASSUME NEW phase \in {"idle", "no_answer", "error"}, NEW a, a = [NoAsk EXCEPT !.phase = phase]
    PROVE  a \in Asking(a.todo, a.found, a.version) /\ a.phase = phase /\ a.selected = {}
  <1>1. /\ a.phase = phase /\ a.todo = {} /\ a.found = {} /\ a.version = 0 /\ a.selected = {}
        /\ a = [phase |-> phase, todo |-> {}, found |-> {}, ranked |-> {}, citing |-> Nothing, version |-> 0,
                cited |-> <<>>, selected |-> {}, markers |-> {}]
    BY DEF NoAsk
  <1>2. <<>> \in Seq(Passage) /\ {} \in SUBSET Nat /\ {} \in SUBSET Passage
    OBVIOUS
  <1> QED BY <1>1, <1>2 DEF Asking

LEMMA GroundedInit == AnswersInit => GroundedInv
  <1> SUFFICES ASSUME AnswersInit PROVE GroundedInv
    OBVIOUS
  <1>1. ask = NoAsk /\ clerk = [h \in Clerk |-> NoRequest] /\ known = [r \in Reader |-> {}]
    BY DEF AnswersInit
  <1>2. NoAsk \in Asking({}, {}, 0) /\ NoAsk.phase = "idle" /\ NoAsk.todo = {} /\ NoAsk.found = {} /\ NoAsk.version = 0
    BY DEF NoAsk, Asking
  <1>3. /\ NoRequest \in Handler(Nothing, 0, <<>>) /\ NoRequest.phase = "idle" /\ NoRequest.item = Nothing
        /\ NoRequest.version = 0 /\ NoRequest.copy = <<>> /\ NoRequest.kept = {} /\ NoRequest.citing = Nothing
    BY DEF NoRequest, Handler
  <1>4. AnswersShape
    BY <1>1, <1>2, <1>3 DEF AnswersShape
  <1>5. SeesSources /\ AskKnows /\ IdleIsClean /\ \A h \in Clerk : ClerkKnows(h)
    BY <1>1, <1>2, <1>3 DEF SeesSources, AskKnows, IdleIsClean, ClerkKnows
  <1> QED BY <1>4, <1>5 DEF GroundedInv

-----------------------------------------------------------------------------
\* An upheaval is seen by all who are reading.
LEMMA UpheavalKeeps == GroundedInv /\ Upheaval => GroundedInv'
  <1> SUFFICES ASSUME GroundedInv, Upheaval PROVE GroundedInv'
    OBVIOUS
  <1> USE AnswersConstants
  <1>1. /\ UNCHANGED <<ask, clerk>>
        /\ known' = [r \in Reader |-> IF Reading(r) THEN known[r] \cup {s \in Source : Readable(s)'} ELSE {}]
    BY DEF Upheaval
  <1>2. ReadableSources' = {s \in Source : Readable(s)'}
    BY DEF ReadableSources
  <1>3. known \in [Reader -> SUBSET Source]
    BY DEF GroundedInv, AnswersShape
  <1> DEFINE seen == {s \in Source : Readable(s)'}
  <1>4. seen \subseteq Source
    OBVIOUS
  <1> HIDE DEF seen
  <1>5. known' = [r \in Reader |-> IF Reading(r) THEN known[r] \cup seen ELSE {}] /\ ReadableSources' = seen
    BY <1>1, <1>2 DEF seen
  <1>6. known' \in [Reader -> SUBSET Source]
    BY <1>3, <1>4, <1>5
  <1>7. \A r \in Reader : Reading(r) => known[r] \cup ReadableSources' \subseteq known'[r]
    BY <1>3, <1>5
  <1>8. Reading("ask") <=> ask.phase # "idle"
    BY DEF Reading
  <1>9. \A h \in Clerk : Reading(h) <=> clerk[h].phase # "idle"
    BY DEF Reading
  <1>10. AnswersShape'
    BY <1>1, <1>6 DEF GroundedInv, AnswersShape
  <1>11. SeesSources'
    BY <1>1, <1>7, <1>8, <1>9 DEF SeesSources
  <1>12. AskKnows'
    BY <1>1, <1>7, <1>8 DEF GroundedInv, AskKnows
  <1>13. ASSUME NEW h \in Clerk PROVE ClerkKnows(h)'
    <2>1. CASE clerk[h].phase # "idle"
      BY <1>1, <1>7, <1>9, <2>1 DEF GroundedInv, ClerkKnows
    <2>2. CASE clerk[h].phase = "idle"
      BY <1>1, <2>2 DEF GroundedInv, IdleIsClean, ClerkKnows
    <2> QED BY <2>1, <2>2
  <1> QED BY <1>1, <1>10, <1>11, <1>12, <1>13 DEF GroundedInv, IdleIsClean

LEMMA LibraryKeeps == GroundedInv /\ LibraryNext => GroundedInv'
  BY UpheavalKeeps DEF LibraryNext, Withdraw, CompleteAgain, Vectorize, Rewrite, Republish, Index

\* A step of the question alone leaves the handlers as they are.
LEMMA HandlersStay ==
    ASSUME GroundedInv, UNCHANGED <<libraryVars, clerk>>, known' \in [Reader -> SUBSET Source],
           \A h \in Clerk : known'[h] = known[h], ask' \in Asking(ask'.todo, ask'.found, ask'.version)
    PROVE  /\ AnswersShape' /\ \A h \in Clerk : ClerkKnows(h)'
           /\ \A h \in Clerk : clerk'[h].phase = "idle" => clerk'[h].kept = {} /\ clerk'[h].citing = Nothing
           /\ \A h \in Clerk : clerk'[h].phase # "idle" => ReadableSources' \subseteq known'[h]
           /\ ReadableSources' = ReadableSources
  <1>1. ReadableSources' = ReadableSources
    BY DEF libraryVars, ReadableSources, Readable
  <1>2. AnswersShape'
    BY DEF GroundedInv, AnswersShape
  <1> QED BY <1>1, <1>2 DEF GroundedInv, SeesSources, ClerkKnows, IdleIsClean

LEMMA AskKeeps == GroundedInv /\ AskNext => GroundedInv'
  <1> SUFFICES ASSUME GroundedInv, AskNext PROVE GroundedInv'
    OBVIOUS
  <1> USE AnswersConstants
  <1>0. /\ ask \in Asking(ask.todo, ask.found, ask.version) /\ known \in [Reader -> SUBSET Source]
        /\ AskKnows /\ SeesSources
    BY DEF GroundedInv, AnswersShape
  <1>1. ASSUME NEW task, NEW next, NEW passages, Retrieving, Retrieved(task, next, passages) PROVE GroundedInv'
    <2>1. /\ ask' = [ask EXCEPT !.todo = (ask.todo \ {task}) \cup next, !.found = ask.found \cup passages]
          /\ UNCHANGED <<libraryVars, clerk, known>> /\ ask.phase = "retrieving"
      BY <1>1 DEF Retrieved, Retrieving
    <2>2. ask' \in Asking(ask'.todo, ask'.found, ask'.version) /\ ask'.phase = "retrieving"
      BY <1>0, <2>1 DEF Asking
    <2> QED BY <1>0, <2>1, <2>2, HandlersStay DEF GroundedInv, IdleIsClean, SeesSources, AskKnows
  <1>2. ASSUME NEW S \in SUBSET Passage, Rank(S) PROVE GroundedInv'
    <2>1. /\ known' = [known EXCEPT !["ask"] = ReadableSources]
          /\ UNCHANGED <<libraryVars, clerk>> /\ ask.phase = "retrieving"
          /\ ask' = IF S = {} THEN NoAnswer ELSE [ask EXCEPT !.phase = "citing", !.found = {}, !.ranked = S]
      BY <1>2 DEF Rank, Retrieving
    <2>2. /\ known' \in [Reader -> SUBSET Source] /\ known'["ask"] = ReadableSources
          /\ \A h \in Clerk : known'[h] = known[h]
      BY <1>0, <2>1
    <2>3. CASE S = {}
      <3>1. ask' \in Asking(ask'.todo, ask'.found, ask'.version) /\ ask'.phase = "no_answer" /\ ask'.selected = {}
        BY <2>1, <2>3, EndIsClean DEF NoAnswer
      <3> QED BY <2>1, <2>2, <3>1, HandlersStay DEF GroundedInv, IdleIsClean, SeesSources, AskKnows
    <2>4. CASE S # {}
      <3>1. /\ ask' \in Asking(ask'.todo, ask'.found, ask'.version) /\ ask'.phase = "citing"
            /\ ask'.cited = ask.cited /\ ask'.citing = ask.citing /\ ask'.markers = ask.markers
        BY <1>0, <2>1, <2>4 DEF Asking
      <3>2. ask.cited = <<>> /\ ask.citing = Nothing /\ ask.markers = {}
        BY <2>1 DEF GroundedInv, IdleIsClean
      <3> QED BY <2>1, <2>2, <3>1, <3>2, HandlersStay DEF GroundedInv, IdleIsClean, SeesSources, AskKnows
    <2> QED BY <2>3, <2>4
  <1>3. ASSUME NEW p \in Passage, ReadSource(p) PROVE GroundedInv'
    <2>1. /\ ask' = [ask EXCEPT !.ranked = ask.ranked \ {p},
                                !.citing = IF LooksReadable(p) THEN p ELSE Nothing,
                                !.version = SeenVersion(p)]
          /\ ask.phase = "citing" /\ ask.citing = Nothing /\ p \in ask.ranked
          /\ UNCHANGED <<libraryVars, clerk, known>>
      BY <1>3 DEF ReadSource
    <2>2. /\ ask' \in Asking(ask'.todo, ask'.found, ask'.version) /\ ask'.phase = "citing"
          /\ ask'.cited = ask.cited /\ ask'.markers = ask.markers /\ ask'.selected = ask.selected
          /\ ask'.ranked = ask.ranked \ {p} /\ ask'.citing = IF LooksReadable(p) THEN p ELSE Nothing
      BY <1>0, <2>1 DEF Asking
    <2>3. AskKnows'
      BY <1>0, <2>1, <2>2 DEF AskKnows, SeesSources
    <2> QED BY <1>0, <2>1, <2>2, <2>3, HandlersStay DEF GroundedInv, IdleIsClean, SeesSources
  <1>4. ASSUME Cite PROVE GroundedInv'
    <2> DEFINE new == IF Confirmed(ask.citing, ask.version) THEN Append(ask.cited, ask.citing) ELSE ask.cited
    <2>1. /\ ask' = [ask EXCEPT !.citing = Nothing, !.cited = new]
          /\ ask.phase = "citing" /\ ask.citing \in Passage
          /\ UNCHANGED <<libraryVars, clerk, known>>
      BY <1>0, <1>4 DEF Cite, Asking
    <2>2. new \in Seq(Passage)
      BY <1>0, <2>1 DEF Asking
    <2>3. /\ ask' \in Asking(ask'.todo, ask'.found, ask'.version) /\ ask'.phase = "citing"
          /\ ask'.cited = new /\ ask'.markers = ask.markers /\ ask'.selected = ask.selected
          /\ ask'.ranked = ask.ranked /\ ask'.citing = Nothing
      BY <1>0, <2>1, <2>2 DEF Asking
    <2>4. \A n \in DOMAIN new : SourceOf[new[n]] \in known["ask"] /\ new[n] \in Passage
      <3>1. CASE new = ask.cited
        BY <1>0, <2>1, <2>2, <3>1 DEF AskKnows
      <3>2. CASE new = Append(ask.cited, ask.citing)
        <4>1. /\ ask.cited \in Seq(Passage) /\ DOMAIN new = 1..(Len(ask.cited) + 1)
              /\ \A n \in DOMAIN ask.cited : new[n] = ask.cited[n]
              /\ new[Len(ask.cited) + 1] = ask.citing
              /\ \A n \in DOMAIN new : n \in DOMAIN ask.cited \/ n = Len(ask.cited) + 1
          BY <1>0, <2>1, <3>2 DEF Asking
        <4> HIDE DEF new
        <4> QED BY <1>0, <2>1, <2>2, <4>1 DEF AskKnows
      <3> QED BY <3>1, <3>2
    <2> HIDE DEF new
    <2>5. AskKnows'
      BY <1>0, <2>1, <2>3, <2>4 DEF AskKnows
    <2> QED BY <1>0, <2>1, <2>3, <2>5, HandlersStay DEF GroundedInv, IdleIsClean, SeesSources
  <1>5. ASSUME NEW S, FillContext(S) PROVE GroundedInv'
    <2>1. /\ ask' = IF S = {} THEN NoAnswer ELSE [ask EXCEPT !.phase = "generating", !.selected = S]
          /\ ask.phase = "citing" /\ S \subseteq DOMAIN ask.cited
          /\ UNCHANGED <<libraryVars, clerk, known>>
      BY <1>5 DEF FillContext
    <2>2. CASE S = {}
      <3>1. ask' \in Asking(ask'.todo, ask'.found, ask'.version) /\ ask'.phase = "no_answer" /\ ask'.selected = {}
        BY <2>1, <2>2, EndIsClean DEF NoAnswer
      <3> QED BY <1>0, <2>1, <3>1, HandlersStay DEF GroundedInv, IdleIsClean, SeesSources, AskKnows
    <2>3. CASE S # {}
      <3>0. S \subseteq Nat
        BY <1>0, <2>1 DEF Asking
      <3>1. /\ ask' \in Asking(ask'.todo, ask'.found, ask'.version) /\ ask'.phase = "generating"
            /\ ask'.cited = ask.cited /\ ask'.citing = ask.citing /\ ask'.markers = ask.markers
            /\ ask'.ranked = ask.ranked /\ ask'.selected = S
        BY <1>0, <2>1, <2>3, <3>0 DEF Asking
      <3>2. ask.markers = {}
        BY <2>1 DEF GroundedInv, IdleIsClean
      <3> QED BY <1>0, <2>1, <2>3, <3>1, <3>2, HandlersStay DEF GroundedInv, IdleIsClean, SeesSources, AskKnows
    <2> QED BY <2>2, <2>3
  <1>6. ASSUME NEW M, Generate(M) PROVE GroundedInv'
    <2>1. ask.phase = "generating" /\ UNCHANGED <<libraryVars, clerk, known>>
      BY <1>6 DEF Generate
    <2>2. CASE ask' = NoAnswer
      <3>1. ask' \in Asking(ask'.todo, ask'.found, ask'.version) /\ ask'.phase = "no_answer" /\ ask'.selected = {}
        BY <2>1, <2>2, EndIsClean DEF NoAnswer
      <3> QED BY <1>0, <2>1, <3>1, HandlersStay DEF GroundedInv, IdleIsClean, SeesSources, AskKnows
    <2>3. CASE ask' = [ask EXCEPT !.phase = "answered", !.markers = Sanitized(M)]
      <3>0. Sanitized(M) \subseteq ask.selected /\ ask.selected \subseteq Nat
        BY <1>0 DEF Sanitized, Asking
      <3>1. /\ ask' \in Asking(ask'.todo, ask'.found, ask'.version) /\ ask'.phase = "answered"
            /\ ask'.cited = ask.cited /\ ask'.citing = ask.citing /\ ask'.markers = Sanitized(M)
            /\ ask'.ranked = ask.ranked /\ ask'.selected = ask.selected
        BY <1>0, <2>3, <3>0 DEF Asking
      <3> QED BY <1>0, <2>1, <3>0, <3>1, HandlersStay DEF GroundedInv, IdleIsClean, SeesSources, AskKnows
    <2> QED BY <1>6, <2>2, <2>3 DEF Generate
  <1>7. ASSUME AskFails PROVE GroundedInv'
    <2>1. ask' = [NoAsk EXCEPT !.phase = "error"] /\ UNCHANGED <<libraryVars, clerk, known>>
      BY <1>7 DEF AskFails
    <2>2. ask' \in Asking(ask'.todo, ask'.found, ask'.version) /\ ask'.phase = "error"
      BY <2>1, EndIsClean
    <2> QED BY <1>0, <2>1, <2>2, HandlersStay DEF GroundedInv, IdleIsClean, SeesSources, AskKnows
  <1> QED BY <1>1, <1>2, <1>3, <1>4, <1>5, <1>6, <1>7
          DEF AskNext, ListDocuments, ScanChunks, SearchArticles, EmbedQuestion, SearchVectors, SearchArticleVectors
-----------------------------------------------------------------------------
\* What handler h does leaves the question and the other handlers as they are.
LEMMA OtherHandlers ==
    ASSUME GroundedInv, NEW h \in Clerk, NEW new, clerk' = [clerk EXCEPT ![h] = new],
           new \in Handler(new.item, new.version, new.copy),
           UNCHANGED libraryVars, known' \in [Reader -> SUBSET Source],
           \A r \in Reader \ {"ask", h} : known'[r] = known[r],
           new.phase # "idle" => ReadableSources \subseteq known'[h],
           new.phase = "idle" => new.kept = {} /\ new.citing = Nothing,
           \A p \in new.kept : SourceOf[p] \in known'[h],
           new.citing # Nothing => SourceOf[new.citing] \in known'[h],
           \/ ask' = ask /\ (known'["ask"] = known["ask"] \/ ask.phase = "idle")
           \/ ask' = NoAsk
    PROVE  GroundedInv'
  <1> USE AnswersConstants
  <1>0. clerk = [g \in Clerk |-> clerk[g]] /\ AskKnows /\ SeesSources /\ IdleIsClean
    BY DEF GroundedInv, AnswersShape
  <1>1. clerk' = [g \in Clerk |-> clerk'[g]] /\ clerk'[h] = new /\ \A g \in Clerk \ {h} : clerk'[g] = clerk[g]
    BY <1>0
  <1>2. ReadableSources' = ReadableSources
    BY DEF libraryVars, ReadableSources, Readable
  <1>3. \A g \in Clerk : clerk'[g] \in Handler(clerk'[g].item, clerk'[g].version, clerk'[g].copy)
    BY <1>1 DEF GroundedInv, AnswersShape
  <1>4. CASE ask' = ask /\ (known'["ask"] = known["ask"] \/ ask.phase = "idle")
    <2>1. AnswersShape'
      BY <1>1, <1>3, <1>4 DEF GroundedInv, AnswersShape
    <2>2. SeesSources' /\ AskKnows' /\ IdleIsClean' /\ \A g \in Clerk : ClerkKnows(g)'
      BY <1>0, <1>1, <1>2, <1>4 DEF GroundedInv, SeesSources, AskKnows, IdleIsClean, ClerkKnows
    <2> QED BY <2>1, <2>2 DEF GroundedInv
  <1>5. CASE ask' = NoAsk
    <2>1. ask' \in Asking(ask'.todo, ask'.found, ask'.version) /\ ask'.phase = "idle"
      BY <1>5 DEF Asking, NoAsk
    <2>2. AnswersShape'
      BY <1>1, <1>3, <2>1 DEF AnswersShape
    <2>3. SeesSources' /\ AskKnows' /\ IdleIsClean' /\ \A g \in Clerk : ClerkKnows(g)'
      BY <1>0, <1>1, <1>2, <2>1 DEF GroundedInv, SeesSources, AskKnows, IdleIsClean, ClerkKnows
    <2> QED BY <2>2, <2>3 DEF GroundedInv
  <1> QED BY <1>4, <1>5

LEMMA RequestKeeps ==
    ASSUME GroundedInv, NEW h \in Clerk, NEW kind \in {"save", "delete", "clear"}, NEW q,
           NEW refs \in SUBSET Passage, NEW mine \in BOOLEAN, Request(h, kind, q, refs, mine),
           UNCHANGED libraryVars, ask' = ask \/ ask' = NoAsk
    PROVE  GroundedInv'
  <1> USE AnswersConstants
  <1> DEFINE new == [NoRequest EXCEPT !.phase = "resolving", !.kind = kind, !.item = q, !.refs = refs, !.mine = mine]
  <1>1. /\ clerk' = [clerk EXCEPT ![h] = new]
        /\ known' = [known EXCEPT ![h] = ReadableSources, !["ask"] = IF ask' = NoAsk THEN {} ELSE @]
    BY DEF Request
  <1>2. /\ new \in Handler(new.item, new.version, new.copy) /\ new.phase = "resolving" /\ new.kept = {}
        /\ new.citing = Nothing
    BY DEF NoRequest, Handler
  <1>3. known \in [Reader -> SUBSET Source]
    BY DEF GroundedInv, AnswersShape
  <1>4. /\ known' \in [Reader -> SUBSET Source] /\ known'[h] = ReadableSources
        /\ \A r \in Reader \ {"ask", h} : known'[r] = known[r]
        /\ ask' # NoAsk => known'["ask"] = known["ask"]
    BY <1>1, <1>3
  <1> HIDE DEF new
  <1> QED BY <1>1, <1>2, <1>4, OtherHandlers

\* A handler's own step, seen from the handler.
LEMMA HandlerKeeps ==
    ASSUME GroundedInv, NEW h \in Clerk, NEW new, clerk' = [clerk EXCEPT ![h] = new],
           new \in Handler(new.item, new.version, new.copy), new.phase # "idle", clerk[h].phase # "idle",
           \A p \in new.kept : SourceOf[p] \in known[h],
           new.citing # Nothing => SourceOf[new.citing] \in known[h],
           UNCHANGED <<libraryVars, ask, known>>
    PROVE  GroundedInv'
  BY AnswersConstants, OtherHandlers DEF GroundedInv, AnswersShape, SeesSources

LEMMA ClerkKeeps ==
    ASSUME GroundedInv, NEW h \in Clerk, ClerkNext(h)
    PROVE  GroundedInv'
  <1> USE AnswersConstants
  <1> DEFINE c == clerk[h]
  <1>0. /\ c \in Handler(c.item, c.version, c.copy) /\ SeesSources /\ ClerkKnows(h)
        /\ clerk = [g \in Clerk |-> clerk[g]]
    BY DEF GroundedInv, AnswersShape
  <1>1. CASE ColleagueSends(h)
    <2>1. UNCHANGED <<libraryVars, ask>>
      BY <1>1 DEF ColleagueSends
    <2>2. \A p \in Passage : {p} \in SUBSET Passage
      OBVIOUS
    <2> QED BY <1>1, <2>1, <2>2, RequestKeeps DEF ColleagueSends
  <1>2. ASSUME NEW p \in Passage, ResolveSource(h, p) PROVE GroundedInv'
    <2> DEFINE new == [c EXCEPT !.refs = c.refs \ {p}, !.citing = IF LooksReadable(p) THEN p ELSE Nothing,
                                !.version = SeenVersion(p)]
    <2>1. /\ clerk' = [clerk EXCEPT ![h] = new] /\ c.phase = "resolving"
          /\ UNCHANGED <<libraryVars, ask, known>>
      BY <1>2 DEF ResolveSource
    <2>2. /\ new \in Handler(new.item, new.version, new.copy) /\ new.phase = "resolving"
          /\ new.kept = c.kept /\ new.citing = IF LooksReadable(p) THEN p ELSE Nothing
      BY <1>0, <2>1 DEF Handler
    <2> HIDE DEF new
    <2>3. new.citing # Nothing => SourceOf[new.citing] \in known[h]
      BY <1>0, <2>1, <2>2 DEF SeesSources
    <2> QED BY <1>0, <2>1, <2>2, <2>3, HandlerKeeps DEF ClerkKnows
  <1>3. CASE KeepSource(h)
    <2> DEFINE kept == IF Confirmed(c.citing, c.version) THEN c.kept \cup {c.citing} ELSE c.kept
               new == [c EXCEPT !.citing = Nothing, !.kept = kept]
    <2>1. /\ clerk' = [clerk EXCEPT ![h] = new] /\ c.phase = "resolving" /\ c.citing # Nothing
          /\ UNCHANGED <<libraryVars, ask, known>>
      BY <1>3 DEF KeepSource
    <2>2. kept \subseteq Passage /\ \A p \in kept : SourceOf[p] \in known[h]
      BY <1>0, <2>1 DEF Handler, ClerkKnows
    <2> HIDE DEF kept
    <2>3. /\ new \in Handler(new.item, new.version, new.copy) /\ new.phase = "resolving"
          /\ new.kept = kept /\ new.citing = Nothing
      BY <1>0, <2>1, <2>2 DEF Handler
    <2> HIDE DEF new
    <2> QED BY <2>1, <2>2, <2>3, HandlerKeeps
  <1>4. CASE ListHistory(h)
    <2> DEFINE new == [c EXCEPT !.phase = "listed", !.copy = history]
    <2>1. /\ clerk' = [clerk EXCEPT ![h] = new] /\ c.phase = "resolving"
          /\ UNCHANGED <<libraryVars, ask, known>>
      BY <1>4 DEF ListHistory
    <2>2. /\ new \in Handler(new.item, new.version, new.copy) /\ new.phase = "listed"
          /\ new.kept = c.kept /\ new.citing = c.citing
      BY <1>0, <2>1 DEF Handler
    <2> HIDE DEF new
    <2> QED BY <1>0, <2>1, <2>2, HandlerKeeps DEF ClerkKnows
  <1>5. CASE SaveHistory(h)
    <2>1. c.phase = "listed" /\ UNCHANGED <<libraryVars, ask, known>>
      BY <1>5 DEF SaveHistory
    <2>2. PICK new \in {[c EXCEPT !.phase = "failed"], [c EXCEPT !.phase = "replied", !.copy = <<>>]} :
              clerk' = [clerk EXCEPT ![h] = new]
      BY <1>5 DEF SaveHistory
    <2>3. /\ new \in Handler(new.item, new.version, new.copy) /\ new.phase # "idle"
          /\ new.kept = c.kept /\ new.citing = c.citing
      BY <1>0 DEF Handler
    <2> QED BY <1>0, <2>1, <2>2, <2>3, HandlerKeeps DEF ClerkKnows
  <1>6. CASE ClerkFails(h)
    <2> DEFINE new == [NoRequest EXCEPT !.phase = "failed", !.kind = c.kind, !.item = c.item, !.mine = c.mine]
    <2>1. /\ clerk' = [clerk EXCEPT ![h] = new] /\ c.phase # "idle"
          /\ UNCHANGED <<libraryVars, ask, known>>
      BY <1>6 DEF ClerkFails
    <2>2. /\ new \in Handler(new.item, new.version, new.copy) /\ new.phase = "failed"
          /\ new.kept = {} /\ new.citing = Nothing
      BY <1>0 DEF Handler, NoRequest
    <2> HIDE DEF new
    <2> QED BY <2>1, <2>2, HandlerKeeps
  <1> QED BY <1>1, <1>2, <1>3, <1>4, <1>5, <1>6 DEF ClerkNext

LEMMA PageKeeps == GroundedInv /\ PageNext => GroundedInv'
  <1> SUFFICES ASSUME GroundedInv, PageNext PROVE GroundedInv'
    OBVIOUS
  <1> USE AnswersConstants
  <1>0. ask \in Asking(ask.todo, ask.found, ask.version) /\ known \in [Reader -> SUBSET Source]
    BY DEF GroundedInv, AnswersShape
  <1>1. ASSUME UNCHANGED <<libraryVars, ask, clerk, known>> PROVE GroundedInv'
    BY <1>1, GroundedStays
  <1>2. CASE ReceiveError
    <2>1. ask' = NoAsk /\ known' = [known EXCEPT !["ask"] = {}] /\ UNCHANGED <<libraryVars, clerk>>
      BY <1>2 DEF ReceiveError
    <2>2. ask' \in Asking(ask'.todo, ask'.found, ask'.version) /\ ask'.phase = "idle"
      BY <2>1 DEF Asking, NoAsk
    <2>3. known' \in [Reader -> SUBSET Source] /\ \A h \in Clerk : known'[h] = known[h]
      BY <1>0, <2>1
    <2> QED BY <2>1, <2>2, <2>3, HandlersStay DEF GroundedInv, IdleIsClean, SeesSources, AskKnows
  <1>3. ASSUME NEW q \in Question, Submit(q) PROVE GroundedInv'
    <2>1. /\ ask' = [NoAsk EXCEPT !.phase = "retrieving", !.todo = {"documents", "articles", "embedding"}]
          /\ UNCHANGED <<libraryVars, clerk, known>>
      BY <1>3 DEF Submit
    <2>2. ask' = [phase |-> "retrieving", todo |-> {"documents", "articles", "embedding"}, found |-> {},
                  ranked |-> {}, citing |-> Nothing, version |-> 0, cited |-> <<>>, selected |-> {}, markers |-> {}]
      BY <2>1 DEF NoAsk
    <2>3. /\ ask' \in Asking(ask'.todo, ask'.found, ask'.version) /\ ask'.phase = "retrieving"
          /\ ask'.cited = <<>> /\ ask'.citing = Nothing /\ ask'.markers = {}
      <3>1. <<>> \in Seq(Passage) /\ {} \in SUBSET Nat /\ {} \in SUBSET Passage
        OBVIOUS
      <3> QED BY <2>2, <3>1 DEF Asking
    <2> QED BY <1>0, <2>1, <2>3, HandlersStay DEF GroundedInv, IdleIsClean, SeesSources, AskKnows
  <1>4. ASSUME NEW h \in Clerk, ReceiveAnswer(h) PROVE GroundedInv'
    <2> DEFINE refs == {ask.cited[n] : n \in FirstFew(ask.selected)}
    <2>1. /\ ask' = NoAsk /\ Request(h, "save", page.asked, refs, TRUE) /\ UNCHANGED libraryVars
          /\ ask.phase \in {"answered", "no_answer"}
      BY <1>4 DEF ReceiveAnswer
    <2>2. refs \subseteq Passage
      <3>1. CASE ask.phase = "answered"
        <4>1. /\ ask.cited \in Seq(Passage) /\ ask.selected \subseteq DOMAIN ask.cited
              /\ FirstFew(ask.selected) \subseteq ask.selected
          BY <1>0, <3>1 DEF GroundedInv, AskKnows, Asking, FirstFew
        <4>2. \A n \in FirstFew(ask.selected) : ask.cited[n] \in Passage
          BY <4>1
        <4> QED BY <4>2
      <3>2. CASE ask.phase = "no_answer"
        BY <3>2 DEF GroundedInv, IdleIsClean, FirstFew
      <3> QED BY <2>1, <3>1, <3>2
    <2> QED BY <2>1, <2>2, RequestKeeps
  <1>5. ASSUME NEW h \in Clerk, ReceiveReply(h) PROVE GroundedInv'
    <2>1. /\ clerk' = [clerk EXCEPT ![h] = NoRequest] /\ known' = [known EXCEPT ![h] = {}]
          /\ UNCHANGED <<libraryVars, ask>>
      BY <1>5 DEF ReceiveReply
    <2>2. /\ NoRequest \in Handler(NoRequest.item, NoRequest.version, NoRequest.copy)
          /\ NoRequest.phase = "idle" /\ NoRequest.kept = {} /\ NoRequest.citing = Nothing
      BY DEF NoRequest, Handler
    <2>3. known' \in [Reader -> SUBSET Source] /\ \A r \in Reader \ {h} : known'[r] = known[r]
      BY <1>0, <2>1
    <2> QED BY <2>1, <2>2, <2>3, OtherHandlers
  <1>6. ASSUME NEW h \in Clerk, ClearHistory(h) PROVE GroundedInv'
    BY <1>6, RequestKeeps DEF ClearHistory
  <1>7. ASSUME NEW h \in Clerk, NEW q, DeleteHistoryItem(h, q) PROVE GroundedInv'
    BY <1>7, RequestKeeps DEF DeleteHistoryItem
  <1> QED BY <1>1, <1>2, <1>3, <1>4, <1>5, <1>6, <1>7
          DEF PageNext, ReadHistory, LoadHistory, ClearAnswer, OpenHistoryItem, PageOnly

LEMMA GroundedInvariance == AnswersSpec => []GroundedInv
  <1>1. GroundedInv /\ [AnswersNext]_answersVars => GroundedInv'
    BY LibraryKeeps, AskKeeps, ClerkKeeps, PageKeeps, GroundedStays DEF AnswersNext, answersVars
  <1> QED BY <1>1, GroundedInit, PTL DEF AnswersSpec

\* Whatever is withdrawn while a question is answered or a history item saved:
\* every citation names a source that was readable after the ranking, every
\* marker has its citation, and a history item names no source that was out of
\* reach while it was saved.
THEOREM AnswersAlwaysGrounded == AnswersSpec => []AnswersAreGrounded
  BY GroundedInvariance, GroundedMeans, PTL

-----------------------------------------------------------------------------
(* What a question finds, the page and the file.  The ids of the items come   *)
(* from questions that were asked.                                            *)

SourcesShape ==
    /\ shelf \in [DocumentSource -> [open : BOOLEAN, chunks : SUBSET Passage, vectors : SUBSET Passage]]
    /\ board \in [ArticleSource -> [version : Nat, open : BOOLEAN, search : Nat, vector : Nat]]

HistoryItems == [question : taken, sources : SUBSET Passage]

PageShape ==
    /\ page \in [asked : Question \cup {Nothing}, question : {page.question}, answer : {page.answer},
                 loading : BOOLEAN, list : SUBSET taken, mount : {"mounted", "read", "loaded"},
                 late : SUBSET taken]
    /\ page.loading => page.asked \in taken

\* A request under way asks for something of an item that was named.
RequestShape(r) ==
    /\ r.copy \in Seq(HistoryItems)
    /\ r.phase # "idle" => /\ r.kind \in {"save", "delete", "clear"}
                           /\ r.kind # "clear" => r.item \in taken

AskedShape ==
    /\ taken \subseteq Question /\ ask.found \subseteq Passage
    /\ PageShape /\ history \in Seq(HistoryItems)
    /\ \A h \in Clerk : RequestShape(clerk[h])

AnswersInv == GroundedInv /\ SourcesShape /\ AskedShape

LEMMA AnswersInvIsTyped == AnswersInv => AnswersTypeOK
  <1> SUFFICES ASSUME AnswersInv PROVE AnswersTypeOK
    OBVIOUS
  <1>1. ask.found \cup ask.ranked \subseteq Passage /\ ask.cited \in Seq(Passage)
    BY DEF AnswersInv, AskedShape, GroundedInv, AnswersShape, Asking
  <1>2. page.list \cup page.late \subseteq taken /\ page.asked \in Question \cup {Nothing}
    BY DEF AnswersInv, AskedShape, PageShape
  <1>3. \A h \in Clerk : clerk[h].refs \cup clerk[h].kept \subseteq Passage
    BY DEF AnswersInv, GroundedInv, AnswersShape, Handler
  <1>4. \A i \in DOMAIN history : history[i].question \in taken
    <2>1. \A i \in DOMAIN history : history[i] \in HistoryItems
      BY DEF AnswersInv, AskedShape
    <2> QED BY <2>1 DEF HistoryItems
  <1> QED BY <1>1, <1>2, <1>3, <1>4 DEF AnswersInv, SourcesShape, GroundedInv, AnswersShape, AnswersTypeOK

LEMMA AnswersInitInv == AnswersInit => AnswersInv
  <1> SUFFICES ASSUME AnswersInit PROVE AnswersInv
    OBVIOUS
  <1>1. SourcesShape
    BY DEF AnswersInit, SourcesShape, PassagesOf
  <1>2. NoAsk.found = {} /\ NoRequest.phase = "idle" /\ NoRequest.copy = <<>>
    BY DEF NoAsk, NoRequest
  <1>3. AskedShape
    <2>1. taken = {} /\ history = <<>> /\ ask = NoAsk /\ clerk = [h \in Clerk |-> NoRequest]
          /\ page = [asked |-> Nothing, question |-> Nothing, answer |-> Nothing,
                     loading |-> FALSE, list |-> {}, mount |-> "mounted", late |-> {}]
      BY DEF AnswersInit
    <2>2. <<>> \in Seq(HistoryItems)
      OBVIOUS
    <2> QED BY <1>2, <2>1, <2>2 DEF AskedShape, PageShape, RequestShape
  <1> QED BY <1>1, <1>3, GroundedInit DEF AnswersInv

\* More questions leave what is named by earlier ones.
LEMMA MoreTaken ==
    ASSUME AskedShape, taken \subseteq taken'
    PROVE  /\ history \in Seq(HistoryItems') /\ \A h \in Clerk : clerk[h].copy \in Seq(HistoryItems')
           /\ page.list \subseteq taken' /\ page.late \subseteq taken'
  <1>1. HistoryItems \subseteq HistoryItems'
    BY DEF HistoryItems
  <1>2. Seq(HistoryItems) \subseteq Seq(HistoryItems')
    BY <1>1
  <1> QED BY <1>2 DEF AskedShape, PageShape, RequestShape

LEMMA SourcesKeepAnswers == AnswersInv /\ LibraryNext => SourcesShape' /\ AskedShape'
  <1> SUFFICES ASSUME AnswersInv, LibraryNext PROVE SourcesShape' /\ AskedShape'
    OBVIOUS
  <1>1. UNCHANGED <<ask, page, clerk, history, taken>>
    BY DEF LibraryNext, Withdraw, CompleteAgain, Vectorize, Rewrite, Republish, Index, Upheaval
  <1>2. AskedShape'
    BY <1>1 DEF AnswersInv, AskedShape, PageShape, RequestShape, HistoryItems
  <1>3. SourcesShape
    BY DEF AnswersInv
  <1>4. ASSUME NEW d \in DocumentSource,
               Withdraw(d) \/ CompleteAgain(d) \/ Vectorize(d) \/ \E C \in SUBSET PassagesOf(d) : Rewrite(d, C)
        PROVE  SourcesShape'
    <2>1. board' = board /\ shelf[d] \in [open : BOOLEAN, chunks : SUBSET Passage, vectors : SUBSET Passage]
      BY <1>3, <1>4 DEF SourcesShape, Withdraw, CompleteAgain, Vectorize, Rewrite
    <2>2. PassagesOf(d) \subseteq Passage
      BY DEF PassagesOf
    <2>3. CASE Withdraw(d)
      BY <1>3, <2>1, <2>3 DEF SourcesShape, Withdraw
    <2>4. CASE CompleteAgain(d)
      BY <1>3, <2>1, <2>4 DEF SourcesShape, CompleteAgain
    <2>5. CASE Vectorize(d)
      BY <1>3, <2>1, <2>5 DEF SourcesShape, Vectorize
    <2>6. CASE \E C \in SUBSET PassagesOf(d) : Rewrite(d, C)
      BY <1>3, <2>1, <2>2, <2>6 DEF SourcesShape, Rewrite
    <2> QED BY <1>4, <2>3, <2>4, <2>5, <2>6
  <1>5. ASSUME NEW a \in ArticleSource, Republish(a) \/ Index(a) PROVE SourcesShape'
    <2>1. shelf' = shelf /\ board[a] \in [version : Nat, open : BOOLEAN, search : Nat, vector : Nat]
      BY <1>3, <1>5 DEF SourcesShape, Republish, Index
    <2>2. ASSUME NEW open \in BOOLEAN, board' = [board EXCEPT ![a].version = @ + 1, ![a].open = open]
          PROVE  SourcesShape'
      <3>1. [board[a] EXCEPT !.version = board[a].version + 1, !.open = open]
                \in [version : Nat, open : BOOLEAN, search : Nat, vector : Nat]
        <4>1. PICK b : b = board[a]
          OBVIOUS
        <4>2. PICK v \in Nat : v = board[a].version + 1
          BY <2>1
        <4>3. [b EXCEPT !.version = v, !.open = open] \in [version : Nat, open : BOOLEAN, search : Nat, vector : Nat]
          BY <2>1, <4>1, <4>2
        <4> QED BY <4>1, <4>2, <4>3
      <3>2. board' = [board EXCEPT ![a] = [board[a] EXCEPT !.version = board[a].version + 1, !.open = open]]
        BY <1>3, <2>2 DEF SourcesShape
      <3> QED BY <1>3, <2>1, <3>1, <3>2 DEF SourcesShape
    <2>3. ASSUME NEW row \in {"search", "vector"}, board' = [board EXCEPT ![a][row] = board[a].version]
          PROVE  SourcesShape'
      <3>1. [board[a] EXCEPT ![row] = board[a].version]
                \in [version : Nat, open : BOOLEAN, search : Nat, vector : Nat]
        <4>1. CASE row = "search"
          BY <2>1, <4>1
        <4>2. CASE row = "vector"
          BY <2>1, <4>2
        <4> QED BY <4>1, <4>2
      <3>2. board' = [board EXCEPT ![a] = [board[a] EXCEPT ![row] = board[a].version]]
        BY <1>3, <2>3 DEF SourcesShape
      <3> QED BY <1>3, <2>1, <3>1, <3>2 DEF SourcesShape
    <2> QED BY <1>5, <2>2, <2>3 DEF Republish, Index
  <1> QED BY <1>2, <1>4, <1>5 DEF LibraryNext

LEMMA AskKeepsAnswers == AnswersInv /\ AskNext => SourcesShape' /\ AskedShape'
  <1> SUFFICES ASSUME AnswersInv, AskNext PROVE SourcesShape' /\ AskedShape'
    OBVIOUS
  <1>1. UNCHANGED <<libraryVars, page, clerk, history, taken>>
    BY DEF AskNext, ListDocuments, ScanChunks, SearchArticles, EmbedQuestion, SearchVectors,
           SearchArticleVectors, Retrieved, Rank, ReadSource, Cite, FillContext, Generate, AskFails
  <1>2. SourcesShape' /\ SourcesShape
    BY <1>1 DEF libraryVars, AnswersInv, SourcesShape
  <1>3. ask \in Asking(ask.todo, ask.found, ask.version) /\ ask.found \subseteq Passage
    BY DEF AnswersInv, AskedShape, GroundedInv, AnswersShape
  <1>4. ASSUME NEW task, NEW next, NEW passages \in SUBSET Passage, Retrieved(task, next, passages)
        PROVE  ask'.found \subseteq Passage
    <2>1. ask' = [ask EXCEPT !.todo = (ask.todo \ {task}) \cup next, !.found = ask.found \cup passages]
      BY <1>4 DEF Retrieved
    <2> QED BY <1>3, <2>1 DEF Asking
  <1>5. \A d \in DocumentSource : shelf[d].chunks \subseteq Passage /\ shelf[d].vectors \subseteq Passage
    BY <1>2 DEF SourcesShape
  <1>6. \A row : CurrentIn(row) \subseteq Passage
    BY DEF CurrentIn, PassagesOf
  <1>7. UNION {shelf[d].vectors : d \in DocumentSource \cap ReadableSources} \subseteq Passage
    BY <1>5
  <1>8. NoAnswer.found = {} /\ [NoAsk EXCEPT !.phase = "error"].found = {}
    BY DEF NoAnswer, NoAsk
  <1>9. ASSUME ListDocuments \/ EmbedQuestion PROVE ask'.found \subseteq Passage
    <2>1. {} \in SUBSET Passage
      OBVIOUS
    <2> QED BY <1>4, <1>9, <2>1 DEF ListDocuments, EmbedQuestion
  <1>10. ASSUME \E d \in DocumentSource : ScanChunks(d) PROVE ask'.found \subseteq Passage
    BY <1>4, <1>5, <1>10 DEF ScanChunks
  <1>11. ASSUME SearchArticles \/ SearchArticleVectors PROVE ask'.found \subseteq Passage
    BY <1>4, <1>6, <1>11 DEF SearchArticles, SearchArticleVectors
  <1>12. ASSUME SearchVectors PROVE ask'.found \subseteq Passage
    BY <1>4, <1>7, <1>12 DEF SearchVectors
  <1>13. ASSUME \E S \in SUBSET Passage : Rank(S) PROVE ask'.found \subseteq Passage
    BY <1>3, <1>8, <1>13 DEF Rank, Asking
  <1>14. ASSUME \E p \in Passage : ReadSource(p) PROVE ask'.found \subseteq Passage
    BY <1>3, <1>14 DEF ReadSource, Asking
  <1>15. ASSUME Cite PROVE ask'.found \subseteq Passage
    BY <1>3, <1>15 DEF Cite, Asking
  <1>16. ASSUME \E S \in SUBSET (1..TopK) : FillContext(S) PROVE ask'.found \subseteq Passage
    BY <1>3, <1>8, <1>16 DEF FillContext, Asking
  <1>17. ASSUME \E M \in SUBSET (1..TopK) : Generate(M) PROVE ask'.found \subseteq Passage
    BY <1>3, <1>8, <1>17 DEF Generate, Asking
  <1>18. ASSUME AskFails PROVE ask'.found \subseteq Passage
    BY <1>8, <1>18 DEF AskFails
  <1>19. ask'.found \subseteq Passage
    BY <1>9, <1>10, <1>11, <1>12, <1>13, <1>14, <1>15, <1>16, <1>17, <1>18 DEF AskNext
  <1> QED BY <1>1, <1>2, <1>19 DEF AnswersInv, AskedShape, PageShape, RequestShape, HistoryItems

\* One handler changes; questions may be added.
LEMMA HandlerTyped ==
    ASSUME AnswersInv, NEW h \in Clerk, NEW new, clerk' = [clerk EXCEPT ![h] = new],
           UNCHANGED libraryVars, taken \subseteq taken', RequestShape(new)'
    PROVE  SourcesShape' /\ \A g \in Clerk : RequestShape(clerk[g])'
  <1>1. clerk = [g \in Clerk |-> clerk[g]]
    BY DEF AnswersInv, GroundedInv, AnswersShape
  <1>2. clerk'[h] = new /\ \A g \in Clerk \ {h} : clerk'[g] = clerk[g]
    BY <1>1
  <1>3. ASSUME NEW g \in Clerk \ {h} PROVE RequestShape(clerk[g])'
    <2>1. RequestShape(clerk[g]) /\ AskedShape
      BY DEF AnswersInv, AskedShape
    <2> QED BY <1>2, <2>1, MoreTaken DEF RequestShape
  <1>4. RequestShape(clerk[h])'
    BY <1>2
  <1> QED BY <1>3, <1>4 DEF AnswersInv, SourcesShape, libraryVars

LEMMA RequestTyped ==
    ASSUME AnswersInv, NEW h \in Clerk, NEW kind \in {"save", "delete", "clear"}, NEW q, NEW refs, NEW mine,
           Request(h, kind, q, refs, mine), UNCHANGED libraryVars, taken \subseteq taken',
           kind # "clear" => q \in taken'
    PROVE  SourcesShape' /\ \A g \in Clerk : RequestShape(clerk[g])'
  <1> DEFINE new == [NoRequest EXCEPT !.phase = "resolving", !.kind = kind, !.item = q, !.refs = refs, !.mine = mine]
  <1>1. new.phase = "resolving" /\ new.kind = kind /\ new.item = q /\ new.copy = <<>>
    BY DEF NoRequest
  <1>2. clerk' = [clerk EXCEPT ![h] = new]
    BY DEF Request
  <1> HIDE DEF new
  <1>3. <<>> \in Seq(HistoryItems')
    OBVIOUS
  <1>4. RequestShape(new)'
    BY <1>1, <1>3 DEF RequestShape
  <1> QED BY <1>2, <1>4, HandlerTyped

LEMMA RewrittenIsTyped ==
    ASSUME AnswersInv, NEW h \in Clerk, clerk[h].phase # "idle"
    PROVE  Rewritten(clerk[h]) \in Seq(HistoryItems)
  <1> DEFINE r == clerk[h]
  <1>1. r.copy \in Seq(HistoryItems) /\ r.kind \in {"save", "delete", "clear"} /\ (r.kind # "clear" => r.item \in taken)
    BY DEF AnswersInv, AskedShape, RequestShape
  <1>2. r.kept \subseteq Passage
    BY DEF AnswersInv, GroundedInv, AnswersShape, Handler
  <1> HIDE DEF r
  <1>3. CASE r.kind = "save"
    <2> DEFINE x == [question |-> r.item, sources |-> r.kept]
               s == <<x>> \o r.copy
               n == IF Len(r.copy) < HistorySize THEN Len(r.copy) + 1 ELSE HistorySize
    <2>1. x \in HistoryItems
      BY <1>1, <1>2, <1>3 DEF HistoryItems
    <2>2. Len(r.copy) \in Nat /\ HistorySize \in Nat
      BY <1>1, AnswersAssumption
    <2>3. n \in Nat /\ n <= 1 + Len(r.copy)
      BY <2>2
    <2> HIDE DEF x, n
    <2>4. s \in Seq(HistoryItems) /\ Len(s) = 1 + Len(r.copy)
      BY <1>1, <2>1
    <2> HIDE DEF s
    <2>5. SubSeq(s, 1, n) \in Seq(HistoryItems)
      BY <2>2, <2>3, <2>4
    <2>6. Rewritten(r) = SubSeq(s, 1, n)
      BY <1>3 DEF Rewritten, s, x, n
    <2> QED BY <2>5, <2>6 DEF r
  <1>4. CASE r.kind = "delete"
    <2> DEFINE kept == {i \in DOMAIN r.copy : r.copy[i].question # r.item}
    <2>1. Rewritten(r) = At(r.copy, kept)
      BY <1>4 DEF Rewritten
    <2>2. kept \in SUBSET (DOMAIN r.copy)
      OBVIOUS
    <2> HIDE DEF kept
    <2> QED BY <1>1, <2>1, <2>2, KeptAre DEF r
  <1>5. CASE r.kind = "clear"
    <2>1. Rewritten(r) = <<>>
      BY <1>5 DEF Rewritten
    <2> QED BY <2>1 DEF r
  <1> QED BY <1>1, <1>3, <1>4, <1>5

LEMMA ClerkKeepsAnswers ==
    ASSUME AnswersInv, NEW h \in Clerk, ClerkNext(h)
    PROVE  SourcesShape' /\ AskedShape'
  <1> DEFINE c == clerk[h]
  <1>0. c \in Handler(c.item, c.version, c.copy) /\ RequestShape(c) /\ AskedShape
    BY DEF AnswersInv, AskedShape, GroundedInv, AnswersShape
  <1>1. UNCHANGED <<libraryVars, ask, page>>
    BY DEF ClerkNext, ColleagueSends, ResolveSource, KeepSource, ListHistory, SaveHistory, ClerkFails
  <1>2. CASE ColleagueSends(h)
    <2>1. history' = history /\ taken \subseteq taken' /\ taken' \subseteq Question
      BY <1>0, <1>2 DEF ColleagueSends, AskedShape
    <2>2. SourcesShape' /\ \A g \in Clerk : RequestShape(clerk[g])'
      BY <1>1, <1>2, RequestTyped DEF ColleagueSends
    <2>3. PageShape'
      BY <1>0, <1>1, <2>1, MoreTaken DEF AskedShape, PageShape
    <2>4. history' \in Seq(HistoryItems')
      BY <1>0, <2>1, MoreTaken
    <2> QED BY <1>0, <1>1, <2>1, <2>2, <2>3, <2>4 DEF AskedShape
  <1>3. ASSUME NEW new, clerk' = [clerk EXCEPT ![h] = new], taken' = taken, history' \in Seq(HistoryItems),
               new.copy \in Seq(HistoryItems), c.phase # "idle", new.kind = c.kind, new.item = c.item
        PROVE  SourcesShape' /\ AskedShape'
    <2>1. RequestShape(new)'
      BY <1>0, <1>3 DEF RequestShape, HistoryItems
    <2>2. SourcesShape' /\ \A g \in Clerk : RequestShape(clerk[g])'
      BY <1>1, <1>3, <2>1, HandlerTyped
    <2> QED BY <1>0, <1>1, <1>3, <2>2 DEF AskedShape, PageShape, HistoryItems
  <1>4. history \in Seq(HistoryItems) /\ c.copy \in Seq(HistoryItems) /\ <<>> \in Seq(HistoryItems)
    BY <1>0 DEF AskedShape, RequestShape
  <1>5. ASSUME NEW p \in Passage, ResolveSource(h, p) PROVE SourcesShape' /\ AskedShape'
    <2> DEFINE new == [c EXCEPT !.refs = c.refs \ {p}, !.citing = IF LooksReadable(p) THEN p ELSE Nothing,
                                !.version = SeenVersion(p)]
    <2>1. clerk' = [clerk EXCEPT ![h] = new] /\ c.phase = "resolving" /\ taken' = taken /\ history' = history
      BY <1>5 DEF ResolveSource
    <2>2. new.copy = c.copy /\ new.kind = c.kind /\ new.item = c.item
      BY <1>0 DEF Handler
    <2> HIDE DEF new
    <2> QED BY <1>3, <1>4, <2>1, <2>2
  <1>6. CASE KeepSource(h)
    <2> DEFINE new == [c EXCEPT !.citing = Nothing,
                                !.kept = IF Confirmed(c.citing, c.version) THEN c.kept \cup {c.citing} ELSE c.kept]
    <2>1. clerk' = [clerk EXCEPT ![h] = new] /\ c.phase = "resolving" /\ taken' = taken /\ history' = history
      BY <1>6 DEF KeepSource
    <2>2. new.copy = c.copy /\ new.kind = c.kind /\ new.item = c.item
      BY <1>0 DEF Handler
    <2> HIDE DEF new
    <2> QED BY <1>3, <1>4, <2>1, <2>2
  <1>7. CASE ListHistory(h)
    <2> DEFINE new == [c EXCEPT !.phase = "listed", !.copy = history]
    <2>1. clerk' = [clerk EXCEPT ![h] = new] /\ c.phase = "resolving" /\ taken' = taken /\ history' = history
      BY <1>7 DEF ListHistory
    <2>2. new.copy = history /\ new.kind = c.kind /\ new.item = c.item
      BY <1>0 DEF Handler
    <2> HIDE DEF new
    <2> QED BY <1>3, <1>4, <2>1, <2>2
  <1>8. CASE SaveHistory(h)
    <2>1. c.phase = "listed" /\ taken' = taken
      BY <1>8 DEF SaveHistory
    <2>2. PICK new \in {[c EXCEPT !.phase = "failed"], [c EXCEPT !.phase = "replied", !.copy = <<>>]} :
              clerk' = [clerk EXCEPT ![h] = new]
      BY <1>8 DEF SaveHistory
    <2>3. (new.copy = c.copy \/ new.copy = <<>>) /\ new.kind = c.kind /\ new.item = c.item
      BY <1>0 DEF Handler
    <2>4. history' = history \/ history' = Rewritten(c)
      BY <1>8 DEF SaveHistory
    <2>5. history' \in Seq(HistoryItems)
      BY <1>4, <2>1, <2>4, RewrittenIsTyped
    <2> QED BY <1>3, <1>4, <2>1, <2>2, <2>3, <2>5
  <1>9. CASE ClerkFails(h)
    <2> DEFINE new == [NoRequest EXCEPT !.phase = "failed", !.kind = c.kind, !.item = c.item, !.mine = c.mine]
    <2>1. clerk' = [clerk EXCEPT ![h] = new] /\ c.phase # "idle" /\ taken' = taken /\ history' = history
      BY <1>9 DEF ClerkFails
    <2>2. new.copy = <<>> /\ new.kind = c.kind /\ new.item = c.item
      BY DEF NoRequest
    <2> HIDE DEF new
    <2> QED BY <1>3, <1>4, <2>1, <2>2
  <1> QED BY <1>2, <1>5, <1>6, <1>7, <1>8, <1>9 DEF ClerkNext

LEMMA PageKeepsAnswers == AnswersInv /\ PageNext => SourcesShape' /\ AskedShape'
  <1> SUFFICES ASSUME AnswersInv, PageNext PROVE SourcesShape' /\ AskedShape'
    OBVIOUS
  <1>0. /\ SourcesShape /\ AskedShape /\ PageShape /\ taken \subseteq Question
        /\ history \in Seq(HistoryItems) /\ ask.found \subseteq Passage
    BY DEF AnswersInv, AskedShape
  <1>1. UNCHANGED libraryVars
    BY DEF PageNext, ReadHistory, LoadHistory, ReceiveError, ClearAnswer, Submit, OpenHistoryItem,
           ReceiveAnswer, ReceiveReply, ClearHistory, DeleteHistoryItem, PageOnly
  <1>2. SourcesShape'
    BY <1>0, <1>1 DEF SourcesShape, libraryVars
  <1>3. NoAsk.found = {} /\ NoRequest.phase = "idle" /\ NoRequest.copy = <<>>
    BY DEF NoAsk, NoRequest
  <1>4. ASSUME PageShape', UNCHANGED <<clerk, history, taken>>, ask'.found \subseteq Passage PROVE AskedShape'
    BY <1>0, <1>4 DEF AskedShape, RequestShape, HistoryItems
  <1>5. ASSUME ReadHistory PROVE AskedShape'
    <2>1. {history[i].question : i \in DOMAIN history} \subseteq taken
      <3>1. \A i \in DOMAIN history : history[i] \in HistoryItems
        BY <1>0
      <3> QED BY <3>1 DEF HistoryItems
    <2>2. PageShape'
      BY <1>0, <1>5, <2>1 DEF ReadHistory, PageOnly, PageShape
    <2> QED BY <1>0, <1>4, <1>5, <2>2 DEF ReadHistory, PageOnly
  <1>6. ASSUME LoadHistory PROVE AskedShape'
    <2>1. PageShape'
      BY <1>0, <1>6 DEF LoadHistory, PageOnly, PageShape
    <2> QED BY <1>0, <1>4, <1>6, <2>1 DEF LoadHistory, PageOnly
  <1>7. ASSUME ReceiveError PROVE AskedShape'
    <2>1. PageShape'
      BY <1>0, <1>7 DEF ReceiveError, PageShape
    <2> QED BY <1>3, <1>4, <1>7, <2>1 DEF ReceiveError
  <1>8. ASSUME ClearAnswer \/ \E q \in Question : OpenHistoryItem(q) PROVE AskedShape'
    <2>1. PageShape'
      BY <1>0, <1>8 DEF ClearAnswer, OpenHistoryItem, PageOnly, PageShape
    <2> QED BY <1>0, <1>4, <1>8, <2>1 DEF ClearAnswer, OpenHistoryItem, PageOnly
  <1>9. ASSUME NEW q \in Question, Submit(q) PROVE AskedShape'
    <2>1. taken' = taken \cup {q} /\ clerk' = clerk /\ history' = history
          /\ page' = [page EXCEPT !.loading = TRUE, !.asked = q, !.question = q, !.answer = Nothing]
          /\ ask' = [NoAsk EXCEPT !.phase = "retrieving", !.todo = {"documents", "articles", "embedding"}]
      BY <1>9 DEF Submit
    <2>2. ask'.found = {}
      BY <2>1 DEF NoAsk
    <2>3. /\ history \in Seq(HistoryItems') /\ \A h \in Clerk : clerk[h].copy \in Seq(HistoryItems')
          /\ page.list \subseteq taken' /\ page.late \subseteq taken'
      BY <1>0, <2>1, MoreTaken
    <2>4. PageShape'
      BY <1>0, <2>1, <2>3 DEF PageShape
    <2> QED BY <1>0, <2>1, <2>2, <2>3, <2>4 DEF AskedShape, RequestShape
  <1>10. ASSUME NEW h \in Clerk, ReceiveAnswer(h) PROVE AskedShape'
    <2>1. /\ page.loading /\ page' = [page EXCEPT !.answer = page.asked] /\ ask' = NoAsk
          /\ Request(h, "save", page.asked, {ask.cited[n] : n \in FirstFew(ask.selected)}, TRUE)
          /\ history' = history /\ taken' = taken
      BY <1>10 DEF ReceiveAnswer
    <2>2. PageShape' /\ page.asked \in taken
      BY <1>0, <2>1 DEF PageShape
    <2>3. \A g \in Clerk : RequestShape(clerk[g])'
      BY <1>1, <2>1, <2>2, RequestTyped
    <2> QED BY <1>0, <1>3, <2>1, <2>2, <2>3 DEF AskedShape, HistoryItems
  <1>11. ASSUME NEW h \in Clerk, ReceiveReply(h) PROVE AskedShape'
    <2> DEFINE r == clerk[h]
               list == IF r.phase = "failed" THEN page.list
                       ELSE CASE r.kind = "save" -> page.list \cup {r.item}
                              [] r.kind = "delete" -> page.list \ {r.item}
                              [] r.kind = "clear" -> {}
    <2>1. /\ r.phase \in {"replied", "failed"} /\ clerk' = [clerk EXCEPT ![h] = NoRequest]
          /\ page' = IF r.mine THEN [page EXCEPT !.list = list, !.loading = page.loading /\ r.kind # "save"]
                     ELSE page
          /\ ask' = ask /\ history' = history /\ taken' = taken
      BY <1>11 DEF ReceiveReply
    <2>2. r.kind \in {"save", "delete", "clear"} /\ (r.kind # "clear" => r.item \in taken)
      BY <1>0, <2>1 DEF AskedShape, RequestShape
    <2>3. list \subseteq taken
      BY <1>0, <2>2 DEF PageShape
    <2> HIDE DEF list, r
    <2>4. PageShape'
      BY <1>0, <2>1, <2>3 DEF PageShape
    <2>5. <<>> \in Seq(HistoryItems)
      OBVIOUS
    <2>6. \A g \in Clerk : RequestShape(clerk[g])'
      <3>1. RequestShape(NoRequest)'
        BY <1>3, <2>1, <2>5 DEF RequestShape, HistoryItems
      <3> QED BY <1>1, <2>1, <3>1, HandlerTyped
    <2> QED BY <1>0, <2>1, <2>4, <2>6 DEF AskedShape, HistoryItems
  <1>12. ASSUME NEW h \in Clerk, NEW q, ClearHistory(h) \/ (q \in taken /\ DeleteHistoryItem(h, q))
         PROVE  AskedShape'
    <2>1. /\ UNCHANGED <<libraryVars, ask, page, history, taken>>
          /\ \/ Request(h, "clear", Nothing, {}, TRUE)
             \/ q \in taken /\ Request(h, "delete", q, {}, TRUE)
      BY <1>12 DEF ClearHistory, DeleteHistoryItem
    <2>2. \A g \in Clerk : RequestShape(clerk[g])'
      BY <2>1, RequestTyped
    <2> QED BY <1>0, <2>1, <2>2 DEF AskedShape, PageShape, HistoryItems
  <1>13. ASSUME NEW h \in Clerk, NEW q, DeleteHistoryItem(h, q) PROVE q \in taken
    BY <1>0, <1>13 DEF DeleteHistoryItem, ListShown, PageShape
  <1>14. AskedShape'
    BY <1>5, <1>6, <1>7, <1>8, <1>9, <1>10, <1>11, <1>12, <1>13 DEF PageNext
  <1> QED BY <1>2, <1>14

\* Whoever asks, saves or withdraws, readers keep to the passages there are, and
\* the page and the history to questions that were asked.
THEOREM AnswersAreTyped == AnswersSpec => []AnswersTypeOK
  <1>1. AnswersInv /\ [AnswersNext]_answersVars => AnswersInv'
    <2> SUFFICES ASSUME AnswersInv, [AnswersNext]_answersVars PROVE AnswersInv'
      OBVIOUS
    <2>1. GroundedInv'
      BY LibraryKeeps, AskKeeps, ClerkKeeps, PageKeeps, GroundedStays DEF AnswersInv, AnswersNext, answersVars
    <2>2. CASE AnswersNext
      BY <2>1, <2>2, SourcesKeepAnswers, AskKeepsAnswers, ClerkKeepsAnswers, PageKeepsAnswers DEF AnswersNext, AnswersInv
    <2>3. CASE UNCHANGED answersVars
      BY <2>1, <2>3 DEF answersVars, libraryVars, AnswersInv, SourcesShape, AskedShape, PageShape, RequestShape, HistoryItems
    <2> QED BY <2>2, <2>3
  <1> QED BY <1>1, AnswersInitInv, AnswersInvIsTyped, PTL DEF AnswersSpec

-----------------------------------------------------------------------------
(* The migration of local documents. *)

FileContent == Version \cup {"none", "torn"}
Row == [status : {"NONE", "WAITING", "COMPLETED", "DELETED"}, deleted : BOOLEAN,
        checksum : FileContent \cup {"unverified"}]

Steps(p) == <<Original(p), <<"text", p>>, <<"chunks", p>>>>
History == <<<<"history">>>>
FilesOf(p) == {Original(p), <<"text", p>>, <<"chunks", p>>}

\* What is left to do for a document, once and after its original is dealt with.
Rests(p) == {<<<<"text", p>>, <<"chunks", p>>>>, <<<<"chunks", p>>>>}
Working == {"read", "find", "compare", "write", "verify"}

Task(paper, items) ==
    [stage : {"idle", "saving", "removing", "calling", "persisting", "loaded"},
     op : {"none", "create", "save", "reprocess", "purge", "complete", "reopen", "delete"},
     paper : {paper}, items : {items}, copy : [Paper -> Row]]

Migration(items, failed) ==
    [phase : {"idle", "next", "create", "ended"} \cup Working, dry : BOOLEAN, listed : [Paper -> Row],
     todo : SUBSET Paper, paper : SUBSET Paper, items : {items}, data : FileContent, sum : FileContent,
     existing : BOOLEAN, failed : {failed}]

MigrationShape ==
    /\ sheet \in [exists : BOOLEAN, rows : [Paper -> Row]]
    /\ box \in [Item -> FileContent] /\ bucket \in [Item -> FileContent]
    /\ writer = [w \in Writer |-> writer[w]]
    /\ \A w \in Writer : writer[w] \in Task(writer[w].paper, writer[w].items)
    /\ issued \subseteq Paper /\ OldPaper \subseteq issued
    /\ register \in [Paper -> Row]
    /\ mig \in Migration(mig.items, mig.failed)

RowsAreValid ==
    /\ \A p \in Paper : ValidRow(register[p]) /\ ValidRow(sheet.rows[p]) /\ ValidRow(mig.listed[p])
    /\ \A w \in Writer, p \in Paper : ValidRow(writer[w].copy[p])

\* Writer w has the upload of document p in hand.
Uploading(w, p) == writer[w].stage # "idle" /\ writer[w].op = "create" /\ writer[w].paper = <<p>>

WriterKnows(w) ==
    LET t == writer[w]
    IN  /\ t.stage # "idle" => \E p \in Paper : t.paper = <<p>>
        /\ t.op = "create" /\ t.stage # "idle" => t.paper[1] \in issued
        /\ t.stage = "saving" =>
              \/ t.op = "create" /\ t.items = <<Original(t.paper[1])>>
              \/ t.op = "save" /\ \E i \in Item : t.items = <<i>> /\ i[1] # "original"
        /\ t.stage = "removing" =>
              /\ t.op \in {"purge", "reprocess"}
              /\ \E p \in Paper : t.items \in Rests(p) \cup {Steps(p)}

\* The original is whole or gone, and nobody will write it again.
Settled(p) ==
    /\ p \in issued /\ box[Original(p)] \in {"none", "v1"}
    /\ \A w \in Writer : ~ (Uploading(w, p) /\ writer[w].stage = "saving")

\* Nobody has a row of a document whose original is still being written.
RowsAreSettled ==
    /\ \A p \in Paper : Loaded[p] # NoRow \/ mig.listed[p] # NoRow => Settled(p)
    /\ \A w \in Writer, p \in Paper : writer[w].copy[p] # NoRow => Settled(p)
    /\ \A w \in Writer, p \in Paper : Uploading(w, p) /\ writer[w].stage # "saving" => Settled(p)
    /\ \A w, x \in Writer, p \in Paper : Uploading(w, p) /\ Uploading(x, p) => w = x

\* A cleanup at the target deletes the files of a row that is deleted.
PurgeKnows ==
    purge # <<>> => \E p \in Paper : purge \in Rests(p) \cup {Steps(p)} /\ register[p].deleted

\* At the target every original is whole, and those of visible rows are there.
TargetIsWhole ==
    \A p \in Paper : /\ bucket[Original(p)] \in {"none", "v1"}
                     /\ Shown(register[p]) => bucket[Original(p)] = "v1" /\ register[p].checksum = "v1"

\* The run has dealt with the original of the document; it has looked for its row.
OriginalDealt(p) == mig.phase = "create" \/ (mig.phase \in Working /\ mig.items \in Rests(p))
RowLookedUp(p) == OriginalDealt(p) \/ (mig.phase \in {"compare", "write", "verify"} /\ mig.items = Steps(p))

\* What the run knows of the document it is working on.
RunKnows ==
    /\ \A p \in mig.todo \cup mig.paper : Shown(mig.listed[p])
    /\ mig.phase \in Working \cup {"create"} =>
          \/ mig.paper = {} /\ mig.items = History /\ mig.todo = {}
          \/ \E p \in Paper : mig.paper = {p}
    /\ mig.phase \in Working => \A p \in mig.paper : mig.items \in Rests(p) \cup {Steps(p)}
    /\ mig.phase = "find" => mig.items \notin {History} \cup UNION {Rests(p) : p \in Paper}
    /\ mig.phase = "create" => mig.paper # {}
    /\ \A p \in mig.paper :
          /\ mig.phase \in Working \ {"read"} /\ mig.items = Steps(p) => mig.data = "v1"
          /\ RowLookedUp(p) => mig.sum = "v1" /\ (~ mig.existing => register[p] = NoRow)
          /\ OriginalDealt(p) => mig.dry \/ mig.existing \/ bucket[Original(p)] = "v1"

\* What is copied while nobody else changes anything.
Copied(i) == box[i] # "none" => bucket[i] = box[i]
Accounted(p) == register[p] # NoRow /\ \A i \in FilesOf(p) : Copied(i)

ItemsIn(s) == {s[k] : k \in DOMAIN s}
Current == IF mig.phase \in Working \cup {"create"} THEN mig.paper ELSE {}

QuietRunCopies ==
    quiet /\ mig.phase # "idle" =>
        /\ mig.listed = Loaded
        /\ mig.phase \in Working \ {"read"} => mig.data = box[Head(mig.items)]
        /\ ~ mig.dry /\ mig.failed = {} =>
              /\ \A p \in Paper \ (mig.todo \cup Current) : Shown(mig.listed[p]) => Accounted(p)
              /\ \A p \in Current :
                    /\ mig.existing => register[p] # NoRow
                    /\ \A i \in FilesOf(p) : mig.phase = "create" \/ i \notin ItemsIn(mig.items) => Copied(i)
              /\ mig.phase = "ended" => mig.todo = {} /\ Copied(<<"history">>)

MigrationInv ==
    /\ MigrationShape /\ RowsAreValid
    /\ (\A w \in Writer : WriterKnows(w)) /\ RowsAreSettled
    /\ PurgeKnows /\ TargetIsWhole /\ RunKnows /\ QuietRunCopies
-----------------------------------------------------------------------------
Text(p) == <<"text", p>>
Chunks(p) == <<"chunks", p>>

LEMMA ItemFacts ==
    /\ <<"history">> \in Item /\ <<"history">>[1] = "history"
    /\ \A p \in Paper :
          /\ Original(p) \in Item /\ Text(p) \in Item /\ Chunks(p) \in Item
          /\ Original(p)[1] = "original" /\ Text(p)[1] = "text" /\ Chunks(p)[1] = "chunks"
          /\ Original(p)[2] = p /\ Text(p)[2] = p /\ Chunks(p)[2] = p
    /\ \A i \in Item : i = <<"history">> \/ \E p \in Paper : i \in FilesOf(p)
    /\ \A p \in Paper : FilesOf(p) = {Original(p), Text(p), Chunks(p)}
  BY DEF Item, Original, Text, Chunks, FilesOf

\* The lists of files, and what is left of them.
LEMMA ListFacts ==
    ASSUME NEW p \in Paper
    PROVE  /\ ItemsOf(p) = Steps(p) /\ Rests(p) = {<<Text(p), Chunks(p)>>, <<Chunks(p)>>}
           /\ Derived(p) = <<Text(p), Chunks(p)>>
           /\ Steps(p) = <<Original(p), Text(p), Chunks(p)>>
           /\ Len(Steps(p)) = 3 /\ Head(Steps(p)) = Original(p) /\ Tail(Steps(p)) = <<Text(p), Chunks(p)>>
           /\ Len(<<Text(p), Chunks(p)>>) = 2 /\ Head(<<Text(p), Chunks(p)>>) = Text(p)
           /\ Tail(<<Text(p), Chunks(p)>>) = <<Chunks(p)>>
           /\ Len(<<Chunks(p)>>) = 1 /\ Head(<<Chunks(p)>>) = Chunks(p) /\ Tail(<<Chunks(p)>>) = <<>>
           /\ Len(History) = 1 /\ Head(History) = <<"history">>
           /\ ItemsIn(Steps(p)) = FilesOf(p)
           /\ ItemsIn(<<Text(p), Chunks(p)>>) = {Text(p), Chunks(p)} /\ ItemsIn(<<Chunks(p)>>) = {Chunks(p)}
  <1>1. ItemsOf(p) = Steps(p)
    BY DEF ItemsOf, Steps
  <1>2. Rests(p) = {<<Text(p), Chunks(p)>>, <<Chunks(p)>>}
    BY DEF Rests, Text, Chunks
  <1>3. Derived(p) = <<Text(p), Chunks(p)>>
    BY DEF Derived, Text, Chunks
  <1>4. Steps(p) = <<Original(p), Text(p), Chunks(p)>>
    BY DEF Steps, Text, Chunks
  <1>5. Len(Steps(p)) = 3 /\ Head(Steps(p)) = Original(p) /\ Tail(Steps(p)) = <<Text(p), Chunks(p)>>
    BY <1>4
  <1>6. /\ Len(<<Text(p), Chunks(p)>>) = 2 /\ Head(<<Text(p), Chunks(p)>>) = Text(p)
        /\ Tail(<<Text(p), Chunks(p)>>) = <<Chunks(p)>>
    OBVIOUS
  <1>7. Len(<<Chunks(p)>>) = 1 /\ Head(<<Chunks(p)>>) = Chunks(p) /\ Tail(<<Chunks(p)>>) = <<>>
    OBVIOUS
  <1>8. Len(History) = 1 /\ Head(History) = <<"history">>
    BY DEF History
  <1>9. ItemsIn(Steps(p)) = FilesOf(p)
    BY <1>4 DEF ItemsIn, FilesOf, Text, Chunks
  <1>10. ItemsIn(<<Text(p), Chunks(p)>>) = {Text(p), Chunks(p)}
    BY DEF ItemsIn
  <1>11. ItemsIn(<<Chunks(p)>>) = {Chunks(p)}
    BY DEF ItemsIn
  <1> QED BY <1>1, <1>2, <1>3, <1>4, <1>5, <1>6, <1>7, <1>8, <1>9, <1>10, <1>11

\* Lists of different documents, and of the history, are different.
LEMMA ListsDiffer ==
    ASSUME NEW p \in Paper, NEW q \in Paper
    PROVE  /\ Original(p) \notin {Text(q), Chunks(q), <<"history">>} /\ Text(p) \notin {Chunks(q), <<"history">>}
           /\ Chunks(p) # <<"history">>
           /\ Steps(p) \notin Rests(q) /\ Steps(p) # History /\ History \notin Rests(p)
           /\ Original(p) = Original(q) => p = q
           /\ Text(p) = Text(q) => p = q
           /\ Chunks(p) = Chunks(q) => p = q
           /\ Steps(p) # <<>> /\ <<>> \notin Rests(p)
           /\ Steps(p) = Steps(q) => p = q
           /\ Rests(p) \cap Rests(q) # {} => p = q
  <1>1. /\ Original(p) \notin {Text(q), Chunks(q), <<"history">>} /\ Text(p) \notin {Chunks(q), <<"history">>}
        /\ Chunks(p) # <<"history">>
    BY ItemFacts
  <1>0. /\ Len(Steps(p)) = 3 /\ Len(<<Text(p), Chunks(p)>>) = 2 /\ Len(<<Chunks(p)>>) = 1 /\ Len(<<>>) = 0
        /\ Len(<<Text(q), Chunks(q)>>) = 2 /\ Len(<<Chunks(q)>>) = 1 /\ Len(History) = 1
        /\ Head(<<Chunks(p)>>) = Chunks(p) /\ Head(History) = <<"history">>
        /\ Rests(p) = {<<Text(p), Chunks(p)>>, <<Chunks(p)>>}
        /\ Rests(q) = {<<Text(q), Chunks(q)>>, <<Chunks(q)>>}
    BY ListFacts
  <1>2. Steps(p) \notin Rests(q)
    BY <1>0
  <1>3. Steps(p) # History /\ History \notin Rests(p)
    <2>1. Steps(p) # History
      BY <1>0
    <2>2. History # <<Text(p), Chunks(p)>>
      BY <1>0
    <2>3. History # <<Chunks(p)>>
      BY <1>0, <1>1
    <2> QED BY <1>0, <2>1, <2>2, <2>3
  <1>4. Steps(p) # <<>> /\ <<>> \notin Rests(p)
    BY <1>0
  <1>5. /\ Original(p) = Original(q) => p = q
        /\ Text(p) = Text(q) => p = q
        /\ Chunks(p) = Chunks(q) => p = q
    BY ItemFacts
  <1>6. Steps(p) = Steps(q) => p = q
    BY <1>5, ListFacts
  <1>7. Rests(p) \cap Rests(q) # {} => p = q
    BY <1>5, ListFacts
  <1> QED BY <1>1, <1>2, <1>3, <1>4, <1>5, <1>6, <1>7
-----------------------------------------------------------------------------
LEMMA NoRowIsRow == NoRow \in Row /\ ValidRow(NoRow) /\ ~ Shown(NoRow) /\ ~ NoRow.deleted
  BY DEF NoRow, Row, ValidRow, Shown, FileContent

LEMMA NormalizedRow ==
    ASSUME NEW old
    PROVE  Normalized(old) \in Row /\ ValidRow(Normalized(old))
  BY DEF Normalized, Row, ValidRow, FileContent

LEMMA ChangedRow ==
    ASSUME NEW op, NEW r \in Row, ValidRow(r)
    PROVE  /\ Changed(op, r) \in Row /\ ValidRow(Changed(op, r))
           /\ Changed(op, r) # NoRow => r # NoRow \/ op = "create"
           /\ op = "delete" /\ Shown(r) => Changed(op, r).deleted
  <1>1. CASE op = "create" /\ r = NoRow
    BY <1>1, NoRowIsRow DEF Changed, Row, ValidRow, FileContent, Version
  <1>2. CASE op = "complete" /\ Shown(r) /\ r.status = "WAITING"
    <2>1. Changed(op, r) = [r EXCEPT !.status = "COMPLETED"]
      BY <1>2 DEF Changed
    <2> QED BY <1>2, <2>1 DEF Row, ValidRow, Shown
  <1>3. CASE op = "reopen" /\ Shown(r) /\ r.status = "COMPLETED"
    <2>1. Changed(op, r) = [r EXCEPT !.status = "WAITING"]
      BY <1>3 DEF Changed
    <2> QED BY <1>3, <2>1 DEF Row, ValidRow, Shown
  <1>4. CASE op = "delete" /\ Shown(r)
    <2>1. Changed(op, r) = [r EXCEPT !.status = "DELETED", !.deleted = TRUE]
      BY <1>4 DEF Changed
    <2> QED BY <1>4, <2>1 DEF Row, ValidRow, Shown
  <1>5. CASE op = "purge" /\ r.deleted
    BY <1>5, NoRowIsRow DEF Changed
  <1>6. CASE /\ ~ (op = "create" /\ r = NoRow)
              /\ ~ (op = "complete" /\ Shown(r) /\ r.status = "WAITING")
              /\ ~ (op = "reopen" /\ Shown(r) /\ r.status = "COMPLETED")
              /\ ~ (op = "delete" /\ Shown(r))
              /\ ~ (op = "purge" /\ r.deleted)
    BY <1>6 DEF Changed
  <1> QED BY <1>1, <1>2, <1>3, <1>4, <1>5, <1>6

LEMMA LoadedRows ==
    ASSUME MigrationInv
    PROVE  Loaded \in [Paper -> Row] /\ \A p \in Paper : ValidRow(Loaded[p])
  BY NoRowIsRow, NormalizedRow DEF Loaded, MigrationInv, MigrationShape, RowsAreValid

LEMMA IdleTask ==
    /\ NoWriter \in Task(NoWriter.paper, NoWriter.items) /\ NoWriter.stage = "idle" /\ NoWriter.op = "none"
    /\ \A p \in Paper : NoWriter.copy[p] = NoRow
  BY NoRowIsRow DEF NoWriter, Task

LEMMA IdleRun ==
    /\ NoMigration \in Migration(NoMigration.items, NoMigration.failed) /\ NoMigration.phase = "idle"
    /\ \A p \in Paper : NoMigration.listed[p] = NoRow
    /\ NoMigration.todo = {} /\ NoMigration.paper = {}
  BY NoRowIsRow DEF NoMigration, Migration, FileContent

LEMMA MigrationInitInv == MigrationInit => MigrationInv
  <1> SUFFICES ASSUME MigrationInit PROVE MigrationInv
    OBVIOUS
  <1> USE DEF MigrationInit
  <1> USE NoRowIsRow, IdleTask, IdleRun, MigrationAssumption
  <1>1. MigrationShape
    BY DEF MigrationShape, FileContent, Version
  <1>2. RowsAreValid
    BY DEF RowsAreValid
  <1>3. \A w \in Writer : WriterKnows(w)
    BY DEF WriterKnows
  <1>4. \A w \in Writer, p \in Paper : ~ Uploading(w, p)
    BY DEF Uploading
  <1>5. \A p \in Paper : Loaded[p] # NoRow => p \in OldPaper
    BY DEF Loaded
  <1>6. \A p \in OldPaper : box[Original(p)] = "v1"
    BY ItemFacts
  <1>7. RowsAreSettled
    BY <1>4, <1>5, <1>6 DEF RowsAreSettled, Settled
  <1>8. TargetIsWhole
    BY ItemFacts DEF TargetIsWhole
  <1>9. PurgeKnows /\ RunKnows /\ QuietRunCopies
    BY DEF PurgeKnows, RunKnows, QuietRunCopies, Working, RowLookedUp, OriginalDealt
  <1> QED BY <1>1, <1>2, <1>3, <1>7, <1>8, <1>9 DEF MigrationInv

-----------------------------------------------------------------------------
(* The application on the local files. *)

\* Writer w goes on with a task: rows come from rows, and only a fresh id is
\* uploaded.
LEMMA WriterMoves ==
    ASSUME MigrationInv, Local, NEW w \in Writer, NEW new, writer' = [writer EXCEPT ![w] = new],
           new \in Task(new.paper, new.items),
           sheet' \in [exists : BOOLEAN, rows : [Paper -> Row]], box' \in [Item -> FileContent],
           issued \subseteq issued', issued' \subseteq Paper,
           \A p \in Paper : ValidRow(sheet'.rows[p]) /\ ValidRow(new.copy[p]),
           WriterKnows(w)',
           \A p \in issued : box[Original(p)] \in {"none", "v1"} => box'[Original(p)] \in {"none", "v1"},
           \A p \in Paper : Loaded'[p] # NoRow =>
               \/ Loaded[p] # NoRow \/ writer[w].copy[p] # NoRow
               \/ Uploading(w, p) /\ writer[w].stage # "saving",
           \A p \in Paper : new.copy[p] # NoRow => Loaded[p] # NoRow \/ writer[w].copy[p] # NoRow,
           \A p \in Paper : new.stage # "idle" /\ new.op = "create" /\ new.paper = <<p>> =>
               \/ new.stage = "saving" /\ p \notin issued
               \/ new.stage # "saving" /\ Uploading(w, p) /\ box'[Original(p)] \in {"none", "v1"}
    PROVE  MigrationInv'
  <1>1. /\ writer = [x \in Writer |-> writer[x]] /\ writer'[w] = new
        /\ \A x \in Writer \ {w} : writer'[x] = writer[x]
    BY DEF MigrationInv, MigrationShape
  <1>2. UNCHANGED <<register, bucket, purge, mig, runs>> /\ quiet' = FALSE
    BY DEF Local, targetVars
  <1>3. MigrationShape'
    <2>1. \A x \in Writer : writer'[x] \in Task(writer'[x].paper, writer'[x].items)
      BY <1>1 DEF MigrationInv, MigrationShape
    <2>2. writer' = [x \in Writer |-> writer'[x]]
      BY <1>1
    <2> QED BY <1>2, <2>1, <2>2 DEF MigrationInv, MigrationShape
  <1>4. RowsAreValid'
    BY <1>1, <1>2 DEF MigrationInv, RowsAreValid
  <1>5. \A x \in Writer : WriterKnows(x)'
    <2> SUFFICES ASSUME NEW x \in Writer \ {w} PROVE WriterKnows(x)'
      OBVIOUS
    <2>1. WriterKnows(x) /\ writer'[x] = writer[x]
      BY <1>1 DEF MigrationInv
    <2> QED BY <2>1 DEF WriterKnows
  <1>6. \A x \in Writer \ {w}, p \in Paper : Uploading(x, p)' <=> Uploading(x, p)
    BY <1>1 DEF Uploading
  <1>7. ASSUME NEW p \in Paper, Settled(p) PROVE Settled(p)'
    BY <1>1, <1>6, <1>7 DEF Settled, Uploading
  <1>8. ASSUME NEW p \in Paper, Uploading(w, p)' PROVE p \notin issued \/ Uploading(w, p)
    BY <1>1, <1>8 DEF Uploading
  <1>9. \A x \in Writer, p \in Paper : Uploading(x, p) => p \in issued
    <2> SUFFICES ASSUME NEW x \in Writer, NEW p \in Paper, Uploading(x, p) PROVE p \in issued
      OBVIOUS
    <2>1. <<p>>[1] = p
      OBVIOUS
    <2> QED BY <2>1 DEF MigrationInv, WriterKnows, Uploading
  <1>10. \A x, y \in Writer, p \in Paper : Uploading(x, p)' /\ Uploading(y, p)' => x = y
    BY <1>6, <1>8, <1>9 DEF MigrationInv, RowsAreSettled
  <1>11. ASSUME NEW p \in Paper, Uploading(w, p)', new.stage # "saving" PROVE Settled(p)'
    <2>1. Uploading(w, p) /\ box'[Original(p)] \in {"none", "v1"}
      BY <1>1, <1>11 DEF Uploading
    <2>2. p \in issued'
      BY <1>9, <2>1
    <2>3. \A x \in Writer : Uploading(x, p)' => x = w
      BY <1>10, <1>11
    <2> QED BY <1>1, <1>11, <2>1, <2>2, <2>3 DEF Settled
  <1>12. \A p \in Paper : Loaded'[p] # NoRow \/ mig'.listed[p] # NoRow => Settled(p)'
    BY <1>2, <1>7 DEF MigrationInv, RowsAreSettled
  <1>13. \A x \in Writer, p \in Paper : writer'[x].copy[p] # NoRow => Settled(p)'
    BY <1>1, <1>7 DEF MigrationInv, RowsAreSettled
  <1>14. \A x \in Writer, p \in Paper : Uploading(x, p)' /\ writer'[x].stage # "saving" => Settled(p)'
    BY <1>1, <1>6, <1>7, <1>11 DEF MigrationInv, RowsAreSettled
  <1>15. RowsAreSettled'
    BY <1>10, <1>12, <1>13, <1>14 DEF RowsAreSettled
  <1>16. PurgeKnows' /\ TargetIsWhole' /\ RunKnows' /\ QuietRunCopies'
    BY <1>2 DEF MigrationInv, PurgeKnows, TargetIsWhole, RunKnows, QuietRunCopies, RowLookedUp, OriginalDealt
  <1> QED BY <1>3, <1>4, <1>5, <1>15, <1>16 DEF MigrationInv

LEMMA SaveBegins ==
    ASSUME MigrationInv, NEW w \in Writer, NEW i \in Item, NEW op \in {"create", "save"}, NEW p \in Paper,
           BeginSave(w, i, op, p),
           \/ op = "create" /\ i = Original(p) /\ p \notin issued /\ issued' = issued \cup {p}
           \/ op = "save" /\ i[1] # "original" /\ issued' = issued
    PROVE  MigrationInv'
  <1> DEFINE new == [NoWriter EXCEPT !.stage = "saving", !.op = op, !.paper = <<p>>, !.items = <<i>>]
  <1>1. /\ writer' = [writer EXCEPT ![w] = new] /\ box' = [box EXCEPT ![i] = "torn"] /\ sheet' = sheet /\ Local
    BY DEF BeginSave
  <1>2. /\ new \in Task(new.paper, new.items) /\ new.stage = "saving" /\ new.op = op /\ new.paper = <<p>>
        /\ new.items = <<i>> /\ \A q \in Paper : new.copy[q] = NoRow
    BY NoRowIsRow DEF NoWriter, Task
  <1> HIDE DEF new
  <1>3. box' \in [Item -> FileContent] /\ \A j \in Item \ {i} : box'[j] = box[j]
    BY <1>1 DEF MigrationInv, MigrationShape, FileContent
  <1>4. \A q \in issued : box'[Original(q)] = box[Original(q)]
    <2> SUFFICES ASSUME NEW q \in issued PROVE Original(q) # i /\ Original(q) \in Item
      BY <1>3
    <2>1. q \in Paper
      BY DEF MigrationInv, MigrationShape
    <2> QED BY <2>1, ItemFacts, ListsDiffer
  <1>5. writer'[w] = new
    BY <1>1 DEF MigrationInv, MigrationShape
  <1>6. <<p>>[1] = p
    OBVIOUS
  <1>7. WriterKnows(w)'
    BY <1>2, <1>5, <1>6 DEF WriterKnows
  <1>8. Loaded' = Loaded
    BY <1>1 DEF Loaded
  <1>9. \A q \in Paper : new.paper = <<q>> => q = p
    BY <1>2, <1>6
  <1>10. issued \subseteq issued' /\ issued' \subseteq Paper
    BY DEF MigrationInv, MigrationShape
  <1>11. \A q \in Paper : new.stage # "idle" /\ new.op = "create" /\ new.paper = <<q>> => q \notin issued
    BY <1>2, <1>9
  <1>12. /\ sheet' \in [exists : BOOLEAN, rows : [Paper -> Row]]
         /\ \A q \in Paper : ValidRow(sheet'.rows[q]) /\ ValidRow(new.copy[q])
    BY <1>1, <1>2, NoRowIsRow DEF MigrationInv, MigrationShape, RowsAreValid
  <1> QED BY <1>1, <1>2, <1>3, <1>4, <1>7, <1>8, <1>10, <1>11, <1>12, WriterMoves

LEMMA UploadKeeps ==
    ASSUME MigrationInv, NEW w \in Writer, NEW p \in Paper, Upload(w, p) \/ SaveDerived(w, p)
    PROVE  MigrationInv'
  <1>1. CASE Upload(w, p)
    BY <1>1, ItemFacts, SaveBegins DEF Upload
  <1>2. CASE SaveDerived(w, p)
    <2>0. Derived(p) = <<Text(p), Chunks(p)>>
      BY ListFacts
    <2>1. \A k \in DOMAIN Derived(p) : Derived(p)[k] \in {Text(p), Chunks(p)}
      BY <2>0
    <2>2. \A i \in {Text(p), Chunks(p)} : i \in Item /\ i[1] # "original"
      BY ItemFacts
    <2> QED BY <1>2, <2>1, <2>2, SaveBegins DEF SaveDerived
  <1> QED BY <1>1, <1>2

LEMMA HistoryKeeps ==
    ASSUME MigrationInv, NEW w \in Writer, KeepHistory(w)
    PROVE  MigrationInv'
  BY ItemFacts, SaveBegins DEF KeepHistory

\* A task goes on, is given up or begins to call the repository; at most a
\* derived file, or an original that is whole, is written, or one is removed.
LEMMA TaskMoves ==
    ASSUME MigrationInv, Local, NEW w \in Writer, NEW new, writer' = [writer EXCEPT ![w] = new],
           new \in Task(new.paper, new.items), UNCHANGED <<sheet, issued>>,
           new.copy = writer[w].copy \/ \A p \in Paper : new.copy[p] = NoRow,
           WriterKnows(w)', box' \in [Item -> FileContent],
           \A p \in Paper : box'[Original(p)] \in {box[Original(p)], "none", "v1"},
           new.stage # "idle" /\ new.op = "create" =>
               /\ new.stage # "saving" /\ new.paper = writer[w].paper /\ new.op = writer[w].op
               /\ writer[w].stage # "idle"
               /\ \A p \in Paper : new.paper = <<p>> => box'[Original(p)] \in {"none", "v1"}
    PROVE  MigrationInv'
  <1>1. Loaded' = Loaded
    BY DEF Loaded
  <1>2. issued \subseteq Paper
    BY DEF MigrationInv, MigrationShape
  <1>3. /\ sheet' \in [exists : BOOLEAN, rows : [Paper -> Row]]
        /\ \A q \in Paper : ValidRow(sheet'.rows[q]) /\ ValidRow(new.copy[q])
    BY NoRowIsRow DEF MigrationInv, MigrationShape, RowsAreValid
  <1>4. \A p \in Paper : new.copy[p] # NoRow => Loaded[p] # NoRow \/ writer[w].copy[p] # NoRow
    OBVIOUS
  <1>5. \A p \in Paper : new.stage # "idle" /\ new.op = "create" /\ new.paper = <<p>> =>
               new.stage # "saving" /\ Uploading(w, p) /\ box'[Original(p)] \in {"none", "v1"}
    BY DEF Uploading
  <1>6. \A p \in issued : box[Original(p)] \in {"none", "v1"} => box'[Original(p)] \in {"none", "v1"}
    BY <1>2
  <1> QED BY <1>1, <1>2, <1>3, <1>4, <1>5, <1>6, WriterMoves

LEMMA TaskIsTyped ==
    ASSUME MigrationInv, NEW w \in Writer
    PROVE  /\ writer[w] \in Task(writer[w].paper, writer[w].items) /\ writer = [x \in Writer |-> writer[x]]
           /\ WriterKnows(w)
           /\ \A new : writer' = [writer EXCEPT ![w] = new] => writer'[w] = new
  BY DEF MigrationInv, MigrationShape

LEMMA SaveEnds ==
    ASSUME MigrationInv, NEW w \in Writer, NEW v \in Version, FinishSave(w, v)
    PROVE  MigrationInv'
  <1> DEFINE t == writer[w]
             new == IF t.op = "create" THEN Calling(t) ELSE NoWriter
             i == Head(t.items)
  <1>1. /\ t.stage = "saving" /\ (t.op = "create" => v = "v1")
        /\ writer' = [writer EXCEPT ![w] = new] /\ box' = [box EXCEPT ![i] = v]
        /\ UNCHANGED <<sheet, issued>> /\ Local
    BY DEF FinishSave
  <1>2. t \in Task(t.paper, t.items) /\ WriterKnows(w) /\ writer'[w] = new
    BY <1>1, TaskIsTyped
  <1>3. PICK p \in Paper : t.paper = <<p>> /\ <<p>>[1] = p
    BY <1>1, <1>2 DEF WriterKnows
  <1>4. box \in [Item -> FileContent] /\ v \in FileContent
    BY DEF MigrationInv, MigrationShape, FileContent
  <1>5. CASE t.op = "create"
    <2>1. i = Original(p)
      BY <1>1, <1>2, <1>3, <1>5 DEF WriterKnows
    <2>2. /\ new \in Task(new.paper, new.items) /\ new.stage = "calling" /\ new.op = "create"
          /\ new.paper = t.paper /\ new.copy = t.copy
      BY <1>2, <1>5 DEF Task, Calling
    <2> HIDE DEF new, i
    <2>3. WriterKnows(w)'
      <3>1. t.paper[1] \in issued
        BY <1>1, <1>2, <1>5 DEF WriterKnows
      <3> QED BY <1>1, <1>2, <1>3, <2>2, <3>1 DEF WriterKnows
    <2>4. box' \in [Item -> FileContent] /\ \A q \in Paper : box'[Original(q)] \in {box[Original(q)], "none", "v1"}
      BY <1>1, <1>4, <1>5, ItemFacts
    <2>5. \A q \in Paper : t.paper = <<q>> => box'[Original(q)] \in {"none", "v1"}
      <3>1. box'[Original(p)] = "v1"
        BY <1>1, <1>4, <1>5, <2>1, ItemFacts
      <3>2. \A q \in Paper : <<p>> = <<q>> => p = q
        OBVIOUS
      <3> QED BY <1>3, <3>1, <3>2
    <2> QED BY <1>1, <1>5, <2>2, <2>3, <2>4, <2>5, TaskMoves
  <1>6. CASE t.op # "create"
    <2>1. new = NoWriter /\ WriterKnows(w)'
      BY <1>2, <1>6, IdleTask DEF WriterKnows
    <2>2. i \in Item /\ i[1] # "original"
      BY <1>1, <1>2, <1>6 DEF WriterKnows
    <2> HIDE DEF new, i
    <2>3. box' \in [Item -> FileContent] /\ \A q \in Paper : box'[Original(q)] = box[Original(q)]
      BY <1>1, <1>4, <2>2, ItemFacts
    <2> QED BY <1>1, <2>1, <2>3, IdleTask, TaskMoves
  <1> QED BY <1>5, <1>6

LEMMA RemovalBegins ==
    ASSUME MigrationInv, NEW w \in Writer, NEW p \in Paper, NEW op \in {"reprocess", "purge"}, BeginRemoval(w, p, op)
    PROVE  MigrationInv'
  <1> DEFINE items == IF op = "purge" THEN ItemsOf(p) ELSE Derived(p)
             new == [NoWriter EXCEPT !.stage = "removing", !.op = op, !.paper = <<p>>, !.items = items]
  <1>1. /\ writer' = [writer EXCEPT ![w] = new] /\ UNCHANGED <<sheet, box, issued>> /\ Local
    BY DEF BeginRemoval
  <1>2. items \in Rests(p) \cup {Steps(p)}
    BY ListFacts
  <1> HIDE DEF items
  <1>3. /\ new \in Task(new.paper, new.items) /\ new.stage = "removing" /\ new.op = op /\ new.paper = <<p>>
        /\ new.items = items /\ \A q \in Paper : new.copy[q] = NoRow
    BY NoRowIsRow DEF NoWriter, Task
  <1> HIDE DEF new
  <1>4. WriterKnows(w)'
    BY <1>1, <1>2, <1>3, TaskIsTyped DEF WriterKnows
  <1> QED BY <1>1, <1>3, <1>4, TaskMoves DEF MigrationInv, MigrationShape

LEMMA RemovalKeeps ==
    ASSUME MigrationInv, NEW w \in Writer, RemoveItem(w)
    PROVE  MigrationInv'
  <1> DEFINE t == writer[w]
             i == Head(t.items)
             rest == Tail(t.items)
             new == IF rest # <<>> THEN [t EXCEPT !.items = rest]
                    ELSE IF t.op = "purge" THEN Calling(t) ELSE NoWriter
  <1>1. /\ t.stage = "removing" /\ writer' = [writer EXCEPT ![w] = new] /\ box' = [box EXCEPT ![i] = "none"]
        /\ UNCHANGED <<sheet, issued>> /\ Local
    BY DEF RemoveItem
  <1>2. t \in Task(t.paper, t.items) /\ WriterKnows(w) /\ writer'[w] = new
    BY <1>1, TaskIsTyped
  <1>3. box \in [Item -> FileContent] /\ "none" \in FileContent
    BY DEF MigrationInv, MigrationShape, FileContent
  <1>4. PICK p \in Paper : t.items \in Rests(p) \cup {Steps(p)}
    BY <1>1, <1>2 DEF WriterKnows
  <1>5. rest = <<>> \/ rest \in Rests(p)
    BY <1>4, ListFacts
  <1>6. box' \in [Item -> FileContent] /\ \A q \in Paper : box'[Original(q)] \in {box[Original(q)], "none", "v1"}
    BY <1>1, <1>3, ItemFacts
  <1>7. PICK q \in Paper : t.paper = <<q>> /\ t.op \in {"purge", "reprocess"}
    BY <1>1, <1>2 DEF WriterKnows
  <1> HIDE DEF i, rest
  <1>8. /\ new \in Task(new.paper, new.items) /\ new.op # "create"
        /\ new.copy = t.copy \/ \A x \in Paper : new.copy[x] = NoRow
        /\ \/ new.stage = "idle"
           \/ new.stage = "calling" /\ new.paper = <<q>>
           \/ new.stage = "removing" /\ new.op = t.op /\ new.paper = <<q>> /\ new.items = rest /\ rest # <<>>
    <2>1. CASE rest # <<>>
      BY <1>1, <1>2, <1>7, <2>1 DEF Task
    <2>2. CASE rest = <<>> /\ t.op = "purge"
      BY <1>2, <1>7, <2>2 DEF Task, Calling
    <2>3. CASE rest = <<>> /\ t.op # "purge"
      BY <2>3, IdleTask
    <2> QED BY <2>1, <2>2, <2>3
  <1> HIDE DEF new
  <1>9. WriterKnows(w)'
    BY <1>2, <1>5, <1>7, <1>8 DEF WriterKnows
  <1> QED BY <1>1, <1>6, <1>8, <1>9, TaskMoves

LEMMA CallKeeps ==
    ASSUME MigrationInv, NEW w \in Writer, NEW p \in Paper, NEW op \in {"complete", "reopen", "delete"},
           CallRepository(w, op, p)
    PROVE  MigrationInv'
  <1> DEFINE new == [NoWriter EXCEPT !.stage = "calling", !.op = op, !.paper = <<p>>]
  <1>1. /\ writer' = [writer EXCEPT ![w] = new] /\ UNCHANGED <<sheet, box, issued>> /\ Local
    BY DEF CallRepository
  <1>2. /\ new \in Task(new.paper, new.items) /\ new.stage = "calling" /\ new.op = op /\ new.paper = <<p>>
        /\ \A q \in Paper : new.copy[q] = NoRow
    BY NoRowIsRow DEF NoWriter, Task
  <1> HIDE DEF new
  <1>3. WriterKnows(w)'
    BY <1>1, <1>2, TaskIsTyped DEF WriterKnows
  <1> QED BY <1>1, <1>2, <1>3, TaskMoves DEF MigrationInv, MigrationShape

LEMMA DeathKeeps ==
    ASSUME MigrationInv, NEW w \in Writer, WriterDies(w)
    PROVE  MigrationInv'
  <1>1. /\ writer' = [writer EXCEPT ![w] = NoWriter] /\ UNCHANGED <<sheet, box, issued>> /\ Local
    BY DEF WriterDies
  <1>2. WriterKnows(w)'
    BY <1>1, TaskIsTyped, IdleTask DEF WriterKnows
  <1> QED BY <1>1, <1>2, IdleTask, TaskMoves DEF MigrationInv, MigrationShape

LEMMA ReadSheetKeeps ==
    ASSUME MigrationInv, NEW w \in Writer, ReadSheet(w)
    PROVE  MigrationInv'
  <1> DEFINE t == writer[w]
             stage == IF sheet.exists \/ OldPaper = {} THEN "loaded" ELSE "persisting"
             new == [t EXCEPT !.copy = Loaded, !.stage = stage]
  <1>1. /\ t.stage = "calling" /\ writer' = [writer EXCEPT ![w] = new]
        /\ UNCHANGED <<sheet, box, issued>> /\ Local
    BY DEF ReadSheet
  <1>2. t \in Task(t.paper, t.items) /\ WriterKnows(w) /\ writer'[w] = new
    BY <1>1, TaskIsTyped
  <1>3. Loaded \in [Paper -> Row] /\ \A p \in Paper : ValidRow(Loaded[p])
    BY LoadedRows
  <1>4. /\ new \in Task(new.paper, new.items) /\ new.stage \in {"loaded", "persisting"} /\ new.op = t.op
        /\ new.paper = t.paper /\ new.copy = Loaded
    BY <1>2, <1>3 DEF Task
  <1> HIDE DEF new
  <1>5. WriterKnows(w)'
    BY <1>1, <1>2, <1>4 DEF WriterKnows
  <1>6. Loaded' = Loaded
    BY <1>1 DEF Loaded
  <1>7. \A p \in Paper : new.stage # "idle" /\ new.op = "create" /\ new.paper = <<p>> =>
             new.stage # "saving" /\ Uploading(w, p) /\ box'[Original(p)] \in {"none", "v1"}
    <2> SUFFICES ASSUME NEW p \in Paper, t.op = "create", t.paper = <<p>>
                 PROVE  Uploading(w, p) /\ box[Original(p)] \in {"none", "v1"}
      BY <1>1, <1>4
    <2>1. Uploading(w, p)
      BY <1>1 DEF Uploading
    <2>2. Settled(p)
      BY <1>1, <2>1 DEF MigrationInv, RowsAreSettled
    <2> QED BY <2>1, <2>2 DEF Settled
  <1>8. /\ sheet' \in [exists : BOOLEAN, rows : [Paper -> Row]] /\ box' \in [Item -> FileContent]
        /\ issued \subseteq issued' /\ issued' \subseteq Paper
        /\ \A p \in Paper : ValidRow(sheet'.rows[p]) /\ ValidRow(new.copy[p])
        /\ \A p \in issued : box[Original(p)] \in {"none", "v1"} => box'[Original(p)] \in {"none", "v1"}
    BY <1>1, <1>3, <1>4 DEF MigrationInv, MigrationShape, RowsAreValid
  <1> QED BY <1>1, <1>4, <1>5, <1>6, <1>7, <1>8, WriterMoves

\* Writer w stores rows it has read, or those of its operation.
LEMMA StoreMoves ==
    ASSUME MigrationInv, Local, NEW w \in Writer, NEW new, writer' = [writer EXCEPT ![w] = new],
           new \in Task(new.paper, new.items), UNCHANGED <<box, issued>>, WriterKnows(w)',
           sheet' \in [exists : BOOLEAN, rows : [Paper -> Row]],
           \A p \in Paper : ValidRow(sheet'.rows[p]),
           \A p \in Paper : Loaded'[p] # NoRow =>
               \/ Loaded[p] # NoRow \/ writer[w].copy[p] # NoRow
               \/ Uploading(w, p) /\ writer[w].stage # "saving",
           \/ new = NoWriter
           \/ /\ new.copy = writer[w].copy /\ new.op = writer[w].op /\ new.paper = writer[w].paper
              /\ new.stage = "loaded" /\ writer[w].stage = "persisting"
    PROVE  MigrationInv'
  <1>1. /\ box' \in [Item -> FileContent] /\ issued \subseteq issued' /\ issued' \subseteq Paper
        /\ \A p \in issued : box[Original(p)] \in {"none", "v1"} => box'[Original(p)] \in {"none", "v1"}
    BY DEF MigrationInv, MigrationShape
  <1>2. \A p \in Paper : ValidRow(sheet'.rows[p]) /\ ValidRow(new.copy[p])
    BY IdleTask, NoRowIsRow DEF MigrationInv, RowsAreValid
  <1>3. \A p \in Paper : new.copy[p] # NoRow => Loaded[p] # NoRow \/ writer[w].copy[p] # NoRow
    BY IdleTask
  <1>4. \A p \in Paper : new.stage # "idle" /\ new.op = "create" /\ new.paper = <<p>> =>
             new.stage # "saving" /\ Uploading(w, p) /\ box'[Original(p)] \in {"none", "v1"}
    <2> SUFFICES ASSUME NEW p \in Paper, new.stage # "idle", new.op = "create", new.paper = <<p>>
                 PROVE  new.stage # "saving" /\ Uploading(w, p) /\ box[Original(p)] \in {"none", "v1"}
      OBVIOUS
    <2>1. Uploading(w, p) /\ writer[w].stage = "persisting" /\ new.stage = "loaded"
      BY IdleTask DEF Uploading
    <2>2. Settled(p)
      BY <2>1 DEF MigrationInv, RowsAreSettled
    <2> QED BY <2>1, <2>2 DEF Settled
  <1> QED BY <1>1, <1>2, <1>3, <1>4, WriterMoves

LEMMA PersistKeeps ==
    ASSUME MigrationInv, NEW w \in Writer, Persist(w)
    PROVE  MigrationInv'
  <1> DEFINE t == writer[w]
             new == [t EXCEPT !.stage = "loaded"]
  <1>1. /\ t.stage = "persisting" /\ writer' = [writer EXCEPT ![w] = new]
        /\ sheet' = [exists |-> TRUE, rows |-> t.copy] /\ UNCHANGED <<box, issued>> /\ Local
    BY DEF Persist
  <1>2. t \in Task(t.paper, t.items) /\ WriterKnows(w) /\ writer'[w] = new
    BY <1>1, TaskIsTyped
  <1>3. /\ new \in Task(new.paper, new.items) /\ new.stage = "loaded" /\ new.op = t.op
        /\ new.paper = t.paper /\ new.copy = t.copy
    BY <1>2 DEF Task
  <1> HIDE DEF new
  <1>4. WriterKnows(w)'
    BY <1>1, <1>2, <1>3 DEF WriterKnows
  <1>5. sheet' \in [exists : BOOLEAN, rows : [Paper -> Row]] /\ \A p \in Paper : ValidRow(sheet'.rows[p])
    BY <1>1, <1>2 DEF Task, MigrationInv, RowsAreValid
  <1>6. Loaded' = t.copy
    BY <1>1 DEF Loaded
  <1> QED BY <1>1, <1>3, <1>4, <1>5, <1>6, StoreMoves

LEMMA WriteSheetKeeps ==
    ASSUME MigrationInv, NEW w \in Writer, WriteSheet(w)
    PROVE  MigrationInv'
  <1> DEFINE t == writer[w]
             p == t.paper[1]
             r == Changed(t.op, t.copy[p])
             rows == [t.copy EXCEPT ![p] = r]
  <1>1. /\ t.stage = "loaded" /\ writer' = [writer EXCEPT ![w] = NoWriter]
        /\ sheet' = sheet \/ sheet' = [exists |-> TRUE, rows |-> rows]
        /\ UNCHANGED <<box, issued>> /\ Local
    BY DEF WriteSheet
  <1>2. t \in Task(t.paper, t.items) /\ WriterKnows(w) /\ writer'[w] = NoWriter
    BY <1>1, TaskIsTyped
  <1>3. PICK q \in Paper : t.paper = <<q>> /\ <<q>>[1] = q
    BY <1>1, <1>2 DEF WriterKnows
  <1>4. t.copy \in [Paper -> Row] /\ \A x \in Paper : ValidRow(t.copy[x])
    BY <1>2 DEF Task, MigrationInv, RowsAreValid
  <1>5. r \in Row /\ ValidRow(r) /\ (r # NoRow => t.copy[q] # NoRow \/ t.op = "create")
    BY <1>3, <1>4, ChangedRow
  <1> HIDE DEF r
  <1>6. rows \in [Paper -> Row] /\ rows[q] = r /\ \A x \in Paper \ {q} : rows[x] = t.copy[x]
    BY <1>3, <1>4, <1>5
  <1> HIDE DEF rows
  <1>7. \A x \in Paper : ValidRow(rows[x])
    BY <1>4, <1>5, <1>6
  <1>8. sheet' \in [exists : BOOLEAN, rows : [Paper -> Row]] /\ \A x \in Paper : ValidRow(sheet'.rows[x])
    <2>1. CASE sheet' = sheet
      BY <2>1 DEF MigrationInv, MigrationShape, RowsAreValid
    <2>2. CASE sheet' = [exists |-> TRUE, rows |-> rows]
      BY <1>6, <1>7, <2>2
    <2> QED BY <1>1, <2>1, <2>2
  <1>9. \A x \in Paper : Loaded'[x] # NoRow =>
             \/ Loaded[x] # NoRow \/ t.copy[x] # NoRow
             \/ Uploading(w, x) /\ t.stage # "saving"
    <2>1. CASE sheet' = sheet
      BY <2>1 DEF Loaded
    <2>2. CASE sheet' = [exists |-> TRUE, rows |-> rows]
      <3>1. Loaded' = rows
        BY <2>2 DEF Loaded
      <3> QED BY <1>1, <1>3, <1>5, <1>6, <3>1 DEF Uploading
    <2> QED BY <1>1, <2>1, <2>2
  <1>10. WriterKnows(w)'
    BY <1>2, IdleTask DEF WriterKnows
  <1> QED BY <1>1, <1>8, <1>9, <1>10, IdleTask, StoreMoves

LEMMA SourceKeeps == MigrationInv /\ SourceNext => MigrationInv'
  BY UploadKeeps, HistoryKeeps, SaveEnds, RemovalBegins, RemovalKeeps, CallKeeps, ReadSheetKeeps, PersistKeeps, WriteSheetKeeps,
     DeathKeeps DEF SourceNext

-----------------------------------------------------------------------------
(* The application at the target. *)

\* Rows are changed but not made visible, and originals are only deleted when
\* their row is.
LEMMA TargetMoves ==
    ASSUME MigrationInv, Remote, register' \in [Paper -> Row], bucket' \in [Item -> FileContent],
           \A p \in Paper : ValidRow(register'[p]), PurgeKnows',
           \A p \in Paper :
               /\ bucket'[Original(p)] \in {bucket[Original(p)], "none"}
               /\ register[p] = NoRow => register'[p] = NoRow /\ bucket'[Original(p)] = bucket[Original(p)]
               /\ Shown(register'[p]) => register'[p] = register[p] /\ bucket'[Original(p)] = bucket[Original(p)]
    PROVE  MigrationInv'
  <1>1. UNCHANGED <<sheet, box, writer, issued, mig, runs>> /\ quiet' = FALSE
    BY DEF Remote, sourceVars
  <1>2. MigrationShape' /\ RowsAreValid'
    BY <1>1 DEF MigrationInv, MigrationShape, RowsAreValid
  <1>3. (\A w \in Writer : WriterKnows(w)') /\ RowsAreSettled'
    BY <1>1 DEF MigrationInv, WriterKnows, RowsAreSettled, Settled, Uploading, Loaded
  <1>4. TargetIsWhole'
    <2> SUFFICES ASSUME NEW p \in Paper
                 PROVE  /\ bucket'[Original(p)] \in {"none", "v1"}
                        /\ Shown(register'[p]) => bucket'[Original(p)] = "v1" /\ register'[p].checksum = "v1"
      BY DEF TargetIsWhole
    <2>1. /\ bucket[Original(p)] \in {"none", "v1"}
          /\ Shown(register[p]) => bucket[Original(p)] = "v1" /\ register[p].checksum = "v1"
      BY DEF MigrationInv, TargetIsWhole
    <2> QED BY <2>1
  <1>5. RunKnows'
    <2>1. \A p \in mig.paper : p \in Paper
      BY DEF MigrationInv, MigrationShape, Migration
    <2>2. ASSUME NEW p \in mig.paper
          PROVE  /\ RowLookedUp(p) => mig.sum = "v1" /\ (~ mig.existing => register'[p] = NoRow)
                 /\ OriginalDealt(p) => mig.dry \/ mig.existing \/ bucket'[Original(p)] = "v1"
      BY <2>1 DEF MigrationInv, RunKnows, RowLookedUp
    <2>3. \A p \in Paper : /\ RowLookedUp(p)' <=> RowLookedUp(p)
                           /\ OriginalDealt(p)' <=> OriginalDealt(p)
      BY <1>1 DEF RowLookedUp, OriginalDealt
    <2>4. RunKnows
      BY DEF MigrationInv
    <2> QED BY <1>1, <2>1, <2>2, <2>3, <2>4 DEF RunKnows
  <1>6. QuietRunCopies'
    BY <1>1 DEF QuietRunCopies
  <1> QED BY <1>2, <1>3, <1>4, <1>5, <1>6 DEF MigrationInv

\* The next file of a list, and what is left after it.
LEMMA RestOfList ==
    ASSUME NEW p \in Paper, NEW l \in Rests(p) \cup {Steps(p)}
    PROVE  /\ Head(l) \in FilesOf(p) /\ Head(l) \in Item /\ Head(l)[1] # "history"
           /\ l = Steps(p) <=> Head(l)[1] = "original"
           /\ l = Steps(p) => Head(l) = Original(p)
           /\ l # Steps(p) => Head(l) \in {Text(p), Chunks(p)}
           /\ Len(l) > 1 => Tail(l) \in Rests(p)
           /\ ~ (Len(l) > 1) => Tail(l) = <<>> /\ l # Steps(p)
           /\ \A i \in FilesOf(p) : Len(l) > 1 /\ i \notin ItemsIn(Tail(l)) => i \notin ItemsIn(l) \/ i = Head(l)
           /\ \A i \in FilesOf(p) : ~ (Len(l) > 1) => i \notin ItemsIn(l) \/ i = Head(l)
  <1>1. CASE l = Steps(p)
    <2>1. Len(l) = 3 /\ Head(l) = Original(p) /\ Tail(l) = <<Text(p), Chunks(p)>>
      BY <1>1, ListFacts
    <2>2. Tail(l) \in Rests(p) /\ ItemsIn(Tail(l)) = {Text(p), Chunks(p)}
      BY <2>1, ListFacts
    <2> QED BY <1>1, <2>1, <2>2, ItemFacts
  <1>2. CASE l = <<Text(p), Chunks(p)>>
    <2>1. Len(l) = 2 /\ Head(l) = Text(p) /\ Tail(l) = <<Chunks(p)>>
      BY <1>2, ListFacts
    <2>2. /\ Tail(l) \in Rests(p) /\ ItemsIn(Tail(l)) = {Chunks(p)} /\ ItemsIn(l) = {Text(p), Chunks(p)}
          /\ Len(Steps(p)) = 3
      BY <1>2, <2>1, ListFacts
    <2>3. l # Steps(p) /\ Head(l)[1] = "text" /\ Head(l) \in FilesOf(p) /\ Head(l) \in Item
      BY <2>1, <2>2, ItemFacts
    <2>4. ~ (Len(l) > 1) => FALSE
      BY <2>1
    <2>5. \A i \in FilesOf(p) : i \notin ItemsIn(Tail(l)) => i \notin ItemsIn(l) \/ i = Head(l)
      BY <2>1, <2>2
    <2> QED BY <2>1, <2>2, <2>3, <2>4, <2>5
  <1>3. CASE l = <<Chunks(p)>>
    <2>1. Len(l) = 1 /\ Head(l) = Chunks(p) /\ Tail(l) = <<>> /\ ItemsIn(l) = {Chunks(p)} /\ Len(Steps(p)) = 3
      BY <1>3, ListFacts
    <2> QED BY <2>1, ItemFacts
  <1> QED BY <1>1, <1>2, <1>3, ListFacts

LEMMA DeleteKeeps ==
    ASSUME MigrationInv, NEW p \in Paper, TargetDelete(p)
    PROVE  MigrationInv'
  <1>1. /\ register' = [register EXCEPT ![p] = Changed("delete", register[p])] /\ Shown(register[p])
        /\ UNCHANGED <<bucket, purge>> /\ Remote
    BY DEF TargetDelete
  <1>2. register \in [Paper -> Row] /\ bucket \in [Item -> FileContent] /\ \A q \in Paper : ValidRow(register[q])
    BY DEF MigrationInv, MigrationShape, RowsAreValid
  <1> DEFINE c == Changed("delete", register[p])
  <1>3. c \in Row /\ ValidRow(c) /\ c.deleted
    BY <1>1, <1>2, ChangedRow
  <1> HIDE DEF c
  <1>4. register' = [register EXCEPT ![p] = c]
    BY <1>1 DEF c
  <1>5. register' \in [Paper -> Row] /\ register'[p] = c /\ \A q \in Paper \ {p} : register'[q] = register[q]
    BY <1>2, <1>3, <1>4
  <1>6. register[p] # NoRow /\ ~ Shown(c)
    BY <1>1, <1>3 DEF Shown
  <1>7. \A q \in Paper : register[q].deleted => register'[q].deleted
    BY <1>3, <1>5
  <1>8. PurgeKnows'
    BY <1>1, <1>7 DEF MigrationInv, PurgeKnows
  <1>9. \A q \in Paper : ValidRow(register'[q])
    BY <1>2, <1>3, <1>5
  <1> QED BY <1>1, <1>2, <1>5, <1>6, <1>8, <1>9, TargetMoves

LEMMA TargetSaveKeeps ==
    ASSUME MigrationInv, NEW p \in Paper, NEW k \in 1..2, NEW v \in Version \cup {"none"}, TargetSave(p, k, v)
    PROVE  MigrationInv'
  <1>1. /\ bucket' = [bucket EXCEPT ![Derived(p)[k]] = v] /\ UNCHANGED <<register, purge>> /\ Remote
    BY DEF TargetSave
  <1>2. register \in [Paper -> Row] /\ bucket \in [Item -> FileContent] /\ \A q \in Paper : ValidRow(register[q])
    BY DEF MigrationInv, MigrationShape, RowsAreValid
  <1>3. Derived(p) = <<Text(p), Chunks(p)>>
    BY ListFacts
  <1>4. Derived(p)[k] \in {Text(p), Chunks(p)}
    BY <1>3
  <1>5. bucket' \in [Item -> FileContent] /\ \A q \in Paper : bucket'[Original(q)] = bucket[Original(q)]
    BY <1>1, <1>2, <1>4, ItemFacts, ListsDiffer DEF FileContent
  <1>6. PurgeKnows'
    BY <1>1 DEF MigrationInv, PurgeKnows
  <1> QED BY <1>1, <1>2, <1>5, <1>6, TargetMoves

LEMMA PurgeBegins ==
    ASSUME MigrationInv, NEW p \in Paper, BeginPurge(p)
    PROVE  MigrationInv'
  <1>1. /\ purge' = ItemsOf(p) /\ register[p].deleted /\ UNCHANGED <<register, bucket>> /\ Remote
    BY DEF BeginPurge
  <1>2. register \in [Paper -> Row] /\ bucket \in [Item -> FileContent] /\ \A q \in Paper : ValidRow(register[q])
    BY DEF MigrationInv, MigrationShape, RowsAreValid
  <1>3. PurgeKnows'
    BY <1>1, ListFacts DEF PurgeKnows
  <1> QED BY <1>1, <1>2, <1>3, TargetMoves

LEMMA PurgeKeeps == MigrationInv /\ (PurgeObject \/ PurgeStops) => MigrationInv'
  <1> SUFFICES ASSUME MigrationInv, PurgeObject \/ PurgeStops PROVE MigrationInv'
    OBVIOUS
  <1>2. /\ register \in [Paper -> Row] /\ bucket \in [Item -> FileContent] /\ \A q \in Paper : ValidRow(register[q])
        /\ "none" \in FileContent
    BY DEF MigrationInv, MigrationShape, RowsAreValid, FileContent
  <1>3. CASE PurgeStops
    <2>1. purge' = <<>> /\ UNCHANGED <<register, bucket>> /\ Remote
      BY <1>3 DEF PurgeStops
    <2>2. PurgeKnows'
      BY <2>1 DEF PurgeKnows
    <2> QED BY <1>2, <2>1, <2>2, TargetMoves
  <1>4. CASE PurgeObject
    <2>1. /\ purge # <<>> /\ bucket' = [bucket EXCEPT ![Head(purge)] = "none"] /\ purge' = Tail(purge)
          /\ register' = IF Len(purge) > 1 THEN register ELSE [register EXCEPT ![Head(purge)[2]] = NoRow]
          /\ Remote
      BY <1>4 DEF PurgeObject
    <2>2. PICK p \in Paper : purge \in Rests(p) \cup {Steps(p)} /\ register[p].deleted
      BY <2>1 DEF MigrationInv, PurgeKnows
    <2>3. /\ Head(purge) \in FilesOf(p)
          /\ Len(purge) > 1 => Tail(purge) \in Rests(p)
          /\ ~ (Len(purge) > 1) => Tail(purge) = <<>>
      BY <2>2, RestOfList
    <2>4. Head(purge)[2] = p /\ Head(purge) \in Item
      BY <2>3, ItemFacts
    <2>5. ~ Shown(register[p]) /\ register[p] # NoRow
      BY <2>2, NoRowIsRow DEF Shown
    <2>6. /\ register' \in [Paper -> Row] /\ \A q \in Paper \ {p} : register'[q] = register[q]
          /\ register'[p] \in {register[p], NoRow} /\ (Len(purge) > 1 => register'[p] = register[p])
      BY <1>2, <2>1, <2>4, NoRowIsRow
    <2>7. bucket' \in [Item -> FileContent] /\ \A i \in Item \ {Head(purge)} : bucket'[i] = bucket[i]
      BY <1>2, <2>1
    <2>8. \A q \in Paper \ {p} : Original(q) # Head(purge)
      BY <2>4, ItemFacts
    <2>9. bucket'[Original(p)] \in {bucket[Original(p)], "none"}
      BY <1>2, <2>1, ItemFacts
    <2>10. PurgeKnows'
      BY <2>1, <2>2, <2>3, <2>6 DEF PurgeKnows
    <2>11. \A q \in Paper : ValidRow(register'[q])
      BY <1>2, <2>6, NoRowIsRow
    <2>12. \A q \in Paper \ {p} : bucket'[Original(q)] = bucket[Original(q)]
      BY <2>7, <2>8, ItemFacts
    <2> QED BY <2>1, <2>5, <2>6, <2>7, <2>9, <2>10, <2>11, <2>12, NoRowIsRow, TargetMoves
  <1> QED BY <1>3, <1>4

LEMMA TargetKeeps == MigrationInv /\ TargetNext => MigrationInv'
  BY DeleteKeeps, TargetSaveKeeps, PurgeBegins, PurgeKeeps DEF TargetNext

-----------------------------------------------------------------------------
(* The run. *)

\* Every step of a run keeps to its list and to rows that are there.
LEMMA RunMoves ==
    ASSUME MigrationInv, Migrating, mig' \in Migration(mig'.items, mig'.failed),
           register' \in [Paper -> Row], bucket' \in [Item -> FileContent],
           mig'.listed = mig.listed \/ (\A p \in Paper : mig'.listed[p] = NoRow),
           \A p \in Paper : ValidRow(register'[p]) /\ (register[p] # NoRow => register'[p] = register[p]),
           TargetIsWhole', RunKnows', QuietRunCopies'
    PROVE  MigrationInv'
  <1>1. UNCHANGED <<sheet, box, writer, issued, purge, edits, runs, quiet>>
    BY DEF Migrating, sourceVars
  <1>2. MigrationShape'
    BY <1>1 DEF MigrationInv, MigrationShape
  <1>3. RowsAreValid'
    BY <1>1, NoRowIsRow DEF MigrationInv, RowsAreValid
  <1>4. (\A w \in Writer : WriterKnows(w)')
    BY <1>1 DEF MigrationInv, WriterKnows
  <1>5. RowsAreSettled'
    BY <1>1 DEF MigrationInv, RowsAreSettled, Settled, Uploading, Loaded
  <1>6. PurgeKnows'
    BY <1>1, NoRowIsRow DEF MigrationInv, PurgeKnows
  <1> QED BY <1>2, <1>3, <1>4, <1>5, <1>6 DEF MigrationInv

LEMMA RunTypes ==
    ASSUME MigrationInv
    PROVE  /\ mig \in Migration(mig.items, mig.failed) /\ mig.paper \subseteq Paper /\ mig.todo \subseteq Paper
           /\ mig.dry \in BOOLEAN /\ mig.existing \in BOOLEAN
           /\ register \in [Paper -> Row] /\ bucket \in [Item -> FileContent] /\ box \in [Item -> FileContent]
           /\ \A p \in Paper : ValidRow(register[p])
           /\ TargetIsWhole /\ RunKnows /\ QuietRunCopies
           /\ \A p \in mig.paper : Settled(p)
  <1>1. mig \in Migration(mig.items, mig.failed) /\ TargetIsWhole /\ RunKnows /\ QuietRunCopies
    BY DEF MigrationInv, MigrationShape
  <1>2. \A p \in mig.paper : p \in Paper /\ mig.listed[p] # NoRow
    BY <1>1, NoRowIsRow DEF RunKnows, Migration, Shown
  <1>3. \A p \in mig.paper : Settled(p)
    BY <1>2 DEF MigrationInv, RowsAreSettled
  <1> QED BY <1>1, <1>3 DEF MigrationInv, MigrationShape, RowsAreValid, Migration

\* A document, or the history, that failed keeps the run from being complete.
LEMMA FailureKeeps ==
    ASSUME MigrationInv, Migrating, mig.phase # "idle", mig' = Failed, UNCHANGED <<register, bucket>>
    PROVE  MigrationInv'
  <1>1. /\ mig' \in Migration(mig'.items, mig'.failed) /\ mig'.phase \in {"next", "ended"}
        /\ mig'.failed # {} /\ mig'.paper = mig.paper /\ mig'.todo = mig.todo /\ mig'.listed = mig.listed
    BY RunTypes DEF Failed, Migration
  <1>2. RunKnows'
    BY <1>1, RunTypes DEF RunKnows, Working, RowLookedUp, OriginalDealt
  <1>3. QuietRunCopies'
    <2>1. quiet' = quiet /\ Loaded' = Loaded
      BY DEF Migrating, sourceVars, Loaded
    <2>2. quiet => mig.listed = Loaded
      BY RunTypes DEF QuietRunCopies
    <2> QED BY <1>1, <2>1, <2>2 DEF QuietRunCopies, Working
  <1>4. TargetIsWhole'
    BY RunTypes DEF TargetIsWhole
  <1> QED BY <1>1, <1>2, <1>3, <1>4, RunTypes, RunMoves

LEMMA RunStands ==
    ASSUME Migrating
    PROVE  /\ UNCHANGED <<sheet, box, writer, issued, purge, runs, quiet>> /\ Loaded' = Loaded
           /\ \A p \in Paper : FilesOf(p)' = FilesOf(p)
  BY DEF Migrating, sourceVars, Loaded, FilesOf, Original

\* What the run has in hand while it works on a document or on the history.
LEMMA InHand ==
    ASSUME MigrationInv, mig.phase \in Working
    PROVE  \/ mig.paper = {} /\ mig.items = History /\ mig.todo = {}
           \/ \E p \in Paper : mig.paper = {p} /\ mig.items \in Rests(p) \cup {Steps(p)}
  BY RunTypes DEF RunKnows

LEMMA HandIsItem ==
    ASSUME MigrationInv, mig.phase \in Working
    PROVE  /\ Head(mig.items) \in Item
           /\ \A q \in Paper : Head(mig.items) = Original(q) => mig.paper = {q} /\ mig.items = Steps(q)
  <1>1. CASE mig.paper = {} /\ mig.items = History /\ mig.todo = {}
    <2>1. Head(mig.items) = <<"history">>
      BY <1>1 DEF History
    <2> QED BY <2>1, ItemFacts
  <1>2. ASSUME NEW p \in Paper, mig.paper = {p}, mig.items \in Rests(p) \cup {Steps(p)}
        PROVE  /\ Head(mig.items) \in Item
               /\ \A q \in Paper : Head(mig.items) = Original(q) => mig.paper = {q} /\ mig.items = Steps(q)
    <2>1. /\ Head(mig.items) \in Item /\ (mig.items = Steps(p) <=> Head(mig.items)[1] = "original")
          /\ mig.items = Steps(p) => Head(mig.items) = Original(p)
      BY <1>2, RestOfList
    <2>2. ASSUME NEW q \in Paper, Head(mig.items) = Original(q) PROVE q = p /\ mig.items = Steps(p)
      BY <2>1, <2>2, ItemFacts
    <2> QED BY <1>2, <2>1, <2>2
  <1> QED BY <1>1, <1>2, InHand

\* An item is dealt with: it was not there, or it is at the target now.
LEMMA DealtMoves ==
    ASSUME MigrationInv, Migrating, mig' = Dealt, mig.phase \in {"read", "compare", "verify"},
           UNCHANGED <<register, bucket>>,
           \A p \in mig.paper :
               mig.items = Steps(p) => mig.phase # "read" /\ (mig.dry \/ bucket[Original(p)] = "v1"),
           quiet /\ ~ mig.dry /\ mig.failed = {} => Copied(Head(mig.items))
    PROVE  MigrationInv'
  <1>1. mig.phase \in Working /\ RunKnows /\ QuietRunCopies /\ mig \in Migration(mig.items, mig.failed)
    BY RunTypes DEF Working
  <1>2. TargetIsWhole'
    BY RunTypes DEF TargetIsWhole
  <1>3. UNCHANGED <<box, quiet>> /\ Loaded' = Loaded
    BY RunStands
  <1>4. \A p \in Paper : Accounted(p)' <=> Accounted(p)
    BY <1>3 DEF Accounted, Copied, FilesOf, Original
  <1>5. CASE mig.paper = {} /\ mig.items = History /\ mig.todo = {}
    <2>1. Len(mig.items) = 1 /\ Head(mig.items) = <<"history">>
      BY <1>5 DEF History
    <2>2. mig' = [mig EXCEPT !.phase = "ended"]
      BY <1>5, <2>1 DEF Dealt
    <2>3. /\ mig' \in Migration(mig'.items, mig'.failed) /\ mig'.phase = "ended" /\ mig'.paper = {} /\ mig'.todo = {}
          /\ mig'.listed = mig.listed /\ mig'.dry = mig.dry /\ mig'.failed = mig.failed
      BY <1>1, <1>5, <2>2 DEF Migration
    <2>4. RunKnows'
      BY <2>3 DEF RunKnows, Working
    <2>5. QuietRunCopies'
      <3>1. Current = {} /\ Current' = {}
        BY <1>5, <2>3 DEF Current, Working
      <3>2. ASSUME quiet, ~ mig.dry, mig.failed = {} PROVE Copied(<<"history">>)'
        BY <1>3, <2>1, <3>2 DEF Copied
      <3> QED BY <1>1, <1>3, <1>4, <1>5, <2>3, <3>1, <3>2 DEF QuietRunCopies, Working
    <2> QED BY <1>2, <2>3, <2>4, <2>5, RunTypes, RunMoves
  <1>6. ASSUME NEW p \in Paper, mig.paper = {p}, mig.items \in Rests(p) \cup {Steps(p)} PROVE MigrationInv'
    <2>1. /\ mig.sum = "v1" /\ (~ mig.existing => register[p] = NoRow)
          /\ mig.dry \/ mig.existing \/ bucket[Original(p)] = "v1"
      <3>1. CASE mig.items = Steps(p)
        BY <1>1, <1>6, <3>1 DEF RunKnows, RowLookedUp
      <3>2. CASE mig.items \in Rests(p)
        BY <1>1, <1>6, <3>2 DEF RunKnows, RowLookedUp, OriginalDealt
      <3> QED BY <1>6, <3>1, <3>2
    <2>2. /\ mig' \in Migration(mig'.items, mig'.failed) /\ mig'.paper = {p} /\ mig'.todo = mig.todo
          /\ mig'.listed = mig.listed /\ mig'.dry = mig.dry /\ mig'.failed = mig.failed
          /\ mig'.sum = mig.sum /\ mig'.existing = mig.existing
          /\ \/ mig'.phase = "read" /\ mig'.items = Tail(mig.items) /\ Len(mig.items) > 1
             \/ mig'.phase = "create" /\ mig'.items = mig.items /\ ~ (Len(mig.items) > 1)
      <3>1. CASE Len(mig.items) > 1
        <4>1. mig' = [mig EXCEPT !.phase = "read", !.items = Tail(mig.items)]
          BY <3>1 DEF Dealt
        <4> QED BY <1>1, <1>6, <3>1, <4>1 DEF Migration, Working
      <3>2. CASE ~ (Len(mig.items) > 1)
        <4>1. mig' = [mig EXCEPT !.phase = "create"]
          BY <1>6, <3>2 DEF Dealt
        <4> QED BY <1>1, <1>6, <3>2, <4>1 DEF Migration
      <3> QED BY <3>1, <3>2
    <2>3. /\ Len(mig.items) > 1 => Tail(mig.items) \in Rests(p)
          /\ \A i \in FilesOf(p) :
                /\ Len(mig.items) > 1 /\ i \notin ItemsIn(Tail(mig.items)) => i \notin ItemsIn(mig.items) \/ i = Head(mig.items)
                /\ ~ (Len(mig.items) > 1) => i \notin ItemsIn(mig.items) \/ i = Head(mig.items)
      BY <1>6, RestOfList
    <2>4. RunKnows'
      <3>1. mig'.phase = "read" => mig'.items \in Rests(p) /\ mig'.items # Steps(p)
        BY <2>2, <2>3, ListsDiffer
      <3>2. \A q \in mig'.todo \cup mig'.paper : Shown(mig'.listed[q])
        BY <1>1, <1>6, <2>2 DEF RunKnows
      <3> QED BY <2>1, <2>2, <3>1, <3>2 DEF RunKnows, Working
    <2>5. QuietRunCopies'
      <3>1. Current = {p} /\ Current' = {p} /\ mig'.phase \in {"read", "create"} /\ mig.phase # "idle"
        BY <1>1, <1>6, <2>2 DEF Current, Working
      <3>2. ASSUME quiet, ~ mig.dry, mig.failed = {}, NEW i \in FilesOf(p),
                   mig'.phase = "create" \/ i \notin ItemsIn(mig'.items)
            PROVE  Copied(i)
        <4>1. i \notin ItemsIn(mig.items) \/ i = Head(mig.items)
          BY <2>2, <2>3, <3>2
        <4> QED BY <1>1, <3>1, <3>2, <4>1 DEF QuietRunCopies
      <3>3. \A i : Copied(i)' <=> Copied(i)
        BY <1>3 DEF Copied
      <3>4. ItemsIn(mig'.items) = ItemsIn(mig.items)' /\ FilesOf(p)' = FilesOf(p)
        BY RunStands DEF ItemsIn
      <3> QED BY <1>1, <1>3, <1>4, <2>2, <3>1, <3>2, <3>3, <3>4 DEF QuietRunCopies, Working
    <2> QED BY <1>2, <2>2, <2>4, <2>5, RunTypes, RunMoves
  <1> QED BY <1>1, <1>5, <1>6, InHand

\* The run goes on with the item it has in hand: it has found its content, its
\* row, or that it is not at the target yet.
LEMMA ItemMoves ==
    ASSUME MigrationInv, Migrating, UNCHANGED <<register, bucket>>, mig.phase \in Working,
           mig' \in Migration(mig'.items, mig'.failed), mig'.phase \in Working \ {"read"},
           UNCHANGED <<mig.paper, mig.todo, mig.items, mig.listed, mig.dry, mig.failed>>,
           mig'.phase = "find" => \E p \in mig.paper : mig.items = Steps(p),
           quiet => mig'.data = box[Head(mig.items)],
           \A p \in mig.paper :
               /\ mig.items = Steps(p) => mig'.data = "v1"
               /\ mig.items = Steps(p) /\ mig'.phase # "find" =>
                     /\ mig'.sum = "v1" /\ (~ mig'.existing => register[p] = NoRow)
                     /\ quiet /\ ~ mig.dry /\ mig.failed = {} /\ mig'.existing => register[p] # NoRow
               /\ mig.items # Steps(p) \/ mig'.phase = "find" => mig'.sum = mig.sum /\ mig'.existing = mig.existing
    PROVE  MigrationInv'
  <1>1. RunKnows /\ QuietRunCopies /\ mig.phase # "idle" /\ mig'.phase \notin {"idle", "read", "create", "ended"}
    BY RunTypes DEF Working
  <1>2. TargetIsWhole'
    BY RunTypes DEF TargetIsWhole
  <1>3. UNCHANGED <<box, quiet>> /\ Loaded' = Loaded
    BY RunStands
  <1>4. \A p \in Paper : Accounted(p)' <=> Accounted(p)
    BY <1>3 DEF Accounted, Copied, FilesOf, Original
  <1>5. CASE mig.paper = {} /\ mig.items = History /\ mig.todo = {}
    <2>1. RunKnows' /\ Current = {} /\ Current' = {}
      BY <1>1, <1>5, RunTypes DEF RunKnows, Current, Working
    <2>2. QuietRunCopies'
      BY <1>1, <1>3, <1>4, <1>5, <2>1 DEF QuietRunCopies
    <2> QED BY <1>2, <2>1, <2>2, RunTypes, RunMoves
  <1>6. ASSUME NEW p \in Paper, mig.paper = {p}, mig.items \in Rests(p) \cup {Steps(p)} PROVE MigrationInv'
    <2>1. \A q \in Paper : Steps(p) \notin Rests(q) /\ Steps(p) # History
      BY ListsDiffer
    <2>2. mig'.phase = "find" => mig.items = Steps(p)
      BY <1>6
    <2>3. OriginalDealt(p)' <=> mig.items \in Rests(p)
      BY <1>1, <2>1 DEF OriginalDealt
    <2>4. RowLookedUp(p)' <=> mig.items \in Rests(p) \/ (mig'.phase # "find" /\ mig.items = Steps(p))
      BY <1>1, <2>1, <2>3 DEF RowLookedUp, Working
    <2>5. OriginalDealt(p) <=> mig.items \in Rests(p)
      BY DEF OriginalDealt, Working
    <2>6. ASSUME mig.items \in Rests(p)
          PROVE  /\ mig'.sum = "v1" /\ (~ mig'.existing => register[p] = NoRow)
                 /\ mig'.dry \/ mig'.existing \/ bucket[Original(p)] = "v1"
      BY <1>1, <1>6, <2>1, <2>5, <2>6 DEF RunKnows, RowLookedUp
    <2>7. RunKnows'
      <3>1. mig'.phase = "find" => mig'.items \notin {History} \cup UNION {Rests(q) : q \in Paper}
        BY <2>1, <2>2
      <3> QED BY <1>1, <1>6, <2>3, <2>4, <2>6, <3>1 DEF RunKnows
    <2>8. QuietRunCopies'
      <3>1. Current = {p} /\ Current' = {p}
        BY <1>6 DEF Current
      <3>2. \A i : Copied(i)' <=> Copied(i)
        BY <1>3 DEF Copied
      <3>3. ItemsIn(mig.items)' = ItemsIn(mig.items) /\ FilesOf(p)' = FilesOf(p)
        BY RunStands DEF ItemsIn
      <3>4. ASSUME quiet, ~ mig.dry, mig.failed = {}, mig'.existing PROVE register[p] # NoRow
        BY <1>1, <1>6, <3>1, <3>4 DEF QuietRunCopies
      <3>5. ASSUME quiet, ~ mig.dry, mig.failed = {}, NEW i \in FilesOf(p), i \notin ItemsIn(mig.items) PROVE Copied(i)
        BY <1>1, <3>1, <3>5 DEF QuietRunCopies
      <3> QED BY <1>1, <1>3, <1>4, <1>6, <3>1, <3>2, <3>3, <3>4, <3>5 DEF QuietRunCopies
    <2> QED BY <1>2, <2>7, <2>8, RunTypes, RunMoves
  <1> QED BY <1>5, <1>6, InHand

LEMMA ReadItemKeeps ==
    ASSUME MigrationInv, ReadItem
    PROVE  MigrationInv'
  <1> DEFINE i == Head(mig.items)
  <1>1. /\ mig.phase = "read" /\ mig.phase \in Working /\ mig.phase # "idle"
        /\ UNCHANGED <<register, bucket>> /\ Migrating
        /\ mig' = IF box[i] = "none" THEN IF i[1] = "original" THEN Failed ELSE Dealt
                  ELSE [mig EXCEPT !.data = box[i], !.phase = IF i[1] = "original" THEN "find" ELSE "compare"]
    BY DEF ReadItem, Working
  <1>2. i \in Item
    BY <1>1, HandIsItem
  <1>3. ASSUME NEW p \in mig.paper
        PROVE  /\ p \in Paper /\ mig.paper = {p} /\ (mig.items = Steps(p) <=> i[1] = "original")
               /\ mig.items = Steps(p) => i = Original(p)
    BY <1>1, InHand, RestOfList
  <1>4. CASE box[i] = "none" /\ i[1] = "original"
    BY <1>1, <1>4, FailureKeeps
  <1>5. CASE box[i] = "none" /\ i[1] # "original"
    BY <1>1, <1>3, <1>5, DealtMoves DEF Copied
  <1>6. CASE box[i] # "none"
    <2>1. /\ mig' \in Migration(mig'.items, mig'.failed) /\ mig'.data = box[i]
          /\ mig'.phase = IF i[1] = "original" THEN "find" ELSE "compare"
          /\ UNCHANGED <<mig.paper, mig.todo, mig.items, mig.listed, mig.dry, mig.failed, mig.sum, mig.existing>>
      <3>1. mig' = [mig EXCEPT !.data = box[i], !.phase = IF i[1] = "original" THEN "find" ELSE "compare"]
        BY <1>1, <1>6
      <3>2. box[i] \in FileContent
        BY <1>2, RunTypes
      <3> QED BY <3>1, <3>2, RunTypes DEF Migration, Working
    <2>2. \A p \in mig.paper : mig.items = Steps(p) => box[i] = "v1"
      BY <1>3, <1>6, RunTypes DEF Settled
    <2>3. i[1] = "original" => \E p \in mig.paper : mig.items = Steps(p)
      <3>1. CASE mig.paper = {} /\ mig.items = History
        BY <3>1, ItemFacts DEF History
      <3>2. CASE mig.paper # {}
        BY <1>3, <3>2
      <3> QED BY <1>1, <3>1, <3>2, InHand
    <2>4. mig'.phase \in Working \ {"read"}
      BY <2>1 DEF Working
    <2> HIDE DEF i
    <2>5. \A p \in mig.paper :
               /\ mig.items = Steps(p) => mig'.phase = "find"
               /\ mig'.sum = mig.sum /\ mig'.existing = mig.existing
      BY <1>3, <2>1
    <2> QED BY <1>1, <2>1, <2>2, <2>3, <2>4, <2>5, ItemMoves DEF i
  <1> QED BY <1>4, <1>5, <1>6

LEMMA FindRowKeeps ==
    ASSUME MigrationInv, FindRow
    PROVE  MigrationInv'
  <1>1. mig.phase = "find" /\ mig.phase \in Working /\ mig.phase # "idle" /\ UNCHANGED <<register, bucket>> /\ Migrating
    BY DEF FindRow, Working
  <1>2. PICK p \in mig.paper :
           mig' = IF register[p] # NoRow /\ register[p].checksum # mig.data THEN Failed
                  ELSE [mig EXCEPT !.phase = "compare", !.existing = register[p] # NoRow, !.sum = mig.data]
    BY DEF FindRow
  <1>3. p \in Paper /\ mig.paper = {p} /\ mig.items = Steps(p) /\ mig.data = "v1"
    <2>1. p \in Paper /\ mig.paper = {p} /\ mig.items \in Rests(p) \cup {Steps(p)}
      BY <1>1, <1>2, InHand
    <2>2. mig.items = Steps(p)
      BY <1>1, <2>1, RunTypes DEF RunKnows
    <2> QED BY <1>1, <2>1, <2>2, RunTypes DEF RunKnows, Working
  <1>4. CASE mig' = Failed
    BY <1>1, <1>4, FailureKeeps
  <1>5. CASE mig' = [mig EXCEPT !.phase = "compare", !.existing = register[p] # NoRow, !.sum = mig.data]
    <2>1. /\ mig' \in Migration(mig'.items, mig'.failed) /\ mig'.data = mig.data /\ mig'.phase = "compare"
          /\ mig'.sum = mig.data
          /\ UNCHANGED <<mig.paper, mig.todo, mig.items, mig.listed, mig.dry, mig.failed>>
      BY <1>5, RunTypes DEF Migration, Working
    <2>2. mig'.existing = (register[p] # NoRow)
      BY <1>5, RunTypes DEF Migration
    <2>3. quiet => mig'.data = box[Head(mig.items)]
      BY <1>1, <2>1, RunTypes DEF QuietRunCopies, Working
    <2> QED BY <1>1, <1>3, <2>1, <2>2, <2>3, ItemMoves DEF Working
  <1> QED BY <1>2, <1>4, <1>5

LEMMA CompareItemKeeps ==
    ASSUME MigrationInv, CompareItem
    PROVE  MigrationInv'
  <1> DEFINE there == bucket[Head(mig.items)]
  <1>1. /\ mig.phase = "compare" /\ mig.phase \in Working \ {"read"} /\ mig.phase # "idle"
        /\ UNCHANGED <<register, bucket>> /\ Migrating
        /\ mig' = IF there = "none" THEN IF mig.dry THEN Dealt ELSE [mig EXCEPT !.phase = "write"]
                  ELSE IF there = mig.data THEN Dealt ELSE Failed
    BY DEF CompareItem, Same, Working
  <1>2. ASSUME NEW p \in mig.paper, mig.items = Steps(p)
        PROVE  Head(mig.items) = Original(p) /\ mig.data = "v1" /\ p \in Paper
    BY <1>1, <1>2, RunTypes, ListFacts DEF RunKnows
  <1>3. quiet => mig.data = box[Head(mig.items)]
    BY <1>1, RunTypes DEF QuietRunCopies
  <1>4. CASE there = "none" /\ mig.dry
    BY <1>1, <1>4, DealtMoves
  <1>5. CASE there # "none" /\ there = mig.data
    BY <1>1, <1>2, <1>3, <1>5, DealtMoves DEF Copied
  <1>6. CASE there # "none" /\ there # mig.data
    BY <1>1, <1>6, FailureKeeps
  <1>7. CASE there = "none" /\ ~ mig.dry
    <2>1. mig' = [mig EXCEPT !.phase = "write"]
      BY <1>1, <1>7
    <2>2. /\ mig' \in Migration(mig'.items, mig'.failed) /\ mig'.phase = "write"
          /\ UNCHANGED <<mig.paper, mig.todo, mig.items, mig.listed, mig.dry, mig.failed, mig.sum, mig.existing, mig.data>>
      BY <2>1, RunTypes DEF Migration, Working
    <2>3. ASSUME NEW p \in mig.paper, mig.items = Steps(p)
          PROVE  mig.sum = "v1" /\ (~ mig.existing => register[p] = NoRow)
      BY <1>1, <2>3, RunTypes DEF RunKnows, RowLookedUp
    <2>4. ASSUME NEW p \in mig.paper, quiet, ~ mig.dry, mig.failed = {}, mig.existing PROVE register[p] # NoRow
      BY <1>1, <2>4, RunTypes DEF QuietRunCopies, Current
    <2> QED BY <1>1, <1>2, <1>3, <2>2, <2>3, <2>4, ItemMoves DEF Working
  <1> QED BY <1>4, <1>5, <1>6, <1>7

LEMMA WriteItemKeeps ==
    ASSUME MigrationInv, WriteItem
    PROVE  MigrationInv'
  <1> DEFINE h == Head(mig.items)
  <1>1. /\ mig.phase = "write" /\ mig.phase \in Working \ {"read"} /\ mig.phase # "idle"
        /\ bucket' = [bucket EXCEPT ![h] = mig.data] /\ mig' = [mig EXCEPT !.phase = "verify"]
        /\ register' = register /\ Migrating
    BY DEF WriteItem, Working
  <1>2. /\ mig' \in Migration(mig'.items, mig'.failed) /\ mig'.phase = "verify"
        /\ UNCHANGED <<mig.paper, mig.todo, mig.items, mig.listed, mig.dry, mig.failed, mig.sum, mig.existing, mig.data>>
    BY <1>1, RunTypes DEF Migration, Working
  <1>3. h \in Item /\ mig.data \in FileContent /\ RunKnows /\ QuietRunCopies
    BY <1>1, HandIsItem, RunTypes DEF Migration
  <1> HIDE DEF h
  <1>4. /\ bucket' \in [Item -> FileContent] /\ bucket'[h] = mig.data
        /\ \A i \in Item \ {h} : bucket'[i] = bucket[i]
    BY <1>1, <1>3, RunTypes
  <1>5. ASSUME NEW q \in Paper, Original(q) = h PROVE mig.data = "v1"
    <2>1. mig.paper = {q} /\ mig.items = Steps(q)
      BY <1>1, <1>5, HandIsItem DEF h
    <2> QED BY <1>1, <1>3, <2>1 DEF RunKnows
  <1>6. \A q \in Paper : bucket'[Original(q)] \in {bucket[Original(q)], "v1"}
    BY <1>4, <1>5, ItemFacts
  <1>7. TargetIsWhole'
    BY <1>1, <1>6, RunTypes DEF TargetIsWhole
  <1>8. \A p \in Paper : /\ OriginalDealt(p)' <=> OriginalDealt(p)
                         /\ RowLookedUp(p)' <=> RowLookedUp(p)
    BY <1>1, <1>2 DEF OriginalDealt, RowLookedUp, Working
  <1>9. RunKnows'
    <2>1. ASSUME NEW p \in mig.paper
          PROVE  OriginalDealt(p) => mig.dry \/ mig.existing \/ bucket'[Original(p)] = "v1"
      BY <1>3, <1>6, RunTypes DEF RunKnows
    <2> QED BY <1>1, <1>2, <1>3, <1>8, <2>1, RunTypes DEF RunKnows, Working
  <1>10. QuietRunCopies'
    <2>1. UNCHANGED <<box, quiet>> /\ Loaded' = Loaded
      BY <1>1, RunStands
    <2>2. quiet => mig.data = box[h]
      BY <1>1, <1>3 DEF QuietRunCopies, h
    <2>3. ASSUME quiet, NEW i \in Item, Copied(i) PROVE Copied(i)'
      BY <1>4, <2>1, <2>2, <2>3 DEF Copied
    <2>4. ASSUME quiet, NEW p \in Paper, Accounted(p) PROVE Accounted(p)'
      <3>1. FilesOf(p) \subseteq Item /\ FilesOf(p)' = FilesOf(p)
        BY <1>1, ItemFacts, RunStands
      <3> QED BY <1>1, <2>3, <2>4, <3>1 DEF Accounted
    <2>5. ASSUME quiet, NEW p \in Paper, NEW i \in FilesOf(p), Copied(i) PROVE Copied(i)'
      BY <2>3, <2>5, ItemFacts
    <2>6. Current = mig.paper /\ Current' = mig.paper /\ ItemsIn(mig.items)' = ItemsIn(mig.items)
      BY <1>1, <1>2 DEF Current, Working, ItemsIn
    <2>7. h = Head(mig'.items)
      BY <1>2 DEF h
    <2>8. \A p \in Paper : FilesOf(p)' = FilesOf(p)
      BY <1>1, RunStands
    <2> QED BY <1>1, <1>2, <1>3, <2>1, <2>2, <2>4, <2>5, <2>6, <2>7, <2>8, RunTypes DEF QuietRunCopies, Working
  <1> QED BY <1>1, <1>2, <1>4, <1>7, <1>9, <1>10, RunTypes, RunMoves

LEMMA VerifyItemKeeps ==
    ASSUME MigrationInv, VerifyItem
    PROVE  MigrationInv'
  <1>1. /\ mig.phase = "verify" /\ mig.phase \in Working \ {"read"} /\ mig.phase # "idle"
        /\ UNCHANGED <<register, bucket>> /\ Migrating
        /\ mig' = IF bucket[Head(mig.items)] = mig.data THEN Dealt ELSE Failed
    BY DEF VerifyItem, Working
  <1>2. ASSUME NEW p \in mig.paper, mig.items = Steps(p)
        PROVE  Head(mig.items) = Original(p) /\ mig.data = "v1" /\ p \in Paper
    BY <1>1, <1>2, RunTypes, ListFacts DEF RunKnows
  <1>3. quiet => mig.data = box[Head(mig.items)]
    BY <1>1, RunTypes DEF QuietRunCopies
  <1>4. CASE bucket[Head(mig.items)] = mig.data
    BY <1>1, <1>2, <1>3, <1>4, DealtMoves DEF Copied
  <1>5. CASE bucket[Head(mig.items)] # mig.data
    BY <1>1, <1>5, FailureKeeps
  <1> QED BY <1>4, <1>5

LEMMA CreateRowKeeps ==
    ASSUME MigrationInv, CreateTargetRow
    PROVE  MigrationInv'
  <1>1. mig.phase = "create" /\ mig.phase # "idle" /\ bucket' = bucket /\ Migrating
    BY DEF CreateTargetRow
  <1>2. PICK p \in mig.paper :
          IF mig.existing \/ mig.dry THEN mig' = [mig EXCEPT !.phase = "next"] /\ UNCHANGED register
          ELSE IF register[p] = NoRow /\ ValidRow(MigratedRow(p))
               THEN /\ register' = [register EXCEPT ![p] = MigratedRow(p)]
                    /\ mig' = [mig EXCEPT !.phase = "next"]
               ELSE mig' = Failed /\ UNCHANGED register
    BY DEF CreateTargetRow
  <1>3. /\ p \in Paper /\ mig.paper = {p} /\ mig.sum = "v1" /\ (~ mig.existing => register[p] = NoRow)
        /\ mig.dry \/ mig.existing \/ bucket[Original(p)] = "v1"
    BY <1>1, <1>2, RunTypes DEF RunKnows, RowLookedUp, OriginalDealt
  <1>4. CASE mig' = Failed /\ UNCHANGED register
    BY <1>1, <1>4, FailureKeeps
  <1>5. ASSUME mig' = [mig EXCEPT !.phase = "next"], register' \in [Paper -> Row],
               \A q \in Paper : ValidRow(register'[q]) /\ (register[q] # NoRow => register'[q] = register[q]),
               TargetIsWhole',
               quiet /\ ~ mig.dry /\ mig.failed = {} => register'[p] # NoRow
        PROVE  MigrationInv'
    <2>1. /\ mig' \in Migration(mig'.items, mig'.failed) /\ mig'.phase = "next"
          /\ UNCHANGED <<mig.paper, mig.todo, mig.items, mig.listed, mig.dry, mig.failed>>
      BY <1>5, RunTypes DEF Migration
    <2>2. RunKnows'
      BY <1>1, <2>1, RunTypes DEF RunKnows, RowLookedUp, OriginalDealt, Working
    <2>3. QuietRunCopies'
      <3>1. UNCHANGED <<box, quiet>> /\ Loaded' = Loaded /\ \A q \in Paper : FilesOf(q)' = FilesOf(q)
        BY <1>1, RunStands
      <3>2. Current = {p} /\ Current' = {}
        BY <1>1, <1>3, <2>1 DEF Current, Working
      <3>3. \A i : Copied(i)' <=> Copied(i)
        BY <1>1, <3>1 DEF Copied
      <3>4. \A q \in Paper : Accounted(q) => Accounted(q)'
        BY <1>5, <3>1, <3>3 DEF Accounted
      <3>5. ASSUME quiet, ~ mig.dry, mig.failed = {} PROVE Accounted(p)'
        <4>1. \A i \in FilesOf(p) : Copied(i)
          BY <1>1, <3>2, <3>5, RunTypes DEF QuietRunCopies
        <4> QED BY <1>3, <1>5, <3>1, <3>3, <3>5, <4>1 DEF Accounted
      <3> QED BY <1>1, <2>1, <3>1, <3>2, <3>4, <3>5, RunTypes DEF QuietRunCopies, Working
    <2> QED BY <1>1, <1>5, <2>1, <2>2, <2>3, RunTypes, RunMoves
  <1>6. CASE (mig.existing \/ mig.dry) /\ mig' = [mig EXCEPT !.phase = "next"] /\ UNCHANGED register
    <2>1. TargetIsWhole'
      BY <1>1, <1>6, RunTypes DEF TargetIsWhole
    <2>2. quiet /\ ~ mig.dry /\ mig.failed = {} => register[p] # NoRow
      BY <1>1, <1>3, <1>6, RunTypes DEF QuietRunCopies, Current
    <2> QED BY <1>5, <1>6, <2>1, <2>2, RunTypes
  <1>7. CASE /\ ~ mig.existing /\ ~ mig.dry /\ ValidRow(MigratedRow(p))
             /\ register' = [register EXCEPT ![p] = MigratedRow(p)] /\ mig' = [mig EXCEPT !.phase = "next"]
    <2> DEFINE r == MigratedRow(p)
    <2>1. r \in Row /\ r.checksum = "v1"
      BY <1>3, RunTypes DEF MigratedRow, Row, Migration, FileContent, Version
    <2>2. r # NoRow
      BY <2>1 DEF NoRow
    <2> HIDE DEF r
    <2>3. /\ register' \in [Paper -> Row] /\ register'[p] = r
          /\ \A q \in Paper \ {p} : register'[q] = register[q]
      BY <1>3, <1>7, <2>1, RunTypes DEF r
    <2>4. TargetIsWhole'
      BY <1>1, <1>3, <1>7, <2>1, <2>3, RunTypes DEF TargetIsWhole
    <2>5. \A q \in Paper : ValidRow(register'[q]) /\ (register[q] # NoRow => register'[q] = register[q])
      BY <1>3, <1>7, <2>3, RunTypes DEF r
    <2> QED BY <1>5, <1>7, <2>2, <2>3, <2>4, <2>5
  <1> QED BY <1>2, <1>3, <1>4, <1>6, <1>7

LEMMA FaultKeeps == MigrationInv /\ (MigrationFault \/ MigrationCrash) => MigrationInv'
  <1> SUFFICES ASSUME MigrationInv, MigrationFault \/ MigrationCrash PROVE MigrationInv'
    OBVIOUS
  <1>1. CASE MigrationFault
    BY <1>1, FailureKeeps DEF MigrationFault
  <1>2. CASE MigrationCrash
    <2>1. mig' = NoMigration /\ UNCHANGED <<register, bucket>> /\ Migrating
      BY <1>2 DEF MigrationCrash
    <2>2. TargetIsWhole'
      BY <2>1, RunTypes DEF TargetIsWhole
    <2>3. RunKnows' /\ QuietRunCopies'
      BY <2>1, IdleRun DEF RunKnows, QuietRunCopies, Working
    <2> QED BY <2>1, <2>2, <2>3, IdleRun, RunTypes, RunMoves
  <1> QED BY <1>1, <1>2

LEMMA NextPaperKeeps ==
    ASSUME MigrationInv, NEW p \in Paper, NextPaper(p)
    PROVE  MigrationInv'
  <1>1. /\ mig.phase = "next" /\ p \in mig.todo /\ UNCHANGED <<register, bucket>> /\ Migrating
        /\ mig' = [mig EXCEPT !.phase = "read", !.paper = {p}, !.todo = mig.todo \ {p},
                              !.items = ItemsOf(p), !.existing = FALSE]
    BY DEF NextPaper
  <1>2. /\ mig' \in Migration(mig'.items, mig'.failed) /\ mig'.phase = "read" /\ mig'.paper = {p}
        /\ mig'.todo = mig.todo \ {p} /\ mig'.items = Steps(p) /\ mig'.existing = FALSE
        /\ UNCHANGED <<mig.listed, mig.dry, mig.failed>>
    BY <1>1, ListFacts, RunTypes DEF Migration, Working
  <1>3. TargetIsWhole'
    BY <1>1, RunTypes DEF TargetIsWhole
  <1>4. RunKnows'
    <2>1. ~ OriginalDealt(p)' /\ ~ RowLookedUp(p)'
      BY <1>2, ListsDiffer DEF OriginalDealt, RowLookedUp
    <2>2. \A q \in mig.todo : Shown(mig.listed[q])
      BY RunTypes DEF RunKnows
    <2> QED BY <1>1, <1>2, <2>1, <2>2 DEF RunKnows, Working
  <1>5. QuietRunCopies'
    <2>1. UNCHANGED <<box, quiet>> /\ Loaded' = Loaded /\ \A q \in Paper : FilesOf(q)' = FilesOf(q)
      BY <1>1, RunStands
    <2>2. Current = {} /\ Current' = {p}
      BY <1>1, <1>2 DEF Current, Working
    <2>3. \A q \in Paper : Accounted(q)' <=> Accounted(q)
      BY <1>1, <2>1 DEF Accounted, Copied
    <2>4. ItemsIn(mig.items)' = FilesOf(p) /\ mig.todo' \cup {p} = mig.todo
      <3>1. ItemsIn(Steps(p)) = FilesOf(p)
        BY ListFacts
      <3> QED BY <1>1, <1>2, <3>1 DEF ItemsIn
    <2>5. QuietRunCopies /\ mig.phase # "idle" /\ mig'.phase # "create" /\ mig'.phase # "ended"
      BY <1>1, <1>2, RunTypes
    <2>6. ASSUME quiet, ~ mig.dry, mig.failed = {}, NEW q \in Paper \ mig.todo, Shown(mig.listed[q])
          PROVE  Accounted(q)
      BY <2>2, <2>5, <2>6 DEF QuietRunCopies
    <2>7. quiet => mig.listed = Loaded
      BY <2>5 DEF QuietRunCopies
    <2> QED BY <1>2, <2>1, <2>2, <2>3, <2>4, <2>5, <2>6, <2>7 DEF QuietRunCopies, Working
  <1> QED BY <1>1, <1>2, <1>3, <1>4, <1>5, RunTypes, RunMoves

LEMMA HistoryRunKeeps ==
    ASSUME MigrationInv, CopyHistory
    PROVE  MigrationInv'
  <1>1. /\ mig.phase = "next" /\ mig.todo = {} /\ UNCHANGED <<register, bucket>> /\ Migrating
        /\ mig' = [mig EXCEPT !.phase = "read", !.paper = {}, !.items = <<<<"history">>>>]
    BY DEF CopyHistory
  <1>2. /\ mig' \in Migration(mig'.items, mig'.failed) /\ mig'.phase = "read" /\ mig'.paper = {}
        /\ mig'.todo = {} /\ mig'.items = History /\ UNCHANGED <<mig.listed, mig.dry, mig.failed>>
    BY <1>1, RunTypes DEF Migration, Working, History
  <1>3. TargetIsWhole' /\ RunKnows'
    BY <1>1, <1>2, RunTypes DEF TargetIsWhole, RunKnows, Working
  <1>4. QuietRunCopies'
    <2>1. UNCHANGED <<box, quiet>> /\ Loaded' = Loaded /\ \A q \in Paper : FilesOf(q)' = FilesOf(q)
      BY <1>1, RunStands
    <2>2. Current = {} /\ Current' = {}
      BY <1>1, <1>2 DEF Current, Working
    <2>3. \A q \in Paper : Accounted(q)' <=> Accounted(q)
      BY <1>1, <2>1 DEF Accounted, Copied
    <2> QED BY <1>1, <1>2, <2>1, <2>2, <2>3, RunTypes DEF QuietRunCopies, Working
  <1> QED BY <1>1, <1>2, <1>3, <1>4, RunTypes, RunMoves

LEMMA StartRunKeeps ==
    ASSUME MigrationInv, NEW dry \in BOOLEAN, StartMigration(dry)
    PROVE  MigrationInv'
  <1>1. /\ mig' = [NoMigration EXCEPT !.phase = "next", !.dry = dry, !.listed = Loaded,
                                      !.todo = {p \in Paper : Shown(Loaded[p])}]
        /\ UNCHANGED <<sheet, box, writer, issued, register, bucket, purge, edits>>
    BY DEF StartMigration, sourceVars, targetVars
  <1>2. /\ mig' \in Migration(mig'.items, mig'.failed) /\ mig'.phase = "next" /\ mig'.paper = {}
        /\ mig'.todo = {p \in Paper : Shown(Loaded[p])} /\ mig'.listed = Loaded
    BY <1>1, IdleRun, LoadedRows DEF Migration, NoMigration
  <1>3. Loaded' = Loaded
    BY <1>1 DEF Loaded
  <1>4. MigrationShape'
    BY <1>1, <1>2 DEF MigrationInv, MigrationShape
  <1>5. RowsAreValid'
    BY <1>1, <1>2, LoadedRows DEF MigrationInv, RowsAreValid
  <1>6. (\A w \in Writer : WriterKnows(w)') /\ PurgeKnows' /\ TargetIsWhole'
    BY <1>1 DEF MigrationInv, WriterKnows, PurgeKnows, TargetIsWhole
  <1>7. RowsAreSettled'
    BY <1>1, <1>2, <1>3 DEF MigrationInv, RowsAreSettled, Settled, Uploading
  <1>8. RunKnows'
    BY <1>2 DEF RunKnows, Working
  <1>9. QuietRunCopies'
    BY <1>2, <1>3 DEF QuietRunCopies, Working, Current
  <1> QED BY <1>4, <1>5, <1>6, <1>7, <1>8, <1>9 DEF MigrationInv

LEMMA RunKeeps == MigrationInv /\ RunNext => MigrationInv'
  BY StartRunKeeps, NextPaperKeeps, HistoryRunKeeps, ReadItemKeeps, FindRowKeeps, CompareItemKeeps, WriteItemKeeps,
     VerifyItemKeeps, CreateRowKeeps, FaultKeeps DEF RunNext

-----------------------------------------------------------------------------
LEMMA MigrationInvariance == MigrationSpec => []MigrationInv
  <1>1. MigrationInv /\ [MigrationNext]_migrationVars => MigrationInv'
    <2> SUFFICES ASSUME MigrationInv, [MigrationNext]_migrationVars PROVE MigrationInv'
      OBVIOUS
    <2>1. CASE MigrationNext
      BY <2>1, SourceKeeps, TargetKeeps, RunKeeps DEF MigrationNext
    <2>2. CASE UNCHANGED migrationVars
      <3>1. UNCHANGED <<sheet, box, writer, issued, register, bucket, purge, edits, mig, runs, quiet>>
        BY <2>2 DEF migrationVars, sourceVars, targetVars
      <3>2. Loaded' = Loaded
        BY <3>1 DEF Loaded
      <3>3. MigrationShape' /\ RowsAreValid' /\ (\A w \in Writer : WriterKnows(w)')
        BY <3>1 DEF MigrationInv, MigrationShape, RowsAreValid, WriterKnows
      <3>4. RowsAreSettled' /\ PurgeKnows' /\ TargetIsWhole'
        BY <3>1, <3>2 DEF MigrationInv, RowsAreSettled, Settled, Uploading, PurgeKnows, TargetIsWhole
      <3>5. RunKnows'
        BY <3>1 DEF MigrationInv, RunKnows, RowLookedUp, OriginalDealt
      <3>6. QuietRunCopies'
        BY <3>1, <3>2 DEF MigrationInv, QuietRunCopies, Current, Accounted, Copied, ItemsIn, FilesOf
      <3> QED BY <3>3, <3>4, <3>5, <3>6 DEF MigrationInv
    <2> QED BY <2>1, <2>2
  <1> QED BY MigrationInitInv, <1>1, PTL DEF MigrationSpec

LEMMA MigrationInvIsTyped == MigrationInv => MigrationTypeOK
  BY RunTypes DEF MigrationInv, MigrationShape, RowsAreValid, RunKnows, MigrationTypeOK, FileContent, Migration

LEMMA MigrationInvIsFaithful == MigrationInv => MigrationIsFaithful
  <1> SUFFICES ASSUME MigrationInv PROVE MigrationIsFaithful
    OBVIOUS
  <1>1. \A p \in Paper : Shown(register[p]) => bucket[Original(p)] = "v1" /\ register[p].checksum = "v1"
    BY RunTypes DEF TargetIsWhole
  <1>2. ASSUME mig.phase = "ended", ~ mig.dry, mig.failed = {}, quiet
        PROVE  /\ \A p \in Paper : Shown(Loaded[p]) => register[p] # NoRow
               /\ \A i \in Item : box[i] # "none" /\ (i[1] # "history" => Shown(Loaded[i[2]]))
                                     => bucket[i] = box[i]
    <2>1. /\ mig.todo = {} /\ Copied(<<"history">>) /\ Current = {}
          /\ \A p \in Paper : Shown(Loaded[p]) => Accounted(p)
      BY <1>2, RunTypes DEF QuietRunCopies, Current, Working
    <2>2. ASSUME NEW p \in Paper, NEW i \in FilesOf(p), box[i] # "none", i[1] # "history" => Shown(Loaded[i[2]])
          PROVE  bucket[i] = box[i]
      <3>1. i[1] # "history" /\ i[2] = p
        BY ItemFacts
      <3> QED BY <2>1, <2>2, <3>1 DEF Accounted, Copied
    <2>3. box[<<"history">>] # "none" => bucket[<<"history">>] = box[<<"history">>]
      BY <2>1 DEF Copied
    <2> QED BY <2>1, <2>2, <2>3, ItemFacts DEF Accounted
  <1> QED BY <1>1, <1>2 DEF MigrationIsFaithful

\* Contents, rows and the list of the run are well formed throughout.
THEOREM MigrationIsTyped == MigrationSpec => []MigrationTypeOK
  BY MigrationInvariance, MigrationInvIsTyped, PTL

\* A visible row at the target has its whole original, and a run that reports no
\* failure and was not disturbed has copied everything, whatever runs before it
\* left behind.
THEOREM MigrationAlwaysFaithful == MigrationSpec => []MigrationIsFaithful
  BY MigrationInvariance, MigrationInvIsFaithful, PTL

-----------------------------------------------------------------------------
(* The rollout of a release. *)

\* What a report says of the workers of kind k.
Vouched(k) ==
    LET g == check.generation
    IN  \/ k \in JiraKind /\ ~ JiraEnabled(Environment(g))
        \/ \E p \in WorkerProcess : KindOf[p] = k /\ running[p] = g
        \/ lastRun[k][g] >= check.since - AgeLimit

\* A heartbeat says that a worker of its generation ran when it was left: one
\* that still does, or that stopped later.
BeatIsTrue(k, b) ==
    b.generation # 0 =>
        /\ b.generation \in DOMAIN deployed /\ b.at <= ticks
        /\ \/ \E p \in WorkerProcess : KindOf[p] = k /\ running[p] = b.generation
           \/ lastRun[k][b.generation] >= b.at

\* A running check has found a worker for every kind that it is done with.
CheckKnows ==
    check.phase # "none" =>
        /\ check.generation \in DOMAIN deployed
        /\ check.since \in 0..ticks
        /\ check.todo \in Seq(Kind)
        /\ check.phase = "reported" => check.todo = <<>>
        /\ \A k \in Kind \ Members(check.todo) : Vouched(k)

CheckShape ==
    check \in [phase : {"none", "probing", "reported"}, generation : Nat, since : Nat, todo : Seq(Kind),
               ready : BOOLEAN]

ReadinessInv ==
    /\ ReadinessTypeOK /\ CheckShape
    /\ deployed \in Seq(Deployable)
    /\ \A k \in Kind, g \in 1..MaxDeployments : lastRun[k][g] <= ticks
    /\ \A k \in CriticalKind : BeatIsTrue(k, redisBeat[k])
    /\ \A p \in WorkerProcess : BeatIsTrue(KindOf[p], rowBeat[p])
    /\ CheckKnows

-----------------------------------------------------------------------------
LEMMA ReadinessConstants ==
    /\ CriticalKind \subseteq Kind /\ Members(RowOrder) \subseteq Kind /\ JiraKind \subseteq Kind
    /\ KindOf \in [WorkerProcess -> Kind]
    /\ CriticalOrder \in Seq(Kind) /\ RowOrder \in Seq(Kind) /\ ProbeOrder \in Seq(Kind)
    /\ AgeLimit \in Nat /\ Skew \in Nat /\ LastHour \in Nat /\ MaxDeployments \in Nat
    /\ Never \in Int /\ Never < 0
    /\ NoBeat \in Beats
  <1>1. CriticalKind \subseteq Kind /\ Members(RowOrder) \subseteq Kind /\ JiraKind \subseteq Kind
    BY ReadinessAssumption DEF Kind
  <1>2. CriticalOrder \in Seq(Kind) /\ RowOrder \in Seq(Kind)
    BY <1>1, ReadinessAssumption
  <1>3. ProbeOrder \in Seq(Kind)
    BY <1>2 DEF ProbeOrder
  <1>4. AgeLimit \in Nat /\ Skew \in Nat /\ LastHour \in Nat /\ MaxDeployments \in Nat
    BY ReadinessAssumption
  <1>5. Never \in Int /\ Never < 0
    BY <1>4 DEF Never
  <1>6. NoBeat \in Beats
    BY <1>4, <1>5 DEF NoBeat, Beats
  <1> QED BY <1>1, <1>2, <1>3, <1>4, <1>5, <1>6, ReadinessAssumption

\* What is known is what is typed.
LEMMA ReadinessTypes ==
    ASSUME ReadinessInv
    PROVE  /\ ticks \in 0..LastHour
           /\ deployed \in Seq(Deployable) /\ Len(deployed) \in Nat /\ Len(deployed) <= MaxDeployments
           /\ DOMAIN deployed = 1..Len(deployed)
           /\ running \in [WorkerProcess -> 0..Len(deployed)]
           /\ redisBeat \in [CriticalKind -> Beats] /\ rowBeat \in [WorkerProcess -> Beats]
           /\ lastRun \in [Kind -> [1..MaxDeployments -> {Never} \cup 0..LastHour]]
  BY DEF ReadinessInv, ReadinessTypeOK

\* The report can be given once every kind is done with.
LEMMA ReportIsTrue == ReadinessInv => ReadyIsTrue
  <1> SUFFICES ASSUME ReadinessInv, check.ready,
                      NEW k \in Kind \ (IF JiraEnabled(Environment(check.generation)) THEN {} ELSE JiraKind)
               PROVE  \/ \E p \in WorkerProcess : KindOf[p] = k /\ running[p] = check.generation
                      \/ lastRun[k][check.generation] >= check.since - AgeLimit
    BY DEF ReadyIsTrue
  <1>1. check.phase = "reported"
    BY DEF ReadinessInv, ReadinessTypeOK
  <1>2. check.todo = <<>> /\ \A j \in Kind \ Members(check.todo) : Vouched(j)
    BY <1>1 DEF ReadinessInv, CheckKnows
  <1>3. Members(<<>>) = {}
    BY DEF Members
  <1> QED BY <1>2, <1>3 DEF Vouched

LEMMA ReadinessInitInv == ReadinessInit => ReadinessInv
  <1> SUFFICES ASSUME ReadinessInit PROVE ReadinessInv
    OBVIOUS
  <1> USE DEF ReadinessInit
  <1>1. ReadinessTypeOK
    <2>1. ticks \in 0..LastHour /\ Len(deployed) = 0 /\ Members(deployed) = {}
      BY ReadinessConstants DEF Members
    <2>2. check.phase = "none" /\ check.ready = FALSE
      BY DEF NoCheck
    <2>3. running \in [WorkerProcess -> 0..0]
      OBVIOUS
    <2>4. redisBeat \in [CriticalKind -> Beats] /\ rowBeat \in [WorkerProcess -> Beats]
      BY ReadinessConstants
    <2>5. altered = <<>> /\ DOMAIN altered = {}
      OBVIOUS
    <2>6. /\ Len(deployed) <= MaxDeployments
          /\ Members(deployed) \subseteq Deployable
          /\ running \in [WorkerProcess -> 0..Len(deployed)]
      BY <2>1, <2>3, ReadinessConstants
    <2>7. template \in DOMAIN Settings /\ \A v \in DOMAIN altered : altered[v] \in Values[v]
      BY <2>5
    <2>8. check.phase \in {"none", "probing", "reported"} /\ check.ready = (check.phase = "reported")
      BY <2>2
    <2>9. lastRun \in [Kind -> [1..MaxDeployments -> {Never} \cup 0..LastHour]]
      OBVIOUS
    <2> QED BY <2>1, <2>4, <2>6, <2>7, <2>8, <2>9 DEF ReadinessTypeOK
  <1>2. \A k \in Kind, g \in 1..MaxDeployments : lastRun[k][g] <= ticks
    BY ReadinessConstants
  <1>3. \A k \in Kind : BeatIsTrue(k, NoBeat)
    BY DEF BeatIsTrue, NoBeat
  <1>4. CheckKnows
    BY DEF CheckKnows, NoCheck
  <1>5. deployed \in Seq(Deployable)
    OBVIOUS
  <1>6. CheckShape
    BY DEF CheckShape, NoCheck
  <1>7. /\ \A k \in CriticalKind : BeatIsTrue(k, redisBeat[k])
        /\ \A p \in WorkerProcess : BeatIsTrue(KindOf[p], rowBeat[p])
    BY <1>3, ReadinessConstants
  <1> QED BY <1>1, <1>2, <1>4, <1>5, <1>6, <1>7 DEF ReadinessInv

-----------------------------------------------------------------------------
\* Time goes on, workers start and stop: what was vouched for a generation at
\* some moment stays so.
LEMMA VouchersStay ==
    ASSUME ReadinessInv, ReadinessTypeOK', NEW k \in Kind, NEW g \in 1..Len(deployed), NEW at \in Int, at <= ticks,
           \/ \E p \in WorkerProcess : KindOf[p] = k /\ running[p] = g
           \/ lastRun[k][g] >= at,
           \/ running' = running /\ lastRun' = lastRun
           \/ \E p \in WorkerProcess : /\ running[p] = 0
                                       /\ \A q \in WorkerProcess \ {p} : running'[q] = running[q]
                                       /\ lastRun' = lastRun
           \/ \E p \in WorkerProcess : StopWorker(p)
    PROVE  \/ \E p \in WorkerProcess : KindOf[p] = k /\ running'[p] = g
           \/ lastRun'[k][g] >= at
  <1> USE ReadinessTypes
  <1>1. CASE running' = running /\ lastRun' = lastRun
    BY <1>1
  <1>2. ASSUME NEW p \in WorkerProcess, running[p] = 0, lastRun' = lastRun,
               \A q \in WorkerProcess \ {p} : running'[q] = running[q]
        PROVE  \/ \E q \in WorkerProcess : KindOf[q] = k /\ running'[q] = g
               \/ lastRun'[k][g] >= at
    <2>0. g # 0
      OBVIOUS
    <2>1. lastRun' = lastRun /\ \A q \in WorkerProcess : running[q] = g => running'[q] = g
      BY <1>2, <2>0
    <2>2. CASE lastRun[k][g] >= at
      BY <2>1, <2>2
    <2>3. CASE \E q \in WorkerProcess : KindOf[q] = k /\ running[q] = g
      BY <2>1, <2>3
    <2> QED BY <2>2, <2>3
  <1>3. CASE \E p \in WorkerProcess : StopWorker(p)
    <2> PICK p \in WorkerProcess : StopWorker(p)
      BY <1>3
    <2>0. running[p] \in 0..Len(deployed) /\ running[p] # 0 /\ MaxDeployments \in Nat
      BY ReadinessConstants DEF StopWorker
    <2>1. g \in 1..MaxDeployments /\ running[p] \in 1..MaxDeployments /\ KindOf[p] \in Kind
      BY <2>0, ReadinessConstants
    <2>2. /\ \A q \in WorkerProcess \ {p} : running'[q] = running[q]
          /\ lastRun'[KindOf[p]][running[p]] = ticks
          /\ (k # KindOf[p] \/ g # running[p]) => lastRun'[k][g] = lastRun[k][g]
      BY <2>1 DEF StopWorker
    <2>3. CASE k = KindOf[p] /\ g = running[p]
      BY <2>2, <2>3
    <2>4. CASE k # KindOf[p] \/ g # running[p]
      BY <2>2, <2>4
    <2> QED BY <2>3, <2>4
  <1> QED BY <1>1, <1>2, <1>3

\* A step that starts or stops a worker, or lets time pass, and leaves what was
\* deployed, changes nothing about older heartbeats and the check.
LEMMA OldNewsStays ==
    ASSUME ReadinessInv, ReadinessTypeOK', ticks <= ticks', Len(deployed) <= Len(deployed'),
           deployed' \in Seq(Deployable), \A g \in 1..Len(deployed) : deployed'[g] = deployed[g],
           \/ running' = running /\ lastRun' = lastRun
           \/ \E p \in WorkerProcess : /\ running[p] = 0
                                       /\ \A q \in WorkerProcess \ {p} : running'[q] = running[q]
                                       /\ lastRun' = lastRun
           \/ \E p \in WorkerProcess : StopWorker(p)
    PROVE  /\ \A k \in Kind, b \in Beats : BeatIsTrue(k, b) => BeatIsTrue(k, b)'
           /\ check' = check => CheckKnows'
  <1> USE ReadinessTypes
  <1>0. Len(deployed') \in Nat /\ DOMAIN deployed' = 1..Len(deployed') /\ ticks' \in Int
    BY DEF ReadinessTypeOK
  <1>1. ASSUME NEW k \in Kind, NEW b \in Beats, BeatIsTrue(k, b)
        PROVE  BeatIsTrue(k, b)'
    <2> SUFFICES ASSUME b.generation # 0 PROVE BeatIsTrue(k, b)'
      BY DEF BeatIsTrue
    <2>1. b.generation \in 1..Len(deployed) /\ b.at \in Int /\ b.at <= ticks
      BY <1>1, ReadinessConstants DEF BeatIsTrue, Beats
    <2>2. \/ \E p \in WorkerProcess : KindOf[p] = k /\ running[p] = b.generation
          \/ lastRun[k][b.generation] >= b.at
      BY <1>1 DEF BeatIsTrue
    <2>3. \/ \E p \in WorkerProcess : KindOf[p] = k /\ running'[p] = b.generation
          \/ lastRun'[k][b.generation] >= b.at
      BY <1>1, <2>1, <2>2, VouchersStay
    <2> QED BY <1>0, <2>1, <2>3 DEF BeatIsTrue
  <1>2. ASSUME check' = check PROVE CheckKnows'
    <2> SUFFICES ASSUME check.phase # "none" PROVE CheckKnows'
      BY <1>2 DEF CheckKnows
    <2>1. CheckKnows
      BY DEF ReadinessInv
    <2>2. check.generation \in 1..Len(deployed) /\ check.since \in 0..ticks
      BY <2>1 DEF CheckKnows
    <2>3. check.since - AgeLimit \in Int /\ check.since - AgeLimit <= ticks
      BY <2>2, ReadinessConstants
    <2>4. ASSUME NEW k \in Kind \ Members(check.todo) PROVE Vouched(k)'
      <3>1. Vouched(k)
        BY <2>1 DEF CheckKnows
      <3>2. Environment(check.generation)' = Environment(check.generation)
        BY <1>2, <2>2 DEF Environment
      <3>3. CASE k \in JiraKind /\ ~ JiraEnabled(Environment(check.generation))
        BY <1>2, <3>2, <3>3 DEF Vouched
      <3>4. CASE \/ \E p \in WorkerProcess : KindOf[p] = k /\ running[p] = check.generation
                 \/ lastRun[k][check.generation] >= check.since - AgeLimit
        <4>1. \/ \E p \in WorkerProcess : KindOf[p] = k /\ running'[p] = check.generation
              \/ lastRun'[k][check.generation] >= check.since - AgeLimit
          BY <2>2, <2>3, <3>4, VouchersStay
        <4> QED BY <1>2, <4>1 DEF Vouched
      <3> QED BY <3>1, <3>3, <3>4 DEF Vouched
    <2> QED BY <1>0, <1>2, <2>1, <2>2, <2>4 DEF CheckKnows
  <1> QED BY <1>1, <1>2
\* Heartbeats that are left alone stay true.
LEMMA BeatsStay ==
    ASSUME ReadinessInv, redisBeat' = redisBeat, rowBeat' = rowBeat,
           \A k \in Kind, b \in Beats : BeatIsTrue(k, b) => BeatIsTrue(k, b)'
    PROVE  /\ \A k \in CriticalKind : BeatIsTrue(k, redisBeat[k])'
           /\ \A p \in WorkerProcess : BeatIsTrue(KindOf[p], rowBeat[p])'
  <1> USE ReadinessTypes, ReadinessConstants
  <1>1. ASSUME NEW k \in CriticalKind PROVE BeatIsTrue(k, redisBeat[k])'
    <2>1. k \in Kind /\ redisBeat[k] \in Beats /\ BeatIsTrue(k, redisBeat[k])
      BY DEF ReadinessInv
    <2>2. redisBeat'[k] = redisBeat[k]
      OBVIOUS
    <2> QED BY <2>1, <2>2 DEF BeatIsTrue
  <1>2. ASSUME NEW p \in WorkerProcess PROVE BeatIsTrue(KindOf[p], rowBeat[p])'
    <2>1. KindOf[p] \in Kind /\ rowBeat[p] \in Beats /\ BeatIsTrue(KindOf[p], rowBeat[p])
      BY DEF ReadinessInv
    <2>2. rowBeat'[p] = rowBeat[p]
      OBVIOUS
    <2> QED BY <2>1, <2>2 DEF BeatIsTrue
  <1> QED BY <1>1, <1>2

-----------------------------------------------------------------------------
LEMMA WorkerStarts ==
    ASSUME ReadinessInv, NEW p \in WorkerProcess, NEW g \in 1..MaxDeployments, StartWorker(p, g)
    PROVE  ReadinessInv'
  <1> USE ReadinessTypes
  <1> DEFINE k == KindOf[p]
             beat == [generation |-> g, at |-> ticks]
  <1>1. /\ k \in Kind /\ g \in 1..Len(deployed) /\ beat \in Beats
        /\ UNCHANGED <<template, altered, deployed, ticks, rowBeat, check, lastRun>>
    BY ReadinessConstants DEF StartWorker, Beats, draftVars
  <1>2. running' = [running EXCEPT ![p] = g] /\ running[p] = 0
    BY DEF StartWorker
  <1>3. redisBeat' = redisBeat \/ (k \in CriticalKind /\ redisBeat' = [redisBeat EXCEPT ![k] = beat])
    BY DEF StartWorker
  <1>4. running' \in [WorkerProcess -> 0..Len(deployed')] /\ redisBeat' \in [CriticalKind -> Beats]
    BY <1>1, <1>2, <1>3
  <1>5. ReadinessTypeOK'
    BY <1>1, <1>4 DEF ReadinessInv, ReadinessTypeOK
  <1>6. \A q \in WorkerProcess \ {p} : running'[q] = running[q]
    BY <1>2
  <1>7. /\ \A j \in Kind, b \in Beats : BeatIsTrue(j, b) => BeatIsTrue(j, b)'
        /\ CheckKnows'
    BY <1>1, <1>2, <1>5, <1>6, OldNewsStays
  <1>8. BeatIsTrue(k, beat)'
    BY <1>1, <1>2 DEF BeatIsTrue
  <1>9. \A j \in CriticalKind : BeatIsTrue(j, redisBeat[j])'
    <2> SUFFICES ASSUME NEW j \in CriticalKind PROVE BeatIsTrue(j, redisBeat[j])'
      OBVIOUS
    <2>1. j \in Kind /\ redisBeat[j] \in Beats /\ BeatIsTrue(j, redisBeat[j])
      BY ReadinessConstants DEF ReadinessInv
    <2>2. CASE redisBeat'[j] = redisBeat[j]
      BY <1>1, <1>2, <1>7, <2>1, <2>2 DEF BeatIsTrue
    <2>3. CASE j = k /\ redisBeat'[j] = beat
      BY <1>1, <1>8, <2>3 DEF BeatIsTrue
    <2> QED BY <1>3, <2>2, <2>3
  <1>10. \A q \in WorkerProcess : BeatIsTrue(KindOf[q], rowBeat[q])'
    BY <1>1, <1>7, ReadinessConstants DEF ReadinessInv
  <1> QED BY <1>1, <1>5, <1>7, <1>9, <1>10 DEF ReadinessInv, CheckShape

LEMMA WorkerBeats ==
    ASSUME ReadinessInv, NEW p \in WorkerProcess, Beat(p)
    PROVE  ReadinessInv'
  <1> USE ReadinessTypes
  <1> DEFINE k == KindOf[p]
             beat == [generation |-> running[p], at |-> ticks]
  <1>0. running[p] \in 1..Len(deployed)
    BY DEF Beat
  <1>1. /\ k \in Kind /\ beat \in Beats
        /\ UNCHANGED <<template, altered, deployed, ticks, running, check, lastRun>>
    BY <1>0, ReadinessConstants DEF Beat, Beats, draftVars
  <1>2. /\ redisBeat' = redisBeat \/ (k \in CriticalKind /\ redisBeat' = [redisBeat EXCEPT ![k] = beat])
        /\ rowBeat' = rowBeat \/ rowBeat' = [rowBeat EXCEPT ![p] = beat]
    BY DEF Beat
  <1>3. redisBeat' \in [CriticalKind -> Beats] /\ rowBeat' \in [WorkerProcess -> Beats]
    BY <1>1, <1>2
  <1>4. ReadinessTypeOK'
    BY <1>1, <1>3 DEF ReadinessInv, ReadinessTypeOK
  <1>5. /\ \A j \in Kind, b \in Beats : BeatIsTrue(j, b) => BeatIsTrue(j, b)'
        /\ CheckKnows'
    BY <1>1, <1>4, OldNewsStays
  <1>6. BeatIsTrue(k, beat)'
    BY <1>0, <1>1 DEF BeatIsTrue
  <1>7. \A j \in CriticalKind : BeatIsTrue(j, redisBeat[j])'
    <2> SUFFICES ASSUME NEW j \in CriticalKind PROVE BeatIsTrue(j, redisBeat[j])'
      OBVIOUS
    <2>1. j \in Kind /\ redisBeat[j] \in Beats /\ BeatIsTrue(j, redisBeat[j])
      BY ReadinessConstants DEF ReadinessInv
    <2>2. CASE redisBeat'[j] = redisBeat[j]
      BY <1>1, <2>1, <2>2 DEF BeatIsTrue
    <2>3. CASE j = k /\ redisBeat'[j] = beat
      BY <1>1, <1>6, <2>3 DEF BeatIsTrue
    <2> QED BY <1>2, <2>2, <2>3
  <1>8. \A q \in WorkerProcess : BeatIsTrue(KindOf[q], rowBeat[q])'
    <2> SUFFICES ASSUME NEW q \in WorkerProcess PROVE BeatIsTrue(KindOf[q], rowBeat[q])'
      OBVIOUS
    <2>1. BeatIsTrue(KindOf[q], rowBeat[q])
      BY DEF ReadinessInv
    <2>2. CASE rowBeat'[q] = rowBeat[q]
      BY <1>1, <2>1, <2>2 DEF BeatIsTrue
    <2>3. CASE q = p /\ rowBeat'[q] = beat
      BY <1>1, <1>6, <2>3 DEF BeatIsTrue
    <2> QED BY <1>2, <2>2, <2>3
  <1> QED BY <1>1, <1>4, <1>5, <1>7, <1>8 DEF ReadinessInv, CheckShape

LEMMA WorkerStops ==
    ASSUME ReadinessInv, NEW p \in WorkerProcess, StopWorker(p)
    PROVE  ReadinessInv'
  <1> USE ReadinessTypes
  <1>1. /\ KindOf[p] \in Kind /\ running[p] \in 1..Len(deployed) /\ ticks \in Int
        /\ UNCHANGED <<template, altered, deployed, ticks, redisBeat, rowBeat, check>>
    BY ReadinessConstants DEF StopWorker, draftVars
  <1>2. /\ running' = [running EXCEPT ![p] = 0]
        /\ lastRun' = [lastRun EXCEPT ![KindOf[p]] = [lastRun[KindOf[p]] EXCEPT ![running[p]] = ticks]]
    BY DEF StopWorker
  <1>3. running' \in [WorkerProcess -> 0..Len(deployed')]
    BY <1>1, <1>2
  <1>4. lastRun' \in [Kind -> [1..MaxDeployments -> {Never} \cup 0..LastHour]]
    BY <1>1, <1>2
  <1>5. \A j \in Kind, g \in 1..MaxDeployments : lastRun'[j][g] <= ticks'
    BY <1>1, <1>2 DEF ReadinessInv
  <1>6. ReadinessTypeOK'
    BY <1>1, <1>3, <1>4 DEF ReadinessInv, ReadinessTypeOK
  <1>7. /\ \A j \in Kind, b \in Beats : BeatIsTrue(j, b) => BeatIsTrue(j, b)'
        /\ CheckKnows'
    BY <1>1, <1>6, OldNewsStays
  <1>8. /\ \A j \in CriticalKind : BeatIsTrue(j, redisBeat[j])'
        /\ \A q \in WorkerProcess : BeatIsTrue(KindOf[q], rowBeat[q])'
    BY <1>1, <1>7, BeatsStay
  <1> QED BY <1>1, <1>5, <1>6, <1>7, <1>8 DEF ReadinessInv, CheckShape

LEMMA TimePasses == ReadinessInv /\ RolloutTime => ReadinessInv'
  <1> SUFFICES ASSUME ReadinessInv, RolloutTime PROVE ReadinessInv'
    OBVIOUS
  <1> USE ReadinessTypes
  <1>1. /\ ticks' \in 0..LastHour /\ ticks <= ticks' /\ ticks' = ticks + 1
        /\ UNCHANGED <<template, altered, deployed, running, redisBeat, rowBeat, check, lastRun>>
    BY ReadinessConstants DEF RolloutTime, draftVars
  <1>2. ReadinessTypeOK'
    BY <1>1 DEF ReadinessInv, ReadinessTypeOK
  <1>3. \A j \in Kind, g \in 1..MaxDeployments : lastRun'[j][g] <= ticks'
    <2> SUFFICES ASSUME NEW j \in Kind, NEW g \in 1..MaxDeployments PROVE lastRun[j][g] <= ticks'
      BY <1>1
    <2>1. lastRun[j][g] \in Int /\ lastRun[j][g] <= ticks
      BY ReadinessConstants DEF ReadinessInv
    <2> QED BY <1>1, <2>1
  <1>4. /\ \A j \in Kind, b \in Beats : BeatIsTrue(j, b) => BeatIsTrue(j, b)'
        /\ CheckKnows'
    BY <1>1, <1>2, OldNewsStays
  <1>5. /\ \A j \in CriticalKind : BeatIsTrue(j, redisBeat[j])'
        /\ \A q \in WorkerProcess : BeatIsTrue(KindOf[q], rowBeat[q])'
    BY <1>1, <1>4, BeatsStay
  <1> QED BY <1>1, <1>2, <1>3, <1>4, <1>5 DEF ReadinessInv, CheckShape

LEMMA DeploymentKeeps ==
    ASSUME ReadinessInv, NEW name \in Deployable, Deploy(name)
    PROVE  ReadinessInv'
  <1> USE ReadinessTypes
  <1>1. /\ deployed' = Append(deployed, name) /\ Len(deployed) < MaxDeployments
        /\ UNCHANGED <<template, altered, ticks, running, redisBeat, rowBeat, check, lastRun>>
    BY DEF Deploy, draftVars
  <1>2. /\ deployed' \in Seq(Deployable) /\ Len(deployed') = Len(deployed) + 1
        /\ \A g \in 1..Len(deployed) : deployed'[g] = deployed[g]
    BY <1>1
  <1>3. Members(deployed') \subseteq Deployable
    BY <1>2 DEF Members
  <1>4. running' \in [WorkerProcess -> 0..Len(deployed')]
    <2>1. 0..Len(deployed) \subseteq 0..Len(deployed')
      BY <1>2
    <2> QED BY <1>1, <2>1
  <1>5. ReadinessTypeOK'
    BY <1>1, <1>2, <1>3, <1>4, ReadinessConstants DEF ReadinessInv, ReadinessTypeOK
  <1>6. /\ \A j \in Kind, b \in Beats : BeatIsTrue(j, b) => BeatIsTrue(j, b)'
        /\ CheckKnows'
    BY <1>1, <1>2, <1>5, OldNewsStays
  <1>7. /\ \A j \in CriticalKind : BeatIsTrue(j, redisBeat[j])'
        /\ \A q \in WorkerProcess : BeatIsTrue(KindOf[q], rowBeat[q])'
    BY <1>1, <1>6, BeatsStay
  <1> QED BY <1>1, <1>2, <1>5, <1>6, <1>7 DEF ReadinessInv, CheckShape

LEMMA EditsKeep == ReadinessInv /\ EditNext => ReadinessInv'
  <1> SUFFICES ASSUME ReadinessInv, NEW v \in DOMAIN Values, NEW value \in Values[v], Edit(v, value)
               PROVE  ReadinessInv'
    BY DEF EditNext
  <1>1. /\ altered' = [w \in DOMAIN altered \cup {v} |-> IF w = v THEN value ELSE altered[w]]
        /\ UNCHANGED <<template, deployed, ticks, running, redisBeat, rowBeat, check, lastRun>>
    BY DEF Edit, rolloutVars
  <1>2. \A w \in DOMAIN altered' : altered'[w] \in Values[w]
    BY <1>1 DEF ReadinessInv, ReadinessTypeOK
  <1>3. ReadinessTypeOK'
    BY <1>1, <1>2 DEF ReadinessInv, ReadinessTypeOK
  <1>4. CheckKnows' /\ CheckShape'
    BY <1>1 DEF ReadinessInv, CheckKnows, Vouched, Environment, CheckShape
  <1>5. /\ \A k \in CriticalKind : BeatIsTrue(k, redisBeat[k])'
        /\ \A p \in WorkerProcess : BeatIsTrue(KindOf[p], rowBeat[p])'
    BY <1>1 DEF ReadinessInv, BeatIsTrue
  <1> QED BY <1>1, <1>3, <1>4, <1>5 DEF ReadinessInv

-----------------------------------------------------------------------------
LEMMA CheckStarts ==
    ASSUME ReadinessInv, NEW g \in 1..MaxDeployments, StartCheck(g)
    PROVE  ReadinessInv'
  <1> USE ReadinessTypes
  <1>1. /\ g \in 1..Len(deployed) /\ ticks \in Int
        /\ UNCHANGED <<template, altered, deployed, ticks, running, redisBeat, rowBeat, lastRun>>
    BY DEF StartCheck, draftVars
  <1>2. \/ check' = [phase |-> "probing", generation |-> g, since |-> ticks, todo |-> ProbeOrder, ready |-> FALSE]
        \/ check' = NoCheck
    BY DEF StartCheck
  <1>3. ReadinessTypeOK'
    <2>1. /\ check'.phase \in {"none", "probing", "reported"} /\ check'.ready = (check'.phase = "reported")
      <3>1. CASE check' = NoCheck
        BY <3>1 DEF NoCheck
      <3>2. CASE check' = [phase |-> "probing", generation |-> g, since |-> ticks, todo |-> ProbeOrder,
                           ready |-> FALSE]
        BY <3>2
      <3> QED BY <1>2, <3>1, <3>2
    <2> QED BY <1>1, <2>1 DEF ReadinessInv, ReadinessTypeOK
  <1>4. Kind \subseteq Members(ProbeOrder)
    <2>1. ASSUME NEW k \in Kind PROVE k \in Members(ProbeOrder)
      <3>1. CASE \E i \in DOMAIN CriticalOrder : k = CriticalOrder[i]
        <4>1. PICK i \in 1..Len(CriticalOrder) : k = CriticalOrder[i]
          BY <3>1, ReadinessConstants
        <4>2. i \in DOMAIN ProbeOrder /\ ProbeOrder[i] = k
          BY <4>1, ReadinessConstants DEF ProbeOrder
        <4> QED BY <4>2 DEF Members
      <3>2. CASE \E i \in DOMAIN RowOrder : k = RowOrder[i]
        <4>1. PICK i \in 1..Len(RowOrder) : k = RowOrder[i]
          BY <3>2, ReadinessConstants
        <4>2. Len(CriticalOrder) + i \in DOMAIN ProbeOrder /\ ProbeOrder[Len(CriticalOrder) + i] = k
          BY <4>1, ReadinessConstants DEF ProbeOrder
        <4> QED BY <4>2 DEF Members
      <3> QED BY <3>1, <3>2 DEF Kind, CriticalKind, Members
    <2> QED BY <2>1
  <1>5. CheckKnows'
    <2>1. CASE check' = NoCheck
      BY <2>1 DEF CheckKnows, NoCheck
    <2>2. CASE check' = [phase |-> "probing", generation |-> g, since |-> ticks, todo |-> ProbeOrder, ready |-> FALSE]
      <3>1. /\ check'.phase = "probing" /\ check'.generation = g /\ check'.since = ticks
            /\ check'.todo = ProbeOrder
        BY <2>2
      <3>2. Kind \ Members(check'.todo) = {}
        BY <1>4, <3>1
      <3> QED BY <1>1, <3>1, <3>2, ReadinessConstants DEF CheckKnows
    <2> QED BY <1>2, <2>1, <2>2
  <1>6. /\ \A k \in CriticalKind : BeatIsTrue(k, redisBeat[k])'
        /\ \A p \in WorkerProcess : BeatIsTrue(KindOf[p], rowBeat[p])'
    BY <1>1 DEF ReadinessInv, BeatIsTrue
  <1>7. CheckShape'
    <2>1. ticks \in Nat /\ g \in Nat
      BY <1>1
    <2>2. CASE check' = NoCheck
      BY <2>2 DEF CheckShape, NoCheck
    <2>3. CASE check' = [phase |-> "probing", generation |-> g, since |-> ticks, todo |-> ProbeOrder,
                         ready |-> FALSE]
      BY <2>1, <2>3, ReadinessConstants DEF CheckShape
    <2> QED BY <1>2, <2>2, <2>3
  <1> QED BY <1>1, <1>3, <1>5, <1>6, <1>7 DEF ReadinessInv

\* A heartbeat that counts for the check vouches for the workers of its kind.
LEMMA RecentVouches ==
    ASSUME ReadinessInv, check.phase = "probing", NEW k \in Kind, NEW b \in Beats, BeatIsTrue(k, b), Recent(b)
    PROVE  Vouched(k)
  <1> USE ReadinessTypes
  <1>1. check.generation \in 1..Len(deployed) /\ check.since \in 0..ticks
    BY DEF ReadinessInv, CheckKnows
  <1>2. b.generation = check.generation /\ check.since - b.at <= AgeLimit /\ b.at \in Int
    BY ReadinessConstants DEF Recent, Beats
  <1>3. \/ \E p \in WorkerProcess : KindOf[p] = k /\ running[p] = check.generation
        \/ lastRun[k][check.generation] >= b.at
    BY <1>1, <1>2 DEF BeatIsTrue
  <1>4. lastRun[k][check.generation] \in Int /\ AgeLimit \in Int /\ check.since \in Int
    BY <1>1, ReadinessConstants
  <1>5. lastRun[k][check.generation] >= b.at => lastRun[k][check.generation] >= check.since - AgeLimit
    BY <1>2, <1>4
  <1> QED BY <1>3, <1>5 DEF Vouched

LEMMA RestAndHead ==
    ASSUME NEW s \in Seq(Kind), s # <<>>
    PROVE  Members(s) \subseteq Members(Tail(s)) \cup {Head(s)}
  <1> SUFFICES ASSUME NEW i \in 1..Len(s), i # 1 PROVE s[i] \in Members(Tail(s))
    BY DEF Members
  <1>1. i - 1 \in DOMAIN Tail(s) /\ Tail(s)[i - 1] = s[i]
    OBVIOUS
  <1> QED BY <1>1 DEF Members

LEMMA ProbeKeeps == ReadinessInv /\ ProbePasses => ReadinessInv'
  <1> SUFFICES ASSUME ReadinessInv, ProbePasses PROVE ReadinessInv'
    OBVIOUS
  <1> USE ReadinessTypes
  <1>1. /\ check.phase = "probing" /\ MayPass(Head(check.todo), Environment(check.generation))
        /\ UNCHANGED <<template, altered, deployed, ticks, running, redisBeat, rowBeat, lastRun>>
    BY DEF ProbePasses, draftVars
  <1>2. /\ check.generation \in 1..Len(deployed) /\ check.since \in 0..ticks /\ check.todo \in Seq(Kind)
        /\ \A k \in Kind \ Members(check.todo) : Vouched(k)
    BY <1>1 DEF ReadinessInv, CheckKnows
  <1>3. ASSUME check.todo # <<>> PROVE Vouched(Head(check.todo))
    <2> DEFINE k == Head(check.todo)
    <2>1. k \in Kind
      BY <1>2, <1>3
    <2>2. CASE k \in CriticalKind /\ Recent(redisBeat[k])
      BY <1>1, <2>1, <2>2, RecentVouches DEF ReadinessInv
    <2>3. CASE \E p \in Latest(k) : Recent(rowBeat[p])
      <3>1. PICK p \in WorkerProcess : KindOf[p] = k /\ Recent(rowBeat[p])
        BY <2>3 DEF Latest
      <3> QED BY <1>1, <2>1, <3>1, RecentVouches DEF ReadinessInv
    <2>4. CASE k \in JiraKind /\ ~ JiraEnabled(Environment(check.generation))
      BY <2>4 DEF Vouched
    <2> QED BY <1>1, <2>2, <2>3, <2>4 DEF MayPass
  <1>4. PICK rest \in Seq(Kind) :
            /\ check'.todo = rest
            /\ check'.phase = "probing" \/ (check'.phase = "reported" /\ rest = <<>>)
            /\ check'.ready = (check'.phase = "reported")
            /\ check'.generation = check.generation /\ check'.since = check.since
            /\ Members(check.todo) \subseteq Members(rest) \cup {Head(check.todo)}
    <2>0. check.ready = FALSE
      BY <1>1 DEF ReadinessInv, ReadinessTypeOK
    <2>1. CASE Len(check.todo) > 1
      <3>1. check' = [check EXCEPT !.todo = Tail(@)] /\ check.todo # <<>>
        BY <1>2, <2>1 DEF ProbePasses
      <3>2. Tail(check.todo) \in Seq(Kind)
        BY <1>2, <3>1
      <3>3. Members(check.todo) \subseteq Members(Tail(check.todo)) \cup {Head(check.todo)}
        BY <1>2, <3>1, RestAndHead
      <3>4. /\ check'.todo = Tail(check.todo) /\ check'.phase = "probing" /\ check'.ready = FALSE
            /\ check'.generation = check.generation /\ check'.since = check.since
        BY <1>1, <2>0, <3>1 DEF ReadinessInv, CheckShape
      <3> QED BY <3>2, <3>3, <3>4
    <2>2. CASE ~ Len(check.todo) > 1
      <3>1. check' = [check EXCEPT !.todo = <<>>, !.phase = "reported", !.ready = TRUE]
        BY <1>2, <2>2 DEF ProbePasses
      <3>2. Members(check.todo) \subseteq {Head(check.todo)}
        BY <1>2, <2>2 DEF Members
      <3>4. /\ check'.todo = <<>> /\ check'.phase = "reported" /\ check'.ready = TRUE
            /\ check'.generation = check.generation /\ check'.since = check.since
        BY <1>1, <3>1 DEF ReadinessInv, CheckShape
      <3>5. <<>> \in Seq(Kind) /\ Members(<<>>) = {}
        BY DEF Members
      <3> QED BY <3>2, <3>4, <3>5
    <2> QED BY <2>1, <2>2
  <1>5. ReadinessTypeOK'
    BY <1>1, <1>4 DEF ReadinessInv, ReadinessTypeOK
  <1>6. ASSUME NEW k \in Kind \ Members(rest) PROVE Vouched(k)
    <2>1. CASE k \in Members(check.todo)
      <3>0. Members(<<>>) = {}
        BY DEF Members
      <3>1. k = Head(check.todo) /\ check.todo # <<>>
        BY <1>4, <2>1, <3>0
      <3> QED BY <1>3, <3>1
    <2> QED BY <1>2, <2>1
  <1>7. CheckKnows'
    BY <1>1, <1>2, <1>4, <1>6 DEF CheckKnows, Vouched, Environment
  <1>8. /\ \A k \in CriticalKind : BeatIsTrue(k, redisBeat[k])'
        /\ \A p \in WorkerProcess : BeatIsTrue(KindOf[p], rowBeat[p])'
    BY <1>1 DEF ReadinessInv, BeatIsTrue
  <1>9. CheckShape'
    <2>1. check \in [phase : {"none", "probing", "reported"}, generation : Nat, since : Nat, todo : Seq(Kind),
                     ready : BOOLEAN]
      BY DEF ReadinessInv, CheckShape
    <2>2. \/ check' = [check EXCEPT !.todo = Tail(@)]
          \/ check' = [check EXCEPT !.todo = <<>>, !.phase = "reported", !.ready = TRUE]
      BY DEF ProbePasses
    <2> QED BY <1>4, <2>1, <2>2 DEF CheckShape
  <1> QED BY <1>1, <1>5, <1>7, <1>8, <1>9 DEF ReadinessInv

LEMMA CheckEnds == ReadinessInv /\ ProbeFails => ReadinessInv'
  <1> SUFFICES ASSUME ReadinessInv, ProbeFails PROVE ReadinessInv'
    OBVIOUS
  <1>1. /\ check' = NoCheck
        /\ UNCHANGED <<template, altered, deployed, ticks, running, redisBeat, rowBeat, lastRun>>
    BY DEF ProbeFails, draftVars
  <1>2. ReadinessTypeOK'
    BY <1>1 DEF ReadinessInv, ReadinessTypeOK, NoCheck
  <1>3. CheckKnows'
    BY <1>1 DEF CheckKnows, NoCheck
  <1>4. /\ \A k \in CriticalKind : BeatIsTrue(k, redisBeat[k])'
        /\ \A p \in WorkerProcess : BeatIsTrue(KindOf[p], rowBeat[p])'
    BY <1>1 DEF ReadinessInv, BeatIsTrue
  <1>5. CheckShape'
    BY <1>1 DEF CheckShape, NoCheck
  <1> QED BY <1>1, <1>2, <1>3, <1>4, <1>5 DEF ReadinessInv

LEMMA ReadinessInvariance == ReadinessSpec => []ReadinessInv
  <1>1. ReadinessInv /\ [ReadinessNext]_readinessVars => ReadinessInv'
    <2> SUFFICES ASSUME ReadinessInv, [ReadinessNext]_readinessVars PROVE ReadinessInv'
      OBVIOUS
    <2>1. CASE EditNext
      BY <2>1, EditsKeep
    <2>2. CASE RolloutNext
      BY <2>2, DeploymentKeeps, WorkerStarts, WorkerBeats, WorkerStops, TimePasses, CheckStarts, ProbeKeeps, CheckEnds
         DEF RolloutNext
    <2>3. CASE UNCHANGED readinessVars
      BY <2>3 DEF readinessVars, draftVars, rolloutVars, ReadinessInv, ReadinessTypeOK, BeatIsTrue, CheckKnows,
         Vouched, Environment, CheckShape
    <2> QED BY <2>1, <2>2, <2>3 DEF ReadinessNext
  <1> QED BY <1>1, ReadinessInitInv, PTL DEF ReadinessSpec

\* Configurations, heartbeats, rows and the report in the making are well formed.
THEOREM ReadinessIsTyped == ReadinessSpec => []ReadinessTypeOK
  <1>1. ReadinessInv => ReadinessTypeOK
    BY DEF ReadinessInv
  <1> QED BY <1>1, ReadinessInvariance, PTL

LEMMA AcceptedStarts == CheckedStarts
  <1> DEFINE e == Draft
  <1> SUFFICES ASSUME (Production(e) /\ ProductionAccepts(e)) \/ (e.mode = "managed" /\ StagingAccepts(e))
               PROVE  /\ ServicesBuild(e) /\ SharedServices(e)
                      /\ WorkerLoads(e) => DocumentsHealthy(e, Part)
                      /\ \A p \in {"postgresql", "redis", "s3", "ocr", RagConfiguration(e).answer} :
                            ~ DocumentsHealthy(e, Part \ {p})
    BY DEF CheckedStarts
  <1> HIDE DEF e
  <1>1. DocumentsLoad(e) /\ RagLoads(e) /\ e.redis = "tls"
    BY DEF ProductionAccepts, StagingAccepts, PlacesFit
  <1>2. SharedServices(e)
    <2>1. CASE Production(e)
      BY <1>1, <2>1 DEF DocumentsLoad, RagLoads, RagFitsProduction, SharedServices
    <2>2. CASE e.mode = "managed" /\ StagingAccepts(e)
      BY <2>2 DEF StagingAccepts
    <2> QED BY <2>1, <2>2
  <1>3. ServicesBuild(e)
    BY <1>1 DEF ServicesBuild
  <1> DEFINE c == DocumentConfiguration(e)
             r == RagConfiguration(e)
  <1>4. /\ c.storage = "s3" /\ c.metadata = "postgresql" /\ c.queue = "external"
        /\ c.ocr = "local" /\ c.ocrRequired = "true"
    BY <1>2 DEF SharedServices, SharedDocuments
  <1>5. /\ r.embedding \in Real /\ r.answer \in Real /\ r.vector = "pgvector" /\ r.queue = "redis"
        /\ r.required = "true"
    BY <1>2 DEF SharedServices
  <1> HIDE DEF c, r
  <1>6. WorkerLoads(e) => DocumentsHealthy(e, Part)
    BY <1>3, <1>4, <1>5 DEF DocumentsHealthy, VectorsHealthy, Answers, Backing, Part, Real, c, r
  <1>7. \A p \in {"postgresql", "redis", "s3", "ocr", r.answer} : ~ DocumentsHealthy(e, Part \ {p})
    BY <1>3, <1>4, <1>5 DEF DocumentsHealthy, VectorsHealthy, Answers, Backing, Part, Real, c, r
  <1> QED BY <1>2, <1>3, <1>6, <1>7 DEF r

\* An environment the checks accept builds the services that processes share and
\* needs every part of the documents, and a deployment reported as ready had, for
\* every kind of worker it needs, one of its own that was running when the check
\* began or shortly before.
THEOREM DeployedAlwaysAsChecked == ReadinessSpec => []DeployedAsChecked
  <1>1. ReadinessInv => DeployedAsChecked
    BY AcceptedStarts, ReportIsTrue DEF DeployedAsChecked
  <1> QED BY <1>1, ReadinessInvariance, PTL

-----------------------------------------------------------------------------
(* Backups. *)

\* What is certain of a run of the database script.
DumpKnows(r) ==
    LET j == dump[r]
        sum == [content |-> j.content, key |-> j.key]
    IN  Active(j) =>
            /\ j.phase \in {"archived", "described", "complete"} => archive[j.stamp] = sum
            /\ j.phase \in {"described", "complete"} => manifest[j.stamp] = sum
            /\ j.stamp \notin shared =>
                  /\ j.database \in Served => j.content \in j.since..writes[j.database]
                  /\ j.phase = "dumped" => plaintext[j.stamp] = j.content
                  /\ j.phase = "complete" => plaintext[j.stamp] = Absent

\* Two runs at once under one name are noted.
NamesKept ==
    \A q, r \in Backup : Active(dump[q]) /\ Active(dump[r]) /\ dump[q].stamp = dump[r].stamp =>
        q = r \/ dump[q].stamp \in shared

\* No rehearsal touches a database the application uses.
ServedIsUntouched == \A d \in Served : database[d] = writes[d]

DumpInv ==
    /\ DumpTypeOK
    /\ RecordedIsRestorable /\ ClearTextGoes /\ ServedIsUntouched
    /\ NamesKept /\ \A r \in Backup : DumpKnows(r)

-----------------------------------------------------------------------------
\* Nothing is no content of a dump, and a run that is active has all it needs.
LEMMA DumpIsActive ==
    ASSUME DumpTypeOK, NEW r \in Backup
    PROVE  Active(dump[r]) <=> dump[r] \in Dump
  BY DEF DumpTypeOK, Dump, Active, Unstarted, Ended

LEMMA SumIsNoFile ==
    ASSUME NEW x \in Taken, NEW k \in SecretKey
    PROVE  [content |-> x, key |-> k] # NoFile
  BY DEF Taken, NoFile, Absent, Broken

\* What a step of run r, which has files under the name s, leaves to the others
\* and to the records: archives and manifests are never overwritten, and a run
\* with the same name is noted.
LEMMA OthersKnow ==
    ASSUME DumpInv, NEW r \in Backup, NEW s \in Stamp,
           \A q \in Backup \ {r} :
               /\ dump'[q] = dump[q]
               /\ Active(dump[q]) /\ dump[q].stamp = s => s \in shared',
           shared \subseteq shared',
           \A t \in Stamp \ {s} : plaintext'[t] = plaintext[t],
           \A t \in Stamp : /\ archive[t] # NoFile => archive'[t] = archive[t]
                            /\ manifest[t] # NoFile => manifest'[t] = manifest[t],
           writes' = writes
    PROVE  /\ \A q \in Backup \ {r} : DumpKnows(q)'
           /\ \A b \in recorded :
                 /\ archive'[b.stamp] = b.checksum /\ manifest'[b.stamp] = b.checksum
                 /\ b.database \in Served /\ b.stamp \notin shared' => b.checksum.content \in b.since..b.until
  <1>1. ASSUME NEW q \in Backup \ {r} PROVE DumpKnows(q)'
    <2> DEFINE j == dump[q]
               sum == [content |-> j.content, key |-> j.key]
    <2> SUFFICES ASSUME Active(j) PROVE DumpKnows(q)'
      BY DEF DumpKnows
    <2>1. j \in Dump /\ j.stamp \in Stamp /\ j.content \in Taken /\ j.key \in SecretKey
      BY DumpIsActive DEF DumpInv, Dump
    <2>2. sum # NoFile
      BY <2>1, SumIsNoFile
    <2>3. DumpKnows(q)
      BY DEF DumpInv
    <2> HIDE DEF sum
    <2>4. j.phase \in {"archived", "described", "complete"} => archive'[j.stamp] = sum
      BY <2>1, <2>2, <2>3 DEF DumpKnows, sum
    <2>5. j.phase \in {"described", "complete"} => manifest'[j.stamp] = sum
      BY <2>1, <2>2, <2>3 DEF DumpKnows, sum
    <2>6. j.stamp \notin shared' => j.stamp # s /\ j.stamp \notin shared
      OBVIOUS
    <2> QED BY <2>1, <2>3, <2>4, <2>5, <2>6 DEF DumpKnows, sum
  <1>2. ASSUME NEW b \in recorded
        PROVE  /\ archive'[b.stamp] = b.checksum /\ manifest'[b.stamp] = b.checksum
               /\ b.database \in Served /\ b.stamp \notin shared' => b.checksum.content \in b.since..b.until
    <2>1. b.stamp \in Stamp /\ b.checksum \in [content : Taken, key : SecretKey]
      BY DEF DumpInv, DumpTypeOK, Record
    <2>2. b.checksum # NoFile
      BY <2>1 DEF Taken, NoFile, Absent, Broken
    <2>3. /\ archive[b.stamp] = b.checksum /\ manifest[b.stamp] = b.checksum
          /\ b.database \in Served /\ b.stamp \notin shared => b.checksum.content \in b.since..b.until
      BY DEF DumpInv, RecordedIsRestorable
    <2> QED BY <2>1, <2>2, <2>3
  <1> QED BY <1>1, <1>2

\* A run that goes on keeps its name, database and key, and no other run has
\* its name without that being noted.
LEMMA RunGoesOn ==
    ASSUME DumpInv, NEW r \in Backup, dump[r] \in Dump, NEW new \in Dump,
           new.stamp = dump[r].stamp, dump' = [dump EXCEPT ![r] = new], shared' = shared
    PROVE  /\ NamesKept'
           /\ \A q \in Backup \ {r} :
                 /\ dump'[q] = dump[q]
                 /\ Active(dump[q]) /\ dump[q].stamp = new.stamp => new.stamp \in shared'
  <1>1. Active(dump[r])
    BY DumpIsActive DEF DumpInv
  <1>2. dump'[r] = new /\ \A q \in Backup \ {r} : dump'[q] = dump[q]
    BY DEF DumpInv, DumpTypeOK
  <1>3. \A q \in Backup \ {r} : Active(dump[q]) /\ dump[q].stamp = new.stamp => new.stamp \in shared'
    BY <1>1 DEF DumpInv, NamesKept
  <1>4. NamesKept'
    BY <1>1, <1>2, <1>3 DEF DumpInv, NamesKept
  <1> QED BY <1>2, <1>3, <1>4

\* A run that ends leaves the names of the others.
LEMMA RunEnds ==
    ASSUME DumpInv, NEW r \in Backup, dump[r] \in Dump, dump' = [dump EXCEPT ![r] = Ended],
           shared' = shared
    PROVE  /\ NamesKept' /\ ~ Active(dump'[r]) /\ DumpKnows(r)'
           /\ \A q \in Backup \ {r} :
                 /\ dump'[q] = dump[q]
                 /\ Active(dump[q]) /\ dump[q].stamp = dump[r].stamp => dump[r].stamp \in shared'
  <1>1. Active(dump[r])
    BY DumpIsActive DEF DumpInv
  <1>2. dump'[r] = Ended /\ \A q \in Backup \ {r} : dump'[q] = dump[q]
    BY DEF DumpInv, DumpTypeOK
  <1>3. ~ Active(Ended)
    BY DEF Active, Ended
  <1>4. \A q \in Backup \ {r} : Active(dump[q]) /\ dump[q].stamp = dump[r].stamp => dump[r].stamp \in shared'
    BY <1>1 DEF DumpInv, NamesKept
  <1>5. NamesKept'
    BY <1>2, <1>3 DEF DumpInv, NamesKept
  <1> QED BY <1>2, <1>3, <1>4, <1>5 DEF DumpKnows

\* The dumps in the clear have their runs, if the one that r works with has.
LEMMA ClearTextElsewhere ==
    ASSUME DumpInv, NEW r \in Backup, NEW s \in Stamp,
           \A q \in Backup \ {r} : dump'[q] = dump[q],
           \A t \in Stamp \ {s} : plaintext'[t] = plaintext[t],
           shared \subseteq shared', killed \subseteq killed',
           Active(dump[r]) => dump[r].stamp = s,
           s \notin killed' \cup shared' /\ plaintext'[s] # Absent =>
               Active(dump'[r]) /\ dump'[r].stamp = s
    PROVE  ClearTextGoes'
  <1> SUFFICES ASSUME NEW t \in Stamp \ (killed' \cup shared'), plaintext'[t] # Absent
               PROVE  \E q \in Backup : Active(dump'[q]) /\ dump'[q].stamp = t
    BY DEF ClearTextGoes
  <1>1. CASE t = s
    BY <1>1
  <1>2. CASE t # s
    <2>1. t \in Stamp \ (killed \cup shared) /\ plaintext[t] # Absent
      BY <1>2
    <2>2. PICK q \in Backup : Active(dump[q]) /\ dump[q].stamp = t
      BY <2>1 DEF DumpInv, ClearTextGoes
    <2>3. q # r
      BY <1>2, <2>2
    <2> QED BY <2>2, <2>3
  <1> QED BY <1>1, <1>2

\* The application's writes keep the invariant.
LEMMA WriteKeeps ==
    ASSUME DumpInv, NEW d \in Database, Write(d)
    PROVE  DumpInv'
  <1> USE BackupAssumption DEF DumpInv, Write
  <1>1. /\ writes' \in [Database -> 0..MaxWrites]
        /\ \A c \in Database : writes[c] <= writes'[c]
    BY DEF DumpTypeOK
  <1>2. ServedIsUntouched'
    BY DEF DumpTypeOK, ServedIsUntouched, Served
  <1>3. database' \in [Database -> Taken]
    <2>1. database[d] = writes[d]
      BY DEF ServedIsUntouched
    <2> QED BY <2>1 DEF DumpTypeOK, Taken
  <1>4. DumpTypeOK'
    BY <1>1, <1>3 DEF DumpTypeOK
  <1>5. ASSUME NEW r \in Backup PROVE DumpKnows(r)'
    <2> SUFFICES ASSUME Active(dump[r]) PROVE DumpKnows(r)'
      BY DEF DumpKnows
    <2>1. dump[r] \in Dump /\ dump[r].database \in Database
      BY DumpIsActive DEF Dump, Served
    <2>2. dump[r].content \in dump[r].since..writes[dump[r].database] =>
              dump[r].content \in dump[r].since..writes'[dump[r].database]
      BY <1>1, <2>1 DEF DumpTypeOK, Dump
    <2> QED BY <2>2 DEF DumpKnows
  <1>6. RecordedIsRestorable' /\ ClearTextGoes' /\ NamesKept'
    BY DEF RecordedIsRestorable, ClearTextGoes, NamesKept
  <1> QED BY <1>2, <1>4, <1>5, <1>6

\* The start of a run keeps the invariant: what it dumps of the application's
\* database is what the application has written.
LEMMA StartKeeps ==
    ASSUME DumpInv, NEW r \in Backup, NEW d \in Database, NEW s \in Stamp, NEW k \in SecretKey,
           NEW c \in BOOLEAN, NEW e \in BOOLEAN, StartBackup(r, d, s, k, c, e)
    PROVE  DumpInv'
  <1> USE BackupAssumption DEF DumpInv
  <1> DEFINE new == [phase |-> "dumping", stamp |-> s, key |-> k, since |-> writes[d],
                     database |-> d, content |-> database[d]]
  <1>1. /\ writes[d] \in 0..MaxWrites /\ database[d] \in Taken
        /\ d \in Served => database[d] = writes[d]
    BY DEF DumpTypeOK, ServedIsUntouched
  <1>2. /\ new \in Dump /\ Active(new) /\ new.stamp = s /\ new.phase = "dumping"
        /\ new.database \in Served => new.content \in new.since..writes[new.database]
    BY <1>1 DEF Dump, Active
  <1>3. dump' = [dump EXCEPT ![r] = new] /\ ~ Active(dump[r])
    BY DEF StartBackup, Active
  <1> HIDE DEF new
  <1>4. dump'[r] = new /\ \A q \in Backup \ {r} : dump'[q] = dump[q]
    BY <1>3 DEF DumpTypeOK
  <1>5. /\ shared \subseteq shared' /\ shared' \subseteq Stamp
        /\ \A q \in Backup \ {r} : Active(dump[q]) /\ dump[q].stamp = s => s \in shared'
    BY DEF StartBackup, DumpTypeOK
  <1>6. /\ plaintext' = [plaintext EXCEPT ![s] = Broken]
        /\ UNCHANGED <<database, writes, archive, manifest, recorded, killed, rehearsal>>
    BY DEF StartBackup
  <1>7. DumpTypeOK'
    BY <1>2, <1>3, <1>5, <1>6 DEF DumpTypeOK, Content
  <1>8. \A t \in Stamp \ {s} : plaintext'[t] = plaintext[t]
    BY <1>6 DEF DumpTypeOK
  <1>9. (\A q \in Backup \ {r} : DumpKnows(q)') /\ RecordedIsRestorable'
    BY <1>4, <1>5, <1>6, <1>8, OthersKnow DEF RecordedIsRestorable
  <1>10. DumpKnows(r)'
    BY <1>2, <1>4, <1>6 DEF DumpKnows
  <1>11. ClearTextGoes'
    BY <1>2, <1>3, <1>4, <1>5, <1>6, <1>8, ClearTextElsewhere
  <1>12. NamesKept'
    BY <1>2, <1>4, <1>5 DEF NamesKept
  <1>13. ServedIsUntouched'
    BY <1>6 DEF ServedIsUntouched
  <1> QED BY <1>7, <1>9, <1>10, <1>11, <1>12, <1>13

\* A step of a run that goes on keeps the invariant, if what is certain of the
\* run itself holds after it.
LEMMA StepKeeps ==
    ASSUME DumpInv, NEW r \in Backup, dump[r] \in Dump, NEW new \in Dump,
           new.stamp = dump[r].stamp, dump' = [dump EXCEPT ![r] = new],
           UNCHANGED <<database, writes, recorded, shared, killed, rehearsal>>,
           plaintext' \in [Stamp -> Content],
           archive' \in [Stamp -> File], manifest' \in [Stamp -> File],
           \A t \in Stamp \ {new.stamp} : plaintext'[t] = plaintext[t],
           \A t \in Stamp : /\ archive[t] # NoFile => archive'[t] = archive[t]
                            /\ manifest[t] # NoFile => manifest'[t] = manifest[t],
           DumpKnows(r)'
    PROVE  DumpInv'
  <1> USE DEF DumpInv
  <1>1. new.stamp \in Stamp
    BY DEF Dump
  <1>2. DumpTypeOK'
    BY DEF DumpTypeOK
  <1>3. /\ NamesKept'
        /\ \A q \in Backup \ {r} :
              /\ dump'[q] = dump[q]
              /\ Active(dump[q]) /\ dump[q].stamp = new.stamp => new.stamp \in shared'
    BY RunGoesOn
  <1>4. (\A q \in Backup \ {r} : DumpKnows(q)') /\ RecordedIsRestorable'
    BY <1>1, <1>3, OthersKnow DEF RecordedIsRestorable
  <1>5. dump'[r] = new /\ Active(new)
    BY DEF DumpTypeOK, Active, Dump
  <1>6. ClearTextGoes'
    BY <1>1, <1>3, <1>5, ClearTextElsewhere
  <1>7. ServedIsUntouched'
    BY DEF ServedIsUntouched
  <1> QED BY <1>2, <1>3, <1>4, <1>6, <1>7

\* The end of the dump keeps the invariant.
LEMMA DumpedKeeps ==
    ASSUME DumpInv, NEW r \in Backup, Dumped(r)
    PROVE  DumpInv'
  <1> DEFINE j == dump[r]
             new == [j EXCEPT !.phase = "dumped"]
  <1>1. j \in Dump /\ j.phase = "dumping"
    BY DEF Dumped, Proceeds, DumpInv, DumpTypeOK, Unstarted, Ended
  <1>2. /\ new \in Dump /\ new.phase = "dumped" /\ Active(j)
        /\ new.stamp = j.stamp /\ new.content = j.content /\ new.since = j.since
        /\ new.database = j.database
    BY <1>1 DEF Dump, Active
  <1>3. dump' = [dump EXCEPT ![r] = new]
    BY DEF Dumped, Proceeds
  <1> HIDE DEF new
  <1>4. dump'[r] = new
    BY <1>3 DEF DumpInv, DumpTypeOK
  <1>5. /\ plaintext' = [plaintext EXCEPT ![j.stamp] = j.content]
        /\ UNCHANGED <<database, writes, archive, manifest, recorded, shared, killed, rehearsal>>
    BY DEF Dumped
  <1>6. plaintext' \in [Stamp -> Content] /\ plaintext'[j.stamp] = j.content
    BY <1>1, <1>5 DEF DumpInv, DumpTypeOK, Dump, Content, Taken
  <1>7. \A t \in Stamp \ {j.stamp} : plaintext'[t] = plaintext[t]
    BY <1>5 DEF DumpInv, DumpTypeOK
  <1>8. DumpKnows(r)'
    BY <1>2, <1>4, <1>5, <1>6 DEF DumpInv, DumpKnows
  <1> QED BY <1>1, <1>2, <1>3, <1>5, <1>6, <1>7, <1>8, StepKeeps DEF DumpInv, DumpTypeOK

\* Reading the dump keeps the invariant: if no other run had the name, what is
\* read is what was dumped.
LEMMA ReadKeeps ==
    ASSUME DumpInv, NEW r \in Backup, ReadDump(r)
    PROVE  DumpInv'
  <1> DEFINE j == dump[r]
             read == plaintext[j.stamp]
             new == [j EXCEPT !.phase = "read", !.content = read]
  <1>1. j \in Dump /\ j.phase = "dumped" /\ read # Absent
    BY DEF ReadDump, DumpInv, DumpTypeOK, Unstarted, Ended
  <1>2. read \in Taken
    BY <1>1 DEF DumpInv, DumpTypeOK, Dump, Content, Taken
  <1>3. /\ new \in Dump /\ new.phase = "read" /\ Active(j)
        /\ new.stamp = j.stamp /\ new.content = read /\ new.since = j.since
        /\ new.database = j.database
    BY <1>1, <1>2 DEF Dump, Active
  <1>4. dump' = [dump EXCEPT ![r] = new]
    BY <1>1 DEF ReadDump, DumpInv, DumpTypeOK, Dump
  <1>5. UNCHANGED <<database, writes, plaintext, archive, manifest, recorded, shared, killed, rehearsal>>
    BY DEF ReadDump
  <1> HIDE DEF new
  <1>6. dump'[r] = new
    BY <1>4 DEF DumpInv, DumpTypeOK
  <1>7. DumpKnows(r)'
    BY <1>1, <1>3, <1>5, <1>6 DEF DumpInv, DumpKnows
  <1> QED BY <1>1, <1>3, <1>4, <1>5, <1>7, StepKeeps DEF DumpInv, DumpTypeOK

\* Writing the archive keeps the invariant.
LEMMA ArchiveKeeps ==
    ASSUME DumpInv, NEW r \in Backup, WriteArchive(r)
    PROVE  DumpInv'
  <1> DEFINE j == dump[r]
             new == [j EXCEPT !.phase = "archived"]
             sum == [content |-> j.content, key |-> j.key]
  <1>1. j \in Dump /\ j.phase = "read" /\ j.stamp \in Stamp
    BY DEF WriteArchive, Proceeds, DumpInv, DumpTypeOK, Unstarted, Ended, Dump
  <1>2. /\ new \in Dump /\ new.phase = "archived" /\ Active(j)
        /\ new.stamp = j.stamp /\ new.content = j.content /\ new.key = j.key
        /\ new.since = j.since /\ new.database = j.database
    BY <1>1 DEF Dump, Active
  <1>3. dump' = [dump EXCEPT ![r] = new]
    BY DEF WriteArchive, Proceeds
  <1>4. sum \in File
    BY <1>1 DEF Dump, File
  <1>5. /\ archive[j.stamp] = NoFile /\ archive' = [archive EXCEPT ![j.stamp] = sum]
        /\ UNCHANGED <<database, writes, plaintext, manifest, recorded, shared, killed, rehearsal>>
    BY DEF WriteArchive
  <1> HIDE DEF new, sum
  <1>6. dump'[r] = new
    BY <1>3 DEF DumpInv, DumpTypeOK
  <1>7. /\ archive' \in [Stamp -> File] /\ archive'[j.stamp] = sum
        /\ \A t \in Stamp : archive[t] # NoFile => archive'[t] = archive[t]
    BY <1>1, <1>4, <1>5 DEF DumpInv, DumpTypeOK
  <1>8. DumpKnows(r)'
    BY <1>2, <1>5, <1>6, <1>7 DEF DumpInv, DumpKnows, sum
  <1> QED BY <1>1, <1>2, <1>3, <1>5, <1>7, <1>8, StepKeeps DEF DumpInv, DumpTypeOK

\* Writing the manifest keeps the invariant.
LEMMA ManifestKeeps ==
    ASSUME DumpInv, NEW r \in Backup, WriteManifest(r)
    PROVE  DumpInv'
  <1> DEFINE j == dump[r]
             new == [j EXCEPT !.phase = "described"]
             sum == [content |-> j.content, key |-> j.key]
  <1>1. j \in Dump /\ j.phase = "archived" /\ j.stamp \in Stamp
    BY DEF WriteManifest, Proceeds, DumpInv, DumpTypeOK, Unstarted, Ended, Dump
  <1>2. /\ new \in Dump /\ new.phase = "described" /\ Active(j)
        /\ new.stamp = j.stamp /\ new.content = j.content /\ new.key = j.key
        /\ new.since = j.since /\ new.database = j.database
    BY <1>1 DEF Dump, Active
  <1>3. dump' = [dump EXCEPT ![r] = new]
    BY DEF WriteManifest, Proceeds
  <1>4. sum \in File
    BY <1>1 DEF Dump, File
  <1>5. /\ manifest[j.stamp] = NoFile /\ manifest' = [manifest EXCEPT ![j.stamp] = sum]
        /\ UNCHANGED <<database, writes, plaintext, archive, recorded, shared, killed, rehearsal>>
    BY DEF WriteManifest
  <1> HIDE DEF new, sum
  <1>6. dump'[r] = new
    BY <1>3 DEF DumpInv, DumpTypeOK
  <1>7. /\ manifest' \in [Stamp -> File] /\ manifest'[j.stamp] = sum
        /\ \A t \in Stamp : manifest[t] # NoFile => manifest'[t] = manifest[t]
    BY <1>1, <1>4, <1>5 DEF DumpInv, DumpTypeOK
  <1>8. DumpKnows(r)'
    BY <1>1, <1>2, <1>5, <1>6, <1>7 DEF DumpInv, DumpKnows, sum
  <1> QED BY <1>1, <1>2, <1>3, <1>5, <1>7, <1>8, StepKeeps DEF DumpInv, DumpTypeOK

\* The removal of the dump in the clear keeps the invariant.
LEMMA CleanUpKeeps ==
    ASSUME DumpInv, NEW r \in Backup, CleanUp(r)
    PROVE  DumpInv'
  <1> DEFINE j == dump[r]
             new == [j EXCEPT !.phase = "complete"]
  <1>1. j \in Dump /\ j.phase = "described" /\ j.stamp \in Stamp
    BY DEF CleanUp, Proceeds, DumpInv, DumpTypeOK, Unstarted, Ended, Dump
  <1>2. /\ new \in Dump /\ new.phase = "complete" /\ Active(j)
        /\ new.stamp = j.stamp /\ new.content = j.content /\ new.key = j.key
        /\ new.since = j.since /\ new.database = j.database
    BY <1>1 DEF Dump, Active
  <1>3. dump' = [dump EXCEPT ![r] = new]
    BY DEF CleanUp, Proceeds
  <1>4. /\ plaintext' = [plaintext EXCEPT ![j.stamp] = Absent]
        /\ UNCHANGED <<database, writes, archive, manifest, recorded, shared, killed, rehearsal>>
    BY DEF CleanUp, RemovesDump
  <1> HIDE DEF new
  <1>5. dump'[r] = new
    BY <1>3 DEF DumpInv, DumpTypeOK
  <1>6. /\ plaintext' \in [Stamp -> Content] /\ plaintext'[j.stamp] = Absent
        /\ \A t \in Stamp \ {j.stamp} : plaintext'[t] = plaintext[t]
    BY <1>1, <1>4 DEF DumpInv, DumpTypeOK, Content
  <1>7. DumpKnows(r)'
    BY <1>1, <1>2, <1>4, <1>5, <1>6 DEF DumpInv, DumpKnows
  <1> QED BY <1>1, <1>2, <1>3, <1>4, <1>6, <1>7, StepKeeps DEF DumpInv, DumpTypeOK

\* A run that fails removes its dump, one that is killed is noted, and neither
\* disturbs the invariant.
LEMMA StopKeeps ==
    ASSUME DumpInv, NEW r \in Backup, FailBackup(r) \/ KillBackup(r)
    PROVE  DumpInv'
  <1> USE DEF DumpInv
  <1> DEFINE j == dump[r]
  <1>1. Active(j) /\ j \in Dump /\ j.stamp \in Stamp
    BY DumpIsActive DEF FailBackup, KillBackup, Active, Dump
  <1>2. /\ dump' = [dump EXCEPT ![r] = Ended]
        /\ UNCHANGED <<database, writes, archive, manifest, recorded, shared, rehearsal>>
        /\ \/ plaintext' = [plaintext EXCEPT ![j.stamp] = Absent] /\ killed' = killed
           \/ plaintext' = plaintext /\ killed' = killed \cup {j.stamp}
    BY DEF FailBackup, KillBackup, RemovesDump
  <1>3. /\ NamesKept' /\ ~ Active(dump'[r]) /\ DumpKnows(r)'
        /\ \A q \in Backup \ {r} :
              /\ dump'[q] = dump[q]
              /\ Active(dump[q]) /\ dump[q].stamp = j.stamp => j.stamp \in shared'
    BY <1>1, <1>2, RunEnds
  <1>4. /\ plaintext' \in [Stamp -> Content] /\ killed' \subseteq Stamp /\ killed \subseteq killed'
        /\ \A t \in Stamp \ {j.stamp} : plaintext'[t] = plaintext[t]
        /\ j.stamp \notin killed' => plaintext'[j.stamp] = Absent
    BY <1>1, <1>2 DEF DumpTypeOK, Content
  <1>5. DumpTypeOK'
    BY <1>2, <1>4 DEF DumpTypeOK
  <1>6. (\A q \in Backup \ {r} : DumpKnows(q)') /\ RecordedIsRestorable'
    BY <1>1, <1>2, <1>3, <1>4, OthersKnow DEF RecordedIsRestorable
  <1>7. ClearTextGoes'
    BY <1>1, <1>2, <1>3, <1>4, ClearTextElsewhere
  <1>8. ServedIsUntouched'
    BY <1>2 DEF ServedIsUntouched
  <1> QED BY <1>3, <1>5, <1>6, <1>7, <1>8

\* The record of a complete run keeps the invariant.
LEMMA RecordKeeps ==
    ASSUME DumpInv, NEW r \in Backup, RecordBackup(r)
    PROVE  DumpInv'
  <1> USE BackupAssumption DEF DumpInv
  <1> DEFINE j == dump[r]
             b == [stamp |-> j.stamp, database |-> j.database, since |-> j.since,
                   until |-> writes[j.database], checksum |-> [content |-> j.content, key |-> j.key]]
  <1>1. Active(j) /\ j \in Dump /\ j.stamp \in Stamp /\ j.phase = "complete"
    BY DumpIsActive DEF RecordBackup, Active, Dump
  <1>2. /\ dump' = [dump EXCEPT ![r] = Ended] /\ recorded' = recorded \cup {b}
        /\ UNCHANGED <<database, writes, plaintext, archive, manifest, shared, killed, rehearsal>>
    BY DEF RecordBackup
  <1>3. /\ NamesKept' /\ ~ Active(dump'[r]) /\ DumpKnows(r)'
        /\ \A q \in Backup \ {r} :
              /\ dump'[q] = dump[q]
              /\ Active(dump[q]) /\ dump[q].stamp = j.stamp => j.stamp \in shared'
    BY <1>1, <1>2, RunEnds
  <1>4. writes[j.database] \in 0..MaxWrites
    BY <1>1 DEF Dump, Served, DumpTypeOK
  <1>5. b \in Record
    BY <1>1, <1>4 DEF Dump, Record
  <1>6. DumpTypeOK'
    BY <1>2, <1>5 DEF DumpTypeOK
  <1>7. DumpKnows(r)
    OBVIOUS
  <1>8. /\ archive[b.stamp] = b.checksum /\ manifest[b.stamp] = b.checksum
        /\ b.database \in Served /\ b.database \in Served /\ b.stamp \notin shared => b.checksum.content \in b.since..b.until
    BY <1>1, <1>7 DEF DumpKnows
  <1> HIDE DEF b
  <1>9. (\A q \in Backup \ {r} : DumpKnows(q)') /\ RecordedIsRestorable'
    BY <1>1, <1>2, <1>3, <1>8, OthersKnow DEF RecordedIsRestorable
  <1>10. j.stamp \notin killed' \cup shared' => plaintext'[j.stamp] = Absent
    BY <1>1, <1>2, <1>7 DEF DumpKnows
  <1>11. ClearTextGoes'
    BY <1>1, <1>2, <1>3, <1>10, ClearTextElsewhere
  <1>12. ServedIsUntouched'
    BY <1>2 DEF ServedIsUntouched
  <1> QED BY <1>3, <1>6, <1>9, <1>11, <1>12

\* A rehearsal keeps the invariant: its target is none of the application's.
LEMMA RehearsalKeeps ==
    ASSUME DumpInv,
           \/ \E source, target, typed \in Database, allowed \in BOOLEAN, s \in Stamp, k \in SecretKey :
                 StartRestore(source, target, allowed, typed, s, k)
           \/ \E well \in BOOLEAN : EndRestore(well)
    PROVE  DumpInv'
  <1> USE BackupAssumption DEF DumpInv
  <1>1. UNCHANGED <<writes, plaintext, archive, manifest, dump, recorded, shared, killed>>
    BY DEF StartRestore, EndRestore
  <1> DEFINE Aside == /\ database' \in [Database -> Taken] /\ rehearsal' \in Restore \cup {Unstarted}
                      /\ \A d \in Served : database'[d] = database[d]
  <1>2. Aside
    <2>1. ASSUME NEW source \in Database, NEW target \in Database, NEW typed \in Database,
                 NEW allowed \in BOOLEAN, NEW s \in Stamp, NEW k \in SecretKey,
                 StartRestore(source, target, allowed, typed, s, k)
          PROVE  Aside
      <3>1. archive[s] \in [content : Taken, key : SecretKey] /\ target \in Rehearsal
        BY <2>1 DEF StartRestore, IsolatedTarget, DumpTypeOK, File
      <3>2. rehearsal' \in Restore
        BY <2>1, <3>1 DEF StartRestore, Restore
      <3>3. database' = [database EXCEPT ![target] = Broken]
        BY <2>1 DEF StartRestore
      <3> QED BY <3>1, <3>2, <3>3 DEF DumpTypeOK, Taken, Served
    <2>2. ASSUME NEW well \in BOOLEAN, EndRestore(well)
          PROVE  Aside
      <3>1. rehearsal.target \in Rehearsal /\ rehearsal.content \in Taken
        BY <2>2 DEF EndRestore, DumpTypeOK, Restore, Unstarted
      <3> QED BY <2>2, <3>1 DEF EndRestore, DumpTypeOK, Served
    <2> QED BY <2>1, <2>2
  <1>3. DumpTypeOK'
    BY <1>1, <1>2 DEF DumpTypeOK
  <1>4. ServedIsUntouched'
    BY <1>1, <1>2 DEF ServedIsUntouched
  <1>5. RecordedIsRestorable' /\ ClearTextGoes' /\ NamesKept'
    BY <1>1 DEF RecordedIsRestorable, ClearTextGoes, NamesKept
  <1>6. \A r \in Backup : DumpKnows(r)'
    BY <1>1 DEF DumpKnows
  <1> QED BY <1>3, <1>4, <1>5, <1>6

\* The initial state satisfies the invariant, and every step keeps it.
LEMMA InitDumpInv == BackupInit => DumpInv
  <1> USE BackupAssumption
  <1> SUFFICES ASSUME BackupInit PROVE DumpInv
    OBVIOUS
  <1>1. DumpTypeOK
    BY DEF BackupInit, DumpTypeOK, Taken, Content, File
  <1>2. \A r \in Backup : ~ Active(dump[r])
    BY DEF BackupInit, Active, Unstarted
  <1>3. RecordedIsRestorable /\ ClearTextGoes /\ ServedIsUntouched
    BY DEF BackupInit, RecordedIsRestorable, ClearTextGoes, ServedIsUntouched, Served
  <1>4. NamesKept /\ \A r \in Backup : DumpKnows(r)
    BY <1>2 DEF NamesKept, DumpKnows
  <1> QED BY <1>1, <1>3, <1>4 DEF DumpInv

LEMMA DumpInvKept == DumpInv /\ [DumpNext \/ ObjectNext]_backupVars => DumpInv'
  <1> SUFFICES ASSUME DumpInv, [DumpNext \/ ObjectNext]_backupVars PROVE DumpInv'
    OBVIOUS
  <1>1. CASE DumpNext
    BY <1>1, WriteKeeps, StartKeeps, DumpedKeeps, ReadKeeps, ArchiveKeeps, ManifestKeeps,
       CleanUpKeeps, StopKeeps, RecordKeeps, RehearsalKeeps
    DEF DumpNext
  <1>2. CASE ObjectNext \/ UNCHANGED backupVars
    <2>1. UNCHANGED dumpVars
      BY <1>2 DEF ObjectNext, Change, StartObjects, ListPage, CopyObject, VerifyCopy,
                  RecordObjects, EndObjects, backupVars
    <2> QED BY <2>1 DEF dumpVars, DumpInv, DumpTypeOK, RecordedIsRestorable, ClearTextGoes,
                        ServedIsUntouched, NamesKept, DumpKnows
  <1> QED BY <1>1, <1>2

-----------------------------------------------------------------------------
(* The objects. *)

\* What a backup of the objects by run r, with these entries, has to show for
\* object o, of which it can have seen these versions.
Covers(r, entries, seen, o) ==
    Absent \notin seen =>
        /\ \E e \in entries : e.object = o /\ e.etag \in seen
        /\ copy[o].version # Absent
        /\ copy[o].by = r => copy[o].version \in seen

SizesHold(r, entries) ==
    \A e \in entries : copy[e.object].by = r => e.size = SizeOf[copy[e.object].version]

\* What is certain of a run of the object script: what it has passed is covered.
RoundKnows(r) ==
    LET j == round[r]
    IN  Active(j) =>
            /\ \A o \in Object : stored[o] \in j.seen[o]
            /\ \A o \in 1..(j.at - 1) : Covers(r, j.entries, j.seen[o], o)
            /\ SizesHold(r, j.entries)
            /\ \A e \in j.entries : e.object < j.at
            /\ j.phase # "listing" =>
                  j.at \in Object /\ j.listed \in j.seen[j.at] /\ j.listed # Absent
            /\ j.phase = "verifying" =>
                  /\ copy[j.at].version # Absent
                  /\ copy[j.at].by = r => copy[j.at].version \in j.seen[j.at]

\* A run that is recorded has ended, and its record is true.
RecordKnows(b) ==
    /\ round[b.by] = Ended
    /\ \A o \in Object : Covers(b.by, b.entries, b.seen[o], o)
    /\ SizesHold(b.by, b.entries)

ObjectInv ==
    /\ ObjectTypeOK
    /\ \A r \in ObjectBackup : RoundKnows(r)
    /\ \A b \in objectRecords : RecordKnows(b)

LEMMA RoundIsActive ==
    ASSUME ObjectTypeOK, NEW r \in ObjectBackup
    PROVE  Active(round[r]) <=> round[r] \in Round
  BY DEF ObjectTypeOK, Round, Active, Unstarted, Ended

\* A change of an object keeps the invariant: the runs can have seen the new
\* version.
LEMMA ChangeKeeps ==
    ASSUME ObjectInv, NEW o \in Object, NEW version \in {Absent} \cup 1..MaxPuts, Change(o, version)
    PROVE  ObjectInv'
  <1> USE BackupAssumption DEF ObjectInv
  <1>1. /\ stored' = [stored EXCEPT ![o] = version] /\ puts' = puts + 1 /\ puts < MaxPuts
        /\ UNCHANGED <<copy, objectRecords>> /\ version \in ObjectVersion
    BY DEF Change, ObjectVersion
  <1> DEFINE Sees(j) == [j EXCEPT !.seen[o] = @ \cup {version}]
  <1>2. round' = [r \in ObjectBackup |-> IF Active(round[r]) THEN Sees(round[r]) ELSE round[r]]
    BY DEF Change
  <1>3. ASSUME NEW j \in Round
        PROVE  LET k == Sees(j)
               IN  /\ k \in Round
                   /\ k.phase = j.phase /\ k.at = j.at /\ k.listed = j.listed /\ k.entries = j.entries
                   /\ \A p \in Object : j.seen[p] \subseteq k.seen[p]
                   /\ version \in k.seen[o]
    <2>1. [j.seen EXCEPT ![o] = @ \cup {version}] \in Seen
      BY <1>1 DEF Round, Seen
    <2>2. Sees(j) = [j EXCEPT !.seen = [j.seen EXCEPT ![o] = @ \cup {version}]]
      BY DEF Round
    <2> QED BY <2>1, <2>2 DEF Round, Seen
  <1> HIDE DEF Sees
  <1>4. \A r \in ObjectBackup :
            /\ Active(round[r]) => round[r] \in Round /\ round'[r] = Sees(round[r])
            /\ ~ Active(round[r]) => round'[r] = round[r]
    BY <1>2, RoundIsActive
  <1>5. ObjectTypeOK'
    <2>1. round' \in [ObjectBackup -> Round \cup {Unstarted, Ended}]
      BY <1>2, <1>3, <1>4 DEF ObjectTypeOK
    <2> QED BY <1>1, <2>1 DEF ObjectTypeOK
  <1>6. ASSUME NEW r \in ObjectBackup PROVE RoundKnows(r)'
    <2> DEFINE j == round[r]
    <2> PICK k : k = round'[r]
      OBVIOUS
    <2>1. CASE Active(j)
      <3>1. /\ j \in Round /\ k \in Round /\ RoundKnows(r)
            /\ k.phase = j.phase /\ k.at = j.at /\ k.listed = j.listed /\ k.entries = j.entries
            /\ \A p \in Object : j.seen[p] \subseteq k.seen[p]
            /\ version \in k.seen[o]
        BY <1>3, <1>4, <2>1
      <3>2. \A p \in Object : stored'[p] \in k.seen[p]
        BY <1>1, <2>1, <3>1 DEF RoundKnows, ObjectTypeOK
      <3>3. ASSUME NEW p \in Object, Covers(r, j.entries, j.seen[p], p)
            PROVE  Covers(r, k.entries, k.seen[p], p)'
        BY <1>1, <3>1, <3>3 DEF Covers
      <3>4. j.at \in 1..(LastObject + 1)
        BY <3>1 DEF Round
      <3>5. \A p \in 1..(k.at - 1) : Covers(r, k.entries, k.seen[p], p)'
        BY <2>1, <3>1, <3>3, <3>4 DEF RoundKnows, Object
      <3>6. SizesHold(r, k.entries)'
        BY <1>1, <2>1, <3>1 DEF RoundKnows, SizesHold
      <3>7. /\ \A e \in k.entries : e.object < k.at
            /\ k.phase # "listing" =>
                  k.at \in Object /\ k.listed \in k.seen[k.at] /\ k.listed # Absent
            /\ k.phase = "verifying" =>
                  /\ copy'[k.at].version # Absent
                  /\ copy'[k.at].by = r => copy'[k.at].version \in k.seen[k.at]
        BY <1>1, <2>1, <3>1 DEF RoundKnows
      <3> QED BY <3>2, <3>5, <3>6, <3>7 DEF RoundKnows
    <2>2. CASE ~ Active(j)
      <3>1. ~ Active(round[r])'
        BY <1>4, <2>2
      <3> QED BY <3>1 DEF RoundKnows
    <2> QED BY <2>1, <2>2
  <1>7. ASSUME NEW b \in objectRecords' PROVE RecordKnows(b)'
    <2>1. b \in objectRecords /\ b.by \in ObjectBackup /\ RecordKnows(b)
      BY <1>1, <1>7 DEF ObjectTypeOK, ObjectRecord
    <2>2. ~ Active(round[b.by])
      BY <2>1 DEF RecordKnows, Active, Ended
    <2> QED BY <1>1, <1>4, <2>1, <2>2 DEF RecordKnows, Covers, SizesHold
  <1> QED BY <1>5, <1>6, <1>7

\* What a step of run r that has not ended leaves to the other runs and to the
\* records: a copy it replaces is there, and is its own.
LEMMA OtherRoundsKnow ==
    ASSUME ObjectInv, NEW r \in ObjectBackup, NEW new, round' = [round EXCEPT ![r] = new],
           round[r] # Ended, stored' = stored,
           \A o \in Object : copy'[o] = copy[o] \/ (copy'[o].by = r /\ copy'[o].version # Absent)
    PROVE  /\ \A q \in ObjectBackup \ {r} : RoundKnows(q)'
           /\ \A b \in objectRecords : RecordKnows(b)'
  <1> USE DEF ObjectInv
  <1>1. ASSUME NEW q \in ObjectBackup \ {r}, NEW entries \in SUBSET Entry, NEW seen, NEW o \in Object
        PROVE  Covers(q, entries, seen, o) => Covers(q, entries, seen, o)'
    BY DEF Covers
  <1>2. ASSUME NEW q \in ObjectBackup \ {r}, NEW entries \in SUBSET Entry
        PROVE  SizesHold(q, entries) => SizesHold(q, entries)'
    BY DEF SizesHold, Entry
  <1>3. ASSUME NEW q \in ObjectBackup \ {r} PROVE RoundKnows(q)'
    <2> SUFFICES ASSUME Active(round[q]) PROVE RoundKnows(q)'
      BY DEF RoundKnows, ObjectTypeOK
    <2> PICK j : j = round[q]
      OBVIOUS
    <2>1. j \in Round /\ round'[q] = j /\ RoundKnows(q)
      BY RoundIsActive DEF ObjectTypeOK
    <2>2. /\ j.entries \in SUBSET Entry
          /\ \A o \in 1..(j.at - 1) : o \in Object
          /\ j.phase # "listing" => j.at \in Object
      BY <2>1, BackupAssumption DEF Round, Object, RoundKnows
    <2>3. \A o \in 1..(j.at - 1) : Covers(q, j.entries, j.seen[o], o)'
      BY <1>1, <2>1, <2>2 DEF RoundKnows
    <2>4. SizesHold(q, j.entries)'
      BY <1>2, <2>1, <2>2 DEF RoundKnows
    <2>5. j.phase = "verifying" =>
              /\ copy'[j.at].version # Absent
              /\ copy'[j.at].by = q => copy'[j.at].version \in j.seen[j.at]
      BY <2>1, <2>2 DEF RoundKnows
    <2> QED BY <2>1, <2>3, <2>4, <2>5 DEF RoundKnows
  <1>4. ASSUME NEW b \in objectRecords PROVE RecordKnows(b)'
    <2>1. RecordKnows(b) /\ b \in ObjectRecord
      BY DEF ObjectTypeOK
    <2>2. b.by \in ObjectBackup \ {r} /\ b.entries \in SUBSET Entry /\ round'[b.by] = Ended
      BY <2>1 DEF RecordKnows, ObjectRecord, ObjectTypeOK
    <2> QED BY <1>1, <1>2, <2>1, <2>2 DEF RecordKnows
  <1> QED BY <1>3, <1>4

\* A run starts with nothing passed, and ends without a record.
LEMMA StartOrEndKeeps ==
    ASSUME ObjectInv, NEW r \in ObjectBackup, StartObjects(r) \/ EndObjects(r)
    PROVE  ObjectInv'
  <1> USE BackupAssumption DEF ObjectInv
  <1>1. PICK new : /\ round' = [round EXCEPT ![r] = new]
                   /\ \/ new = Ended
                      \/ new = [phase |-> "listing", at |-> 1, listed |-> Absent, entries |-> {},
                                seen |-> [o \in Object |-> {stored[o]}]]
    BY DEF StartObjects, EndObjects
  <1>2. UNCHANGED <<stored, puts, copy, objectRecords>> /\ round[r] # Ended
    BY DEF StartObjects, EndObjects, Active, Ended
  <1>3. new \in Round \cup {Ended}
    <2>1. [o \in Object |-> {stored[o]}] \in Seen
      BY DEF ObjectTypeOK, Seen
    <2>2. [phase |-> "listing", at |-> 1, listed |-> Absent, entries |-> {},
           seen |-> [o \in Object |-> {stored[o]}]] \in Round
      BY <2>1 DEF Round, ObjectVersion
    <2> QED BY <1>1, <2>2
  <1>4. ObjectTypeOK'
    BY <1>1, <1>2, <1>3 DEF ObjectTypeOK
  <1>5. (\A q \in ObjectBackup \ {r} : RoundKnows(q)') /\ \A b \in objectRecords' : RecordKnows(b)'
    BY <1>1, <1>2, OtherRoundsKnow
  <1>6. RoundKnows(r)'
    <2>1. round'[r] = new
      BY <1>1 DEF ObjectTypeOK
    <2>2. CASE new = Ended
      BY <2>1, <2>2 DEF RoundKnows, Active, Ended
    <2>3. CASE new = [phase |-> "listing", at |-> 1, listed |-> Absent, entries |-> {},
                      seen |-> [o \in Object |-> {stored[o]}]]
      BY <1>2, <2>1, <2>3 DEF RoundKnows, SizesHold
    <2> QED BY <1>1, <2>2, <2>3
  <1> QED BY <1>4, <1>5, <1>6

\* A step of the listing keeps the invariant: an object that is not there is
\* passed, one that is will be copied.
LEMMA ListKeeps ==
    ASSUME ObjectInv, NEW r \in ObjectBackup, ListPage(r)
    PROVE  ObjectInv'
  <1> USE BackupAssumption DEF ObjectInv
  <1> PICK j : j = round[r]
    OBVIOUS
  <1> DEFINE o == j.at
  <1>1. /\ j \in Round /\ j.phase = "listing" /\ o \in Object /\ Active(j) /\ j # Ended
        /\ RoundKnows(r)
    BY DEF ListPage, ObjectTypeOK, Unstarted, Ended, Active
  <1>2. PICK new : /\ round' = [round EXCEPT ![r] = new]
                   /\ \/ stored[o] = Absent /\ new = [j EXCEPT !.at = o + 1]
                      \/ stored[o] # Absent /\ new = [j EXCEPT !.phase = "copying", !.listed = stored[o]]
    BY DEF ListPage
  <1>3. UNCHANGED <<stored, puts, copy, objectRecords>>
    BY DEF ListPage
  <1>4. o + 1 \in 1..(LastObject + 1) /\ stored[o] \in ObjectVersion
    BY <1>1 DEF Object, ObjectTypeOK
  <1>5. /\ new \in Round /\ new.seen = j.seen /\ new.entries = j.entries
        /\ \/ stored[o] = Absent /\ new.at = o + 1 /\ new.phase = "listing"
           \/ new.at = o /\ new.phase = "copying" /\ new.listed = stored[o] /\ stored[o] # Absent
    BY <1>1, <1>2, <1>4 DEF Round
  <1>6. ObjectTypeOK' /\ round'[r] = new
    BY <1>2, <1>3, <1>5 DEF ObjectTypeOK
  <1>7. (\A q \in ObjectBackup \ {r} : RoundKnows(q)') /\ \A b \in objectRecords' : RecordKnows(b)'
    BY <1>1, <1>2, <1>3, OtherRoundsKnow
  <1>8. RoundKnows(r)'
    <2>1. stored[o] = Absent => Covers(r, j.entries, j.seen[o], o)
      BY <1>1 DEF RoundKnows, Covers
    <2>2. \A p \in 1..(new.at - 1) : Covers(r, new.entries, new.seen[p], p)
      BY <1>1, <1>5, <2>1 DEF RoundKnows, Object
    <2>3. \A p \in 1..(new.at - 1) : Covers(r, new.entries, new.seen[p], p)'
      BY <1>3, <2>2 DEF Covers
    <2>4. SizesHold(r, new.entries)'
      BY <1>1, <1>3, <1>5 DEF RoundKnows, SizesHold
    <2>5. \A e \in new.entries : e.object < new.at
      BY <1>1, <1>5 DEF RoundKnows, Object, Round, Entry
    <2> QED BY <1>1, <1>3, <1>5, <1>6, <2>3, <2>4, <2>5 DEF RoundKnows
  <1> QED BY <1>6, <1>7, <1>8

\* A copy keeps the invariant: it is of a version the run can have seen.
LEMMA CopyKeeps ==
    ASSUME ObjectInv, NEW r \in ObjectBackup, CopyObject(r)
    PROVE  ObjectInv'
  <1> USE BackupAssumption DEF ObjectInv
  <1> PICK j : j = round[r]
    OBVIOUS
  <1> DEFINE o == j.at
             new == [j EXCEPT !.phase = "verifying"]
             c == [version |-> stored[o], size |-> SizeOf[j.listed], by |-> r]
  <1>1. /\ j \in Round /\ j.phase = "copying" /\ Active(j) /\ j # Ended
        /\ RoundKnows(r) /\ stored[o] # Absent
    BY DEF CopyObject, ObjectTypeOK, Unstarted, Ended, Active
  <1>2. o \in Object /\ j.listed \in 1..MaxPuts /\ stored[o] \in j.seen[o]
    BY <1>1 DEF RoundKnows, Round, ObjectVersion
  <1>3. c \in Copy
    <2>1. stored[o] \in ObjectVersion /\ SizeOf[j.listed] \in Size
      BY <1>2 DEF ObjectTypeOK, Size
    <2> QED BY <2>1 DEF Copy
  <1>4. /\ new \in Round /\ new.seen = j.seen /\ new.entries = j.entries /\ new.at = o
        /\ new.phase = "verifying" /\ new.listed = j.listed
    BY <1>1 DEF Round
  <1>5. /\ copy' = [copy EXCEPT ![o] = c] /\ round' = [round EXCEPT ![r] = new]
        /\ UNCHANGED <<stored, puts, objectRecords>>
    BY DEF CopyObject
  <1>6. c.version = stored[o] /\ c.by = r
    OBVIOUS
  <1> HIDE DEF new, c
  <1>7. ObjectTypeOK' /\ round'[r] = new
    BY <1>3, <1>4, <1>5 DEF ObjectTypeOK
  <1>8. copy'[o] = c /\ \A p \in Object \ {o} : copy'[p] = copy[p]
    BY <1>2, <1>5 DEF ObjectTypeOK
  <1>9. (\A q \in ObjectBackup \ {r} : RoundKnows(q)') /\ \A b \in objectRecords' : RecordKnows(b)'
    <2>1. \A p \in Object : copy'[p] = copy[p] \/ (copy'[p].by = r /\ copy'[p].version # Absent)
      BY <1>1, <1>6, <1>8
    <2> QED BY <1>1, <1>5, <2>1, OtherRoundsKnow
  <1>10. RoundKnows(r)'
    <2>1. \A p \in 1..(o - 1) : p \in Object \ {o}
      BY <1>2 DEF Object
    <2>2. \A p \in 1..(new.at - 1) : Covers(r, new.entries, new.seen[p], p)'
      BY <1>1, <1>4, <1>8, <2>1 DEF RoundKnows, Covers
    <2>3. \A e \in new.entries : e.object < new.at /\ e.object \in Object \ {o}
      BY <1>1, <1>2, <1>4 DEF RoundKnows, Round, Entry, Object
    <2>4. SizesHold(r, new.entries)'
      BY <1>1, <1>4, <1>8, <2>3 DEF RoundKnows, SizesHold
    <2> QED BY <1>1, <1>2, <1>4, <1>5, <1>6, <1>7, <1>8, <2>2, <2>3, <2>4 DEF RoundKnows
  <1> QED BY <1>7, <1>9, <1>10

\* A copy that is as listed is passed, and what the manifest says of its size is
\* true.
LEMMA VerifyKeeps ==
    ASSUME ObjectInv, NEW r \in ObjectBackup, VerifyCopy(r)
    PROVE  ObjectInv'
  <1> USE BackupAssumption DEF ObjectInv
  <1> PICK j : j = round[r]
    OBVIOUS
  <1> DEFINE o == j.at
             e == [object |-> o, size |-> SizeOf[j.listed], etag |-> j.listed]
             new == [j EXCEPT !.phase = "listing", !.at = o + 1, !.entries = @ \cup {e}]
  <1>1. /\ j \in Round /\ j.phase = "verifying" /\ Active(j) /\ j # Ended
        /\ RoundKnows(r) /\ SizeOf[copy[o].version] = SizeOf[j.listed]
    BY DEF VerifyCopy, Verified, ObjectTypeOK, Unstarted, Ended, Active
  <1>2. /\ o \in Object /\ j.listed \in 1..MaxPuts /\ j.listed \in j.seen[o]
        /\ copy[o].version # Absent /\ (copy[o].by = r => copy[o].version \in j.seen[o])
    BY <1>1 DEF RoundKnows, Round, ObjectVersion
  <1>3. e \in Entry
    <2>1. SizeOf[j.listed] \in Size
      BY <1>2 DEF Size
    <2> QED BY <1>2, <2>1 DEF Entry
  <1>4. /\ new \in Round /\ new.seen = j.seen /\ new.entries = j.entries \cup {e} /\ new.at = o + 1
        /\ new.phase = "listing"
    <2>1. j.entries \cup {e} \in SUBSET Entry /\ o + 1 \in 1..(LastObject + 1)
      BY <1>1, <1>2, <1>3 DEF Round, Object
    <2>2. new = [j EXCEPT !.phase = "listing", !.at = o + 1, !.entries = j.entries \cup {e}]
      BY <1>1 DEF Round
    <2> HIDE DEF new, e
    <2> QED BY <1>1, <2>1, <2>2 DEF Round
  <1>5. round' = [round EXCEPT ![r] = new] /\ UNCHANGED <<stored, puts, copy, objectRecords>>
    BY DEF VerifyCopy
  <1>6. e.object = o /\ e.etag = j.listed /\ e.size = SizeOf[copy[o].version]
    BY <1>1
  <1> HIDE DEF new, e
  <1>7. ObjectTypeOK' /\ round'[r] = new
    BY <1>4, <1>5 DEF ObjectTypeOK
  <1>8. (\A q \in ObjectBackup \ {r} : RoundKnows(q)') /\ \A b \in objectRecords' : RecordKnows(b)'
    BY <1>1, <1>5, OtherRoundsKnow
  <1>9. RoundKnows(r)'
    <2>1. Covers(r, new.entries, new.seen[o], o)
      BY <1>2, <1>4, <1>6 DEF Covers
    <2>2. \A p \in 1..(o - 1) : Covers(r, new.entries, new.seen[p], p)
      BY <1>1, <1>4 DEF RoundKnows, Covers
    <2>3. \A p \in 1..(new.at - 1) : Covers(r, new.entries, new.seen[p], p)
      <3>1. \A p \in 1..(new.at - 1) : p = o \/ p \in 1..(o - 1)
        BY <1>2, <1>4 DEF Object
      <3> QED BY <2>1, <2>2, <3>1
    <2>4. \A p \in 1..(new.at - 1) : Covers(r, new.entries, new.seen[p], p)'
      BY <1>5, <2>3 DEF Covers
    <2>5. SizesHold(r, new.entries)'
      BY <1>1, <1>4, <1>5, <1>6 DEF RoundKnows, SizesHold
    <2>6. \A f \in new.entries : f.object < new.at
      BY <1>1, <1>2, <1>4, <1>6 DEF RoundKnows, Round, Entry, Object
    <2> QED BY <1>1, <1>4, <1>5, <1>7, <2>4, <2>5, <2>6 DEF RoundKnows
  <1> QED BY <1>7, <1>8, <1>9

\* A run that has passed every object is recorded with what it has covered.
LEMMA RecordObjectsKeeps ==
    ASSUME ObjectInv, NEW r \in ObjectBackup, RecordObjects(r)
    PROVE  ObjectInv'
  <1> USE BackupAssumption DEF ObjectInv
  <1> PICK j : j = round[r]
    OBVIOUS
  <1> DEFINE b == [by |-> r, entries |-> j.entries, seen |-> j.seen]
  <1>1. /\ j \in Round /\ j.at > LastObject /\ Active(j) /\ j # Ended /\ RoundKnows(r)
    BY DEF RecordObjects, ObjectTypeOK, Unstarted, Ended, Active
  <1>2. /\ round' = [round EXCEPT ![r] = Ended] /\ objectRecords' = objectRecords \cup {b}
        /\ UNCHANGED <<stored, puts, copy>>
    BY DEF RecordObjects
  <1>3. b \in ObjectRecord /\ b.by = r /\ b.entries = j.entries /\ b.seen = j.seen
    BY <1>1 DEF Round, ObjectRecord
  <1> HIDE DEF b
  <1>4. ObjectTypeOK' /\ round'[r] = Ended
    BY <1>2, <1>3 DEF ObjectTypeOK
  <1>5. (\A q \in ObjectBackup \ {r} : RoundKnows(q)') /\ \A x \in objectRecords : RecordKnows(x)'
    BY <1>1, <1>2, OtherRoundsKnow
  <1>6. RecordKnows(b)'
    <2>1. \A o \in Object : o \in 1..(j.at - 1)
      BY <1>1 DEF Round, Object
    <2>2. \A o \in Object : Covers(b.by, b.entries, b.seen[o], o)'
      BY <1>1, <1>2, <1>3, <2>1 DEF RoundKnows, Covers
    <2>3. SizesHold(b.by, b.entries)'
      BY <1>1, <1>2, <1>3 DEF RoundKnows, SizesHold
    <2> QED BY <1>3, <1>4, <2>2, <2>3 DEF RecordKnows
  <1>7. RoundKnows(r)'
    BY <1>4 DEF RoundKnows, Active, Ended
  <1> QED BY <1>2, <1>4, <1>5, <1>6, <1>7

LEMMA InitObjectInv == BackupInit => ObjectInv
  <1> USE BackupAssumption
  <1> SUFFICES ASSUME BackupInit PROVE ObjectInv
    OBVIOUS
  <1>1. ObjectTypeOK
    BY DEF BackupInit, ObjectTypeOK, ObjectVersion, Copy
  <1>2. \A r \in ObjectBackup : ~ Active(round[r])
    BY DEF BackupInit, Active, Unstarted
  <1> QED BY <1>1, <1>2 DEF ObjectInv, RoundKnows, BackupInit

LEMMA ObjectInvKept == ObjectInv /\ [DumpNext \/ ObjectNext]_backupVars => ObjectInv'
  <1> SUFFICES ASSUME ObjectInv, [DumpNext \/ ObjectNext]_backupVars PROVE ObjectInv'
    OBVIOUS
  <1>1. CASE ObjectNext
    <2>1. ASSUME NEW o \in Object, NEW version \in {Absent} \cup 1..MaxPuts, Change(o, version)
          PROVE  ObjectInv'
      BY <2>1, ChangeKeeps
    <2>2. ASSUME NEW r \in ObjectBackup,
                 \/ StartObjects(r) \/ ListPage(r) \/ CopyObject(r) \/ VerifyCopy(r)
                 \/ RecordObjects(r) \/ EndObjects(r)
          PROVE  ObjectInv'
      BY <2>2, StartOrEndKeeps, ListKeeps, CopyKeeps, VerifyKeeps, RecordObjectsKeeps
    <2> QED BY <1>1, <2>1, <2>2 DEF ObjectNext
  <1>2. CASE DumpNext \/ UNCHANGED backupVars
    <2>1. UNCHANGED objectVars
      BY <1>2 DEF DumpNext, Write, StartBackup, Dumped, ReadDump, WriteArchive, WriteManifest,
                  CleanUp, FailBackup, RecordBackup, KillBackup, StartRestore, EndRestore, backupVars
    <2> QED BY <2>1 DEF objectVars, ObjectInv, ObjectTypeOK, RoundKnows, RecordKnows, Covers, SizesHold
  <1> QED BY <1>1, <1>2

-----------------------------------------------------------------------------
\* The state of both scripts keeps its shape.
THEOREM BackupsAreTyped == BackupSpec => []BackupTypeOK
  <1>1. DumpInv /\ ObjectInv => BackupTypeOK
    BY DEF DumpInv, ObjectInv, BackupTypeOK
  <1> QED BY <1>1, InitDumpInv, DumpInvKept, InitObjectInv, ObjectInvKept, PTL DEF BackupSpec

\* What is recorded of a backup is there and can be restored; a dump in the
\* clear does not outlive its run; and a recorded backup of the objects has all
\* of them.
THEOREM BackupsHoldAlways == BackupSpec => []BackupsHold
  <1>1. DumpInv => RecordedIsRestorable /\ ClearTextGoes
    BY DEF DumpInv
  <1>2. ObjectInv => RecordedIsCovered
    BY DEF ObjectInv, RecordKnows, Covers, SizesHold, RecordedIsCovered
  <1>3. DumpInv /\ ObjectInv => BackupsHold
    BY <1>1, <1>2 DEF BackupsHold
  <1> QED BY <1>3, InitDumpInv, DumpInvKept, InitObjectInv, ObjectInvKept, PTL DEF BackupSpec

-----------------------------------------------------------------------------
(* The file queues.  LocalInv says that the operation that has read the file *)
(* holds the turn of its process, hence has the file as it is (CopyIsFile),  *)
(* that the id of a job yet to be enqueued is new (IdsAreFresh), and that    *)
(* the token of a job is never behind a claim of it (TokensGrow).            *)

\* A job, a request and a call, when n ids have been generated.
Job(n) ==
    [id : 1..n, document : QueuedDocument, state : {"QUEUED", "CLAIMED"},
     worker : LocalWorker \cup {NoOne}, token : 0..MaxFence, available : Nat, expires : Nat]

Lease == [job : 1..MaxJobs, worker : LocalWorker, token : 1..MaxFence]

LocalRequest(n) ==
    [op : {"none"}] \cup [op : {"enqueue"}, document : QueuedDocument, id : 1..n]
    \cup [op : {"claim"}, worker : LocalWorker, at : Nat]
    \cup [op : {"renew", "acknowledge"}, lease : Lease]
    \cup [op : {"release"}, lease : Lease, at : Nat]
    \cup [op : {"remove"}, document : QueuedDocument]

LocalCall(n) ==
    [stage : {"idle", "waiting", "read"}, asked : LocalRequest(n), copy : Seq(Job(n))]

\* Calls under way ask for something; a process orders its own callers.
LocalShape ==
    /\ clock \in Nat /\ minted \in 0..MaxJobs
    /\ file \in Seq(Job(minted)) /\ leases \subseteq Lease
    /\ turns \in [Process -> Seq(Caller)]
    /\ call \in [Caller -> LocalCall(minted)]
    /\ \A c \in Caller : call[c].stage = "idle" <=> call[c].asked.op = "none"
    /\ \A p \in Process : \A i \in DOMAIN turns[p] : HomeOf[turns[p][i]] = p

LEMMA LocalConstants ==
    /\ LeaseTicks \in Nat \ {0} /\ LastTick \in Nat /\ MaxFence \in Nat
    /\ MaxJobs \in Nat /\ NoOne \notin LocalWorker
  BY LocalQueueAssumption

\* The same job, of which no claim is forgotten.
StillJob(h, j) == h.id = j.id /\ h.document = j.document /\ h.token >= j.token

LEMMA JobFacts ==
    ASSUME NEW n \in Nat, NEW j \in Job(n)
    PROVE  /\ j.token \in Nat /\ j.token <= MaxFence /\ j.id \in 1..n /\ StillJob(j, j)
  <1>1. j.token \in Nat /\ j.token <= MaxFence /\ j.id \in 1..n
    BY LocalConstants DEF Job
  <1> QED BY <1>1 DEF StillJob

LEMMA RenewedJob ==
    ASSUME NEW n \in Nat, NEW j \in Job(n), NEW at \in Nat
    PROVE  [j EXCEPT !.expires = at] \in Job(n) /\ StillJob([j EXCEPT !.expires = at], j)
  <1> DEFINE h == [j EXCEPT !.expires = at]
  <1>1. h \in Job(n)
    BY DEF Job
  <1>2. h.id = j.id /\ h.document = j.document /\ h.token = j.token
    BY DEF Job
  <1> HIDE DEF h
  <1>3. StillJob(h, j)
    BY <1>2, JobFacts DEF StillJob
  <1> QED BY <1>1, <1>3 DEF h

LEMMA ReleasedJob ==
    ASSUME NEW n \in Nat, NEW j \in Job(n), NEW at \in Nat,
           NEW h, h = [j EXCEPT !.state = "QUEUED", !.worker = NoOne, !.expires = 0, !.available = at]
    PROVE  h \in Job(n) /\ StillJob(h, j)
  <1>1. h \in Job(n)
    BY DEF Job
  <1>2. h.id = j.id /\ h.document = j.document /\ h.token = j.token
    BY DEF Job
  <1> QED BY <1>1, <1>2, JobFacts DEF StillJob

LEMMA HandedJob ==
    ASSUME NEW n \in Nat, NEW j \in Job(n), NEW w \in LocalWorker, NEW at \in Nat, j.token + 1 <= MaxFence
    PROVE  /\ Handed(j, w, at) \in Job(n) /\ StillJob(Handed(j, w, at), j)
           /\ Handed(j, w, at).token = j.token + 1
  <1> DEFINE h == Handed(j, w, at)
  <1>1. h = [j EXCEPT !.state = "CLAIMED", !.worker = w, !.token = j.token + 1, !.expires = at + LeaseTicks]
    BY DEF Handed, Job
  <1>2. j.token + 1 \in 0..MaxFence /\ at + LeaseTicks \in Nat
    BY JobFacts, LocalConstants
  <1> HIDE DEF h
  <1>3. h \in Job(n)
    BY <1>1, <1>2 DEF Job
  <1>4. h.id = j.id /\ h.document = j.document /\ h.token = j.token + 1
    BY <1>1 DEF Job
  <1>5. StillJob(h, j)
    BY <1>4, JobFacts DEF StillJob
  <1> QED BY <1>3, <1>4, <1>5 DEF h

LEMMA MoreIds ==
    ASSUME NEW m \in Nat, NEW n \in Nat, m <= n
    PROVE  Job(m) \subseteq Job(n) /\ LocalRequest(m) \subseteq LocalRequest(n) /\ LocalCall(m) \subseteq LocalCall(n)
  <1>1. 1..m \subseteq 1..n
    OBVIOUS
  <1>2. Job(m) \subseteq Job(n)
    BY <1>1 DEF Job
  <1>3. Seq(Job(m)) \subseteq Seq(Job(n))
    BY <1>2
  <1>4. LocalRequest(m) \subseteq LocalRequest(n)
    BY <1>1 DEF LocalRequest
  <1> QED BY <1>2, <1>3, <1>4 DEF LocalCall

LEMMA IdleIsCall == ASSUME NEW n PROVE Idle \in LocalCall(n) /\ Idle.stage = "idle" /\ Idle.asked.op = "none"
  <1>1. <<>> \in Seq(Job(n))
    OBVIOUS
  <1> QED BY <1>1 DEF Idle, LocalCall, LocalRequest

\* What an operation writes is made of the jobs it has read: each keeps its id
\* and document, and its token only grows; the one that may be new is of a
\* document without a job.
Made(g, f, r, n) ==
    /\ g \in Seq(Job(n))
    /\ \E from \in [DOMAIN g -> 0..Len(f)] :
          /\ \A a, b \in DOMAIN g : from[a] = from[b] => a = b
          /\ \A a \in DOMAIN g :
                IF from[a] = 0
                THEN /\ r.op = "enqueue" /\ g[a].id = r.id
                     /\ \A i \in DOMAIN f : f[i].document # g[a].document
                ELSE StillJob(g[a], f[from[a]])

LEMMA SameIsMade ==
    ASSUME NEW n, NEW f \in Seq(Job(n)), NEW r, n \in Nat,
           NEW g \in Seq(Job(n)), Len(g) = Len(f),
           \A i \in DOMAIN f : StillJob(g[i], f[i])
    PROVE  Made(g, f, r, n)
  <1> DEFINE from == [i \in DOMAIN g |-> i]
  <1>1. DOMAIN g = DOMAIN f /\ DOMAIN g = 1..Len(f) /\ Len(f) \in Nat
    OBVIOUS
  <1>2. from \in [DOMAIN g -> 0..Len(f)]
    BY <1>1
  <1>3. \A a, b \in DOMAIN g : from[a] = from[b] => a = b
    OBVIOUS
  <1>4. \A a \in DOMAIN g : from[a] # 0 /\ StillJob(g[a], f[from[a]])
    BY <1>1
  <1> HIDE DEF from
  <1> QED BY <1>2, <1>3, <1>4 DEF Made

LEMMA SomeIsMade ==
    ASSUME NEW n \in Nat, NEW f \in Seq(Job(n)), NEW r, NEW kept \in SUBSET (DOMAIN f)
    PROVE  Made(At(f, kept), f, r, n)
  <1>1. /\ At(f, kept) \in Seq(Job(n))
        /\ \E from \in [DOMAIN At(f, kept) -> kept] :
              /\ \A a \in DOMAIN At(f, kept) : At(f, kept)[a] = f[from[a]]
              /\ \A a, b \in DOMAIN At(f, kept) : a < b => from[a] < from[b]
    BY KeptAre
  <1> DEFINE g == At(f, kept)
  <1> HIDE DEF g
  <1>2. g \in Seq(Job(n)) /\ DOMAIN g = 1..Len(g) /\ Len(g) \in Nat
    BY <1>1 DEF g
  <1>3. PICK from \in [DOMAIN g -> kept] :
            /\ \A a \in DOMAIN g : g[a] = f[from[a]]
            /\ \A a, b \in DOMAIN g : a < b => from[a] < from[b]
    BY <1>1 DEF g
  <1>4. from \in [DOMAIN g -> 0..Len(f)] /\ \A a \in DOMAIN g : from[a] \in 1..Len(f)
    BY <1>3
  <1>5. \A a, b \in DOMAIN g : from[a] = from[b] => a = b
    BY <1>2, <1>3, <1>4
  <1>6. \A i \in DOMAIN f : f[i] \in Job(n)
    OBVIOUS
  <1>9. \A i \in DOMAIN f : StillJob(f[i], f[i])
    BY <1>6, JobFacts
  <1>7. \A a \in DOMAIN g : from[a] # 0 /\ StillJob(g[a], f[from[a]])
    BY <1>3, <1>4, <1>9
  <1>8. Made(g, f, r, n)
    BY <1>2, <1>4, <1>5, <1>7 DEF Made
  <1> QED BY <1>8 DEF g

LEMMA AppliedIsMade ==
    ASSUME NEW n \in Nat, NEW f \in Seq(Job(n)), NEW r \in LocalRequest(n), r.op # "none", clock \in Nat,
           \A l \in Answered(r, f) : l.token <= MaxFence
    PROVE  Made(Applied(r, f), f, r, n)
  <1> DEFINE g == Applied(r, f)
  <1>1. /\ DOMAIN f = 1..Len(f) /\ Len(f) \in Nat
        /\ \A i \in DOMAIN f : f[i] \in Job(n)
    OBVIOUS
  <1>0. \A i \in DOMAIN f : StillJob(f[i], f[i])
    BY <1>1, JobFacts
  <1>2. CASE r.op = "enqueue"
    <2>1. r.document \in QueuedDocument /\ r.id \in 1..n
      BY <1>2 DEF LocalRequest
    <2>2. g = IF \E i \in DOMAIN f : f[i].document = r.document THEN f
              ELSE Append(f, QueuedJob(r.id, r.document, clock))
      BY <1>2 DEF Applied
    <2>3. CASE \E i \in DOMAIN f : f[i].document = r.document
      <3>1. g = f
        BY <2>2, <2>3
      <3>3. Made(f, f, r, n)
        BY <1>0, SameIsMade
      <3> QED BY <3>1, <3>3
    <2>4. CASE \A i \in DOMAIN f : f[i].document # r.document
      <3> DEFINE j == QueuedJob(r.id, r.document, clock)
                 h == Append(f, j)
                 from == [a \in DOMAIN h |-> IF a = Len(f) + 1 THEN 0 ELSE a]
      <3>1. j \in Job(n) /\ j.id = r.id /\ j.document = r.document
        BY <2>1, LocalConstants DEF Job, QueuedJob
      <3> HIDE DEF j
      <3>2. h \in Seq(Job(n)) /\ DOMAIN h = 1..(Len(f) + 1) /\ h[Len(f) + 1] = j
            /\ \A a \in DOMAIN f : h[a] = f[a]
        BY <1>1, <3>1
      <3> HIDE DEF h
      <3>3. from \in [DOMAIN h -> 0..Len(f)] /\ \A a, b \in DOMAIN h : from[a] = from[b] => a = b
        BY <1>1, <3>2
      <3>4. \A a \in DOMAIN h : from[a] = IF a = Len(f) + 1 THEN 0 ELSE a
        OBVIOUS
      <3> HIDE DEF from
      <3>5. \A a \in DOMAIN h : a # Len(f) + 1 => a \in DOMAIN f /\ StillJob(h[a], f[a]) /\ a # 0
        BY <1>0, <1>1, <3>2
      <3>6. Made(h, f, r, n)
        BY <1>2, <2>4, <3>1, <3>2, <3>3, <3>4, <3>5 DEF Made
      <3> QED BY <2>2, <2>4, <3>6 DEF h, j
    <2> QED BY <2>3, <2>4
  <1>3. CASE r.op = "claim"
    <2>1. r.worker \in LocalWorker /\ r.at \in Nat
      BY <1>3 DEF LocalRequest
    <2>2. g = [i \in DOMAIN f |-> IF i \in Claimed(f, r.at) THEN Handed(f[i], r.worker, r.at) ELSE f[i]]
      BY <1>3 DEF Applied
    <2>3. \A i \in Claimed(f, r.at) : i \in DOMAIN f /\ f[i].token + 1 <= MaxFence
      <3> SUFFICES ASSUME NEW i \in Claimed(f, r.at) PROVE i \in DOMAIN f /\ f[i].token + 1 <= MaxFence
        OBVIOUS
      <3>1. [job |-> f[i].id, worker |-> r.worker, token |-> f[i].token + 1] \in Answered(r, f)
        BY <1>3 DEF Answered
      <3>2. i \in DOMAIN f
        BY DEF Claimed
      <3> QED BY <3>1, <3>2
    <2>4. \A i \in Claimed(f, r.at) :
              Handed(f[i], r.worker, r.at) \in Job(n) /\ StillJob(Handed(f[i], r.worker, r.at), f[i])
      BY <1>1, <2>1, <2>3, HandedJob
    <2>5. \A i \in DOMAIN f : g[i] \in Job(n) /\ StillJob(g[i], f[i])
      BY <1>0, <1>1, <2>2, <2>4
    <2>6. g \in Seq(Job(n)) /\ Len(g) = Len(f)
      BY <1>1, <2>2, <2>5
    <2> QED BY <2>5, <2>6, SameIsMade
  <1>4. CASE r.op = "renew"
    <2>1. g = [i \in DOMAIN f |->
                 IF i \in IndexOf(f, r.lease.job) /\ Owned(f[i], r.lease) /\ f[i].expires > clock
                 THEN [f[i] EXCEPT !.expires = clock + LeaseTicks] ELSE f[i]]
      BY <1>4 DEF Applied
    <2>2. \A i \in DOMAIN f : /\ [f[i] EXCEPT !.expires = clock + LeaseTicks] \in Job(n)
                              /\ StillJob([f[i] EXCEPT !.expires = clock + LeaseTicks], f[i])
      <3>1. clock + LeaseTicks \in Nat
        BY LocalConstants
      <3> QED BY <1>1, <3>1, RenewedJob
    <2>5. \A i \in DOMAIN f : g[i] \in Job(n) /\ StillJob(g[i], f[i])
      BY <1>0, <1>1, <2>1, <2>2
    <2>6. g \in Seq(Job(n)) /\ Len(g) = Len(f)
      BY <1>1, <2>1, <2>5
    <2> QED BY <2>5, <2>6, SameIsMade
  <1>5. CASE r.op = "release"
    <2>1. g = [i \in DOMAIN f |->
                 IF i \in IndexOf(f, r.lease.job) /\ Owned(f[i], r.lease)
                 THEN [f[i] EXCEPT !.state = "QUEUED", !.worker = NoOne, !.expires = 0,
                                   !.available = r.at]
                 ELSE f[i]]
      BY <1>5 DEF Applied
    <2>2. r.at \in Nat
      BY <1>5 DEF LocalRequest
    <2>5. \A i \in DOMAIN f : g[i] \in Job(n) /\ StillJob(g[i], f[i])
      BY <1>0, <1>1, <2>1, <2>2, ReleasedJob
    <2>6. g \in Seq(Job(n)) /\ Len(g) = Len(f)
      <3>1. g \in [1..Len(f) -> Job(n)]
        <4>1. DOMAIN g = DOMAIN f /\ g = [i \in DOMAIN g |-> g[i]]
          BY <2>1
        <4> HIDE DEF g
        <4> QED BY <1>1, <2>5, <4>1
      <3> HIDE DEF g
      <3> QED BY <1>1, <3>1
    <2> QED BY <2>5, <2>6, SameIsMade
  <1>6. CASE r.op = "acknowledge"
    <2>1. g = At(f, {i \in DOMAIN f : ~ (i \in IndexOf(f, r.lease.job) /\ Owned(f[i], r.lease))})
      BY <1>6 DEF Applied
    <2> QED BY <2>1, SomeIsMade
  <1>7. CASE r.op = "remove"
    <2>1. g = At(f, {i \in DOMAIN f : f[i].document # r.document})
      BY <1>7 DEF Applied
    <2> QED BY <2>1, SomeIsMade
  <1>8. r.op \in {"enqueue", "claim", "renew", "release", "acknowledge", "remove"}
    BY DEF LocalRequest
  <1> QED BY <1>2, <1>3, <1>4, <1>5, <1>6, <1>7, <1>8

\* Each process orders its operations: those under way are in turns, and the one
\* that has read the file is the first of them.
TurnsHold ==
    \A c \in Caller :
        /\ call[c].stage # "idle" => \E i \in DOMAIN turns[HomeOf[c]] : turns[HomeOf[c]][i] = c
        /\ call[c].stage = "read" => Head(turns[HomeOf[c]]) = c

\* What an operation has read is the file.
CopyIsFile == \A c \in Caller : call[c].stage = "read" => call[c].copy = file

\* Jobs differ in id and in document.
JobsDiffer ==
    \A i, k \in DOMAIN file : file[i].id = file[k].id \/ file[i].document = file[k].document => i = k

\* The id of a job that is not yet enqueued is nobody else's.
IdsAreFresh ==
    \A c \in Caller : call[c].asked.op = "enqueue" =>
        /\ \A i \in DOMAIN file : file[i].id # call[c].asked.id
        /\ \A l \in leases : l.job # call[c].asked.id
        /\ \A b \in Caller : call[b].asked.op = "enqueue" /\ call[b].asked.id = call[c].asked.id => b = c

\* Tokens of a job only grow, so a claim is never answered with an old one.
TokensGrow ==
    /\ \A l \in leases : l.job <= minted
    /\ \A l \in leases : \A i \in DOMAIN file : l.job = file[i].id => l.token <= file[i].token
    /\ \A l, m \in leases : l.job = m.job /\ l.token = m.token => l = m

\* The inductive invariant of a machine with one process.
LocalInv == OneProcess /\ LocalShape /\ TurnsHold /\ CopyIsFile /\ JobsDiffer /\ IdsAreFresh /\ TokensGrow

LEMMA LocalInitShape == LocalQueueInit => LocalShape
  <1> SUFFICES ASSUME LocalQueueInit PROVE LocalShape
    OBVIOUS
  <1>1. clock = 0 /\ file = <<>> /\ minted = 0 /\ leases = {} /\ turns = [p \in Process |-> <<>>]
        /\ call = [c \in Caller |-> Idle]
    BY DEF LocalQueueInit
  <1>2. call \in [Caller -> LocalCall(minted)] /\ \A c \in Caller : call[c] = Idle
    BY <1>1, IdleIsCall
  <1>3. turns \in [Process -> Seq(Caller)] /\ \A p \in Process : DOMAIN turns[p] = {}
    BY <1>1
  <1>4. file \in Seq(Job(minted))
    BY <1>1
  <1> QED BY <1>1, <1>2, <1>3, <1>4, IdleIsCall, LocalConstants DEF LocalShape

LEMMA LocalInitInv == OneProcess /\ LocalQueueInit => LocalInv
  <1> SUFFICES ASSUME OneProcess, LocalQueueInit PROVE LocalInv
    OBVIOUS
  <1>1. file = <<>> /\ leases = {} /\ \A c \in Caller : call[c] = Idle
    BY DEF LocalQueueInit
  <1>2. DOMAIN file = {}
    BY <1>1
  <1>3. TurnsHold /\ CopyIsFile
    BY <1>1, IdleIsCall DEF TurnsHold, CopyIsFile
  <1>4. JobsDiffer /\ IdsAreFresh /\ TokensGrow
    BY <1>1, <1>2, IdleIsCall DEF JobsDiffer, IdsAreFresh, TokensGrow
  <1> QED BY <1>3, <1>4, LocalInitShape DEF LocalInv

LEMMA EnterKeepsShape ==
    ASSUME LocalShape, NEW c \in Caller, NEW r, Enter(c, r), minted' \in {minted, minted + 1},
           minted' <= MaxJobs, r \in LocalRequest(minted'), r.op # "none"
    PROVE  LocalShape'
  <1>1. /\ clock \in Nat /\ minted \in 0..MaxJobs
        /\ file \in Seq(Job(minted)) /\ leases \subseteq Lease
        /\ turns \in [Process -> Seq(Caller)]
        /\ call \in [Caller -> LocalCall(minted)]
        /\ \A b \in Caller : call[b].stage = "idle" <=> call[b].asked.op = "none"
        /\ \A p \in Process : \A i \in DOMAIN turns[p] : HomeOf[turns[p][i]] = p
    BY DEF LocalShape
  <1>2. minted' \in 0..MaxJobs /\ minted \in Nat /\ minted' \in Nat /\ minted <= minted'
    BY <1>1, LocalConstants
  <1>3. Job(minted) \subseteq Job(minted') /\ LocalCall(minted) \subseteq LocalCall(minted')
    BY <1>2, MoreIds
  <1>4. clock' = clock /\ file' = file /\ leases' = leases
    BY DEF Enter
  <1>5. file' \in Seq(Job(minted'))
    BY <1>1, <1>3, <1>4
  <1> DEFINE k == [stage |-> "waiting", asked |-> r, copy |-> <<>>]
  <1>6. k \in LocalCall(minted') /\ k.stage # "idle" /\ k.asked.op # "none"
    <2>1. <<>> \in Seq(Job(minted'))
      OBVIOUS
    <2> QED BY <2>1 DEF LocalCall
  <1>7. call' = [call EXCEPT ![c] = k]
    BY DEF Enter
  <1> HIDE DEF k
  <1>8. call' \in [Caller -> LocalCall(minted')] /\ \A b \in Caller : call'[b] = IF b = c THEN k ELSE call[b]
    BY <1>1, <1>3, <1>6, <1>7
  <1>9. HomeOf[c] \in Process /\ turns' = [turns EXCEPT ![HomeOf[c]] = Append(@, c)]
    BY DEF Process, Enter
  <1>10. turns' \in [Process -> Seq(Caller)]
    BY <1>1, <1>9
  <1>11. ASSUME NEW p \in Process, NEW i \in DOMAIN turns'[p] PROVE HomeOf[turns'[p][i]] = p
    <2>1. CASE p # HomeOf[c]
      BY <1>1, <1>9, <2>1
    <2>2. CASE p = HomeOf[c]
      <3>1. turns'[p] = Append(turns[p], c) /\ turns[p] \in Seq(Caller)
        BY <1>1, <1>9, <2>2
      <3>2. (i \in DOMAIN turns[p] /\ turns'[p][i] = turns[p][i]) \/ turns'[p][i] = c
        BY <3>1
      <3> QED BY <1>1, <2>2, <3>2
    <2> QED BY <2>1, <2>2
  <1> QED BY <1>1, <1>2, <1>4, <1>5, <1>6, <1>8, <1>10, <1>11 DEF LocalShape

LEMMA ReadKeepsShape ==
    ASSUME LocalShape, NEW c \in Caller, ReadFile(c)
    PROVE  LocalShape'
  <1>1. /\ file \in Seq(Job(minted)) /\ call \in [Caller -> LocalCall(minted)]
        /\ \A b \in Caller : call[b].stage = "idle" <=> call[b].asked.op = "none"
    BY DEF LocalShape
  <1> DEFINE k == [call[c] EXCEPT !.stage = "read", !.copy = file]
  <1>2. k \in LocalCall(minted) /\ k.stage # "idle" /\ k.asked = call[c].asked /\ call[c].stage # "idle"
    BY <1>1 DEF LocalCall, ReadFile
  <1>3. call' = [call EXCEPT ![c] = k]
    BY <1>1 DEF LocalCall, ReadFile
  <1> HIDE DEF k
  <1>4. call' \in [Caller -> LocalCall(minted)] /\ \A b \in Caller : call'[b] = IF b = c THEN k ELSE call[b]
    BY <1>1, <1>2, <1>3
  <1> QED BY <1>1, <1>2, <1>4 DEF LocalShape, ReadFile

LEMMA AnswersAreLeases ==
    ASSUME NEW n \in Nat, n <= MaxJobs, NEW f \in Seq(Job(n)), NEW r \in LocalRequest(n),
           \A l \in Answered(r, f) : l.token <= MaxFence
    PROVE  Answered(r, f) \subseteq Lease
  <1> SUFFICES ASSUME NEW l \in Answered(r, f) PROVE l \in Lease
    OBVIOUS
  <1>1. r.op = "claim" /\ r.worker \in LocalWorker
    BY DEF Answered, LocalRequest
  <1>2. PICK i \in Claimed(f, r.at) : l = [job |-> f[i].id, worker |-> r.worker, token |-> f[i].token + 1]
    BY <1>1 DEF Answered
  <1>3. i \in DOMAIN f /\ f[i] \in Job(n)
    <2>1. i \in DOMAIN f
      BY <1>2 DEF Claimed
    <2> QED BY <2>1
  <1>4. f[i].token + 1 \in 1..MaxFence /\ f[i].id \in 1..MaxJobs
    <2>1. f[i].token \in Nat /\ f[i].id \in 1..n
      BY <1>3, JobFacts
    <2>2. f[i].token + 1 <= MaxFence
      BY <1>2
    <2> QED BY <2>1, <2>2, LocalConstants
  <1> QED BY <1>1, <1>2, <1>4 DEF Lease

LEMMA WriteKeepsShape ==
    ASSUME LocalShape, TurnsHold, NEW c \in Caller, WriteFile(c)
    PROVE  LocalShape' /\ Made(file', call[c].copy, call[c].asked, minted)
  <1>1. /\ clock \in Nat /\ minted \in 0..MaxJobs
        /\ file \in Seq(Job(minted)) /\ leases \subseteq Lease
        /\ turns \in [Process -> Seq(Caller)]
        /\ call \in [Caller -> LocalCall(minted)]
        /\ \A b \in Caller : call[b].stage = "idle" <=> call[b].asked.op = "none"
        /\ \A p \in Process : \A i \in DOMAIN turns[p] : HomeOf[turns[p][i]] = p
    BY DEF LocalShape
  <1> DEFINE r == call[c].asked
             f == call[c].copy
  <1>2. /\ call[c].stage = "read" /\ \A l \in Answered(r, f) : l.token <= MaxFence
        /\ file' = Applied(r, f) /\ leases' = leases \cup Answered(r, f)
        /\ call' = [call EXCEPT ![c] = Idle]
        /\ turns' = [turns EXCEPT ![HomeOf[c]] = Tail(turns[HomeOf[c]])]
        /\ clock' = clock /\ minted' = minted
    BY DEF WriteFile
  <1>3. f \in Seq(Job(minted)) /\ r \in LocalRequest(minted) /\ r.op # "none" /\ minted \in Nat /\ minted <= MaxJobs
    BY <1>1, <1>2, LocalConstants DEF LocalCall
  <1> HIDE DEF r, f
  <1>4. Made(file', f, r, minted)
    BY <1>1, <1>2, <1>3, AppliedIsMade
  <1>5. file' \in Seq(Job(minted')) /\ leases' \subseteq Lease
    BY <1>1, <1>2, <1>3, <1>4, AnswersAreLeases DEF Made
  <1>6. call' \in [Caller -> LocalCall(minted')] /\ \A b \in Caller : call'[b] = IF b = c THEN Idle ELSE call[b]
    BY <1>1, <1>2, <1>3, IdleIsCall
  <1>7. HomeOf[c] \in Process
    BY DEF Process
  <1>8. /\ turns' \in [Process -> Seq(Caller)]
        /\ \A p \in Process : \A i \in DOMAIN turns'[p] : HomeOf[turns'[p][i]] = p
    <2> DEFINE t == turns[HomeOf[c]]
    <2>1. t \in Seq(Caller) /\ t # <<>>
      BY <1>1, <1>2, <1>7 DEF TurnsHold
    <2>2. Tail(t) \in Seq(Caller) /\ \A i \in DOMAIN Tail(t) : i + 1 \in DOMAIN t /\ Tail(t)[i] = t[i + 1]
      BY <2>1
    <2>3. \A i \in DOMAIN Tail(t) : HomeOf[Tail(t)[i]] = HomeOf[c]
      BY <1>1, <1>7, <2>2
    <2> HIDE DEF t
    <2>4. turns' = [turns EXCEPT ![HomeOf[c]] = Tail(t)]
      BY <1>2 DEF t
    <2> QED BY <1>1, <1>7, <2>2, <2>3, <2>4
  <1>9. LocalShape'
    BY <1>1, <1>2, <1>5, <1>6, <1>8, IdleIsCall DEF LocalShape
  <1> QED BY <1>4, <1>9 DEF r, f

LEMMA DeathKeepsShape ==
    ASSUME LocalShape, NEW p \in Process, ProcessDies(p)
    PROVE  LocalShape'
  <1>1. /\ minted \in Nat /\ turns \in [Process -> Seq(Caller)] /\ call \in [Caller -> LocalCall(minted)]
        /\ \A b \in Caller : call[b].stage = "idle" <=> call[b].asked.op = "none"
        /\ \A q \in Process : \A i \in DOMAIN turns[q] : HomeOf[turns[q][i]] = q
    BY LocalConstants DEF LocalShape
  <1>2. call' = [c \in Caller |-> IF HomeOf[c] = p THEN Idle ELSE call[c]]
        /\ turns' = [turns EXCEPT ![p] = <<>>]
    BY DEF ProcessDies
  <1>3. call' \in [Caller -> LocalCall(minted)] /\ \A c \in Caller : call'[c] = Idle \/ call'[c] = call[c]
    BY <1>1, <1>2, IdleIsCall
  <1>4. /\ turns' \in [Process -> Seq(Caller)]
        /\ \A q \in Process : DOMAIN turns'[q] = {} \/ turns'[q] = turns[q]
    BY <1>1, <1>2
  <1> QED BY <1>1, <1>3, <1>4, IdleIsCall DEF LocalShape, ProcessDies

LEMMA RequestsAreTyped ==
    ASSUME LocalShape
    PROVE  LET R == LocalRequest(minted) IN
           /\ \A d \in QueuedDocument :
                 /\ [op |-> "enqueue", document |-> d, id |-> minted + 1] \in LocalRequest(minted + 1)
                 /\ [op |-> "remove", document |-> d] \in R
           /\ \A w \in LocalWorker : [op |-> "claim", worker |-> w, at |-> clock] \in R
           /\ \A l \in leases :
                 /\ [op |-> "renew", lease |-> l] \in R /\ [op |-> "acknowledge", lease |-> l] \in R
                 /\ \A delay \in 0..1 : [op |-> "release", lease |-> l, at |-> clock + delay] \in R
  <1>1. /\ leases \subseteq Lease /\ clock \in Nat /\ \A delay \in 0..1 : clock + delay \in Nat
        /\ minted + 1 \in 1..(minted + 1)
    BY LocalConstants DEF LocalShape
  <1> QED BY <1>1 DEF LocalRequest

LEMMA EnterKeepsTurns ==
    ASSUME LocalShape, TurnsHold, NEW c \in Caller, NEW r, Enter(c, r)
    PROVE  TurnsHold'
  <1>1. turns \in [Process -> Seq(Caller)] /\ HomeOf[c] \in Process /\ DOMAIN call = Caller
    BY DEF LocalShape, Process
  <1> DEFINE t == turns[HomeOf[c]]
  <1>2. turns' = [turns EXCEPT ![HomeOf[c]] = Append(t, c)]
    BY DEF Enter
  <1>3. t \in Seq(Caller)
    BY <1>1
  <1> HIDE DEF t
  <1>4. /\ \A i \in DOMAIN t : i \in DOMAIN Append(t, c) /\ Append(t, c)[i] = t[i]
        /\ Len(t) + 1 \in DOMAIN Append(t, c) /\ Append(t, c)[Len(t) + 1] = c
        /\ DOMAIN t # {} => Head(Append(t, c)) = Head(t)
    BY <1>3
  <1>5. \A b \in Caller \ {c} : call'[b] = call[b]
    BY <1>1 DEF Enter
  <1>6. call'[c].stage = "waiting"
    BY <1>1 DEF Enter
  <1>7. turns'[HomeOf[c]] = Append(t, c) /\ \A p \in Process : p # HomeOf[c] => turns'[p] = turns[p]
    BY <1>1, <1>2
  <1> SUFFICES ASSUME NEW b \in Caller
               PROVE  /\ call'[b].stage # "idle" => \E i \in DOMAIN turns'[HomeOf[b]] : turns'[HomeOf[b]][i] = b
                      /\ call'[b].stage = "read" => Head(turns'[HomeOf[b]]) = b
    BY DEF TurnsHold
  <1>8. HomeOf[b] \in Process
    BY DEF Process
  <1>9. CASE b = c
    BY <1>4, <1>6, <1>7, <1>9
  <1>10. CASE b # c /\ HomeOf[b] # HomeOf[c]
    <2>1. turns'[HomeOf[b]] = turns[HomeOf[b]] /\ call'[b] = call[b]
      BY <1>5, <1>7, <1>8, <1>10
    <2> QED BY <2>1 DEF TurnsHold
  <1>11. CASE b # c /\ HomeOf[b] = HomeOf[c]
    <2>1. /\ call[b].stage # "idle" => \E i \in DOMAIN t : t[i] = b
          /\ call[b].stage = "read" => Head(t) = b
      BY <1>11 DEF TurnsHold, t
    <2>2. turns'[HomeOf[b]] = Append(t, c) /\ call'[b] = call[b]
      BY <1>5, <1>7, <1>11
    <2> QED BY <1>4, <2>1, <2>2
  <1> QED BY <1>9, <1>10, <1>11

LEMMA ReadKeepsTurns ==
    ASSUME LocalShape, TurnsHold, NEW c \in Caller, ReadFile(c)
    PROVE  TurnsHold'
  <1>1. DOMAIN call = Caller /\ call[c].stage = "waiting" /\ Head(turns[HomeOf[c]]) = c /\ turns' = turns
    BY DEF LocalShape, ReadFile, MyTurn
  <1>2. \A b \in Caller : b # c => call'[b] = call[b]
    BY <1>1 DEF ReadFile
  <1> QED BY <1>1, <1>2 DEF TurnsHold

LEMMA WriteKeepsTurns ==
    ASSUME LocalShape, TurnsHold, NEW c \in Caller, WriteFile(c)
    PROVE  TurnsHold'
  <1>1. turns \in [Process -> Seq(Caller)] /\ HomeOf[c] \in Process /\ DOMAIN call = Caller
    BY DEF LocalShape, Process
  <1> DEFINE t == turns[HomeOf[c]]
  <1>2. turns' = [turns EXCEPT ![HomeOf[c]] = Tail(t)] /\ call' = [call EXCEPT ![c] = Idle]
    BY DEF WriteFile
  <1>3. t \in Seq(Caller) /\ Head(t) = c /\ DOMAIN t # {}
    <2>1. call[c].stage = "read"
      BY DEF WriteFile
    <2> QED BY <1>1, <2>1 DEF TurnsHold
  <1> HIDE DEF t
  <1>4. \A i \in DOMAIN t : t[i] # c => i - 1 \in DOMAIN Tail(t) /\ Tail(t)[i - 1] = t[i]
    BY <1>3
  <1>5. call'[c].stage = "idle" /\ \A b \in Caller \ {c} : call'[b] = call[b]
    BY <1>1, <1>2, IdleIsCall
  <1>7. turns'[HomeOf[c]] = Tail(t) /\ \A p \in Process : p # HomeOf[c] => turns'[p] = turns[p]
    BY <1>1, <1>2
  <1> SUFFICES ASSUME NEW b \in Caller
               PROVE  /\ call'[b].stage # "idle" => \E i \in DOMAIN turns'[HomeOf[b]] : turns'[HomeOf[b]][i] = b
                      /\ call'[b].stage = "read" => Head(turns'[HomeOf[b]]) = b
    BY DEF TurnsHold
  <1>8. HomeOf[b] \in Process
    BY DEF Process
  <1>9. CASE b = c
    BY <1>5, <1>9
  <1>10. CASE b # c /\ HomeOf[b] # HomeOf[c]
    <2>1. turns'[HomeOf[b]] = turns[HomeOf[b]] /\ call'[b] = call[b]
      BY <1>5, <1>7, <1>8, <1>10
    <2> QED BY <2>1 DEF TurnsHold
  <1>11. CASE b # c /\ HomeOf[b] = HomeOf[c]
    <2>1. /\ call[b].stage # "idle" => \E i \in DOMAIN t : t[i] = b
          /\ call[b].stage # "read"
      BY <1>3, <1>11 DEF TurnsHold, t
    <2>2. turns'[HomeOf[b]] = Tail(t) /\ call'[b] = call[b]
      BY <1>5, <1>7, <1>11
    <2> QED BY <1>4, <1>11, <2>1, <2>2
  <1> QED BY <1>9, <1>10, <1>11

LEMMA DeathKeepsTurns ==
    ASSUME LocalShape, TurnsHold, NEW p \in Process, ProcessDies(p)
    PROVE  TurnsHold'
  <1>1. /\ \A b \in Caller : call'[b] = IF HomeOf[b] = p THEN Idle ELSE call[b]
        /\ \A q \in Process : q # p => turns'[q] = turns[q]
        /\ \A b \in Caller : HomeOf[b] \in Process
    BY DEF ProcessDies, Process, LocalShape
  <1> SUFFICES ASSUME NEW b \in Caller
               PROVE  /\ call'[b].stage # "idle" => \E i \in DOMAIN turns'[HomeOf[b]] : turns'[HomeOf[b]][i] = b
                      /\ call'[b].stage = "read" => Head(turns'[HomeOf[b]]) = b
    BY DEF TurnsHold
  <1>2. CASE HomeOf[b] = p
    BY <1>1, <1>2, IdleIsCall
  <1>3. CASE HomeOf[b] # p
    <2>1. turns'[HomeOf[b]] = turns[HomeOf[b]] /\ call'[b] = call[b]
      BY <1>1, <1>3
    <2> QED BY <2>1 DEF TurnsHold
  <1> QED BY <1>2, <1>3

\* What an operation joins the turns with.
Joins(c, r) ==
    /\ Enter(c, r) /\ r \in LocalRequest(minted') /\ r.op # "none"
    /\ minted' \in {minted, minted + 1} /\ minted' <= MaxJobs
    /\ r.op = "enqueue" => r.id = minted + 1 /\ minted' = minted + 1

LEMMA LocalSteps ==
    ASSUME LocalShape, LocalQueueNext
    PROVE  \/ \E c \in Caller, r \in LocalRequest(minted') : Joins(c, r)
           \/ \E c \in Caller : ReadFile(c) \/ WriteFile(c)
           \/ \E p \in Process : ProcessDies(p)
           \/ ClockTicks
  <1>1. minted \in 0..MaxJobs /\ MaxJobs \in Nat
    BY LocalConstants DEF LocalShape
  <1>2. ASSUME NEW c \in Caller, NEW d \in QueuedDocument, EnqueueLocal(c, d)
        PROVE  \E r \in LocalRequest(minted') : Joins(c, r)
    <2> DEFINE r == [op |-> "enqueue", document |-> d, id |-> minted + 1]
    <2>1. minted' = minted + 1 /\ minted' <= MaxJobs /\ Enter(c, r)
      BY <1>1, <1>2 DEF EnqueueLocal
    <2>2. r \in LocalRequest(minted')
      BY <2>1, RequestsAreTyped
    <2>3. r.op = "enqueue" /\ r.id = minted + 1
      OBVIOUS
    <2> HIDE DEF r
    <2> QED BY <2>1, <2>2, <2>3 DEF Joins
  <1>3. ASSUME NEW c \in Caller, NEW r \in LocalRequest(minted), Enter(c, r), minted' = minted,
               r.op \in {"claim", "renew", "acknowledge", "release", "remove"}
        PROVE  \E q \in LocalRequest(minted') : Joins(c, q)
    BY <1>1, <1>3 DEF Joins
  <1>4. ASSUME NEW c \in Caller, NEW d \in QueuedDocument, RemoveLocal(c, d)
        PROVE  \E r \in LocalRequest(minted') : Joins(c, r)
    <2>1. [op |-> "remove", document |-> d] \in LocalRequest(minted)
      BY RequestsAreTyped
    <2> QED BY <1>3, <1>4, <2>1 DEF RemoveLocal
  <1>5. ASSUME NEW c \in Caller, NEW w \in LocalWorker, ClaimLocal(c, w)
        PROVE  \E r \in LocalRequest(minted') : Joins(c, r)
    <2>1. [op |-> "claim", worker |-> w, at |-> clock] \in LocalRequest(minted)
      BY RequestsAreTyped
    <2> QED BY <1>3, <1>5, <2>1 DEF ClaimLocal
  <1>6. ASSUME NEW c \in Caller, NEW l \in leases, RenewLocal(c, l)
        PROVE  \E r \in LocalRequest(minted') : Joins(c, r)
    <2>1. [op |-> "renew", lease |-> l] \in LocalRequest(minted)
      BY RequestsAreTyped
    <2> QED BY <1>3, <1>6, <2>1 DEF RenewLocal
  <1>7. ASSUME NEW c \in Caller, NEW l \in leases, AcknowledgeLocal(c, l)
        PROVE  \E r \in LocalRequest(minted') : Joins(c, r)
    <2>1. [op |-> "acknowledge", lease |-> l] \in LocalRequest(minted)
      BY RequestsAreTyped
    <2> QED BY <1>3, <1>7, <2>1 DEF AcknowledgeLocal
  <1>8. ASSUME NEW c \in Caller, NEW l \in leases, NEW delay \in 0..1, ReleaseLocal(c, l, clock + delay)
        PROVE  \E r \in LocalRequest(minted') : Joins(c, r)
    <2>1. [op |-> "release", lease |-> l, at |-> clock + delay] \in LocalRequest(minted)
      BY RequestsAreTyped
    <2> QED BY <1>3, <1>8, <2>1 DEF ReleaseLocal
  <1> QED BY <1>2, <1>4, <1>5, <1>6, <1>7, <1>8 DEF LocalQueueNext

LEMMA TypedStep == LocalShape /\ TurnsHold /\ [LocalQueueNext]_localVars => (LocalShape /\ TurnsHold)'
  <1> SUFFICES ASSUME LocalShape, TurnsHold, [LocalQueueNext]_localVars PROVE (LocalShape /\ TurnsHold)'
    OBVIOUS
  <1>1. ASSUME NEW c \in Caller, NEW r \in LocalRequest(minted'), Joins(c, r) PROVE (LocalShape /\ TurnsHold)'
    BY <1>1, EnterKeepsShape, EnterKeepsTurns DEF Joins
  <1>2. ASSUME NEW c \in Caller, ReadFile(c) PROVE (LocalShape /\ TurnsHold)'
    BY <1>2, ReadKeepsShape, ReadKeepsTurns
  <1>3. ASSUME NEW c \in Caller, WriteFile(c) PROVE (LocalShape /\ TurnsHold)'
    BY <1>3, WriteKeepsShape, WriteKeepsTurns
  <1>4. ASSUME NEW p \in Process, ProcessDies(p) PROVE (LocalShape /\ TurnsHold)'
    BY <1>4, DeathKeepsShape, DeathKeepsTurns
  <1>5. CASE ClockTicks
    BY <1>5 DEF ClockTicks, LocalShape, TurnsHold
  <1>6. CASE UNCHANGED localVars
    BY <1>6 DEF localVars, LocalShape, TurnsHold
  <1> QED BY <1>1, <1>2, <1>3, <1>4, <1>5, <1>6, LocalSteps

\* The jobs of the file queues, the leases and the turns of their calls keep
\* their shape, in any number of processes.
THEOREM LocalQueueIsTyped == LocalQueueSpec => []LocalQueueTypeOK
  <1>1. LocalQueueInit => LocalShape /\ TurnsHold
    <2>1. LocalQueueInit => TurnsHold
      BY IdleIsCall DEF LocalQueueInit, TurnsHold
    <2> QED BY <2>1, LocalInitShape
  <1>2. LocalShape => LocalQueueTypeOK
    <2> SUFFICES ASSUME LocalShape PROVE LocalQueueTypeOK
      OBVIOUS
    <2>1. minted \in Nat /\ \A i \in DOMAIN file : file[i] \in Job(minted)
      BY LocalConstants DEF LocalShape
    <2>2. \A i \in DOMAIN file : file[i].id \in 1..minted /\ file[i].token \in 0..MaxFence
      BY <2>1 DEF Job
    <2> QED BY <2>2 DEF LocalShape, LocalQueueTypeOK, Lease
  <1> QED BY <1>1, <1>2, TypedStep, PTL DEF LocalQueueSpec

\* What LocalQueueIsSequential asks of a step.
Sequential ==
    /\ \A c \in Caller : call[c].stage = "read" /\ call'[c].stage = "idle" /\ file' # file =>
                            file' = Applied(call[c].asked, file)
    /\ \A i, k \in DOMAIN file' : file'[i].document = file'[k].document => i = k
    /\ \A l, m \in leases' : l.job = m.job /\ l.token = m.token => l = m

\* What the order of the turns is for.
Sound == CopyIsFile /\ JobsDiffer /\ IdsAreFresh /\ TokensGrow

LEMMA EnterKeepsSound ==
    ASSUME LocalInv, NEW c \in Caller, NEW r \in LocalRequest(minted'), Joins(c, r)
    PROVE  Sound' /\ file' = file
  <1>1. file' = file /\ leases' = leases
    BY DEF Joins, Enter
  <1>2. /\ call'[c].stage = "waiting" /\ call'[c].asked = r
        /\ \A b \in Caller : b # c => call'[b] = call[b]
    BY DEF LocalInv, LocalShape, Joins, Enter
  <1>3. /\ minted \in Nat /\ minted' \in {minted, minted + 1}
        /\ \A i \in DOMAIN file : file[i].id \in 1..minted
        /\ \A l \in leases : l.job \in Nat /\ l.job <= minted
        /\ \A b \in Caller : call[b].asked.op = "enqueue" => call[b].asked.id \in 1..minted
    <2>1. minted \in Nat /\ minted' \in {minted, minted + 1}
      BY LocalConstants DEF LocalInv, LocalShape, Joins
    <2>2. \A i \in DOMAIN file : file[i] \in Job(minted)
      BY DEF LocalInv, LocalShape
    <2>3. \A i \in DOMAIN file : file[i].id \in 1..minted
      BY <2>1, <2>2, JobFacts
    <2>4. \A l \in leases : l.job \in Nat /\ l.job <= minted
      BY DEF LocalInv, LocalShape, Lease, TokensGrow
    <2>5. \A b \in Caller : call[b].asked \in LocalRequest(minted)
      BY DEF LocalInv, LocalShape, LocalCall
    <2>6. \A b \in Caller : call[b].asked.op = "enqueue" => call[b].asked.id \in 1..minted
      BY <2>5 DEF LocalRequest
    <2> QED BY <2>1, <2>3, <2>4, <2>6
  <1>4. CopyIsFile'
    BY <1>1, <1>2 DEF LocalInv, CopyIsFile
  <1>5. JobsDiffer'
    BY <1>1 DEF LocalInv, JobsDiffer
  <1>6. r.op = "enqueue" => r.id = minted + 1
    BY DEF Joins
  <1>7. IdsAreFresh'
    BY <1>1, <1>2, <1>3, <1>6 DEF LocalInv, IdsAreFresh
  <1>8. TokensGrow'
    BY <1>1, <1>3 DEF LocalInv, TokensGrow
  <1> QED BY <1>1, <1>4, <1>5, <1>7, <1>8 DEF Sound

LEMMA ReadKeepsSound ==
    ASSUME LocalInv, NEW c \in Caller, ReadFile(c)
    PROVE  Sound' /\ file' = file
  <1>1. file' = file /\ leases' = leases /\ minted' = minted
    BY DEF ReadFile
  <1>2. /\ call'[c].asked = call[c].asked /\ call'[c].copy = file
        /\ \A b \in Caller : b # c => call'[b] = call[b]
    BY DEF LocalInv, LocalShape, LocalCall, ReadFile
  <1>3. \A b \in Caller : call'[b].asked = call[b].asked
    BY <1>2
  <1>4. CopyIsFile'
    BY <1>1, <1>2 DEF LocalInv, CopyIsFile
  <1> QED BY <1>1, <1>3, <1>4 DEF Sound, LocalInv, JobsDiffer, IdsAreFresh, TokensGrow

LEMMA DeathKeepsSound ==
    ASSUME LocalInv, NEW p \in Process, ProcessDies(p)
    PROVE  Sound' /\ file' = file
  <1>1. file' = file /\ leases' = leases /\ minted' = minted
    BY DEF ProcessDies
  <1>2. \A b \in Caller : call'[b] = Idle \/ call'[b] = call[b]
    BY DEF ProcessDies
  <1>3. CopyIsFile'
    BY <1>1, <1>2, IdleIsCall DEF LocalInv, CopyIsFile
  <1>4. IdsAreFresh'
    BY <1>1, <1>2, IdleIsCall DEF LocalInv, IdsAreFresh
  <1> QED BY <1>1, <1>3, <1>4 DEF Sound, LocalInv, JobsDiffer, TokensGrow

\* The one claim an operation answers with is of the job it has found, and comes
\* after every earlier one.
LEMMA AnswerIsNew ==
    ASSUME LocalShape, NEW r \in LocalRequest(minted), JobsDiffer, TokensGrow,
           NEW l \in Answered(r, file)
    PROVE  /\ \A m \in leases : m.job = l.job => m.token < l.token
           /\ \A m \in Answered(r, file) : m = l
           /\ \E i \in Claimed(file, r.at) : l.job = file[i].id /\ l.token = file[i].token + 1
           /\ r.op = "claim"
  <1>1. r.op = "claim"
    BY DEF Answered
  <1>2. PICK i \in Claimed(file, r.at) :
            l = [job |-> file[i].id, worker |-> r.worker, token |-> file[i].token + 1]
    BY <1>1 DEF Answered
  <1>3. i \in DOMAIN file
    BY <1>2 DEF Claimed
  <1>4. file[i].token \in Nat
    <2>1. file[i] \in Job(minted) /\ minted \in Nat
      BY <1>3, LocalConstants DEF LocalShape
    <2> QED BY <2>1, JobFacts
  <1>5. \A m \in leases : m.job = l.job => m.token < l.token
    BY <1>2, <1>3, <1>4 DEF TokensGrow, LocalShape, Lease
  <1>6. \A k \in Claimed(file, r.at) : k = i
    <2> SUFFICES ASSUME NEW k \in Claimed(file, r.at), k # i PROVE FALSE
      OBVIOUS
    <2>1. i \in Nat /\ k \in Nat /\ i >= 1 /\ k >= 1
      BY DEF Claimed, LocalShape
    <2>2. ClaimableLocal(file[i], r.at) /\ ClaimableLocal(file[k], r.at)
      BY DEF Claimed
    <2>3. i \in 1..(k - 1) \/ k \in 1..(i - 1)
      BY <2>1
    <2> QED BY <2>2, <2>3 DEF Claimed
  <1>7. \A m \in Answered(r, file) : m = l
    BY <1>1, <1>2, <1>6 DEF Answered
  <1> QED BY <1>1, <1>2, <1>5, <1>7

LEMMA WriteKeepsSound ==
    ASSUME LocalInv, NEW c \in Caller, WriteFile(c)
    PROVE  Sound' /\ Sequential
  <1> DEFINE r == call[c].asked
  <1>1. /\ minted \in Nat /\ minted <= MaxJobs /\ file \in Seq(Job(minted)) /\ leases \subseteq Lease
        /\ call \in [Caller -> LocalCall(minted)] /\ LocalShape /\ TurnsHold
    BY LocalConstants DEF LocalInv, LocalShape
  <1>2. call[c].stage = "read" /\ call[c].copy = file
    BY DEF WriteFile, LocalInv, CopyIsFile
  <1>3. /\ file' = Applied(r, file) /\ leases' = leases \cup Answered(r, file)
        /\ \A l \in Answered(r, file) : l.token <= MaxFence
        /\ minted' = minted
    BY <1>2 DEF WriteFile
  <1>4. call'[c] = Idle /\ \A b \in Caller : b # c => call'[b] = call[b]
    BY <1>1 DEF WriteFile
  <1>5. \A b \in Caller : call'[b].stage # "read" /\ (call[b].stage = "read" => b = c)
    <2>1. \A b \in Caller : call[b].stage = "read" => b = c
      BY <1>2 DEF LocalInv, OneProcess, TurnsHold
    <2> QED BY <1>4, <2>1, IdleIsCall
  <1>6. r \in LocalRequest(minted)
    BY <1>1 DEF LocalCall
  <1>7. r.op # "none"
    BY <1>2 DEF LocalInv, LocalShape
  <1> HIDE DEF r
  <1>8. Made(file', file, r, minted)
    <2>1. Made(file', call[c].copy, call[c].asked, minted)
      BY <1>1, WriteKeepsShape
    <2> QED BY <1>2, <2>1 DEF r
  <1>9. PICK from \in [DOMAIN file' -> 0..Len(file)] :
            /\ \A a, b \in DOMAIN file' : from[a] = from[b] => a = b
            /\ \A a \in DOMAIN file' :
                  IF from[a] = 0
                  THEN /\ r.op = "enqueue" /\ file'[a].id = r.id
                       /\ \A i \in DOMAIN file : file[i].document # file'[a].document
                  ELSE StillJob(file'[a], file[from[a]])
    BY <1>8 DEF Made
  <1>10. \A a \in DOMAIN file' : from[a] # 0 => from[a] \in DOMAIN file
    BY <1>1, <1>9
  <1>11. JobsDiffer
    BY DEF LocalInv
  <1>12. r.op = "enqueue" => \A i \in DOMAIN file : file[i].id # r.id
    BY DEF LocalInv, IdsAreFresh, r
  <1>13. JobsDiffer'
    <2> SUFFICES ASSUME NEW a \in DOMAIN file', NEW b \in DOMAIN file',
                        file'[a].id = file'[b].id \/ file'[a].document = file'[b].document
                 PROVE  from[a] = from[b]
      BY <1>9 DEF JobsDiffer
    <2>1. CASE from[a] # 0 /\ from[b] # 0
      BY <1>9, <1>10, <1>11, <2>1 DEF StillJob, JobsDiffer
    <2>2. CASE from[a] # 0 /\ from[b] = 0
      BY <1>9, <1>10, <1>12, <2>2 DEF StillJob
    <2>3. CASE from[a] = 0 /\ from[b] # 0
      BY <1>9, <1>10, <1>12, <2>3 DEF StillJob
    <2> QED BY <2>1, <2>2, <2>3
  <1>14. IdsAreFresh'
    <2> SUFFICES ASSUME NEW b \in Caller, call'[b].asked.op = "enqueue"
                 PROVE  /\ \A a \in DOMAIN file' : file'[a].id # call'[b].asked.id
                        /\ \A l \in leases' : l.job # call'[b].asked.id
                        /\ \A d \in Caller : call'[d].asked.op = "enqueue" /\ call'[d].asked.id = call'[b].asked.id
                                             => d = b
      BY DEF IdsAreFresh
    <2>1. b # c /\ call'[b] = call[b] /\ IdsAreFresh
      BY <1>4, IdleIsCall DEF LocalInv
    <2>2. \A d \in Caller : call'[d].asked.op = "enqueue" => d # c /\ call'[d] = call[d]
      BY <1>4, IdleIsCall
    <2>3. \A i \in DOMAIN file : file[i].id # call[b].asked.id
      BY <2>1 DEF IdsAreFresh
    <2>4. \A a \in DOMAIN file' : file'[a].id # call[b].asked.id
      <3> SUFFICES ASSUME NEW a \in DOMAIN file' PROVE file'[a].id # call[b].asked.id
        OBVIOUS
      <3>1. CASE from[a] = 0
        <4>1. call[c].asked.op = "enqueue" /\ file'[a].id = call[c].asked.id
          BY <1>9, <3>1 DEF r
        <4> QED BY <2>1, <4>1 DEF IdsAreFresh
      <3>2. CASE from[a] # 0
        BY <1>9, <1>10, <2>3, <3>2 DEF StillJob
      <3> QED BY <3>1, <3>2
    <2>5. \A l \in leases' : l.job # call[b].asked.id
      <3> SUFFICES ASSUME NEW l \in leases' PROVE l.job # call[b].asked.id
        OBVIOUS
      <3>1. CASE l \in leases
        BY <2>1, <3>1 DEF IdsAreFresh
      <3>2. CASE l \in Answered(r, file)
        <4>1. PICK i \in Claimed(file, r.at) : l.job = file[i].id
          BY <1>1, <1>6, <1>11, <3>2, AnswerIsNew DEF LocalInv
        <4> QED BY <2>3, <4>1 DEF Claimed
      <3> QED BY <1>3, <3>1, <3>2
    <2> QED BY <2>1, <2>2, <2>4, <2>5 DEF IdsAreFresh
  <1>15. TokensGrow
    BY DEF LocalInv
  <1>16. ASSUME NEW l \in Answered(r, file)
         PROVE  /\ \A m \in leases : m.job = l.job => m.token < l.token
                /\ \A m \in Answered(r, file) : m = l
                /\ \E i \in Claimed(file, r.at) : l.job = file[i].id /\ l.token = file[i].token + 1
                /\ r.op = "claim"
    BY <1>1, <1>6, <1>11, <1>15, AnswerIsNew
  <1>17. \A l, m \in leases' : l.job = m.job /\ l.token = m.token => l = m
    <2> SUFFICES ASSUME NEW l \in leases', NEW m \in leases', l.job = m.job, l.token = m.token
                 PROVE  l = m
      OBVIOUS
    <2>1. ASSUME NEW x \in leases, NEW y \in Answered(r, file), x.job = y.job, x.token = y.token PROVE FALSE
      <3>1. x.token \in Nat
        BY <1>1 DEF Lease
      <3>2. x.token < y.token
        BY <1>16, <2>1
      <3> QED BY <2>1, <3>1, <3>2
    <2>2. CASE l \in leases /\ m \in leases
      BY <1>15, <2>2 DEF TokensGrow
    <2>3. CASE l \in Answered(r, file) /\ m \in Answered(r, file)
      BY <1>16, <2>3
    <2> QED BY <1>3, <2>1, <2>2, <2>3
  <1>18. \A l \in leases' : l.job <= minted
    <2> SUFFICES ASSUME NEW l \in leases' PROVE l.job <= minted
      OBVIOUS
    <2>1. CASE l \in leases
      BY <1>15, <2>1 DEF TokensGrow
    <2>2. CASE l \in Answered(r, file)
      <3>1. PICK i \in Claimed(file, r.at) : l.job = file[i].id
        BY <1>16, <2>2
      <3>2. file[i] \in Job(minted)
        BY <1>1, <3>1 DEF Claimed
      <3>3. file[i].id \in 1..minted
        BY <1>1, <3>2, JobFacts
      <3> QED BY <1>1, <3>1, <3>3
    <2> QED BY <1>3, <2>1, <2>2
  <1>19. \A l \in leases' : \A a \in DOMAIN file' : l.job = file'[a].id => l.token <= file'[a].token
    <2> SUFFICES ASSUME NEW l \in leases', NEW a \in DOMAIN file', l.job = file'[a].id
                 PROVE  l.token <= file'[a].token
      OBVIOUS
    <2>1. file'[a].token \in Nat
      <3>1. file'[a] \in Job(minted)
        BY <1>8 DEF Made
      <3> QED BY <1>1, <3>1, JobFacts
    <2>2. \A i \in DOMAIN file : file[i].token \in Nat
      <3>1. \A i \in DOMAIN file : file[i] \in Job(minted)
        BY <1>1
      <3> QED BY <1>1, <3>1, JobFacts
    <2>3. CASE l \in leases
      <3>1. l.token \in Nat
        BY <1>1, <2>3 DEF Lease
      <3>2. from[a] # 0
        BY <1>9, <2>3 DEF LocalInv, IdsAreFresh, r
      <3>3. from[a] \in DOMAIN file /\ StillJob(file'[a], file[from[a]])
        BY <1>9, <1>10, <3>2
      <3>4. l.token <= file[from[a]].token
        BY <1>15, <2>3, <3>3 DEF TokensGrow, StillJob
      <3> QED BY <2>1, <2>2, <3>1, <3>3, <3>4 DEF StillJob
    <2>4. CASE l \in Answered(r, file)
      <3>1. PICK i \in Claimed(file, r.at) : l.job = file[i].id /\ l.token = file[i].token + 1
        BY <1>16, <2>4
      <3>2. r.op = "claim" /\ i \in DOMAIN file
        BY <1>16, <2>4, <3>1 DEF Claimed
      <3>3. file' = [k \in DOMAIN file |->
                        IF k \in Claimed(file, r.at) THEN Handed(file[k], r.worker, r.at) ELSE file[k]]
        BY <1>3, <3>2 DEF Applied
      <3>4. file'[i] = Handed(file[i], r.worker, r.at)
        BY <3>1, <3>2, <3>3
      <3>5. file'[i].id = file[i].id /\ file'[i].token = file[i].token + 1
        <4>1. file[i] \in Job(minted)
          BY <1>1, <3>2
        <4> QED BY <3>4, <4>1 DEF Handed, Job
      <3>6. a = i
        BY <1>13, <3>1, <3>2, <3>3, <3>5 DEF JobsDiffer
      <3> QED BY <2>1, <3>1, <3>5, <3>6
    <2> QED BY <1>3, <2>3, <2>4
  <1>20. TokensGrow'
    BY <1>3, <1>17, <1>18, <1>19 DEF TokensGrow
  <1>21. CopyIsFile'
    BY <1>5 DEF CopyIsFile
  <1>22. Sequential
    <2>1. \A b \in Caller : call[b].stage = "read" => file' = Applied(call[b].asked, file)
      BY <1>3, <1>5 DEF r
    <2> QED BY <1>13, <1>17, <2>1 DEF Sequential, JobsDiffer
  <1> QED BY <1>13, <1>14, <1>20, <1>21, <1>22 DEF Sound

LEMMA SequentialStep == LocalInv /\ [LocalQueueNext]_localVars => LocalInv' /\ [Sequential]_localVars
  <1> SUFFICES ASSUME LocalInv, [LocalQueueNext]_localVars PROVE LocalInv' /\ [Sequential]_localVars
    OBVIOUS
  <1>1. (LocalShape /\ TurnsHold)' /\ OneProcess'
    BY TypedStep DEF LocalInv, OneProcess
  <1>2. ASSUME Sound', file' = file PROVE Sequential
    BY <1>2 DEF Sound, Sequential, JobsDiffer, TokensGrow
  <1>3. ASSUME NEW c \in Caller, NEW r \in LocalRequest(minted'), Joins(c, r) PROVE Sound' /\ Sequential
    BY <1>2, <1>3, EnterKeepsSound
  <1>4. ASSUME NEW c \in Caller, ReadFile(c) PROVE Sound' /\ Sequential
    BY <1>2, <1>4, ReadKeepsSound
  <1>5. ASSUME NEW c \in Caller, WriteFile(c) PROVE Sound' /\ Sequential
    BY <1>5, WriteKeepsSound
  <1>6. ASSUME NEW p \in Process, ProcessDies(p) PROVE Sound' /\ Sequential
    BY <1>2, <1>6, DeathKeepsSound
  <1>7. CASE ClockTicks
    <2>1. Sound' /\ file' = file
      BY <1>7 DEF ClockTicks, LocalInv, Sound, CopyIsFile, JobsDiffer, IdsAreFresh, TokensGrow
    <2> QED BY <1>1, <1>2, <2>1 DEF LocalInv, Sound
  <1>8. CASE UNCHANGED localVars
    <2>1. Sound'
      BY <1>8 DEF localVars, LocalInv, Sound, CopyIsFile, JobsDiffer, IdsAreFresh, TokensGrow
    <2> QED BY <1>1, <1>8, <2>1 DEF LocalInv, Sound
  <1>9. LocalShape
    BY DEF LocalInv
  <1> QED BY <1>1, <1>3, <1>4, <1>5, <1>6, <1>7, <1>8, <1>9, LocalSteps DEF LocalInv, Sound

\* The calls of one process take effect on the file one after the other: nothing
\* is written over a change it has not seen, no document has two jobs, and no two
\* claims of a job are answered with one token.
THEOREM FileQueueIsSequential == OneProcess /\ LocalQueueSpec => LocalQueueIsSequential
  <1>1. [Sequential]_localVars =>
        [/\ \A c \in Caller : call[c].stage = "read" /\ call'[c].stage = "idle" /\ file' # file =>
                                file' = Applied(call[c].asked, file)
         /\ \A i, k \in DOMAIN file' : file'[i].document = file'[k].document => i = k
         /\ \A l, m \in leases' : l.job = m.job /\ l.token = m.token => l = m]_localVars
    BY DEF Sequential
  <1> QED BY <1>1, LocalInitInv, SequentialStep, PTL DEF LocalQueueSpec, LocalQueueIsSequential

-----------------------------------------------------------------------------
(* The file queue keeps to the promise of every lease queue (JobHandover).   *)
(* Only writing the file changes what is promised; until then an operation   *)
(* has at most used up the id of a job.  Writes says what an operation that  *)
(* writes has in hand: the file as it is, and a lease that was answered.     *)

\* A lease that is presented was answered.
PresentedHold ==
    \A c \in Caller : call[c].asked.op \in {"renew", "acknowledge", "release"} => call[c].asked.lease \in leases

LEMMA PresentedStep ==
    ASSUME LocalShape, PresentedHold, [LocalQueueNext]_localVars
    PROVE  PresentedHold'
  <1>1. call \in [Caller -> LocalCall(minted)]
    BY DEF LocalShape
  <1>2. ASSUME NEW c \in Caller, NEW r, Enter(c, r),
               r.op \in {"renew", "acknowledge", "release"} => r.lease \in leases
        PROVE  PresentedHold'
    <2>1. leases' = leases /\ call'[c].asked = r /\ \A b \in Caller : b # c => call'[b] = call[b]
      BY <1>1, <1>2 DEF Enter
    <2> QED BY <1>2, <2>1 DEF PresentedHold
  <1>3. ASSUME NEW c \in Caller, NEW d \in QueuedDocument, EnqueueLocal(c, d) \/ RemoveLocal(c, d)
        PROVE  PresentedHold'
    BY <1>2, <1>3 DEF EnqueueLocal, RemoveLocal
  <1>4. ASSUME NEW c \in Caller, NEW w \in LocalWorker, ClaimLocal(c, w) PROVE PresentedHold'
    BY <1>2, <1>4 DEF ClaimLocal
  <1>5. ASSUME NEW c \in Caller, NEW l \in leases, RenewLocal(c, l) \/ AcknowledgeLocal(c, l)
        PROVE  PresentedHold'
    BY <1>2, <1>5 DEF RenewLocal, AcknowledgeLocal
  <1>6. ASSUME NEW c \in Caller, NEW l \in leases, NEW delay \in 0..1, ReleaseLocal(c, l, clock + delay)
        PROVE  PresentedHold'
    BY <1>2, <1>6 DEF ReleaseLocal
  <1>7. ASSUME leases \subseteq leases', \A b \in Caller : call'[b] = Idle \/ call'[b].asked = call[b].asked
        PROVE  PresentedHold'
    BY <1>7, IdleIsCall DEF PresentedHold
  <1>8. ASSUME NEW c \in Caller, ReadFile(c) PROVE PresentedHold'
    <2>1. leases' = leases /\ \A b \in Caller : call'[b].asked = call[b].asked
      BY <1>1, <1>8 DEF ReadFile, LocalCall
    <2> QED BY <1>7, <2>1
  <1>9. ASSUME NEW c \in Caller, WriteFile(c) PROVE PresentedHold'
    <2>1. leases \subseteq leases' /\ \A b \in Caller : call'[b] = Idle \/ call'[b].asked = call[b].asked
      BY <1>1, <1>9 DEF WriteFile
    <2> QED BY <1>7, <2>1
  <1>10. ASSUME NEW p \in Process, ProcessDies(p) PROVE PresentedHold'
    <2>1. leases' = leases /\ \A b \in Caller : call'[b] = Idle \/ call'[b].asked = call[b].asked
      BY <1>10 DEF ProcessDies
    <2> QED BY <1>7, <2>1
  <1>11. CASE ClockTicks \/ UNCHANGED localVars
    BY <1>7, <1>11 DEF ClockTicks, localVars
  <1> QED BY <1>3, <1>4, <1>5, <1>6, <1>8, <1>9, <1>10, <1>11 DEF LocalQueueNext

\* A job that is not in the file.
NotThere(state) == [state |-> state, document |-> NoOne, worker |-> NoOne, token |-> 0]

\* Ids being distinct, the job of an id is found.
LEMMA JobAmongIs ==
    ASSUME NEW f, \A i, k \in DOMAIN f : f[i].id = f[k].id => i = k, NEW other
    PROVE  /\ \A i \in DOMAIN f : JobAmong(f, f[i].id, other) = Promised(f[i])
           /\ \A j : (\A i \in DOMAIN f : f[i].id # j) => JobAmong(f, j, other) = NotThere(other)
  <1>1. ASSUME NEW i \in DOMAIN f PROVE JobAmong(f, f[i].id, other) = Promised(f[i])
    <2>1. (CHOOSE k \in DOMAIN f : f[k].id = f[i].id) = i
      OBVIOUS
    <2> QED BY <2>1 DEF JobAmong
  <1> QED BY <1>1 DEF JobAmong, NotThere

\* FileJobs, read off the file.
FileJobsRead ==
    /\ \A i \in DOMAIN file : /\ file[i].id \in 1..MaxJobs /\ ~ Unborn(file[i].id)
                              /\ FileJobs[file[i].id] = Promised(file[i])
    /\ \A j \in 1..MaxJobs : (\A i \in DOMAIN file : file[i].id # j) =>
          FileJobs[j] = NotThere(IF Unborn(j) THEN "absent" ELSE "gone")

LEMMA FileJobsAre == LocalInv => FileJobsRead
  <1> SUFFICES ASSUME LocalInv PROVE FileJobsRead
    OBVIOUS
  <1>1. \A i \in DOMAIN file : file[i].id \in 1..MaxJobs /\ file[i].id \in 1..minted
    <2>1. \A i \in DOMAIN file : file[i] \in Job(minted)
      BY DEF LocalInv, LocalShape
    <2>2. minted \in 0..MaxJobs /\ MaxJobs \in Nat
      BY LocalConstants DEF LocalInv, LocalShape
    <2> QED BY <2>1, <2>2, JobFacts
  <1>2. minted \in Nat
    BY LocalConstants DEF LocalInv, LocalShape
  <1>3. \A i \in DOMAIN file : ~ Unborn(file[i].id)
    BY <1>1, <1>2 DEF LocalInv, IdsAreFresh, Unborn
  <1>4. \A i, k \in DOMAIN file : file[i].id = file[k].id => i = k
    BY DEF LocalInv, JobsDiffer
  <1>5. \A j \in 1..MaxJobs : FileJobs[j] = JobAmong(file, j, IF Unborn(j) THEN "absent" ELSE "gone")
    BY DEF FileJobs
  <1> QED BY <1>1, <1>3, <1>4, <1>5, JobAmongIs DEF FileJobsRead

LEMMA NextFileJobsAre == LocalInv' => FileJobsRead'
  BY FileJobsAre, PTL

\* An id that is used, or never will be, is withdrawn; nothing else happens to
\* a job as long as the file is not written.
LEMMA NothingWritten ==
    ASSUME LocalInv, LocalInv', file' = file, leases' = leases,
           \A j \in 1..MaxJobs : Unborn(j)' => Unborn(j)
    PROVE  \E J \in SUBSET (1..MaxJobs) : Handover!Withdraw(J)
  <1> DEFINE J == {j \in 1..MaxJobs : Unborn(j) /\ ~ Unborn(j)'}
  <1>1. FileJobsRead /\ FileJobsRead'
    BY FileJobsAre, NextFileJobsAre
  <1>2. ASSUME NEW j \in 1..MaxJobs PROVE FileJobs'[j] = IF j \in J THEN NotThere("gone") ELSE FileJobs[j]
    <2>1. CASE \E i \in DOMAIN file : file[i].id = j
      BY <1>1, <2>1 DEF FileJobsRead
    <2>2. CASE \A i \in DOMAIN file : file[i].id # j
      BY <1>1, <2>2 DEF FileJobsRead
    <2> QED BY <2>1, <2>2
  <1> HIDE DEF J
  <1>3. FileJobs' = [j \in 1..MaxJobs |-> FileJobs'[j]]
    BY DEF FileJobs
  <1>4. FileJobs' = [j \in 1..MaxJobs |-> IF j \in J THEN NotThere("gone") ELSE FileJobs[j]]
    BY <1>2, <1>3
  <1>5. Handover!Withdraw(J)
    BY <1>4 DEF NotThere, Handover!Withdraw, Handover!NoJob
  <1>6. J \in SUBSET (1..MaxJobs)
    BY DEF J
  <1> QED BY <1>5, <1>6

\* One job changes.
LEMMA OneFileJob ==
    ASSUME NEW j \in 1..MaxJobs, \A k \in 1..MaxJobs : k # j => FileJobs'[k] = FileJobs[k]
    PROVE  FileJobs' = [FileJobs EXCEPT ![j] = FileJobs'[j]]
  <1>1. FileJobs = [k \in 1..MaxJobs |-> FileJobs[k]] /\ FileJobs' = [k \in 1..MaxJobs |-> FileJobs'[k]]
    BY DEF FileJobs
  <1> QED BY <1>1

\* Jobs that stay where they are in the file are the jobs they were, but for what
\* became of each.
LEMMA JobsStayPut ==
    ASSUME LocalInv, LocalInv', DOMAIN file' = DOMAIN file,
           \A i \in DOMAIN file : file'[i].id = file[i].id,
           \A j \in 1..MaxJobs : Unborn(j)' <=> Unborn(j)
    PROVE  /\ \A i \in DOMAIN file : /\ file[i].id \in 1..MaxJobs
                                     /\ FileJobs[file[i].id] = Promised(file[i])
                                     /\ FileJobs'[file[i].id] = Promised(file'[i])
           /\ \A j \in 1..MaxJobs : (\A i \in DOMAIN file : file[i].id # j) => FileJobs'[j] = FileJobs[j]
  <1>1. FileJobsRead /\ FileJobsRead'
    BY FileJobsAre, NextFileJobsAre
  <1> QED BY <1>1 DEF FileJobsRead

\* Jobs that are left out of the file are gone, the others what they were.
LEMMA JobsLeftOut ==
    ASSUME LocalInv, LocalInv', NEW kept \in SUBSET (DOMAIN file), file' = At(file, kept),
           leases' = leases, \A j \in 1..MaxJobs : Unborn(j)' <=> Unborn(j)
    PROVE  \A j \in 1..MaxJobs :
              FileJobs'[j] = IF \E i \in DOMAIN file \ kept : file[i].id = j THEN NotThere("gone") ELSE FileJobs[j]
  <1>1. FileJobsRead /\ FileJobsRead' /\ JobsDiffer
    BY FileJobsAre, NextFileJobsAre DEF LocalInv
  <1>2. file \in Seq(Job(minted))
    BY DEF LocalInv, LocalShape
  <1>3. PICK from \in [DOMAIN file' -> kept] :
           /\ \A a \in DOMAIN file' : file'[a] = file[from[a]]
           /\ \A k \in kept : \E a \in DOMAIN file' : from[a] = k
    BY <1>2, AllKeptAre
  <1>4. SUFFICES ASSUME NEW j \in 1..MaxJobs
                 PROVE  FileJobs'[j] = IF \E i \in DOMAIN file \ kept : file[i].id = j
                                       THEN NotThere("gone") ELSE FileJobs[j]
    OBVIOUS
  <1>5. CASE \E i \in DOMAIN file \ kept : file[i].id = j
    <2>1. PICK i \in DOMAIN file \ kept : file[i].id = j
      BY <1>5
    <2>2. \A a \in DOMAIN file' : file'[a].id # j
      BY <1>1, <1>3, <2>1 DEF JobsDiffer
    <2>3. ~ Unborn(j)'
      BY <1>1, <2>1 DEF FileJobsRead
    <2> QED BY <1>1, <1>5, <2>2, <2>3 DEF FileJobsRead
  <1>6. CASE \E i \in kept : file[i].id = j
    <2>1. PICK i \in kept : file[i].id = j
      BY <1>6
    <2>2. PICK a \in DOMAIN file' : from[a] = i
      BY <1>3, <2>1
    <2>3. file'[a] = file[i] /\ file'[a].id = j
      BY <1>3, <2>1, <2>2
    <2>4. FileJobs'[j] = Promised(file[i])
      BY <1>1, <2>2, <2>3 DEF FileJobsRead
    <2>5. FileJobs[j] = Promised(file[i])
      BY <1>1, <2>1 DEF FileJobsRead
    <2>6. ~ \E k \in DOMAIN file \ kept : file[k].id = j
      BY <1>1, <2>1 DEF JobsDiffer
    <2> QED BY <2>4, <2>5, <2>6
  <1>7. CASE \A i \in DOMAIN file : file[i].id # j
    <2>1. \A a \in DOMAIN file' : file'[a].id # j
      BY <1>3, <1>7
    <2>2. FileJobs'[j] = NotThere(IF Unborn(j)' THEN "absent" ELSE "gone")
      BY <1>1, <2>1 DEF FileJobsRead
    <2>3. FileJobs[j] = NotThere(IF Unborn(j) THEN "absent" ELSE "gone")
      BY <1>1, <1>7 DEF FileJobsRead
    <2> QED BY <1>7, <2>2, <2>3
  <1> QED BY <1>5, <1>6, <1>7

\* What an operation that writes has in hand, when it is the only one at it.
Writes(r) ==
    /\ LocalInv /\ LocalInv' /\ PresentedHold
    /\ r \in LocalRequest(minted) /\ r.op # "none"
    /\ file' = Applied(r, file) /\ leases' = leases \cup Answered(r, file)
    /\ \A j \in 1..MaxJobs : Unborn(j)' <=> Unborn(j) /\ ~ (r.op = "enqueue" /\ r.id = j)
    /\ r.op = "enqueue" => r.id \in 1..MaxJobs /\ Unborn(r.id)
    /\ r.op \in {"renew", "acknowledge", "release"} => r.lease \in leases

LEMMA WriterWrites ==
    ASSUME LocalInv, PresentedHold, NEW c \in Caller, WriteFile(c)
    PROVE  Writes(call[c].asked)
  <1> DEFINE r == call[c].asked
  <1>1. LocalInv'
    <2>1. LocalQueueNext
      BY DEF LocalQueueNext
    <2> QED BY <2>1, SequentialStep
  <1>2. call[c].stage = "read" /\ call[c].copy = file
    BY DEF WriteFile, LocalInv, CopyIsFile
  <1>3. file' = Applied(r, file) /\ leases' = leases \cup Answered(r, file) /\ minted' = minted
    BY <1>2 DEF WriteFile
  <1>4. call \in [Caller -> LocalCall(minted)] /\ minted \in 0..MaxJobs /\ MaxJobs \in Nat
    BY LocalConstants DEF LocalInv, LocalShape
  <1>5. r \in LocalRequest(minted) /\ r.op # "none"
    BY <1>2, <1>4 DEF LocalCall, LocalInv, LocalShape
  <1>6. call'[c] = Idle /\ \A b \in Caller : b # c => call'[b] = call[b]
    BY <1>4 DEF WriteFile
  <1>7. r.op = "enqueue" => r.id \in 1..minted /\ r.id \in 1..MaxJobs /\ Unborn(r.id)
    <2>1. r.op = "enqueue" => r.id \in 1..minted
      BY <1>5 DEF LocalRequest
    <2> QED BY <1>4, <2>1 DEF Unborn
  <1>8. ASSUME NEW j \in 1..MaxJobs PROVE Unborn(j)' <=> Unborn(j) /\ ~ (r.op = "enqueue" /\ r.id = j)
    <2>1. CASE r.op = "enqueue" /\ r.id = j
      <3>1. \A b \in Caller : b # c /\ call[b].asked.op = "enqueue" => call[b].asked.id # j
        BY <2>1 DEF LocalInv, IdsAreFresh
      <3>2. \A b \in Caller : call'[b].asked.op = "enqueue" => call'[b].asked.id # j
        BY <1>6, <3>1, IdleIsCall
      <3>3. ~ (j > minted')
        BY <1>3, <1>4, <1>7, <2>1
      <3> HIDE DEF r
      <3> QED BY <2>1, <3>2, <3>3 DEF Unborn
    <2>2. CASE ~ (r.op = "enqueue" /\ r.id = j)
      <3>1. \A b \in Caller : call'[b].asked.op = "enqueue" /\ call'[b].asked.id = j
                              <=> call[b].asked.op = "enqueue" /\ call[b].asked.id = j
        BY <1>6, <2>2, IdleIsCall
      <3> HIDE DEF r
      <3> QED BY <1>3, <2>2, <3>1 DEF Unborn
    <2> QED BY <2>1, <2>2
  <1>9. r.op \in {"renew", "acknowledge", "release"} => r.lease \in leases
    BY DEF PresentedHold
  <1> HIDE DEF r
  <1>10. Writes(r)
    BY <1>1, <1>3, <1>5, <1>7, <1>8, <1>9 DEF Writes
  <1> QED BY <1>10 DEF r

\* enqueue creates the job, unless the document has one.
LEMMA EnqueueIsPromised ==
    ASSUME NEW r, Writes(r), r.op = "enqueue"
    PROVE  \/ \E d \in QueuedDocument, j \in 1..MaxJobs : Handover!CreateJob(d, j)
           \/ \E J \in SUBSET (1..MaxJobs) : Handover!Withdraw(J)
  <1>1. /\ LocalInv /\ LocalInv' /\ r.id \in 1..MaxJobs /\ Unborn(r.id)
        /\ \A j \in 1..MaxJobs : Unborn(j)' <=> Unborn(j) /\ r.id # j
        /\ leases' = leases /\ r.document \in QueuedDocument
    <2>1. r.document \in QueuedDocument
      BY DEF Writes, LocalRequest
    <2>2. leases' = leases
      BY DEF Writes, Answered
    <2> QED BY <2>1, <2>2 DEF Writes
  <1>2. file' = IF \E i \in DOMAIN file : file[i].document = r.document THEN file
                ELSE Append(file, QueuedJob(r.id, r.document, clock))
    BY DEF Writes, Applied
  <1>3. CASE \E i \in DOMAIN file : file[i].document = r.document
    BY <1>1, <1>2, <1>3, NothingWritten
  <1>4. CASE ~ \E i \in DOMAIN file : file[i].document = r.document
    <2> DEFINE n == Len(file) + 1
               born == QueuedJob(r.id, r.document, clock)
               j == r.id
    <2>1. FileJobsRead /\ FileJobsRead' /\ file \in Seq(Job(minted))
      BY <1>1, FileJobsAre, NextFileJobsAre DEF LocalInv, LocalShape
    <2>2. DOMAIN file' = 1..n /\ file'[n] = born /\ \A i \in DOMAIN file : i \in 1..n /\ file'[i] = file[i]
      <3> HIDE DEF born
      <3> QED BY <1>2, <1>4, <2>1 DEF born
    <2>3. \A i \in 1..n : i = n \/ i \in DOMAIN file
      BY <2>1
    <2>4. n \in 1..n
      BY <2>1
    <2>5. /\ born.id = j /\ born.state = "QUEUED" /\ born.document = r.document
          /\ born.worker = NoOne /\ born.token = 0
      BY DEF QueuedJob
    <2> HIDE DEF n, born
    <2>6. FileJobs'[j] = [state |-> "waiting", document |-> r.document, worker |-> NoOne, token |-> 0]
      <3>1. FileJobs'[j] = Promised(born)
        BY <2>1, <2>2, <2>4, <2>5 DEF FileJobsRead
      <3> QED BY <2>5, <3>1 DEF Promised
    <2>7. FileJobs[j] = NotThere("absent")
      BY <1>1, <2>1 DEF FileJobsRead
    <2>8. ASSUME NEW k \in 1..MaxJobs, k # j PROVE FileJobs'[k] = FileJobs[k]
      <3>1. CASE \E i \in DOMAIN file : file[i].id = k
        BY <2>1, <2>2, <3>1 DEF FileJobsRead
      <3>2. CASE \A i \in DOMAIN file : file[i].id # k
        <4>1. \A i \in DOMAIN file' : file'[i].id # k
          BY <2>2, <2>3, <2>5, <2>8, <3>2
        <4>2. Unborn(k)' <=> Unborn(k)
          BY <1>1, <2>8
        <4> QED BY <2>1, <3>2, <4>1, <4>2 DEF FileJobsRead
      <3> QED BY <3>1, <3>2
    <2>9. FileJobs' = [FileJobs EXCEPT ![j] = FileJobs'[j]]
      BY <1>1, <2>8, OneFileJob
    <2>10. Handover!CreateJob(r.document, j)
      BY <1>1, <2>6, <2>7, <2>9 DEF NotThere, Handover!CreateJob
    <2> QED BY <1>1, <2>10
  <1> QED BY <1>3, <1>4

\* claim hands out the job it has found, if any.
LEMMA ClaimIsPromised ==
    ASSUME NEW r, Writes(r), r.op = "claim"
    PROVE  \/ \E w \in LocalWorker, j \in 1..MaxJobs : Handover!HandOver(w, j)
           \/ UNCHANGED Handover!handoverVars
  <1>1. /\ LocalInv /\ LocalInv' /\ r.worker \in LocalWorker /\ r.at \in Nat
        /\ \A j \in 1..MaxJobs : Unborn(j)' <=> Unborn(j)
        /\ file \in Seq(Job(minted)) /\ minted \in Nat
    <2>1. r.worker \in LocalWorker /\ r.at \in Nat
      BY DEF Writes, LocalRequest
    <2> QED BY <2>1, LocalConstants DEF Writes, LocalInv, LocalShape
  <1>2. file' = [i \in DOMAIN file |->
                    IF i \in Claimed(file, r.at) THEN Handed(file[i], r.worker, r.at) ELSE file[i]]
    BY DEF Writes, Applied
  <1>3. leases' = leases \cup {[job |-> file[i].id, worker |-> r.worker, token |-> file[i].token + 1] :
                                  i \in Claimed(file, r.at)}
    BY DEF Writes, Answered
  <1>4. CASE Claimed(file, r.at) = {}
    <2>1. DOMAIN file' = DOMAIN file /\ \A i \in DOMAIN file : file'[i] = file[i]
      BY <1>2, <1>4
    <2>2. FileJobs' = FileJobs
      <3>1. \A j \in 1..MaxJobs : FileJobs'[j] = FileJobs[j]
        BY <1>1, <2>1, JobsStayPut
      <3> QED BY <3>1 DEF FileJobs
    <2>3. leases' = leases
      BY <1>3, <1>4
    <2> QED BY <2>2, <2>3 DEF Handover!handoverVars
  <1>5. ASSUME NEW i \in Claimed(file, r.at)
        PROVE  \E w \in LocalWorker, j \in 1..MaxJobs : Handover!HandOver(w, j)
    <2> DEFINE j == file[i].id
    <2>1. \A k \in Claimed(file, r.at) : k = i
      <3> SUFFICES ASSUME NEW k \in Claimed(file, r.at), k # i PROVE FALSE
        OBVIOUS
      <3>1. i \in Nat /\ k \in Nat /\ i >= 1 /\ k >= 1
        BY <1>1 DEF Claimed
      <3>2. ClaimableLocal(file[i], r.at) /\ ClaimableLocal(file[k], r.at)
        BY DEF Claimed
      <3>3. i \in 1..(k - 1) \/ k \in 1..(i - 1)
        BY <3>1
      <3> QED BY <3>2, <3>3 DEF Claimed
    <2>2. i \in DOMAIN file /\ file[i] \in Job(minted)
      BY <1>1, <1>5 DEF Claimed
    <2>3. /\ file'[i].state = "CLAIMED" /\ file'[i].worker = r.worker
          /\ file'[i].token = file[i].token + 1
          /\ file'[i].id = file[i].id /\ file'[i].document = file[i].document
      <3>1. file'[i] = Handed(file[i], r.worker, r.at)
        BY <1>2, <1>5, <2>2
      <3> QED BY <2>2, <3>1 DEF Handed, Job
    <2>4. DOMAIN file' = DOMAIN file /\ \A k \in DOMAIN file : k # i => file'[k] = file[k]
      BY <1>2, <2>1
    <2>5. /\ \A k \in DOMAIN file : /\ file[k].id \in 1..MaxJobs
                                    /\ FileJobs[file[k].id] = Promised(file[k])
                                    /\ FileJobs'[file[k].id] = Promised(file'[k])
          /\ \A k \in 1..MaxJobs : (\A a \in DOMAIN file : file[a].id # k) => FileJobs'[k] = FileJobs[k]
      <3>1. \A k \in DOMAIN file : file'[k].id = file[k].id
        BY <2>3, <2>4
      <3> QED BY <1>1, <2>4, <3>1, JobsStayPut
    <2>6. \A k \in 1..MaxJobs : k # j => FileJobs'[k] = FileJobs[k]
      BY <2>4, <2>5
    <2>7. FileJobs[j].state \in {"waiting", "claimed"} /\ FileJobs[j].document = file[i].document
          /\ FileJobs[j].token = file[i].token
      <3>1. FileJobs[j] = Promised(file[i])
        BY <2>2, <2>5
      <3> HIDE DEF j
      <3> QED BY <3>1 DEF Promised
    <2>8. FileJobs'[j] = [state |-> "claimed", document |-> FileJobs[j].document, worker |-> r.worker,
                          token |-> FileJobs[j].token + 1]
      <3>1. FileJobs'[j] = Promised(file'[i])
        BY <2>2, <2>5
      <3> HIDE DEF j
      <3> QED BY <2>3, <2>7, <3>1 DEF Promised
    <2>9. FileJobs' = [FileJobs EXCEPT ![j] = FileJobs'[j]]
      BY <2>2, <2>5, <2>6, OneFileJob
    <2>10. leases' = leases \cup {[job |-> j, worker |-> r.worker, token |-> FileJobs[j].token + 1]}
      BY <1>3, <1>5, <2>1, <2>7
    <2> HIDE DEF j
    <2>11. Handover!HandOver(r.worker, j)
      BY <2>7, <2>8, <2>9, <2>10 DEF Handover!HandOver, Handover!LeaseOf
    <2>12. j \in 1..MaxJobs
      BY <2>2, <2>5 DEF j
    <2> QED BY <1>1, <2>11, <2>12
  <1> QED BY <1>4, <1>5

\* renew changes a time only.
LEMMA RenewIsPromised ==
    ASSUME NEW r, Writes(r), r.op = "renew"
    PROVE  UNCHANGED Handover!handoverVars
  <1>1. LocalInv /\ LocalInv' /\ leases' = leases /\ file \in Seq(Job(minted))
        /\ \A j \in 1..MaxJobs : Unborn(j)' <=> Unborn(j)
    BY DEF Writes, Answered, LocalInv, LocalShape
  <1>2. file' = [i \in DOMAIN file |->
                    IF i \in IndexOf(file, r.lease.job) /\ Owned(file[i], r.lease) /\ file[i].expires > clock
                    THEN [file[i] EXCEPT !.expires = clock + LeaseTicks] ELSE file[i]]
    BY DEF Writes, Applied
  <1>3. ASSUME NEW i \in DOMAIN file
        PROVE  file'[i].id = file[i].id /\ Promised(file'[i]) = Promised(file[i])
    <2>1. file[i] \in Job(minted)
      BY <1>1
    <2>2. file'[i] = file[i] \/ file'[i] = [file[i] EXCEPT !.expires = clock + LeaseTicks]
      BY <1>2
    <2> QED BY <2>1, <2>2 DEF Job, Promised
  <1>4. DOMAIN file' = DOMAIN file
    BY <1>2
  <1>5. \A j \in 1..MaxJobs : FileJobs'[j] = FileJobs[j]
    BY <1>1, <1>3, <1>4, JobsStayPut
  <1>6. FileJobs' = FileJobs
    BY <1>5 DEF FileJobs
  <1> QED BY <1>1, <1>6 DEF Handover!handoverVars

\* The lease of an owned job is the last of the job.
LEMMA OwnedIsLast ==
    ASSUME LocalInv, NEW l, NEW i \in DOMAIN file, i \in IndexOf(file, l.job), Owned(file[i], l)
    PROVE  /\ l.job \in 1..MaxJobs /\ l.job = file[i].id /\ Handover!LastLease(l)
           /\ FileJobs[l.job] = Promised(file[i])
  <1>1. l.job = file[i].id
    BY DEF IndexOf
  <1>2. file[i].id \in 1..MaxJobs /\ FileJobs[file[i].id] = Promised(file[i])
    BY FileJobsAre DEF FileJobsRead
  <1> QED BY <1>1, <1>2 DEF Owned, Promised, Handover!LastLease

\* release returns the job of its lease, if that is still the last.
LEMMA ReleaseIsPromised ==
    ASSUME NEW r, Writes(r), r.op = "release"
    PROVE  \/ \E l \in leases : Handover!Return(l)
           \/ UNCHANGED Handover!handoverVars
  <1> DEFINE l == r.lease
             Mine(i) == i \in IndexOf(file, l.job) /\ Owned(file[i], l)
  <1>1. LocalInv /\ LocalInv' /\ leases' = leases /\ file \in Seq(Job(minted))
        /\ (\A j \in 1..MaxJobs : Unborn(j)' <=> Unborn(j)) /\ l \in leases
    BY DEF Writes, Answered, LocalInv, LocalShape
  <1>2. file' = [i \in DOMAIN file |->
                    IF Mine(i)
                    THEN [file[i] EXCEPT !.state = "QUEUED", !.worker = NoOne, !.expires = 0, !.available = r.at]
                    ELSE file[i]]
    BY DEF Writes, Applied
  <1>3. ASSUME NEW i \in DOMAIN file
        PROVE  /\ file'[i].id = file[i].id
               /\ ~ Mine(i) => file'[i] = file[i]
               /\ Mine(i) => /\ file'[i].state = "QUEUED" /\ file'[i].worker = NoOne
                             /\ file'[i].document = file[i].document /\ file'[i].token = file[i].token
    <2>1. file[i] \in Job(minted)
      BY <1>1
    <2>2. file'[i] = IF Mine(i)
                     THEN [file[i] EXCEPT !.state = "QUEUED", !.worker = NoOne, !.expires = 0, !.available = r.at]
                     ELSE file[i]
      BY <1>2
    <2> HIDE DEF Mine
    <2> QED BY <2>1, <2>2 DEF Job
  <1>4. DOMAIN file' = DOMAIN file
    BY <1>2
  <1> HIDE DEF Mine
  <1>5. /\ \A i \in DOMAIN file : /\ file[i].id \in 1..MaxJobs
                                  /\ FileJobs[file[i].id] = Promised(file[i])
                                  /\ FileJobs'[file[i].id] = Promised(file'[i])
        /\ \A j \in 1..MaxJobs : (\A i \in DOMAIN file : file[i].id # j) => FileJobs'[j] = FileJobs[j]
    BY <1>1, <1>3, <1>4, JobsStayPut
  <1>6. CASE \A i \in DOMAIN file : ~ Mine(i)
    <2>1. \A j \in 1..MaxJobs : FileJobs'[j] = FileJobs[j]
      BY <1>3, <1>5, <1>6
    <2>2. FileJobs' = FileJobs
      BY <2>1 DEF FileJobs
    <2> QED BY <1>1, <2>2 DEF Handover!handoverVars
  <1>7. ASSUME NEW i \in DOMAIN file, Mine(i) PROVE Handover!Return(l)
    <2>1. /\ l.job \in 1..MaxJobs /\ l.job = file[i].id /\ Handover!LastLease(l)
          /\ FileJobs[l.job] = Promised(file[i]) /\ file[i].token = l.token
      BY <1>1, <1>7, OwnedIsLast DEF Mine, Owned
    <2>2. \A k \in DOMAIN file : k # i => ~ Mine(k)
      BY <1>1, <2>1 DEF LocalInv, JobsDiffer, Mine, IndexOf
    <2>3. \A j \in 1..MaxJobs : j # l.job => FileJobs'[j] = FileJobs[j]
      BY <1>3, <1>5, <2>1, <2>2
    <2>4. FileJobs'[l.job] = [state |-> "waiting", document |-> FileJobs[l.job].document, worker |-> NoOne,
                              token |-> l.token]
      BY <1>3, <1>5, <1>7, <2>1 DEF Promised
    <2>5. FileJobs' = [FileJobs EXCEPT ![l.job] = FileJobs'[l.job]]
      BY <2>1, <2>3, OneFileJob
    <2> HIDE DEF l
    <2> QED BY <1>1, <2>1, <2>4, <2>5 DEF Handover!Return
  <1> QED BY <1>1, <1>6, <1>7

\* acknowledge finishes the job of its lease, if that is still the last.
LEMMA AcknowledgeIsPromised ==
    ASSUME NEW r, Writes(r), r.op = "acknowledge"
    PROVE  \/ \E l \in leases : Handover!Finish(l)
           \/ UNCHANGED Handover!handoverVars
  <1> DEFINE l == r.lease
             kept == {i \in DOMAIN file : ~ (i \in IndexOf(file, l.job) /\ Owned(file[i], l))}
  <1>1. LocalInv /\ LocalInv' /\ leases' = leases
        /\ (\A j \in 1..MaxJobs : Unborn(j)' <=> Unborn(j)) /\ l \in leases
    BY DEF Writes, Answered
  <1>2. file' = At(file, kept)
    BY DEF Writes, Applied
  <1>3. kept \in SUBSET (DOMAIN file)
        /\ \A i \in DOMAIN file \ kept : i \in IndexOf(file, l.job) /\ Owned(file[i], l)
    OBVIOUS
  <1> HIDE DEF kept
  <1>4. \A j \in 1..MaxJobs :
           FileJobs'[j] = IF \E i \in DOMAIN file \ kept : file[i].id = j THEN NotThere("gone") ELSE FileJobs[j]
    BY <1>1, <1>2, <1>3, JobsLeftOut
  <1>5. CASE DOMAIN file \ kept = {}
    <2>1. \A j \in 1..MaxJobs : FileJobs'[j] = FileJobs[j]
      BY <1>4, <1>5
    <2>2. FileJobs' = FileJobs
      BY <2>1 DEF FileJobs
    <2> QED BY <1>1, <2>2 DEF Handover!handoverVars
  <1>6. ASSUME NEW i \in DOMAIN file \ kept PROVE Handover!Finish(l)
    <2>1. l.job \in 1..MaxJobs /\ l.job = file[i].id /\ Handover!LastLease(l)
      BY <1>1, <1>3, OwnedIsLast
    <2>2. \A k \in DOMAIN file \ kept : file[k].id = l.job
      BY <1>3 DEF IndexOf
    <2>3. \A j \in 1..MaxJobs : j # l.job => FileJobs'[j] = FileJobs[j]
      BY <1>4, <2>2
    <2>4. FileJobs'[l.job] = NotThere("gone")
      BY <1>4, <2>1
    <2>5. FileJobs' = [FileJobs EXCEPT ![l.job] = FileJobs'[l.job]]
      BY <2>1, <2>3, OneFileJob
    <2> HIDE DEF l
    <2> QED BY <1>1, <2>1, <2>4, <2>5 DEF NotThere, Handover!Finish, Handover!NoJob
  <1> QED BY <1>1, <1>5, <1>6

\* removeForDocument withdraws the jobs of its document.
LEMMA RemoveIsPromised ==
    ASSUME NEW r, Writes(r), r.op = "remove"
    PROVE  \E J \in SUBSET (1..MaxJobs) : Handover!Withdraw(J)
  <1> DEFINE kept == {i \in DOMAIN file : file[i].document # r.document}
             J == {j \in 1..MaxJobs : \E i \in DOMAIN file \ kept : file[i].id = j}
  <1>1. LocalInv /\ LocalInv' /\ leases' = leases /\ \A j \in 1..MaxJobs : Unborn(j)' <=> Unborn(j)
    BY DEF Writes, Answered
  <1>2. file' = At(file, kept) /\ kept \in SUBSET (DOMAIN file)
    BY DEF Writes, Applied
  <1> HIDE DEF kept
  <1>3. \A j \in 1..MaxJobs : FileJobs'[j] = IF j \in J THEN NotThere("gone") ELSE FileJobs[j]
    BY <1>1, <1>2, JobsLeftOut
  <1> HIDE DEF J
  <1>4. FileJobs' = [j \in 1..MaxJobs |-> IF j \in J THEN NotThere("gone") ELSE FileJobs[j]]
    <2>1. FileJobs' = [j \in 1..MaxJobs |-> FileJobs'[j]]
      BY DEF FileJobs
    <2> QED BY <1>3, <2>1
  <1>5. Handover!Withdraw(J)
    BY <1>1, <1>4 DEF NotThere, Handover!Withdraw, Handover!NoJob
  <1>6. J \in SUBSET (1..MaxJobs)
    BY DEF J
  <1> QED BY <1>5, <1>6

\* Every step of the file queue is a step of the promise, or none.
LEMMA FileStepIsPromised ==
    ASSUME LocalInv, PresentedHold, [LocalQueueNext]_localVars
    PROVE  [Handover!HandoverNext]_(Handover!handoverVars)
  <1>1. LocalInv' /\ LocalShape /\ call \in [Caller -> LocalCall(minted)] /\ minted \in Nat
    BY SequentialStep, LocalConstants DEF LocalInv, LocalShape
  <1>2. ASSUME file' = file, leases' = leases, \A j \in 1..MaxJobs : Unborn(j)' => Unborn(j)
        PROVE  Handover!HandoverNext
    BY <1>1, <1>2, NothingWritten DEF Handover!HandoverNext
  <1>3. ASSUME NEW c \in Caller, NEW r \in LocalRequest(minted'), Joins(c, r) PROVE Handover!HandoverNext
    <2>1. /\ file' = file /\ leases' = leases /\ minted' \in {minted, minted + 1}
          /\ call'[c].asked = r /\ \A b \in Caller : b # c => call'[b] = call[b]
          /\ r.op = "enqueue" => r.id = minted + 1
      BY <1>1, <1>3 DEF Joins, Enter
    <2>2. ASSUME NEW j \in 1..MaxJobs, Unborn(j)' PROVE Unborn(j)
      <3>1. CASE j > minted'
        BY <1>1, <2>1, <3>1 DEF Unborn
      <3>2. CASE \E b \in Caller : call'[b].asked.op = "enqueue" /\ call'[b].asked.id = j
        <4>1. PICK b \in Caller : call'[b].asked.op = "enqueue" /\ call'[b].asked.id = j
          BY <3>2
        <4>2. CASE b = c
          <5>1. j > minted
            BY <1>1, <2>1, <4>1, <4>2
          <5> QED BY <5>1 DEF Unborn
        <4>3. CASE b # c
          BY <2>1, <4>1, <4>3 DEF Unborn
        <4> QED BY <4>2, <4>3
      <3> QED BY <2>2, <3>1, <3>2 DEF Unborn
    <2> QED BY <1>2, <2>1, <2>2
  <1>4. ASSUME file' = file, leases' = leases, minted' = minted,
               \A b \in Caller : call'[b] = Idle \/ call'[b].asked = call[b].asked
        PROVE  Handover!HandoverNext
    <2>1. \A j \in 1..MaxJobs : Unborn(j)' => Unborn(j)
      BY <1>4, IdleIsCall DEF Unborn
    <2> QED BY <1>2, <1>4, <2>1
  <1>5. ASSUME NEW c \in Caller, ReadFile(c) PROVE Handover!HandoverNext
    <2>1. /\ file' = file /\ leases' = leases /\ minted' = minted
          /\ \A b \in Caller : call'[b].asked = call[b].asked
      BY <1>1, <1>5 DEF ReadFile, LocalCall
    <2> QED BY <1>4, <2>1
  <1>6. ASSUME NEW p \in Process, ProcessDies(p) PROVE Handover!HandoverNext
    <2>1. /\ file' = file /\ leases' = leases /\ minted' = minted
          /\ \A b \in Caller : call'[b] = Idle \/ call'[b].asked = call[b].asked
      BY <1>6 DEF ProcessDies
    <2> QED BY <1>4, <2>1
  <1>7. CASE ClockTicks \/ UNCHANGED localVars
    BY <1>4, <1>7 DEF ClockTicks, localVars
  <1>8. ASSUME NEW c \in Caller, WriteFile(c)
        PROVE  Handover!HandoverNext \/ UNCHANGED Handover!handoverVars
    <2> DEFINE r == call[c].asked
    <2>1. Writes(r)
      BY <1>8, WriterWrites
    <2> HIDE DEF r
    <2>2. r.op \in {"enqueue", "claim", "renew", "release", "acknowledge", "remove"}
      BY <2>1 DEF Writes, LocalRequest
    <2> QED BY <2>1, <2>2, EnqueueIsPromised, ClaimIsPromised, RenewIsPromised, ReleaseIsPromised,
               AcknowledgeIsPromised, RemoveIsPromised DEF Handover!HandoverNext
  <1> QED BY <1>1, <1>3, <1>5, <1>6, <1>7, <1>8, LocalSteps

\* No file is no job and no lease.
LEMMA FileInitIsPromised ==
    ASSUME LocalQueueInit
    PROVE  PresentedHold /\ Handover!HandoverInit
  <1>1. file = <<>> /\ minted = 0 /\ leases = {} /\ \A c \in Caller : call[c] = Idle
    BY DEF LocalQueueInit
  <1>2. PresentedHold
    BY <1>1, IdleIsCall DEF PresentedHold
  <1>3. \A j \in 1..MaxJobs : Unborn(j)
    BY <1>1, LocalConstants DEF Unborn
  <1>4. \A j \in 1..MaxJobs : JobAmong(file, j, "absent") = NotThere("absent")
    BY <1>1 DEF JobAmong, NotThere
  <1>5. FileJobs = [j \in 1..MaxJobs |-> NotThere("absent")]
    BY <1>3, <1>4 DEF FileJobs
  <1> QED BY <1>1, <1>2, <1>5 DEF NotThere, Handover!HandoverInit, Handover!NoJob

\* In one process the file queue keeps to the promise of every lease queue, as
\* the Redis queue does.
THEOREM FileQueueAlwaysHandsOver == OneProcess /\ LocalQueueSpec => FileQueueHandsOver
  <1>1. LocalInv /\ PresentedHold /\ [LocalQueueNext]_localVars
           => LocalInv' /\ PresentedHold' /\ [Handover!HandoverNext]_(Handover!handoverVars)
    <2>1. LocalInv => LocalShape
      BY DEF LocalInv
    <2> QED BY <2>1, SequentialStep, PresentedStep, FileStepIsPromised
  <1>2. LocalQueueInit => PresentedHold /\ Handover!HandoverInit
    BY FileInitIsPromised
  <1> QED BY <1>1, <1>2, LocalInitInv, PTL
          DEF LocalQueueSpec, FileQueueHandsOver, Handover!HandoverSpec

\* In one process the file queue does what its workers are promised: its
\* operations take effect one after the other, and each is a step of the promise.
THEOREM FileQueueAlwaysKeepsPromises == OneProcess /\ LocalQueueSpec => FileQueueKeepsPromises
  BY FileQueueIsSequential, FileQueueAlwaysHandsOver DEF FileQueueKeepsPromises
=============================================================================
