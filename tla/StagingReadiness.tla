-------------------------- MODULE StagingReadiness --------------------------
(***************************************************************************)
(* Deployments of staging: processes start with an environment that was    *)
(* deployed and keep it, workers leave heartbeats in Redis or in rows of   *)
(* the database, and checkStagingReadiness, asked through /ready, looks    *)
(* at one component after the other.  While a deployment rolls out,        *)
(* processes of two generations run side by side.                          *)
(*                                                                         *)
(* Heartbeats count for AgeLimit ticks, the two minutes of the code; Redis *)
(* forgets those of the critical workers after three, when they no longer  *)
(* count.  A store that does not answer, jobs in arrears and a governance  *)
(* in disorder can only make beats, starts and probes fail, which they may *)
(* here at any time.                                                       *)
(***************************************************************************)
EXTENDS RuntimeConfiguration, Sequences, FiniteSets

CONSTANTS Settings,       \* name |-> an environment an operator starts from
          Deployable,     \* the names of those that are deployed
          WorkerProcess,  \* worker processes
          KindOf,         \* process |-> what it works on
          CriticalOrder,  \* the workers that beat in Redis, as they are checked
          RowOrder,       \* the workers that beat in the database
          JiraKind,       \* those that work for Jira
          AgeLimit, Skew, \* ticks a heartbeat counts; it may be ahead by
          LastHour, MaxDeployments, MaxEdited  \* bounds: ticks and numbers

Members(s) == {s[i] : i \in DOMAIN s}
CriticalKind == Members(CriticalOrder)
Kind == CriticalKind \cup Members(RowOrder)

ASSUME ReadinessAssumption ==
    /\ CriticalOrder \in Seq(CriticalKind) /\ RowOrder \in Seq(Members(RowOrder))
    /\ JiraKind \subseteq Members(RowOrder) /\ CriticalKind \cap Members(RowOrder) = {}
    /\ KindOf \in [WorkerProcess -> Kind]
    /\ Deployable \subseteq DOMAIN Settings
    /\ \A name \in DOMAIN Settings :
           /\ DOMAIN Settings[name] = DOMAIN Values
           /\ \A v \in DOMAIN Values : Settings[name][v] \in Values[v]
    /\ {AgeLimit, Skew, LastHour, MaxDeployments, MaxEdited} \subseteq Nat

VARIABLES
    template,      \* an environment being edited: the one it was,
    altered,       \* variable |-> its new value, and the others as they were
    deployed,      \* their names; DEPLOYMENT_GENERATION is the position
    ticks,
    running,       \* process -> the generation it runs, or 0
    redisBeat,     \* critical kind -> the heartbeat under its key
    rowBeat,       \* process -> the heartbeat in its row
    check,         \* a readiness check
    lastRun        \* ghost: kind, generation -> the tick the last one of them stopped

draftVars == <<template, altered>>
rolloutVars == <<deployed, ticks, running, redisBeat, rowBeat, check, lastRun>>
readinessVars == <<draftVars, rolloutVars>>

Environment(g) == Settings[deployed[g]]
Never == -AgeLimit - 1
NoBeat == [generation |-> 0, at |-> Never]
NoCheck == [phase |-> "none", generation |-> 0, since |-> 0, todo |-> <<>>, ready |-> FALSE]

\* The components with a heartbeat, as they are checked, between the others.
ProbeOrder == CriticalOrder \o RowOrder

ReadinessInit ==
    /\ template \in DOMAIN Settings /\ altered = <<>>
    /\ deployed = <<>> /\ ticks = 0
    /\ running = [p \in WorkerProcess |-> 0]
    /\ redisBeat = [k \in CriticalKind |-> NoBeat]
    /\ rowBeat = [p \in WorkerProcess |-> NoBeat]
    /\ check = NoCheck
    /\ lastRun = [k \in Kind |-> [g \in 1..MaxDeployments |-> Never]]

-----------------------------------------------------------------------------
(* Environments. *)

Draft == [v \in DOMAIN Values |-> IF v \in DOMAIN altered THEN altered[v] ELSE Settings[template][v]]

Edit(v, value) ==
    /\ v \notin DOMAIN altered /\ Cardinality(DOMAIN altered) < MaxEdited /\ value # Settings[template][v]
    /\ altered' = [w \in DOMAIN altered \cup {v} |-> IF w = v THEN value ELSE altered[w]]
    /\ UNCHANGED <<template, rolloutVars>>

Deploy(name) ==
    /\ Len(deployed) < MaxDeployments
    /\ deployed' = Append(deployed, name)
    /\ UNCHANGED <<draftVars, ticks, running, redisBeat, rowBeat, check, lastRun>>

-----------------------------------------------------------------------------
(* Workers. *)

\* What main and the runtimes load before they work.  Those for Jira do not
\* look at the rest of the environment.
Starts(k, e) ==
    CASE k \in CriticalKind -> /\ WorkerLoads(e) /\ ServicesBuild(e)
                               /\ e.appEnv = "staging" => StagingAccepts(e)
      [] k \in JiraKind -> JiraLoads(e) /\ WebhookLoads(e)
      [] OTHER -> StagingAccepts(e)

StartsUp == [k \in Kind |-> {name \in DOMAIN Settings : Starts(k, Settings[name])}]
Checked == {name \in DOMAIN Settings : StagingAccepts(Settings[name])}

\* Critical workers leave a heartbeat before they start, the others after
\* their first batch.
StartWorker(p, g) ==
    LET k == KindOf[p]
    IN  /\ running[p] = 0 /\ g \in DOMAIN deployed /\ deployed[g] \in StartsUp[k]
        /\ running' = [running EXCEPT ![p] = g]
        /\ redisBeat' = IF k \in CriticalKind /\ Environment(g).appEnv = "staging"
                        THEN [redisBeat EXCEPT ![k] = [generation |-> g, at |-> ticks]] ELSE redisBeat
        /\ UNCHANGED <<draftVars, deployed, ticks, rowBeat, check, lastRun>>

Beat(p) ==
    LET k == KindOf[p]
        beat == [generation |-> running[p], at |-> ticks]
    IN  /\ running[p] # 0
        /\ \/ /\ k \in CriticalKind /\ Environment(running[p]).appEnv = "staging"
              /\ redisBeat' = [redisBeat EXCEPT ![k] = beat] /\ UNCHANGED rowBeat
           \/ /\ k \notin CriticalKind
              /\ rowBeat' = [rowBeat EXCEPT ![p] = beat] /\ UNCHANGED redisBeat
        /\ UNCHANGED <<draftVars, deployed, ticks, running, check, lastRun>>

\* Shut down or killed; the heartbeat stays.
StopWorker(p) ==
    /\ running[p] # 0
    /\ lastRun' = [lastRun EXCEPT ![KindOf[p]][running[p]] = ticks]
    /\ running' = [running EXCEPT ![p] = 0]
    /\ UNCHANGED <<draftVars, deployed, ticks, redisBeat, rowBeat, check>>

RolloutTime ==
    /\ ticks < LastHour /\ ticks' = ticks + 1
    /\ UNCHANGED <<draftVars, deployed, running, redisBeat, rowBeat, check, lastRun>>

-----------------------------------------------------------------------------
(* The check, by a process of some generation. *)

StartCheck(g) ==
    /\ check.phase # "probing" /\ g \in DOMAIN deployed
    /\ check' = IF deployed[g] \in Checked
                THEN [phase |-> "probing", generation |-> g, since |-> ticks, todo |-> ProbeOrder, ready |-> FALSE]
                ELSE NoCheck
    /\ UNCHANGED <<draftVars, deployed, ticks, running, redisBeat, rowBeat, lastRun>>

\* Mutation: a worker of an older deployment is as good.
RecentOfAnyGeneration(b) == check.since - b.at <= AgeLimit

Recent(b) == b.generation = check.generation /\ check.since - b.at <= AgeLimit

\* The heartbeat that is looked at: for rows the latest, of whatever process.
Latest(k) ==
    {p \in WorkerProcess : /\ KindOf[p] = k
                     /\ \A q \in WorkerProcess : KindOf[q] = k => rowBeat[q].at <= rowBeat[p].at}

MayPass(k, e) ==
    \/ k \in CriticalKind /\ Recent(redisBeat[k]) /\ redisBeat[k].at <= check.since + Skew
    \/ k \in Members(RowOrder) /\ \E p \in Latest(k) : Recent(rowBeat[p])
    \/ k \in JiraKind /\ ~ JiraEnabled(e)

ProbePasses ==
    /\ check.phase = "probing" /\ MayPass(Head(check.todo), Environment(check.generation))
    /\ check' = IF Len(check.todo) > 1 THEN [check EXCEPT !.todo = Tail(@)]
                ELSE [check EXCEPT !.todo = <<>>, !.phase = "reported", !.ready = TRUE]
    /\ UNCHANGED <<draftVars, deployed, ticks, running, redisBeat, rowBeat, lastRun>>

\* One component that is not in order, or takes longer than ten seconds,
\* settles the report.
ProbeFails ==
    /\ check.phase = "probing"
    /\ check' = NoCheck
    /\ UNCHANGED <<draftVars, deployed, ticks, running, redisBeat, rowBeat, lastRun>>

-----------------------------------------------------------------------------
EditNext == \E v \in DOMAIN Values : \E value \in Values[v] : Edit(v, value)

RolloutNext ==
    \/ \E name \in Deployable : Deploy(name)
    \/ \E p \in WorkerProcess : (\E g \in 1..MaxDeployments : StartWorker(p, g)) \/ Beat(p) \/ StopWorker(p)
    \/ RolloutTime
    \/ (\E g \in 1..MaxDeployments : StartCheck(g)) \/ ProbePasses \/ ProbeFails

ReadinessNext == EditNext \/ RolloutNext

ReadinessSpec == ReadinessInit /\ [][ReadinessNext]_readinessVars

-----------------------------------------------------------------------------
(* Safety. *)

Beats == [generation : 0..MaxDeployments, at : {Never} \cup 0..LastHour]

\* State keeps its shape: a process runs what was deployed, a heartbeat is of it.
ReadinessTypeOK ==
    /\ template \in DOMAIN Settings /\ \A v \in DOMAIN altered : altered[v] \in Values[v]
    /\ ticks \in 0..LastHour
    /\ Len(deployed) <= MaxDeployments /\ Members(deployed) \subseteq Deployable
    /\ running \in [WorkerProcess -> 0..Len(deployed)]
    /\ redisBeat \in [CriticalKind -> Beats] /\ rowBeat \in [WorkerProcess -> Beats]
    /\ check.phase \in {"none", "probing", "reported"} /\ check.ready = (check.phase = "reported")
    /\ lastRun \in [Kind -> [1..MaxDeployments -> {Never} \cup 0..LastHour]]

\* docs/tasks/TASK-005.md:60 and staging-configuration.ts: whatever an operator
\* sets, in an environment that the check for production (for a production that
\* is not a developer's staging) or the check for managed staging accepts, the
\* services are those that processes share, they can be built, and the health of
\* the documents needs every part of them: none is skipped as not required.
CheckedStarts ==
    LET e == Draft
    IN  \/ Production(e) /\ ProductionAccepts(e)
        \/ e.mode = "managed" /\ StagingAccepts(e)
        => /\ ServicesBuild(e) /\ SharedServices(e)
           /\ WorkerLoads(e) => DocumentsHealthy(e, Part)
           /\ \A p \in {"postgresql", "redis", "s3", "ocr", RagConfiguration(e).answer} :
                 ~ DocumentsHealthy(e, Part \ {p})

\* A report of a deployment as ready is true of the workers: while processes of
\* two deployments start, beat and die in any order, also during the check, a
\* worker of every kind that is needed, of this very deployment, was running when
\* the check began or at most two minutes before.
ReadyIsTrue ==
    check.ready =>
        LET g == check.generation
        IN  \A k \in Kind \ (IF JiraEnabled(Environment(g)) THEN {} ELSE JiraKind) :
                \/ \E p \in WorkerProcess : KindOf[p] = k /\ running[p] = g
                \/ lastRun[k][g] >= check.since - AgeLimit

\* Together: what is deployed as checked, and reported as ready, is.
DeployedAsChecked == CheckedStarts /\ ReadyIsTrue

\* No run checks these.  The check for production does not ask for the worker's
\* ids, without which no worker starts,
CheckedWorkersStart == ProductionAccepts(Draft) => WorkerLoads(Draft)

\* and it takes a developer's staging for production, where fake models and
\* vectors in memory will do; managed staging may be no production at all.
AcceptedIsProduction ==
    /\ ProductionAccepts(Draft) => SharedServices(Draft)
    /\ Draft.mode = "managed" /\ StagingAccepts(Draft) => Production(Draft)
=============================================================================
