--------------------------- MODULE NamespaceWatch ---------------------------
(* The status watcher of the leader (k8s/watcher.go): it polls the namespace *)
(* of an instance, broadcasts what changed, and sets the instance to error.  *)
(* The row changes under it: deploys, stops and blocking post-deploy hooks.  *)
EXTENDS Integers, Sequences, SequencesExt, FiniteSets, FiniteSetsExt

----------------------------------------------------------------------------
(* The status of a stack namespace as the backend computes it from the       *)
(* objects of the namespace (k8s/status.go, k8s/release_owner.go) and the    *)
(* comparison of two statuses (k8s/watcher.go).  An object is a record of    *)
(* what these functions read; a container is [ready, restarts, state].       *)

\* A namespace: its deployments [name, label, annotation, otherNs, desired, ready, updated], its pods
\* [name, label, owner, phase, inits, containers] and, when it does not exist, NotFound.
NotFound == [deployments |-> {}, pods |-> {}, exists |-> FALSE]

CONSTANT RestartThreshold   \* degradedRestartThreshold

Unmanaged == "_unmanaged"

----------------------------------------------------------------------------
(* The Helm release of an object.                                            *)

\* The release labels, else the Helm annotations of this namespace.
objectRelease(d) == IF d.label # "" THEN d.label ELSE IF d.otherNs THEN "" ELSE d.annotation

\* deploymentReleases and podRelease: the release labels of the pod, else the release of the
\* Deployment in the name of its ReplicaSet.
podRelease(p, deployments) ==
    LET owners == {d \in deployments : d.name = p.owner /\ objectRelease(d) # ""}
    IN IF p.label # "" THEN p.label
       ELSE IF owners = {} THEN "" ELSE objectRelease(CHOOSE d \in owners : TRUE)

ReleaseOrUnmanaged(r) == IF r = "" THEN Unmanaged ELSE r

----------------------------------------------------------------------------
(* The status of a namespace.                                                *)

\* What a pod shows: its phase, whether every container is ready, its restarts, its containers.
PodInfo(p) ==
    LET all == p.inits \o p.containers
    IN [name |-> p.name, phase |-> p.phase, states |-> all,
        ready |-> \A i \in DOMAIN all : all[i].ready,
        restarts |-> FoldLeft(LAMBDA sum, c : sum + c.restarts, 0, all)]

\* GetNamespaceStatus groups the deployments and pods by release.
Charts(ns) ==
    LET Of(p) == ReleaseOrUnmanaged(podRelease(p, ns.deployments))
        releases == {ReleaseOrUnmanaged(objectRelease(d)) : d \in ns.deployments} \cup {Of(p) : p \in ns.pods}
    IN {[release |-> r,
         deployments |-> {d \in ns.deployments : ReleaseOrUnmanaged(objectRelease(d)) = r},
         pods |-> {PodInfo(p) : p \in {q \in ns.pods : Of(q) = r}}] : r \in releases}

\* The first case of determineChartStatus that a pod meets.
PodVerdict(p) ==
    CASE p.phase = "Failed" -> "error"
      [] p.phase = "Succeeded" -> "healthy"
      [] p.phase \notin {"Failed", "Succeeded"} /\ p.restarts >= RestartThreshold -> "degraded"
      [] OTHER -> IF p.phase = "Pending" \/ ~p.ready THEN "progressing" ELSE "healthy"

DeploymentVerdict(d) ==
    CASE d.ready >= d.desired -> "healthy"
      [] d.ready < d.desired /\ d.updated < d.desired -> "progressing"
      [] OTHER -> "degraded"

Priority == [healthy |-> 0, progressing |-> 1, degraded |-> 2, error |-> 3]

Worst(verdicts) ==
    IF verdicts = {} THEN "healthy" ELSE CHOOSE v \in verdicts : \A w \in verdicts : Priority[w] <= Priority[v]

determineChartStatus(chart) ==
    Worst({PodVerdict(p) : p \in chart.pods} \cup {DeploymentVerdict(d) : d \in chart.deployments})

determineOverallStatus(charts) == Worst({determineChartStatus(c) : c \in charts})

\* GetNamespaceStatus.
GetNamespaceStatus(ns) ==
    IF ns = NotFound THEN [status |-> "not_found", charts |-> {}]
    ELSE [status |-> determineOverallStatus(Charts(ns)), charts |-> Charts(ns)]

----------------------------------------------------------------------------
(* The comparison of two statuses.                                           *)

PodsOf(st) == UNION {c.pods : c \in st.charts}

countPodStates(st) == [k \in {<<p.phase, p.ready>> : p \in PodsOf(st)} |-> Cardinality({p \in PodsOf(st) : <<p.phase, p.ready>> = k})]

totalRestarts(st) == MapThenSumSet(LAMBDA p : p.restarts, PodsOf(st))

\* The containers by pod and position with their state and restarts; the ready flag is not in it.
containerStateDigest(st) ==
    {<<p.name, i, p.states[i].state, p.states[i].restarts>> : <<p, i>> \in
        {x \in PodsOf(st) \X (1 .. 4) : x[2] \in DOMAIN x[1].states}}

countReadyReplicas(st) == MapThenSumSet(LAMBDA c : MapThenSumSet(LAMBDA d : d.ready, c.deployments), st.charts)

statusDetailsChanged(prev, curr) ==
    \/ Cardinality(prev.charts) # Cardinality(curr.charts)
    \/ countPodStates(prev) # countPodStates(curr)
    \/ totalRestarts(prev) # totalRestarts(curr)
    \/ containerStateDigest(prev) # containerStateDigest(curr)
    \/ countReadyReplicas(prev) # countReadyReplicas(curr)

----------------------------------------------------------------------------
(* The requests of a pod, as the scheduler counts them.                      *)

\* A sidecar adds to all that starts after it; a regular init container runs alone on top of them.
InitStep(sum, c) ==
    LET side == IF c.sidecar THEN sum.side + c.request ELSE sum.side
    IN [side |-> side, peak |-> Max({sum.peak, IF c.sidecar THEN side ELSE side + c.request})]

podEffectiveRequests(pod) ==
    LET init == FoldLeft(InitStep, [side |-> 0, peak |-> 0], pod.inits)
    IN Max({init.peak, pod.app + init.side}) + pod.overhead

\* What the pod uses when its init container i, or (i past the last) its app containers run.
UseAt(pod, i) ==
    LET running == {j \in DOMAIN pod.inits : j < i /\ pod.inits[j].sidecar}
    IN MapThenSumSet(LAMBDA j : pod.inits[j].request, running)
         + (IF i \in DOMAIN pod.inits THEN pod.inits[i].request ELSE pod.app) + pod.overhead

----------------------------------------------------------------------------
CONSTANTS
    WatchContents,  \* what the namespace may hold, by name
    StatusSamples,  \* namespaces whose status is looked at
    PodSamples,     \* pods whose requests are looked at
    HookTime,       \* how long blocking hooks may run
    MaxWatchTime, MaxDeploys, MaxTermEnds,
    WatchFaults     \* subset of {"read", "write"}

ASSUME WatchAssumption ==
    /\ HookTime \in Nat /\ MaxWatchTime \in Nat /\ MaxDeploys \in Nat /\ MaxTermEnds \in Nat
    /\ WatchFaults \subseteq {"read", "write"}

VARIABLES
    watchTime,
    content,    \* what the namespace holds
    instRow,    \* status and post_deploy_hook_until of the instance
    watcher,    \* "runs", "ends" (the term is over, the loop not yet), "off"
    lastStatus, \* the content behind the cached status, or NoContent
    wpoll,      \* the poll: its step, the row it listed, what it read
    shown,      \* the content of the last broadcast, or NoContent
    deploys, termEnds,
    looked,     \* a sample that is looked at
    memory      \* history: [skipped, erred, failed]

watchVars == <<watchTime, content, instRow, watcher, lastStatus, wpoll, shown, deploys, termEnds, looked, memory>>
envVars == <<watchTime, content, instRow, deploys, termEnds, looked>>

NoContent == "none"
NoRow == [status |-> "none", hookUntil |-> 0]
NoPoll == [step |-> "idle", row |-> NoRow, read |-> NoContent]
NoMemory == [skipped |-> FALSE, erred |-> FALSE, failed |-> FALSE]
Contents == DOMAIN WatchContents
StartContent == CHOOSE c \in Contents : GetNamespaceStatus(WatchContents[c]).status = "healthy"

WatchInit ==
    /\ watchTime = 0 /\ content = StartContent /\ instRow = [status |-> "running", hookUntil |-> 0]
    /\ watcher = "runs" /\ lastStatus = NoContent /\ wpoll = NoPoll /\ shown = NoContent
    /\ deploys = 0 /\ termEnds = 0 /\ looked = <<>> /\ memory = NoMemory

\* The statuses of the contents, and which two of them differ in their details.
Full == [c \in Contents |-> GetNamespaceStatus(WatchContents[c])]
Differ == [x \in Contents \X Contents |-> statusDetailsChanged(Full[x[1]], Full[x[2]])]
StatusOf(c) == Full[c].status

----------------------------------------------------------------------------
(* The cluster and the other writers of the row.                             *)

WatchTick ==
    /\ watchTime < MaxWatchTime /\ watchTime' = watchTime + 1
    /\ UNCHANGED <<content, instRow, watcher, lastStatus, wpoll, shown, deploys, termEnds, looked, memory>>

\* Pods and deployments change.
ContentChanges ==
    /\ \E c \in Contents : content' = c
    /\ UNCHANGED <<watchTime, instRow, watcher, lastStatus, wpoll, shown, deploys, termEnds, looked, memory>>

SetRow(row) ==
    /\ instRow' = row
    /\ UNCHANGED <<watchTime, content, watcher, lastStatus, wpoll, shown, termEnds, looked>>

\* A deploy starts, reaches its blocking hooks, ends well or in error.
DeployStarts ==
    /\ deploys < MaxDeploys /\ instRow.status \in {"running", "error"}
    /\ deploys' = deploys + 1
    /\ SetRow([status |-> "deploying", hookUntil |-> 0])
    /\ memory' = [memory EXCEPT !.erred = @ \/ (instRow.status = "error" /\ lastStatus # NoContent)]

DeployHooks ==
    /\ instRow.status = "deploying"
    /\ SetRow([status |-> "stabilizing", hookUntil |-> watchTime + HookTime])
    /\ UNCHANGED <<deploys, memory>>

\* The deploy of a replica that crashed leaves the row stabilizing with its marker.
DeployEnds ==
    /\ instRow.status \in {"deploying", "stabilizing"}
    /\ \E s \in {"running", "error"} : SetRow([status |-> s, hookUntil |-> 0])
    /\ UNCHANGED <<deploys, memory>>

----------------------------------------------------------------------------
(* One poll.                                                                 *)

\* poll: the listed row; instances that are not deployed are not monitored.
PollInstances ==
    /\ watcher = "runs" /\ wpoll.step = "idle"
    /\ instRow.status \in {"running", "partial", "deploying", "stabilizing"}
    /\ wpoll' = [NoPoll EXCEPT !.step = "listed", !.row = instRow]
    /\ UNCHANGED <<envVars, watcher, lastStatus, shown, memory>>

\* GetNamespaceStatus with its own timeout; a failed read leaves the instance for the next poll.
PollRead ==
    /\ wpoll.step = "listed"
    /\ \/ watcher = "runs" /\ wpoll' = [wpoll EXCEPT !.step = "read", !.read = content]
       \/ (watcher = "ends" \/ "read" \in WatchFaults) /\ wpoll' = NoPoll
    /\ UNCHANGED <<envVars, watcher, lastStatus, shown, memory>>

\* prev of the poll against what it read.
Changed ==
    \/ lastStatus = NoContent
    \/ /\ lastStatus # NoContent
       /\ \/ StatusOf(lastStatus) # StatusOf(wpoll.read)
          \/ Differ[<<lastStatus, wpoll.read>>]

\* blockingPostDeployRuns, on the row of the list.
blockingPostDeployRuns(row, t) == row.status = "stabilizing" /\ t < row.hookUntil

\* MarkNamespaceError: the rows that the conditional update matches.
MarkNamespaceError(row, t) ==
    \/ row.status \in {"running", "partial"}
    \/ row.status = "stabilizing" /\ row.hookUntil < t

\* handleStatusTransition of an error on the listed row: skipped, not matched, marked, or failed.
Transition ==
    IF StatusOf(wpoll.read) # "error" THEN "none"
    ELSE IF wpoll.row.status = "deploying" \/ blockingPostDeployRuns(wpoll.row, watchTime) THEN "skipped"
    ELSE IF MarkNamespaceError(instRow, watchTime) THEN "marked" ELSE "skipped"

\* Only a skipped error is not stored, so that a later poll applies it.
Stores(result) == result # "skipped"

\* The rest of the poll: broadcast and handle what changed, store the status.  A write of a term that
\* is over fails.
PollApply ==
    /\ wpoll.step = "read"
    /\ \E result \in IF ~Changed THEN {"unchanged"}
                     ELSE IF Transition # "marked" THEN {Transition}
                     ELSE IF watcher = "ends" THEN {"failed"}
                     ELSE {"marked"} \cup (IF "write" \in WatchFaults THEN {"failed"} ELSE {}) :
          /\ shown' = IF Changed THEN wpoll.read ELSE shown
          /\ instRow' = IF result = "marked" THEN [instRow EXCEPT !.status = "error"] ELSE instRow
          /\ lastStatus' = IF Stores(result) THEN wpoll.read ELSE lastStatus
          /\ memory' = [memory EXCEPT !.failed = @ \/ result = "failed",
                                      !.skipped = IF Changed THEN result = "skipped" /\ lastStatus # NoContent ELSE @]
    /\ wpoll' = NoPoll
    /\ UNCHANGED <<watchTime, content, watcher, deploys, termEnds, looked>>

----------------------------------------------------------------------------
(* Terms of leadership.                                                      *)

\* The lease is lost or given up: the context of Run is cancelled.
TermEnds ==
    /\ watcher = "runs" /\ termEnds < MaxTermEnds
    /\ watcher' = "ends" /\ termEnds' = termEnds + 1
    /\ UNCHANGED <<watchTime, content, instRow, lastStatus, wpoll, shown, deploys, looked, memory>>

\* Run: the loop has returned; then it clears the statuses.
RunReturns ==
    /\ watcher = "ends" /\ wpoll.step = "idle"
    /\ watcher' = "off" /\ lastStatus' = NoContent /\ memory' = NoMemory
    /\ UNCHANGED <<envVars, wpoll, shown>>

\* The next term, here or with the empty cache of another replica.
RunAgain ==
    /\ watcher = "off" /\ watcher' = "runs"
    /\ UNCHANGED <<envVars, lastStatus, wpoll, shown, memory>>

\* A namespace whose status, or a pod whose requests, is looked at.
LookAtSample ==
    /\ looked = <<>> /\ deploys = 0 /\ watchTime = 0 /\ wpoll = NoPoll /\ lastStatus = NoContent
    /\ content = StartContent /\ watcher = "runs" /\ shown = NoContent /\ termEnds = 0
    /\ \/ \E s \in StatusSamples : looked' = <<"namespace", s>>
       \/ \E s \in PodSamples : looked' = <<"pod", s>>
    /\ UNCHANGED <<watchTime, content, instRow, watcher, lastStatus, wpoll, shown, deploys, termEnds, memory>>

WatchNext ==
    \/ LookAtSample
    \/ /\ looked = <<>>
       /\ \/ WatchTick \/ ContentChanges \/ DeployStarts \/ DeployHooks \/ DeployEnds
          \/ PollInstances \/ PollRead \/ PollApply \/ TermEnds \/ RunReturns \/ RunAgain

WatchSpec == WatchInit /\ [][WatchNext]_watchVars

----------------------------------------------------------------------------
(* Properties.                                                               *)

\* Every variable has its type.
WatchTypeOK ==
    /\ watchTime \in 0 .. MaxWatchTime /\ content \in Contents
    /\ instRow.status \in {"running", "deploying", "stabilizing", "error"}
    /\ instRow.hookUntil \in 0 .. MaxWatchTime + HookTime
    /\ watcher \in {"runs", "ends", "off"}
    /\ {lastStatus, shown, wpoll.read} \subseteq Contents \cup {NoContent}
    /\ wpoll.step \in {"idle", "listed", "read"} /\ deploys \in 0 .. MaxDeploys /\ termEnds \in 0 .. MaxTermEnds

\* The cached status is what the clients were last told, in everything the comparison of two
\* statuses looks at, unless the last broadcast was an error that the poll skipped.
ClientsSeeCachedStatus ==
    lastStatus # NoContent /\ ~memory.skipped =>
        /\ shown # NoContent /\ StatusOf(shown) = StatusOf(lastStatus)
        /\ ~Differ[<<lastStatus, shown>>]

\* The same without the exception: a poll that ends leaves the clients with the status that it read.
ClientsSeeStatus ==
    [][wpoll.step = "read" /\ wpoll'.step = "idle" => StatusOf(shown') = StatusOf(wpoll.read)]_watchVars

\* A replica that does not run the watcher serves no status of its old term, also when the term ended
\* in the middle of a poll.
NoStatusOfOldTerm == watcher = "off" => lastStatus = NoContent

\* The watcher never ends a deploy or its blocking hooks: the status that it lists may be older than
\* the row that it writes.
WatcherKeepsOperations ==
    [][wpoll.step = "read" /\ instRow'.status # instRow.status /\ wpoll'.step = "idle" =>
          instRow.status # "deploying" /\ (instRow.status = "stabilizing" => instRow.hookUntil < watchTime)]_watchVars

\* A namespace that stays in error sets its instance to error, also after blocking hooks whose replica
\* crashed, unless a write failed or the same error was already cached before the deploy.
ErrorIsMarked ==
    []<>(StatusOf(content) = "error" /\ MarkNamespaceError(instRow, watchTime) =>
            memory.failed \/ memory.erred)

\* The same without the exceptions.
ErrorIsAlwaysMarked ==
    []<>(StatusOf(content) = "error" => ~MarkNamespaceError(instRow, watchTime))

\* Grouping by release hides nothing: the status of a namespace is the worst of all of its objects,
\* whatever release they belong to or seem to belong to.
WorstObjectDecides ==
    looked # <<>> /\ looked[1] = "namespace" =>
        LET ns == looked[2]
            status == GetNamespaceStatus(ns).status
            verdicts == {PodVerdict(PodInfo(p)) : p \in ns.pods} \cup {DeploymentVerdict(d) : d \in ns.deployments}
        IN ns # NotFound =>
             /\ \A v \in verdicts : Priority[v] <= Priority[status]
             /\ status # "healthy" => status \in verdicts

\* A pod without release labels is shown with the Deployment that owns it.
PodsFollowDeployment ==
    looked # <<>> /\ looked[1] = "namespace" =>
        LET charts == Charts(looked[2])
        IN \A c \in charts, d \in looked[2].deployments, p \in looked[2].pods :
              d \in c.deployments /\ c.release # Unmanaged /\ p.owner = d.name /\ p.label = "" =>
                  PodInfo(p) \in c.pods

\* The counted request of a pod is the most that it uses at one time.
RequestsAreThePeak ==
    looked # <<>> /\ looked[1] = "pod" =>
        LET pod == looked[2]
            uses == {UseAt(pod, i) : i \in 1 .. Len(pod.inits) + 1}
        IN podEffectiveRequests(pod) = Max(uses)

=============================================================================
