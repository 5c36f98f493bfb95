--------------------------- MODULE RunningValues ---------------------------
(* Which values run: deploys, rollbacks by one Helm revision, rollbacks to a *)
(* stored deploy, stops, and the two previews that compare the values a      *)
(* deploy would render with last_deployed_values (deployer/manager.go,       *)
(* deployer/rollback_target.go, handlers/instance_rollback.go).  One         *)
(* instance and one operation at a time: Operations has the races between    *)
(* operations.  Each chart counts for itself, with its Helm revisions; the   *)
(* values of a chart are one model value and a branch is the number of the   *)
(* deploy log that used it.                                                  *)
EXTENDS Naturals, Sequences, SequencesExt

CONSTANTS
    ChartOrder,     \* the charts by deploy order
    ChartValues,    \* merged values of a chart
    MaxValueOps,    \* bound: operations
    MaxValueEdits,  \* bound: edits of the values or of the chart list
    ValueFaults     \* subset of {"source", "helm", "kill", "hook", "read"}

ASSUME RunningValuesAssumption == ChartOrder # <<>> /\ MaxValueOps \in Nat /\ MaxValueEdits \in Nat

AllCharts == Range(ChartOrder)

VARIABLES
    wanted,     \* the values that a deploy renders now, by chart
    inDef,      \* the charts of the definition
    releases,   \* Helm revisions by chart, oldest first
    vrow,       \* the instance: status and last_deployed_values (by chart)
    vlogs,      \* deploy logs, oldest first
    vop,        \* the operation that runs
    valueEdits,
    unsure,     \* ghost: charts whose recorded values an operation left behind
    promised    \* ghost: charts that a rollback answer showed without drift

runningVars == <<wanted, inDef, releases, vrow, vlogs, vop, valueEdits, unsure, promised>>

NoValues == [c \in {} |-> 0]
NoOperation == [kind |-> "none", charts |-> <<>>, todo |-> <<>>, values |-> NoValues, applied |-> NoValues,
                touched |-> {}, failed |-> {}, error |-> FALSE, before |-> "draft", branch |-> 0,
                gate |-> NoValues]
Revision(value, from, st) == [value |-> value, from |-> from, st |-> st]

NoValueOp == vop.kind = "none"
Stopping == "stop"
OneBack == "back"
ToTarget == "target"

OpStatuses == {"draft", "deploying", "running", "partial", "error", "stopping", "stopped"}

\* Type invariant.
RunningTypeOK ==
    /\ wanted \in [AllCharts -> ChartValues] /\ inDef \subseteq AllCharts
    /\ \A c \in AllCharts : \A r \in Range(releases[c]) :
          r.value \in ChartValues /\ r.st \in {"deployed", "failed", "pending"}
    /\ vrow.status \in OpStatuses /\ DOMAIN vrow.last \subseteq AllCharts
    /\ NoValueOp <=> vrow.status \notin {"deploying", "stopping"}
    /\ unsure \subseteq AllCharts /\ promised \subseteq AllCharts

RunningInit ==
    /\ wanted = [c \in AllCharts |-> CHOOSE v \in ChartValues : TRUE]
    /\ inDef \in SUBSET AllCharts \ {{}}
    /\ releases = [c \in AllCharts |-> <<>>]
    /\ vrow = [status |-> "draft", last |-> NoValues]
    /\ vlogs = <<>> /\ vop = NoOperation /\ valueEdits = 0
    /\ unsure = {} /\ promised = {}

----------------------------------------------------------------------------
(* Edits of overrides and of the definition: at any time.                    *)

Edited == /\ valueEdits < MaxValueEdits /\ valueEdits' = valueEdits + 1
          /\ promised' = {}
          /\ UNCHANGED <<releases, vrow, vlogs, vop, unsure>>

EditValues(c, v) == wanted[c] # v /\ Edited /\ wanted' = [wanted EXCEPT ![c] = v] /\ UNCHANGED inDef
DropChart(c) == c \in inDef /\ Edited /\ inDef' = inDef \ {c} /\ UNCHANGED wanted
AddChart(c) == c \notin inDef /\ Edited /\ inDef' = inDef \cup {c} /\ UNCHANGED wanted

----------------------------------------------------------------------------
(* The start of an operation: its log and the status.                        *)

DefinedCharts == SelectSeq(ChartOrder, LAMBDA c : c \in inDef)
Rendered == [c \in inDef |-> wanted[c]]
LogOf(action, branch) == [action |-> action, status |-> "running", snapshot |-> NoValues, branch |-> branch]

\* The chart list of the pre-rollback payload: the charts of the target, or every chart,
\* with the branch that the rollback is taken to reach (0: the current one).
rollbackHookOpts(kind, target, branch) ==
    CASE kind = OneBack -> [c \in inDef |-> branch]
      [] kind = ToTarget -> [c \in inDef \cap DOMAIN target |-> branch]
      [] OTHER -> NoValues

Begin(kind, action, status, values, branch) ==
    /\ NoValueOp /\ inDef # {} /\ Len(vlogs) < MaxValueOps
    /\ vlogs' = Append(vlogs, LogOf(action, branch))
    /\ vop' = [NoOperation EXCEPT !.kind = kind, !.charts = DefinedCharts, !.todo = DefinedCharts,
                                  !.values = values, !.before = vrow.status, !.branch = branch,
                                  !.gate = rollbackHookOpts(kind, values, branch)]
    /\ vrow' = [vrow EXCEPT !.status = status]
    /\ UNCHANGED <<wanted, inDef, releases, valueEdits, unsure>>

\* DeployInstance: every deploy here uses a branch of its own.
DeployRendered ==
    Begin("deploy", "deploy", "deploying", Rendered, Len(vlogs) + 1) /\ promised' = {}

StopReleases ==
    /\ vrow.status \in {"running", "partial", "error"}
    /\ Begin(Stopping, "stop", "stopping", NoValues, 0)
    /\ promised' = promised

\* ListLatestByActions: the deploy and rollback logs, oldest first.
LatestByActions == SelectSeq(vlogs, LAMBDA l : l.action \in {"deploy", "rollback"})

lastOperationWasRollback ==
    LET found == LatestByActions
    IN  found # <<>> /\ Last(found).action = "rollback" /\ Last(found).status = "success"

\* The branch of the revision that a rollback by one revision is expected to reach: of
\* the newest successful log after a failed one, else of the second newest.  0: unknown.
previousRevisionBranch ==
    LET found == LatestByActions
        good == SelectSeq(found, LAMBDA l : l.status = "success")
        wants == IF found # <<>> /\ Last(found).status # "success" THEN 1 ELSE 2
    IN  IF Len(good) < wants THEN 0 ELSE good[Len(good) + 1 - wants].branch

\* Only charts that the target and the definition have are compared.
targetValuesDrift(target) == \E c \in inDef \cap DOMAIN target : wanted[c] # target[c]

RollbackTargets == {i \in DOMAIN vlogs : /\ vlogs[i].action = "deploy" /\ vlogs[i].status = "success"
                                         /\ vlogs[i].snapshot # NoValues}

MayRollBack == vrow.status \in {"running", "partial", "error"}

RollbackOneRevision ==
    /\ MayRollBack
    /\ Begin(OneBack, "rollback", "deploying", NoValues, previousRevisionBranch)
    /\ promised' = {}

\* RollbackInstance with target_log_id: answers with the drift.
RollbackToDeploy(i) ==
    /\ MayRollBack
    /\ Begin(ToTarget, "rollback", "deploying", vlogs[i].snapshot, vlogs[i].branch)
    /\ promised' = IF targetValuesDrift(vlogs[i].snapshot) THEN {} ELSE inDef \cap DOMAIN vlogs[i].snapshot

----------------------------------------------------------------------------
(* The Helm work, one chart after the other.                                 *)

Untouched == UNCHANGED <<wanted, inDef, vrow, vlogs, valueEdits, unsure, promised>>
Todo == Head(vop.todo)
Working(kinds) == vop.kind \in kinds /\ vop.todo # <<>> /\ ~vop.error

IsPending(revs) == revs # <<>> /\ Last(revs).st = "pending"

\* recoverPendingRelease deletes the newest revision when it is stuck.
Recovered(revs) == IF IsPending(revs) THEN Front(revs) ELSE revs

\* A chart is done: ok (applied), failed, or skipped.
Passed(c) == [vop EXCEPT !.todo = Tail(@), !.touched = @ \cup {c}]
Applied(c, value) == [Passed(c) EXCEPT !.applied = (c :> value) @@ @]

\* helm upgrade --install.  A failed call leaves a failed revision with the new values.
InstallOne(c, st) ==
    releases' = [releases EXCEPT ![c] = Append(Recovered(@), Revision(vop.values[c], vop.branch, st))]

\* executeDeploy goes on with the other charts after a failure.
InstallChart ==
    /\ Working({"deploy"})
    /\ LET c == Todo IN
       \/ InstallOne(c, "deployed") /\ vop' = Applied(c, vop.values[c])
       \/ "helm" \in ValueFaults /\ InstallOne(c, "failed")
          /\ vop' = [Passed(c) EXCEPT !.failed = @ \cup {c}]
       \/ "source" \in ValueFaults /\ UNCHANGED releases
          /\ vop' = [vop EXCEPT !.todo = Tail(@), !.failed = @ \cup {c}]
    /\ Untouched

\* rollbackToTarget: charts that the target does not have are left alone, the first
\* error ends the rollback.
InstallTarget ==
    /\ Working({ToTarget})
    /\ LET c == Todo IN
       IF c \notin DOMAIN vop.values
       THEN vop' = [vop EXCEPT !.todo = Tail(@)] /\ UNCHANGED releases
       ELSE \/ InstallOne(c, "deployed") /\ vop' = Applied(c, vop.values[c])
            \/ "helm" \in ValueFaults /\ InstallOne(c, "failed")
               /\ vop' = [Passed(c) EXCEPT !.error = TRUE]
            \/ "source" \in ValueFaults /\ UNCHANGED releases /\ vop' = [vop EXCEPT !.error = TRUE]
    /\ Untouched

\* helm history --max 2: the revision to go back to, 0 when there is none.  After a
\* stuck revision was removed it is the newest one that is left.
TargetRevision(revs) ==
    LET left == Recovered(revs)
    IN  IF IsPending(revs) THEN Len(left)
        ELSE IF Len(left) < 2 THEN 0 ELSE Len(left) - 1

\* helm rollback writes a new revision with the values of the old one.  A release that
\* is gone has no history: an error.
RollBackChart ==
    /\ Working({OneBack})
    /\ LET c == Todo
           n == TargetRevision(releases[c])
           left == Recovered(releases[c])
           Again(st) == releases' = [releases EXCEPT ![c] = Append(left, Revision(left[n].value, left[n].from, st))]
       IN  \/ releases[c] = <<>> /\ vop' = [vop EXCEPT !.error = TRUE] /\ UNCHANGED releases
           \/ /\ releases[c] # <<>> /\ n = 0
              /\ vop' = [vop EXCEPT !.todo = Tail(@)] /\ releases' = [releases EXCEPT ![c] = left]
           \/ n > 0 /\ Again("deployed") /\ vop' = Applied(c, left[n].value)
           \/ n > 0 /\ "helm" \in ValueFaults /\ Again("failed")
              /\ vop' = [Passed(c) EXCEPT !.error = TRUE]
    /\ Untouched

\* helm uninstall of the charts of the definition; the first error ends the stop.
UninstallChart ==
    /\ Working({Stopping})
    /\ LET c == Todo IN
       \/ releases' = [releases EXCEPT ![c] = <<>>] /\ vop' = [vop EXCEPT !.todo = Tail(@)]
       \/ "helm" \in ValueFaults /\ UNCHANGED releases /\ vop' = [vop EXCEPT !.error = TRUE]
    /\ Untouched

----------------------------------------------------------------------------
(* The end of an operation.                                                  *)


mergeRunningValues(previous, applied) == applied @@ previous

ValueOpEnds(status, logStatus, last, snapshot, left) ==
    /\ vrow' = [status |-> status, last |-> last]
    /\ vlogs' = [vlogs EXCEPT ![Len(vlogs)].status = logStatus, ![Len(vlogs)].snapshot = snapshot]
    /\ unsure' = left
    /\ vop' = NoOperation
    /\ UNCHANGED <<wanted, inDef, releases, valueEdits>>

WorkIsOver == vop.todo = <<>> \/ vop.error

finalizeDeploy ==
    LET all == DOMAIN vop.values
    IN  /\ vop.kind = "deploy" /\ WorkIsOver
        /\ IF vop.failed = all
           THEN ValueOpEnds("error", "error", vrow.last, NoValues, unsure \cup vop.touched)
           ELSE IF vop.failed # {}
           THEN ValueOpEnds("partial", "partial", vop.values, vop.values, (unsure \ all) \cup vop.failed)
           ELSE ValueOpEnds("running", "success", vop.values, vop.values, unsure \ all)
        /\ promised' = {}

\* collectChartValues reads the values of the newest revisions.
CollectChartValues(charts) == [c \in {d \in charts : releases[d] # <<>>} |-> Last(releases[c]).value]

\* What a rollback records; known: the charts that it should have recorded.
finalizeRollback(applied, known) ==
    LET last == mergeRunningValues(vrow.last, applied)
        left == (unsure \cup vop.touched) \ known
    IN  IF vop.error
        THEN ValueOpEnds("error", "error", last, NoValues, left) /\ promised' = {}
        ELSE /\ ValueOpEnds("running", "success", last, IF applied = NoValues THEN NoValues ELSE last, left)
             /\ promised' = promised

\* A rollback by one revision reads the values of all its charts, after an error of
\* those that it rolled back.  A release whose values cannot be read is left out.
RollbackEnds ==
    /\ WorkIsOver
    /\ \/ vop.kind = ToTarget /\ finalizeRollback(vop.applied, DOMAIN vop.applied)
       \/ /\ vop.kind = OneBack
          /\ LET charts == IF vop.error THEN DOMAIN vop.applied ELSE Range(vop.charts)
             IN  \E unread \in SUBSET charts :
                   /\ unread = {} \/ "read" \in ValueFaults
                   /\ finalizeRollback(CollectChartValues(charts \ unread), charts \ unread)

StopEnds ==
    /\ vop.kind = Stopping /\ WorkIsOver
    /\ ValueOpEnds(IF vop.error THEN "error" ELSE "stopped", IF vop.error THEN "error" ELSE "success",
            vrow.last, NoValues, unsure)
    /\ promised' = promised

\* The blocking hook before the Helm work says no: a deploy ends with an error, a
\* rollback gives the instance its status back.
HookRejects ==
    /\ "hook" \in ValueFaults
    /\ vop.kind \in {"deploy", OneBack, ToTarget} /\ vop.todo = vop.charts /\ ~vop.error
    /\ vop.touched = {} /\ vop.failed = {}
    /\ ValueOpEnds(IF vop.kind = "deploy" THEN "error" ELSE vop.before, "error", vrow.last, NoValues, unsure)
    /\ promised' = {}

\* The process dies during a Helm call: the revision stays pending and the recovery of
\* interrupted operations ends the log.
Killed ==
    /\ "kill" \in ValueFaults
    /\ Working({"deploy", ToTarget, OneBack})
    /\ LET c == Todo
           left == Recovered(releases[c])
           n == TargetRevision(releases[c])
           Stuck(value, from) == releases' = [releases EXCEPT ![c] = Append(left, Revision(value, from, "pending"))]
       IN  \/ c \in DOMAIN vop.values /\ Stuck(vop.values[c], vop.branch)
           \/ vop.kind = OneBack /\ n > 0 /\ Stuck(left[n].value, left[n].from)
    /\ vrow' = [vrow EXCEPT !.status = "error"]
    /\ vlogs' = [vlogs EXCEPT ![Len(vlogs)].status = "error"]
    /\ unsure' = unsure \cup vop.touched \cup {Todo}
    /\ vop' = NoOperation /\ promised' = {}
    /\ UNCHANGED <<wanted, inDef, valueEdits>>

RunningNext ==
    \/ \E c \in AllCharts : DropChart(c) \/ AddChart(c) \/ \E v \in ChartValues : EditValues(c, v)
    \/ DeployRendered \/ StopReleases \/ RollbackOneRevision
    \/ \E i \in RollbackTargets : RollbackToDeploy(i)
    \/ InstallChart \/ InstallTarget \/ RollBackChart \/ UninstallChart
    \/ finalizeDeploy \/ RollbackEnds \/ StopEnds \/ HookRejects \/ Killed

RunningSpec == RunningInit /\ [][RunningNext]_runningVars

----------------------------------------------------------------------------
(* The previews.                                                             *)

Before(c) == IF c \in DOMAIN vrow.last THEN vrow.last[c] ELSE "none"
ChangedCharts == {c \in inDef : wanted[c] # Before(c)}

\* DeployPreview's values_drift.
DeployPreviewDrift == ChangedCharts # {} /\ lastOperationWasRollback

Installed(c) == releases[c] # <<>>
Runs(c) == Last(releases[c]).value


\* A rollback that answered values_drift false and succeeded leaves nothing for the next
\* deploy to undo: until somebody edits values or charts, a deploy renders what the
\* charts of the target run (targetValuesDrift, rollbackToTarget).
DriftAnswerHolds ==
    NoValueOp => \A c \in promised : Installed(c) => Runs(c) = wanted[c]

\* While the newest deploy or rollback is a successful rollback, the deploy preview
\* shows drift whenever a deploy would change a chart whose values are known, also
\* after a stop in between (DeployPreview, lastOperationWasRollback).
UndoIsShown ==
    (NoValueOp /\ \E i \in DOMAIN vlogs :
        /\ vlogs[i].action = "rollback" /\ vlogs[i].status = "success"
        /\ \A j \in i + 1 .. Len(vlogs) : vlogs[j].action = "stop"
        /\ \E c \in inDef \ unsure : Installed(c) /\ Runs(c) # wanted[c])
    => DeployPreviewDrift

\* docs/claude/domain.md: "A successful rollback sets LastDeployedValues to the running
\* values."  Stated for the charts of the definition.
RollbackRecordsRunning ==
    (NoValueOp /\ vlogs # <<>> /\ Last(vlogs).action = "rollback" /\ Last(vlogs).status = "success")
    => \A c \in inDef \cap DOMAIN vrow.last : Installed(c) => Runs(c) = vrow.last[c]

\* rollback_target.go: previousRevisionBranch "returns the branch of the revision that a
\* one-revision helm rollback goes to", and the pre-rollback gate gets it for every
\* chart.  A chart that a rollback has changed runs the branch that the gate was shown.
GateSeesBranch ==
    \A c \in DOMAIN vop.gate \cap DOMAIN vop.applied :
        vop.gate[c] # 0 => Last(releases[c]).from = vop.gate[c]
============================================================================
