------------------------------ MODULE Deployer ------------------------------
(***************************************************************************)
(* deployer.Manager: the operations on one stack instance, on every replica *)
(* of the server.  A request handler reads the instance row, checks its     *)
(* status and starts an operation: it stamps a deployment log, writes the   *)
(* log and the row in one transaction and returns; a goroutine runs the     *)
(* Helm work under the concurrency limit of its process and finalizes.      *)
(*                                                                          *)
(* One instance is enough: operations of different instances share only the *)
(* concurrency slots.  Every read that a later write depends on is a step   *)
(* of its own, so other operations interleave there.                        *)
(***************************************************************************)
EXTENDS Naturals, FiniteSets

----------------------------------------------------------------------------
(***************************************************************************)
(* The two tables that coordinate the operations on one stack instance: its *)
(* row in stack_instances and its rows in deployment_logs.  Every operation *)
(* (deploy, stop, clean, rollback) writes a log; the newest log owns the    *)
(* instance.  An operator below is one statement of a repository; what a    *)
(* transaction groups is one step of the module that uses it.               *)
(***************************************************************************)

CONSTANTS MaxOps,    \* bound on the number of operations ever requested
          Replicas   \* the server processes

ASSUME MaxOpsAssumption == MaxOps \in Nat

VARIABLES
  inst,    \* the instance row; exists is FALSE once it is deleted
  log,     \* [operation -> its deployment log, status "none" before it exists;
           \* action and replica are those of the request]
  changed  \* updated_at of the row changed since the recovery read it

storeVars == <<inst, log, changed>>

Ops == 1..MaxOps

\* models.StackStatus*.  No code in src/ writes "queued".
InstanceStatuses ==
  {"draft", "deploying", "stabilizing", "running", "partial",
   "stopping", "stopped", "cleaning", "error"}
InProgress == {"deploying", "stabilizing", "stopping", "cleaning"}
CleanStatuses == {"running", "partial", "stopped", "error"}

\* What a request asks for.  A "delete" is the clean of a delete and its log
\* has the action clean; a "remove" (the delete of a draft) writes no log.
Actions == {"deploy", "rollback", "stop", "clean", "delete", "remove"}
LogStatuses == {"none", "running", "success", "partial", "error"}

Instances == [exists : BOOLEAN, status : InstanceStatuses,
              hook : BOOLEAN,    \* post_deploy_hook_until is set and not passed
              mark : BOOLEAN]    \* delete_after_clean
Logs == [status : LogStatuses, action : Actions, replica : Replicas,
         startedAt : 0..MaxOps,
         expired : BOOLEAN]      \* deadline_at passed

StoreTypeOK == inst \in Instances /\ log \in [Ops -> Logs] /\ changed \in BOOLEAN

-----------------------------------------------------------------------------
(* Reads                                                                    *)

Running(o) == log[o].status = "running"
Started(o) == log[o].status # "none"

\* newerOperation: the first row of ListLatestByActions is another log.
newerOperation(o) == \E p \in Ops : Started(p) /\ log[p].startedAt > log[o].startedAt

\* instanceOwnership: the status is one of okStatuses and no log is newer.
ownsInstance(o, okStatuses) ==
  inst.exists /\ inst.status \in okStatuses /\ ~newerOperation(o)

\* hookPhaseOwned: the same for a watcher; an instance that cannot be read
\* counts as owned.
hookPhaseOwned(o, okStatuses) == ~inst.exists \/ ownsInstance(o, okStatuses)

-----------------------------------------------------------------------------
(* Writes of the instance row                                               *)

\* Repository.Update: all columns of the caller's copy except
\* delete_after_clean.  Save inserts the row when it is gone.
Update(row) ==
  /\ inst' = [exists |-> TRUE, status |-> row.status, hook |-> row.hook,
              mark |-> inst.exists /\ inst.mark]
  /\ changed' = TRUE

\* The conditional updates set single columns of the stored row.
SetStatus(s) ==
  /\ inst' = [inst EXCEPT !.status = s]
  /\ changed' = TRUE

CleanStartIgnoresMark(forDelete) == inst.exists /\ inst.status \in CleanStatuses

\* MarkCleanStart matches: the status allows a clean, and a plain clean finds
\* no delete mark.
CleanStartMatches(forDelete) ==
  inst.exists /\ inst.status \in CleanStatuses /\ (forDelete \/ ~inst.mark)

MarkCleanStart(forDelete) ==
  /\ inst' = [inst EXCEPT !.status = "cleaning", !.mark = @ \/ forDelete]
  /\ changed' = TRUE

\* MarkNamespaceError matches: settled with resources, or stabilizing without
\* running blocking hooks.
NamespaceErrorMatches ==
  inst.exists /\ (inst.status \in {"running", "partial"}
                  \/ (inst.status = "stabilizing" /\ ~inst.hook))

\* UpdateColumn leaves updated_at alone.
ClearDeleteAfterClean ==
  /\ inst' = [inst EXCEPT !.mark = FALSE]
  /\ UNCHANGED changed

\* DeleteInstanceRecord deletes the row.
DeleteRow ==
  /\ inst' = [exists |-> FALSE, status |-> "draft", hook |-> FALSE, mark |-> FALSE]
  /\ changed' = TRUE

-----------------------------------------------------------------------------
(* Writes of a deployment log                                               *)

CreateLog(o) == log' = [log EXCEPT ![o].status = "running", ![o].expired = FALSE]

\* DeploymentLogRepository.Update changes a running log only; see its guards.
EndLog(o, s) == log' = [log EXCEPT ![o].status = s]

\* ExtendDeadline of a running log.
ExtendDeadline(o) == log' = [log EXCEPT ![o].expired = FALSE]

----------------------------------------------------------------------------
CONSTANTS
  Requests,       \* the kinds of requests that arrive, a subset of Actions
  NumCharts,      \* charts of the stack definition, in deploy order
  MaxConcurrent,  \* capacity of Manager.semaphore, per replica
  Gates,          \* subset of {"readiness", "blocking"}: configured gates
  Windows,        \* subset of Actions \cup {"final"}: see Exclusive
  Faults          \* what goes wrong, a subset of FaultKinds

ASSUME RequestsAssumption == Requests \subseteq Actions
ASSUME NumChartsAssumption == NumCharts \in Nat \ {0}
ASSUME MaxConcurrentAssumption == MaxConcurrent \in Nat \ {0}

FaultKinds ==
  {"crash", "shutdown",  \* of a process
   "stale",              \* a live process misses its heartbeats
   "slow",               \* an operation waits for its slot past its deadline
   "read", "write",      \* a database call of a goroutine fails
   "pods",               \* the namespace reports an error
   "reap"}               \* the TTL reaper cannot start its stop

VARIABLES
  op,        \* [operation -> state of its handler or goroutine]
  slots,     \* [replica -> tokens in Manager.semaphore]
  proc,      \* [replica -> "up", "draining" (shuttingDown) or "down"]
  beat,      \* [replica -> its heartbeat is fresh]
  releases,  \* charts with a Helm release in the namespace
  ns         \* the namespace: "absent", "active" or "terminating"

managerVars == <<op, slots>>
clusterVars == <<releases, ns>>
processVars == <<proc, beat>>
vars == <<inst, log, changed, op, slots, proc, beat, releases, ns>>

Charts == 1..NumCharts
Rows == [status : InstanceStatuses \cup {"keep"}, hook : BOOLEAN]
NoRow == [status |-> "keep", hook |-> FALSE]
RowRead == [status |-> inst.status, hook |-> inst.hook]

Outcomes == {"ok", "partial", "error"}
RequestPcs == {"read", "restarted", "stamped"}
HelmPcs == {"prepare", "install", "installing", "rollback", "rolling",
            "uninstall", "namespace", "readiness", "marking", "stabilizing"}
Pcs == {"idle", "preHook", "waiting", "queued", "postDeploy", "markBlocking",
        "blocking", "finalize", "reject", "finalWrite", "delete", "done"}
       \cup RequestPcs \cup HelmPcs

IdleOp == [pc |-> "idle", row |-> NoRow, todo |-> {}, failed |-> {},
           outcome |-> "ok", del |-> FALSE, slot |-> FALSE]
DoneOp == [IdleOp EXCEPT !.pc = "done"]

OpStates == [pc : Pcs, row : Rows,
             todo : SUBSET Charts, failed : SUBSET Charts, outcome : Outcomes,
             del : BOOLEAN,     \* shouldDelete of finalizeClean
             slot : BOOLEAN]    \* releaseSlot not called yet

TypeOK ==
  /\ StoreTypeOK
  /\ op \in [Ops -> OpStates]
  /\ slots \in [Replicas -> 0..MaxConcurrent]
  /\ proc \in [Replicas -> {"up", "draining", "down"}]
  /\ beat \in [Replicas -> BOOLEAN]
  /\ releases \subseteq Charts
  /\ ns \in {"absent", "active", "terminating"}

\* A stack that was never deployed, one that runs and one that was stopped;
\* no operation runs.
Init ==
  /\ \E s \in {"draft", "running", "stopped"} :
       /\ inst = [exists |-> TRUE, status |-> s, hook |-> FALSE, mark |-> FALSE]
       /\ releases = IF s = "running" THEN Charts ELSE {}
       /\ ns = IF s = "draft" THEN "absent" ELSE "active"
  /\ \E r \in Replicas :
       log = [o \in Ops |-> [status |-> "none", action |-> "deploy",
                             replica |-> r, startedAt |-> 0, expired |-> FALSE]]
  /\ changed = TRUE
  /\ op = [o \in Ops |-> IdleOp]
  /\ slots = [r \in Replicas |-> 0]
  /\ proc = [r \in Replicas |-> "up"]
  /\ beat = [r \in Replicas |-> TRUE]

-----------------------------------------------------------------------------
(* Bookkeeping                                                              *)

action(o) == log[o].action
replica(o) == log[o].replica
pc(o) == op[o].pc
ShuttingDown(o) == proc[replica(o)] = "draining"

\* What an operation finds when it reads its ownership.  A row that cannot be
\* read counts as lost, a failed read of the logs as "no newer log".
ReadFails == ~inst.exists \/ "read" \in Faults
MissesNewer(o) == newerOperation(o) => "read" \in Faults
SeesOwned(o, okStatuses) == inst.exists /\ inst.status \in okStatuses /\ MissesNewer(o)
SeesLost(o, okStatuses) == "read" \in Faults \/ ~ownsInstance(o, okStatuses)

\* A running step of a goroutine or handler: its process still exists.
At(o, p) == pc(o) = p /\ proc[replica(o)] # "down"

Goto(o, p) == op' = [op EXCEPT ![o].pc = p]

Finalize(o, outcome) ==
  op' = [op EXCEPT ![o].pc = "finalize", ![o].outcome = outcome,
                   ![o].todo = {}, ![o].failed = {}]

\* Finalize decided what to write; NoRow writes the log alone.
Write(o, row, outcome) ==
  op' = [op EXCEPT ![o].pc = "finalWrite", ![o].row = row, ![o].outcome = outcome]

\* The goroutine returns; its deferred releaseSlot gives the slot back.
releaseSlot(o) ==
  slots' = IF op[o].slot THEN [slots EXCEPT ![replica(o)] = @ - 1] ELSE slots

Return(o) ==
  /\ op' = [op EXCEPT ![o] = DoneOp]
  /\ releaseSlot(o)

\* While an operation is between a read and the write that depends on it, no
\* other actor takes a step, unless Windows opens that window: of the requests
\* of one kind (and, of a delete, before the row goes), or of the writes of a
\* goroutine.
InWindow(o) ==
  \/ action(o) \notin Windows /\ pc(o) \in RequestPcs
  \/ "delete" \notin Windows /\ pc(o) = "delete"
  \/ "final" \notin Windows /\ pc(o) \in {"markBlocking", "finalWrite"}
Exclusive(o) == \A p \in Ops \ {o} : ~InWindow(p)

\* The clear of the delete mark is best effort.
clearDeleteAfterClean ==
  ClearDeleteAfterClean \/ ("write" \in Faults /\ UNCHANGED <<inst, changed>>)

-----------------------------------------------------------------------------
(* Request handlers: read the row, check its status, start the operation    *)

DeployAccepts(s) == s \in {"draft", "stopped", "error", "running", "partial"}
RollbackAccepts(s) == s \in {"running", "partial", "error"}
StopAccepts(s) == s \in {"running", "partial", "deploying", "stabilizing"}
CleanAccepts(s) == s \in CleanStatuses

\* deleteInstance starts a clean, or removes a draft at once.
Accepts(a, s) ==
  CASE a = "deploy" -> DeployAccepts(s)
    [] a = "rollback" -> RollbackAccepts(s)
    [] a = "stop" -> StopAccepts(s)
    [] a \in {"clean", "delete"} -> CleanAccepts(s)
    [] a = "remove" -> s = "draft"

Request(o, a, r) ==
  /\ pc(o) = "idle" /\ \A p \in Ops : p < o => pc(p) # "idle"
  /\ proc[r] = "up"
  /\ inst.exists /\ Accepts(a, inst.status)
  /\ log' = [log EXCEPT ![o].action = a, ![o].replica = r]
  /\ op' = [op EXCEPT ![o].pc = "read", ![o].row = RowRead]
  /\ UNCHANGED <<inst, changed, slots, clusterVars, processVars>>

\* DeployInstance restarts the TTL clock with a full-row write of the row it
\* read.
RestartTTL(o) ==
  /\ At(o, "read") /\ action(o) = "deploy"
  /\ Update(op[o].row)
  /\ Goto(o, "restarted")
  /\ UNCHANGED <<log, slots, clusterVars, processVars>>

\* Any error before the transaction: nothing was started.  The checks of
\* shuttingDown and of the namespace phase (deploy) are guards of Stamp.
Refuse(o) ==
  /\ pc(o) \in RequestPcs
  /\ Goto(o, "done")
  /\ UNCHANGED <<storeVars, slots, clusterVars, processVars>>

\* Deploy, Rollback, StopWithCharts and startClean take the time of the log
\* before they write it.
Stamp(o) ==
  /\ At(o, "read") \/ At(o, "restarted")
  /\ action(o) # "remove" /\ ~ShuttingDown(o)
  /\ action(o) = "deploy" => ns # "terminating"
  /\ log' = [log EXCEPT ![o].startedAt =
                 1 + Cardinality({p \in Ops : log[p].startedAt > 0})]
  /\ Goto(o, "stamped")
  /\ UNCHANGED <<inst, changed, slots, clusterVars, processVars>>

Start(o, p) ==
  /\ CreateLog(o)
  /\ op' = [op EXCEPT ![o].pc = p, ![o].todo = Charts,
                      ![o].row = IF action(o) = "rollback" THEN @ ELSE NoRow]
  /\ UNCHANGED <<slots, clusterVars, processVars>>

\* One transaction: the log, and all columns of the row as it was read.
Deploy(o) ==
  /\ At(o, "stamped") /\ action(o) = "deploy"
  /\ Update([status |-> "deploying", hook |-> FALSE])
  /\ Start(o, "preHook")

Rollback(o) ==
  /\ At(o, "stamped") /\ action(o) = "rollback"
  /\ Update([op[o].row EXCEPT !.status = "deploying"])
  /\ Start(o, "preHook")

StopWithCharts(o) ==
  /\ At(o, "stamped") /\ action(o) = "stop"
  /\ Update([op[o].row EXCEPT !.status = "stopping"])
  /\ Start(o, "waiting")

\* The conditional update decides: no match rolls the transaction back.
startClean(o) ==
  /\ At(o, "stamped") /\ action(o) \in {"clean", "delete"}
  /\ CleanStartMatches(action(o) = "delete")
  /\ MarkCleanStart(action(o) = "delete")
  /\ Start(o, "queued")

\* deleteInstance of a draft: no clean, the row goes at once.
removeDraft(o) ==
  /\ At(o, "read") /\ action(o) = "remove" /\ inst.exists
  /\ DeleteRow
  /\ Goto(o, "done")
  /\ UNCHANGED <<log, slots, clusterVars, processVars>>

\* The TTL reaper found the running instance expired and its StopWithCharts
\* returned an error: it writes the row it listed with status stopped.
processExpired(o) ==
  /\ At(o, "read") /\ action(o) = "stop" /\ "reap" \in Faults
  /\ op[o].row.status \in {"running", "partial"}
  /\ Update([op[o].row EXCEPT !.status = "stopped"])
  /\ Goto(o, "done")
  /\ UNCHANGED <<log, slots, clusterVars, processVars>>

-----------------------------------------------------------------------------
(* Pre-deploy and pre-rollback hooks, before the slot                       *)

\* The effective quota is invalid (deploy), a subscriber denied or failed,
\* or a shutdown cancelled the call.
PreHookFails(o) ==
  /\ At(o, "preHook")
  /\ IF action(o) = "deploy" THEN Finalize(o, "error") ELSE Goto(o, "reject")
  /\ UNCHANGED <<storeVars, slots, clusterVars, processVars>>

\* The watcher of firePreHook or the check after the hook saw another
\* operation.  A rollback closes its log without a read.
PreHookLost(o) ==
  /\ At(o, "preHook") /\ SeesLost(o, {"deploying"})
  /\ IF action(o) = "deploy"
     THEN Finalize(o, "error")
     ELSE Write(o, NoRow, "error")
  /\ UNCHANGED <<storeVars, slots, clusterVars, processVars>>

PreHookPasses(o) ==
  /\ At(o, "preHook") /\ SeesOwned(o, {"deploying"})
  /\ Goto(o, "queued")
  /\ UNCHANGED <<storeVars, slots, clusterVars, processVars>>

-----------------------------------------------------------------------------
(* A stop waits for the Helm work of earlier operations, before the slot    *)

HelmLog(o) == Started(o) /\ action(o) \in {"deploy", "rollback"}

\* The wait reads the newest logs only: ListLatestByActions with limit 3.
EarlierLogLimit == 3
AmongLatest(p) ==
  Cardinality({q \in Ops : HelmLog(q) /\ log[q].startedAt > log[p].startedAt})
    < EarlierLogLimit

replicaAlive(r, self) == r = self \/ beat[r]

\* Mutant: no wait for earlier operations.
runningEarlierNever(o) == FALSE

runningEarlierOperation(o) ==
  \E p \in Ops \ {o} :
    /\ HelmLog(p) /\ AmongLatest(p) /\ Running(p)
    /\ log[p].startedAt <= log[o].startedAt
    /\ ~log[p].expired
    /\ replicaAlive(replica(p), replica(o))

\* No uninstall on a cancelled context.
StopInterrupted(o) ==
  /\ At(o, "waiting") /\ ShuttingDown(o)
  /\ Finalize(o, "error")
  /\ UNCHANGED <<storeVars, slots, clusterVars, processVars>>

\* Reads that fail for too long end the wait.
waitForEarlierOperations(o) ==
  /\ At(o, "waiting") /\ ~ShuttingDown(o)
  /\ runningEarlierOperation(o) => "read" \in Faults
  /\ \/ newerOperation(o) /\ Write(o, NoRow, "error")
     \/ MissesNewer(o) /\ Goto(o, "queued")
  /\ UNCHANGED <<storeVars, slots, clusterVars, processVars>>

-----------------------------------------------------------------------------
(* The concurrency slot                                                     *)

FirstStep(a) ==
  CASE a = "deploy" -> "prepare"
    [] a = "rollback" -> "rollback"
    [] OTHER -> "uninstall"

\* The deadline moves when the operation gets its slot.  A write that fails,
\* as it does during a shutdown, lets the operation go on with the first
\* deadline.
extendDeadline(o) ==
  \/ Running(o) /\ ~ShuttingDown(o) /\ ExtendDeadline(o)
  \/ (ShuttingDown(o) \/ "write" \in Faults) /\ UNCHANGED log

TakeSlot(o) ==
  /\ At(o, "queued") /\ slots[replica(o)] < MaxConcurrent
  /\ op' = [op EXCEPT ![o].pc = FirstStep(action(o)), ![o].slot = TRUE]
  /\ slots' = [slots EXCEPT ![replica(o)] = @ + 1]
  /\ extendDeadline(o)
  /\ UNCHANGED <<inst, changed, clusterVars, processVars>>

\* extendDeadline finds that the recovery ended the log: the goroutine gives
\* its slot back and writes nothing; a clean clears the delete mark.
QueuedCancelled(o) ==
  /\ At(o, "queued") /\ slots[replica(o)] < MaxConcurrent
  /\ ~Running(o) /\ ~ShuttingDown(o)
  /\ Return(o)
  /\ IF action(o) \in {"clean", "delete"}
     THEN clearDeleteAfterClean ELSE UNCHANGED <<inst, changed>>
  /\ UNCHANGED <<log, clusterVars, processVars>>

-----------------------------------------------------------------------------
(* executeDeploy: the Helm installs                                         *)

First(cs) == CHOOSE c \in cs : \A d \in cs : c <= d
Last(cs) == CHOOSE c \in cs : \A d \in cs : c >= d

\* newerOperation on the shutdown context: a failed read counts as owned.
installsOwned(o) == ShuttingDown(o) \/ MissesNewer(o)

\* The temporary directory and the namespace.  An error of EnsureNamespace
\* is only logged: helm creates the namespace.
PrepareDeploy(o) ==
  /\ At(o, "prepare")
  /\ \/ Finalize(o, "error") /\ UNCHANGED ns
     \/ Goto(o, "install") /\ UNCHANGED ns
     \/ /\ Goto(o, "install")
        /\ ns = "absent" /\ ~ShuttingDown(o) /\ ns' = "active"
  /\ UNCHANGED <<storeVars, slots, releases, processVars>>

StartInstall(o) ==
  /\ At(o, "install") /\ op[o].todo # {} /\ installsOwned(o)
  /\ Goto(o, "installing")
  /\ UNCHANGED <<storeVars, slots, clusterVars, processVars>>

\* helm upgrade --install of one chart.  A failed install, also one that the
\* watcher or a shutdown cancelled, may leave its release behind.  Nothing
\* installs into a namespace that terminates.
HelmInstall(c, ok) ==
  /\ ok => ns # "terminating" /\ releases' = releases \cup {c}
  /\ ~ok => releases' \in {releases} \cup
               (IF ns = "terminating" THEN {} ELSE {releases \cup {c}})
  /\ ns' = IF releases' # releases THEN "active" ELSE ns

\* Mutant: the error of a chart is dropped.
InstallReturnsUnchecked(o, ok) ==
  /\ At(o, "installing")
  /\ ok => ~ShuttingDown(o)
  /\ LET c == First(op[o].todo) IN
       /\ HelmInstall(c, ok)
       /\ op' = [op EXCEPT ![o].pc = "install", ![o].todo = @ \ {c}]
  /\ UNCHANGED <<storeVars, slots, processVars>>

InstallReturns(o, ok) ==
  /\ At(o, "installing")
  /\ ok => ~ShuttingDown(o)
  /\ LET c == First(op[o].todo) IN
       /\ HelmInstall(c, ok)
       /\ op' = [op EXCEPT ![o].pc = "install", ![o].todo = @ \ {c},
                           ![o].failed = IF ok THEN @ ELSE @ \cup {c}]
  /\ UNCHANGED <<storeVars, slots, processVars>>

\* The check before a chart, or the watcher, saw a newer operation.
InstallsTaken(o) ==
  /\ At(o, "install") /\ newerOperation(o) /\ ~ShuttingDown(o)
  /\ Finalize(o, "error")
  /\ UNCHANGED <<storeVars, slots, clusterVars, processVars>>

\* The watcher polls, so a deploy whose last chart returned may not have seen
\* a newer operation.
AfterReadiness == IF "blocking" \in Gates THEN "postDeploy" ELSE "finalize"

InstallsDone(o) ==
  /\ At(o, "install") /\ op[o].todo = {}
  /\ CASE op[o].failed = Charts -> Finalize(o, "error")
       [] op[o].failed = {} /\ "readiness" \in Gates -> Goto(o, "readiness")
       [] OTHER -> op' = [op EXCEPT ![o].pc = AfterReadiness, ![o].failed = {},
                            ![o].outcome = IF op[o].failed = {} THEN "ok" ELSE "partial"]
  /\ UNCHANGED <<storeVars, slots, clusterVars, processVars>>

-----------------------------------------------------------------------------
(* awaitReadiness, of a deploy and of a rollback                            *)

\* A rollback only reports the result of the wait in its output.
ReadinessEnds(o, outcome) ==
  CASE action(o) = "rollback" -> Finalize(o, "ok")
    [] action(o) # "rollback" /\ outcome = "error" -> Finalize(o, "error")
    [] OTHER -> Goto(o, AfterReadiness)

\* One last status read: ready, or ErrDeployInterrupted.
readinessAfterShutdown(o) ==
  /\ At(o, "readiness") \/ At(o, "stabilizing")
  /\ ShuttingDown(o)
  /\ \E outcome \in {"ok", "error"} : ReadinessEnds(o, outcome)
  /\ UNCHANGED <<storeVars, slots, clusterVars, processVars>>

\* markStabilizing reads the ownership first; a row it cannot read ends the
\* wait with a warning ...
CheckStabilizing(o) ==
  /\ At(o, "readiness") /\ ~ShuttingDown(o)
  /\ \/ ReadFails /\ ReadinessEnds(o, "ok")
     \/ SeesOwned(o, {"deploying", "stabilizing"}) /\ Goto(o, "marking")
     \/ /\ inst.exists /\ ~ownsInstance(o, {"deploying", "stabilizing"})
        /\ ReadinessEnds(o, "error")
  /\ UNCHANGED <<storeVars, slots, clusterVars, processVars>>

\* ... and then updates the status where it still is one of its own.  The
\* wait goes on when that write fails.
markStabilizing(o) ==
  /\ At(o, "marking")
  /\ \/ IF inst.exists /\ inst.status \in {"deploying", "stabilizing"}
        THEN SetStatus("stabilizing") /\ Goto(o, "stabilizing")
        ELSE ReadinessEnds(o, "error") /\ UNCHANGED <<inst, changed>>
     \/ "write" \in Faults /\ Goto(o, "stabilizing") /\ UNCHANGED <<inst, changed>>
  /\ UNCHANGED <<log, slots, clusterVars, processVars>>

\* Healthy or the readiness timeout (both go on), or the poll saw another
\* operation.
awaitReadiness(o) ==
  /\ At(o, "stabilizing")
  /\ \/ ReadinessEnds(o, "ok")
     \/ ~hookPhaseOwned(o, {"stabilizing"}) /\ ReadinessEnds(o, "error")
  /\ UNCHANGED <<storeVars, slots, clusterVars, processVars>>

-----------------------------------------------------------------------------
(* Blocking post-deploy subscribers: they run without the slot              *)

\* Mutant: the slot is released, and released again by the deferred call.
StartBlockingKeepsSlot(o) ==
  /\ At(o, "postDeploy")
  /\ releaseSlot(o)
  /\ op' = [op EXCEPT ![o].pc = "finalize"]
  /\ UNCHANGED <<storeVars, clusterVars, processVars>>

StartBlocking(o) ==
  /\ At(o, "postDeploy")
  /\ releaseSlot(o)
  /\ LET freed == [op EXCEPT ![o].slot = FALSE] IN
     \/ \* another operation owns the instance, or no subscriber applies
        inst.exists /\ op' = [freed EXCEPT ![o].pc = "finalize"]
     \/ \* ownershipUnknown: blockingNotStarted
        ReadFails /\ op' = [freed EXCEPT ![o].pc = "finalize", ![o].outcome = "error"]
     \/ /\ SeesOwned(o, {"deploying", "stabilizing"})
        /\ op' = IF ShuttingDown(o)
                 THEN [freed EXCEPT ![o].pc = "finalize", ![o].outcome = "error"]
                 ELSE [freed EXCEPT ![o].pc = "markBlocking",
                         ![o].row = [status |-> "stabilizing", hook |-> TRUE]]
  /\ UNCHANGED <<storeVars, clusterVars, processVars>>

\* A full-row write of the row that StartBlocking read; its error is logged.
markBlockingPhase(o) ==
  /\ At(o, "markBlocking")
  /\ Update(op[o].row) \/ ("write" \in Faults /\ UNCHANGED <<inst, changed>>)
  /\ op' = [op EXCEPT ![o].pc = "blocking", ![o].row = NoRow]
  /\ UNCHANGED <<log, slots, clusterVars, processVars>>

\* The subscribers answered, failed, or the watcher cancelled them.
BlockingEnds(o) ==
  /\ At(o, "blocking")
  /\ \/ Finalize(o, "error")
     \/ /\ ~ShuttingDown(o)
        /\ hookPhaseOwned(o, {"deploying", "stabilizing"}) \/ "read" \in Faults
        /\ Goto(o, "finalize")
  /\ UNCHANGED <<storeVars, slots, clusterVars, processVars>>
-----------------------------------------------------------------------------
(* executeRollback: to the previous revisions or to a target deploy.  No    *)
(* chart checks the ownership.                                              *)

StartRollback(o) ==
  /\ At(o, "rollback") /\ op[o].todo # {}
  /\ Goto(o, "rolling")
  /\ UNCHANGED <<storeVars, slots, clusterVars, processVars>>

\* A chart is installed (target mode), rolled back, or skipped because the
\* target deploy or the release history lacks it.  The first error ends the
\* loop.
RollbackReturns(o, ok) ==
  /\ At(o, "rolling")
  /\ ok => ~ShuttingDown(o)
  /\ LET c == First(op[o].todo) IN
       /\ \/ HelmInstall(c, ok)
          \/ UNCHANGED clusterVars
       /\ op' = [op EXCEPT ![o].pc = "rollback",
                           ![o].todo = IF ok THEN @ \ {c} ELSE {},
                           ![o].outcome = IF ok THEN @ ELSE "error"]
  /\ UNCHANGED <<storeVars, slots, processVars>>

RollbackDone(o) ==
  /\ At(o, "rollback") /\ op[o].todo = {}
  /\ Goto(o, IF op[o].outcome = "ok" /\ "readiness" \in Gates
              THEN "readiness" ELSE "finalize")
  /\ UNCHANGED <<storeVars, slots, clusterVars, processVars>>

-----------------------------------------------------------------------------
(* executeStopWithCharts and executeClean: uninstall in reverse order       *)

\* helm uninstall of one chart.  "not found" is a success; a failed call may
\* have removed the release.  A stop ends at the first error, a clean goes on.
Uninstall(o, ok) ==
  /\ At(o, "uninstall") /\ op[o].todo # {}
  /\ ok => ~ShuttingDown(o)
  /\ LET c == Last(op[o].todo) IN
       /\ releases' \in {releases \ {c}} \cup (IF ok THEN {} ELSE {releases})
       /\ IF ~ok /\ action(o) = "stop"
          THEN Finalize(o, "error")
          ELSE op' = [op EXCEPT ![o].todo = @ \ {c}]
  /\ UNCHANGED <<storeVars, slots, ns, processVars>>

UninstallsDone(o) ==
  /\ At(o, "uninstall") /\ op[o].todo = {}
  /\ Goto(o, IF action(o) = "stop" THEN "finalize" ELSE "namespace")
  /\ UNCHANGED <<storeVars, slots, clusterVars, processVars>>

\* The delete request returns while the namespace terminates.
DeleteNamespace(o, ok) ==
  /\ At(o, "namespace")
  /\ ok => ~ShuttingDown(o)
  /\ ns' = IF ok /\ ns = "active" THEN "terminating" ELSE ns
  /\ Finalize(o, IF ok THEN "ok" ELSE "error")
  /\ UNCHANGED <<storeVars, slots, releases, processVars>>

-----------------------------------------------------------------------------
(* Finalize: a read that decides what to write, then the write              *)

Settled(o) ==
  LET ok == op[o].outcome = "ok" IN
  CASE op[o].outcome = "partial" -> "partial"
    [] op[o].outcome = "error" -> "error"
    [] ok /\ action(o) \in {"deploy", "rollback"} -> "running"
    [] ok /\ action(o) = "stop" -> "stopped"
    [] OTHER -> "draft"

SettledRow(o) == [status |-> Settled(o), hook |-> FALSE]


finalizeDeploy(o) ==
  /\ At(o, "finalize") /\ action(o) = "deploy" /\ inst.exists
  /\ \/ /\ SeesOwned(o, {"deploying", "stabilizing"})
        /\ Write(o, SettledRow(o), op[o].outcome)
     \/ /\ ~ownsInstance(o, {"deploying", "stabilizing"})
        /\ Write(o, NoRow, op[o].outcome)
  /\ UNCHANGED <<storeVars, slots, clusterVars, processVars>>

finalizeRollback(o) ==
  /\ At(o, "finalize") /\ action(o) = "rollback" /\ inst.exists
  /\ \/ /\ SeesOwned(o, {"deploying", "stabilizing"})
        /\ Write(o, SettledRow(o), op[o].outcome)
     \/ /\ SeesLost(o, {"deploying", "stabilizing"})
        /\ Write(o, NoRow, "error")
  /\ UNCHANGED <<storeVars, slots, clusterVars, processVars>>

finalizeStop(o) ==
  /\ At(o, "finalize") /\ action(o) = "stop" /\ inst.exists
  /\ Write(o, SettledRow(o), op[o].outcome)
  /\ UNCHANGED <<storeVars, slots, clusterVars, processVars>>

\* shouldDelete is the stored mark; a failed clean clears it first.
finalizeClean(o) ==
  /\ At(o, "finalize") /\ action(o) \in {"clean", "delete"} /\ inst.exists
  /\ op' = [op EXCEPT ![o].pc = "finalWrite", ![o].row = SettledRow(o),
                      ![o].del = inst.mark]
  /\ IF op[o].outcome = "error" /\ inst.mark
     THEN clearDeleteAfterClean ELSE UNCHANGED <<inst, changed>>
  /\ UNCHANGED <<log, slots, clusterVars, processVars>>

\* The row is gone or cannot be read: a deploy ends its log, the others
\* return and their log stays open.
FinalReadFails(o) ==
  /\ At(o, "finalize") /\ ReadFails
  /\ IF action(o) = "deploy"
     THEN Write(o, NoRow, "error") /\ UNCHANGED slots
     ELSE Return(o)
  /\ UNCHANGED <<storeVars, clusterVars, processVars>>

\* op[o].row still is the row of the request: the status before the rollback.
finalizeRollbackRejected(o) ==
  /\ At(o, "reject")
  /\ \/ /\ SeesOwned(o, {"deploying"})
        /\ Write(o, [status |-> op[o].row.status, hook |-> inst.hook], "error")
     \/ SeesLost(o, {"deploying"}) /\ Write(o, NoRow, "error")
  /\ UNCHANGED <<storeVars, slots, clusterVars, processVars>>

LogResult(o) ==
  CASE op[o].outcome = "ok" -> "success"
    [] OTHER -> op[o].outcome

AfterWrite(o) ==
  IF op[o].del /\ op[o].outcome = "ok"
  THEN Goto(o, "delete") /\ UNCHANGED slots
  ELSE Return(o)

\* Mutant: the log is written whether it runs or not.
writeFinalUnconditional(o) ==
  /\ At(o, "finalWrite")
  /\ EndLog(o, LogResult(o))
  /\ IF op[o].row = NoRow THEN UNCHANGED <<inst, changed>> ELSE Update(op[o].row)
  /\ AfterWrite(o)
  /\ UNCHANGED <<clusterVars, processVars>>

\* writeFinal: the log while it runs, and the row, in one transaction.
writeFinal(o) ==
  /\ At(o, "finalWrite") /\ Running(o)
  /\ EndLog(o, LogResult(o))
  /\ IF op[o].row = NoRow THEN UNCHANGED <<inst, changed>> ELSE Update(op[o].row)
  /\ AfterWrite(o)
  /\ UNCHANGED <<clusterVars, processVars>>

\* The transaction failed: the log alone, which may fail too.
writeFinalFallsBack(o) ==
  /\ At(o, "finalWrite") /\ Running(o)
  /\ "write" \in Faults
  /\ EndLog(o, LogResult(o)) \/ UNCHANGED log
  /\ AfterWrite(o)
  /\ UNCHANGED <<inst, changed, clusterVars, processVars>>

\* The recovery ended the log: the result is not written; a clean clears the
\* delete mark.
writeFinalTooLate(o) ==
  /\ At(o, "finalWrite") /\ ~Running(o)
  /\ IF op[o].del THEN clearDeleteAfterClean ELSE UNCHANGED <<inst, changed>>
  /\ Return(o)
  /\ UNCHANGED <<log, clusterVars, processVars>>

\* DeleteInstanceWithOwnedDefinition after a successful clean of a delete; an
\* error, also a row that is gone, keeps what there is and clears the mark.
DeleteInstance(o) ==
  /\ At(o, "delete")
  /\ \/ inst.exists /\ DeleteRow
     \/ (~inst.exists \/ "write" \in Faults) /\ clearDeleteAfterClean
  /\ Return(o)
  /\ UNCHANGED <<log, clusterVars, processVars>>
-----------------------------------------------------------------------------
RequestStep(o) ==
  \/ \E a \in Requests, r \in Replicas : Request(o, a, r)
  \/ RestartTTL(o) \/ Refuse(o) \/ Stamp(o)
  \/ Deploy(o) \/ Rollback(o) \/ StopWithCharts(o) \/ startClean(o) \/ removeDraft(o)
  \/ processExpired(o)

\* The goroutine of an operation.
WorkStep(o) ==
  \/ PreHookFails(o) \/ PreHookLost(o) \/ PreHookPasses(o)
  \/ StopInterrupted(o) \/ waitForEarlierOperations(o)
  \/ TakeSlot(o) \/ QueuedCancelled(o)
  \/ PrepareDeploy(o) \/ StartInstall(o) \/ InstallsTaken(o) \/ InstallsDone(o)
  \/ readinessAfterShutdown(o) \/ CheckStabilizing(o) \/ markStabilizing(o)
  \/ awaitReadiness(o)
  \/ StartBlocking(o) \/ markBlockingPhase(o) \/ BlockingEnds(o)
  \/ StartRollback(o) \/ RollbackDone(o) \/ UninstallsDone(o)
  \/ \E ok \in BOOLEAN : \/ InstallReturns(o, ok) \/ RollbackReturns(o, ok)
                         \/ Uninstall(o, ok) \/ DeleteNamespace(o, ok)
  \/ finalizeDeploy(o) \/ finalizeRollback(o) \/ finalizeStop(o) \/ finalizeClean(o)
  \/ FinalReadFails(o) \/ finalizeRollbackRejected(o)
  \/ writeFinal(o) \/ writeFinalFallsBack(o) \/ writeFinalTooLate(o)
  \/ DeleteInstance(o)

=============================================================================
