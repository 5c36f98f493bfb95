----------------------------- MODULE Operations -----------------------------
(***************************************************************************)
(* The operations of Deployer together with what happens around them: the  *)
(* namespace that terminates, processes that crash or shut down, their     *)
(* heartbeats, and the leader worker InterruptRecovery that ends the       *)
(* operations of stopped processes.                                        *)
(***************************************************************************)
EXTENDS Deployer

VARIABLE
  recovery   \* what InterruptRecovery.interrupt read: [log, status]

allVars == <<vars, recovery>>

NoRead == [log |-> 0]
Reads == [log : Ops, status : InProgress \cup {""}]

OpsTypeOK == TypeOK /\ recovery \in {NoRead} \cup Reads

OpsInit == Init /\ recovery = NoRead

\* No operation is inside a closed window.
Free == \A o \in Ops : ~InWindow(o)

-----------------------------------------------------------------------------
(* Time and the cluster                                                     *)

\* Kubernetes removed the namespace with everything in it.
NamespaceGone ==
  /\ Free /\ ns = "terminating"
  /\ ns' = "absent" /\ releases' = {}
  /\ UNCHANGED <<storeVars, managerVars, processVars, recovery>>

\* A deadline covers the budgets of the hooks and of the Helm work, so it
\* passes only for an operation that waits (for a slot, or for an earlier
\* operation) longer than its budget, and for one whose goroutine is gone.
DeadlinePasses(o) ==
  /\ Free /\ Running(o) /\ ~log[o].expired
  /\ pc(o) = "done" \/ ("slow" \in Faults /\ pc(o) \in {"waiting", "queued"})
  /\ log' = [log EXCEPT ![o].expired = TRUE]
  /\ UNCHANGED <<inst, changed, managerVars, clusterVars, processVars, recovery>>

\* handleStatusTransition of the status watcher on the leader: a namespace
\* whose resources are in error marks a settled or stabilizing instance.
MarkNamespaceError ==
  /\ Free /\ "pods" \in Faults /\ ns # "absent"
  /\ NamespaceErrorMatches
  /\ SetStatus("error")
  /\ UNCHANGED <<log, managerVars, clusterVars, processVars, recovery>>

\* post_deploy_hook_until passes.  It is also the deadline of the hook calls,
\* so they returned, or their process is gone.
HookUntilPasses ==
  /\ Free /\ inst.hook /\ \A o \in Ops : pc(o) # "blocking"
  /\ inst' = [inst EXCEPT !.hook = FALSE]
  /\ UNCHANGED <<log, changed, managerVars, clusterVars, processVars, recovery>>

-----------------------------------------------------------------------------
(* Processes                                                                *)

OfReplica(r) == {o \in Ops : replica(o) = r /\ pc(o) \notin {"idle", "done"}}

\* The goroutines and handlers are gone; an install in flight may have
\* written its release.
Crash(r) ==
  /\ Free /\ "crash" \in Faults
  /\ proc[r] # "down" /\ \E q \in Replicas \ {r} : proc[q] = "up"
  /\ proc' = [proc EXCEPT ![r] = "down"]
  /\ op' = [o \in Ops |-> IF o \in OfReplica(r) THEN DoneOp ELSE op[o]]
  /\ slots' = [slots EXCEPT ![r] = 0]
  /\ LET inFlight == {First(op[o].todo) : o \in
                        {o \in OfReplica(r) : pc(o) \in {"installing", "rolling"}}} IN
       releases' \in {releases \cup cs : cs \in SUBSET
                        (IF ns = "terminating" THEN {} ELSE inFlight)}
  /\ ns' = IF releases' # releases THEN "active" ELSE ns
  /\ UNCHANGED <<storeVars, beat, recovery>>

\* Mutant: the heartbeat stops before the operations ended.
ShutdownWithHeartbeat(r) ==
  /\ Free /\ "shutdown" \in Faults
  /\ proc[r] = "up" /\ \E q \in Replicas \ {r} : proc[q] = "up"
  /\ proc' = [proc EXCEPT ![r] = "draining"]
  /\ beat' = [beat EXCEPT ![r] = FALSE]
  /\ UNCHANGED <<storeVars, managerVars, clusterVars, recovery>>

\* Manager.Shutdown: no new operation, the contexts are cancelled.
Shutdown(r) ==
  /\ Free /\ "shutdown" \in Faults
  /\ proc[r] = "up" /\ \E q \in Replicas \ {r} : proc[q] = "up"
  /\ proc' = [proc EXCEPT ![r] = "draining"]
  /\ UNCHANGED <<storeVars, managerVars, beat, clusterVars, recovery>>

\* wg.Wait returned; Heartbeat.Stop removes the row.
ShutdownDone(r) ==
  /\ Free /\ proc[r] = "draining" /\ OfReplica(r) = {}
  /\ proc' = [proc EXCEPT ![r] = "down"]
  /\ beat' = [beat EXCEPT ![r] = FALSE]
  /\ UNCHANGED <<storeVars, managerVars, clusterVars, recovery>>

\* No beat for replica.StaleAfter: the process is gone, or its beats fail.
BeatStale(r) ==
  /\ Free /\ beat[r] /\ (proc[r] = "down" \/ "stale" \in Faults)
  /\ beat' = [beat EXCEPT ![r] = FALSE]
  /\ UNCHANGED <<storeVars, managerVars, proc, clusterVars, recovery>>

Beat(r) ==
  /\ Free /\ ~beat[r] /\ proc[r] # "down"
  /\ beat' = [beat EXCEPT ![r] = TRUE]
  /\ UNCHANGED <<storeVars, managerVars, proc, clusterVars, recovery>>

-----------------------------------------------------------------------------
(* InterruptRecovery, on the leader                                         *)

\* Mutant: the leader looks at the operations of its own process only.
InterruptReadOwn(o, leader) ==
  /\ Free /\ recovery = NoRead
  /\ proc[leader] = "up" /\ replica(o) = leader
  /\ Running(o) /\ log[o].expired /\ ~beat[replica(o)]
  /\ recovery' = [log |-> o, status |-> IF inst.exists /\ inst.status \in InProgress
                                        THEN inst.status ELSE ""]
  /\ changed' = FALSE
  /\ UNCHANGED <<inst, log, managerVars, clusterVars, processVars>>

\* ListInterruptCandidates and the read of the instance.  The leader never
\* takes an operation of its own process.
InterruptRead(o, leader) ==
  /\ Free /\ recovery = NoRead
  /\ proc[leader] = "up" /\ replica(o) # leader
  /\ Running(o) /\ log[o].expired /\ ~beat[replica(o)]
  /\ recovery' = [log |-> o, status |-> IF inst.exists /\ inst.status \in InProgress
                                        THEN inst.status ELSE ""]
  /\ changed' = FALSE
  /\ UNCHANGED <<inst, log, managerVars, clusterVars, processVars>>

\* Mutant: the log ends, the instance keeps its in-progress status.
InterruptLogOnly ==
  /\ Free /\ recovery # NoRead
  /\ Running(recovery.log) /\ ~beat[replica(recovery.log)]
  /\ EndLog(recovery.log, "error")
  /\ changed' = TRUE
  /\ recovery' = NoRead
  /\ UNCHANGED <<inst, managerVars, clusterVars, processVars>>

\* InterruptOperation, one transaction.  The log ends while it runs and its
\* replica is stale; the instance gets error when no log is newer.
InterruptOperation ==
  LET o == recovery.log
      owns == recovery.status # "" /\ ~newerOperation(o) IN
  /\ Free /\ recovery # NoRead
  /\ Running(o) /\ ~beat[replica(o)]
  /\ owns => inst.exists /\ inst.status = recovery.status /\ ~changed
  /\ EndLog(o, "error")
  /\ IF owns
     THEN inst' = [inst EXCEPT !.status = "error", !.hook = FALSE, !.mark = FALSE]
     ELSE UNCHANGED inst
  /\ changed' = TRUE
  /\ recovery' = NoRead
  /\ UNCHANGED <<managerVars, clusterVars, processVars>>

\* The log ended, the replica is back, or the row changed since the read
\* (ErrInterruptConflict): nothing is written.  Also an error, or the end of
\* the leader term.
InterruptSkipped ==
  /\ Free /\ recovery # NoRead
  /\ recovery' = NoRead
  /\ changed' = TRUE
  /\ UNCHANGED <<inst, log, managerVars, clusterVars, processVars>>

-----------------------------------------------------------------------------
OperationStep(o) == Exclusive(o) /\ (RequestStep(o) \/ WorkStep(o)) /\ UNCHANGED recovery

Next ==
  \/ \E o \in Ops : OperationStep(o) \/ DeadlinePasses(o)
  \/ \E r \in Replicas : \/ Crash(r) \/ Shutdown(r) \/ ShutdownDone(r)
                         \/ BeatStale(r) \/ Beat(r)
  \/ \E o \in Ops, r \in Replicas : InterruptRead(o, r)
  \/ InterruptOperation \/ InterruptSkipped
  \/ NamespaceGone \/ MarkNamespaceError \/ HookUntilPasses

Spec == OpsInit /\ [][Next]_allVars

\* Handlers, goroutines and the clock go on.  A goroutine in the queue of the
\* semaphore gets a slot (channel sends are served in order).  The recovery
\* runs on an interval, so an error of one run is not its last word.
Fairness ==
  /\ \A o \in Ops : /\ WF_allVars(pc(o) # "idle" /\ OperationStep(o))
                    /\ SF_allVars(Exclusive(o) /\ TakeSlot(o) /\ UNCHANGED recovery)
                    /\ WF_allVars(DeadlinePasses(o))
  /\ \A r \in Replicas : WF_allVars(ShutdownDone(r)) /\ WF_allVars(BeatStale(r))
  /\ WF_allVars(\E o \in Ops, r \in Replicas : InterruptRead(o, r))
  /\ SF_allVars(InterruptOperation)

FairSpec == Spec /\ Fairness

-----------------------------------------------------------------------------
(* Safety                                                                   *)

Newest(o) == Started(o) /\ ~newerOperation(o)
HelmWork(o) == pc(o) \in {"install", "installing", "rollback", "rolling"}
HelmCall(o) == \/ pc(o) \in {"installing", "rolling"}
               \/ pc(o) = "uninstall" /\ op[o].todo # {}


\* waitForEarlierOperations: while a stop uninstalls, no deploy or rollback
\* that started before it has charts left to install.
StopUninstallsAlone ==
  \A s, o \in Ops :
    (pc(s) = "uninstall" /\ action(s) = "stop" /\ HelmWork(o))
      => log[o].startedAt > log[s].startedAt

\* A stopped, cleaned or deleted stack has no releases, except those that go
\* with a terminating namespace: no late install of an operation that lost
\* the instance brings one back.
NothingLeftBehind ==
  (~inst.exists \/ inst.status \in {"stopped", "draft"})
    => releases = {} \/ ns = "terminating"

\* The same for a deleted instance alone: deleteInstance cleans an instance
\* with cluster resources first.
DeletedLeavesNothing == ~inst.exists => releases = {} \/ ns = "terminating"

Quiet == recovery = NoRead /\ \A o \in Ops : ~Running(o) /\ pc(o) \in {"idle", "done"}
Failed(s) == inst.status = s \/ ("pods" \in Faults /\ inst.status = "error")

\* The finalize functions: when nothing runs any more, the row and the
\* releases tell the result of the newest log, never of a superseded one.
SettledByNewest ==
  (Quiet /\ inst.exists) => \A o \in Ops : Newest(o) =>
    CASE log[o].status = "success" /\ action(o) \in {"deploy", "rollback"} ->
           Failed("running") /\ (action(o) = "deploy" => releases = Charts)
      [] log[o].status = "success" /\ action(o) = "stop" ->
           inst.status = "stopped" /\ releases = {}
      [] log[o].status = "success" /\ action(o) \in {"clean", "delete"} ->
           inst.status = "draft"
      [] log[o].status = "partial" -> Failed("partial")
      [] OTHER -> inst.status \notin InProgress

\* An in-progress status always has a running log, the only thing by which
\* InterruptRecovery finds an operation to end.
InProgressHasLog ==
  (inst.exists /\ inst.status \in InProgress) => \E o \in Ops : Running(o)

\* finalizeDeployWith ends its log even when it cannot read the instance,
\* because the log of a live replica is never recovered: a goroutine that
\* returned left no running log.
ReturnedLogsAreClosed ==
  \A o \in Ops : pc(o) = "done" /\ proc[replica(o)] = "up" => ~Running(o)

\* The semaphore: a token for every operation that holds a slot, no Helm work
\* without one, and none is given back twice.
SlotsMatchHolders ==
  \A r \in Replicas :
    /\ slots[r] = Cardinality({o \in OfReplica(r) : op[o].slot})
    /\ \A o \in OfReplica(r) : pc(o) \in HelmPcs => op[o].slot

\* MarkCleanStart: of concurrent cleans and deletes one runs.
OneCleanRuns ==
  \A o, p \in Ops :
    Running(o) /\ Running(p) /\ {action(o), action(p)} \subseteq {"clean", "delete"} => o = p

\* CleanForDelete: the row is gone when the clean of the newest delete ended
\* with success.
DeleteDeletes ==
  \A o \in Ops :
    pc(o) = "done" /\ action(o) = "delete" /\ log[o].status = "success" /\ Newest(o)
      => ~inst.exists

-----------------------------------------------------------------------------
(* Action properties                                                        *)

\* Only a delete request removes the row; a delete that failed or was
\* interrupted leaves no mark that would make a later plain clean remove it.
OnlyDeletesDelete ==
  [][inst.exists /\ ~inst'.exists =>
       \E o \in Ops : action(o) \in {"delete", "remove"} /\ pc(o) # "done" /\ pc(o)' = "done"]_allVars

\* InterruptRecovery ends the log of an operation only when its goroutine is
\* gone; otherwise the operation itself ends it.
RecoveryEndsOnlyDead ==
  [][\A o \in Ops : Running(o) /\ log'[o].status # "running"
                    => pc(o) \in {"finalWrite", "done"}]_allVars

\* DeploymentLogRepository.Update: a log that ended keeps its result, whatever
\* a late goroutine, the recovery or a shutdown still writes.
ClosedLogStays ==
  [][\A o \in Ops : Started(o) /\ ~Running(o) => log'[o].status = log[o].status]_allVars

\* markStabilizing: a stop must not get the status stabilizing back from the
\* deploy that it stops.
StopKeepsItsStatus ==
  [][inst.status = "stopping" => inst'.status # "stabilizing"]_allVars

-----------------------------------------------------------------------------
(* Refinement                                                               *)

Phase(s) == IF s \in {"none", "running"} THEN s ELSE "ended"
Owner == IF \E o \in Ops : Newest(o) THEN CHOOSE o \in Ops : Newest(o) ELSE 0

Lifecycle == INSTANCE InstanceLifecycle WITH
  LifecycleOps <- Ops,
  status <- IF inst.exists THEN inst.status ELSE "gone",
  phase <- [o \in Ops |-> Phase(log[o].status)],
  owner <- Owner


-----------------------------------------------------------------------------
(* Liveness                                                                 *)

\* Every deployment log ends: by its goroutine, or by the recovery.
EveryLogEnds == \A o \in Ops : Running(o) ~> ~Running(o)

\* The instance does not stay deploying, stabilizing, stopping or cleaning.
StatusSettles == inst.status \in InProgress ~> inst.status \notin InProgress
=============================================================================
