----------------------------- MODULE Retention -----------------------------
(* Retention of the deploy logs (internal/retention/worker.go,               *)
(* database/retention_repository.go) while operations write new ones.  The   *)
(* readers that the keep rules protect are the deploy history, the values    *)
(* drift check and the rollback without a target.  Two workers stand for a   *)
(* leader handover.  The other tables have no keep rules: age alone decides. *)
EXTENDS Integers, Sequences, FiniteSets, FiniteSetsExt

CONSTANTS
    RetentionWorkers,   \* workers that run at the same time
    LogActions,         \* e.g. {"deploy", "rollback", "stop"}
    MaxLogs,            \* bound: deploy logs of the instance
    BatchSize           \* rows of one delete

ASSUME RetentionAssumption == BatchSize \in Nat \ {0}

History == {"deploy", "rollback"}
Finished == {"success", "failed"}     \* failed: error or partial

VARIABLES
    logs,           \* every log ever written, by started_at and ID
    stored,         \* the logs that deployment_logs still holds
    aged,           \* logs 1 .. aged started before the cutoff
    instanceExists,
    batch           \* the IDs that a worker has selected

retentionVars == <<logs, stored, aged, instanceExists, batch>>

RetentionTypeOK ==
    /\ \A i \in DOMAIN logs : logs[i].action \in LogActions /\ logs[i].status \in Finished \cup {"running"}
    /\ stored \subseteq DOMAIN logs
    /\ aged \in 0 .. Len(logs)
    /\ \A w \in RetentionWorkers : batch[w] \subseteq DOMAIN logs

RetentionInit ==
    /\ logs = <<>> /\ stored = {} /\ aged = 0
    /\ instanceExists = TRUE
    /\ batch = [w \in RetentionWorkers |-> {}]

----------------------------------------------------------------------------
(* Readers.                                                                  *)

Newest(S) == Max({0} \cup S)
HistoryIn(S) == {i \in S : logs[i].action \in History}
SuccessIn(S) == {i \in HistoryIn(S) : logs[i].status = "success"}
DeploySuccessIn(S) == {i \in SuccessIn(S) : logs[i].action = "deploy"}

\* What the readers see in a set of logs: the newest deploy or rollback, the newest
\* successful deploy, and the two newest successful ones.
ReadersSee(S) ==
    [last |-> Newest(HistoryIn(S)),
     target |-> Newest(DeploySuccessIn(S)),
     current |-> Newest(SuccessIn(S)),
     previous |-> Newest(SuccessIn(S) \ {Newest(SuccessIn(S))})]

----------------------------------------------------------------------------
(* Retention.                                                                *)

Newer(S, i) == {j \in S : j > i}

DeletableOneNewer(i) ==
    \/ ~instanceExists
    \/ logs[i].action \notin History
    \/ /\ HistoryIn(Newer(stored, i)) # {}
       /\ \/ logs[i].status # "success"
          \/ SuccessIn(Newer(stored, i)) # {}

\* The keep rules of DeleteDeploymentLogsOlderThan.
Deletable(i) ==
    \/ ~instanceExists
    \/ logs[i].action \notin History
    \/ /\ HistoryIn(Newer(stored, i)) # {}
       /\ \/ logs[i].status # "success"
          \/ /\ logs[i].action = "deploy" => DeploySuccessIn(Newer(stored, i)) # {}
             /\ Cardinality(SuccessIn(Newer(stored, i))) >= 2

OldAndFinished == {i \in stored : i <= aged /\ logs[i].status \in Finished}

\* deleteInBatches: select up to batchSize IDs with the keep rules ...
SelectBatch(w) ==
    /\ batch[w] = {}
    /\ LET match == {i \in OldAndFinished : Deletable(i)}
       IN /\ match # {}
          /\ \E S \in SUBSET match :
                /\ Cardinality(S) = Min({BatchSize, Cardinality(match)})
                /\ batch' = [batch EXCEPT ![w] = S]
    /\ UNCHANGED <<logs, stored, aged, instanceExists>>

\* ... and delete those that are still old and finished, or stop with the context.
DeleteBatch(w) ==
    /\ batch[w] # {}
    /\ batch' = [batch EXCEPT ![w] = {}]
    /\ \/ stored' = stored \ (batch[w] \cap OldAndFinished)
       \/ UNCHANGED stored
    /\ UNCHANGED <<logs, aged, instanceExists>>

----------------------------------------------------------------------------
(* Operations and time.                                                      *)

\* An operation writes its running log.
StartLog ==
    /\ instanceExists /\ Len(logs) < MaxLogs
    /\ \E a \in LogActions : logs' = Append(logs, [action |-> a, status |-> "running"])
    /\ stored' = stored \cup {Len(logs) + 1}
    /\ UNCHANGED <<aged, instanceExists, batch>>

\* The operation ends, or the recovery ends it; a finished log keeps its status.
FinishLog(i) ==
    /\ i \in stored /\ logs[i].status = "running"
    /\ \E s \in Finished : logs' = [logs EXCEPT ![i].status = s]
    /\ UNCHANGED <<stored, aged, instanceExists, batch>>

\* The cutoff moves on.
LogAges ==
    /\ aged < Len(logs)
    /\ aged' = aged + 1
    /\ UNCHANGED <<logs, stored, instanceExists, batch>>

\* The instance is deleted; its logs stay for retention.
InstanceGone ==
    /\ instanceExists
    /\ instanceExists' = FALSE
    /\ UNCHANGED <<logs, stored, aged, batch>>

RetentionNext ==
    \/ \E w \in RetentionWorkers : SelectBatch(w) \/ DeleteBatch(w)
    \/ StartLog \/ LogAges \/ InstanceGone
    \/ \E i \in DOMAIN logs : FinishLog(i)

RetentionSpec == RetentionInit /\ [][RetentionNext]_retentionVars

----------------------------------------------------------------------------
(* Properties.                                                               *)

\* Retention is invisible to the readers of an existing instance: they see the same
\* newest deploy, rollback target, current and previous success as if no log had ever
\* been deleted, although the keep rules are checked before the delete.
RetentionKeepsWhatReadersNeed ==
    instanceExists => ReadersSee(stored) = ReadersSee(DOMAIN logs)

\* A running log is never deleted: the interrupted-operation recovery needs it.
RunningLogsAreKept ==
    \A i \in DOMAIN logs : logs[i].status = "running" => i \in stored
=============================================================================
