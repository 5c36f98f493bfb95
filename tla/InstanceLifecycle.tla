------------------------- MODULE InstanceLifecycle -------------------------
(***************************************************************************)
(* What the backend promises about the status of a stack instance, without *)
(* replicas, requests or databases: operations begin one after the other,  *)
(* the newest one owns the instance, and only the owner moves the status.  *)
(* An operation that lost the instance ends without a trace in the status. *)
(* Operations.tla implements it.                                           *)
(***************************************************************************)
EXTENDS Naturals

CONSTANTS LifecycleOps

VARIABLES
  status,   \* the status of the instance, "gone" when it is deleted
  phase,    \* [operation -> "none", "running" or "ended"]
  owner     \* the operation that began last, 0 before the first

lifecycleVars == <<status, phase, owner>>

Settled == {"draft", "running", "partial", "stopped", "error"}

LifecycleInit ==
  /\ status \in {"draft", "running", "stopped"}
  /\ phase = [o \in LifecycleOps |-> "none"]
  /\ owner = 0

\* From which statuses an operation begins.
BeginsFrom(s) ==
  CASE s = "deploying" -> Settled
    [] s = "stopping" -> {"running", "partial", "deploying", "stabilizing"}
    [] s = "cleaning" -> Settled \ {"draft"}

Begin(o, s) ==
  /\ phase[o] = "none" /\ status \in BeginsFrom(s)
  /\ status' = s
  /\ phase' = [phase EXCEPT ![o] = "running"]
  /\ owner' = o

\* The installs are done, the deploy or rollback waits for the pods.
Stabilize ==
  /\ status \in {"deploying", "stabilizing"}
  /\ owner # 0 /\ phase[owner] = "running"
  /\ status' = "stabilizing"
  /\ UNCHANGED <<phase, owner>>

EndsIn(s) ==
  CASE s = "deploying" -> {"running", "partial", "error"}
    [] s = "stabilizing" -> {"running", "partial", "error"}
    [] s = "stopping" -> {"stopped", "error"}
    [] s = "cleaning" -> {"draft", "error"}
    [] OTHER -> {s}

End(o) ==
  /\ phase[o] = "running"
  /\ phase' = [phase EXCEPT ![o] = "ended"]
  /\ status' \in IF o = owner THEN EndsIn(status) ELSE {status}
  /\ UNCHANGED owner

Delete ==
  /\ status = "draft"
  /\ status' = "gone"
  /\ UNCHANGED <<phase, owner>>

\* The pods of a stack fail.
Fail ==
  /\ status \in {"running", "partial", "stabilizing"}
  /\ status' = "error"
  /\ UNCHANGED <<phase, owner>>

LifecycleNext ==
  \/ \E o \in LifecycleOps : End(o)
                            \/ \E s \in {"deploying", "stopping", "cleaning"} : Begin(o, s)
  \/ Stabilize \/ Delete \/ Fail

LifecycleSpec == LifecycleInit /\ [][LifecycleNext]_lifecycleVars
=============================================================================
