-------------------------- MODULE OperationsProofs --------------------------
(***************************************************************************)
(* Safety of Operations for every number of operations, replicas, charts    *)
(* and slots, every kind of fault and every window.                         *)
(*                                                                          *)
(* The argument: a step of one handler or goroutine touches its own state,  *)
(* its own log and at most one token of its process (LocalStep), and it     *)
(* keeps what its program counter says of its slot, its log and the row it  *)
(* remembers (OpInvAt).  So the tokens of a semaphore stay the number of    *)
(* operations that hold a slot (SlotInv); a crash empties both.             *)
(***************************************************************************)
EXTENDS Operations, TLAPS, FiniteSetTheorems, WellFoundedInduction

\* Program counters without a slot, and those where the row that the operation
\* remembers will be written.
NoSlotPcs == {"idle", "preHook", "waiting", "queued", "markBlocking", "blocking",
              "done"} \cup RequestPcs
RowPcs == RequestPcs \cup {"markBlocking", "reject"}

\* What the program counter says: no log before the transaction of the start,
\* no stamp before Stamp, the slot, a chart in hand, and a row to write.
OpInvAt(o) ==
  /\ pc(o) \in {"idle"} \cup RequestPcs => log[o].status = "none"
  /\ pc(o) \in {"idle", "read", "restarted"} => log[o].startedAt = 0
  /\ pc(o) \in NoSlotPcs => ~op[o].slot
  /\ pc(o) \in HelmPcs \cup {"postDeploy"} => op[o].slot
  /\ pc(o) \in {"installing", "rolling"} => op[o].todo # {}
  /\ op[o].row = NoRow \/ op[o].row.status \in InstanceStatuses
  /\ pc(o) \in RowPcs \/ (pc(o) = "preHook" /\ action(o) # "deploy")
       => op[o].row.status \in InstanceStatuses

Holders(r) == {o \in Ops : replica(o) = r /\ op[o].slot}

\* The semaphore of a process counts its holders.
SlotInv == \A r \in Replicas : slots[r] = Cardinality(Holders(r))

\* The inductive invariant.
IInv == OpsTypeOK /\ (\A o \in Ops : OpInvAt(o)) /\ SlotInv

-----------------------------------------------------------------------------
(* What one step of one operation may change                                *)

InstStep == inst' \in Instances /\ changed' \in BOOLEAN

LogStep(o) ==
  /\ log'[o] \in Logs /\ log' = [log EXCEPT ![o] = log'[o]]
  /\ Started(o) /\ ~Running(o) => log'[o].status = log[o].status

OpTypeStep(o) == op'[o] \in OpStates /\ op' = [op EXCEPT ![o] = op'[o]]

SlotStep(o) ==
  \/ /\ slots' = slots /\ op'[o].slot = op[o].slot
     /\ log'[o].replica = log[o].replica \/ ~op[o].slot
  \/ /\ ~op[o].slot /\ op'[o].slot /\ log'[o].replica = log[o].replica
     /\ slots[replica(o)] < MaxConcurrent
     /\ slots' = [slots EXCEPT ![replica(o)] = @ + 1]
  \/ /\ op[o].slot /\ ~op'[o].slot /\ log'[o].replica = log[o].replica
     /\ slots' = [slots EXCEPT ![replica(o)] = @ - 1]

ClusterStep ==
  /\ releases' \subseteq Charts /\ ns' \in {"absent", "active", "terminating"}
  /\ UNCHANGED processVars

LocalStep(o) ==
  /\ InstStep /\ LogStep(o) /\ OpTypeStep(o) /\ OpInvAt(o)'
  /\ SlotStep(o) /\ ClusterStep

-----------------------------------------------------------------------------
(* Values                                                                   *)

LEMMA FirstIn ==
  ASSUME NEW cs \in SUBSET Charts, cs # {}
  PROVE  First(cs) \in cs
<1>1. cs \subseteq Nat
  BY NumChartsAssumption DEF Charts
<1>2. PICK x \in cs : \A y \in cs : ~(<<y, x>> \in OpToRel(<, Nat))
  BY <1>1, NatLessThanWellFounded, WFMin
<1>3. \A y \in cs : x <= y
  <2> SUFFICES ASSUME NEW y \in cs, ~(x <= y) PROVE FALSE
    OBVIOUS
  <2>1. y \in Nat /\ x \in Nat
    BY <1>1
  <2>2. y < x
    BY <2>1
  <2>3. <<y, x>> \in Nat \X Nat
    BY <2>1
  <2>4. <<y, x>>[1] = y /\ <<y, x>>[2] = x
    BY Zenon
  <2>5. <<y, x>> \in OpToRel(<, Nat)
    BY <2>2, <2>3, <2>4, Zenon DEF OpToRel
  <2> QED
    BY <2>5, <1>2
<1>4. \E c \in cs : \A d \in cs : c <= d
  BY <1>3
<1> QED
  BY <1>4, Zenon DEF First

LEMMA NoRowOK == NoRow \in Rows /\ NoRow.status = "keep"
  BY DEF NoRow, Rows

LEMMA IdleOpOK ==
  /\ IdleOp \in OpStates /\ IdleOp.pc = "idle"
  /\ IdleOp.slot = FALSE /\ IdleOp.row = NoRow
<1>1. IdleOp \in OpStates
  BY NoRowOK, Zenon DEF IdleOp, OpStates, Pcs, Outcomes
<1> QED
  BY <1>1 DEF IdleOp

LEMMA DoneOpOK ==
  /\ DoneOp \in OpStates /\ DoneOp.pc = "done"
  /\ DoneOp.slot = FALSE /\ DoneOp.row = NoRow
  BY IdleOpOK, Zenon DEF DoneOp, OpStates, Pcs

LEMMA SettledOK ==
  ASSUME NEW o \in Ops
  PROVE  /\ SettledRow(o) \in Rows /\ Settled(o) \in InstanceStatuses
         /\ SettledRow(o).status \in InstanceStatuses
<1>1. Settled(o) \in InstanceStatuses
  BY DEF Settled, InstanceStatuses
<1> QED BY <1>1 DEF SettledRow, Rows

-----------------------------------------------------------------------------
(* The operators that the actions are built from                            *)

LEMMA GotoStep ==
  ASSUME TypeOK, NEW o \in Ops, NEW p \in Pcs, Goto(o, p)
  PROVE  OpTypeStep(o)
  BY SMT DEF OpTypeStep, Goto, TypeOK, OpStates

LEMMA FinalizeStep ==
  ASSUME TypeOK, NEW o \in Ops, NEW out \in Outcomes, Finalize(o, out)
  PROVE  OpTypeStep(o)
<1> DEFINE t == [op[o] EXCEPT !.pc = "finalize", !.outcome = out,
                              !.todo = {}, !.failed = {}]
<1>1. "finalize" \in Pcs
  BY DEF Pcs
<1>2. t \in OpStates
  BY <1>1, Zenon DEF OpStates, TypeOK
<1>3. op' = [op EXCEPT ![o] = t]
  BY Zenon DEF Finalize
<1> QED
  BY <1>2, <1>3, Zenon DEF OpTypeStep, TypeOK

LEMMA WriteStep ==
  ASSUME TypeOK, NEW o \in Ops, NEW row \in Rows, NEW out \in Outcomes, Write(o, row, out)
  PROVE  OpTypeStep(o)
<1> DEFINE t == [op[o] EXCEPT !.pc = "finalWrite", !.row = row, !.outcome = out]
<1>1. "finalWrite" \in Pcs
  BY DEF Pcs
<1>2. t \in OpStates
  BY <1>1, Zenon DEF OpStates, TypeOK
<1>3. op' = [op EXCEPT ![o] = t]
  BY Zenon DEF Write
<1> QED
  BY <1>2, <1>3, Zenon DEF OpTypeStep, TypeOK

LEMMA ReturnStep ==
  ASSUME TypeOK, NEW o \in Ops, Return(o)
  PROVE  OpTypeStep(o)
  BY DoneOpOK, SMT DEF OpTypeStep, Return, TypeOK

LEMMA StartStep ==
  ASSUME TypeOK, NEW o \in Ops, NEW p \in Pcs, Start(o, p)
  PROVE  OpTypeStep(o)
<1> DEFINE t == [op[o] EXCEPT !.pc = p, !.todo = Charts,
                   !.row = IF action(o) = "rollback" THEN @ ELSE NoRow]
<1>1. t \in OpStates
  BY NoRowOK, Zenon DEF OpStates, TypeOK
<1>2. op' = [op EXCEPT ![o] = t]
  BY Zenon DEF Start
<1> QED
  BY <1>1, <1>2, Zenon DEF OpTypeStep, TypeOK

LEMMA UpdateStep ==
  ASSUME TypeOK, NEW row, row.status \in InstanceStatuses, row.hook \in BOOLEAN,
         Update(row)
  PROVE  InstStep
<1>1. (inst.exists /\ inst.mark) \in BOOLEAN
  OBVIOUS
<1>2. inst' \in Instances
  BY <1>1, Zenon DEF Update, Instances
<1> QED BY <1>2, Zenon DEF Update, InstStep

LEMMA SetStatusStep ==
  ASSUME TypeOK, NEW s \in InstanceStatuses, SetStatus(s)
  PROVE  InstStep
  BY Zenon DEF SetStatus, Instances, TypeOK, StoreTypeOK, InstStep

LEMMA MarkCleanStartStep ==
  ASSUME TypeOK, NEW b \in BOOLEAN, MarkCleanStart(b)
  PROVE  InstStep
  BY Zenon DEF MarkCleanStart, Instances, InstanceStatuses, TypeOK, StoreTypeOK, InstStep

LEMMA ClearStep ==
  ASSUME TypeOK, clearDeleteAfterClean
  PROVE  InstStep
  BY Zenon DEF clearDeleteAfterClean, ClearDeleteAfterClean, Instances, TypeOK,
     StoreTypeOK, InstStep

LEMMA DeleteRowStep ==
  ASSUME DeleteRow
  PROVE  InstStep
<1>1. inst' \in Instances
  BY Zenon DEF DeleteRow, Instances, InstanceStatuses
<1> QED BY <1>1, Zenon DEF DeleteRow, InstStep

LEMMA SameInstStep ==
  ASSUME TypeOK, UNCHANGED <<inst, changed>>
  PROVE  InstStep
  BY DEF TypeOK, StoreTypeOK, InstStep

LEMMA CreateLogStep ==
  ASSUME TypeOK, NEW o \in Ops, ~Started(o), CreateLog(o)
  PROVE  LogStep(o)
<1> DEFINE t == [log[o] EXCEPT !.status = "running", !.expired = FALSE]
<1>1. t \in Logs
  BY Zenon DEF TypeOK, StoreTypeOK, Logs, LogStatuses
<1>2. log' = [log EXCEPT ![o] = t]
  BY Zenon DEF CreateLog
<1> QED
  BY <1>1, <1>2, Zenon DEF LogStep, TypeOK, StoreTypeOK

LEMMA EndLogStep ==
  ASSUME TypeOK, NEW o \in Ops, Running(o), NEW s \in LogStatuses, EndLog(o, s)
  PROVE  LogStep(o)
  BY SMT DEF EndLog, LogStep, Logs, TypeOK, StoreTypeOK

LEMMA ExtendStep ==
  ASSUME TypeOK, NEW o \in Ops, ExtendDeadline(o)
  PROVE  LogStep(o)
<1> DEFINE t == [log[o] EXCEPT !.expired = FALSE]
<1>1. t \in Logs /\ t.status = log[o].status
  BY Zenon DEF TypeOK, StoreTypeOK, Logs
<1>2. log' = [log EXCEPT ![o] = t]
  BY Zenon DEF ExtendDeadline
<1> QED
  BY <1>1, <1>2, Zenon DEF LogStep, TypeOK, StoreTypeOK

LEMMA SameLogStep ==
  ASSUME TypeOK, NEW o \in Ops, UNCHANGED log
  PROVE  LogStep(o)
  BY SMT DEF LogStep, TypeOK, StoreTypeOK

\* A step that changes only the state of its goroutine.
LEMMA QuietStep ==
  ASSUME TypeOK, NEW o \in Ops, OpTypeStep(o), OpInvAt(o)',
         op'[o].slot = op[o].slot,
         UNCHANGED <<storeVars, slots, clusterVars, processVars>>
  PROVE  LocalStep(o)
<1>1. InstStep
  BY SameInstStep DEF storeVars
<1>2. LogStep(o)
  BY SameLogStep DEF storeVars
<1>3. SlotStep(o)
  BY DEF SlotStep, storeVars
<1>4. ClusterStep
  BY DEF ClusterStep, clusterVars, TypeOK
<1> QED
  BY <1>1, <1>2, <1>3, <1>4 DEF LocalStep

-----------------------------------------------------------------------------
(* Every action of Deployer is such a step                                  *)

LEMMA RequestSteps ==
  ASSUME TypeOK, NEW o \in Ops, OpInvAt(o), RequestStep(o)
  PROVE  LocalStep(o)
<1>1. ASSUME NEW a \in Requests, NEW r \in Replicas, Request(o, a, r)
      PROVE  LocalStep(o)
  <2>1. InstStep
    BY <1>1, SameInstStep DEF Request
  <2>2. LogStep(o)
    <3> DEFINE t == [log[o] EXCEPT !.action = a, !.replica = r]
    <3>1. t \in Logs
      BY RequestsAssumption, Zenon DEF TypeOK, StoreTypeOK, Logs
    <3>2. log' = [log EXCEPT ![o] = t]
      BY <1>1, Zenon DEF Request
    <3>3. ~Started(o)
      BY <1>1 DEF Request, OpInvAt, Started
    <3> QED
      BY <3>1, <3>2, <3>3, Zenon DEF LogStep, TypeOK, StoreTypeOK
  <2>3. OpTypeStep(o)
    <3> DEFINE t == [op[o] EXCEPT !.pc = "read", !.row = RowRead]
    <3>1. RowRead \in Rows /\ "read" \in Pcs
      BY Zenon DEF TypeOK, StoreTypeOK, Instances, RowRead, Rows, Pcs, RequestPcs
    <3>2. t \in OpStates
      BY <3>1, Zenon DEF OpStates, TypeOK
    <3>3. op' = [op EXCEPT ![o] = t]
      BY <1>1, Zenon DEF Request
    <3> QED
      BY <3>2, <3>3, Zenon DEF OpTypeStep, TypeOK
  <2>4. OpInvAt(o)'
    BY <1>1, SMTT(30) DEF Request, RowRead, OpInvAt, RowPcs, NoSlotPcs, RequestPcs,
       HelmPcs, TypeOK, StoreTypeOK, Instances, OpStates, Logs, pc, action
  <2>5. SlotStep(o)
    BY <1>1, SMTT(30) DEF Request, OpInvAt, NoSlotPcs, TypeOK, StoreTypeOK, OpStates,
       Logs, pc, SlotStep
  <2>6. ClusterStep
    BY <1>1 DEF Request, clusterVars, ClusterStep, TypeOK
  <2> QED
    BY <2>1, <2>2, <2>3, <2>4, <2>5, <2>6 DEF LocalStep
<1>2. CASE RestartTTL(o)
  <2>1. InstStep
    BY <1>2, UpdateStep, SameInstStep DEF RestartTTL, OpInvAt, RowPcs,
       RequestPcs, At, pc, action, InstanceStatuses, TypeOK, OpStates, Rows,
       NoRow
  <2>2. LogStep(o)
    BY <1>2, SameLogStep DEF RestartTTL
  <2>3. OpTypeStep(o)
    BY <1>2, GotoStep DEF RestartTTL, Pcs, HelmPcs, RequestPcs, Outcomes,
       TypeOK, OpStates
  <2>4. OpInvAt(o)'
    BY <1>2, SMTT(30) DEF RestartTTL, Goto, OpInvAt, RowPcs, NoSlotPcs,
       RequestPcs, HelmPcs, TypeOK, StoreTypeOK, OpStates, Logs, At, pc,
       action, InstanceStatuses
  <2>5. SlotStep(o)
    BY <1>2, SMTT(30) DEF RestartTTL, Goto, OpInvAt, RowPcs, NoSlotPcs,
       RequestPcs, HelmPcs, TypeOK, StoreTypeOK, OpStates, Logs, At, pc,
       replica, SlotStep
  <2>6. ClusterStep
    BY <1>2 DEF RestartTTL, clusterVars, processVars, ClusterStep, TypeOK,
       OpStates
  <2> QED
    BY <2>1, <2>2, <2>3, <2>4, <2>5, <2>6 DEF LocalStep
<1>3. CASE Refuse(o)
  <2>1. OpTypeStep(o)
    BY <1>3, GotoStep DEF Refuse, Pcs, HelmPcs, RequestPcs, Outcomes, TypeOK,
       OpStates
  <2>2. OpInvAt(o)'
    BY <1>3, SMTT(30) DEF Refuse, Goto, storeVars, OpInvAt, RowPcs, NoSlotPcs,
       RequestPcs, HelmPcs, TypeOK, StoreTypeOK, OpStates, Logs, At, pc,
       action, InstanceStatuses
  <2>3. op'[o].slot = op[o].slot
    BY <1>3, SMTT(30) DEF Refuse, Goto, TypeOK, OpStates
  <2> QED
    BY <1>3, <2>1, <2>2, <2>3, QuietStep DEF Refuse
<1>4. CASE Stamp(o)
  <2>1. InstStep
    BY <1>4, SameInstStep DEF Stamp
  <2>2. LogStep(o)
    <3> DEFINE S == {p \in Ops : log[p].startedAt > 0}
               t == [log[o] EXCEPT !.startedAt = 1 + Cardinality(S)]
    <3>1. IsFiniteSet(Ops) /\ Cardinality(Ops) = MaxOps
      BY MaxOpsAssumption, FS_Interval DEF Ops
    <3>2. IsFiniteSet(Ops \ {o}) /\ Cardinality(Ops \ {o}) = MaxOps - 1
      BY <3>1, FS_RemoveElement
    <3>3. S \subseteq Ops \ {o}
      BY <1>4 DEF Stamp, At, pc, OpInvAt
    <3>4. Cardinality(S) \in Nat /\ Cardinality(S) <= MaxOps - 1
      BY <3>2, <3>3, FS_Subset, FS_CardinalityType
    <3>5. 1 + Cardinality(S) \in 0..MaxOps
      BY <3>4, MaxOpsAssumption
    <3> HIDE DEF S
    <3>6. t \in Logs /\ t.status = log[o].status
      BY <3>5, Zenon DEF TypeOK, StoreTypeOK, Logs
    <3>7. log' = [log EXCEPT ![o] = t]
      BY <1>4, Zenon DEF Stamp, S
    <3> QED
      BY <3>6, <3>7, Zenon DEF LogStep, TypeOK, StoreTypeOK
  <2>3. OpTypeStep(o)
    BY <1>4, GotoStep DEF Stamp, Pcs, HelmPcs, RequestPcs, Outcomes, TypeOK,
       OpStates
  <2>4. OpInvAt(o)'
    BY <1>4, SMTT(30) DEF Stamp, Goto, OpInvAt, RowPcs, NoSlotPcs, RequestPcs,
       HelmPcs, TypeOK, StoreTypeOK, OpStates, Logs, At, pc, action,
       InstanceStatuses
  <2>5. SlotStep(o)
    BY <1>4, SMTT(30) DEF Stamp, Goto, OpInvAt, RowPcs, NoSlotPcs, RequestPcs,
       HelmPcs, TypeOK, StoreTypeOK, OpStates, Logs, At, pc, replica, SlotStep
  <2>6. ClusterStep
    BY <1>4 DEF Stamp, clusterVars, processVars, ClusterStep, TypeOK, OpStates
  <2> QED
    BY <2>1, <2>2, <2>3, <2>4, <2>5, <2>6 DEF LocalStep
<1>5. CASE Deploy(o)
  <2>1. InstStep
    <3>1. "deploying" \in InstanceStatuses
      BY DEF InstanceStatuses
    <3> QED
      BY <1>5, <3>1, UpdateStep, Zenon DEF Deploy
  <2>2. LogStep(o)
    BY <1>5, CreateLogStep, SameLogStep DEF Deploy, Start, OpInvAt,
       RequestPcs, At, pc, Started, LogStatuses, TypeOK, OpStates, Outcomes
  <2>3. OpTypeStep(o)
    BY <1>5, StartStep DEF Deploy, Pcs, HelmPcs, RequestPcs, Outcomes, TypeOK,
       OpStates
  <2>4. OpInvAt(o)'
    BY <1>5, SMTT(30) DEF Deploy, Start, CreateLog, OpInvAt, RowPcs,
       NoSlotPcs, RequestPcs, HelmPcs, TypeOK, StoreTypeOK, OpStates, Logs,
       At, pc, action, InstanceStatuses
  <2>5. SlotStep(o)
    BY <1>5, SMTT(30) DEF Deploy, Start, CreateLog, OpInvAt, RowPcs,
       NoSlotPcs, RequestPcs, HelmPcs, TypeOK, StoreTypeOK, OpStates, Logs,
       At, pc, replica, SlotStep
  <2>6. ClusterStep
    BY <1>5 DEF Deploy, Start, clusterVars, processVars, ClusterStep, TypeOK,
       OpStates
  <2> QED
    BY <2>1, <2>2, <2>3, <2>4, <2>5, <2>6 DEF LocalStep
<1>6. CASE Rollback(o)
  <2>1. InstStep
    BY <1>6, UpdateStep, SameInstStep DEF Rollback, OpInvAt, RowPcs,
       RequestPcs, At, pc, action, InstanceStatuses, TypeOK, OpStates, Rows,
       NoRow
  <2>2. LogStep(o)
    BY <1>6, CreateLogStep, SameLogStep DEF Rollback, Start, OpInvAt,
       RequestPcs, At, pc, Started, LogStatuses, TypeOK, OpStates, Outcomes
  <2>3. OpTypeStep(o)
    BY <1>6, StartStep DEF Rollback, Pcs, HelmPcs, RequestPcs, Outcomes,
       TypeOK, OpStates
  <2>4. OpInvAt(o)'
    BY <1>6, SMTT(30) DEF Rollback, Start, CreateLog, OpInvAt, RowPcs,
       NoSlotPcs, RequestPcs, HelmPcs, TypeOK, StoreTypeOK, OpStates, Logs,
       At, pc, action, InstanceStatuses
  <2>5. SlotStep(o)
    BY <1>6, SMTT(30) DEF Rollback, Start, CreateLog, OpInvAt, RowPcs,
       NoSlotPcs, RequestPcs, HelmPcs, TypeOK, StoreTypeOK, OpStates, Logs,
       At, pc, replica, SlotStep
  <2>6. ClusterStep
    BY <1>6 DEF Rollback, Start, clusterVars, processVars, ClusterStep,
       TypeOK, OpStates
  <2> QED
    BY <2>1, <2>2, <2>3, <2>4, <2>5, <2>6 DEF LocalStep
<1>7. CASE StopWithCharts(o)
  <2>1. InstStep
    BY <1>7, UpdateStep, SameInstStep DEF StopWithCharts, OpInvAt, RowPcs,
       RequestPcs, At, pc, action, InstanceStatuses, TypeOK, OpStates, Rows,
       NoRow
  <2>2. LogStep(o)
    BY <1>7, CreateLogStep, SameLogStep DEF StopWithCharts, Start, OpInvAt,
       RequestPcs, At, pc, Started, LogStatuses, TypeOK, OpStates, Outcomes
  <2>3. OpTypeStep(o)
    BY <1>7, StartStep DEF StopWithCharts, Pcs, HelmPcs, RequestPcs, Outcomes,
       TypeOK, OpStates
  <2>4. OpInvAt(o)'
    BY <1>7, SMTT(30) DEF StopWithCharts, Start, CreateLog, OpInvAt, RowPcs,
       NoSlotPcs, RequestPcs, HelmPcs, TypeOK, StoreTypeOK, OpStates, Logs,
       At, pc, action, InstanceStatuses
  <2>5. SlotStep(o)
    BY <1>7, SMTT(30) DEF StopWithCharts, Start, CreateLog, OpInvAt, RowPcs,
       NoSlotPcs, RequestPcs, HelmPcs, TypeOK, StoreTypeOK, OpStates, Logs,
       At, pc, replica, SlotStep
  <2>6. ClusterStep
    BY <1>7 DEF StopWithCharts, Start, clusterVars, processVars, ClusterStep,
       TypeOK, OpStates
  <2> QED
    BY <2>1, <2>2, <2>3, <2>4, <2>5, <2>6 DEF LocalStep
<1>8. CASE startClean(o)
  <2>1. InstStep
    BY <1>8, MarkCleanStartStep, SameInstStep DEF startClean
  <2>2. LogStep(o)
    BY <1>8, CreateLogStep, SameLogStep DEF startClean, Start, OpInvAt,
       RequestPcs, At, pc, Started, LogStatuses, TypeOK, OpStates, Outcomes
  <2>3. OpTypeStep(o)
    BY <1>8, StartStep DEF startClean, Pcs, HelmPcs, RequestPcs, Outcomes,
       TypeOK, OpStates
  <2>4. OpInvAt(o)'
    BY <1>8, SMTT(30) DEF startClean, Start, CreateLog, OpInvAt, RowPcs,
       NoSlotPcs, RequestPcs, HelmPcs, TypeOK, StoreTypeOK, OpStates, Logs,
       At, pc, action, InstanceStatuses
  <2>5. SlotStep(o)
    BY <1>8, SMTT(30) DEF startClean, Start, CreateLog, OpInvAt, RowPcs,
       NoSlotPcs, RequestPcs, HelmPcs, TypeOK, StoreTypeOK, OpStates, Logs,
       At, pc, replica, SlotStep
  <2>6. ClusterStep
    BY <1>8 DEF startClean, Start, clusterVars, processVars, ClusterStep,
       TypeOK, OpStates
  <2> QED
    BY <2>1, <2>2, <2>3, <2>4, <2>5, <2>6 DEF LocalStep
<1>9. CASE removeDraft(o)
  <2>1. InstStep
    BY <1>9, DeleteRowStep, SameInstStep DEF removeDraft
  <2>2. LogStep(o)
    BY <1>9, SameLogStep DEF removeDraft
  <2>3. OpTypeStep(o)
    BY <1>9, GotoStep DEF removeDraft, Pcs, HelmPcs, RequestPcs, Outcomes,
       TypeOK, OpStates
  <2>4. OpInvAt(o)'
    BY <1>9, SMTT(30) DEF removeDraft, Goto, OpInvAt, RowPcs, NoSlotPcs,
       RequestPcs, HelmPcs, TypeOK, StoreTypeOK, OpStates, Logs, At, pc,
       action, InstanceStatuses
  <2>5. SlotStep(o)
    BY <1>9, SMTT(30) DEF removeDraft, Goto, OpInvAt, RowPcs, NoSlotPcs,
       RequestPcs, HelmPcs, TypeOK, StoreTypeOK, OpStates, Logs, At, pc,
       replica, SlotStep
  <2>6. ClusterStep
    BY <1>9 DEF removeDraft, clusterVars, processVars, ClusterStep, TypeOK,
       OpStates
  <2> QED
    BY <2>1, <2>2, <2>3, <2>4, <2>5, <2>6 DEF LocalStep
<1>10. CASE processExpired(o)
  <2>1. InstStep
    BY <1>10, UpdateStep, SameInstStep DEF processExpired, OpInvAt, RowPcs,
       RequestPcs, At, pc, action, InstanceStatuses, TypeOK, OpStates, Rows,
       NoRow
  <2>2. LogStep(o)
    BY <1>10, SameLogStep DEF processExpired
  <2>3. OpTypeStep(o)
    BY <1>10, GotoStep DEF processExpired, Pcs, HelmPcs, RequestPcs, Outcomes,
       TypeOK, OpStates
  <2>4. OpInvAt(o)'
    BY <1>10, SMTT(30) DEF processExpired, Goto, OpInvAt, RowPcs, NoSlotPcs,
       RequestPcs, HelmPcs, TypeOK, StoreTypeOK, OpStates, Logs, At, pc,
       action, InstanceStatuses
  <2>5. SlotStep(o)
    BY <1>10, SMTT(30) DEF processExpired, Goto, OpInvAt, RowPcs, NoSlotPcs,
       RequestPcs, HelmPcs, TypeOK, StoreTypeOK, OpStates, Logs, At, pc,
       replica, SlotStep
  <2>6. ClusterStep
    BY <1>10 DEF processExpired, clusterVars, processVars, ClusterStep,
       TypeOK, OpStates
  <2> QED
    BY <2>1, <2>2, <2>3, <2>4, <2>5, <2>6 DEF LocalStep
<1> QED
  BY <1>1, <1>2, <1>3, <1>4, <1>5, <1>6, <1>7, <1>8, <1>9, <1>10 DEF
     RequestStep

LEMMA WorkSteps ==
  ASSUME TypeOK, NEW o \in Ops, OpInvAt(o), WorkStep(o)
  PROVE  LocalStep(o)
<1>1. CASE PreHookFails(o)
  <2>1. OpTypeStep(o)
    BY <1>1, GotoStep, FinalizeStep DEF PreHookFails, Pcs, HelmPcs,
       RequestPcs, Outcomes, TypeOK, OpStates
  <2>2. OpInvAt(o)'
    BY <1>1, SMTT(30) DEF PreHookFails, Goto, Finalize, storeVars, OpInvAt,
       RowPcs, NoSlotPcs, RequestPcs, HelmPcs, TypeOK, StoreTypeOK, OpStates,
       Logs, At, pc, action, InstanceStatuses
  <2>3. op'[o].slot = op[o].slot
    BY <1>1, SMTT(30) DEF PreHookFails, Goto, Finalize, TypeOK, OpStates
  <2> QED
    BY <1>1, <2>1, <2>2, <2>3, QuietStep DEF PreHookFails
<1>2. CASE PreHookLost(o)
  <2>1. OpTypeStep(o)
    BY <1>2, FinalizeStep, WriteStep, NoRowOK, Zenon DEF PreHookLost, Outcomes
  <2>2. OpInvAt(o)'
    BY <1>2, SMTT(30) DEF PreHookLost, Finalize, Write, storeVars, OpInvAt,
       RowPcs, NoSlotPcs, RequestPcs, HelmPcs, TypeOK, StoreTypeOK, OpStates,
       Logs, At, pc, action, InstanceStatuses
  <2>3. op'[o].slot = op[o].slot
    BY <1>2, SMTT(30) DEF PreHookLost, Finalize, Write, TypeOK, OpStates
  <2> QED
    BY <1>2, <2>1, <2>2, <2>3, QuietStep DEF PreHookLost
<1>3. CASE PreHookPasses(o)
  <2>1. OpTypeStep(o)
    BY <1>3, GotoStep DEF PreHookPasses, Pcs, HelmPcs, RequestPcs, Outcomes,
       TypeOK, OpStates
  <2>2. OpInvAt(o)'
    BY <1>3, SMTT(30) DEF PreHookPasses, Goto, storeVars, OpInvAt, RowPcs,
       NoSlotPcs, RequestPcs, HelmPcs, TypeOK, StoreTypeOK, OpStates, Logs,
       At, pc, action, InstanceStatuses
  <2>3. op'[o].slot = op[o].slot
    BY <1>3, SMTT(30) DEF PreHookPasses, Goto, TypeOK, OpStates
  <2> QED
    BY <1>3, <2>1, <2>2, <2>3, QuietStep DEF PreHookPasses
<1>4. CASE StopInterrupted(o)
  <2>1. OpTypeStep(o)
    BY <1>4, FinalizeStep DEF StopInterrupted, Pcs, HelmPcs, RequestPcs,
       Outcomes, TypeOK, OpStates
  <2>2. OpInvAt(o)'
    BY <1>4, SMTT(30) DEF StopInterrupted, Finalize, storeVars, OpInvAt,
       RowPcs, NoSlotPcs, RequestPcs, HelmPcs, TypeOK, StoreTypeOK, OpStates,
       Logs, At, pc, action, InstanceStatuses
  <2>3. op'[o].slot = op[o].slot
    BY <1>4, SMTT(30) DEF StopInterrupted, Finalize, TypeOK, OpStates
  <2> QED
    BY <1>4, <2>1, <2>2, <2>3, QuietStep DEF StopInterrupted
<1>5. CASE waitForEarlierOperations(o)
  <2>1. OpTypeStep(o)
    <3>1. "queued" \in Pcs
      BY DEF Pcs
    <3> QED
      BY <1>5, <3>1, GotoStep, WriteStep, NoRowOK, Zenon DEF waitForEarlierOperations, Outcomes
  <2>2. OpInvAt(o)'
    BY <1>5, SMTT(30) DEF waitForEarlierOperations, Goto, Write, storeVars,
       OpInvAt, RowPcs, NoSlotPcs, RequestPcs, HelmPcs, TypeOK, StoreTypeOK,
       OpStates, Logs, At, pc, action, InstanceStatuses
  <2>3. op'[o].slot = op[o].slot
    BY <1>5, SMTT(30) DEF waitForEarlierOperations, Goto, Write, TypeOK,
       OpStates
  <2> QED
    BY <1>5, <2>1, <2>2, <2>3, QuietStep DEF waitForEarlierOperations
<1>6. CASE TakeSlot(o)
  <2>1. InstStep
    BY <1>6, SameInstStep DEF TakeSlot
  <2>2. LogStep(o)
    BY <1>6, ExtendStep, SameLogStep DEF TakeSlot, extendDeadline, OpInvAt,
       RequestPcs, At, pc, Started, LogStatuses, TypeOK, OpStates, Outcomes
  <2>3. OpTypeStep(o)
    <3> DEFINE t == [op[o] EXCEPT !.pc = FirstStep(action(o)), !.slot = TRUE]
    <3>1. FirstStep(action(o)) \in Pcs
      BY DEF FirstStep, Pcs, HelmPcs
    <3>2. t \in OpStates
      BY <3>1, Zenon DEF OpStates, TypeOK
    <3>3. op' = [op EXCEPT ![o] = t]
      BY <1>6, Zenon DEF TakeSlot
    <3> QED
      BY <3>2, <3>3, Zenon DEF OpTypeStep, TypeOK
  <2>4. OpInvAt(o)'
    BY <1>6, SMTT(30) DEF TakeSlot, FirstStep, ExtendDeadline, extendDeadline,
       OpInvAt, RowPcs, NoSlotPcs, RequestPcs, HelmPcs, TypeOK, StoreTypeOK,
       OpStates, Logs, At, pc, action, InstanceStatuses
  <2>5. SlotStep(o)
    BY <1>6, SMTT(30) DEF TakeSlot, FirstStep, ExtendDeadline, extendDeadline,
       OpInvAt, RowPcs, NoSlotPcs, RequestPcs, HelmPcs, TypeOK, StoreTypeOK,
       OpStates, Logs, At, pc, replica, SlotStep
  <2>6. ClusterStep
    BY <1>6 DEF TakeSlot, clusterVars, processVars, ClusterStep, TypeOK,
       OpStates
  <2> QED
    BY <2>1, <2>2, <2>3, <2>4, <2>5, <2>6 DEF LocalStep
<1>7. CASE QueuedCancelled(o)
  <2>1. InstStep
    BY <1>7, ClearStep, SameInstStep DEF QueuedCancelled
  <2>2. LogStep(o)
    BY <1>7, SameLogStep DEF QueuedCancelled
  <2>3. OpTypeStep(o)
    BY <1>7, ReturnStep DEF QueuedCancelled, Pcs, HelmPcs, RequestPcs,
       Outcomes, TypeOK, OpStates
  <2>4. OpInvAt(o)'
    BY <1>7, DoneOpOK, SMTT(30) DEF QueuedCancelled, Return, OpInvAt, RowPcs,
       NoSlotPcs, RequestPcs, HelmPcs, TypeOK, StoreTypeOK, OpStates, Logs,
       At, pc, action, InstanceStatuses
  <2>5. SlotStep(o)
    BY <1>7, DoneOpOK, SMTT(30) DEF QueuedCancelled, Return, releaseSlot,
       OpInvAt, RowPcs, NoSlotPcs, RequestPcs, HelmPcs, TypeOK, StoreTypeOK,
       OpStates, Logs, At, pc, replica, SlotStep
  <2>6. ClusterStep
    BY <1>7 DEF QueuedCancelled, clusterVars, processVars, ClusterStep,
       TypeOK, OpStates
  <2> QED
    BY <2>1, <2>2, <2>3, <2>4, <2>5, <2>6 DEF LocalStep
<1>8. CASE PrepareDeploy(o)
  <2>1. InstStep
    BY <1>8, SameInstStep DEF PrepareDeploy, storeVars
  <2>2. LogStep(o)
    BY <1>8, SameLogStep DEF PrepareDeploy, storeVars
  <2>3. OpTypeStep(o)
    BY <1>8, GotoStep, FinalizeStep DEF PrepareDeploy, Pcs, HelmPcs,
       RequestPcs, Outcomes, TypeOK, OpStates
  <2>4. OpInvAt(o)'
    BY <1>8, SMTT(30) DEF PrepareDeploy, Goto, Finalize, storeVars, OpInvAt,
       RowPcs, NoSlotPcs, RequestPcs, HelmPcs, TypeOK, StoreTypeOK, OpStates,
       Logs, At, pc, action, InstanceStatuses
  <2>5. SlotStep(o)
    BY <1>8, SMTT(30) DEF PrepareDeploy, Goto, Finalize, storeVars, OpInvAt,
       RowPcs, NoSlotPcs, RequestPcs, HelmPcs, TypeOK, StoreTypeOK, OpStates,
       Logs, At, pc, replica, SlotStep
  <2>6. ClusterStep
    BY <1>8 DEF PrepareDeploy, processVars, ClusterStep, TypeOK, OpStates
  <2> QED
    BY <2>1, <2>2, <2>3, <2>4, <2>5, <2>6 DEF LocalStep
<1>9. CASE StartInstall(o)
  <2>1. OpTypeStep(o)
    BY <1>9, GotoStep DEF StartInstall, Pcs, HelmPcs, RequestPcs, Outcomes,
       TypeOK, OpStates
  <2>2. OpInvAt(o)'
    BY <1>9, SMTT(30) DEF StartInstall, Goto, storeVars, OpInvAt, RowPcs,
       NoSlotPcs, RequestPcs, HelmPcs, TypeOK, StoreTypeOK, OpStates, Logs,
       At, pc, action, InstanceStatuses
  <2>3. op'[o].slot = op[o].slot
    BY <1>9, SMTT(30) DEF StartInstall, Goto, TypeOK, OpStates
  <2> QED
    BY <1>9, <2>1, <2>2, <2>3, QuietStep DEF StartInstall
<1>10. CASE InstallsTaken(o)
  <2>1. OpTypeStep(o)
    BY <1>10, FinalizeStep DEF InstallsTaken, Pcs, HelmPcs, RequestPcs,
       Outcomes, TypeOK, OpStates
  <2>2. OpInvAt(o)'
    BY <1>10, SMTT(30) DEF InstallsTaken, Finalize, storeVars, OpInvAt,
       RowPcs, NoSlotPcs, RequestPcs, HelmPcs, TypeOK, StoreTypeOK, OpStates,
       Logs, At, pc, action, InstanceStatuses
  <2>3. op'[o].slot = op[o].slot
    BY <1>10, SMTT(30) DEF InstallsTaken, Finalize, TypeOK, OpStates
  <2> QED
    BY <1>10, <2>1, <2>2, <2>3, QuietStep DEF InstallsTaken
<1>11. CASE InstallsDone(o)
  <2>1. OpTypeStep(o)
    <3> DEFINE t == [op[o] EXCEPT !.pc = AfterReadiness, !.failed = {},
                       !.outcome = IF op[o].failed = {} THEN "ok" ELSE "partial"]
    <3>1. AfterReadiness \in Pcs /\ "readiness" \in Pcs
      BY DEF AfterReadiness, Pcs, HelmPcs
    <3>2. t \in OpStates
      BY <3>1, Zenon DEF OpStates, TypeOK, Outcomes
    <3>3. \/ Finalize(o, "error") \/ Goto(o, "readiness") \/ op' = [op EXCEPT ![o] = t]
      BY <1>11, Zenon DEF InstallsDone
    <3>4. op' = [op EXCEPT ![o] = t] => OpTypeStep(o)
      BY <3>2, Zenon DEF OpTypeStep, TypeOK
    <3> QED
      BY <3>1, <3>3, <3>4, FinalizeStep, GotoStep, Zenon DEF Outcomes
  <2>2. OpInvAt(o)'
    BY <1>11, SMTT(30) DEF InstallsDone, AfterReadiness, Goto, Finalize,
       storeVars, OpInvAt, RowPcs, NoSlotPcs, RequestPcs, HelmPcs, TypeOK,
       StoreTypeOK, OpStates, Logs, At, pc, action, InstanceStatuses
  <2>3. op'[o].slot = op[o].slot
    BY <1>11, SMTT(30) DEF InstallsDone, AfterReadiness, Goto, Finalize,
       TypeOK, OpStates
  <2> QED
    BY <1>11, <2>1, <2>2, <2>3, QuietStep DEF InstallsDone
<1>12. CASE readinessAfterShutdown(o)
  <2>1. OpTypeStep(o)
    BY <1>12, GotoStep, FinalizeStep DEF readinessAfterShutdown,
       ReadinessEnds, AfterReadiness, Pcs, HelmPcs, RequestPcs, Outcomes,
       TypeOK, OpStates
  <2>2. OpInvAt(o)'
    BY <1>12, SMTT(30) DEF readinessAfterShutdown, ReadinessEnds,
       AfterReadiness, Goto, Finalize, storeVars, OpInvAt, RowPcs, NoSlotPcs,
       RequestPcs, HelmPcs, TypeOK, StoreTypeOK, OpStates, Logs, At, pc,
       action, InstanceStatuses
  <2>3. op'[o].slot = op[o].slot
    BY <1>12, SMTT(30) DEF readinessAfterShutdown, ReadinessEnds,
       AfterReadiness, Goto, Finalize, TypeOK, OpStates
  <2> QED
    BY <1>12, <2>1, <2>2, <2>3, QuietStep DEF readinessAfterShutdown
<1>13. CASE CheckStabilizing(o)
  <2>1. OpTypeStep(o)
    BY <1>13, GotoStep, FinalizeStep DEF CheckStabilizing, ReadinessEnds,
       AfterReadiness, Pcs, HelmPcs, RequestPcs, Outcomes, TypeOK, OpStates
  <2>2. OpInvAt(o)'
    BY <1>13, SMTT(30) DEF CheckStabilizing, ReadinessEnds, AfterReadiness,
       Goto, Finalize, storeVars, OpInvAt, RowPcs, NoSlotPcs, RequestPcs,
       HelmPcs, TypeOK, StoreTypeOK, OpStates, Logs, At, pc, action,
       InstanceStatuses
  <2>3. op'[o].slot = op[o].slot
    BY <1>13, SMTT(30) DEF CheckStabilizing, ReadinessEnds, AfterReadiness,
       Goto, Finalize, TypeOK, OpStates
  <2> QED
    BY <1>13, <2>1, <2>2, <2>3, QuietStep DEF CheckStabilizing
<1>14. CASE markStabilizing(o)
  <2>1. InstStep
    BY <1>14, SetStatusStep, SameInstStep DEF markStabilizing,
       InstanceStatuses
  <2>2. LogStep(o)
    BY <1>14, SameLogStep DEF markStabilizing
  <2>3. OpTypeStep(o)
    BY <1>14, GotoStep, FinalizeStep DEF markStabilizing, ReadinessEnds,
       AfterReadiness, Pcs, HelmPcs, RequestPcs, Outcomes, TypeOK, OpStates
  <2>4. OpInvAt(o)'
    BY <1>14, SMTT(30) DEF markStabilizing, ReadinessEnds, AfterReadiness,
       Goto, Finalize, OpInvAt, RowPcs, NoSlotPcs, RequestPcs, HelmPcs,
       TypeOK, StoreTypeOK, OpStates, Logs, At, pc, action, InstanceStatuses
  <2>5. SlotStep(o)
    BY <1>14, SMTT(30) DEF markStabilizing, ReadinessEnds, AfterReadiness,
       Goto, Finalize, OpInvAt, RowPcs, NoSlotPcs, RequestPcs, HelmPcs,
       TypeOK, StoreTypeOK, OpStates, Logs, At, pc, replica, SlotStep
  <2>6. ClusterStep
    BY <1>14 DEF markStabilizing, clusterVars, processVars, ClusterStep,
       TypeOK, OpStates
  <2> QED
    BY <2>1, <2>2, <2>3, <2>4, <2>5, <2>6 DEF LocalStep
<1>15. CASE awaitReadiness(o)
  <2>1. OpTypeStep(o)
    BY <1>15, GotoStep, FinalizeStep DEF awaitReadiness, ReadinessEnds,
       AfterReadiness, Pcs, HelmPcs, RequestPcs, Outcomes, TypeOK, OpStates
  <2>2. OpInvAt(o)'
    BY <1>15, SMTT(30) DEF awaitReadiness, ReadinessEnds, AfterReadiness,
       Goto, Finalize, storeVars, OpInvAt, RowPcs, NoSlotPcs, RequestPcs,
       HelmPcs, TypeOK, StoreTypeOK, OpStates, Logs, At, pc, action,
       InstanceStatuses
  <2>3. op'[o].slot = op[o].slot
    BY <1>15, SMTT(30) DEF awaitReadiness, ReadinessEnds, AfterReadiness,
       Goto, Finalize, TypeOK, OpStates
  <2> QED
    BY <1>15, <2>1, <2>2, <2>3, QuietStep DEF awaitReadiness
<1>16. CASE StartBlocking(o)
  <2>1. InstStep
    BY <1>16, SameInstStep DEF StartBlocking, storeVars
  <2>2. LogStep(o)
    BY <1>16, SameLogStep DEF StartBlocking, storeVars
  <2>3. OpTypeStep(o)
    <3> DEFINE ended == [op[o] EXCEPT !.slot = FALSE, !.pc = "finalize"]
               failed == [op[o] EXCEPT !.slot = FALSE, !.pc = "finalize", !.outcome = "error"]
               row == [status |-> "stabilizing", hook |-> TRUE]
               marking == [op[o] EXCEPT !.slot = FALSE, !.pc = "markBlocking", !.row = row]
    <3>1. row \in Rows /\ "finalize" \in Pcs /\ "markBlocking" \in Pcs
      BY Zenon DEF Rows, InstanceStatuses, Pcs
    <3> HIDE DEF row
    <3>2. ended \in OpStates /\ failed \in OpStates /\ marking \in OpStates
      BY <3>1, Zenon DEF OpStates, TypeOK, Outcomes
    <3>3. PICK t \in {ended, failed, marking} : op' = [op EXCEPT ![o] = t]
      BY <1>16, Zenon DEF StartBlocking, row
    <3>4. t \in OpStates
      BY <3>2, <3>3
    <3> QED
      BY <3>3, <3>4, Zenon DEF OpTypeStep, TypeOK
  <2>4. OpInvAt(o)'
    BY <1>16, SMTT(30) DEF StartBlocking, storeVars, OpInvAt, RowPcs,
       NoSlotPcs, RequestPcs, HelmPcs, TypeOK, StoreTypeOK, OpStates, Logs,
       At, pc, action, InstanceStatuses
  <2>5. SlotStep(o)
    BY <1>16, SMTT(30) DEF StartBlocking, storeVars, releaseSlot, OpInvAt,
       RowPcs, NoSlotPcs, RequestPcs, HelmPcs, TypeOK, StoreTypeOK, OpStates,
       Logs, At, pc, replica, SlotStep
  <2>6. ClusterStep
    BY <1>16 DEF StartBlocking, clusterVars, processVars, ClusterStep, TypeOK,
       OpStates
  <2> QED
    BY <2>1, <2>2, <2>3, <2>4, <2>5, <2>6 DEF LocalStep
<1>17. CASE markBlockingPhase(o)
  <2>1. InstStep
    BY <1>17, UpdateStep, SameInstStep DEF markBlockingPhase, OpInvAt, RowPcs,
       RequestPcs, At, pc, action, InstanceStatuses, TypeOK, OpStates, Rows,
       NoRow
  <2>2. LogStep(o)
    BY <1>17, SameLogStep DEF markBlockingPhase
  <2>3. OpTypeStep(o)
    <3> DEFINE t == [op[o] EXCEPT !.pc = "blocking", !.row = NoRow]
    <3>1. t \in OpStates
      BY NoRowOK, Zenon DEF OpStates, TypeOK, Pcs
    <3>2. op' = [op EXCEPT ![o] = t]
      BY <1>17, Zenon DEF markBlockingPhase
    <3> QED
      BY <3>1, <3>2, Zenon DEF OpTypeStep, TypeOK
  <2>4. OpInvAt(o)'
    BY <1>17, SMTT(30) DEF markBlockingPhase, OpInvAt, RowPcs, NoSlotPcs,
       RequestPcs, HelmPcs, TypeOK, StoreTypeOK, OpStates, Logs, At, pc,
       action, InstanceStatuses
  <2>5. SlotStep(o)
    BY <1>17, SMTT(30) DEF markBlockingPhase, OpInvAt, RowPcs, NoSlotPcs,
       RequestPcs, HelmPcs, TypeOK, StoreTypeOK, OpStates, Logs, At, pc,
       replica, SlotStep
  <2>6. ClusterStep
    BY <1>17 DEF markBlockingPhase, clusterVars, processVars, ClusterStep,
       TypeOK, OpStates
  <2> QED
    BY <2>1, <2>2, <2>3, <2>4, <2>5, <2>6 DEF LocalStep
<1>18. CASE BlockingEnds(o)
  <2>1. OpTypeStep(o)
    BY <1>18, GotoStep, FinalizeStep DEF BlockingEnds, Pcs, HelmPcs,
       RequestPcs, Outcomes, TypeOK, OpStates
  <2>2. OpInvAt(o)'
    BY <1>18, SMTT(30) DEF BlockingEnds, Goto, Finalize, storeVars, OpInvAt,
       RowPcs, NoSlotPcs, RequestPcs, HelmPcs, TypeOK, StoreTypeOK, OpStates,
       Logs, At, pc, action, InstanceStatuses
  <2>3. op'[o].slot = op[o].slot
    BY <1>18, SMTT(30) DEF BlockingEnds, Goto, Finalize, TypeOK, OpStates
  <2> QED
    BY <1>18, <2>1, <2>2, <2>3, QuietStep DEF BlockingEnds
<1>19. CASE StartRollback(o)
  <2>1. OpTypeStep(o)
    BY <1>19, GotoStep DEF StartRollback, Pcs, HelmPcs, RequestPcs, Outcomes,
       TypeOK, OpStates
  <2>2. OpInvAt(o)'
    BY <1>19, SMTT(30) DEF StartRollback, Goto, storeVars, OpInvAt, RowPcs,
       NoSlotPcs, RequestPcs, HelmPcs, TypeOK, StoreTypeOK, OpStates, Logs,
       At, pc, action, InstanceStatuses
  <2>3. op'[o].slot = op[o].slot
    BY <1>19, SMTT(30) DEF StartRollback, Goto, TypeOK, OpStates
  <2> QED
    BY <1>19, <2>1, <2>2, <2>3, QuietStep DEF StartRollback
<1>20. CASE RollbackDone(o)
  <2>1. OpTypeStep(o)
    BY <1>20, GotoStep DEF RollbackDone, Pcs, HelmPcs, RequestPcs, Outcomes,
       TypeOK, OpStates
  <2>2. OpInvAt(o)'
    BY <1>20, SMTT(30) DEF RollbackDone, Goto, storeVars, OpInvAt, RowPcs,
       NoSlotPcs, RequestPcs, HelmPcs, TypeOK, StoreTypeOK, OpStates, Logs,
       At, pc, action, InstanceStatuses
  <2>3. op'[o].slot = op[o].slot
    BY <1>20, SMTT(30) DEF RollbackDone, Goto, TypeOK, OpStates
  <2> QED
    BY <1>20, <2>1, <2>2, <2>3, QuietStep DEF RollbackDone
<1>21. CASE UninstallsDone(o)
  <2>1. OpTypeStep(o)
    BY <1>21, GotoStep DEF UninstallsDone, Pcs, HelmPcs, RequestPcs, Outcomes,
       TypeOK, OpStates
  <2>2. OpInvAt(o)'
    BY <1>21, SMTT(30) DEF UninstallsDone, Goto, storeVars, OpInvAt, RowPcs,
       NoSlotPcs, RequestPcs, HelmPcs, TypeOK, StoreTypeOK, OpStates, Logs,
       At, pc, action, InstanceStatuses
  <2>3. op'[o].slot = op[o].slot
    BY <1>21, SMTT(30) DEF UninstallsDone, Goto, TypeOK, OpStates
  <2> QED
    BY <1>21, <2>1, <2>2, <2>3, QuietStep DEF UninstallsDone
<1>22. CASE finalizeDeploy(o)
  <2>1. OpTypeStep(o)
    BY <1>22, WriteStep, NoRowOK, SettledOK DEF finalizeDeploy, Pcs, HelmPcs,
       RequestPcs, Outcomes, TypeOK, OpStates
  <2>2. OpInvAt(o)'
    BY <1>22, SettledOK, SMTT(30) DEF finalizeDeploy, Write, storeVars,
       SettledRow, OpInvAt, RowPcs, NoSlotPcs, RequestPcs, HelmPcs, TypeOK,
       StoreTypeOK, OpStates, Logs, At, pc, action, InstanceStatuses
  <2>3. op'[o].slot = op[o].slot
    BY <1>22, SMTT(30) DEF finalizeDeploy, Write, TypeOK, OpStates
  <2> QED
    BY <1>22, <2>1, <2>2, <2>3, QuietStep DEF finalizeDeploy
<1>23. CASE finalizeRollback(o)
  <2>1. OpTypeStep(o)
    BY <1>23, WriteStep, NoRowOK, SettledOK DEF finalizeRollback, Pcs,
       HelmPcs, RequestPcs, Outcomes, TypeOK, OpStates
  <2>2. OpInvAt(o)'
    BY <1>23, SettledOK, SMTT(30) DEF finalizeRollback, Write, storeVars,
       SettledRow, OpInvAt, RowPcs, NoSlotPcs, RequestPcs, HelmPcs, TypeOK,
       StoreTypeOK, OpStates, Logs, At, pc, action, InstanceStatuses
  <2>3. op'[o].slot = op[o].slot
    BY <1>23, SMTT(30) DEF finalizeRollback, Write, TypeOK, OpStates
  <2> QED
    BY <1>23, <2>1, <2>2, <2>3, QuietStep DEF finalizeRollback
<1>24. CASE finalizeStop(o)
  <2>1. OpTypeStep(o)
    BY <1>24, WriteStep, NoRowOK, SettledOK DEF finalizeStop, Pcs, HelmPcs,
       RequestPcs, Outcomes, TypeOK, OpStates
  <2>2. OpInvAt(o)'
    BY <1>24, SettledOK, SMTT(30) DEF finalizeStop, Write, storeVars,
       SettledRow, OpInvAt, RowPcs, NoSlotPcs, RequestPcs, HelmPcs, TypeOK,
       StoreTypeOK, OpStates, Logs, At, pc, action, InstanceStatuses
  <2>3. op'[o].slot = op[o].slot
    BY <1>24, SMTT(30) DEF finalizeStop, Write, TypeOK, OpStates
  <2> QED
    BY <1>24, <2>1, <2>2, <2>3, QuietStep DEF finalizeStop
<1>25. CASE finalizeClean(o)
  <2>1. InstStep
    BY <1>25, ClearStep, SameInstStep DEF finalizeClean
  <2>2. LogStep(o)
    BY <1>25, SameLogStep DEF finalizeClean
  <2>3. OpTypeStep(o)
    <3> DEFINE t == [op[o] EXCEPT !.pc = "finalWrite", !.row = SettledRow(o), !.del = inst.mark]
    <3>1. inst.mark \in BOOLEAN
      BY Zenon DEF TypeOK, StoreTypeOK, Instances
    <3>2. t \in OpStates
      BY <3>1, SettledOK, Zenon DEF OpStates, TypeOK, Pcs
    <3>3. op' = [op EXCEPT ![o] = t]
      BY <1>25, Zenon DEF finalizeClean
    <3> QED
      BY <3>2, <3>3, Zenon DEF OpTypeStep, TypeOK
  <2>4. OpInvAt(o)'
    BY <1>25, SettledOK, SMTT(30) DEF finalizeClean, SettledRow, OpInvAt,
       RowPcs, NoSlotPcs, RequestPcs, HelmPcs, TypeOK, StoreTypeOK, OpStates,
       Logs, At, pc, action, InstanceStatuses
  <2>5. SlotStep(o)
    BY <1>25, SMTT(30) DEF finalizeClean, OpInvAt, RowPcs, NoSlotPcs,
       RequestPcs, HelmPcs, TypeOK, StoreTypeOK, OpStates, Logs, At, pc,
       replica, SlotStep
  <2>6. ClusterStep
    BY <1>25 DEF finalizeClean, clusterVars, processVars, ClusterStep, TypeOK,
       OpStates
  <2> QED
    BY <2>1, <2>2, <2>3, <2>4, <2>5, <2>6 DEF LocalStep
<1>26. CASE FinalReadFails(o)
  <2>1. InstStep
    BY <1>26, SameInstStep DEF FinalReadFails, storeVars
  <2>2. LogStep(o)
    BY <1>26, SameLogStep DEF FinalReadFails, storeVars
  <2>3. OpTypeStep(o)
    BY <1>26, ReturnStep, WriteStep, NoRowOK DEF FinalReadFails, Pcs, HelmPcs,
       RequestPcs, Outcomes, TypeOK, OpStates
  <2>4. OpInvAt(o)'
    BY <1>26, DoneOpOK, SMTT(30) DEF FinalReadFails, Return, Write, storeVars,
       OpInvAt, RowPcs, NoSlotPcs, RequestPcs, HelmPcs, TypeOK, StoreTypeOK,
       OpStates, Logs, At, pc, action, InstanceStatuses
  <2>5. SlotStep(o)
    BY <1>26, DoneOpOK, SMTT(30) DEF FinalReadFails, Return, Write, storeVars,
       releaseSlot, OpInvAt, RowPcs, NoSlotPcs, RequestPcs, HelmPcs, TypeOK,
       StoreTypeOK, OpStates, Logs, At, pc, replica, SlotStep
  <2>6. ClusterStep
    BY <1>26 DEF FinalReadFails, clusterVars, processVars, ClusterStep,
       TypeOK, OpStates
  <2> QED
    BY <2>1, <2>2, <2>3, <2>4, <2>5, <2>6 DEF LocalStep
<1>27. CASE finalizeRollbackRejected(o)
  <2>1. OpTypeStep(o)
    <3> DEFINE row == [status |-> op[o].row.status, hook |-> inst.hook]
    <3>1. row \in Rows
      BY Zenon DEF TypeOK, StoreTypeOK, Instances, OpStates, Rows
    <3>2. Write(o, row, "error") \/ Write(o, NoRow, "error")
      BY <1>27, Zenon DEF finalizeRollbackRejected
    <3> HIDE DEF row
    <3> QED
      BY <3>1, <3>2, NoRowOK, WriteStep, Zenon DEF Outcomes
  <2>2. OpInvAt(o)'
    BY <1>27, SMTT(30) DEF finalizeRollbackRejected, Write, storeVars,
       OpInvAt, RowPcs, NoSlotPcs, RequestPcs, HelmPcs, TypeOK, StoreTypeOK,
       OpStates, Logs, At, pc, action, InstanceStatuses
  <2>3. op'[o].slot = op[o].slot
    BY <1>27, SMTT(30) DEF finalizeRollbackRejected, Write, TypeOK, OpStates
  <2> QED
    BY <1>27, <2>1, <2>2, <2>3, QuietStep DEF finalizeRollbackRejected
<1>28. CASE writeFinal(o)
  <2>1. InstStep
    BY <1>28, UpdateStep, SameInstStep DEF writeFinal, OpInvAt, RowPcs,
       RequestPcs, At, pc, action, InstanceStatuses, TypeOK, OpStates, Rows,
       NoRow
  <2>2. LogStep(o)
    BY <1>28, EndLogStep, SameLogStep DEF writeFinal, LogResult, OpInvAt,
       RequestPcs, At, pc, Started, LogStatuses, TypeOK, OpStates, Outcomes
  <2>3. OpTypeStep(o)
    BY <1>28, GotoStep, ReturnStep DEF writeFinal, AfterWrite, Pcs, HelmPcs,
       RequestPcs, Outcomes, TypeOK, OpStates
  <2>4. OpInvAt(o)'
    BY <1>28, DoneOpOK, SMTT(30) DEF writeFinal, AfterWrite, Goto, Return,
       EndLog, OpInvAt, RowPcs, NoSlotPcs, RequestPcs, HelmPcs, TypeOK,
       StoreTypeOK, OpStates, Logs, At, pc, action, InstanceStatuses
  <2>5. SlotStep(o)
    BY <1>28, DoneOpOK, SMTT(30) DEF writeFinal, AfterWrite, Goto, Return,
       EndLog, releaseSlot, OpInvAt, RowPcs, NoSlotPcs, RequestPcs, HelmPcs,
       TypeOK, StoreTypeOK, OpStates, Logs, At, pc, replica, SlotStep
  <2>6. ClusterStep
    BY <1>28 DEF writeFinal, clusterVars, processVars, ClusterStep, TypeOK,
       OpStates
  <2> QED
    BY <2>1, <2>2, <2>3, <2>4, <2>5, <2>6 DEF LocalStep
<1>29. CASE writeFinalFallsBack(o)
  <2>1. InstStep
    BY <1>29, SameInstStep DEF writeFinalFallsBack
  <2>2. LogStep(o)
    BY <1>29, EndLogStep, SameLogStep DEF writeFinalFallsBack, LogResult,
       OpInvAt, RequestPcs, At, pc, Started, LogStatuses, TypeOK, OpStates,
       Outcomes
  <2>3. OpTypeStep(o)
    BY <1>29, GotoStep, ReturnStep DEF writeFinalFallsBack, AfterWrite, Pcs,
       HelmPcs, RequestPcs, Outcomes, TypeOK, OpStates
  <2>4. OpInvAt(o)'
    BY <1>29, DoneOpOK, SMTT(30) DEF writeFinalFallsBack, AfterWrite, Goto,
       Return, EndLog, OpInvAt, RowPcs, NoSlotPcs, RequestPcs, HelmPcs,
       TypeOK, StoreTypeOK, OpStates, Logs, At, pc, action, InstanceStatuses
  <2>5. SlotStep(o)
    BY <1>29, DoneOpOK, SMTT(30) DEF writeFinalFallsBack, AfterWrite, Goto,
       Return, EndLog, releaseSlot, OpInvAt, RowPcs, NoSlotPcs, RequestPcs,
       HelmPcs, TypeOK, StoreTypeOK, OpStates, Logs, At, pc, replica, SlotStep
  <2>6. ClusterStep
    BY <1>29 DEF writeFinalFallsBack, clusterVars, processVars, ClusterStep,
       TypeOK, OpStates
  <2> QED
    BY <2>1, <2>2, <2>3, <2>4, <2>5, <2>6 DEF LocalStep
<1>30. CASE writeFinalTooLate(o)
  <2>1. InstStep
    BY <1>30, ClearStep, SameInstStep DEF writeFinalTooLate
  <2>2. LogStep(o)
    BY <1>30, SameLogStep DEF writeFinalTooLate
  <2>3. OpTypeStep(o)
    BY <1>30, ReturnStep DEF writeFinalTooLate, Pcs, HelmPcs, RequestPcs,
       Outcomes, TypeOK, OpStates
  <2>4. OpInvAt(o)'
    BY <1>30, DoneOpOK, SMTT(30) DEF writeFinalTooLate, Return, OpInvAt,
       RowPcs, NoSlotPcs, RequestPcs, HelmPcs, TypeOK, StoreTypeOK, OpStates,
       Logs, At, pc, action, InstanceStatuses
  <2>5. SlotStep(o)
    BY <1>30, DoneOpOK, SMTT(30) DEF writeFinalTooLate, Return, releaseSlot,
       OpInvAt, RowPcs, NoSlotPcs, RequestPcs, HelmPcs, TypeOK, StoreTypeOK,
       OpStates, Logs, At, pc, replica, SlotStep
  <2>6. ClusterStep
    BY <1>30 DEF writeFinalTooLate, clusterVars, processVars, ClusterStep,
       TypeOK, OpStates
  <2> QED
    BY <2>1, <2>2, <2>3, <2>4, <2>5, <2>6 DEF LocalStep
<1>31. CASE DeleteInstance(o)
  <2>1. InstStep
    BY <1>31, ClearStep, DeleteRowStep, SameInstStep DEF DeleteInstance
  <2>2. LogStep(o)
    BY <1>31, SameLogStep DEF DeleteInstance
  <2>3. OpTypeStep(o)
    BY <1>31, ReturnStep DEF DeleteInstance, Pcs, HelmPcs, RequestPcs,
       Outcomes, TypeOK, OpStates
  <2>4. OpInvAt(o)'
    BY <1>31, DoneOpOK, SMTT(30) DEF DeleteInstance, Return, OpInvAt, RowPcs,
       NoSlotPcs, RequestPcs, HelmPcs, TypeOK, StoreTypeOK, OpStates, Logs,
       At, pc, action, InstanceStatuses
  <2>5. SlotStep(o)
    BY <1>31, DoneOpOK, SMTT(30) DEF DeleteInstance, Return, releaseSlot,
       OpInvAt, RowPcs, NoSlotPcs, RequestPcs, HelmPcs, TypeOK, StoreTypeOK,
       OpStates, Logs, At, pc, replica, SlotStep
  <2>6. ClusterStep
    BY <1>31 DEF DeleteInstance, clusterVars, processVars, ClusterStep,
       TypeOK, OpStates
  <2> QED
    BY <2>1, <2>2, <2>3, <2>4, <2>5, <2>6 DEF LocalStep
<1>32. ASSUME NEW ok \in BOOLEAN, InstallReturns(o, ok) PROVE LocalStep(o)
  <2>1. InstStep
    BY <1>32, SameInstStep DEF InstallReturns, storeVars
  <2>2. LogStep(o)
    BY <1>32, SameLogStep DEF InstallReturns, storeVars
  <2>3. OpTypeStep(o) /\ ClusterStep
    <3> DEFINE c == First(op[o].todo)
               f == IF ok THEN op[o].failed ELSE op[o].failed \cup {c}
               t == [op[o] EXCEPT !.pc = "install", !.todo = @ \ {c}, !.failed = f]
    <3>1. /\ c \in op[o].todo /\ op[o].todo \in SUBSET Charts
          /\ op[o].failed \in SUBSET Charts
      BY <1>32, FirstIn DEF InstallReturns, OpInvAt, At, TypeOK, OpStates
    <3> HIDE DEF c
    <3>2. op' = [op EXCEPT ![o] = t]
      BY <1>32, Zenon DEF InstallReturns, c
    <3>3. (op[o].todo \ {c}) \in SUBSET Charts /\ f \in SUBSET Charts
      BY <3>1, Zenon
    <3>4. "install" \in Pcs
      BY DEF Pcs, HelmPcs
    <3>5. t \in OpStates
      <4> HIDE DEF f
      <4> QED
        BY <3>3, <3>4, Zenon DEF OpStates, TypeOK
    <3>6. OpTypeStep(o)
      BY <3>2, <3>5, Zenon DEF OpTypeStep, TypeOK
    <3>7. HelmInstall(c, ok)
      BY <1>32 DEF InstallReturns, c
    <3>8. ClusterStep
      BY <1>32, <3>1, <3>7 DEF InstallReturns, ClusterStep, TypeOK, HelmInstall
    <3> QED
      BY <3>6, <3>8
  <2>4. OpInvAt(o)'
    BY <1>32, SMTT(30) DEF InstallReturns, storeVars, OpInvAt, RowPcs,
       NoSlotPcs, RequestPcs, HelmPcs, TypeOK, StoreTypeOK, OpStates, Logs,
       At, pc, action, InstanceStatuses
  <2>5. SlotStep(o)
    BY <1>32, SMTT(30) DEF InstallReturns, storeVars, OpInvAt, RowPcs,
       NoSlotPcs, RequestPcs, HelmPcs, TypeOK, StoreTypeOK, OpStates, Logs,
       At, pc, replica, SlotStep
  <2> QED
    BY <2>1, <2>2, <2>3, <2>4, <2>5 DEF LocalStep
<1>33. ASSUME NEW ok \in BOOLEAN, RollbackReturns(o, ok) PROVE LocalStep(o)
  <2>1. InstStep
    BY <1>33, SameInstStep DEF RollbackReturns, storeVars
  <2>2. LogStep(o)
    BY <1>33, SameLogStep DEF RollbackReturns, storeVars
  <2>3. OpTypeStep(o) /\ ClusterStep
    <3> DEFINE c == First(op[o].todo)
               rest == IF ok THEN op[o].todo \ {c} ELSE {}
               out == IF ok THEN op[o].outcome ELSE "error"
               t == [op[o] EXCEPT !.pc = "rollback", !.todo = rest, !.outcome = out]
    <3>1. c \in op[o].todo /\ op[o].todo \in SUBSET Charts
      BY <1>33, FirstIn DEF RollbackReturns, OpInvAt, At, TypeOK, OpStates
    <3> HIDE DEF c
    <3>2. op' = [op EXCEPT ![o] = t]
      BY <1>33, Zenon DEF RollbackReturns, c
    <3>3. rest \in SUBSET Charts /\ out \in Outcomes
      BY <3>1, Zenon DEF TypeOK, OpStates, Outcomes
    <3>4. "rollback" \in Pcs
      BY DEF Pcs, HelmPcs
    <3>5. t \in OpStates
      <4> HIDE DEF rest, out
      <4> QED
        BY <3>3, <3>4, Zenon DEF OpStates, TypeOK
    <3>6. OpTypeStep(o)
      BY <3>2, <3>5, Zenon DEF OpTypeStep, TypeOK
    <3>7. HelmInstall(c, ok) \/ UNCHANGED clusterVars
      BY <1>33 DEF RollbackReturns, c
    <3>8. ClusterStep
      BY <1>33, <3>1, <3>7 DEF RollbackReturns, ClusterStep, TypeOK, HelmInstall,
         clusterVars
    <3> QED
      BY <3>6, <3>8
  <2>4. OpInvAt(o)'
    BY <1>33, SMTT(30) DEF RollbackReturns, storeVars, OpInvAt, RowPcs,
       NoSlotPcs, RequestPcs, HelmPcs, TypeOK, StoreTypeOK, OpStates, Logs,
       At, pc, action, InstanceStatuses
  <2>5. SlotStep(o)
    BY <1>33, SMTT(30) DEF RollbackReturns, storeVars, OpInvAt, RowPcs,
       NoSlotPcs, RequestPcs, HelmPcs, TypeOK, StoreTypeOK, OpStates, Logs,
       At, pc, replica, SlotStep
  <2> QED
    BY <2>1, <2>2, <2>3, <2>4, <2>5 DEF LocalStep
<1>34. ASSUME NEW ok \in BOOLEAN, Uninstall(o, ok) PROVE LocalStep(o)
  <2>1. InstStep
    BY <1>34, SameInstStep DEF Uninstall, storeVars
  <2>2. LogStep(o)
    BY <1>34, SameLogStep DEF Uninstall, storeVars
  <2>3. OpTypeStep(o)
    <3> DEFINE c == Last(op[o].todo)
               t == [op[o] EXCEPT !.todo = @ \ {c}]
    <3>1. (op[o].todo \ {c}) \in SUBSET Charts
      BY DEF TypeOK, OpStates
    <3>2. t \in OpStates
      BY <3>1, Zenon DEF OpStates, TypeOK
    <3>3. Finalize(o, "error") \/ op' = [op EXCEPT ![o] = t]
      BY <1>34, Zenon DEF Uninstall
    <3>4. op' = [op EXCEPT ![o] = t] => OpTypeStep(o)
      BY <3>2, Zenon DEF OpTypeStep, TypeOK
    <3> QED
      BY <3>3, <3>4, FinalizeStep, Zenon DEF Outcomes
  <2>4. OpInvAt(o)'
    <3>1. /\ op'[o].slot = op[o].slot /\ op'[o].row = op[o].row
          /\ op'[o].pc \in {"uninstall", "finalize"} /\ log'[o] = log[o]
      BY <1>34, SMTT(30) DEF Uninstall, Finalize, storeVars, TypeOK, OpStates, At, pc
    <3>2. OpInvAt(o) /\ pc(o) = "uninstall"
      BY <1>34 DEF Uninstall, At
    <3> QED
      BY <3>1, <3>2 DEF OpInvAt, pc, action, RequestPcs, NoSlotPcs, HelmPcs, RowPcs
  <2>5. SlotStep(o)
    BY <1>34, SMTT(30) DEF Uninstall, Finalize, storeVars, OpInvAt, RowPcs,
       NoSlotPcs, RequestPcs, HelmPcs, TypeOK, StoreTypeOK, OpStates, Logs,
       At, pc, replica, SlotStep
  <2>6. ClusterStep
    BY <1>34 DEF Uninstall, processVars, ClusterStep, TypeOK, OpStates
  <2> QED
    BY <2>1, <2>2, <2>3, <2>4, <2>5, <2>6 DEF LocalStep
<1>35. ASSUME NEW ok \in BOOLEAN, DeleteNamespace(o, ok) PROVE LocalStep(o)
  <2>1. InstStep
    BY <1>35, SameInstStep DEF DeleteNamespace, storeVars
  <2>2. LogStep(o)
    BY <1>35, SameLogStep DEF DeleteNamespace, storeVars
  <2>3. OpTypeStep(o)
    BY <1>35, FinalizeStep DEF DeleteNamespace, Pcs, HelmPcs, RequestPcs,
       Outcomes, TypeOK, OpStates
  <2>4. OpInvAt(o)'
    BY <1>35, SMTT(30) DEF DeleteNamespace, Finalize, storeVars, OpInvAt,
       RowPcs, NoSlotPcs, RequestPcs, HelmPcs, TypeOK, StoreTypeOK, OpStates,
       Logs, At, pc, action, InstanceStatuses
  <2>5. SlotStep(o)
    BY <1>35, SMTT(30) DEF DeleteNamespace, Finalize, storeVars, OpInvAt,
       RowPcs, NoSlotPcs, RequestPcs, HelmPcs, TypeOK, StoreTypeOK, OpStates,
       Logs, At, pc, replica, SlotStep
  <2>6. ClusterStep
    BY <1>35 DEF DeleteNamespace, processVars, ClusterStep, TypeOK, OpStates
  <2> QED
    BY <2>1, <2>2, <2>3, <2>4, <2>5, <2>6 DEF LocalStep
<1> QED
  BY <1>1, <1>2, <1>3, <1>4, <1>5, <1>6, <1>7, <1>8, <1>9, <1>10, <1>11,
     <1>12, <1>13, <1>14, <1>15, <1>16, <1>17, <1>18, <1>19, <1>20, <1>21,
     <1>22, <1>23, <1>24, <1>25, <1>26, <1>27, <1>28, <1>29, <1>30, <1>31,
     <1>32, <1>33, <1>34, <1>35 DEF WorkStep

-----------------------------------------------------------------------------
(* The semaphore                                                            *)

LEMMA HoldersFinite ==
  ASSUME NEW r \in Replicas
  PROVE  IsFiniteSet(Holders(r)) /\ Cardinality(Holders(r)) \in Nat
<1>1. IsFiniteSet(Ops)
  BY MaxOpsAssumption, FS_Interval DEF Ops
<1>2. Holders(r) \subseteq Ops
  BY DEF Holders
<1> QED
  BY <1>1, <1>2, FS_Subset, FS_CardinalityType

LEMMA LocalSlots ==
  ASSUME TypeOK, SlotInv, NEW o \in Ops, LocalStep(o)
  PROVE  slots' \in [Replicas -> 0..MaxConcurrent] /\ SlotInv'
<1>1. PICK q \in Replicas : q = replica(o)
  BY DEF TypeOK, StoreTypeOK, Logs, replica
<1>2. \A p \in Ops \ {o} : op'[p] = op[p] /\ log'[p] = log[p]
  BY DEF LocalStep, OpTypeStep, LogStep, TypeOK, StoreTypeOK
<1>3. CASE /\ slots' = slots /\ op'[o].slot = op[o].slot
           /\ log'[o].replica = log[o].replica \/ ~op[o].slot
  <2>1. \A r \in Replicas : Holders(r)' = Holders(r)
    BY <1>2, <1>3 DEF Holders, replica
  <2> QED
    BY <1>3, <2>1 DEF SlotInv, TypeOK
<1>4. CASE /\ ~op[o].slot /\ op'[o].slot /\ log'[o].replica = log[o].replica
           /\ slots[replica(o)] < MaxConcurrent
           /\ slots' = [slots EXCEPT ![replica(o)] = @ + 1]
  <2>1. Holders(q)' = Holders(q) \cup {o} /\ o \notin Holders(q)
    BY <1>1, <1>2, <1>4 DEF Holders, replica
  <2>2. \A r \in Replicas \ {q} : Holders(r)' = Holders(r)
    BY <1>1, <1>2, <1>4 DEF Holders, replica
  <2>3. Cardinality(Holders(q)') = Cardinality(Holders(q)) + 1
    BY <1>1, <2>1, HoldersFinite, FS_AddElement
  <2>4. slots[q] \in 0..MaxConcurrent /\ slots'[q] = slots[q] + 1
    BY <1>1, <1>4 DEF TypeOK
  <2>5. \A r \in Replicas \ {q} : slots'[r] = slots[r]
    BY <1>1, <1>4 DEF TypeOK
  <2>6. slots' \in [Replicas -> 0..MaxConcurrent]
    BY <1>1, <1>4, <2>4, MaxConcurrentAssumption DEF TypeOK
  <2>7. \A r \in Replicas : slots'[r] = Cardinality(Holders(r)')
    <3>1. slots'[q] = Cardinality(Holders(q)')
      BY <1>1, <2>3, <2>4 DEF SlotInv
    <3>2. ASSUME NEW r \in Replicas \ {q} PROVE slots'[r] = Cardinality(Holders(r)')
      BY <2>2, <2>5 DEF SlotInv
    <3> QED
      BY <3>1, <3>2, Zenon
  <2> QED
    BY <2>6, <2>7 DEF SlotInv
<1>5. CASE /\ op[o].slot /\ ~op'[o].slot /\ log'[o].replica = log[o].replica
           /\ slots' = [slots EXCEPT ![replica(o)] = @ - 1]
  <2>1. Holders(q)' = Holders(q) \ {o} /\ o \in Holders(q)
    BY <1>1, <1>2, <1>5 DEF Holders, replica
  <2>2. \A r \in Replicas \ {q} : Holders(r)' = Holders(r)
    BY <1>1, <1>2, <1>5 DEF Holders, replica
  <2>3. Cardinality(Holders(q)') = Cardinality(Holders(q)) - 1
    BY <1>1, <2>1, HoldersFinite, FS_RemoveElement
  <2>4. Cardinality(Holders(q)) \in Nat \ {0}
    BY <1>1, <2>1, HoldersFinite, FS_EmptySet
  <2>5. slots[q] \in 0..MaxConcurrent /\ slots'[q] = slots[q] - 1
    BY <1>1, <1>5 DEF TypeOK
  <2>6. slots[q] = Cardinality(Holders(q))
    BY <1>1 DEF SlotInv
  <2>7. \A r \in Replicas \ {q} : slots'[r] = slots[r]
    BY <1>1, <1>5 DEF TypeOK
  <2>8. slots' \in [Replicas -> 0..MaxConcurrent]
    BY <1>1, <1>5, <2>4, <2>5, <2>6, MaxConcurrentAssumption DEF TypeOK
  <2>9. \A r \in Replicas : slots'[r] = Cardinality(Holders(r)')
    <3>1. slots'[q] = Cardinality(Holders(q)')
      BY <1>1, <2>3, <2>5, <2>6
    <3>2. ASSUME NEW r \in Replicas \ {q} PROVE slots'[r] = Cardinality(Holders(r)')
      BY <2>2, <2>7 DEF SlotInv
    <3> QED
      BY <3>1, <3>2, Zenon
  <2> QED
    BY <2>8, <2>9 DEF SlotInv
<1> QED
  BY <1>3, <1>4, <1>5 DEF LocalStep, SlotStep

LEMMA LocalIInv ==
  ASSUME IInv, NEW o \in Ops, LocalStep(o), UNCHANGED recovery
  PROVE  IInv'
<1>1. inst' \in Instances /\ changed' \in BOOLEAN
  BY DEF LocalStep, InstStep
<1>2. log' \in [Ops -> Logs]
  BY DEF LocalStep, LogStep, IInv, OpsTypeOK, TypeOK, StoreTypeOK
<1>3. op' \in [Ops -> OpStates]
  BY DEF LocalStep, OpTypeStep, IInv, OpsTypeOK, TypeOK
<1>4. slots' \in [Replicas -> 0..MaxConcurrent] /\ SlotInv'
  BY LocalSlots DEF IInv, OpsTypeOK
<1>5. OpsTypeOK'
  BY <1>1, <1>2, <1>3, <1>4 DEF LocalStep, ClusterStep, processVars, IInv,
     OpsTypeOK, TypeOK, StoreTypeOK
<1>6. ASSUME NEW p \in Ops PROVE OpInvAt(p)'
  <2>1. CASE p = o
    BY <2>1 DEF LocalStep
  <2>2. CASE p # o
    <3>1. op'[p] = op[p] /\ log'[p] = log[p]
      BY <2>2 DEF LocalStep, OpTypeStep, LogStep, IInv, OpsTypeOK, TypeOK, StoreTypeOK
    <3>2. OpInvAt(p)
      BY DEF IInv
    <3> QED
      BY <3>1, <3>2 DEF OpInvAt, pc, action
  <2> QED
    BY <2>1, <2>2
<1> QED
  BY <1>4, <1>5, <1>6 DEF IInv

-----------------------------------------------------------------------------
(* The other steps                                                          *)

LEMMA CrashIInv ==
  ASSUME IInv, NEW r \in Replicas, Crash(r)
  PROVE  IInv'
<1>1. TypeOK /\ recovery \in {NoRead} \cup Reads
  BY DEF IInv, OpsTypeOK
<1>2. op' \in [Ops -> OpStates]
  BY <1>1, DoneOpOK DEF Crash, TypeOK
<1>3. slots' \in [Replicas -> 0..MaxConcurrent] /\ slots'[r] = 0
      /\ \A q \in Replicas \ {r} : slots'[q] = slots[q]
  BY <1>1, MaxConcurrentAssumption DEF Crash, TypeOK
<1>4. proc' \in [Replicas -> {"up", "draining", "down"}]
  BY <1>1 DEF Crash, TypeOK
<1>5. releases' \subseteq Charts
  <2>1. ASSUME NEW o \in Ops, pc(o) \in {"installing", "rolling"}
        PROVE  First(op[o].todo) \in Charts
    <3>1. op[o].todo \in SUBSET Charts /\ op[o].todo # {}
      BY <1>1, <2>1 DEF TypeOK, OpStates, IInv, OpInvAt
    <3> QED
      BY <3>1, FirstIn
  <2> DEFINE inFlight == {First(op[o].todo) : o \in
                 {o \in OfReplica(r) : pc(o) \in {"installing", "rolling"}}}
  <2>2. inFlight \subseteq Charts
    BY <2>1 DEF OfReplica
  <2>3. PICK cs \in SUBSET (IF ns = "terminating" THEN {} ELSE inFlight) :
               releases' = releases \cup cs
    BY DEF Crash
  <2> HIDE DEF inFlight
  <2> QED
    BY <1>1, <2>2, <2>3 DEF TypeOK
<1>6. ns' \in {"absent", "active", "terminating"}
  BY <1>1 DEF Crash, TypeOK
<1>7. OpsTypeOK'
  BY <1>1, <1>2, <1>3, <1>4, <1>5, <1>6 DEF Crash, OpsTypeOK, TypeOK,
     StoreTypeOK, storeVars
<1>8. ASSUME NEW o \in Ops PROVE OpInvAt(o)'
  <2>1. OpInvAt(o) /\ log'[o] = log[o]
    BY DEF IInv, Crash, storeVars
  <2>2. CASE o \in OfReplica(r)
    <3>1. op'[o] = DoneOp
      BY <2>2 DEF Crash
    <3> QED
      BY <3>1, DoneOpOK DEF OpInvAt, pc, RequestPcs, HelmPcs, RowPcs
  <2>3. CASE o \notin OfReplica(r)
    <3>1. op'[o] = op[o]
      BY <2>3 DEF Crash
    <3> QED
      BY <2>1, <3>1 DEF OpInvAt, pc, action
  <2> QED
    BY <2>2, <2>3
<1>9. SlotInv'
  <2>1. \A o \in Ops : replica(o)' = replica(o)
    BY DEF Crash, storeVars, replica
  <2>2. Holders(r)' = {}
    <3> SUFFICES ASSUME NEW o \in Ops, replica(o) = r, op'[o].slot PROVE FALSE
      BY <2>1 DEF Holders
    <3>1. CASE o \in OfReplica(r)
      BY <3>1, DoneOpOK DEF Crash
    <3>2. CASE o \notin OfReplica(r)
      BY <3>2 DEF Crash, OfReplica, IInv, OpInvAt, NoSlotPcs
    <3> QED
      BY <3>1, <3>2
  <2>3. \A q \in Replicas \ {r} : Holders(q)' = Holders(q)
    BY <2>1 DEF Holders, Crash, OfReplica
  <2> QED
    BY <1>3, <2>2, <2>3, FS_EmptySet DEF SlotInv, IInv
<1> QED
  BY <1>7, <1>8, <1>9 DEF IInv

\* The steps of the clock, the cluster, the heartbeats and the recovery leave
\* the goroutines alone; of a log they change the result or the deadline.
Aside ==
  /\ OpsTypeOK' /\ UNCHANGED managerVars
  /\ \A o \in Ops : /\ log'[o].replica = log[o].replica
                    /\ log'[o].action = log[o].action
                    /\ log'[o].startedAt = log[o].startedAt
                    /\ Running(o) \/ log'[o].status = log[o].status

LEMMA AsideIInv ==
  ASSUME IInv, Aside
  PROVE  IInv'
<1>1. ASSUME NEW o \in Ops PROVE OpInvAt(o)'
  <2>1. OpInvAt(o) /\ op' = op
    BY DEF IInv, Aside, managerVars
  <2>2. pc(o) \in {"idle"} \cup RequestPcs => log'[o].status = "none"
    BY <2>1 DEF OpInvAt, Aside, Running
  <2> QED
    BY <2>1, <2>2 DEF OpInvAt, Aside, pc, action
<1>2. SlotInv'
  <2>1. \A r \in Replicas : Holders(r)' = Holders(r)
    BY DEF Aside, managerVars, Holders, replica
  <2> QED
    BY <2>1 DEF SlotInv, IInv, Aside, managerVars
<1> QED
  BY <1>1, <1>2 DEF IInv, Aside

LEMMA AsideSteps ==
  ASSUME IInv,
         \/ \E o \in Ops : DeadlinePasses(o)
         \/ \E r \in Replicas : \/ Shutdown(r) \/ ShutdownDone(r)
                                \/ BeatStale(r) \/ Beat(r)
         \/ \E o \in Ops, r \in Replicas : InterruptRead(o, r)
         \/ InterruptOperation \/ InterruptSkipped
         \/ NamespaceGone \/ MarkNamespaceError \/ HookUntilPasses
  PROVE  Aside
<1>1. TypeOK /\ recovery \in {NoRead} \cup Reads
  BY DEF IInv, OpsTypeOK
<1> USE <1>1
<1>2. ASSUME NEW o \in Ops, DeadlinePasses(o) PROVE Aside
  <2> DEFINE t == [log[o] EXCEPT !.expired = TRUE]
  <2>1. /\ t \in Logs /\ t.status = log[o].status /\ t.replica = log[o].replica
        /\ t.action = log[o].action /\ t.startedAt = log[o].startedAt
    BY Zenon DEF TypeOK, StoreTypeOK, Logs
  <2>2. log' = [log EXCEPT ![o] = t]
    BY <1>2, Zenon DEF DeadlinePasses
  <2>3. log' \in [Ops -> Logs]
    BY <2>1, <2>2, Zenon DEF TypeOK, StoreTypeOK
  <2>4. OpsTypeOK' /\ UNCHANGED managerVars
    BY <1>2, <2>3 DEF DeadlinePasses, OpsTypeOK, TypeOK, StoreTypeOK,
       managerVars, clusterVars, processVars
  <2> QED
    BY <2>1, <2>2, <2>4, Zenon DEF Aside, TypeOK, StoreTypeOK
<1>3. ASSUME UNCHANGED <<log, managerVars>>, OpsTypeOK' PROVE Aside
  BY <1>3 DEF Aside
<1>4. ASSUME NEW r \in Replicas, Shutdown(r) PROVE Aside
  BY <1>3, <1>4 DEF Shutdown, OpsTypeOK, TypeOK, StoreTypeOK, storeVars,
     managerVars, clusterVars
<1>5. ASSUME NEW r \in Replicas, ShutdownDone(r) \/ BeatStale(r) \/ Beat(r)
      PROVE  Aside
  <2>1. proc' \in [Replicas -> {"up", "draining", "down"}]
    BY <1>5 DEF ShutdownDone, BeatStale, Beat, TypeOK
  <2>2. beat' \in [Replicas -> BOOLEAN]
    BY <1>5, Zenon DEF ShutdownDone, BeatStale, Beat, TypeOK
  <2>3. UNCHANGED <<storeVars, managerVars, clusterVars, recovery>>
    BY <1>5 DEF ShutdownDone, BeatStale, Beat
  <2> QED
    BY <1>3, <2>1, <2>2, <2>3 DEF OpsTypeOK, TypeOK, StoreTypeOK, storeVars,
       managerVars, clusterVars
<1>6. ASSUME NEW o \in Ops, NEW r \in Replicas, InterruptRead(o, r) PROVE Aside
  <2>1. recovery' \in Reads
    BY <1>6, Zenon DEF InterruptRead, Reads
  <2>2. changed' \in BOOLEAN
    BY <1>6, Zenon DEF InterruptRead
  <2>3. UNCHANGED <<inst, log, managerVars, clusterVars, processVars>>
    BY <1>6 DEF InterruptRead
  <2> QED
    BY <1>3, <2>1, <2>2, <2>3 DEF OpsTypeOK, TypeOK, StoreTypeOK,
       managerVars, clusterVars, processVars
<1>7. CASE InterruptOperation
  <2> DEFINE p == recovery.log
             t == [log[p] EXCEPT !.status = "error"]
  <2>1. p \in Ops
    BY <1>7 DEF InterruptOperation, Reads
  <2>2. inst' \in Instances /\ changed' \in BOOLEAN
    BY <1>7, Zenon DEF InterruptOperation, TypeOK, StoreTypeOK, Instances,
       InstanceStatuses
  <2> HIDE DEF p
  <2>3. /\ t \in Logs /\ t.replica = log[p].replica
        /\ t.action = log[p].action /\ t.startedAt = log[p].startedAt
    BY <2>1, Zenon DEF TypeOK, StoreTypeOK, Logs, LogStatuses
  <2>4. log' = [log EXCEPT ![p] = t] /\ Running(p)
    BY <1>7, Zenon DEF InterruptOperation, EndLog, p
  <2>5. log' \in [Ops -> Logs]
    BY <2>1, <2>3, <2>4, Zenon DEF TypeOK, StoreTypeOK
  <2>6. OpsTypeOK' /\ UNCHANGED managerVars
    BY <1>7, <2>2, <2>5 DEF InterruptOperation, OpsTypeOK, TypeOK,
       StoreTypeOK, managerVars, clusterVars, processVars
  <2> QED
    BY <2>1, <2>3, <2>4, <2>6, Zenon DEF Aside, TypeOK, StoreTypeOK
<1>8. CASE InterruptSkipped
  <2>1. changed' \in BOOLEAN
    BY <1>8, Zenon DEF InterruptSkipped
  <2> QED
    BY <1>3, <1>8, <2>1 DEF InterruptSkipped, OpsTypeOK, TypeOK, StoreTypeOK,
       managerVars, clusterVars, processVars
<1>9. CASE NamespaceGone
  BY <1>3, <1>9 DEF NamespaceGone, OpsTypeOK, TypeOK, StoreTypeOK, storeVars,
     managerVars, processVars
<1>10. CASE MarkNamespaceError
  <2>1. InstStep
    BY <1>10, SetStatusStep, Zenon DEF MarkNamespaceError, InstanceStatuses
  <2> QED
    BY <1>3, <1>10, <2>1 DEF MarkNamespaceError, InstStep, OpsTypeOK, TypeOK,
       StoreTypeOK, managerVars, clusterVars, processVars
<1>11. CASE HookUntilPasses
  <2>1. inst' \in Instances
    BY <1>11, Zenon DEF HookUntilPasses, TypeOK, StoreTypeOK, Instances
  <2> QED
    BY <1>3, <1>11, <2>1 DEF HookUntilPasses, OpsTypeOK, TypeOK, StoreTypeOK,
       managerVars, clusterVars, processVars
<1> QED
  BY <1>2, <1>4, <1>5, <1>6, <1>7, <1>8, <1>9, <1>10, <1>11

-----------------------------------------------------------------------------
(* The invariant is inductive                                               *)

LEMMA InitIInv == OpsInit => IInv
<1> SUFFICES ASSUME OpsInit PROVE IInv
  OBVIOUS
<1>1. PICK s \in {"draft", "running", "stopped"} :
        /\ inst = [exists |-> TRUE, status |-> s, hook |-> FALSE, mark |-> FALSE]
        /\ releases = IF s = "running" THEN Charts ELSE {}
        /\ ns = IF s = "draft" THEN "absent" ELSE "active"
  BY DEF OpsInit, Init
<1>2. PICK r \in Replicas :
        log = [o \in Ops |-> [status |-> "none", action |-> "deploy",
                              replica |-> r, startedAt |-> 0, expired |-> FALSE]]
  BY DEF OpsInit, Init
<1>3. inst \in Instances /\ changed \in BOOLEAN
  BY <1>1, Zenon DEF Instances, InstanceStatuses, OpsInit, Init
<1>4. log \in [Ops -> Logs]
  <2>1. 0 \in 0..MaxOps
    BY MaxOpsAssumption
  <2> QED
    BY <1>2, <2>1, Zenon DEF Logs, LogStatuses, Actions
<1>5. op \in [Ops -> OpStates] /\ \A o \in Ops : op[o] = IdleOp
  BY IdleOpOK DEF OpsInit, Init
<1>6. slots \in [Replicas -> 0..MaxConcurrent]
  BY MaxConcurrentAssumption DEF OpsInit, Init
<1>7. beat \in [Replicas -> BOOLEAN]
  BY Zenon DEF OpsInit, Init
<1>8. OpsTypeOK
  BY <1>1, <1>3, <1>4, <1>5, <1>6, <1>7 DEF OpsTypeOK, TypeOK, StoreTypeOK,
     OpsInit, Init
<1>9. ASSUME NEW o \in Ops PROVE OpInvAt(o)
  BY <1>2, <1>5, IdleOpOK DEF OpInvAt, pc, RequestPcs, HelmPcs, RowPcs
<1>10. SlotInv
  <2>1. \A q \in Replicas : Holders(q) = {}
    BY <1>5, IdleOpOK DEF Holders
  <2> QED
    BY <2>1, FS_EmptySet DEF SlotInv, OpsInit, Init
<1> QED
  BY <1>8, <1>9, <1>10 DEF IInv

\* Every step is a step of one operation, a crash, a step aside or a stutter.
LEMMA NextCases ==
  ASSUME IInv, [Next]_allVars
  PROVE  \/ \E o \in Ops : LocalStep(o) /\ UNCHANGED recovery
         \/ \E r \in Replicas : Crash(r)
         \/ Aside
<1>1. TypeOK /\ \A o \in Ops : OpInvAt(o)
  BY DEF IInv, OpsTypeOK
<1>2. CASE UNCHANGED allVars
  BY <1>2 DEF Aside, allVars, vars, managerVars, IInv, OpsTypeOK, TypeOK, StoreTypeOK
<1>3. CASE \E o \in Ops : OperationStep(o)
  BY <1>1, <1>3, RequestSteps, WorkSteps DEF OperationStep
<1> QED
  BY <1>2, <1>3, AsideSteps DEF Next

LEMMA NextIInv == IInv /\ [Next]_allVars => IInv'
<1> SUFFICES ASSUME IInv, [Next]_allVars PROVE IInv'
  OBVIOUS
<1> QED
  BY NextCases, LocalIInv, CrashIInv, AsideIInv

-----------------------------------------------------------------------------
(* The theorems                                                             *)

LEMMA SpecIInv == Spec => []IInv
<1>1. OpsInit => IInv
  BY InitIInv
<1>2. IInv /\ [Next]_allVars => IInv'
  BY NextIInv
<1> QED
  BY <1>1, <1>2, PTL DEF Spec

\* Every state of the operations is well typed; no semaphore exceeds its
\* capacity or falls below zero.
THEOREM SpecOpsTypeOK == Spec => []OpsTypeOK
<1>1. IInv => OpsTypeOK
  BY DEF IInv
<1> QED
  BY <1>1, SpecIInv, PTL

\* releaseSlot and its once guard: a process has exactly one token for every
\* operation that holds a slot, and no Helm work runs without one, whatever
\* fails, crashes or shuts down.
THEOREM SpecSlotsMatchHolders == Spec => []SlotsMatchHolders
<1>1. ASSUME IInv PROVE SlotsMatchHolders
  <2>1. ASSUME NEW r \in Replicas
        PROVE  {o \in OfReplica(r) : op[o].slot} = Holders(r)
    BY <1>1 DEF OfReplica, Holders, IInv, OpInvAt, NoSlotPcs
  <2>2. ASSUME NEW r \in Replicas, NEW o \in OfReplica(r), pc(o) \in HelmPcs
        PROVE  op[o].slot
    BY <1>1, <2>2 DEF OfReplica, IInv, OpInvAt
  <2> QED
    BY <1>1, <2>1, <2>2 DEF SlotsMatchHolders, SlotInv, IInv
<1> QED
  BY <1>1, SpecIInv, PTL

\* A log that ended keeps its result: the goroutine, the recovery and every
\* other writer look at the running status in the same statement.
THEOREM SpecClosedLogStays == Spec => ClosedLogStays
<1> DEFINE Stays == \A o \in Ops : Started(o) /\ ~Running(o)
                                     => log'[o].status = log[o].status
<1>1. IInv /\ [Next]_allVars => [Stays]_allVars
  <2> SUFFICES ASSUME IInv, [Next]_allVars PROVE Stays
    OBVIOUS
  <2>1. CASE \E p \in Ops : LocalStep(p)
    <3>1. PICK p \in Ops : LocalStep(p)
      BY <2>1
    <3>2. \A o \in Ops \ {p} : log'[o] = log[o]
      BY <3>1 DEF LocalStep, LogStep, IInv, OpsTypeOK, TypeOK, StoreTypeOK
    <3> QED
      BY <3>1, <3>2 DEF LocalStep, LogStep
  <2>2. CASE \E r \in Replicas : Crash(r)
    BY <2>2 DEF Crash, storeVars
  <2>3. CASE Aside
    BY <2>3 DEF Aside
  <2> QED
    BY <2>1, <2>2, <2>3, NextCases
<1> QED
  BY <1>1, SpecIInv, PTL DEF Spec, ClosedLogStays
=============================================================================
