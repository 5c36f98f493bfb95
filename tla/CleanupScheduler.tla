-------------------------- MODULE CleanupScheduler --------------------------
(* The cleanup scheduler (internal/scheduler/scheduler.go) over leadership   *)
(* terms, with the policy handlers that change the rows it reads             *)
(* (api/handlers/cleanup_policies.go).  One replica at a time has the term:  *)
(* a new one starts when the workers of the old one returned or its process  *)
(* is gone (WorkerGroup, LeaderElection).  robfig/cron is modelled as the    *)
(* scheduler uses it.  What a run does to the instances is in Deployer; here *)
(* a run is a number of actions, between which the term may end.             *)
EXTENDS Integers, FiniteSets, FiniteSetsExt

CONSTANTS
    SchedReplicas,  \* replicas that may lead
    Policies,       \* cleanup policies
    Schedules,      \* cron expressions
    TimesOf,        \* their scheduled times: [Schedules -> SUBSET times]
    CatchUpWindow,  \* catchUpWindow
    MaxTime,        \* bound: the last moment
    MaxMatches,     \* bound: instances that a run acts on
    MaxEdits,       \* bound: policy edits
    SchedFaults     \* subset of {"crash", "write"}: killed leaders, failed writes

ASSUME SchedulerAssumption ==
    /\ TimesOf \in [Schedules -> SUBSET (1 .. MaxTime)]
    /\ CatchUpWindow \in Nat /\ MaxMatches \in Nat

Never == MaxTime + 1
NoSchedule == "none"
Unset == -1                 \* last_run_at is NULL

VARIABLES
    clock,
    policyRow,      \* cleanup_policies
    policyEdit,     \* an update handler between its read and its write
    editsDone,      \* bound counter
    sched,          \* the Scheduler of every replica
    jobs,           \* the runs in progress
    ran,            \* ghost: completed runs of a scheduled time, counted to 2
    unrecorded,     \* ghost: completed runs whose last_run_at was not kept
    skipped         \* ghost: scheduled times whose job ended without a run

cleanupVars == <<clock, policyRow, policyEdit, editsDone, sched, jobs, ran, unrecorded, skipped>>
policyVars == <<policyRow, policyEdit, editsDone>>

Idle == [phase |-> "off", startedAt |-> 0, cronFrom |-> 0, gen |-> 0,
         loaded |-> [p \in Policies |-> NoSchedule],
         next |-> [p \in Policies |-> Never],
         from |-> [p \in Policies |-> 0]]

CleanupTypeOK ==
    /\ clock \in 0 .. MaxTime
    /\ policyRow \in [Policies -> [exists : BOOLEAN, enabled : BOOLEAN, schedule : Schedules,
                                   lastRun : Unset .. MaxTime]]
    /\ \A r \in SchedReplicas :
        /\ sched[r].phase \in {"off", "starting", "active", "stopping"}
        /\ sched[r].loaded \in [Policies -> Schedules \cup {NoSchedule}]
        /\ sched[r].next \in [Policies -> 0 .. Never]
    /\ \A j \in jobs : j.at \in {"fired", "runs", "record"} /\ j.due \in 1 .. MaxTime
    /\ ran \in [Policies -> [1 .. MaxTime -> 0 .. 2]]

CleanupInit ==
    /\ clock = 0
    /\ policyRow \in [Policies -> {[exists |-> TRUE, enabled |-> TRUE, schedule |-> s,
                                    lastRun |-> Unset] : s \in Schedules}]
    /\ policyEdit = {} /\ editsDone = 0
    /\ sched = [r \in SchedReplicas |-> Idle]
    /\ jobs = {}
    /\ ran = [p \in Policies |-> [t \in 1 .. MaxTime |-> 0]]
    /\ unrecorded = {} /\ skipped = {}

----------------------------------------------------------------------------
(* Schedules.                                                                *)

\* cron Schedule.Next: the first scheduled time after t.
NextTime(s, t) ==
    LET later == IF s = NoSchedule THEN {} ELSE {u \in TimesOf[s] : u > t}
    IN IF later = {} THEN Never ELSE Min(later)

\* The scheduled times in (now - catchUpWindow, now).
CatchUpTimes(s, now) == {u \in TimesOf[s] : now - CatchUpWindow < u /\ u < now}

\* previousScheduledTime: the latest of them, 0 when there is none.
previousScheduledTime(s, now) == Max({0} \cup CatchUpTimes(s, now))

\* last_run_at, or created_at (time 0) when the policy never ran.
LastRunOrCreated(row) == IF row.lastRun = Unset THEN 0 ELSE row.lastRun

\* catchUpLocked: the last scheduled time is after the last run.
Missed(row, now) == previousScheduledTime(row.schedule, now) > LastRunOrCreated(row)

ListEnabled == {p \in Policies : policyRow[p].exists /\ policyRow[p].enabled}

----------------------------------------------------------------------------
(* Leadership terms.                                                         *)

Job(r, p, due) == [replica |-> r, policy |-> p, gen |-> sched[r].gen, due |-> due,
                   at |-> "fired", left |-> 0]

\* Run, activate: load the policies and read the time (s.mu held).
Activate(r) ==
    /\ \A q \in SchedReplicas : sched[q].phase = "off"
    /\ sched' = [sched EXCEPT ![r] =
        [Idle EXCEPT !.phase = "starting", !.startedAt = clock,
            !.loaded = [p \in Policies |->
                IF p \in ListEnabled THEN policyRow[p].schedule ELSE NoSchedule],
            !.from = [p \in Policies |-> Max({clock - CatchUpWindow, LastRunOrCreated(policyRow[p])})]]]
    /\ jobs' = jobs \cup {Job(r, p, previousScheduledTime(policyRow[p].schedule, clock)) :
                          p \in {q \in ListEnabled : Missed(policyRow[q], clock)}}
    /\ UNCHANGED <<clock, policyVars, ran, unrecorded, skipped>>

\* cron.Start: the cron goroutine reads its own time; entries run after it.
CronStart(r) ==
    /\ sched[r].phase = "starting"
    /\ sched' = [sched EXCEPT ![r].phase = "active", ![r].cronFrom = clock,
                    ![r].next = [p \in Policies |-> NextTime(sched[r].loaded[p], clock)]]
    /\ UNCHANGED <<clock, policyVars, jobs, ran, unrecorded, skipped>>

\* The leadership term ends: deactivate forgets the entries and waits for the jobs.
TermOver(r) ==
    /\ sched[r].phase = "active"
    /\ sched' = [sched EXCEPT ![r] = [Idle EXCEPT !.phase = "stopping"]]
    /\ UNCHANGED <<clock, policyVars, jobs, ran, unrecorded, skipped>>

JobsOf(r) == {j \in jobs : j.replica = r}

deactivate(r) ==
    /\ sched[r].phase = "stopping" /\ JobsOf(r) = {}
    /\ sched' = [sched EXCEPT ![r] = Idle]
    /\ UNCHANGED <<clock, policyVars, jobs, ran, unrecorded, skipped>>

\* The process of the leader is killed.
LeaderKilled(r) ==
    /\ "crash" \in SchedFaults
    /\ sched[r].phase # "off"
    /\ sched' = [sched EXCEPT ![r] = Idle]
    /\ jobs' = jobs \ JobsOf(r)
    /\ unrecorded' = unrecorded \cup {<<j.policy, j.due>> : j \in {k \in JobsOf(r) : k.at = "record"}}
    /\ UNCHANGED <<clock, policyVars, ran, skipped>>

\* sameSchedulesLocked
SameSchedules(r) ==
    \A p \in Policies : sched[r].loaded[p] =
        IF p \in ListEnabled THEN policyRow[p].schedule ELSE NoSchedule

\* Reload, periodic or after a policy handler: all entries are removed and added
\* again.  An entry that was due at this moment starts after it.
Reload(r) ==
    /\ sched[r].phase = "active" /\ ~SameSchedules(r)
    /\ LET loaded == [p \in Policies |->
                IF p \in ListEnabled THEN policyRow[p].schedule ELSE NoSchedule]
       IN /\ sched' = [sched EXCEPT ![r].gen = @ + 1, ![r].loaded = loaded,
                ![r].next = [p \in Policies |-> NextTime(loaded[p], clock)],
                ![r].from = [p \in Policies |->
                    IF loaded[p] = sched[r].loaded[p] THEN @[p] ELSE clock]]
          /\ skipped' = skipped \cup {<<p, clock>> : p \in {q \in Policies : sched[r].next[q] = clock}}
    /\ UNCHANGED <<clock, policyVars, jobs, ran, unrecorded>>

----------------------------------------------------------------------------
(* Runs.                                                                     *)

TermDone(j) == sched[j.replica].phase = "stopping"

\* The cron entry is due.  SkipIfStillRunning knows the jobs of its own entry.
Fire(r, p) ==
    /\ sched[r].phase = "active" /\ sched[r].next[p] <= clock
    /\ LET due == sched[r].next[p]
           busy == \E j \in jobs : j.replica = r /\ j.policy = p /\ j.gen = sched[r].gen
       IN /\ jobs' = IF busy THEN jobs ELSE jobs \cup {Job(r, p, due)}
          /\ skipped' = IF busy THEN skipped \cup {<<p, due>>} ELSE skipped
    /\ sched' = [sched EXCEPT ![r].next[p] = NextTime(sched[r].loaded[p], clock)]
    /\ UNCHANGED <<clock, policyVars, ran, unrecorded>>

Becomes(j, k) == jobs' = (jobs \ {j}) \cup {k}
Ends(j) == jobs' = jobs \ {j}

\* executeScheduledPolicy reads the policy again; a run that the term ended, a policy
\* that is gone, disabled or not readable does not run.
ReadPolicy(j) ==
    /\ j.at = "fired"
    /\ \/ /\ ~TermDone(j) /\ j.policy \in ListEnabled
          /\ \E n \in 0 .. MaxMatches : Becomes(j, [j EXCEPT !.at = "runs", !.left = n])
          /\ UNCHANGED skipped
       \/ TermDone(j) /\ Ends(j) /\ UNCHANGED skipped
       \/ /\ ~TermDone(j) /\ (j.policy \notin ListEnabled \/ "write" \in SchedFaults)
          /\ Ends(j)
          /\ skipped' = skipped \cup {<<j.policy, j.due>>}
    /\ UNCHANGED <<clock, policyVars, sched, ran, unrecorded>>

\* executePolicyWithOptions: the next matching instance, or the end of the term.
ActOnInstance(j) ==
    /\ j.at = "runs" /\ j.left > 0
    /\ IF TermDone(j) THEN Ends(j) ELSE Becomes(j, [j EXCEPT !.left = @ - 1])
    /\ UNCHANGED <<clock, policyVars, sched, ran, unrecorded, skipped>>

\* The run ended; an interrupted one is not recorded.
FinishRun(j) ==
    /\ j.at = "runs" /\ j.left = 0
    /\ IF TermDone(j)
       THEN Ends(j) /\ UNCHANGED ran
       ELSE /\ Becomes(j, [j EXCEPT !.at = "record"])
            /\ ran' = [ran EXCEPT ![j.policy][j.due] = Min({@ + 1, 2})]
    /\ UNCHANGED <<clock, policyVars, sched, unrecorded, skipped>>

\* SetLastRunAt writes this column only; a deleted policy has none.
SetLastRunAt(j) ==
    IF policyRow[j.policy].exists THEN [policyRow EXCEPT ![j.policy].lastRun = clock] ELSE policyRow

\* The detached write of last_run_at, then the summary and the hook.
RecordRun(j) ==
    /\ j.at = "record"
    /\ Ends(j)
    /\ \/ policyRow' = SetLastRunAt(j) /\ UNCHANGED unrecorded
       \/ /\ "write" \in SchedFaults
          /\ unrecorded' = unrecorded \cup {<<j.policy, j.due>>}
          /\ UNCHANGED policyRow
    /\ UNCHANGED <<clock, policyEdit, editsDone, sched, ran, skipped>>

----------------------------------------------------------------------------
(* The policy handlers, on any replica.                                      *)

\* UpdateCleanupPolicy reads the row and merges the request into the copy.
EditRead(p) ==
    /\ editsDone < MaxEdits /\ policyRow[p].exists
    /\ editsDone' = editsDone + 1
    /\ \E s \in Schedules, on \in BOOLEAN :
        policyEdit' = policyEdit \cup {[policy |-> p,
            row |-> [policyRow[p] EXCEPT !.schedule = s, !.enabled = on]]}
    /\ UNCHANGED <<clock, policyRow, sched, jobs, ran, unrecorded, skipped>>

\* Update saves all columns of the copy, last_run_at included.
EditWrite(e) ==
    /\ policyEdit' = policyEdit \ {e}
    /\ policyRow' = [policyRow EXCEPT ![e.policy] = e.row]
    /\ unrecorded' = IF e.row.lastRun = policyRow[e.policy].lastRun THEN unrecorded
                     ELSE unrecorded \cup {<<e.policy, t>> : t \in {u \in 1 .. clock : ran[e.policy][u] > 0}}
    /\ UNCHANGED <<clock, editsDone, sched, jobs, ran, skipped>>

\* DeleteCleanupPolicy
DeletePolicy(p) ==
    /\ editsDone < MaxEdits /\ policyRow[p].exists
    /\ editsDone' = editsDone + 1
    /\ policyRow' = [policyRow EXCEPT ![p].exists = FALSE]
    /\ UNCHANGED <<clock, policyEdit, sched, jobs, ran, unrecorded, skipped>>

\* Time passes; the cron goroutine of an active scheduler is not late.
ClockTick ==
    /\ clock < MaxTime
    /\ \A r \in SchedReplicas : sched[r].phase = "active" =>
        \A p \in Policies : sched[r].next[p] > clock
    /\ clock' = clock + 1
    /\ UNCHANGED <<policyVars, sched, jobs, ran, unrecorded, skipped>>

CleanupNext ==
    \/ \E r \in SchedReplicas :
        \/ Activate(r) \/ CronStart(r) \/ TermOver(r) \/ deactivate(r)
        \/ LeaderKilled(r) \/ Reload(r)
        \/ \E p \in Policies : Fire(r, p)
    \/ \E j \in jobs : ReadPolicy(j) \/ ActOnInstance(j) \/ FinishRun(j) \/ RecordRun(j)
    \/ \E p \in Policies : EditRead(p) \/ DeletePolicy(p)
    \/ \E e \in policyEdit : EditWrite(e)
    \/ ClockTick

CleanupSpec == CleanupInit /\ [][CleanupNext]_cleanupVars

----------------------------------------------------------------------------
(* Properties.                                                               *)

\* A scheduled time is run to its end at most once over all leadership terms, unless
\* the record of the first run got lost: the leader was killed before the write, the
\* write failed, or an edit that had read the row before wrote it back (activate,
\* catchUpLocked, SetLastRunAt).
ScheduledTimeRunsOnce ==
    \A p \in Policies, t \in 1 .. MaxTime : ran[p][t] > 1 => <<p, t>> \in unrecorded

\* A scheduled time that fell into a leader change is not lost: for the active
\* scheduler every scheduled time after the last recorded run, and not older than
\* catchUpWindow at its start, has been run
\* (itself or by a run of a later time), is being run, was skipped for a reason, or
\* fell between the time that activate read and the start of the cron goroutine.
MissedRunsAreCaughtUp ==
    \A r \in SchedReplicas : sched[r].phase = "active" =>
        \A p \in Policies : \A t \in {u \in 1 .. clock - 1 :
                /\ sched[r].loaded[p] # NoSchedule
                /\ u \in TimesOf[sched[r].loaded[p]]
                /\ u > sched[r].from[p]} :
            \/ \E u \in t .. MaxTime : ran[p][u] > 0
            \/ \E j \in jobs : j.policy = p /\ j.due >= t
            \/ \E u \in t .. MaxTime : <<p, u>> \in skipped
            \/ t \in sched[r].startedAt .. sched[r].cronFrom

\* What the comment of catchUpLocked says of a run it starts: "it does not overlap a
\* cron run of the same policy".
RunsDoNotOverlap ==
    \A j, k \in jobs : j # k => j.policy # k.policy \/ j.replica # k.replica
=============================================================================
