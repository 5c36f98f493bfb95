----------------------------- MODULE MCProcesses -----------------------------
(* Instances of the modules whose processes must come to an end: the leader  *)
(* election, start and shutdown, the migrations, the monitors, the live      *)
(* output, the jobs of actions, the dials to a pod and the expiry.  They     *)
(* share no state that one of their properties reads, so one of them steps   *)
(* in a behaviour: part says which.                                          *)
EXTENDS LeaderElection, ProcessLife, Migrations, ClusterMonitors, LiveOutput, ActionJobs, PodDial, Expiry

CONSTANT Parts
VARIABLE part

MCCallerIs == [r |-> "request", q |-> "request", w |-> "worker", s |-> "stream"]

(* Database at the start: empty, old, or old with two replicas that start at *)
(* once; or the last version, to be rolled back.                             *)
MCJudged == 1 .. 67 \ {23, 39, 40}
StartAt(v, R, d, c, f) == [version |-> v, replicas |-> R, rollbacks |-> d, crashes |-> c, failures |-> f]
FirstStart == StartAt(0, {"a"}, 0, 1, 0)
MCMigStarts ==
    {FirstStart, StartAt(18, {"a"}, 0, 1, 0), StartAt(43, {"a", "b"}, 0, 0, 0), StartAt(58, {"a"}, 0, 1, 1),
     StartAt(60, {"a", "b"}, 0, 1, 0), StartAt(67, {}, 67, 0, 0), StartAt(67, {"a"}, 1, 0, 0)}

MCCooldown == [quota |-> 1, secret |-> 3]

(* Logs by bytes: h and t are the two bytes of one character, n ends a line, *)
(* m, e and s are the end marker.                                            *)
MCJobLogs == {<<"x", "n", "h", "t", "n", "m", "e", "s">>, <<"h", "t", "h", "t", "x", "h", "t", "n", "m", "e", "s">>}
MCSubscribers == {{}, {"status"}, {"offset"}, {"status", "bytes"}}

Row(status, ttl, expires) == [live |-> TRUE, status |-> status, ttl |-> ttl, expires |-> expires]
AskFor(kind) == [kind |-> kind, ttl |-> -1, at |-> 0]
AskUpdate(ttl, at) == [kind |-> "update", ttl |-> ttl, at |-> at]
AskUntil(kind, at) == [kind |-> kind, ttl |-> -1, at |-> at]
From(row, first, second) == [row |-> row, asks |-> <<first, second>>]
NoExpiryStart == From(Row("draft", 3, 2), AskUntil("reset", 1), AskFor("policyDelete"))
MCExpiryStarts ==
    {From(Row("running", 2, 3), AskFor("deploy"), AskUntil("minutes", 2)),
     From(Row("running", 2, 2), AskFor("echo"), AskUntil("until", 4)),
     From(Row("partial", 5, 2), AskFor("extend"), AskFor("deploy")),
     From(Row("stopped", 2, 1), AskFor("bulkDeploy"), AskFor("bulkStop")),
     From(Row("stopped", 0, 2), AskFor("policyDelete"), AskFor("bulkDeploy")),
     From(Row("draft", 0, 0), AskFor("policyDelete"), AskUpdate(4, 0)),
     NoExpiryStart,
     From(Row("partial", 2, 3), AskFor("stop"), AskUpdate(-1, 4)),
     From(Row("running", 3, 3), AskUpdate(0, 0), AskFor("bulkDeploy"))}

----------------------------------------------------------------------------
AnyOf(S) == CHOOSE s \in S : TRUE

\* A part that does not step has one initial state.
ProcessesInit ==
    /\ part \in Parts
    /\ Init
    /\ LifeInit
    /\ MigInit /\ (part # "schema" => history.start = FirstStart)
    /\ MonitorsInit
    /\ LiveInit
    /\ JobsInit /\ (part # "jobs" => jobLog = AnyOf(JobLogs) /\ headers = AnyOf(Subscribers))
    /\ DialInit /\ (part # "dial" => setup = [kind |-> AnyOf(DialKinds), proxy |-> TRUE])
    /\ ExpiryInit /\ (part # "expiry" => irow = NoExpiryStart.row /\ \A r \in ExpiryRequests : ereq[r] = NewExpiryRequest(NoExpiryStart.asks[r]))

ProcessesNext ==
    \/ /\ part = "election" /\ Next
       /\ UNCHANGED <<part, lifeVars, migVars, monitorVars, liveVars, jobVars, dialVars, expiryVars>>
    \/ /\ part = "life" /\ LifeNext
       /\ UNCHANGED <<part, vars, migVars, monitorVars, liveVars, jobVars, dialVars, expiryVars>>
    \/ /\ part = "schema" /\ MigNext
       /\ UNCHANGED <<part, vars, lifeVars, monitorVars, liveVars, jobVars, dialVars, expiryVars>>
    \/ /\ part = "monitors" /\ MonitorsNext
       /\ UNCHANGED <<part, vars, lifeVars, migVars, liveVars, jobVars, dialVars, expiryVars>>
    \/ /\ part = "output" /\ LiveNext
       /\ UNCHANGED <<part, vars, lifeVars, migVars, monitorVars, jobVars, dialVars, expiryVars>>
    \/ /\ part = "jobs" /\ JobsNext
       /\ UNCHANGED <<part, vars, lifeVars, migVars, monitorVars, liveVars, dialVars, expiryVars>>
    \/ /\ part = "dial" /\ DialNext
       /\ UNCHANGED <<part, vars, lifeVars, migVars, monitorVars, liveVars, jobVars, expiryVars>>
    \/ /\ part = "expiry" /\ ExpiryNext
       /\ UNCHANGED <<part, vars, lifeVars, migVars, monitorVars, liveVars, jobVars, dialVars>>

processVars ==
    <<part, vars, lifeVars, migVars, monitorVars, liveVars, jobVars, dialVars, expiryVars>>

----------------------------------------------------------------------------
(* Fairness, each of it for the part that steps.                             *)

\* Time passes, goroutines run, workers return.  A process need not be shut down or crash.
ElectionFairness ==
    /\ WF_vars(part = "election" /\ Tick)
    /\ \A r \in Replicas :
          /\ WF_vars(part = "election" /\ (Attempt(r) \/ Applied(r) \/ Conflict(r) \/ CallReturns(r)))
          /\ WF_vars(part = "election" /\ CampaignStep(r)) /\ WF_vars(part = "election" /\ WorkersReturn(r))
          /\ WF_vars(part = "election" /\ CloseReturns(r))

\* main goes on; a caller that is not slow returns, and an operation ends (its context is cancelled).
LifeFairness ==
    /\ WF_lifeVars(part = "life" /\ (Start \/ StopBegins \/ StopWaits))
    /\ \A c \in Callers : WF_lifeVars(part = "life" /\ TaskWrites(c)) /\ WF_lifeVars(part = "life" /\ TaskAnnounces(c))
    /\ \A c \in Callers \ SlowCallers : WF_lifeVars(part = "life" /\ CallerSteps(c))

\* The container restarts a process that ended, and a start makes progress.
MigFairness ==
    \A r \in MigReplicas :
        WF_migVars(part = "schema" /\ (Boot(r) \/ Lookup(r) \/ Check(r) \/ Statement(r) \/ Record(r)))

\* The leader runs its cycles.
MonitorsFairness ==
    /\ WF_monitorVars(part = "monitors" /\ (RefreshList \/ RefreshEnd))
    /\ \A n \in RefreshNamespaces : WF_monitorVars(part = "monitors" /\ \E ok \in BOOLEAN : refreshSecret(n, ok))

\* The ticker fires again and again and every goroutine runs; an operation need not end.
LiveFairness ==
    /\ \A l \in Logs : WF_liveVars(part = "output" /\ FinalOutputWrite(l))
    /\ \A f \in Flushers :
        /\ WF_liveVars(part = "output" /\ TakeDirty(f)) /\ WF_liveVars(part = "output" /\ FlushEnds(f))
        /\ \A l \in Logs : WF_liveVars(part = "output" /\ (WriteLive(f, l) \/ WriteFails(f, l)))

\* The handlers go on, the subscriber writes its log to the end, and a client polls until done.
JobsFairness ==
    /\ WF_jobVars(part = "jobs" /\ InvokeAction) /\ WF_jobVars(part = "jobs" /\ RecordActionRun)
    /\ WF_jobVars(part = "jobs" /\ JobWrites)
    /\ \A c \in JobClients :
          WF_jobVars(part = "jobs" /\ GetActionJobLog(c)) /\ WF_jobVars(part = "jobs" /\ storeJobFinalStatus(c))

\* Time passes and goroutines run; the server need not answer (UpgradeAnswered has no fairness, and the
\* handshake and the connect end at the bound at the latest).
DialFairness ==
    /\ WF_dialVars(part = "dial" /\ BoundPasses) /\ WF_dialVars(part = "dial" /\ WebSocket /\ bound)
    /\ WF_dialVars(part = "dial" /\ Connect /\ CtxDone) /\ WF_dialVars(part = "dial" /\ StoreConn)
    /\ WF_dialVars(part = "dial" /\ UpgradeCut) /\ WF_dialVars(part = "dial" /\ WaiterSteps)
    /\ WF_dialVars(part = "dial" /\ GuardSteps) /\ WF_dialVars(part = "dial" /\ Reap)

\* The leader's reaper runs a cycle per interval and the clock goes on; requests and their operations
\* end on their own.
ExpiryFairness ==
    /\ WF_expiryVars(part = "expiry" /\ Reaper) /\ WF_expiryVars(part = "expiry" /\ ExpiryTick)
    /\ \A r \in ExpiryRequests : WF_expiryVars(part = "expiry" /\ RequestStep(r))

\* What is tried again and again succeeds in the end: from some moment on an update of the Lease is
\* answered, and a write of the live output (until the shutdown) and of a pull secret does not fail.
FaultsEnd ==
    /\ <>[][~\E r \in Replicas : CallFails(r)]_vars
    /\ <>[][liveShutdown \/ ~\E f \in Flushers, l \in Logs : WriteFails(f, l)]_liveVars
    /\ <>[][~\E n \in RefreshNamespaces : pullSecret[n] # refresh.password /\ refreshSecret(n, FALSE)]_monitorVars

ProcessesSpec ==
    /\ ProcessesInit /\ [][ProcessesNext]_processVars
    /\ ElectionFairness /\ LifeFairness /\ MigFairness /\ MonitorsFairness /\ LiveFairness /\ JobsFairness
    /\ DialFairness /\ ExpiryFairness /\ FaultsEnd

\* Every variable of the modules has its type; the ages of the election stay within their bounds.
ProcessesTypeOK ==
    /\ ElectionTypeOK /\ LifeTypeOK /\ MigTypeOK /\ MonitorsTypeOK /\ LiveTypeOK /\ JobsTypeOK /\ DialTypeOK
    /\ ExpiryTypeOK

\* SomeoneLeads of the leader election, where it runs: as long as a replica serves, the leader workers
\* run again and again, whatever calls fail, and however replicas stop (leader.go Run, campaign).
ElectionSomeoneLeads == []<>(part = "election" => Led)

\* Every start ends well in the end: after a race or a crash each replica serves, and every version is
\* recorded (AutoMigrate, MigrateUp).
StartsComplete == <>[](part = "schema" => AllServe)

\* The caller of a dial returns, also when the server never answers (dialPodConn).
CallerReturns == []<>(part = "dial" => CallerReturned)

\* Without a proxy every goroutine of a dial ends ("The dial goroutine always ends with the bound").
DialGoroutinesEnd == <>[](part = "dial" => GoroutinesEnded)

\* What a process must do it does in the end: somebody leads, a shutdown and a start come to their end,
\* pull secrets follow the password, output is stored and its flusher ends, clients see their job end,
\* a dial returns and leaves no goroutine, and an expired stack is stopped.
ProcessesSettle ==
    /\ ElectionSomeoneLeads /\ ShutdownEnds /\ StartsComplete /\ SecretsFollowPassword
    /\ StreamedLinesAreStored /\ FlusherEnds /\ ClientsSeeTheEnd
    /\ CallerReturns /\ DialGoroutinesEnd /\ ExpiredIsStopped
=============================================================================
