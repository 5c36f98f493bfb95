--------------------------- MODULE LeaderElection ---------------------------
(* The election of the replica that runs the leader workers                 *)
(* (internal/leader/leader.go), with the shutdown of the process            *)
(* (leaderRuntime in api/bootstrap.go).  Every replica campaigns for one    *)
(* Lease through client-go, which is modelled as leader.go uses it.  The    *)
(* worker group appears by what WorkerGroup shows of it: one set of workers *)
(* per replica, a new term starts them only after the old ones returned.    *)
(*                                                                          *)
(* Time is discrete and kept as ages: the time since an event, capped where *)
(* no guard tells larger values apart.  Time may not pass a moment at which *)
(* the code must already have acted (Tick), which assumes that a goroutine  *)
(* runs within one unit of its timer.                                       *)
EXTENDS Integers, FiniteSets

CONSTANTS
    Replicas,       \* the candidates
    LeaseDuration,  \* how long others wait for a lease that is not renewed
    RenewDeadline,  \* how long the leader works without a renewal
    RetryPeriod,    \* time between two attempts
    Latency,        \* longest time from the write of the Lease to its answer
    Leaving,        \* the replicas that may be shut down or killed
    Faults          \* subset of {"lost", "slow"}: calls that fail, workers that
                    \* return late

CONSTANT NoOne      \* the holder of a Lease that was released

ASSUME ReplicasAssumption == IsFiniteSet(Replicas) /\ NoOne \notin Replicas

\* Config.Validate, in the units of the model: RenewDeadline > 1.2 * RetryPeriod.
Validate ==
    /\ LeaseDuration \in Nat /\ RenewDeadline \in Nat /\ RetryPeriod \in Nat
    /\ LeaseDuration >= 1 /\ RenewDeadline > 0 /\ RetryPeriod > 0
    /\ LeaseDuration > RenewDeadline
    /\ 5 * RenewDeadline > 6 * RetryPeriod

\* The ticker of watchRenewals: RetryPeriod / 2, or RetryPeriod when that is 0.
WatchInterval == IF RetryPeriod \div 2 <= 0 THEN RetryPeriod ELSE RetryPeriod \div 2

ASSUME TimingAssumption == Validate /\ Latency \in Nat

\* What the defaults have (15, 10, 2 seconds and an answer within 3) and Validate
\* does not ask for: the watchdog ends a term before the lease can be taken.
ASSUME MarginAssumption == Latency + RenewDeadline + WatchInterval < LeaseDuration

VARIABLES
    holder,     \* HolderIdentity of the Lease
    seenAge,    \* time since r first read the current version of the Lease
    call,       \* r's Update of the Lease: idle, sent, applied
    callAge,    \* time since the Update was applied
    renewAge,   \* sinceRenew of the renewTrackingLock
    round,      \* where r's Run and campaign are
    term,       \* the OnStartedLeading goroutine and the termGuard
    stopped,    \* termGuard.stopped
    active,     \* Group.cancel # nil
    workers,    \* the workers: none, live (context not done), draining
    main        \* leaderRuntime.Shutdown of the process

Unseen == -1        \* the Lease changed since r read it

leaseVars == <<holder, seenAge>>
callVars == <<call, callAge, renewAge>>
groupVars == <<active, workers>>
vars == <<leaseVars, callVars, round, term, stopped, groupVars, main>>

Rounds == {"acquire", "renew", "ended", "returned", "release", "pause", "over"}
TermStates == {"none", "pending", "live", "stopping", "done"}

ElectionTypeOK ==
    /\ holder \in Replicas \cup {NoOne}
    /\ seenAge \in [Replicas -> {Unseen} \cup 0 .. LeaseDuration]
    /\ call \in [Replicas -> {"idle", "sent", "applied"}]
    /\ callAge \in [Replicas -> 0 .. Latency]
    /\ renewAge \in [Replicas -> 0 .. RenewDeadline + RetryPeriod]
    /\ round \in [Replicas -> Rounds]
    /\ term \in [Replicas -> TermStates]
    /\ stopped \in [Replicas -> BOOLEAN]
    /\ active \in [Replicas -> BOOLEAN]
    /\ workers \in [Replicas -> {"none", "live", "draining"}]
    /\ main \in [Replicas -> {"serving", "closing", "cancelled"}]

Init ==
    /\ holder = NoOne
    /\ seenAge = [r \in Replicas |-> Unseen]
    /\ call = [r \in Replicas |-> "idle"]
    /\ callAge = [r \in Replicas |-> 0]
    /\ renewAge = [r \in Replicas |-> 0]
    /\ round = [r \in Replicas |-> "acquire"]
    /\ term = [r \in Replicas |-> "none"]
    /\ stopped = [r \in Replicas |-> FALSE]
    /\ active = [r \in Replicas |-> FALSE]
    /\ workers = [r \in Replicas |-> "none"]
    /\ main = [r \in Replicas |-> "serving"]

----------------------------------------------------------------------------
(* client-go: attempts to acquire or renew.                                 *)

\* tryAcquireOrRenew reads the Lease.  A record that changed starts a new wait.
ReadAge(r) == IF seenAge[r] = Unseen THEN 0 ELSE seenAge[r]

\* The Lease is free, is r's own, or did not change for LeaseDuration.
MayTake(r) == holder \in {NoOne, r} \/ ReadAge(r) >= LeaseDuration

\* client-go tries in the acquire loop and, once it leads, in the renew loop.
Attempt(r) ==
    /\ round[r] \in {"acquire", "renew"} /\ call[r] = "idle"
    /\ main[r] # "cancelled"
    /\ seenAge' = [seenAge EXCEPT ![r] = ReadAge(r)]
    /\ call' = IF MayTake(r) THEN [call EXCEPT ![r] = "sent"] ELSE call
    /\ UNCHANGED <<holder, callAge, renewAge, round, term, stopped, groupVars, main>>

\* The API server takes an Update only for the version that r read.
Applied(r) ==
    /\ call[r] = "sent" /\ seenAge[r] # Unseen
    /\ holder' = r
    /\ seenAge' = [q \in Replicas |-> IF q = r THEN seenAge[r] ELSE Unseen]
    /\ call' = [call EXCEPT ![r] = "applied"]
    /\ callAge' = [callAge EXCEPT ![r] = 0]
    /\ UNCHANGED <<renewAge, round, term, stopped, groupVars, main>>

Conflict(r) ==
    /\ call[r] = "sent" /\ seenAge[r] = Unseen
    /\ call' = [call EXCEPT ![r] = "idle"]
    /\ UNCHANGED <<leaseVars, callAge, renewAge, round, term, stopped, groupVars, main>>

\* Mutant: a renewal is noted before the error of the Update is looked at.
CallFailsRecorded(r) ==
    /\ "lost" \in Faults
    /\ call[r] # "idle"
    /\ call' = [call EXCEPT ![r] = "idle"]
    /\ seenAge' = [seenAge EXCEPT ![r] = IF call[r] = "applied" THEN Unseen ELSE @]
    /\ callAge' = [callAge EXCEPT ![r] = 0]
    /\ renewAge' = [renewAge EXCEPT ![r] = 0]
    /\ UNCHANGED <<holder, round, term, stopped, groupVars, main>>

\* An error or a timeout: the write may have happened all the same.
CallFails(r) ==
    /\ "lost" \in Faults
    /\ call[r] # "idle"
    /\ call' = [call EXCEPT ![r] = "idle"]
    /\ seenAge' = [seenAge EXCEPT ![r] = IF call[r] = "applied" THEN Unseen ELSE @]
    /\ callAge' = [callAge EXCEPT ![r] = 0]
    /\ UNCHANGED <<holder, renewAge, round, term, stopped, groupVars, main>>

\* renewTrackingLock.record notes the renewal when the answer comes.  A candidate
\* that acquired the Lease starts OnStartedLeading in a goroutine.
CallReturns(r) ==
    /\ call[r] = "applied"
    /\ call' = [call EXCEPT ![r] = "idle"]
    /\ callAge' = [callAge EXCEPT ![r] = 0]
    /\ renewAge' = [renewAge EXCEPT ![r] = 0]
    /\ seenAge' = [seenAge EXCEPT ![r] = 0]
    /\ IF round[r] = "acquire"
       THEN /\ round' = [round EXCEPT ![r] = "renew"]
            /\ term' = [term EXCEPT ![r] = "pending"]
       ELSE UNCHANGED <<round, term>>
    /\ UNCHANGED <<holder, stopped, groupVars, main>>

----------------------------------------------------------------------------
(* One leadership term.                                                     *)

\* A worker sees that its context is done and starts to return.
Cancelled(r) == IF workers[r] = "live" THEN "draining" ELSE workers[r]

\* client-go stops renewing: it had no success for RetryPeriod + RenewDeadline, or
\* campaign's context is done (runCancel, or the shutdown of the process).  An
\* Update under way is given up.  The return cancels the leader context.
RoundEnds(r) ==
    /\ \/ round[r] = "renew" /\ renewAge[r] >= RenewDeadline + RetryPeriod
       \/ round[r] = "renew" /\ term[r] = "done"
       \/ round[r] \in {"acquire", "renew"} /\ main[r] = "cancelled"
    /\ round' = [round EXCEPT ![r] = "ended"]
    /\ call' = [call EXCEPT ![r] = "idle"]
    /\ callAge' = [callAge EXCEPT ![r] = 0]
    /\ renewAge' = [renewAge EXCEPT ![r] = 0]
    /\ seenAge' = [seenAge EXCEPT ![r] = IF call[r] = "applied" THEN Unseen ELSE @]
    /\ workers' = [workers EXCEPT ![r] = Cancelled(r)]
    /\ UNCHANGED <<holder, term, stopped, active, main>>

\* termGuard.begin succeeds until termGuard.wait was called; then runTerm calls
\* Group.Start, which does nothing after Close.
BeginTerm(r) ==
    /\ term[r] = "pending" /\ round[r] \in {"renew", "ended"}
    /\ term' = [term EXCEPT ![r] = "live"]
    /\ IF main[r] = "serving"
       THEN /\ active' = [active EXCEPT ![r] = TRUE]
            /\ workers' = [workers EXCEPT ![r] =
                   IF @ = "none" /\ round[r] = "renew" THEN "live" ELSE "draining"]
       ELSE UNCHANGED groupVars
    /\ UNCHANGED <<leaseVars, callVars, round, stopped, main>>

\* termGuard.wait: a term that did not begin never begins.
TermGuardWait(r) ==
    /\ round[r] = "ended"
    /\ round' = [round EXCEPT ![r] = "returned"]
    /\ term' = [term EXCEPT ![r] = IF @ = "pending" THEN "none" ELSE @]
    /\ UNCHANGED <<leaseVars, callVars, stopped, groupVars, main>>

\* watchRenewals finds the last renewal too old, or the leader context is done.
\* runTerm then calls Group.Stop, which returns at once when no term is active.
TermContextDone(r) == round[r] # "renew" \/ renewAge[r] > RenewDeadline

EndTerm(r) ==
    /\ term[r] = "live" /\ TermContextDone(r)
    /\ term' = [term EXCEPT ![r] = IF active[r] THEN "stopping" ELSE "done"]
    /\ stopped' = [stopped EXCEPT ![r] = ~active[r]]
    /\ active' = [active EXCEPT ![r] = FALSE]
    /\ workers' = [workers EXCEPT ![r] = Cancelled(r)]
    /\ UNCHANGED <<leaseVars, callVars, round, main>>

\* Group.Stop returns true when the workers returned and false on its timeout.
StopReturns(r) ==
    /\ term[r] = "stopping"
    /\ workers[r] = "none" \/ "slow" \in Faults
    /\ term' = [term EXCEPT ![r] = "done"]
    /\ stopped' = [stopped EXCEPT ![r] = workers[r] = "none"]
    /\ UNCHANGED <<leaseVars, callVars, round, groupVars, main>>

\* The workers return.  A term that waited for them starts its own.
WorkersReturn(r) ==
    /\ workers[r] = "draining"
    /\ workers' = [workers EXCEPT ![r] =
           IF active[r] /\ round[r] = "renew" THEN "live" ELSE "none"]
    /\ UNCHANGED <<leaseVars, callVars, round, term, stopped, active, main>>

----------------------------------------------------------------------------
(* The end of a campaign.                                                   *)

\* campaign returns when no term ran, or when the workers did not stop.
NoRelease(r) ==
    /\ round[r] = "returned"
    /\ term[r] = "none" \/ (term[r] = "done" /\ ~stopped[r])
    /\ round' = [round EXCEPT ![r] = "pause"]
    /\ UNCHANGED <<leaseVars, callVars, term, stopped, groupVars, main>>

\* release reads the Lease.
ReleaseRead(r) ==
    /\ round[r] = "returned" /\ term[r] = "done" /\ stopped[r]
    /\ \/ /\ holder = r
          /\ round' = [round EXCEPT ![r] = "release"]
          /\ seenAge' = [seenAge EXCEPT ![r] = ReadAge(r)]
       \/ /\ holder # r \/ "lost" \in Faults
          /\ round' = [round EXCEPT ![r] = "pause"]
          /\ UNCHANGED seenAge
    /\ UNCHANGED <<holder, callVars, term, stopped, groupVars, main>>

\* The Update of release is refused when another replica took the Lease since.
ReleaseUpdate(r) ==
    /\ round[r] = "release"
    /\ \/ /\ seenAge[r] # Unseen
          /\ holder' = NoOne
          /\ seenAge' = [q \in Replicas |-> Unseen]
       \/ /\ seenAge[r] = Unseen \/ "lost" \in Faults
          /\ UNCHANGED leaseVars
    /\ round' = [round EXCEPT ![r] = "pause"]
    /\ UNCHANGED <<callVars, term, stopped, groupVars, main>>

\* Mutant: Run campaigns once.
NextCampaignNever(r) ==
    /\ round[r] = "pause"
    /\ round' = [round EXCEPT ![r] = "over"]
    /\ UNCHANGED <<leaseVars, callVars, term, stopped, groupVars, main>>

\* Run starts the next campaign, with a new lock and a new record, or returns.
NextCampaign(r) ==
    /\ round[r] = "pause"
    /\ round' = [round EXCEPT ![r] = IF main[r] = "cancelled" THEN "over" ELSE "acquire"]
    /\ term' = [term EXCEPT ![r] = "none"]
    /\ stopped' = [stopped EXCEPT ![r] = FALSE]
    /\ seenAge' = [seenAge EXCEPT ![r] = Unseen]
    /\ renewAge' = [renewAge EXCEPT ![r] = 0]
    /\ UNCHANGED <<holder, call, callAge, groupVars, main>>

----------------------------------------------------------------------------
(* The process.                                                             *)

\* Shutdown closes the group.  Close has nothing to wait for without a term.
Shutdown(r) ==
    /\ r \in Leaving
    /\ main[r] = "serving" /\ round[r] # "over"
    /\ main' = [main EXCEPT ![r] = IF active[r] THEN "closing" ELSE "cancelled"]
    /\ active' = [active EXCEPT ![r] = FALSE]
    /\ workers' = [workers EXCEPT ![r] = Cancelled(r)]
    /\ UNCHANGED <<leaseVars, callVars, round, term, stopped>>

\* Close returns when the workers returned or on its timeout; then the election
\* is cancelled either way.
CloseReturns(r) ==
    /\ main[r] = "closing"
    /\ workers[r] = "none" \/ "slow" \in Faults
    /\ main' = [main EXCEPT ![r] = "cancelled"]
    /\ UNCHANGED <<leaseVars, callVars, round, term, stopped, groupVars>>

\* The process ends: killed, or after the election ended or did not end in time.
\* Nothing of it is left but the Lease.
Exit(r) ==
    /\ r \in Leaving
    /\ round[r] # "over" \/ workers[r] # "none"
    /\ round' = [round EXCEPT ![r] = "over"]
    /\ term' = [term EXCEPT ![r] = "none"]
    /\ stopped' = [stopped EXCEPT ![r] = FALSE]
    /\ call' = [call EXCEPT ![r] = "idle"]
    /\ callAge' = [callAge EXCEPT ![r] = 0]
    /\ renewAge' = [renewAge EXCEPT ![r] = 0]
    /\ seenAge' = [seenAge EXCEPT ![r] = Unseen]
    /\ active' = [active EXCEPT ![r] = FALSE]
    /\ workers' = [workers EXCEPT ![r] = "none"]
    /\ main' = [main EXCEPT ![r] = "cancelled"]
    /\ UNCHANGED holder

----------------------------------------------------------------------------
(* Time.                                                                    *)

\* The latest moment at which the ticker of watchRenewals finds the last renewal
\* older than RenewDeadline.
WatchLimit == RenewDeadline + WatchInterval

\* r has nothing to do that its timers already demand.
OnTime(r) ==
    /\ call[r] = "applied" => callAge[r] < Latency
    /\ round[r] # "ended" /\ term[r] # "pending"
    /\ round[r] = "renew" =>
          /\ renewAge[r] < RenewDeadline + RetryPeriod
          /\ term[r] # "done" /\ main[r] # "cancelled"
    /\ term[r] = "live" => round[r] = "renew" /\ renewAge[r] < WatchLimit

Tick ==
    /\ \A r \in Replicas : OnTime(r)
    /\ seenAge' = [r \in Replicas |->
           IF seenAge[r] \in 0 .. LeaseDuration - 1 THEN seenAge[r] + 1 ELSE seenAge[r]]
    /\ callAge' = [r \in Replicas |->
           IF call[r] = "applied" THEN callAge[r] + 1 ELSE 0]
    /\ renewAge' = [r \in Replicas |->
           IF round[r] = "renew" THEN renewAge[r] + 1 ELSE 0]
    /\ UNCHANGED <<holder, call, round, term, stopped, groupVars, main>>

ClientStep(r) ==
    Attempt(r) \/ Applied(r) \/ Conflict(r) \/ CallFails(r) \/ CallReturns(r)

CampaignStep(r) ==
    \/ RoundEnds(r) \/ BeginTerm(r) \/ TermGuardWait(r) \/ EndTerm(r)
    \/ StopReturns(r) \/ WorkersReturn(r)
    \/ NoRelease(r) \/ ReleaseRead(r) \/ ReleaseUpdate(r) \/ NextCampaign(r)

ProcessStep(r) == Shutdown(r) \/ CloseReturns(r) \/ Exit(r)

Next ==
    \/ Tick
    \/ \E r \in Replicas : ClientStep(r) \/ CampaignStep(r) \/ ProcessStep(r)

Spec == Init /\ [][Next]_vars

----------------------------------------------------------------------------
(* Properties.                                                              *)

\* r's term context is not done.
InTerm(r) == term[r] = "live" /\ round[r] = "renew"

\* A replica in its term, and a replica whose workers run with a live context, is
\* the holder of the Lease: the watchdog ends a term before another replica can
\* take the Lease (leader.go watchRenewals).  So at most one replica leads.
LeaderHoldsLease ==
    \A r \in Replicas : (InTerm(r) \/ workers[r] = "live") => holder = r

\* r gives up the Lease in a step.
Releases(r) == holder = r /\ holder' = NoOne

\* A replica that is not being shut down releases the Lease only when its workers
\* returned, also when a term ended before the workers of the last one were gone
\* (leader.go campaign, termGuard.stopped).
ServingReleasesAfterWorkers ==
    [][\A r \in Replicas : Releases(r) /\ main[r] = "serving" => workers[r] = "none"]_vars

\* leader.go 194-200 and bootstrap.go 1000-1002: every replica releases the Lease
\* only after its workers stopped.
ReleasesAfterWorkers ==
    [][\A r \in Replicas : Releases(r) => workers[r] = "none"]_vars

Led == (\E r \in Replicas : workers[r] = "live") \/ \A r \in Replicas : main[r] # "serving"

\* As long as a replica serves, the leader workers run again and again: a crash, a
\* shutdown, a lost answer or a slow stop delays the next leader and never
\* prevents it (leader.go Run, campaign).
SomeoneLeads == []<>Led
=============================================================================
