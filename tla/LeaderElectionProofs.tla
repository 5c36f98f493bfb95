----------------------- MODULE LeaderElectionProofs -----------------------
(* LeaderElection for every number of replicas and all timings with the    *)
(* margin of MarginAssumption: the leader holds the Lease, and a replica   *)
(* that serves releases the Lease only after its workers returned.         *)
EXTENDS LeaderElection, TLAPS

\* r acquired the Lease in this campaign and its term is not over.
Claims(r) == round[r] = "renew" /\ term[r] \in {"pending", "live"}

\* Where the workers of r run.
WorkersInv ==
    \A r \in Replicas :
        /\ active[r] => term[r] = "live"
        /\ workers[r] = "live" => active[r] /\ round[r] = "renew"

\* Where a call and a term can be.
RoundInv ==
    \A r \in Replicas :
        /\ call[r] # "idle" => round[r] \in {"acquire", "renew"}
        /\ round[r] = "acquire" => term[r] = "none"
        /\ round[r] \in {"release", "pause", "over"} => term[r] \in {"none", "done"}

\* A term that did not begin is new, and a term that runs is watched.
RenewInv ==
    \A r \in Replicas :
        /\ round[r] = "renew" /\ term[r] = "pending" => renewAge[r] = 0
        /\ round[r] = "renew" /\ term[r] = "live" => renewAge[r] <= WatchLimit

\* Whoever claims the Lease holds it, and the others have not waited longer than
\* its answer and its last renewal are old.
HoldInv ==
    \A r \in Replicas :
        /\ Claims(r) => holder = r
        /\ call[r] = "applied" => holder = r
        /\ \A q \in Replicas \ {r} :
              /\ Claims(r) => seenAge[q] <= renewAge[r] + Latency
              /\ call[r] = "applied" => seenAge[q] <= callAge[r]

\* What a write of the Lease relies on, as long as the API server accepts it.
WriteInv ==
    \A r \in Replicas : seenAge[r] # Unseen =>
        /\ call[r] = "sent" => holder \in {NoOne, r} \/ seenAge[r] >= LeaseDuration
        /\ round[r] = "release" => holder = r

\* stopped means what it says as long as nobody closed the group.
StoppedInv ==
    \A r \in Replicas :
        /\ main[r] = "serving" /\ term[r] = "live" => active[r]
        /\ main[r] = "serving" /\ term[r] = "done" /\ stopped[r] => workers[r] = "none"
        /\ round[r] = "release" => term[r] = "done" /\ stopped[r]

ElectionInv == ElectionTypeOK /\ WorkersInv /\ RoundInv /\ RenewInv /\ HoldInv /\ WriteInv /\ StoppedInv

USE DEF Unseen

\* The interval of the watchdog is at least one unit and at most a RetryPeriod.
LEMMA WatchFacts ==
    /\ LeaseDuration \in Nat /\ RenewDeadline \in Nat /\ RetryPeriod \in Nat /\ Latency \in Nat
    /\ WatchLimit \in Nat /\ Latency + WatchLimit < LeaseDuration
    /\ RenewDeadline + RetryPeriod \in Nat
<1>1. WatchInterval \in Nat
  BY TimingAssumption DEF Validate, WatchInterval
<1> QED
  BY <1>1, TimingAssumption, MarginAssumption DEF Validate, WatchLimit

\* Init: nobody holds the Lease and nobody runs.
LEMMA InitInv == Init => ElectionInv
BY WatchFacts, ReplicasAssumption DEF Init, ElectionInv, ElectionTypeOK, WorkersInv, RoundInv, RenewInv, HoldInv, WriteInv, StoppedInv, Claims,
   Rounds, TermStates

\* Every step keeps the types: the ages stay within the limits of Tick.
LEMMA NextTypeOK == ElectionTypeOK /\ [Next]_vars => ElectionTypeOK'
<1> SUFFICES ASSUME ElectionTypeOK, [Next]_vars PROVE ElectionTypeOK'
  OBVIOUS
<1> USE WatchFacts, ReplicasAssumption DEF ElectionTypeOK, Rounds, TermStates
<1>1. CASE Tick
  BY <1>1 DEF Tick, OnTime, groupVars
<1>2. ASSUME NEW r \in Replicas, ClientStep(r) \/ CampaignStep(r) \/ ProcessStep(r) PROVE ElectionTypeOK'
  <2>1. CASE Attempt(r)
    BY <2>1 DEF Attempt, ReadAge, MayTake, leaseVars, callVars, groupVars
  <2>2. CASE Applied(r)
    BY <2>2 DEF Applied, leaseVars, callVars, groupVars
  <2>3. CASE Conflict(r)
    BY <2>3 DEF Conflict, leaseVars, callVars, groupVars
  <2>4. CASE CallFails(r)
    BY <2>4 DEF CallFails, leaseVars, callVars, groupVars
  <2>5. CASE CallReturns(r)
    BY <2>5 DEF CallReturns, leaseVars, callVars, groupVars
  <2>6. CASE RoundEnds(r)
    BY <2>6 DEF RoundEnds, Cancelled, leaseVars, callVars, groupVars
  <2>7. CASE BeginTerm(r)
    BY <2>7 DEF BeginTerm, leaseVars, callVars, groupVars
  <2>8. CASE TermGuardWait(r)
    BY <2>8 DEF TermGuardWait, leaseVars, callVars, groupVars
  <2>9. CASE EndTerm(r)
    BY <2>9 DEF EndTerm, Cancelled, TermContextDone, leaseVars, callVars, groupVars
  <2>10. CASE StopReturns(r)
    BY <2>10 DEF StopReturns, leaseVars, callVars, groupVars
  <2>11. CASE WorkersReturn(r)
    BY <2>11 DEF WorkersReturn, leaseVars, callVars, groupVars
  <2>12. CASE NoRelease(r)
    BY <2>12 DEF NoRelease, leaseVars, callVars, groupVars
  <2>13. CASE ReleaseRead(r)
    BY <2>13 DEF ReleaseRead, ReadAge, leaseVars, callVars, groupVars
  <2>14. CASE ReleaseUpdate(r)
    BY <2>14 DEF ReleaseUpdate, leaseVars, callVars, groupVars
  <2>15. CASE NextCampaign(r)
    BY <2>15 DEF NextCampaign, leaseVars, callVars, groupVars
  <2>16. CASE Shutdown(r)
    BY <2>16 DEF Shutdown, Cancelled, leaseVars, callVars, groupVars
  <2>17. CASE CloseReturns(r)
    BY <2>17 DEF CloseReturns, leaseVars, callVars, groupVars
  <2>18. CASE Exit(r)
    BY <2>18 DEF Exit, leaseVars, callVars, groupVars
  <2> QED BY <1>2, <2>1, <2>2, <2>3, <2>4, <2>5, <2>6, <2>7, <2>8, <2>9, <2>10, <2>11, <2>12, <2>13, <2>14, <2>15, <2>16, <2>17, <2>18 DEF ClientStep, CampaignStep, ProcessStep
<1>3. CASE UNCHANGED vars
  BY <1>3 DEF vars, leaseVars, callVars, groupVars
<1> QED BY <1>1, <1>2, <1>3 DEF Next

\* Every step keeps the inductive invariant.
LEMMA NextInv == ElectionInv /\ [Next]_vars => ElectionInv'
<1> SUFFICES ASSUME ElectionInv, [Next]_vars PROVE ElectionInv'
  OBVIOUS
<1>0. ElectionTypeOK'
  BY NextTypeOK DEF ElectionInv
<1> USE WatchFacts, ReplicasAssumption, <1>0 DEF ElectionInv, ElectionTypeOK
<1>1. CASE Tick
  <2>1. WorkersInv'
    BY <1>1 DEF Tick, OnTime, groupVars, WorkersInv
  <2>2. RoundInv'
    BY <1>1 DEF Tick, OnTime, groupVars, RoundInv
  <2>3. RenewInv'
    BY <1>1 DEF Tick, OnTime, groupVars, RenewInv
  <2>4. HoldInv'
    BY <1>1 DEF Tick, OnTime, groupVars, HoldInv, Claims
  <2>5. WriteInv'
    BY <1>1 DEF Tick, OnTime, groupVars, WriteInv
  <2>6. StoppedInv'
    BY <1>1 DEF Tick, OnTime, groupVars, StoppedInv
  <2> QED BY <2>1, <2>2, <2>3, <2>4, <2>5, <2>6
<1>2. ASSUME NEW r \in Replicas, ClientStep(r) \/ CampaignStep(r) \/ ProcessStep(r) PROVE ElectionInv'
  <2>1. CASE Attempt(r)
    <3>1. WorkersInv'
      BY <2>1 DEF Attempt, ReadAge, MayTake, leaseVars, callVars, groupVars, RoundInv, WorkersInv
    <3>2. RoundInv'
      BY <2>1 DEF Attempt, ReadAge, MayTake, leaseVars, callVars, groupVars, RoundInv
    <3>3. RenewInv'
      BY <2>1 DEF Attempt, ReadAge, MayTake, leaseVars, callVars, groupVars, RenewInv, RoundInv
    <3>4. HoldInv'
      BY <2>1 DEF Attempt, ReadAge, MayTake, leaseVars, callVars, groupVars, HoldInv, RenewInv, RoundInv, WriteInv, Claims
    <3>5. WriteInv'
      BY <2>1 DEF Attempt, ReadAge, MayTake, leaseVars, callVars, groupVars, HoldInv, RoundInv, WriteInv, Claims
    <3>6. StoppedInv'
      BY <2>1 DEF Attempt, ReadAge, MayTake, leaseVars, callVars, groupVars, RoundInv, StoppedInv, WorkersInv
    <3> QED BY <3>1, <3>2, <3>3, <3>4, <3>5, <3>6
  <2>2. CASE Applied(r)
    <3>1. WorkersInv'
      BY <2>2 DEF Applied, leaseVars, callVars, groupVars, RoundInv, WorkersInv
    <3>2. RoundInv'
      BY <2>2 DEF Applied, leaseVars, callVars, groupVars, RoundInv
    <3>3. RenewInv'
      BY <2>2 DEF Applied, leaseVars, callVars, groupVars, RenewInv, RoundInv
    <3>4. HoldInv'
      BY <2>2 DEF Applied, leaseVars, callVars, groupVars, HoldInv, RenewInv, RoundInv, WriteInv, Claims
    <3>5. WriteInv'
      BY <2>2 DEF Applied, leaseVars, callVars, groupVars, HoldInv, RoundInv, WriteInv, Claims
    <3>6. StoppedInv'
      BY <2>2 DEF Applied, leaseVars, callVars, groupVars, RoundInv, StoppedInv, WorkersInv
    <3> QED BY <3>1, <3>2, <3>3, <3>4, <3>5, <3>6
  <2>3. CASE Conflict(r)
    <3>1. WorkersInv'
      BY <2>3 DEF Conflict, leaseVars, callVars, groupVars, RoundInv, WorkersInv
    <3>2. RoundInv'
      BY <2>3 DEF Conflict, leaseVars, callVars, groupVars, RoundInv
    <3>3. RenewInv'
      BY <2>3 DEF Conflict, leaseVars, callVars, groupVars, RenewInv, RoundInv
    <3>4. HoldInv'
      BY <2>3 DEF Conflict, leaseVars, callVars, groupVars, HoldInv, RenewInv, RoundInv, WriteInv, Claims
    <3>5. WriteInv'
      BY <2>3 DEF Conflict, leaseVars, callVars, groupVars, HoldInv, RoundInv, WriteInv, Claims
    <3>6. StoppedInv'
      BY <2>3 DEF Conflict, leaseVars, callVars, groupVars, RoundInv, StoppedInv, WorkersInv
    <3> QED BY <3>1, <3>2, <3>3, <3>4, <3>5, <3>6
  <2>4. CASE CallFails(r)
    <3>1. WorkersInv'
      BY <2>4 DEF CallFails, leaseVars, callVars, groupVars, RoundInv, WorkersInv
    <3>2. RoundInv'
      BY <2>4 DEF CallFails, leaseVars, callVars, groupVars, RoundInv
    <3>3. RenewInv'
      BY <2>4 DEF CallFails, leaseVars, callVars, groupVars, RenewInv, RoundInv
    <3>4. HoldInv'
      BY <2>4 DEF CallFails, leaseVars, callVars, groupVars, HoldInv, RenewInv, RoundInv, WriteInv, Claims
    <3>5. WriteInv'
      BY <2>4 DEF CallFails, leaseVars, callVars, groupVars, HoldInv, RoundInv, WriteInv, Claims
    <3>6. StoppedInv'
      BY <2>4 DEF CallFails, leaseVars, callVars, groupVars, RoundInv, StoppedInv, WorkersInv
    <3> QED BY <3>1, <3>2, <3>3, <3>4, <3>5, <3>6
  <2>5. CASE CallReturns(r)
    <3>1. WorkersInv'
      BY <2>5 DEF CallReturns, leaseVars, callVars, groupVars, RoundInv, WorkersInv
    <3>2. RoundInv'
      BY <2>5 DEF CallReturns, leaseVars, callVars, groupVars, RoundInv
    <3>3. RenewInv'
      BY <2>5 DEF CallReturns, leaseVars, callVars, groupVars, RenewInv, RoundInv
    <3>4. HoldInv'
      BY <2>5 DEF CallReturns, leaseVars, callVars, groupVars, HoldInv, RenewInv, RoundInv, WriteInv, Claims
    <3>5. WriteInv'
      BY <2>5 DEF CallReturns, leaseVars, callVars, groupVars, HoldInv, RoundInv, WriteInv, Claims
    <3>6. StoppedInv'
      BY <2>5 DEF CallReturns, leaseVars, callVars, groupVars, RoundInv, StoppedInv, WorkersInv
    <3> QED BY <3>1, <3>2, <3>3, <3>4, <3>5, <3>6
  <2>6. CASE RoundEnds(r)
    <3>1. WorkersInv'
      BY <2>6 DEF RoundEnds, Cancelled, leaseVars, callVars, groupVars, RoundInv, WorkersInv
    <3>2. RoundInv'
      BY <2>6 DEF RoundEnds, Cancelled, leaseVars, callVars, groupVars, RoundInv
    <3>3. RenewInv'
      BY <2>6 DEF RoundEnds, Cancelled, leaseVars, callVars, groupVars, RenewInv, RoundInv
    <3>4. HoldInv'
      BY <2>6 DEF RoundEnds, Cancelled, leaseVars, callVars, groupVars, HoldInv, RenewInv, RoundInv, WriteInv, Claims
    <3>5. WriteInv'
      BY <2>6 DEF RoundEnds, Cancelled, leaseVars, callVars, groupVars, HoldInv, RoundInv, WriteInv, Claims
    <3>6. StoppedInv'
      BY <2>6 DEF RoundEnds, Cancelled, leaseVars, callVars, groupVars, RoundInv, StoppedInv, WorkersInv
    <3> QED BY <3>1, <3>2, <3>3, <3>4, <3>5, <3>6
  <2>7. CASE BeginTerm(r)
    <3>1. WorkersInv'
      BY <2>7 DEF BeginTerm, leaseVars, callVars, groupVars, RoundInv, WorkersInv
    <3>2. RoundInv'
      BY <2>7 DEF BeginTerm, leaseVars, callVars, groupVars, RoundInv
    <3>3. RenewInv'
      BY <2>7 DEF BeginTerm, leaseVars, callVars, groupVars, RenewInv, RoundInv
    <3>4. HoldInv'
      BY <2>7 DEF BeginTerm, leaseVars, callVars, groupVars, HoldInv, RenewInv, RoundInv, WriteInv, Claims
    <3>5. WriteInv'
      BY <2>7 DEF BeginTerm, leaseVars, callVars, groupVars, HoldInv, RoundInv, WriteInv, Claims
    <3>6. StoppedInv'
      BY <2>7 DEF BeginTerm, leaseVars, callVars, groupVars, RoundInv, StoppedInv, WorkersInv
    <3> QED BY <3>1, <3>2, <3>3, <3>4, <3>5, <3>6
  <2>8. CASE TermGuardWait(r)
    <3>1. WorkersInv'
      BY <2>8 DEF TermGuardWait, leaseVars, callVars, groupVars, RoundInv, WorkersInv
    <3>2. RoundInv'
      BY <2>8 DEF TermGuardWait, leaseVars, callVars, groupVars, RoundInv
    <3>3. RenewInv'
      BY <2>8 DEF TermGuardWait, leaseVars, callVars, groupVars, RenewInv, RoundInv
    <3>4. HoldInv'
      BY <2>8 DEF TermGuardWait, leaseVars, callVars, groupVars, HoldInv, RenewInv, RoundInv, WriteInv, Claims
    <3>5. WriteInv'
      BY <2>8 DEF TermGuardWait, leaseVars, callVars, groupVars, HoldInv, RoundInv, WriteInv, Claims
    <3>6. StoppedInv'
      BY <2>8 DEF TermGuardWait, leaseVars, callVars, groupVars, RoundInv, StoppedInv, WorkersInv
    <3> QED BY <3>1, <3>2, <3>3, <3>4, <3>5, <3>6
  <2>9. CASE EndTerm(r)
    <3>1. WorkersInv'
      BY <2>9 DEF EndTerm, Cancelled, TermContextDone, leaseVars, callVars, groupVars, RoundInv, WorkersInv
    <3>2. RoundInv'
      BY <2>9 DEF EndTerm, Cancelled, TermContextDone, leaseVars, callVars, groupVars, RoundInv
    <3>3. RenewInv'
      BY <2>9 DEF EndTerm, Cancelled, TermContextDone, leaseVars, callVars, groupVars, RenewInv, RoundInv
    <3>4. HoldInv'
      BY <2>9 DEF EndTerm, Cancelled, TermContextDone, leaseVars, callVars, groupVars, HoldInv, RenewInv, RoundInv, WriteInv, Claims
    <3>5. WriteInv'
      BY <2>9 DEF EndTerm, Cancelled, TermContextDone, leaseVars, callVars, groupVars, HoldInv, RoundInv, WriteInv, Claims
    <3>6. StoppedInv'
      BY <2>9 DEF EndTerm, Cancelled, TermContextDone, leaseVars, callVars, groupVars, RoundInv, StoppedInv, WorkersInv
    <3> QED BY <3>1, <3>2, <3>3, <3>4, <3>5, <3>6
  <2>10. CASE StopReturns(r)
    <3>1. WorkersInv'
      BY <2>10 DEF StopReturns, leaseVars, callVars, groupVars, RoundInv, WorkersInv
    <3>2. RoundInv'
      BY <2>10 DEF StopReturns, leaseVars, callVars, groupVars, RoundInv
    <3>3. RenewInv'
      BY <2>10 DEF StopReturns, leaseVars, callVars, groupVars, RenewInv, RoundInv
    <3>4. HoldInv'
      BY <2>10 DEF StopReturns, leaseVars, callVars, groupVars, HoldInv, RenewInv, RoundInv, WriteInv, Claims
    <3>5. WriteInv'
      BY <2>10 DEF StopReturns, leaseVars, callVars, groupVars, HoldInv, RoundInv, WriteInv, Claims
    <3>6. StoppedInv'
      BY <2>10 DEF StopReturns, leaseVars, callVars, groupVars, RoundInv, StoppedInv, WorkersInv
    <3> QED BY <3>1, <3>2, <3>3, <3>4, <3>5, <3>6
  <2>11. CASE WorkersReturn(r)
    <3>1. WorkersInv'
      BY <2>11 DEF WorkersReturn, leaseVars, callVars, groupVars, RoundInv, WorkersInv
    <3>2. RoundInv'
      BY <2>11 DEF WorkersReturn, leaseVars, callVars, groupVars, RoundInv
    <3>3. RenewInv'
      BY <2>11 DEF WorkersReturn, leaseVars, callVars, groupVars, RenewInv, RoundInv
    <3>4. HoldInv'
      BY <2>11 DEF WorkersReturn, leaseVars, callVars, groupVars, HoldInv, RenewInv, RoundInv, WriteInv, Claims
    <3>5. WriteInv'
      BY <2>11 DEF WorkersReturn, leaseVars, callVars, groupVars, HoldInv, RoundInv, WriteInv, Claims
    <3>6. StoppedInv'
      BY <2>11 DEF WorkersReturn, leaseVars, callVars, groupVars, RoundInv, StoppedInv, WorkersInv
    <3> QED BY <3>1, <3>2, <3>3, <3>4, <3>5, <3>6
  <2>12. CASE NoRelease(r)
    <3>1. WorkersInv'
      BY <2>12 DEF NoRelease, leaseVars, callVars, groupVars, RoundInv, WorkersInv
    <3>2. RoundInv'
      BY <2>12 DEF NoRelease, leaseVars, callVars, groupVars, RoundInv
    <3>3. RenewInv'
      BY <2>12 DEF NoRelease, leaseVars, callVars, groupVars, RenewInv, RoundInv
    <3>4. HoldInv'
      BY <2>12 DEF NoRelease, leaseVars, callVars, groupVars, HoldInv, RenewInv, RoundInv, WriteInv, Claims
    <3>5. WriteInv'
      BY <2>12 DEF NoRelease, leaseVars, callVars, groupVars, HoldInv, RoundInv, WriteInv, Claims
    <3>6. StoppedInv'
      BY <2>12 DEF NoRelease, leaseVars, callVars, groupVars, RoundInv, StoppedInv, WorkersInv
    <3> QED BY <3>1, <3>2, <3>3, <3>4, <3>5, <3>6
  <2>13. CASE ReleaseRead(r)
    <3>1. WorkersInv'
      BY <2>13 DEF ReleaseRead, ReadAge, leaseVars, callVars, groupVars, RoundInv, WorkersInv
    <3>2. RoundInv'
      BY <2>13 DEF ReleaseRead, ReadAge, leaseVars, callVars, groupVars, RoundInv
    <3>3. RenewInv'
      BY <2>13 DEF ReleaseRead, ReadAge, leaseVars, callVars, groupVars, RenewInv, RoundInv
    <3>4. HoldInv'
      BY <2>13 DEF ReleaseRead, ReadAge, leaseVars, callVars, groupVars, HoldInv, RenewInv, RoundInv, WriteInv, Claims
    <3>5. WriteInv'
      BY <2>13 DEF ReleaseRead, ReadAge, leaseVars, callVars, groupVars, HoldInv, RoundInv, WriteInv, Claims
    <3>6. StoppedInv'
      BY <2>13 DEF ReleaseRead, ReadAge, leaseVars, callVars, groupVars, RoundInv, StoppedInv, WorkersInv
    <3> QED BY <3>1, <3>2, <3>3, <3>4, <3>5, <3>6
  <2>14. CASE ReleaseUpdate(r)
    <3>1. WorkersInv'
      BY <2>14 DEF ReleaseUpdate, leaseVars, callVars, groupVars, RoundInv, WorkersInv
    <3>2. RoundInv'
      BY <2>14 DEF ReleaseUpdate, leaseVars, callVars, groupVars, RoundInv
    <3>3. RenewInv'
      BY <2>14 DEF ReleaseUpdate, leaseVars, callVars, groupVars, RenewInv, RoundInv
    <3>4. HoldInv'
      BY <2>14 DEF ReleaseUpdate, leaseVars, callVars, groupVars, HoldInv, RenewInv, RoundInv, WriteInv, Claims
    <3>5. WriteInv'
      BY <2>14 DEF ReleaseUpdate, leaseVars, callVars, groupVars, HoldInv, RoundInv, WriteInv, Claims
    <3>6. StoppedInv'
      BY <2>14 DEF ReleaseUpdate, leaseVars, callVars, groupVars, RoundInv, StoppedInv, WorkersInv
    <3> QED BY <3>1, <3>2, <3>3, <3>4, <3>5, <3>6
  <2>15. CASE NextCampaign(r)
    <3>1. WorkersInv'
      BY <2>15 DEF NextCampaign, leaseVars, callVars, groupVars, RoundInv, WorkersInv
    <3>2. RoundInv'
      BY <2>15 DEF NextCampaign, leaseVars, callVars, groupVars, RoundInv
    <3>3. RenewInv'
      BY <2>15 DEF NextCampaign, leaseVars, callVars, groupVars, RenewInv, RoundInv
    <3>4. HoldInv'
      BY <2>15 DEF NextCampaign, leaseVars, callVars, groupVars, HoldInv, RenewInv, RoundInv, WriteInv, Claims
    <3>5. WriteInv'
      BY <2>15 DEF NextCampaign, leaseVars, callVars, groupVars, HoldInv, RoundInv, WriteInv, Claims
    <3>6. StoppedInv'
      BY <2>15 DEF NextCampaign, leaseVars, callVars, groupVars, RoundInv, StoppedInv, WorkersInv
    <3> QED BY <3>1, <3>2, <3>3, <3>4, <3>5, <3>6
  <2>16. CASE Shutdown(r)
    <3>1. WorkersInv'
      BY <2>16 DEF Shutdown, Cancelled, leaseVars, callVars, groupVars, RoundInv, WorkersInv
    <3>2. RoundInv'
      BY <2>16 DEF Shutdown, Cancelled, leaseVars, callVars, groupVars, RoundInv
    <3>3. RenewInv'
      BY <2>16 DEF Shutdown, Cancelled, leaseVars, callVars, groupVars, RenewInv, RoundInv
    <3>4. HoldInv'
      BY <2>16 DEF Shutdown, Cancelled, leaseVars, callVars, groupVars, HoldInv, RenewInv, RoundInv, WriteInv, Claims
    <3>5. WriteInv'
      BY <2>16 DEF Shutdown, Cancelled, leaseVars, callVars, groupVars, HoldInv, RoundInv, WriteInv, Claims
    <3>6. StoppedInv'
      BY <2>16 DEF Shutdown, Cancelled, leaseVars, callVars, groupVars, RoundInv, StoppedInv, WorkersInv
    <3> QED BY <3>1, <3>2, <3>3, <3>4, <3>5, <3>6
  <2>17. CASE CloseReturns(r)
    <3>1. WorkersInv'
      BY <2>17 DEF CloseReturns, leaseVars, callVars, groupVars, RoundInv, WorkersInv
    <3>2. RoundInv'
      BY <2>17 DEF CloseReturns, leaseVars, callVars, groupVars, RoundInv
    <3>3. RenewInv'
      BY <2>17 DEF CloseReturns, leaseVars, callVars, groupVars, RenewInv, RoundInv
    <3>4. HoldInv'
      BY <2>17 DEF CloseReturns, leaseVars, callVars, groupVars, HoldInv, RenewInv, RoundInv, WriteInv, Claims
    <3>5. WriteInv'
      BY <2>17 DEF CloseReturns, leaseVars, callVars, groupVars, HoldInv, RoundInv, WriteInv, Claims
    <3>6. StoppedInv'
      BY <2>17 DEF CloseReturns, leaseVars, callVars, groupVars, RoundInv, StoppedInv, WorkersInv
    <3> QED BY <3>1, <3>2, <3>3, <3>4, <3>5, <3>6
  <2>18. CASE Exit(r)
    <3>1. WorkersInv'
      BY <2>18 DEF Exit, leaseVars, callVars, groupVars, RoundInv, WorkersInv
    <3>2. RoundInv'
      BY <2>18 DEF Exit, leaseVars, callVars, groupVars, RoundInv
    <3>3. RenewInv'
      BY <2>18 DEF Exit, leaseVars, callVars, groupVars, RenewInv, RoundInv
    <3>4. HoldInv'
      BY <2>18 DEF Exit, leaseVars, callVars, groupVars, HoldInv, RenewInv, RoundInv, WriteInv, Claims
    <3>5. WriteInv'
      BY <2>18 DEF Exit, leaseVars, callVars, groupVars, HoldInv, RoundInv, WriteInv, Claims
    <3>6. StoppedInv'
      BY <2>18 DEF Exit, leaseVars, callVars, groupVars, RoundInv, StoppedInv, WorkersInv
    <3> QED BY <3>1, <3>2, <3>3, <3>4, <3>5, <3>6
  <2> QED BY <1>2, <2>1, <2>2, <2>3, <2>4, <2>5, <2>6, <2>7, <2>8, <2>9, <2>10, <2>11, <2>12, <2>13, <2>14, <2>15, <2>16, <2>17, <2>18 DEF ClientStep, CampaignStep, ProcessStep
<1>3. CASE UNCHANGED vars
  BY <1>3 DEF vars, leaseVars, callVars, groupVars, WorkersInv, RoundInv, RenewInv, HoldInv, WriteInv, StoppedInv, Claims
<1> QED BY <1>1, <1>2, <1>3 DEF Next

\* The inductive invariant holds in every state.
LEMMA SpecElectionInv == Spec => []ElectionInv
BY InitInv, NextInv, PTL DEF Spec

\* Type correctness of the election (leader.go), for all constants.
THEOREM SpecElectionTypeOK == Spec => []ElectionTypeOK
<1>1. ElectionInv => ElectionTypeOK
  BY DEF ElectionInv
<1> QED BY <1>1, SpecElectionInv, PTL

\* The replica whose term runs, or whose workers run, holds the Lease, so at most
\* one replica leads (leader.go watchRenewals, campaign).
THEOREM SpecLeaderHoldsLease == Spec => []LeaderHoldsLease
<1>1. ElectionInv => LeaderHoldsLease
  BY DEF ElectionInv, WorkersInv, HoldInv, LeaderHoldsLease, InTerm, Claims
<1> QED BY <1>1, SpecElectionInv, PTL

\* A replica that is not being shut down releases the Lease only when its workers
\* returned (leader.go campaign, termGuard.stopped).
THEOREM SpecServingReleasesAfterWorkers == Spec => ServingReleasesAfterWorkers
<1>1. ASSUME ElectionInv, [Next]_vars, NEW r \in Replicas, Releases(r), main[r] = "serving"
      PROVE  workers[r] = "none"
  <2>1. holder = r /\ holder' = NoOne /\ r # NoOne
    BY <1>1, ReplicasAssumption DEF Releases
  <2>2. PICK q \in Replicas : Applied(q) \/ ReleaseUpdate(q)
    BY <1>1, <2>1 DEF Next, vars, leaseVars, Tick, ClientStep, CampaignStep, ProcessStep,
       Attempt, Conflict, CallFails, CallReturns, RoundEnds, BeginTerm, TermGuardWait, EndTerm, StopReturns, WorkersReturn, NoRelease, ReleaseRead, NextCampaign, Shutdown, CloseReturns, Exit
  <2>3. ReleaseUpdate(q) /\ seenAge[q] # Unseen
    BY <2>1, <2>2, ReplicasAssumption DEF Applied, ReleaseUpdate, leaseVars
  <2>4. holder = q
    BY <1>1, <2>3 DEF ReleaseUpdate, ElectionInv, WriteInv
  <2> QED BY <1>1, <2>1, <2>3, <2>4 DEF ReleaseUpdate, ElectionInv, StoppedInv
<1>2. ElectionInv /\ [Next]_vars
      => [\A r \in Replicas : Releases(r) /\ main[r] = "serving" => workers[r] = "none"]_vars
  BY <1>1
<1> QED BY <1>2, SpecElectionInv, PTL DEF Spec, ServingReleasesAfterWorkers
===========================================================================
