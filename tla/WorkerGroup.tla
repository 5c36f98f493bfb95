---------------------------- MODULE WorkerGroup ----------------------------
(***************************************************************************)
(* leader.Group of one process: it runs the leader-only workers for one     *)
(* leadership term at a time.  Two goroutines call it.  The elector calls   *)
(* Start when a term begins and Stop when the term's context is done; main  *)
(* calls Close once, on shutdown, and then cancels the elector's context.   *)
(* Each Start makes a goroutine of its own, which waits for the previous    *)
(* term before it starts the workers.                                       *)
(*                                                                          *)
(* A term is named by its number; 0 stands for a nil channel or function.   *)
(***************************************************************************)
EXTENDS Naturals

CONSTANTS Workers,   \* the workers that may be registered
          MaxTerms   \* bound on the number of terms that Start creates

ASSUME MaxTermsAssumption == MaxTerms \in Nat

VARIABLES
  workers,     \* g.workers
  active,      \* the term behind g.cancel and g.done, 0 when they are nil
  prevDone,    \* the term whose done channel is g.prevDone, 0 when nil
  closed,      \* g.closed
  lastTerm,    \* number of terms created so far
  prev,        \* [term -> the term it waits for, 0 for none]
  copied,      \* [term -> the workers Start copied for it]
  cancelled,   \* [term -> its context is done]
  goroutine,   \* [term -> where its goroutine is]
  running,     \* [term -> the workers whose Run has not returned]
  elector,     \* where the elector's goroutine is
  electorTerm, \* the term the elector's last Start created, 0 if none
  stopping,    \* the term the elector's Stop waits for
  stopResult,  \* what the elector's last Stop returned
  main,        \* where main's shutdown is
  closing,     \* the term main's Close waits for
  closeResult  \* what Close returned

groupVars == <<workers, active, prevDone, closed, lastTerm>>
termVars == <<prev, copied, cancelled, goroutine, running>>
electorVars == <<elector, electorTerm, stopping, stopResult>>
mainVars == <<main, closing, closeResult>>
vars == <<groupVars, termVars, electorVars, mainVars>>

Terms == 1..MaxTerms
Results == {"none", "true", "false"}

TypeOK ==
  /\ workers \subseteq Workers
  /\ active \in 0..MaxTerms
  /\ prevDone \in 0..MaxTerms
  /\ closed \in BOOLEAN
  /\ lastTerm \in 0..MaxTerms
  /\ prev \in [Terms -> 0..MaxTerms]
  /\ copied \in [Terms -> SUBSET Workers]
  /\ cancelled \in [Terms -> BOOLEAN]
  /\ goroutine \in [Terms -> {"none", "waiting", "draining", "running", "done"}]
  /\ running \in [Terms -> SUBSET Workers]
  /\ elector \in {"campaigning", "leading", "lost", "stopping", "ended"}
  /\ electorTerm \in 0..MaxTerms
  /\ stopping \in 0..MaxTerms
  /\ stopResult \in Results
  /\ main \in {"serving", "closing", "waiting", "cancelling", "finished"}
  /\ closing \in 0..MaxTerms
  /\ closeResult \in Results

Init ==
  /\ workers = {}
  /\ active = 0
  /\ prevDone = 0
  /\ closed = FALSE
  /\ lastTerm = 0
  /\ prev = [t \in Terms |-> 0]
  /\ copied = [t \in Terms |-> {}]
  /\ cancelled = [t \in Terms |-> FALSE]
  /\ goroutine = [t \in Terms |-> "none"]
  /\ running = [t \in Terms |-> {}]
  /\ elector = "campaigning"
  /\ electorTerm = 0
  /\ stopping = 0
  /\ stopResult = "none"
  /\ main = "serving"
  /\ closing = 0
  /\ closeResult = "none"

-----------------------------------------------------------------------------
(* Registration                                                             *)

\* Group.Add: the worker starts with the next term.
Add(w) ==
  /\ w \notin workers
  /\ workers' = workers \cup {w}
  /\ UNCHANGED <<active, prevDone, closed, lastTerm, termVars, electorVars, mainVars>>

-----------------------------------------------------------------------------
(* The elector's goroutine                                                  *)

\* Group.Start under g.mu, when the group is closed: it does nothing.  The
\* elector waits for the end of its term all the same.
StartNothing ==
  /\ elector = "campaigning"
  /\ main # "finished"
  /\ closed \/ active # 0
  /\ elector' = "leading"
  /\ electorTerm' = 0
  /\ UNCHANGED <<groupVars, termVars, stopping, stopResult, mainVars>>

\* Mutant of Start: g.prevDone is set to the new channel before prev is read,
\* so the term waits for itself.
StartWaitsForItself ==
  /\ elector = "campaigning"
  /\ main # "finished"
  /\ ~closed
  /\ active = 0
  /\ lastTerm < MaxTerms
  /\ LET t == lastTerm + 1 IN
       /\ lastTerm' = t
       /\ active' = t
       /\ prev' = [prev EXCEPT ![t] = t]
       /\ copied' = [copied EXCEPT ![t] = workers]
       /\ goroutine' = [goroutine EXCEPT ![t] = "waiting"]
       /\ electorTerm' = t
  /\ elector' = "leading"
  /\ UNCHANGED <<workers, prevDone, closed, cancelled, running, stopping,
                 stopResult, mainVars>>

\* Group.Start under g.mu: a new term that waits for the last stopped one.
Start ==
  /\ elector = "campaigning"
  /\ main # "finished"
  /\ ~closed
  /\ active = 0
  /\ lastTerm < MaxTerms
  /\ LET t == lastTerm + 1 IN
       /\ lastTerm' = t
       /\ active' = t
       /\ prev' = [prev EXCEPT ![t] = prevDone]
       /\ copied' = [copied EXCEPT ![t] = workers]
       /\ goroutine' = [goroutine EXCEPT ![t] = "waiting"]
       /\ electorTerm' = t
  /\ elector' = "leading"
  /\ UNCHANGED <<workers, prevDone, closed, cancelled, running, stopping,
                 stopResult, mainVars>>

\* The context of the elector's term is done: the lease was lost, or main
\* cancelled the election.  The context of the group's term derives from it.
TermContextDone ==
  /\ elector = "leading"
  /\ elector' = "lost"
  /\ cancelled' = [t \in Terms |-> cancelled[t] \/ t = electorTerm]
  /\ UNCHANGED <<groupVars, prev, copied, goroutine, running, electorTerm, stopping,
                 stopResult, mainVars>>

\* The locked part of Group.stop and the cancel() after it.
TakeActive ==
  /\ active' = 0
  /\ prevDone' = IF active # 0 THEN active ELSE prevDone
  /\ cancelled' = [t \in Terms |-> cancelled[t] \/ t = active]

\* Group.Stop called by the elector.  Nothing to stop: true at once.
Stop ==
  /\ elector = "lost"
  /\ TakeActive
  /\ stopping' = active
  /\ IF active = 0
       THEN elector' = "campaigning" /\ stopResult' = "true"
       ELSE elector' = "stopping" /\ stopResult' = "none"
  /\ UNCHANGED <<workers, closed, lastTerm, prev, copied, goroutine, running,
                 electorTerm, mainVars>>

\* The select at the end of stop: the done channel closed.
StopDone ==
  /\ elector = "stopping"
  /\ goroutine[stopping] = "done"
  /\ elector' = "campaigning"
  /\ stopResult' = "true"
  /\ UNCHANGED <<groupVars, termVars, electorTerm, stopping, mainVars>>

\* The select at the end of stop: the stop timeout fired.
StopTimeout ==
  /\ elector = "stopping"
  /\ elector' = "campaigning"
  /\ stopResult' = "false"
  /\ UNCHANGED <<groupVars, termVars, electorTerm, stopping, mainVars>>

\* Elector.Run leaves its loop once main cancelled its context.
ElectorEnds ==
  /\ elector = "campaigning"
  /\ main = "finished"
  /\ elector' = "ended"
  /\ UNCHANGED <<groupVars, termVars, electorTerm, stopping, stopResult, mainVars>>

-----------------------------------------------------------------------------
(* main's shutdown: leaderRuntime.Shutdown                                  *)

\* Group.Close sets closed under g.mu.
Close ==
  /\ main = "serving"
  /\ main' = "closing"
  /\ closed' = TRUE
  /\ UNCHANGED <<workers, active, prevDone, lastTerm, termVars, electorVars,
                 closing, closeResult>>

\* Group.Close calls stop.
CloseStop ==
  /\ main = "closing"
  /\ TakeActive
  /\ closing' = active
  /\ IF active = 0
       THEN main' = "cancelling" /\ closeResult' = "true"
       ELSE main' = "waiting" /\ closeResult' = "none"
  /\ UNCHANGED <<workers, closed, lastTerm, prev, copied, goroutine, running, electorVars>>

CloseDone ==
  /\ main = "waiting"
  /\ goroutine[closing] = "done"
  /\ main' = "cancelling"
  /\ closeResult' = "true"
  /\ UNCHANGED <<groupVars, termVars, electorVars, closing>>

CloseTimeout ==
  /\ main = "waiting"
  /\ main' = "cancelling"
  /\ closeResult' = "false"
  /\ UNCHANGED <<groupVars, termVars, electorVars, closing>>

\* r.cancel(): the elector's context, and so that of its term, is done.
CancelElection ==
  /\ main = "cancelling"
  /\ main' = "finished"
  /\ UNCHANGED <<groupVars, termVars, electorVars, closing, closeResult>>

-----------------------------------------------------------------------------
(* The goroutine of a term                                                  *)

PrevReturned(t) == prev[t] # 0 => goroutine[prev[t]] = "done"

\* Mutant of RunWorkers: the workers start without the wait for prev.
RunWithoutWaiting(t) ==
  /\ goroutine[t] = "waiting"
  /\ goroutine' = [goroutine EXCEPT ![t] = "running"]
  /\ running' = [running EXCEPT ![t] = copied[t]]
  /\ UNCHANGED <<groupVars, prev, copied, cancelled, electorVars, mainVars>>

\* The previous term's workers returned (or there is no previous term): the
\* goroutine starts the workers.
RunWorkers(t) ==
  /\ goroutine[t] = "waiting"
  /\ PrevReturned(t)
  /\ goroutine' = [goroutine EXCEPT ![t] = "running"]
  /\ running' = [running EXCEPT ![t] = copied[t]]
  /\ UNCHANGED <<groupVars, prev, copied, cancelled, electorVars, mainVars>>

\* The term ends before it started its workers.
TermEndsBeforeRun(t) ==
  /\ goroutine[t] = "waiting"
  /\ prev[t] # 0
  /\ cancelled[t]
  /\ goroutine' = [goroutine EXCEPT ![t] = "draining"]
  /\ UNCHANGED <<groupVars, prev, copied, cancelled, running, electorVars, mainVars>>

\* <-prev, then the deferred close(done).
Drained(t) ==
  /\ goroutine[t] = "draining"
  /\ PrevReturned(t)
  /\ goroutine' = [goroutine EXCEPT ![t] = "done"]
  /\ UNCHANGED <<groupVars, prev, copied, cancelled, running, electorVars, mainVars>>

\* A worker's Run returns after its context is done.
WorkerReturns(t, w) ==
  /\ w \in running[t]
  /\ cancelled[t]
  /\ running' = [running EXCEPT ![t] = @ \ {w}]
  /\ UNCHANGED <<groupVars, prev, copied, cancelled, goroutine, electorVars, mainVars>>

\* wg.Wait returns, then the deferred close(done).
TermDone(t) ==
  /\ goroutine[t] = "running"
  /\ running[t] = {}
  /\ goroutine' = [goroutine EXCEPT ![t] = "done"]
  /\ UNCHANGED <<groupVars, prev, copied, cancelled, running, electorVars, mainVars>>

-----------------------------------------------------------------------------
ElectorStep ==
  \/ StartNothing \/ Start \/ TermContextDone
  \/ Stop \/ StopDone \/ StopTimeout \/ ElectorEnds

MainStep == Close \/ CloseStop \/ CloseDone \/ CloseTimeout \/ CancelElection

TermStep(t) ==
  \/ RunWorkers(t) \/ TermEndsBeforeRun(t) \/ Drained(t) \/ TermDone(t)
  \/ \E w \in Workers : WorkerReturns(t, w)

Next ==
  \/ \E w \in Workers : Add(w)
  \/ ElectorStep
  \/ MainStep
  \/ \E t \in Terms : TermStep(t)

Spec == Init /\ [][Next]_vars

-----------------------------------------------------------------------------
(* Properties                                                               *)

NoWorkerRuns == \A t \in Terms : running[t] = {}

\* "When the workers of the previous term did not stop in time, the new
\* workers start only after the old workers returned" (Group.Start): no two
\* terms run workers at the same time, however often a stop timed out.
TermsNeverOverlap ==
  \A t, u \in Terms : running[t] # {} /\ running[u] # {} => t = u

\* A Stop that waited and reports success means that no worker of any term
\* runs, also none of an earlier term whose stop timed out: on that answer
\* campaign releases the lease.
StopTrueMeansStopped ==
  /\ elector \in {"campaigning", "ended"}
  /\ stopResult = "true"
  /\ stopping # 0
  => NoWorkerRuns

\* The same for a Close that found a term to stop.  No Start follows it, so no
\* worker runs for the rest of the process.
CloseTrueMeansStopped ==
  closing # 0 /\ closeResult = "true" => NoWorkerRuns

\* Elector.Run: "onStoppedLeading must stop the leader workers, wait for them
\* and report whether they stopped in time.  When they did not, the lease is
\* not released".  Group.Stop is that callback.
StopReportsWorkers ==
  elector \in {"campaigning", "ended"} /\ stopResult = "true" => NoWorkerRuns

\* A term that Start created runs its workers or gives them up, however long
\* the chain of terms that it waits for.
EveryTermGetsItsTurn ==
  \A t \in Terms : []<>(goroutine[t] # "waiting")

\* Shutdown ends, and it ends with every worker returned: a Close that times
\* out delays nothing but the workers themselves.
ShutdownEnds ==
  <>[](main # "serving" => main = "finished" /\ elector = "ended" /\ NoWorkerRuns)
=============================================================================
