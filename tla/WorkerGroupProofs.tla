------------------------- MODULE WorkerGroupProofs -------------------------
(***************************************************************************)
(* The safety properties of WorkerGroup for every set of workers and every  *)
(* number of terms.                                                         *)
(*                                                                          *)
(* The argument: each term waits for the term created just before it        *)
(* (ChainInv), so a term whose goroutine got past its wait has only ended   *)
(* terms before it (OrderInv), and only the newest term can be one that a   *)
(* stop waits for (CallerInv).                                              *)
(***************************************************************************)
EXTENDS WorkerGroup, TLAPS

\* The group always refers to the newest term: it is the active one, or the
\* last stopped one.  Terms wait for their predecessor.
ChainInv ==
  /\ active \in {0, lastTerm}
  /\ active = 0 => prevDone = lastTerm
  /\ active # 0 => prevDone = lastTerm - 1
  /\ \A t \in Terms : t <= lastTerm => prev[t] = t - 1
  /\ \A t \in Terms : goroutine[t] = "none" <=> t > lastTerm

\* A term that started its workers, or ended, has only ended terms before it.
OrderInv ==
  /\ \A t \in Terms : running[t] # {} => goroutine[t] = "running"
  /\ \A t, u \in Terms :
       goroutine[u] \in {"running", "done"} /\ t < u => goroutine[t] = "done"

\* The term that a caller's stop waits for, or waited for, is the newest one.
CallerInv ==
  /\ closing # 0 => closed /\ closing = lastTerm
  /\ closing # 0 /\ closeResult = "true" => goroutine[closing] = "done"
  /\ elector \in {"stopping", "campaigning", "ended"} /\ stopping # 0 => stopping = lastTerm
  /\ elector = "stopping" => stopping # 0
  /\ main = "waiting" => closing # 0
  /\ elector \in {"campaigning", "ended"} /\ stopping # 0 /\ stopResult = "true"
       => goroutine[stopping] = "done"
  /\ closed <=> main # "serving"
  /\ main = "closing" => closing = 0

\* The inductive invariant.
IInv == TypeOK /\ ChainInv /\ OrderInv /\ CallerInv

LEMMA InitIInv == Init => IInv
<1> SUFFICES ASSUME Init PROVE IInv
  OBVIOUS
<1> USE MaxTermsAssumption DEF Init, Terms
<1>1. TypeOK
  <2>1. closed \in BOOLEAN
    OBVIOUS
  <2> QED BY <2>1 DEF TypeOK, Results
<1>2. ChainInv
  BY DEF ChainInv
<1>3. OrderInv
  BY DEF OrderInv
<1>4. CallerInv
  BY DEF CallerInv
<1> QED BY <1>1, <1>2, <1>3, <1>4 DEF IInv

LEMMA NextTypeOK == TypeOK /\ [Next]_vars => TypeOK'
<1> SUFFICES ASSUME TypeOK, [Next]_vars
             PROVE  TypeOK'
  OBVIOUS
<1> USE MaxTermsAssumption DEF TypeOK, Terms, Results
<1>1. ASSUME NEW w \in Workers, Add(w) PROVE TypeOK'
  BY <1>1 DEF Add, termVars, electorVars, mainVars
<1>2. CASE ElectorStep
  <2>1. CASE StartNothing
    BY <2>1 DEF StartNothing, groupVars, termVars, mainVars
  <2>2. CASE Start
    BY <2>2 DEF Start, mainVars
  <2>3. CASE TermContextDone
    BY <2>3 DEF TermContextDone, groupVars, mainVars
  <2>4. CASE Stop
    BY <2>4 DEF Stop, TakeActive, mainVars
  <2>5. CASE StopDone
    BY <2>5 DEF StopDone, groupVars, termVars, mainVars
  <2>6. CASE StopTimeout
    BY <2>6 DEF StopTimeout, groupVars, termVars, mainVars
  <2>7. CASE ElectorEnds
    BY <2>7 DEF ElectorEnds, groupVars, termVars, mainVars
  <2> QED BY <1>2, <2>1, <2>2, <2>3, <2>4, <2>5, <2>6, <2>7 DEF ElectorStep
<1>3. CASE MainStep
  <2>1. CASE Close
    BY <2>1 DEF Close, termVars, electorVars
  <2>2. CASE CloseStop
    BY <2>2 DEF CloseStop, TakeActive, electorVars
  <2>3. CASE CloseDone
    BY <2>3 DEF CloseDone, groupVars, termVars, electorVars
  <2>4. CASE CloseTimeout
    BY <2>4 DEF CloseTimeout, groupVars, termVars, electorVars
  <2>5. CASE CancelElection
    BY <2>5 DEF CancelElection, groupVars, termVars, electorVars
  <2> QED BY <1>3, <2>1, <2>2, <2>3, <2>4, <2>5 DEF MainStep
<1>4. ASSUME NEW t \in Terms, TermStep(t) PROVE TypeOK'
  <2>1. CASE RunWorkers(t)
    BY <2>1 DEF RunWorkers, groupVars, electorVars, mainVars
  <2>2. CASE TermEndsBeforeRun(t)
    BY <2>2 DEF TermEndsBeforeRun, groupVars, electorVars, mainVars
  <2>3. CASE Drained(t)
    BY <2>3 DEF Drained, groupVars, electorVars, mainVars
  <2>4. CASE TermDone(t)
    BY <2>4 DEF TermDone, groupVars, electorVars, mainVars
  <2>5. ASSUME NEW w \in Workers, WorkerReturns(t, w) PROVE TypeOK'
    BY <2>5 DEF WorkerReturns, groupVars, electorVars, mainVars
  <2> QED BY <1>4, <2>1, <2>2, <2>3, <2>4, <2>5 DEF TermStep
<1>5. CASE UNCHANGED vars
  BY <1>5 DEF vars, groupVars, termVars, electorVars, mainVars
<1> QED BY <1>1, <1>2, <1>3, <1>4, <1>5 DEF Next

LEMMA NextIInv == IInv /\ [Next]_vars => IInv'
<1> SUFFICES ASSUME IInv, [Next]_vars
             PROVE  IInv'
  OBVIOUS
<1>0. TypeOK'
  BY NextTypeOK DEF IInv
<1> USE MaxTermsAssumption, <1>0 DEF IInv, TypeOK, ChainInv, OrderInv, CallerInv, Terms, Results
<1>1. ASSUME NEW w \in Workers, Add(w) PROVE IInv'
  BY <1>1 DEF Add, termVars, electorVars, mainVars
<1>2. CASE ElectorStep
  <2>1. CASE StartNothing
    BY <2>1 DEF StartNothing, groupVars, termVars, mainVars
  <2>2. CASE Start
    <3>1. ChainInv'
      BY <2>2, SMTT(30) DEF Start, mainVars
    <3>2. OrderInv'
      BY <2>2, SMTT(30) DEF Start, mainVars
    <3>3. CallerInv'
      BY <2>2, SMTT(30) DEF Start, mainVars
    <3> QED BY <3>1, <3>2, <3>3
  <2>3. CASE TermContextDone
    BY <2>3 DEF TermContextDone, groupVars, mainVars
  <2>4. CASE Stop
    BY <2>4 DEF Stop, TakeActive, mainVars
  <2>5. CASE StopDone
    BY <2>5 DEF StopDone, groupVars, termVars, mainVars
  <2>6. CASE StopTimeout
    BY <2>6 DEF StopTimeout, groupVars, termVars, mainVars
  <2>7. CASE ElectorEnds
    BY <2>7 DEF ElectorEnds, groupVars, termVars, mainVars
  <2> QED BY <1>2, <2>1, <2>2, <2>3, <2>4, <2>5, <2>6, <2>7 DEF ElectorStep
<1>3. CASE MainStep
  <2>1. CASE Close
    BY <2>1 DEF Close, termVars, electorVars
  <2>2. CASE CloseStop
    BY <2>2 DEF CloseStop, TakeActive, electorVars
  <2>3. CASE CloseDone
    BY <2>3 DEF CloseDone, groupVars, termVars, electorVars
  <2>4. CASE CloseTimeout
    BY <2>4 DEF CloseTimeout, groupVars, termVars, electorVars
  <2>5. CASE CancelElection
    BY <2>5 DEF CancelElection, groupVars, termVars, electorVars
  <2> QED BY <1>3, <2>1, <2>2, <2>3, <2>4, <2>5 DEF MainStep
<1>4. ASSUME NEW t \in Terms, TermStep(t) PROVE IInv'
  <2>1. CASE RunWorkers(t)
    <3> USE <2>1 DEF RunWorkers, groupVars, electorVars, mainVars
    <3>1. t <= lastTerm /\ prev[t] = t - 1
      OBVIOUS
    <3>2. \A u \in Terms : u < t => goroutine[u] = "done"
      BY <3>1 DEF PrevReturned
    <3>3. ChainInv'
      OBVIOUS
    <3>4. OrderInv'
      BY <3>2
    <3>5. CallerInv'
      OBVIOUS
    <3> QED BY <3>3, <3>4, <3>5
  <2>2. CASE TermEndsBeforeRun(t)
    BY <2>2 DEF TermEndsBeforeRun, groupVars, electorVars, mainVars
  <2>3. CASE Drained(t)
    <3> USE <2>3 DEF Drained, groupVars, electorVars, mainVars
    <3>1. t <= lastTerm /\ prev[t] = t - 1
      OBVIOUS
    <3>2. \A u \in Terms : u < t => goroutine[u] = "done"
      BY <3>1 DEF PrevReturned
    <3>3. ChainInv'
      OBVIOUS
    <3>4. OrderInv'
      BY <3>2
    <3>5. CallerInv'
      OBVIOUS
    <3> QED BY <3>3, <3>4, <3>5
  <2>4. CASE TermDone(t)
    <3> USE <2>4 DEF TermDone, groupVars, electorVars, mainVars
    <3>1. ChainInv'
      OBVIOUS
    <3>2. OrderInv'
      OBVIOUS
    <3>3. CallerInv'
      OBVIOUS
    <3> QED BY <3>1, <3>2, <3>3
  <2>5. ASSUME NEW w \in Workers, WorkerReturns(t, w) PROVE IInv'
    BY <2>5 DEF WorkerReturns, groupVars, electorVars, mainVars
  <2> QED BY <1>4, <2>1, <2>2, <2>3, <2>4, <2>5 DEF TermStep
<1>5. CASE UNCHANGED vars
  BY <1>5 DEF vars, groupVars, termVars, electorVars, mainVars
<1> QED BY <1>1, <1>2, <1>3, <1>4, <1>5 DEF Next

LEMMA SpecIInv == Spec => []IInv
  BY InitIInv, NextIInv, PTL DEF Spec

\* The state of the group is well typed: the pointers of Group (cancel, done,
\* prevDone) always name a term that Start created, or none.
THEOREM SpecTypeOK == Spec => []TypeOK
<1>1. IInv => TypeOK
  BY DEF IInv
<1> QED BY <1>1, SpecIInv, PTL

\* Group.Start: the workers of two terms never run at the same time, for any
\* number of terms and of stops that timed out.
THEOREM SpecTermsNeverOverlap == Spec => []TermsNeverOverlap
<1>1. IInv => TermsNeverOverlap
  BY MaxTermsAssumption
  DEF IInv, TypeOK, OrderInv, TermsNeverOverlap, Terms
<1> QED BY <1>1, SpecIInv, PTL

\* Group.Stop: a stop that waited for a term and answers true leaves no worker
\* of that term or of an earlier one, so the lease may be released.
THEOREM SpecStopTrueMeansStopped == Spec => []StopTrueMeansStopped
<1>1. IInv => StopTrueMeansStopped
  <2> SUFFICES ASSUME IInv, elector \in {"campaigning", "ended"},
                      stopResult = "true", stopping # 0, NEW t \in Terms
               PROVE  running[t] = {}
    BY DEF StopTrueMeansStopped, NoWorkerRuns
  <2> USE MaxTermsAssumption DEF IInv, TypeOK, Terms
  <2>1. stopping = lastTerm /\ goroutine[stopping] = "done" /\ stopping \in Terms
    BY DEF CallerInv
  <2>2. goroutine[t] \in {"none", "done"}
    BY <2>1 DEF ChainInv, OrderInv
  <2> QED BY <2>2 DEF OrderInv
<1> QED BY <1>1, SpecIInv, PTL

\* Group.Close: a Close that waited for a term and answers true leaves no
\* worker for the rest of the process, since Start does nothing afterwards.
THEOREM SpecCloseTrueMeansStopped == Spec => []CloseTrueMeansStopped
<1>1. IInv => CloseTrueMeansStopped
  <2> SUFFICES ASSUME IInv, closing # 0, closeResult = "true", NEW t \in Terms
               PROVE  running[t] = {}
    BY DEF CloseTrueMeansStopped, NoWorkerRuns
  <2> USE MaxTermsAssumption DEF IInv, TypeOK, Terms
  <2>1. closing = lastTerm /\ goroutine[closing] = "done" /\ closing \in Terms
    BY DEF CallerInv
  <2>2. goroutine[t] \in {"none", "done"}
    BY <2>1 DEF ChainInv, OrderInv
  <2> QED BY <2>2 DEF OrderInv
<1> QED BY <1>1, SpecIInv, PTL
=============================================================================
