------------------------------ MODULE PodEvents ------------------------------
(* The pod event watch of one deploy or rollback                             *)
(* (internal/deployer/pod_events.go): a goroutine polls the Warning events   *)
(* and waiting containers of the namespace, the operation drains the lines   *)
(* into the stored log after every chart and stops the watch at its end.     *)
(* Problems with one reason and object form a group; a line is a group with  *)
(* its count.                                                                *)
EXTENDS Integers, Sequences, SequencesExt, FiniteSets, FiniteSetsExt

CONSTANTS
    Problems,       \* the problems that may occur, by Key
    GroupOf,        \* podProblemGroupKey: [Problems -> groups]
    ScoreOf,        \* podProblemScore: [Problems -> 1 .. 4]
    MaxLinesPerPoll,\* maxPodEventLinesPerPoll
    MaxLines        \* maxPodEventLines

Groups == {GroupOf[p] : p \in Problems}
Notice == "notice"

ASSUME PodEventsAssumption ==
    /\ IsFiniteSet(Problems)
    /\ ScoreOf \in [Problems -> 1 .. 4]
    /\ MaxLinesPerPoll \in Nat \ {0} /\ MaxLines \in Nat \ {0}
    /\ Notice \notin Groups

VARIABLES
    present,        \* what ListPodProblems would return now
    listed,         \* ghost: every problem a poll has returned
    watch,          \* the fields of podEventWatch
    stream,         \* lines sent to the WebSocket log, per group
    storedCount,    \* per group: the count of its last line in the stored log
    watchPhase      \* polls, stopped

eventVars == <<present, listed, watch, stream, storedCount, watchPhase>>

EventsInit ==
    /\ present = {} /\ listed = {}
    /\ watch = [seen |-> {}, count |-> [g \in Groups |-> 0],
                streamed |-> [g \in Groups |-> 0], pending |-> {},
                emitted |-> 0, capped |-> FALSE, bestScore |-> 0]
    /\ stream = [g \in Groups |-> 0]
    /\ storedCount = [g \in Groups |-> 0]
    /\ watchPhase = "polls"

EventsTypeOK ==
    /\ present \subseteq Problems /\ listed \subseteq Problems
    /\ watch.seen \subseteq listed
    /\ watch.count \in [Groups -> 0 .. Cardinality(Problems)]
    /\ watch.pending \subseteq Groups \cup {Notice}
    /\ watch.emitted \in 0 .. MaxLines
    /\ watchPhase \in {"polls", "stopped"}

\* The events and container states of the namespace come and go.
PodsChange ==
    /\ watchPhase = "polls"
    /\ \E p \in Problems : present' = IF p \in present THEN present \ {p} ELSE present \cup {p}
    /\ UNCHANGED <<listed, watch, stream, storedCount, watchPhase>>

----------------------------------------------------------------------------
(* record: one poll, problem by problem in the order of the list.            *)

updateBest(w, p) == Max({w.bestScore, ScoreOf[p]})

\* A problem of a known group only raises its count.
KnownGroup(acc, p) ==
    [acc EXCEPT !.w.seen = @ \cup {p}, !.w.bestScore = updateBest(acc.w, p),
                !.w.count[GroupOf[p]] = @ + 1, !.w.pending = @ \cup {GroupOf[p]},
                !.touched = @ \cup {GroupOf[p]}]

\* Past the line limit a problem is only kept for the error message; the first one
\* gives a notice.
PastLimit(acc, p) ==
    [acc EXCEPT !.w.seen = @ \cup {p}, !.w.bestScore = updateBest(acc.w, p),
                !.w.pending = IF acc.w.capped THEN @ ELSE @ \cup {Notice},
                !.w.capped = TRUE]

NewGroup(acc, p) ==
    [acc EXCEPT !.w.seen = @ \cup {p}, !.w.bestScore = updateBest(acc.w, p),
                !.w.count[GroupOf[p]] = 1, !.w.pending = @ \cup {GroupOf[p]},
                !.w.emitted = @ + 1, !.perPoll = @ + 1,
                !.touched = @ \cup {GroupOf[p]}]

RecordOne(acc, p) ==
    IF p \in acc.w.seen THEN acc
    ELSE IF acc.w.count[GroupOf[p]] > 0 THEN KnownGroup(acc, p)
    ELSE IF acc.w.capped \/ acc.w.emitted >= MaxLines THEN PastLimit(acc, p)
    ELSE IF acc.perPoll >= MaxLinesPerPoll THEN acc     \* unseen: left for the next poll
    ELSE NewGroup(acc, p)

\* A group of this poll is streamed when it is new, and again when its count has
\* doubled since its last line.
StreamedAgain(w, g) == w.streamed[g] = 0 \/ w.count[g] >= 2 * w.streamed[g]

record(problems) ==
    LET acc == FoldLeft(RecordOne, [w |-> watch, perPoll |-> 0, touched |-> {}], problems)
        lines == {g \in acc.touched : StreamedAgain(acc.w, g)}
    IN [w |-> [acc.w EXCEPT !.streamed = [g \in Groups |->
                    IF g \in lines THEN acc.w.count[g] ELSE @[g]]],
        stream |-> [g \in Groups |-> IF g \in lines THEN stream[g] + 1 ELSE stream[g]]]

\* drain: one line per group with its current count.
drain(w) == [g \in Groups |-> IF g \in w.pending THEN w.count[g] ELSE storedCount[g]]

----------------------------------------------------------------------------
\* One poll; a list that fails changes nothing.
poll ==
    /\ watchPhase = "polls"
    /\ \E s \in SetToSeqs(present) :
        LET r == record(s) IN watch' = r.w /\ stream' = r.stream
    /\ listed' = listed \cup present
    /\ UNCHANGED <<present, storedCount, watchPhase>>

\* The operation takes the lines after a chart.
drainLines ==
    /\ watchPhase = "polls"
    /\ storedCount' = drain(watch)
    /\ watch' = [watch EXCEPT !.pending = {}]
    /\ UNCHANGED <<present, listed, stream, watchPhase>>

\* stop: wait for the goroutine, read once more, drain.
stop ==
    /\ watchPhase = "polls"
    /\ watchPhase' = "stopped"
    /\ \E s \in SetToSeqs(present) :
        LET r == record(s)
        IN /\ storedCount' = drain(r.w)
           /\ watch' = [r.w EXCEPT !.pending = {}]
           /\ stream' = r.stream
    /\ listed' = listed \cup present
    /\ UNCHANGED present

\* stop, when the last list fails.
stopUnread ==
    /\ watchPhase = "polls"
    /\ watchPhase' = "stopped"
    /\ storedCount' = drain(watch)
    /\ watch' = [watch EXCEPT !.pending = {}]
    /\ UNCHANGED <<present, listed, stream>>

EventsNext == PodsChange \/ poll \/ drainLines \/ stop \/ stopUnread

EventsSpec == EventsInit /\ [][EventsNext]_eventVars

----------------------------------------------------------------------------
\* When the watch has stopped, the stored log shows every group that was counted,
\* with the number of its distinct problems, however polls and drains interleaved
\* (record, drain, stop).
StoredLogCountsEveryProblem ==
    watchPhase = "stopped" =>
        \A g \in Groups :
            \/ storedCount[g] = Cardinality({p \in watch.seen : GroupOf[p] = g})
            \/ watch.capped /\ watch.count[g] = 0

\* A group gives few WebSocket lines: n lines stand for at least 2^(n-1) problems
\* (the count doubles between two streamed lines of a group).
StreamedLinesDouble == \A g \in Groups : stream[g] > 0 => watch.count[g] >= 2 ^ (stream[g] - 1)

\* The problem kept for the error message is the most relevant one of all problems
\* the watch has taken, also of those past the line limit (updateBest).
BestIsMostRelevant ==
    watch.bestScore = Max({0} \cup {ScoreOf[p] : p \in watch.seen})

\* What the comment in stop says: "a problem of the last seconds (for example the
\* quota rejection just before the Helm hook timed out) is not lost".
LastProblemNotLost == watchPhase = "stopped" => listed \subseteq watch.seen
=============================================================================
