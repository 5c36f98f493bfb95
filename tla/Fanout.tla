------------------------------- MODULE Fanout -------------------------------
(* websocket/fanout.go and database/ws_event_repository.go: the hubs of the  *)
(* replicas share their messages through the table ws_events.  Each replica  *)
(* has one writer, which inserts its queue in batches, and one poller, which *)
(* reads the table by ID.  MySQL gives out the IDs when an insert starts,    *)
(* but the rows are visible only when it commits: the poller keeps the IDs   *)
(* it jumped over and reads them again.                                      *)
EXTENDS Integers, Sequences, FiniteSets, FiniteSetsExt, SequencesExt

CONSTANTS
    FanReplicas,
    FanPollers,     \* the replicas whose poller is followed
    MaxPublished,   \* replica -> bound of the events it publishes
    FanBuffer,      \* BufferSize of the write queue
    WriteBatch,     \* rows of one INSERT
    PollBatch,      \* rows of one page
    StartWindow,    \* WriteBatch x fanoutStartReplicas
    MaxGapSpan,     \* fanoutMaxGapSpan
    QueryTimeout,   \* bound of one statement
    GapTimeout,
    MaxAge,
    FanRetention,   \* age at which the cleaner deletes a row
    MaxFanTime,     \* bound of the clock
    FanFaults       \* subset of {"insert", "poll", "reset", "stop"}

ASSUME FanoutAssumption ==
    /\ FanPollers \subseteq FanReplicas
    /\ WriteBatch > 0 /\ PollBatch > 0 /\ QueryTimeout < GapTimeout
    /\ MaxAge + QueryTimeout * (FanBuffer \div WriteBatch) <= FanRetention  \* an event waits so long in the queue
    /\ FanFaults \subseteq {"insert", "poll", "reset", "stop"}

VARIABLES
    fanNow,
    published,      \* replica -> events published so far (the bound, after its stop)
    fanQueue,       \* replica -> the queue of its writer
    insert,         \* replica -> the rows of its running INSERT
    table,          \* committed rows of ws_events
    nextId,         \* auto-increment counter
    counterReset,   \* the counter started again once (history)
    poller,
    got             \* poller -> the events it delivered, in order

fanVars == <<fanNow, published, fanQueue, insert, table, nextId, counterReset, poller, got>>

NewPoller == [pc |-> "new", lastID |-> 0, missing |-> {}, from |-> 0, maxID |-> 0, at |-> 0, old |-> {},
              handled |-> {}]

FanInit ==
    /\ fanNow = 0 /\ nextId = 1 /\ counterReset = FALSE /\ table = {}
    /\ published = [r \in FanReplicas |-> 0]
    /\ fanQueue = [r \in FanReplicas |-> <<>>]
    /\ insert = [r \in FanReplicas |-> {}]
    /\ poller = [p \in FanPollers |-> NewPoller]
    /\ got = [p \in FanPollers |-> <<>>]

----------------------------------------------------------------------------
(* The write path.                                                           *)

\* publish: the local clients have the message; the row is queued, or dropped when the queue is full.
Publish(r) ==
    /\ published[r] < MaxPublished[r]
    /\ published' = [published EXCEPT ![r] = @ + 1]
    /\ fanQueue' = IF Len(fanQueue[r]) < FanBuffer
                   THEN [fanQueue EXCEPT ![r] = Append(@, [origin |-> r, n |-> published[r] + 1, at |-> fanNow])]
                   ELSE fanQueue
    /\ UNCHANGED <<fanNow, insert, table, nextId, counterReset, poller, got>>

\* writeLoop and fillBatch: the INSERT takes the next IDs.
StartInsert(r) ==
    /\ insert[r] = {} /\ fanQueue[r] # <<>>
    /\ \E k \in 1 .. Min({WriteBatch, Len(fanQueue[r])}) :
        /\ insert' = [insert EXCEPT ![r] = {[id |-> nextId + i - 1, ev |-> fanQueue[r][i], since |-> fanNow] : i \in 1 .. k}]
        /\ fanQueue' = [fanQueue EXCEPT ![r] = SubSeq(@, k + 1, Len(@))]
        /\ nextId' = nextId + k
    /\ UNCHANGED <<fanNow, published, table, counterReset, poller, got>>

\* The commit makes the rows of the batch visible.
CommitInsert(r) ==
    /\ insert[r] # {}
    /\ table' = table \cup {[id |-> x.id, ev |-> x.ev] : x \in insert[r]}
    /\ insert' = [insert EXCEPT ![r] = {}]
    /\ UNCHANGED <<fanNow, published, fanQueue, nextId, counterReset, poller, got>>

\* write: a failed batch is dropped; its IDs stay unused.
InsertFails(r) ==
    /\ "insert" \in FanFaults /\ insert[r] # {}
    /\ insert' = [insert EXCEPT ![r] = {}]
    /\ UNCHANGED <<fanNow, published, fanQueue, table, nextId, counterReset, poller, got>>

\* Stop: no event follows; flush writes what is queued, or gives up when its time is over.
FanStop(r) ==
    /\ "stop" \in FanFaults /\ r \notin FanPollers /\ fanQueue[r] # <<>>
    /\ published' = [published EXCEPT ![r] = MaxPublished[r]]
    /\ \/ UNCHANGED fanQueue
       \/ fanQueue' = [fanQueue EXCEPT ![r] = <<>>]
    /\ UNCHANGED <<fanNow, insert, table, nextId, counterReset, poller, got>>

----------------------------------------------------------------------------
(* The read path.                                                            *)

MaxID == IF table = {} THEN 0 ELSE Max({row.id : row \in table})

\* deliver: a row of this replica is skipped, an old one too.
Delivered(p, rows) ==
    LET fresh == {row \in rows : row.ev.origin # p /\ fanNow - row.ev.at <= MaxAge}
        inOrder == SetToSortSeq(fresh, LAMBDA x, y : x.id < y.id)
    IN got[p] \o [i \in 1 .. Len(inOrder) |-> inOrder[i].ev]

\* poll, first time: the start position ...
PollStart(p) ==
    /\ poller[p].pc = "new"
    /\ poller' = [poller EXCEPT ![p].pc = "window", ![p].maxID = MaxID]
    /\ UNCHANGED <<fanNow, published, fanQueue, insert, table, nextId, counterReset, got>>


\* ... and trackStartWindow: the IDs below it that are not visible yet are missing.
trackStartWindow(p) ==
    /\ poller[p].pc = "window"
    /\ LET q == poller[p]
           from == Max({0, q.maxID - StartWindow})
           absent == {id \in from + 1 .. q.maxID : \A row \in table : row.id # id}
       IN poller' = [poller EXCEPT ![p].pc = "recheck", ![p].from = from, ![p].lastID = q.maxID, ![p].maxID = 0,
                       ![p].missing = {<<id, fanNow + GapTimeout>> : id \in absent},
                       ![p].old = {row.ev : row \in {x \in table : x.id <= q.maxID}}]
    /\ UNCHANGED <<fanNow, published, fanQueue, insert, table, nextId, counterReset, got>>

MissingIds(q) == {m[1] : m \in q.missing}

\* recheckGaps: the missing IDs are read again, in ID order ...
recheckGaps(p) ==
    /\ poller[p].pc = "recheck"
    /\ LET q == poller[p]
           rows == {row \in table : row.id \in MissingIds(q)}
       IN /\ got' = [got EXCEPT ![p] = Delivered(p, rows)]
          /\ poller' = [poller EXCEPT ![p].pc = "expire", ![p].at = fanNow,
                          ![p].missing = {m \in @ : m[1] \notin {row.id : row \in rows}},
                          ![p].handled = @ \cup {row.ev : row \in rows}]
    /\ UNCHANGED <<fanNow, published, fanQueue, insert, table, nextId, counterReset>>

\* ... and then the ones whose deadline passed are forgotten.
expireGaps(p) ==
    /\ poller[p].pc = "expire"
    /\ poller' = [poller EXCEPT ![p].pc = "list", ![p].at = 0, ![p].missing = {m \in @ : fanNow <= m[2]}]
    /\ UNCHANGED <<fanNow, published, fanQueue, insert, table, nextId, counterReset, got>>

\* trackGap: the IDs jumped over; a very large gap is not tracked.
trackGap(from, to) == IF to - from + 1 > MaxGapSpan THEN {} ELSE {<<id, fanNow + GapTimeout>> : id \in from .. to}

\* One page: ListAfter and consume.
consume(p) ==
    /\ poller[p].pc = "list"
    /\ LET q == poller[p]
           newer == {row \in table : row.id > q.lastID}
           page == {row \in newer : Cardinality({x \in newer : x.id < row.id}) < PollBatch}
           before(row) == Max({q.lastID} \cup {x.id : x \in {y \in page : y.id < row.id}})
       IN /\ page # {}
          /\ got' = [got EXCEPT ![p] = Delivered(p, page)]
          /\ poller' = [poller EXCEPT ![p].pc = IF Cardinality(page) = PollBatch THEN "list" ELSE "recheck",
                          ![p].lastID = Max({row.id : row \in page}),
                          ![p].missing = @ \cup UNION {trackGap(before(row) + 1, row.id - 1) : row \in page},
                          ![p].handled = @ \cup {row.ev : row \in page}]
    /\ UNCHANGED <<fanNow, published, fanQueue, insert, table, nextId, counterReset>>

\* An empty page ends the poll; now and then checkIDRestart follows: a highest ID below the last
\* one read means that the IDs started again.
EmptyPoll(p) ==
    /\ poller[p].pc = "list" /\ \A row \in table : row.id <= poller[p].lastID
    /\ \/ poller' = [poller EXCEPT ![p].pc = "recheck"]
       \/ /\ MaxID > 0 /\ MaxID < poller[p].lastID
          /\ poller' = [poller EXCEPT ![p].pc = "recheck", ![p].lastID = 0, ![p].missing = {}]
    /\ UNCHANGED <<fanNow, published, fanQueue, insert, table, nextId, counterReset, got>>

\* pollFailed: a database error ends the poll; the next tick tries again.
PollFails(p) ==
    /\ "poll" \in FanFaults /\ poller[p].pc \in {"window", "expire", "list"}
    /\ poller' = [poller EXCEPT ![p].pc = IF @ = "window" THEN "new" ELSE "recheck", ![p].at = 0, ![p].maxID = 0]
    /\ UNCHANGED <<fanNow, published, fanQueue, insert, table, nextId, counterReset, got>>

----------------------------------------------------------------------------
(* The table.                                                                *)

\* EventCleaner: rows by their age, not by their ID.
Cleanup ==
    /\ \E row \in table : fanNow - row.ev.at > FanRetention
    /\ table' = {row \in table : fanNow - row.ev.at <= FanRetention}
    /\ UNCHANGED <<fanNow, published, fanQueue, insert, nextId, counterReset, poller, got>>

\* A restart of MySQL with an empty table starts the counter again.
CounterReset ==
    /\ "reset" \in FanFaults /\ table = {} /\ nextId > 1 /\ \A r \in FanReplicas : insert[r] = {}
    /\ nextId' = 1 /\ counterReset' = TRUE
    /\ UNCHANGED <<fanNow, published, fanQueue, insert, table, poller, got>>

\* Time passes; a statement lasts at most QueryTimeout, and a writer that is free takes its queue.
FanTick ==
    /\ fanNow < MaxFanTime
    /\ \A r \in FanReplicas : \A x \in insert[r] : fanNow - x.since < QueryTimeout
    /\ \A r \in FanReplicas : insert[r] = {} => fanQueue[r] = <<>>
    /\ \A p \in FanPollers : poller[p].pc = "expire" => fanNow - poller[p].at < QueryTimeout
    /\ fanNow' = fanNow + 1
    /\ UNCHANGED <<published, fanQueue, insert, table, nextId, counterReset, poller, got>>

FanNext ==
    \/ \E r \in FanReplicas : Publish(r) \/ StartInsert(r) \/ CommitInsert(r) \/ InsertFails(r) \/ FanStop(r)
    \/ \E p \in FanPollers : \/ PollStart(p) \/ trackStartWindow(p) \/ recheckGaps(p) \/ expireGaps(p)
                             \/ consume(p) \/ EmptyPoll(p) \/ PollFails(p)
    \/ Cleanup \/ CounterReset \/ FanTick

FanSpec == FanInit /\ [][FanNext]_fanVars

----------------------------------------------------------------------------
(* Properties.                                                               *)

\* Types of the table and the pollers.
FanTypeOK ==
    /\ fanNow \in 0 .. MaxFanTime /\ nextId \in Nat \ {0}
    /\ \A row \in table : row.id \in 1 .. nextId - 1 \/ "reset" \in FanFaults
    /\ \A r \in FanReplicas : Len(fanQueue[r]) <= FanBuffer /\ Cardinality(insert[r]) <= WriteBatch
    /\ \A p \in FanPollers : /\ poller[p].pc \in {"new", "window", "recheck", "expire", "list"}
                             /\ poller[p].lastID \in Nat /\ MissingIds(poller[p]) \subseteq Nat

Started(q) == q.pc \notin {"new", "window"}

\* Fanout: a row that another replica commits after the poller started is delivered (or skipped
\* for its age), or is still ahead of the poller, or among the IDs it reads again, however the
\* commits and the polls interleave and whatever polls fail.  Rows below the start window and
\* rows after a restart of MySQL's counter are outside.
FanoutLosesNothing ==
    \A p \in FanPollers, row \in table :
        ~counterReset /\ Started(poller[p]) /\ row.ev \notin poller[p].old /\ row.id > poller[p].from
            => \/ row.ev \in poller[p].handled
               \/ row.id > poller[p].lastID
               \/ row.id \in MissingIds(poller[p])

\* Fanout: no client gets a message of another replica twice, also when the cleaner deletes rows
\* out of ID order and the poller takes that for a restart of the IDs and reads from 0 again.
DeliveredAtMostOnce ==
    ~counterReset => \A p \in FanPollers : \A i, j \in DOMAIN got[p] : got[p][i] = got[p][j] => i = j

\* Fanout: "One writer goroutine per replica inserts its batches one after the other, so the rows
\* of one origin stay in order".
OriginOrderKept ==
    \A p \in FanPollers : \A i, j \in DOMAIN got[p] :
        i < j /\ got[p][i].origin = got[p][j].origin => got[p][i].n < got[p][j].n
=============================================================================
