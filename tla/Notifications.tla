--------------------------- MODULE Notifications ---------------------------
(* Notifications: the in-app rows of an event, and the delivery of the event *)
(* to external channels (notifier/notifier.go, notifier/channel/workers.go,  *)
(* dispatcher.go, handlers/notification_channels.go and its repository).     *)
(* An event goes through the intake queue to one queue and worker per        *)
(* channel; Stop drains them for a while, then cancels.  No send blocks: a   *)
(* full queue drops the event and counts the drop.                           *)
EXTENDS Integers, Sequences, FiniteSets, SequencesExt

CONSTANTS
    NtEvents,           \* 1 .. n, in the order in which they are notified
    NtChannels,
    NtUsers,            \* receivers: the owner and the followers
    IntakeSize,         \* dispatchQueueSize
    ChannelQueueSize,   \* channelQueueSize
    NtRequests,         \* requests that change channels: 1 .. n
    NtScripts,          \* kind of request 1 .. n
    NtFaults            \* subset of {"find", "read", "post", "retry"}

ASSUME NotificationsAssumption ==
    /\ IntakeSize \in Nat \ {0} /\ ChannelQueueSize \in Nat \ {0}
    /\ NtFaults \subseteq {"find", "read", "post", "retry"}
    /\ NtEvents = 1 .. Cardinality(NtEvents)

VARIABLES
    channels,       \* rows: exists, enabled, subscribed, secret (version, encrypted)
    inbox,          \* user -> number of in-app rows of the last event
    prefsOff,       \* users that switched the event type off
    sent,           \* events notified so far
    intake,         \* the intake queue
    intakeJob,      \* the event of the intake worker and the channels it still has to queue
    chWorkers,      \* channel -> its worker: none, idle, or a job with its state
    jobs,           \* channel -> the queue of its worker
    phase,          \* of Stop
    delivered,      \* channel -> the events of its delivery log, in order
    eventFate,      \* event -> what became of it at the intake (history and counters)
    fate,           \* event -> channel -> what became of the delivery
    ntReq,
    lastSecret      \* channel -> version of the last secret change (history)

ntVars == <<channels, inbox, prefsOff, sent, intake, intakeJob, chWorkers, jobs, phase, delivered, eventFate, fate, ntReq, lastSecret>>
rowVars == <<channels, ntReq, lastSecret>>
flowVars == <<intake, intakeJob, chWorkers, jobs, phase, delivered, eventFate, fate>>

NoWorker == [state |-> "none", event |-> 0]
IdleWorker == [state |-> "idle", event |-> 0]
NoJob == [event |-> 0, todo |-> {}]

NtInit ==
    /\ channels = [c \in NtChannels |-> [exists |-> TRUE, enabled |-> TRUE, subscribed |-> TRUE, secret |-> 0, encrypted |-> FALSE]]
    /\ inbox = [u \in NtUsers |-> 0] /\ prefsOff = {} /\ sent = 0
    /\ intake = <<>> /\ intakeJob = NoJob
    /\ chWorkers = [c \in NtChannels |-> NoWorker] /\ jobs = [c \in NtChannels |-> <<>>]
    /\ phase = "run" /\ delivered = [c \in NtChannels |-> <<>>]
    /\ eventFate = [e \in NtEvents |-> ""] /\ fate = [e \in NtEvents |-> [c \in NtChannels |-> ""]]
    /\ \E s \in NtScripts : ntReq = [r \in NtRequests |-> [kind |-> s[r], pc |-> "start", channel |-> "", row |-> channels[CHOOSE c \in NtChannels : TRUE]]]
    /\ lastSecret = [c \in NtChannels |-> 0]

----------------------------------------------------------------------------
(* The intake.                                                               *)

\* NotifyInstance: the owner and the followers, each once.
Receivers(owner, followers) == [u \in NtUsers |-> IF u = owner \/ u \in followers THEN 1 ELSE 0]

Enqueued(q, e) == IF phase # "run" THEN "shutdown" ELSE IF Len(q) = IntakeSize THEN "full" ELSE "queued"

\* NotifyInstance and enqueueDispatch: the rows of the receivers that did not switch the type off,
\* then the event once for the channels.
NotifyInstance ==
    LET e == sent + 1
    IN /\ e \in NtEvents /\ sent' = e
       /\ \E owner \in NtUsers, followers \in SUBSET NtUsers :
             inbox' = [u \in NtUsers |-> IF u \in prefsOff THEN 0 ELSE Receivers(owner, followers)[u]]
       /\ eventFate' = [eventFate EXCEPT ![e] = Enqueued(intake, e)]
       /\ intake' = IF eventFate'[e] = "queued" THEN Append(intake, e) ELSE intake
       /\ UNCHANGED <<channels, prefsOff, intakeJob, chWorkers, jobs, phase, delivered, fate, rowVars>>

UpdatePreference(u) ==
    /\ prefsOff' = IF u \in prefsOff THEN prefsOff \ {u} ELSE prefsOff \cup {u}
    /\ sent = 0
    /\ UNCHANGED <<inbox, sent, flowVars, rowVars>>

IntakeRuns == phase \in {"run", "done"}

\* dispatchWorker and Dispatch: the channels that are enabled and subscribed.  A lookup that fails
\* loses the event; a lookup that Stop cancelled counts as a drop.
DispatchFind ==
    /\ intakeJob = NoJob /\ intake # <<>> /\ IntakeRuns
    /\ intake' = Tail(intake)
    /\ LET e == Head(intake)
           found == {c \in NtChannels : channels[c].exists /\ channels[c].enabled /\ channels[c].subscribed}
       IN \/ /\ intakeJob' = IF found = {} THEN NoJob ELSE [event |-> e, todo |-> found]
             /\ eventFate' = [eventFate EXCEPT ![e] = "dispatched"]
             /\ fate' = [fate EXCEPT ![e] = [c \in NtChannels |-> IF c \in found THEN "found" ELSE ""]]
          \/ /\ "find" \in NtFaults
             /\ eventFate' = [eventFate EXCEPT ![e] = "lookup"]
             /\ UNCHANGED <<intakeJob, fate>>
    /\ UNCHANGED <<inbox, prefsOff, sent, chWorkers, jobs, phase, delivered, rowVars>>

\* submit: under the lock of the pool; it starts the worker of the channel and never blocks.  (Stop
\* stops the pool after the intake worker ended, so its check of stopped is never true here.)
submit(c) ==
    LET e == intakeJob.event
    IN /\ c \in intakeJob.todo
       /\ intakeJob' = IF intakeJob.todo = {c} THEN NoJob ELSE [intakeJob EXCEPT !.todo = @ \ {c}]
       /\ chWorkers' = IF chWorkers[c] = NoWorker THEN [chWorkers EXCEPT ![c] = IdleWorker] ELSE chWorkers
       /\ IF Len(jobs[c]) = ChannelQueueSize
          THEN fate' = [fate EXCEPT ![e][c] = "full"] /\ UNCHANGED jobs
          ELSE fate' = [fate EXCEPT ![e][c] = "queued"] /\ jobs' = [jobs EXCEPT ![c] = Append(@, e)]
       /\ UNCHANGED <<inbox, prefsOff, sent, intake, phase, delivered, eventFate, rowVars>>

----------------------------------------------------------------------------
(* The worker of a channel.                                                  *)

\* runWorker takes a job; currentChannel reads the channel again.  A failed read uses the queued copy.
WorkerTake(c) ==
    LET e == Head(jobs[c])
    IN /\ chWorkers[c] = IdleWorker /\ jobs[c] # <<>> /\ phase # "cancelled"
       /\ jobs' = [jobs EXCEPT ![c] = Tail(@)]
       /\ \/ /\ "read" \in NtFaults \/ (channels[c].exists /\ channels[c].enabled)
             /\ chWorkers' = [chWorkers EXCEPT ![c] = [state |-> "post", event |-> e]]
             /\ UNCHANGED fate
          \/ /\ ~(channels[c].exists /\ channels[c].enabled)
             /\ fate' = [fate EXCEPT ![e][c] = "removed"] /\ UNCHANGED chWorkers
       /\ UNCHANGED <<inbox, prefsOff, sent, intake, intakeJob, phase, delivered, eventFate, rowVars>>

Finish(c, result) ==
    LET e == chWorkers[c].event
    IN /\ chWorkers' = [chWorkers EXCEPT ![c] = IdleWorker]
       /\ fate' = [fate EXCEPT ![e][c] = result]
       /\ delivered' = [delivered EXCEPT ![c] = Append(@, e)]

\* The wait before the retry.
AwaitRetry(c) == chWorkers' = [chWorkers EXCEPT ![c].state = "retry"] /\ UNCHANGED <<fate, delivered>>

\* deliver: one attempt, and one retry for an answer that may change; then the delivery log.
deliver(c) ==
    /\ \/ chWorkers[c].state = "post" /\ Finish(c, "success")
       \/ chWorkers[c].state = "post" /\ "post" \in NtFaults /\ Finish(c, "failed")
       \/ chWorkers[c].state = "post" /\ "retry" \in NtFaults /\ AwaitRetry(c)
       \/ chWorkers[c].state = "retry" /\ phase # "cancelled" /\ \E result \in {"success", "failed"} : Finish(c, result)
       \/ chWorkers[c].state = "retry" /\ phase = "cancelled" /\ Finish(c, "failed")
    /\ UNCHANGED <<inbox, prefsOff, sent, intake, intakeJob, jobs, phase, eventFate, rowVars>>

\* A worker that looked before it took the lock: a job can be queued to it in between.
IdleUnchecked(c) == chWorkers[c] = IdleWorker

\* exitIfIdle: the queue is empty, under the lock of submit.
MayExit(c) == chWorkers[c] = IdleWorker /\ jobs[c] = <<>>

\* The idle timeout of a worker; after the drain the worker ends the same way.
exitIfIdle(c) ==
    /\ MayExit(c)
    /\ chWorkers' = [chWorkers EXCEPT ![c] = NoWorker]
    /\ jobs' = [jobs EXCEPT ![c] = <<>>]
    /\ UNCHANGED <<inbox, prefsOff, sent, intake, intakeJob, phase, delivered, eventFate, fate, rowVars>>

\* discard counts the jobs that are still queued when the pool is cancelled.
Discarded(c) == [e \in NtEvents |-> IF Contains(jobs[c], e) THEN [fate[e] EXCEPT ![c] = "shutdown"] ELSE fate[e]]

discard(c) ==
    /\ phase = "cancelled" /\ chWorkers[c] = IdleWorker
    /\ chWorkers' = [chWorkers EXCEPT ![c] = NoWorker] /\ jobs' = [jobs EXCEPT ![c] = <<>>]
    /\ fate' = Discarded(c)
    /\ UNCHANGED <<inbox, prefsOff, sent, intake, intakeJob, phase, delivered, eventFate, rowVars>>

----------------------------------------------------------------------------
(* Stop.                                                                     *)

SetPhase(p) == phase' = p /\ UNCHANGED <<inbox, prefsOff, sent, intake, intakeJob, chWorkers, jobs, delivered, fate, rowVars>>

\* Stop closes done: no event enters the intake queue any more.
StopBegins == phase = "run" /\ SetPhase("done") /\ UNCHANGED eventFate

\* The intake worker has passed its queue, or the timeout cancelled it between two events;
\* discardQueued counts the rest.
IntakeEnds ==
    /\ phase = "done" /\ intakeJob = NoJob
    /\ eventFate' = [e \in NtEvents |-> IF Contains(intake, e) THEN "shutdown" ELSE eventFate[e]]
    /\ SetPhase("intakeEnded")

\* Dispatcher.Shutdown: no job enters, the workers drain; after the grace the pool is cancelled.
DrainBegins == phase = "intakeEnded" /\ SetPhase("draining") /\ UNCHANGED eventFate
CancelPool == phase = "draining" /\ SetPhase("cancelled") /\ UNCHANGED eventFate
StopEnds ==
    /\ phase = "cancelled" /\ \A c \in NtChannels : chWorkers[c] = NoWorker
    /\ SetPhase("end") /\ UNCHANGED eventFate

----------------------------------------------------------------------------
(* Requests that change a channel.                                           *)

\* UpdateChannel reads the row first.
ChannelRead(r) ==
    /\ ntReq[r].pc = "start" /\ ntReq[r].kind \in {"rename", "secret", "disable"}
    /\ \E c \in NtChannels : ntReq' = [ntReq EXCEPT ![r].channel = c, ![r].row = channels[c],
                                                   ![r].pc = IF channels[c].exists THEN "write" ELSE "done"]
    /\ UNCHANGED <<channels, lastSecret, inbox, prefsOff, sent, flowVars>>

\* The lazy migration encrypts the secret that was read; a concurrent change of the secret wins.
Migrated(now, row) ==
    IF now.secret = row.secret /\ now.encrypted = row.encrypted THEN [row EXCEPT !.encrypted = TRUE]
    ELSE [row EXCEPT !.secret = now.secret, !.encrypted = now.encrypted]

\* UpdateChannel writes name, enabled, filters, format and URL as read or sent; the secret when it is
\* sent, or to encrypt a secret of an older version.
UpdateChannel(r) ==
    LET c == ntReq[r].channel
        row == [ntReq[r].row EXCEPT !.enabled = IF ntReq[r].kind = "disable" THEN FALSE ELSE @,
                                    !.subscribed = channels[c].subscribed]
    IN /\ ntReq[r].pc = "write"
       /\ channels' = IF ~channels[c].exists THEN channels
                      ELSE [channels EXCEPT ![c] = IF ntReq[r].kind = "secret"
                                                   THEN [row EXCEPT !.secret = r, !.encrypted = TRUE]
                                                   ELSE Migrated(@, row)]
       /\ lastSecret' = IF ntReq[r].kind = "secret" /\ channels[c].exists THEN [lastSecret EXCEPT ![c] = r] ELSE lastSecret
       /\ ntReq' = [ntReq EXCEPT ![r].pc = "done"]
       /\ UNCHANGED <<inbox, prefsOff, sent, flowVars>>

\* DeleteChannel: logs, subscriptions and row in one transaction.  SetSubscriptions: one transaction.
ChangeChannel(r) ==
    /\ ntReq[r].pc = "start" /\ ntReq[r].kind \in {"delete", "unsubscribe"}
    /\ \E c \in {d \in NtChannels : channels[d].exists} :
          channels' = IF ntReq[r].kind = "delete" THEN [channels EXCEPT ![c].exists = FALSE, ![c].subscribed = FALSE]
                      ELSE [channels EXCEPT ![c].subscribed = FALSE]
    /\ ntReq' = [ntReq EXCEPT ![r].pc = "done"]
    /\ UNCHANGED <<lastSecret, inbox, prefsOff, sent, flowVars>>

NtNext ==
    \/ NotifyInstance \/ DispatchFind \/ StopBegins \/ IntakeEnds \/ DrainBegins \/ CancelPool \/ StopEnds
    \/ \E u \in NtUsers : UpdatePreference(u)
    \/ \E c \in NtChannels : submit(c) \/ WorkerTake(c) \/ deliver(c) \/ exitIfIdle(c) \/ discard(c)
    \/ \E r \in NtRequests : ChannelRead(r) \/ UpdateChannel(r) \/ ChangeChannel(r)

NtSpec == NtInit /\ [][NtNext]_ntVars

----------------------------------------------------------------------------
(* Properties.                                                               *)

\* Every variable has its type; the queues keep their bounds.
NtTypeOK ==
    /\ sent \in {0} \cup NtEvents /\ Len(intake) <= IntakeSize
    /\ \A c \in NtChannels : Len(jobs[c]) <= ChannelQueueSize /\ chWorkers[c].state \in {"none", "idle", "post", "retry"}
    /\ phase \in {"run", "done", "intakeEnded", "draining", "cancelled", "end"}

\* No event disappears in the queues: a queue without a worker is empty, and when Stop returned every
\* event was dispatched or counted, and every delivery was logged or counted.
NothingLostInQueues ==
    /\ \A c \in NtChannels, e \in NtEvents :
          fate[e][c] = "queued" => Contains(jobs[c], e) \/ chWorkers[c].event = e
    /\ phase = "end" => \A e \in 1 .. sent :
          eventFate[e] # "queued" /\ \A c \in NtChannels : fate[e][c] \notin {"found", "queued"}

\* A channel gets its events in the order in which they were notified, each at most once, also over
\* the end of one worker and the start of the next (one worker per channel).
DeliveredInOrder ==
    \A c \in NtChannels : \A i, j \in DOMAIN delivered[c] : i < j => delivered[c][i] < delivered[c][j]

\* A change of the secret is never undone by an update that read the older one (CASE WHEN secret = ?).
SecretChangeWins == \A c \in NtChannels : channels[c].exists => channels[c].secret = lastSecret[c]

\* The owner who also follows gets one in-app row, as every other receiver.
OneRowPerReceiver == \A u \in NtUsers : inbox[u] <= 1

\* Stop returns, whatever the channels do.
StopReturns == []<>(phase \in {"run", "end"})
=============================================================================
