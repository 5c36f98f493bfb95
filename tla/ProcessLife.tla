----------------------------- MODULE ProcessLife -----------------------------
(* The life of one backend process (api/main.go, api/bootstrap.go): the      *)
(* steps of its start, any of which may end it; the requests, leader workers *)
(* and stream sessions that start operations and write to the database; and  *)
(* gracefulShutdown, which stops the parts in order and waits for some of    *)
(* them, up to a limit.  Which operation runs, and what it does, is in       *)
(* module Operations; here only who still runs when which part has stopped.  *)
EXTENDS Naturals, Sequences, SequencesExt, FiniteSets

CONSTANTS
    Callers, CallerIs,    \* who calls the process: "request", "worker" or "stream", each once
    SlowCallers,          \* the callers that may outlast the limit of the wait for them
    LifeFaults            \* subset of {"start"}: a step of the start fails

ASSUME ProcessLifeAssumption ==
    /\ \A c \in Callers : CallerIs[c] \in {"request", "worker", "stream"}
    /\ SlowCallers \subseteq Callers /\ LifeFaults \subseteq {"start"}

VARIABLES
    partsUp,      \* the parts of the process that run
    life,         \* [at : "start", "serve", "stop", "exited" or "failed"; step; begun]
    late,         \* the steps of the shutdown whose wait ended at its limit
    caller,       \* "idle", "runs", "checked", "created" or "ended"
    task,         \* the operation that the caller started: "none", "runs", "wrote" or "ended"
    openLogs,     \* the callers whose operation has a running log in the database
    lost          \* what was written to a part that had stopped: <<caller, part>>

lifeVars == <<partsUp, life, late, caller, task, openLogs, lost>>

LifeInit ==
    /\ partsUp = {} /\ life = [at |-> "start", step |-> 1, begun |-> FALSE] /\ late = {} /\ openLogs = {} /\ lost = {}
    /\ caller = [c \in Callers |-> "idle"] /\ task = [c \in Callers |-> "none"]

----------------------------------------------------------------------------
(* main: the start.                                                          *)

\* buildDomainServices.
ServiceSteps == <<"git", "registry", "hooksConfig", "lookups", "hooks", "actions", "notifier", "deploys">>

\* buildHandlers.
HandlerSteps == <<"auth", "handlers", "streams">>

\* buildLeaderWorkers and startLeaderElection.
LeaderSteps == <<"workers", "leader">>

\* The parts in the order in which main builds and starts them; the server listens last.
StartSteps ==
    <<"config", "telemetry", "elector", "database", "health", "hub", "repositories", "fanout">> \o ServiceSteps
        \o <<"heartbeat", "sessions">> \o HandlerSteps \o <<"revalidation", "router">> \o LeaderSteps \o <<"server">>

\* The parts whose step returns an error to main: the process exits.
MayFail ==
    {"config", "telemetry", "elector", "database", "repositories", "git", "hooksConfig", "hooks", "actions", "auth", "handlers", "server"}

Start ==
    /\ life.at = "start"
    /\ LET p == StartSteps[life.step] IN
          \/ /\ partsUp' = partsUp \cup {p}
             /\ life' = IF life.step = Len(StartSteps) THEN [life EXCEPT !.at = "serve"] ELSE [life EXCEPT !.step = @ + 1]
          \/ /\ p \in MayFail /\ "start" \in LifeFaults
             /\ partsUp' = {} /\ life' = [life EXCEPT !.at = "failed"]
    /\ UNCHANGED <<late, caller, task, openLogs, lost>>

----------------------------------------------------------------------------
(* The callers.                                                              *)

Alive == life.at \notin {"exited", "failed"}

Home(c) == CASE CallerIs[c] = "request" -> "server" [] CallerIs[c] = "worker" -> "leader" [] OTHER -> "streams"

\* A request, a run of a leader worker or a stream session begins while its part runs; a session
\* comes through the server.
CallerBegins(c) ==
    /\ Alive /\ caller[c] = "idle" /\ Home(c) \in partsUp /\ (CallerIs[c] = "stream" => "server" \in partsUp)
    /\ caller' = [caller EXCEPT ![c] = "runs"]
    /\ UNCHANGED <<partsUp, life, late, task, openLogs, lost>>

Loses(c, p) == lost' = IF p \in partsUp THEN lost ELSE lost \cup {<<c, p>>}

\* Deploy (and the other operations): refused once the manager shuts down.
ChecksShutdown(c) ==
    /\ Alive /\ caller[c] = "runs" /\ CallerIs[c] # "stream"
    /\ caller' = [caller EXCEPT ![c] = IF "deploys" \in partsUp THEN "checked" ELSE "ended"]
    /\ UNCHANGED <<partsUp, life, late, task, openLogs, lost>>

\* The log and the status of the instance; a closed database refuses them, and the caller ends.
CreatesLog(c) ==
    /\ Alive /\ caller[c] = "checked"
    /\ IF "database" \in partsUp THEN caller' = [caller EXCEPT ![c] = "created"] /\ openLogs' = openLogs \cup {c}
                            ELSE caller' = [caller EXCEPT ![c] = "ended"] /\ UNCHANGED openLogs
    /\ UNCHANGED <<partsUp, life, late, task, lost>>

\* wg.Add and the goroutine; the caller returns.
StartsTask(c) ==
    /\ Alive /\ caller[c] = "created"
    /\ caller' = [caller EXCEPT ![c] = "ended"] /\ task' = [task EXCEPT ![c] = "runs"]
    /\ UNCHANGED <<partsUp, life, late, openLogs, lost>>

\* A caller that starts nothing; a stream session writes its end audit entry.
CallerEnds(c) ==
    /\ Alive /\ caller[c] = "runs"
    /\ caller' = [caller EXCEPT ![c] = "ended"]
    /\ IF CallerIs[c] = "stream" THEN Loses(c, "database") ELSE UNCHANGED lost
    /\ UNCHANGED <<partsUp, life, late, task, openLogs>>

\* The end of an operation: its rows, then its broadcast and its notification, then wg.Done.
TaskWrites(c) ==
    /\ Alive /\ task[c] = "runs"
    /\ task' = [task EXCEPT ![c] = "wrote"] /\ Loses(c, "database")
    /\ openLogs' = IF "database" \in partsUp THEN openLogs \ {c} ELSE openLogs
    /\ UNCHANGED <<partsUp, life, late, caller>>

TaskAnnounces(c) ==
    /\ Alive /\ task[c] = "wrote"
    /\ task' = [task EXCEPT ![c] = "ended"]
    /\ lost' = lost \cup {<<c, p>> : p \in {"fanout", "notifier"} \ partsUp}
    /\ UNCHANGED <<partsUp, life, late, caller, openLogs>>

----------------------------------------------------------------------------
(* gracefulShutdown.                                                         *)

StopHeartbeatFirst ==
    <<"server", "streams", "leader", "heartbeat", "deploys", "lookups", "fanout", "hub", "registry", "notifier", "sessions",
      "telemetry", "database">>

StopSteps ==
    <<"server", "streams", "leader", "deploys", "heartbeat", "lookups", "fanout", "hub", "registry", "notifier", "sessions",
      "telemetry", "database">>

Quit ==
    /\ life.at = "serve"
    /\ life' = [at |-> "stop", step |-> 1, begun |-> FALSE]
    /\ UNCHANGED <<partsUp, late, caller, task, openLogs, lost>>

\* A step first makes its part refuse new work.
StopBegins ==
    /\ life.at = "stop" /\ ~life.begun
    /\ partsUp' = partsUp \ {StopSteps[life.step]} /\ life' = [life EXCEPT !.begun = TRUE]
    /\ UNCHANGED <<late, caller, task, openLogs, lost>>

CallersOf(p) == {c \in Callers : Home(c) = p /\ caller[c] \notin {"idle", "ended"}}

\* What a step waits for: the callers of its part, or the operations of the deploy manager.
WaitIsOver(p) ==
    IF p = "deploys" THEN \A c \in Callers : task[c] \in {"none", "ended"} ELSE CallersOf(p) = {}

\* The waits for the server, the sessions (with a budget of their own) and the workers have a limit,
\* which a slow caller outlasts; the deploy manager waits without one.
WaitMayEnd(p) == CallersOf(p) # {} /\ CallersOf(p) \subseteq SlowCallers

StopWaits ==
    /\ life.at = "stop" /\ life.begun
    /\ LET p == StopSteps[life.step] IN
          /\ \/ WaitIsOver(p) /\ UNCHANGED late
             \/ WaitMayEnd(p) /\ ~WaitIsOver(p) /\ late' = late \cup {p}
          /\ life' = IF life.step = Len(StopSteps) THEN [life EXCEPT !.at = "exited"]
                     ELSE [life EXCEPT !.step = @ + 1, !.begun = FALSE]
    /\ UNCHANGED <<partsUp, caller, task, openLogs, lost>>

----------------------------------------------------------------------------
CallerSteps(c) == ChecksShutdown(c) \/ CreatesLog(c) \/ StartsTask(c) \/ CallerEnds(c)

LifeNext ==
    \/ Start \/ Quit \/ StopBegins \/ StopWaits
    \/ \E c \in Callers : CallerBegins(c) \/ CallerSteps(c) \/ TaskWrites(c) \/ TaskAnnounces(c)

LifeSpec == LifeInit /\ [][LifeNext]_lifeVars

----------------------------------------------------------------------------
LifeTypeOK ==
    /\ partsUp \subseteq Range(StartSteps) /\ late \subseteq Range(StopSteps) /\ openLogs \subseteq Callers
    /\ \A c \in Callers : /\ caller[c] \in {"idle", "runs", "checked", "created", "ended"}
                          /\ task[c] \in {"none", "runs", "wrote", "ended"}

\* No wait of the shutdown ended at its limit.
InTime == late = {}

\* A caller that begins finds every part that its operations use: the server listens, and the leader
\* workers start, only after the parts before them (main).
BeginsComplete ==
    \A c \in Callers : life.at \in {"start", "serve"} /\ caller[c] # "idle" =>
        {"database", "hub", "fanout", "registry", "notifier", "deploys", "heartbeat", "sessions", "handlers",
         "router"} \subseteq partsUp

\* The heartbeat of the process stops only when its operations have ended: no operation of it still runs,
\* and none of its logs is open, for another replica to end too early (gracefulShutdown step 3).
HeartbeatCoversOperations ==
    life.at = "stop" /\ "heartbeat" \notin partsUp /\ InTime => openLogs = {} /\ \A c \in Callers : task[c] \in {"none", "ended"}

\* The last rows, broadcasts and notifications of the operations, and the end audit entries of the
\* sessions, reach parts that still run (gracefulShutdown steps 2 to 6).
NothingWrittenTooLate == InTime => lost = {}

\* A stream session whose own budget suffices writes its end audit entry also when the HTTP server
\* used up the shared timeout ("Its own budget", gracefulShutdown).
SessionEndsAreWritten == \A c \in Callers \ SlowCallers : CallerIs[c] = "stream" => <<c, "database">> \notin lost

\* The order of gracefulShutdown: whoever still writes finds the part that it writes to.
ShutdownOrderIsRight == HeartbeatCoversOperations /\ NothingWrittenTooLate /\ SessionEndsAreWritten

\* After the signal the process exits, also when requests, sessions or workers do not return.
ShutdownEnds == []<>(life.at # "stop")
=============================================================================
