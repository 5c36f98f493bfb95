----------------------------- MODULE PodStreams -----------------------------
(* podstream/*.go with handlers/instance_exec.go, instance_port_forward.go,  *)
(* instance_stream.go and instance_stream_access.go: the tunnels and the     *)
(* commands that run in a pod, from the checks of the request to the end of  *)
(* the session, on the hub of the same replica.                              *)
(*                                                                           *)
(* A session ends with the first result that somebody records (finish); its  *)
(* context ends then, or with the shutdown of the manager.                   *)
EXTENDS Hub

CONSTANTS
    StreamKind,     \* session -> "exec" or "forward"
    StreamUser,     \* session -> the user that its slot counts for
    MaxPerUser,     \* sessions of one user
    ProcessCap,     \* sessions of the replica
    StreamFaults    \* subset of {"resolve", "audit", "slowAudit"}

ASSUME PodStreamsAssumption ==
    /\ IsFiniteSet(Streams) /\ MaxPerUser \in Nat /\ ProcessCap \in Nat
    /\ \A s \in Streams : StreamKind[s] \in {"exec", "forward"}
    /\ StreamFaults \subseteq {"resolve", "audit", "slowAudit"}

VARIABLES
    podClosing,     \* Manager.closing, with the base context cancelled
    perUser,        \* user -> reserved sessions
    stream,         \* the session goroutine
    flow,           \* exec: the goroutine that reads the start message and runs the command
    entries         \* session -> audit entries written: "start", "end"

streamVars == <<podClosing, perUser, stream, flow, entries>>
podVars == <<hubVars, streamVars>>

StreamUsers == {StreamUser[s] : s \in Streams}
Reserved == {s \in Streams : stream[s].slot}

PodInit ==
    /\ HubInit
    /\ podClosing = FALSE
    /\ perUser = [u \in StreamUsers |-> 0]
    /\ stream = [s \in Streams |-> [pc |-> "new", slot |-> FALSE, result |-> "none", cleared |-> FALSE]]
    /\ flow = [s \in Streams |-> "none"]
    /\ entries = [s \in Streams |-> {}]

\* The result that the session keeps: the first one (finish).
finish(s, r) == IF stream[s].result = "none" THEN r ELSE stream[s].result

\* What ended the session so far: its own result, a revocation of the hub, or the base context.
Result(s) == IF stream[s].result # "none" THEN stream[s].result
             ELSE IF revokedNow[s] # "no" THEN revokedNow[s]
             ELSE IF podClosing THEN "shutdown" ELSE "none"

ContextEnded(s) == Result(s) # "none"

----------------------------------------------------------------------------
(* The handlers: checks, slot, target, upgrade.                              *)

\* Exec and PortForward up to the slot: the credential, then loadInstance, streamInstanceLive and
\* checkNamespaceOwner.
StreamChecks(s) ==
    /\ stream[s].pc = "new"
    /\ \E credential \in Credentials(s) :
        /\ cred' = [cred EXCEPT ![s] = credential]
        /\ stream' = [stream EXCEPT ![s].pc = IF CredRevoked(s, credential) \/ Written("instance")
                                              THEN "refused" ELSE "checked"]
    /\ UNCHANGED <<hubState, clients, subs, revocables, sock, trusted, slow, revoke, revokedNow, podClosing, perUser, flow, entries>>

\* Acquire: the limit of the user and of the process, and no session after Shutdown.
Acquire(s) ==
    /\ stream[s].pc = "checked"
    /\ IF podClosing \/ Cardinality(Reserved) >= ProcessCap \/ perUser[StreamUser[s]] >= MaxPerUser
       THEN stream' = [stream EXCEPT ![s].pc = "refused"] /\ UNCHANGED perUser
       ELSE /\ stream' = [stream EXCEPT ![s].pc = "slot", ![s].slot = TRUE]
            /\ perUser' = [perUser EXCEPT ![StreamUser[s]] = @ + 1]
    /\ UNCHANGED <<hubVars, podClosing, flow, entries>>

\* ResolveExecTarget, ResolveServiceTarget, DialPodPort or the upgrade failed: the slot is given back.
ResolveFails(s) ==
    /\ "resolve" \in StreamFaults /\ stream[s].pc = "slot"
    /\ stream' = [stream EXCEPT ![s].pc = "refused", ![s].slot = FALSE]
    /\ perUser' = [perUser EXCEPT ![StreamUser[s]] = @ - 1]
    /\ UNCHANGED <<hubVars, podClosing, flow, entries>>

KeepSlot(s) ==
    /\ stream[s].pc = "slot" /\ podClosing
    /\ stream' = [stream EXCEPT ![s].pc = "ended", ![s].result = "shutdown"]
    /\ entries' = IF StreamKind[s] = "forward" THEN [entries EXCEPT ![s] = {"start", "end"}] ELSE entries
    /\ UNCHANGED <<hubVars, podClosing, perUser, flow>>

\* StartExec and StartPortForward after the Shutdown of the manager: the session ends at once.
StartRefused(s) ==
    /\ stream[s].pc = "slot" /\ podClosing
    /\ stream' = [stream EXCEPT ![s].pc = "ended", ![s].slot = FALSE, ![s].result = "shutdown"]
    /\ perUser' = [perUser EXCEPT ![StreamUser[s]] = @ - 1]
    /\ entries' = IF StreamKind[s] = "forward" THEN [entries EXCEPT ![s] = {"start", "end"}] ELSE entries
    /\ UNCHANGED <<hubVars, podClosing, flow>>

\* Otherwise track counts it and run starts.  The start entry of a tunnel is written here.
StartSession(s) ==
    /\ stream[s].pc = "slot" /\ ~podClosing
    /\ stream' = [stream EXCEPT ![s].pc = "started"]
    /\ entries' = IF StreamKind[s] = "forward" THEN [entries EXCEPT ![s] = {"start"}] ELSE entries
    /\ UNCHANGED <<hubVars, podClosing, perUser, flow>>

----------------------------------------------------------------------------
(* session.go: run.                                                          *)

\* RegisterRevocable: refused after the shutdown of the hub.
RegisterRevocable(s) ==
    /\ stream[s].pc = "started"
    /\ IF hubState # "run"
       THEN stream' = [stream EXCEPT ![s].pc = "registered", ![s].result = finish(s, "shutdown")] /\ UNCHANGED revocables
       ELSE stream' = [stream EXCEPT ![s].pc = "registered"] /\ revocables' = revocables \cup {s}
    /\ UNCHANGED <<hubState, clients, subs, sock, cred, trusted, slow, revoke, revokedNow, podClosing, perUser, flow, entries>>

\* postRegisterCheck: the credential and the access once more, before the flow starts; a failed lookup
\* passes.
postRegister(s) ==
    /\ stream[s].pc = "registered"
    /\ \E seen \in IF "lookup" \in HubFaults THEN BOOLEAN ELSE {TRUE} :
        LET bad == CredRevoked(s, cred[s]) \/ Written("instance")
            ended == ContextEnded(s) \/ (seen /\ bad)
        IN /\ stream' = [stream EXCEPT ![s].pc = "running", ![s].cleared = ~seen \/ ~bad,
                                       ![s].result = IF ~ContextEnded(s) /\ seen /\ bad THEN "revoked" ELSE @]
           /\ flow' = IF StreamKind[s] = "exec" /\ ~ended THEN [flow EXCEPT ![s] = "read"] ELSE flow
    /\ UNCHANGED <<hubVars, podClosing, perUser, entries>>

\* The pumps and supervise: the client leaves, the pod ends, a timeout.
SessionEvent(s) ==
    /\ stream[s].pc = "running" /\ ~ContextEnded(s)
    /\ stream' = [stream EXCEPT ![s].result = "closed"]
    /\ UNCHANGED <<hubVars, podClosing, perUser, flow, entries>>

\* supervise sees the end of the context; teardown closes the connection and leaves the hub.
Teardown(s) ==
    /\ stream[s].pc = "running" /\ ContextEnded(s)
    /\ stream' = [stream EXCEPT ![s].pc = "teardown", ![s].result = Result(s)]
    /\ revocables' = revocables \ {s}
    /\ UNCHANGED <<hubState, clients, subs, sock, cred, trusted, slow, revoke, revokedNow, podClosing, perUser, flow, entries>>

EndedAfterExit(s) ==
    /\ stream[s].pc = "teardown" /\ flow[s] \in {"none", "done"}
    /\ stream' = [stream EXCEPT ![s].pc = "ended", ![s].slot = FALSE]
    /\ perUser' = [perUser EXCEPT ![StreamUser[s]] = @ - 1]
    /\ entries' = IF StreamKind[s] = "forward" \/ stream[s].result = "exit"
                  THEN [entries EXCEPT ![s] = @ \cup {"end"}] ELSE entries
    /\ UNCHANGED <<hubVars, podClosing, flow>>

\* waitTimeout for the pumps, then the summary: the end entry of a tunnel, and of a command when its
\* start entry is known to be written.  An audit write may take longer than the wait.
Ended(s) ==
    /\ stream[s].pc = "teardown"
    /\ flow[s] \in {"none", "done"} \/ ("slowAudit" \in StreamFaults /\ flow[s] = "auditing")
    /\ stream' = [stream EXCEPT ![s].pc = "ended", ![s].slot = FALSE]
    /\ perUser' = [perUser EXCEPT ![StreamUser[s]] = @ - 1]
    /\ entries' = IF StreamKind[s] = "forward" \/ (flow[s] = "done" /\ "start" \in entries[s])
                  THEN [entries EXCEPT ![s] = @ \cup {"end"}] ELSE entries
    /\ UNCHANGED <<hubVars, podClosing, flow>>

----------------------------------------------------------------------------
(* exec.go: flow.                                                            *)

To(s, f) == flow' = [flow EXCEPT ![s] = f]

\* readStart: the message and ValidateExecCommand; a bad one, no message in time or the end of the
\* connection end the session.
readStart(s) ==
    /\ flow[s] = "read"
    /\ \/ ~ContextEnded(s) /\ To(s, "auditing") /\ UNCHANGED stream
       \/ To(s, "done") /\ stream' = [stream EXCEPT ![s].result = IF ContextEnded(s) THEN Result(s) ELSE "closed"]
    /\ UNCHANGED <<hubVars, podClosing, perUser, entries>>

\* BeforeStart: the start entry; without it the command does not run.
BeforeStart(s) ==
    /\ flow[s] = "auditing"
    /\ \/ entries' = [entries EXCEPT ![s] = @ \cup {"start"}] /\ To(s, "audited") /\ UNCHANGED stream
       \/ /\ "audit" \in StreamFaults
          /\ To(s, "done") /\ UNCHANGED entries
          /\ stream' = [stream EXCEPT ![s].result = IF ContextEnded(s) THEN Result(s) ELSE "closed"]
    /\ UNCHANGED <<hubVars, podClosing, perUser>>

\* The context once more, then the command.
RunCommand(s) ==
    /\ flow[s] = "audited"
    /\ To(s, IF ContextEnded(s) THEN "done" ELSE "command")
    /\ UNCHANGED <<hubVars, podClosing, perUser, stream, entries>>

\* The command ends, with its exit frame or an error, or with the context.
CommandEnds(s) ==
    /\ flow[s] = "command"
    /\ To(s, "done")
    /\ \E r \in {"exit", "closed"} :
        stream' = [stream EXCEPT ![s].result = IF ContextEnded(s) THEN Result(s) ELSE r]
    /\ UNCHANGED <<hubVars, podClosing, perUser, entries>>

\* Manager.Shutdown: no new session, and the context of every session ends.
ManagerShutdown ==
    /\ ~podClosing
    /\ podClosing' = TRUE
    /\ UNCHANGED <<hubVars, perUser, stream, flow, entries>>

SessionStep(s) ==
    \/ StreamChecks(s) \/ Acquire(s) \/ StartRefused(s) \/ StartSession(s) \/ RegisterRevocable(s) \/ postRegister(s)
    \/ Teardown(s) \/ Ended(s) \/ readStart(s) \/ BeforeStart(s) \/ RunCommand(s) \/ CommandEnds(s)

StreamNext ==
    \/ RevocationNext /\ UNCHANGED streamVars
    \/ \E s \in Streams : SessionStep(s) \/ ResolveFails(s) \/ SessionEvent(s)
    \/ ManagerShutdown

PodNext == StreamNext \/ (SocketNext /\ UNCHANGED streamVars)

PodSpec == PodInit /\ [][PodNext]_podVars

----------------------------------------------------------------------------
(* Properties.                                                               *)

\* A session goroutine.
SessionStates == [pc : {"new", "checked", "slot", "started", "registered", "running", "teardown", "ended", "refused"},
                  slot : BOOLEAN, result : {"none", "revoked", "shutdown", "closed", "exit"}, cleared : BOOLEAN]

\* Types of the sessions.
PodTypeOK ==
    /\ HubTypeOK /\ podClosing \in BOOLEAN
    /\ stream \in [Streams -> SessionStates]
    /\ flow \in [Streams -> {"none", "read", "auditing", "audited", "command", "done"}]
    /\ entries \in [Streams -> SUBSET {"start", "end"}]
    /\ perUser \in [StreamUsers -> Nat]

\* Acquire and Release: the counter of a user is the number of its sessions, within the limits, on
\* every path out of a request or a session (a leaked slot would lock the user out).
SlotsMatchSessions ==
    /\ \A u \in StreamUsers : perUser[u] = Cardinality({s \in Reserved : StreamUser[s] = u}) /\ perUser[u] <= MaxPerUser
    /\ Cardinality(Reserved) <= ProcessCap
    /\ \A s \in Streams : stream[s].pc \in {"new", "checked", "refused", "ended"} => ~stream[s].slot

\* flow and BeforeStart: "The start entry is written before the command and fails closed".
CommandIsAudited ==
    \A s \in Streams : flow[s] = "command" => "start" \in entries[s]

\* run: "The re-check comes before the start message is read, so a revoked session never reaches the
\* audit entry or the command": a revocation before the re-check, whatever disconnect it missed.
RevokedNeverStarts ==
    \A s \in Streams : StreamKind[s] = "exec" /\ stream[s].pc \in {"running", "teardown", "ended"} /\ ~stream[s].cleared
        => entries[s] = {}

\* ExecSummary.Audited: "The end entry is due then, also when the session was revoked between the audit
\* write and the start of the command"; a tunnel has both entries too.
StartHasEnd ==
    \A s \in Streams : stream[s].pc = "ended" /\ "start" \in entries[s] => "end" \in entries[s]

\* Registrar: a session that ended is not in the hub, and one that the hub took out has ended.
HubHoldsRunning ==
    \A s \in Streams : /\ s \in revocables => stream[s].pc \in {"registered", "running"}
                       /\ stream[s].pc = "running" /\ s \notin revocables => ContextEnded(s)

\* Manager.Shutdown: every session ends, and gives its slot back.
ShutdownEndsSessions ==
    <>[](podClosing => \A s \in Streams : stream[s].pc \in {"refused", "ended"})
=============================================================================
