---------------------------- MODULE MCConnections ----------------------------
(* Instances of the modules in which goroutines of one process, and the      *)
(* clients that wait for them, meet: the worker group, the WebSocket hub,    *)
(* the pod streams, shared reads, branch lists, notifications, the status    *)
(* watcher and the preparation of namespaces.  One of them steps in a        *)
(* behaviour: part says which.                                               *)
EXTENDS WorkerGroup, PodStreams, SharedReads, GitBranches, Notifications, NamespaceWatch, NamespaceSetup

CONSTANT Parts
VARIABLE part

MCAuth == [c1 |-> "token", s1 |-> "token", s2 |-> "key"]
MCStreamKind == [s1 |-> "exec", s2 |-> "forward"]
MCStreamUser == [s1 |-> "u", s2 |-> "u"]

Reads(kind, hints, privileged) == [kind |-> kind, hints |-> hints, privileged |-> privileged]
MCReaderIs ==
    [s |-> Reads("status", TRUE, FALSE), t |-> Reads("status", FALSE, FALSE), p |-> Reads("pods", TRUE, FALSE),
     d |-> Reads("dashboard", FALSE, TRUE), e |-> Reads("dashboard", FALSE, FALSE), f |-> Reads("dashboard", FALSE, FALSE)]
MCReaderGroups == {<<{"s", "t"}, 3>>, <<{"s", "p"}, 4>>, <<{"d", "e"}, 3>>, <<{"e", "f"}, 1>>}

MCGitKind == [g |-> "github", h |-> "azure", l |-> "gitlab", n |-> "github"]
MCListerRepo == [a |-> "g", b |-> "g", c |-> "g", d |-> "h", e |-> "l", f |-> "n"]
MCListerBranch == [a |-> 3, b |-> 0, c |-> 2, d |-> 2, e |-> 2, f |-> 0]
MCFirstBranches == [g |-> {2, 3}, h |-> {1}, l |-> {1, 2}, n |-> {1}]
MCPushed == {<<"g", 1>>}
MCListerGroups == {<<{"a", "b", "c"}, 3, 1>>, <<{"a", "b"}, 0, 1>>, <<{"a", "f"}, 3, 0>>, <<{"a", "d", "e"}, 3, 1>>}

MCNtScripts == {<<"rename", "secret">>, <<"delete", "disable">>, <<"unsubscribe", "rename">>}

Container(r, n, s) == [ready |-> r, restarts |-> n, state |-> s]
Pod(n, l, o, ph, ini, cs) == [name |-> n, label |-> l, owner |-> o, phase |-> ph, inits |-> ini, containers |-> cs]
Deployment(n, l, an, x, d, r, u) ==
    [name |-> n, label |-> l, annotation |-> an, otherNs |-> x, desired |-> d, ready |-> r, updated |-> u]
Namespace(ds, ps) == [deployments |-> ds, pods |-> ps, exists |-> TRUE]
Web(r) == Deployment("web", "a", "", FALSE, 1, r, 1)
PodUp(n) == Pod(n, "", "web", "Running", <<>>, <<Container(TRUE, 0, "running")>>)
PodIn(n, ph, s) == Pod(n, "", "web", ph, <<>>, <<Container(FALSE, 0, s)>>)
MCWatchContents ==
    [fine |-> Namespace({Web(1)}, {PodUp("p")}), broken |-> Namespace({Web(1)}, {PodUp("p"), PodIn("q", "Failed", "terminated")}),
     grown |-> Namespace({Web(1)}, {PodUp("p"), PodUp("r")})]
SampleDeployments == {Deployment("d", l, an, x, 2, r, u) : l \in {"", "a"}, an \in {"", "b"}, x \in BOOLEAN, r \in {1, 2}, u \in {1, 2}}
SamplePods ==
    {Pod("p", l, o, ph, ini, <<Container(rd, rs, "running")>>) :
        l \in {"", "a"}, o \in {"d", "other"}, ph \in {"Pending", "Running", "Failed", "Succeeded"},
        ini \in {<<>>, <<Container(TRUE, 1, "terminated")>>}, rd \in BOOLEAN, rs \in {0, 1}}
MCStatusSamples ==
    {Namespace({d}, {p, PodUp("q")}) : d \in SampleDeployments, p \in SamplePods} \cup {NotFound}
    \cup {Namespace({d}, {PodUp("p"), Pod("q", "", "", "Running", <<>>, <<Container(TRUE, 5, "running")>>)}) : d \in SampleDeployments}
SampleInits == UNION {[1 .. n -> [sidecar : BOOLEAN, request : {1, 3}]] : n \in 0 .. 3}
MCPodSamples == {[inits |-> ini, app |-> x, overhead |-> o] : ini \in SampleInits, x \in {0, 2, 4}, o \in {0, 1}}

MCCallerKind == [d |-> "deploy", r |-> "rollback", q |-> "rollback", f |-> "refresh", c |-> "clean"]
MCSetupGroups == {<<{"d", "r"}, 0>>, <<{"d", "f"}, 0>>, <<{"d", "c"}, 0>>, <<{"r", "q", "c"}, 1>>}
MCSetupInits == {NoObject, [there |-> TRUE, val |-> {"subject"}], [there |-> TRUE, val |-> {"role"}]}

----------------------------------------------------------------------------
AnyOf(S) == CHOOSE s \in S : TRUE

\* A part that does not step has one initial state.
ConnectionsInit ==
    /\ part \in Parts
    /\ Init
    /\ PodInit
    /\ SharedInit /\ (part # "shared" => clk = AnyOf(ReaderGroups)[2] /\ reader = [r \in Readers |-> IF r \in AnyOf(ReaderGroups)[1] THEN NewReader ELSE [NewReader EXCEPT !.at = "done"]])
    /\ GitInit /\ (part # "git" => gitClock = AnyOf(ListerGroups)[2] /\ gitChanges = AnyOf(ListerGroups)[3] /\ \A c \in Listers : lister[c].pc # "absent" <=> c \in AnyOf(ListerGroups)[1])
    /\ NtInit /\ (part # "notify" => \A r \in NtRequests : ntReq[r].kind = AnyOf(NtScripts)[r])
    /\ WatchInit
    /\ SetupInit /\ (part # "setup" => kobj["access"] = AnyOf(SetupInits) /\ \A p \in SetupProcesses : call[p].step # "done" <=> p \in AnyOf(SetupGroups)[1] \cup {Reconciler} /\ foreign = AnyOf(SetupGroups)[2])

ConnectionsNext ==
    \/ /\ part = "group" /\ Next
       /\ UNCHANGED <<part, podVars, readVars, gitVars, ntVars, watchVars, setupVars>>
    \/ /\ part = "clients" /\ HubNext /\ revoke'["instance"] = "no" /\ "no" \in {revoke'["token"], revoke'["user"]} /\ UNCHANGED streamVars
       /\ UNCHANGED <<part, vars, readVars, gitVars, ntVars, watchVars, setupVars>>
    \/ /\ part = "streams" /\ StreamNext /\ \A k \in Revocations \ {"instance"} : revoke'[k] = "no"
       /\ UNCHANGED <<part, vars, readVars, gitVars, ntVars, watchVars, setupVars>>
    \/ /\ part = "shared" /\ SharedNext
       /\ UNCHANGED <<part, vars, podVars, gitVars, ntVars, watchVars, setupVars>>
    \/ /\ part = "git" /\ GitNext
       /\ UNCHANGED <<part, vars, podVars, readVars, ntVars, watchVars, setupVars>>
    \/ /\ part = "notify" /\ NtNext
       /\ UNCHANGED <<part, vars, podVars, readVars, gitVars, watchVars, setupVars>>
    \/ /\ part = "watch" /\ WatchNext
       /\ UNCHANGED <<part, vars, podVars, readVars, gitVars, ntVars, setupVars>>
    \/ /\ part = "setup" /\ SetupNext
       /\ UNCHANGED <<part, vars, podVars, readVars, gitVars, ntVars, watchVars>>

connectionVars == <<part, vars, podVars, readVars, gitVars, ntVars, watchVars, setupVars>>

----------------------------------------------------------------------------
(* Fairness, each of it for the part that steps.                             *)

\* Goroutines that can run do run, timers fire, and workers return once their context is done.  Nothing
\* forces a lease to be lost, a process to be shut down or a term to be won.
GroupFairness ==
    /\ WF_vars(part = "group" /\ (Stop \/ StopDone \/ StopTimeout \/ ElectorEnds))
    /\ WF_vars(part = "group" /\ main = "finished" /\ TermContextDone)
    /\ WF_vars(part = "group" /\ (CloseStop \/ CloseDone \/ CloseTimeout \/ CancelElection))
    /\ \A t \in Terms :
          /\ WF_vars(part = "group" /\ (RunWorkers(t) \/ TermEndsBeforeRun(t) \/ Drained(t) \/ TermDone(t)))
          /\ \A w \in Workers : WF_vars(part = "group" /\ WorkerReturns(t, w))

\* The Run loop and the revalidation go on, and a connection that was closed ends its read pump.
HubFairness ==
    /\ WF_hubVars(part = "clients" /\ revalidate) /\ WF_hubVars(part = "clients" /\ closeAllClients)
    /\ \A c \in Sockets :
          /\ WF_hubVars(part = "clients" /\ RunUnregister(c)) /\ WF_hubVars(part = "clients" /\ UnregisterDone(c))
          /\ WF_hubVars(part = "clients" /\ sock[c].writer = "off" /\ ReaderStops(c))
          /\ WF_hubVars(part = "clients" /\ writePump(c))

\* The goroutines of a session go on.
PodFairness == \A s \in Streams : WF_podVars(part = "streams" /\ SessionStep(s))

\* The goroutines of the flights and of the requests run.
SharedFairness ==
    /\ \A k \in FlightKeys : WF_readVars(part = "shared" /\ FlightSteps(k))
    /\ \A r \in Readers : WF_readVars(part = "shared" /\ ReaderSteps(r))

\* Callers and fills are goroutines that run; a provider answers or its bound ends the request.  Each
\* takes finitely many steps, so that fairness of all of them together is enough.
GitFairness == WF_gitVars(part = "git" /\ \E c \in Listers : ListerSteps(c) \/ FillSteps(c))

\* Goroutines that are ready run; the timers of Stop expire.
NtFairness ==
    /\ WF_ntVars(part = "notify" /\ DispatchFind) /\ WF_ntVars(part = "notify" /\ IntakeEnds)
    /\ WF_ntVars(part = "notify" /\ DrainBegins) /\ WF_ntVars(part = "notify" /\ CancelPool)
    /\ WF_ntVars(part = "notify" /\ StopEnds)
    /\ \A c \in NtChannels : /\ WF_ntVars(part = "notify" /\ submit(c)) /\ WF_ntVars(part = "notify" /\ WorkerTake(c))
                             /\ WF_ntVars(part = "notify" /\ deliver(c)) /\ WF_ntVars(part = "notify" /\ discard(c))

\* The leader polls and time passes; from some moment on the reads of a running watcher succeed.
WatchFairness ==
    /\ WF_watchVars(part = "watch" /\ looked = <<>> /\ WatchTick)
    /\ WF_watchVars(part = "watch" /\ looked = <<>> /\ (PollInstances \/ PollRead \/ PollApply))
    /\ WF_watchVars(part = "watch" /\ looked = <<>> /\ (RunReturns \/ RunAgain))
    /\ <>[][watcher = "runs" => ~(PollRead /\ wpoll'.step = "idle")]_watchVars

\* The leader's reconcile loop comes round, and its calls return.
SetupFairness == WF_setupVars(part = "setup" /\ Reconcile) /\ WF_setupVars(part = "setup" /\ CallStep(Reconciler))

ConnectionsSpec ==
    /\ ConnectionsInit /\ [][ConnectionsNext]_connectionVars
    /\ GroupFairness /\ HubFairness /\ PodFairness /\ SharedFairness /\ GitFairness /\ NtFairness
    /\ WatchFairness /\ SetupFairness

\* Every variable of the modules has its type; the queues keep their bounds.
ConnectionsTypeOK ==
    /\ TypeOK /\ PodTypeOK /\ SharedTypeOK /\ GitTypeOK /\ NtTypeOK /\ WatchTypeOK /\ SetupTypeOK

\* The reconciler gives a labelled namespace its access back, again and again, however the binding was
\* lost or changed (EnsureAccessBindings).
AccessComesBack == []<>(part = "setup" => AccessIsThere)

\* A shared answer is recent, and of the present leader: what waiters of one flight or one fill are
\* given, what the caches give, and the status that a former leader still holds.
SharedAnswersAreFresh == AnswersAreRecent /\ ListsAreRecentEnough /\ NoStatusOfOldTerm

\* Whoever waits is served in the end: terms for the workers of the previous ones, the shutdown, read
\* pumps, sessions, readers of shared flights and fills, and Stop of the notifier; a revoked client goes,
\* a namespace in error is marked, and a namespace that lost its access gets it back.
ConnectionsSettle ==
    /\ EveryTermGetsItsTurn /\ ShutdownEnds /\ RevokedClientGoes /\ ReadPumpEnds /\ ShutdownEndsSessions
    /\ ReadersAreAnswered /\ ListersAreAnswered /\ StopReturns /\ ErrorIsMarked /\ AccessComesBack
=============================================================================
