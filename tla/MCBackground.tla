---------------------------- MODULE MCBackground ----------------------------
(* Instances of the modules of background workers, of the event fan-out, of  *)
(* the hooks and of the values, history, exec and git routing computations.  *)
(* They share no state that one of their properties reads, so one of them    *)
(* steps in a behaviour: part says which.                                    *)
EXTENDS ExpiryWarner, Retention, PodEvents, CleanupScheduler, Hooks, RunningValues, Fanout,
        HistoryPages, ValueLayers, ExecTargets, GitRouting

CONSTANT Parts
VARIABLE part

(* Pod problems, cleanup schedules.                                          *)
MCGroupOf == [p1 |-> "a", p2 |-> "a", p3 |-> "a", p4 |-> "b"]
MCScoreOf == [p1 |-> 3, p2 |-> 2, p3 |-> 4, p4 |-> 1]
MCTimesOf == [even |-> {2, 3}, odd |-> {1}]

(* Hooks: three subscriptions, one of them for every template.               *)
MCHookGroups == {{"f"}, {"p"}, {"b"}, {"a", "l"}}
MCHookKind == [p |-> "progress", f |-> "fire", b |-> "block", a |-> "action", l |-> "list"]
Sub(scope, policy, blocking) == [scope |-> scope, policy |-> policy, blocking |-> blocking]
MCHookSubs == <<Sub({"t1"}, "fail", FALSE), Sub({}, "ignore", TRUE), Sub({"t1"}, "fail", TRUE)>>
Answer(code, body) == [code |-> code, body |-> body, over |-> FALSE]
MCHookAnswers == {Answer("2xx", "allowed"), Answer("2xx", "denied"), Answer("none", "empty")}

MCChartOrder == <<"a", "b">>
MCMaxPublished == [a |-> 0, b |-> 2, c |-> 1]

(* History: logs of one time, of an older time and of another instance.      *)
DeployLog(id, at, action, status, target) ==
    [id |-> id, at |-> at, inst |-> "i", action |-> action, status |-> status, target |-> target]
MCHistoryRows ==
    {DeployLog(3, 1, "deploy", "success", 0), DeployLog(1, 1, "deploy", "error", 0),
     [DeployLog(5, 0, "deploy", "success", 0) EXCEPT !.inst = "j"], DeployLog(4, 0, "rollback", "success", 1)}
MCHistoryStarts == {[rows |-> MCHistoryRows, list |-> k] : k \in {"deploy", "filtered", "runs", "audit", "highlights"}}

(* Values: texts with one key, leaves, maps, null, templates, broken YAML.   *)
A(v) == Text([k \in {"a"} |-> v])
AMap(j, v) == A(MapOf([n \in {j} |-> Leaf(v)]))
B(v) == Text([k \in {"b"} |-> Leaf(v)])
MCFirstStore ==
    [row |-> NoOverride, locked |-> AMap("x", "l"), chart |-> TRUE,
     shared |-> {[id |-> 1, priority |-> 2, text |-> A(Leaf("s"))]}]
MCChartDefaults == AMap("y", "d")
SetText(text) == [kind |-> "set", text |-> text]
Do(kind) == [kind |-> kind]
PublishText(text) == [kind |-> "publish", text |-> text]
Share(kind, id, priority, text) == [kind |-> kind, id |-> id, priority |-> priority, text |-> text]
MCLayerScripts ==
    {<<SetText(B("o")), PublishText(B("m")), Do("deploy"), SetText(AMap("y", "o"))>>,
     <<SetText(B("o")), SetText(B("n")), Do("delete"), Do("deploy")>>,
     <<SetText(BrokenText), Share("reshare", 1, 3, B("t")), [kind |-> "unshare", id |-> 1], Do("deploy")>>,
     <<SetText(B("o")), SetText(Text(NoKeys)), Do("dropChart"), Do("deploy")>>,
     <<PublishText(A(Leaf("m"))), SetText(B("p")), Share("reshare", 1, 0, BrokenText), Do("deploy")>>,
     <<PublishText(AMap("x", "k")), SetText(AMap("y", "o")), Share("share", 2, 1, AMap("x", "t")), Do("deploy")>>}
MCSharedTexts == {BrokenText, Text(NoKeys), A(Leaf("s")), AMap("x", "{{.Branch}}")}
MCLayerTexts ==
    {BrokenText, Text(NoKeys), A(Null), A(Leaf("1")), A(Leaf("{{.Nope}}")), AMap("x", "1"), AMap("x", "{{.Branch}}"),
     A(MapOf([j \in {"x"} |-> Null])), A(MapOf([j \in {"x", "y"} |-> Leaf("2")]))}

(* Exec: pods by labels or owner, token mounts and secrets; services.        *)
Ctr(name, env, mounts) == [name |-> name, env |-> env, mounts |-> mounts]
Pod(rank, labels, ready, automount, share, containers, volumes) ==
    [rank |-> rank, inst |-> labels[1], helm |-> labels[2], owner |-> labels[3], ready |-> ready, automount |-> automount,
     account |-> "a", share |-> share, containers |-> containers, volumes |-> volumes,
     others |-> {[kind |-> "sidecar", env |-> {"s2"}, mounts |-> {}], [kind |-> "init", env |-> {"s3"}, mounts |-> {"v"}]}]
Volume(secret, token) == {[name |-> "v", secret |-> secret, token |-> token]}
PodKinds(rank) ==
    {Pod(rank, <<"r1", "none", "none">>, TRUE, "unset", FALSE, <<Ctr("log", {}, {}), Ctr("web", {"s1"}, {})>>, {}),
     Pod(rank, <<"none", "r1", "none">>, TRUE, "no", FALSE, <<Ctr("job", {}, {"v"}), Ctr("web", {}, {})>>, Volume("s1", FALSE)),
     Pod(rank, <<"r1", "r2", "none">>, TRUE, "no", TRUE, <<Ctr("web", {}, {})>>, Volume("none", TRUE)),
     Pod(rank, <<"r2", "r2", "none">>, FALSE, "no", FALSE, <<Ctr("web", {}, {})>>, {}),
     Pod(rank, <<"none", "none", "d1">>, TRUE, "no", FALSE, <<Ctr("web", {"s1", "s2"}, {}), Ctr("job", {}, {})>>, {}),
     Pod(rank, <<"", "r2", "d1">>, TRUE, "unset", TRUE, <<Ctr("job", {}, {}), Ctr("log", {"s1"}, {})>>, {}),
     Pod(rank, <<"r1", "r1", "none">>, TRUE, "yes", FALSE, <<Ctr("job", {}, {})>>, {}),
     Pod(rank, <<"r1", "none", "none">>, TRUE, "no", FALSE, <<Ctr("log", {}, {})>>, {})}
MCExecCases ==
    {[pods |-> {p, q}, deployments |-> [d1 |-> "r1"], accounts |-> [a |-> x],
      secrets |-> [s1 |-> y, s2 |-> z, s3 |-> "token"]] :
        p \in PodKinds(1), q \in PodKinds(2), x \in {"yes", "no", "missing", "forbidden"},
        y \in {"token", "opaque", "forbidden"}, z \in {"token", "missing"}}
Port(name, tcp, n) == [name |-> name, tcp |-> tcp, port |-> n]
SvcPod(rank, ready, ports, side) == [rank |-> rank, ready |-> ready, ports |-> ports, sidecarPorts |-> side]
SvcPort(port, tcp, number, target) == [port |-> port, tcp |-> tcp, number |-> number, target |-> target]
MCServiceCases ==
    {[pods |-> {SvcPod(1, ready, ports, side), SvcPod(2, TRUE, <<Port("http", TRUE, 8)>>, <<>>)}, port |-> 80,
      service |-> [external |-> ext, selector |-> TRUE, ports |-> <<SvcPort(80, FALSE, 9, ""), SvcPort(80, TRUE, n, name)>>]] :
        ready \in BOOLEAN, ext \in BOOLEAN, n \in {0, 7}, name \in {"", "http"},
        ports \in {<<>>, <<Port("http", FALSE, 5), Port("http", TRUE, 6)>>}, side \in {<<>>, <<Port("http", TRUE, 4)>>}}
MCAccessCases ==
    [kind : {"exec", "forward"}, enabled : {{"exec"}, {"exec", "forward"}}, user : {"active", "disabled", "gone"},
     role : {"user", "devops"}, owner : BOOLEAN, instance : {"live", "stopped", "gone"}, allowed : {{}, {"exec"}},
     failed : SUBSET {"users", "instances", "clusters"}, inTime : BOOLEAN]
MCWantedReleases == <<"r1", "r2">>

(* Git URLs.                                                                 *)
MCGitPaths ==
    {<<"Name", "Name">>, <<"name", "Name">>, <<"Name">>, <<"Name", "bad">>, <<"Name", "Name", "-", "bad">>,
     <<"v3", "Name", "Name", "Name">>, <<"Name", "Name", "_git", "Name">>,
     <<"DefaultCollection", "Name", "_git", "Name">>, <<"Name", "_git", "Name">>, <<"-", "Name">>}
MCGitLabServer == [scheme |-> "https", host |-> "git.example", port |-> "8443"]
MCAllowedGitHub == {<<"name", "Name">>}

----------------------------------------------------------------------------
AnyOf(S) == CHOOSE s \in S : TRUE

\* A part that does not step has one initial state.
BackgroundInit ==
    /\ part \in Parts
    /\ WarnInit
    /\ RetentionInit
    /\ EventsInit
    /\ CleanupInit /\ (part # "cleanup" => \A p \in Policies : policyRow[p].schedule = AnyOf(Schedules))
    /\ HooksInit /\ (part # "hooks" => template.is = AnyOf(HookTemplates) /\ {o \in HookOps : ops[o].step # "done"} = AnyOf(HookGroups))
    /\ RunningInit /\ (part # "running" => inDef = AllCharts)
    /\ FanInit
    /\ HistoryInit /\ (part # "history" => pager.list = "deploy")
    /\ LayerInit /\ (part # "layers" => \A r \in LayerRequests : lreq[r].do = AnyOf(LayerScripts)[r])
    /\ MergeInit
    /\ ExecInit
    /\ RouteInit

BackgroundNext ==
    \/ /\ part = "warner" /\ WarnNext
       /\ UNCHANGED <<part, retentionVars, eventVars, cleanupVars, hookVars, runningVars, fanVars, historyVars, layerVars, sample, query, asked>>
    \/ /\ part = "retention" /\ RetentionNext
       /\ UNCHANGED <<part, warnVars, eventVars, cleanupVars, hookVars, runningVars, fanVars, historyVars, layerVars, sample, query, asked>>
    \/ /\ part = "events" /\ EventsNext
       /\ UNCHANGED <<part, warnVars, retentionVars, cleanupVars, hookVars, runningVars, fanVars, historyVars, layerVars, sample, query, asked>>
    \/ /\ part = "cleanup" /\ CleanupNext
       /\ UNCHANGED <<part, warnVars, retentionVars, eventVars, hookVars, runningVars, fanVars, historyVars, layerVars, sample, query, asked>>
    \/ /\ part = "hooks" /\ HooksNext
       /\ UNCHANGED <<part, warnVars, retentionVars, eventVars, cleanupVars, runningVars, fanVars, historyVars, layerVars, sample, query, asked>>
    \/ /\ part = "running" /\ RunningNext
       /\ UNCHANGED <<part, warnVars, retentionVars, eventVars, cleanupVars, hookVars, fanVars, historyVars, layerVars, sample, query, asked>>
    \/ /\ part = "fanout" /\ FanNext
       /\ UNCHANGED <<part, warnVars, retentionVars, eventVars, cleanupVars, hookVars, runningVars, historyVars, layerVars, sample, query, asked>>
    \/ /\ part = "history" /\ HistoryNext
       /\ UNCHANGED <<part, warnVars, retentionVars, eventVars, cleanupVars, hookVars, runningVars, fanVars, layerVars, sample, query, asked>>
    \/ /\ part = "layers" /\ LayerNext
       /\ UNCHANGED <<part, warnVars, retentionVars, eventVars, cleanupVars, hookVars, runningVars, fanVars, historyVars, sample, query, asked>>
    \/ /\ part = "merge" /\ MergeNext
       /\ UNCHANGED <<part, warnVars, retentionVars, eventVars, cleanupVars, hookVars, runningVars, fanVars, historyVars, layerVars, query, asked>>
    \/ /\ part = "exec" /\ ExecNext
       /\ UNCHANGED <<part, warnVars, retentionVars, eventVars, cleanupVars, hookVars, runningVars, fanVars, historyVars, layerVars, sample, asked>>
    \/ /\ part = "routing" /\ RouteNext
       /\ UNCHANGED <<part, warnVars, retentionVars, eventVars, cleanupVars, hookVars, runningVars, fanVars, historyVars, layerVars, sample, query>>

backgroundVars ==
    <<part, warnVars, retentionVars, eventVars, cleanupVars, hookVars, runningVars, fanVars, historyVars, layerVars, sample, query, asked>>

BackgroundSpec == BackgroundInit /\ [][BackgroundNext]_backgroundVars

\* Every variable of the modules has its type; the queue of a fan-out writer stays within its
\* buffer (publish drops an event that does not fit).
BackgroundTypeOK ==
    /\ WarnTypeOK /\ RetentionTypeOK /\ EventsTypeOK /\ CleanupTypeOK /\ HooksTypeOK /\ RunningTypeOK /\ FanTypeOK
    /\ HistoryTypeOK /\ LayerTypeOK

\* A change of the leader neither repeats nor skips a duty: one warning per expiry, and one run per
\* scheduled time of a cleanup policy, caught up when no leader was there (WarnExpiring, runDuePolicies).
HandoversMissAndRepeatNothing ==
    OneWarningPerExpiry /\ MarkMeansWarned /\ ScheduledTimeRunsOnce /\ MissedRunsAreCaughtUp


\* The pure algorithms meet their definitions, on every sample: the merge of values and the image tag of
\* a branch (helm), the pod and port of an exec or forward and what its refusal means (k8s, podstream),
\* and the provider and project of a repository URL (gitprovider).
AlgorithmsMeetTheirDefinitions ==
    /\ StrongestLayerDecides /\ TagsAreValid
    /\ HintsMatchTheRoute /\ ForwardGoesToTCP /\ AccessLossIsReal
    /\ SpellingsAgree /\ ProjectsOfOwnServer
=============================================================================
