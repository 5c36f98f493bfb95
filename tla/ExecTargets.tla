----------------------------- MODULE ExecTargets -----------------------------
(* How a pod stream finds its pod, and how it may lose its access            *)
(* (k8s/pod_exec_stream.go, pod_exec_hints.go, pod_select.go,                *)
(* release_owner.go, port_forward.go, handlers/instance_stream_access.go).   *)
(* Functions of what the cluster or the database answers: one step takes a   *)
(* case, the properties compare the results.  A pod is a record with its     *)
(* rank by name, its release labels, its Deployment and what the             *)
(* service-account-token check looks at.                                     *)
EXTENDS Naturals, Sequences, SequencesExt, FiniteSetsExt, FiniteSets, TLC

CONSTANTS
    ExecCases,       \* [pods, deployments, accounts, secrets]
    ServiceCases,    \* [pods, service, port]
    AccessCases,     \* a session and what the three lookups of its re-check answer
    WantedReleases,  \* the charts of the definition, in order, each once
    AllowedNames,    \* the containers that may be used for exec
    MaxTokenReads    \* maxExecHintTokenReads

ASSUME ExecTargetsAssumption == MaxTokenReads \in Nat \ {0} /\ AllowedNames # {}

VARIABLE
    query            \* <<>>, or <<kind, the case>>

----------------------------------------------------------------------------
(* The pods of a release.                                                    *)

labelRelease(p) == IF p.inst # "none" THEN p.inst ELSE IF p.helm # "none" THEN p.helm ELSE ""

\* deploymentReleases, for the Deployment that owns the pod.
ownerRelease(c, p) == IF p.owner \in DOMAIN c.deployments THEN c.deployments[p.owner] ELSE ""

ownerReleasePods(c, r) == {p \in c.pods : labelRelease(p) = "" /\ ownerRelease(c, p) = r}

\* The two lists by label, else the pods of the release's Deployments.
releasePods(c, r) ==
    LET labelled == {p \in c.pods : p.inst = r \/ p.helm = r} IN IF labelled # {} THEN labelled ELSE ownerReleasePods(c, r)

\* The grouping of the hints: one list of all pods; the owners count for the releases without a pod.
byRelease(c) == [r \in ToSet(WantedReleases) |-> {p \in c.pods : p.inst = r \/ p.helm = r}]

addOwnerReleasePods(c, grouped) ==
    LET empty == {r \in DOMAIN grouped : grouped[r] = {}} IN
    [r \in DOMAIN grouped |-> IF r \in empty THEN ownerReleasePods(c, r) ELSE grouped[r]]

readySortedPods(pods) == SetToSortSeq({p \in pods : p.ready}, LAMBDA a, b : a.rank < b.rank)

SelectReadyPod(pods) == CHOOSE p \in pods : p.ready /\ \A q \in pods : q.ready => p.rank <= q.rank

----------------------------------------------------------------------------
(* The container.                                                            *)

Positions(ready) == {<<i, j>> \in (1..Len(ready)) \X (1..3) : j \in DOMAIN ready[i].containers}

Earliest(places) == CHOOSE x \in places : \A y \in places : x[1] < y[1] \/ (x[1] = y[1] /\ x[2] <= y[2])

\* pickExecContainer: the first allowed container of the first pod that has one; "" asks for any.
Pickable(ready, requested) ==
    {x \in Positions(ready) :
        LET name == ready[x[1]].containers[x[2]].name IN name \in AllowedNames /\ requested \in {"", name}}

execPickError(ready, requested) ==
    IF requested = "" \/ \E x \in Positions(ready) : ready[x[1]].containers[x[2]].name = requested
    THEN "not allowed" ELSE "not found"

----------------------------------------------------------------------------
(* holdsServiceAccountToken.                                                 *)

NewMemo(limit) == [known |-> <<>>, reads |-> 0, limit |-> limit]

\* A missing service account mounts a token; a missing secret is none.
Asked(c, key) ==
    IF key[1] = "account" THEN IF c.accounts[key[2]] = "missing" THEN "yes" ELSE c.accounts[key[2]]
    ELSE CASE c.secrets[key[2]] = "token" -> "yes" [] c.secrets[key[2]] = "forbidden" -> "forbidden" [] OTHER -> "no"

\* secretIsToken and effectiveAutomount: an answer is kept, an error too; a spent budget is not kept.
ReadOnce(c, memo, key) ==
    IF key \in DOMAIN memo.known THEN [ans |-> memo.known[key], memo |-> memo]
    ELSE IF memo.limit > 0 /\ memo.reads >= memo.limit THEN [ans |-> "budget", memo |-> memo]
    ELSE [ans |-> Asked(c, key), memo |-> [memo EXCEPT !.known = @ @@ (key :> Asked(c, key)), !.reads = @ + 1]]

effectiveAutomount(c, p, memo) ==
    IF p.automount # "unset" THEN [ans |-> p.automount, memo |-> memo] ELSE ReadOnce(c, memo, <<"account", p.account>>)

\* The containers that run beside the chosen one: not the classic init containers, which have ended.
runningContainerReaders(p) == ToSet(p.containers) \cup {x \in p.others : x.kind # "init"}

readersOf(p, ctr) == IF p.share THEN runningContainerReaders(p) ELSE {ctr}

Mounted(p, readers) == {v \in p.volumes : \E x \in readers : v.name \in x.mounts}

referencedSecrets(p, readers) ==
    UNION {x.env : x \in readers} \cup {v.secret : v \in {w \in Mounted(p, readers) : w.secret # "none"}}

projectedToken(p, readers) == \E v \in Mounted(p, readers) : v.token

\* One read after the other until one is a token or fails (their order does not matter: both refuse).
holdsServiceAccountToken(c, p, ctr, memo) ==
    LET auto == effectiveAutomount(c, p, memo)
        readers == readersOf(p, ctr)
    IN IF auto.ans # "no" THEN auto
       ELSE IF projectedToken(p, readers) THEN [auto EXCEPT !.ans = "yes"]
       ELSE FoldLeft(LAMBDA acc, s : IF acc.ans # "no" THEN acc ELSE ReadOnce(c, acc.memo, <<"secret", s>>),
                     auto, SetToSeq(referencedSecrets(p, readers)))

----------------------------------------------------------------------------
(* The route and the hints.                                                  *)

Refused(why) == [ok |-> FALSE, why |-> why, pod |-> 0, name |-> ""]

ResolveExecTarget(c, r, requested) ==
    LET ready == readySortedPods(releasePods(c, r))
        x == Earliest(Pickable(ready, requested))
        ctr == ready[x[1]].containers[x[2]]
        ans == holdsServiceAccountToken(c, ready[x[1]], ctr, NewMemo(0)).ans
    IN IF ready = <<>> THEN Refused("no ready pod")
       ELSE IF Pickable(ready, requested) = {} THEN Refused(execPickError(ready, requested))
       ELSE IF ans # "no" THEN Refused(ans)
       ELSE [ok |-> TRUE, why |-> "", pod |-> ready[x[1]].rank, name |-> ctr.name]

NewHint == [names |-> {}, pods |-> <<>>, default |-> ""]

\* One allowed name of a release: the check, and its entry when it holds no token.
HintFor(c, ready, acc, r, name) ==
    LET x == Earliest(Pickable(ready, name))
        d == Earliest(Pickable(ready, ""))
        check == holdsServiceAccountToken(c, ready[x[1]], ready[x[1]].containers[x[2]], acc.memo)
    IN IF check.ans # "no" THEN [acc EXCEPT !.memo = check.memo, !.cut = @ \/ check.ans = "budget"]
       ELSE [acc EXCEPT !.memo = check.memo,
                        !.hints[r] = [names |-> @.names \cup {name}, pods |-> @.pods @@ (name :> ready[x[1]].rank),
                                      default |-> IF name = ready[d[1]].containers[d[2]].name THEN name ELSE @.default]]

\* The allowed names of the ready pods in the order of the pods and of their containers, each once.
HintNames(ready) ==
    LET places == SetToSortSeq(Pickable(ready, ""), LAMBDA a, b : a[1] < b[1] \/ (a[1] = b[1] /\ a[2] < b[2]))
    IN FoldLeft(LAMBDA acc, x : IF Contains(acc, ready[x[1]].containers[x[2]].name) THEN acc
                                ELSE Append(acc, ready[x[1]].containers[x[2]].name), <<>>, places)

ExecContainers(c) ==
    LET grouped == addOwnerReleasePods(c, byRelease(c))
        OneRelease(acc, r) ==
            LET ready == readySortedPods(grouped[r])
            IN FoldLeft(LAMBDA a, name : HintFor(c, ready, a, r, name), acc, HintNames(ready))
    IN FoldLeft(OneRelease, [memo |-> NewMemo(MaxTokenReads), cut |-> FALSE, hints |-> [r \in ToSet(WantedReleases) |-> NewHint]],
                WantedReleases)

----------------------------------------------------------------------------
(* ResolveServiceTarget.                                                     *)

NamedPorts(ports, name) == SelectSeq(ports, LAMBDA x : x.name = name /\ x.tcp)

\* targetPortContainers: the ports of the containers and of the sidecars, in order.
targetPorts(p) == p.ports \o p.sidecarPorts

resolveTargetPort(sp, p) ==
    IF sp.number > 0 THEN sp.number
    ELSE IF sp.target = "" THEN sp.port
    ELSE LET named == NamedPorts(targetPorts(p), sp.target) IN IF named = <<>> THEN 0 ELSE named[1].port

\* 0: refused (ExternalName, no selector, no such TCP port, no ready pod, no such named port).
ResolveServiceTarget(c) ==
    LET found == SelectSeq(c.service.ports, LAMBDA x : x.port = c.port /\ x.tcp)
        p == SelectReadyPod(c.pods)
    IN IF c.service.external \/ ~c.service.selector \/ found = <<>> \/ (\A q \in c.pods : ~q.ready) THEN [pod |-> 0, port |-> 0]
       ELSE [pod |-> p.rank, port |-> resolveTargetPort(found[1], p)]

----------------------------------------------------------------------------
(* NewStreamAccessChecker, for one session.                                  *)

canModifyInstanceAs(s) == s.owner \/ s.role \in {"devops", "admin"}

\* loadStreamInstances, loadStreamUsers, loadStreamClusterFlags: a failed lookup is not known.
Known(s, lookup) == lookup \notin s.failed

InstanceLost(s) == Known(s, "instances") /\ s.instance # "live"

UserLost(s) ==
    Known(s, "users") /\ (s.user # "active" \/ (Known(s, "instances") /\ s.instance # "gone" /\ ~canModifyInstanceAs(s)))

ClusterLost(s) == Known(s, "instances") /\ s.instance = "live" /\ Known(s, "clusters") /\ s.kind \notin s.allowed

AccessLost(s) == s.kind \notin s.enabled \/ (s.inTime /\ (UserLost(s) \/ InstanceLost(s) \/ ClusterLost(s)))

----------------------------------------------------------------------------
ExecInit == query = <<>>

ExecNext ==
    /\ query = <<>>
    /\ \/ \E c \in ExecCases : query' = <<"exec", c>>
       \/ \E c \in ServiceCases : query' = <<"service", c>>
       \/ \E c \in AccessCases : query' = <<"access", c>>

ExecSpec == ExecInit /\ [][ExecNext]_query

----------------------------------------------------------------------------
IsCase(kind) == query # <<>> /\ query[1] = kind

\* The hints are what the route does (ExecContainers: "which containers ResolveExecTarget would
\* accept"): a listed container is accepted, in the pod shown for it, and the default is the choice
\* without a name; when the read budget left nothing out, what is not listed is refused.
HintsMatchTheRoute ==
    IsCase("exec") =>
        LET c == query[2]
            all == ExecContainers(c)
        IN \A r \in ToSet(WantedReleases) :
              LET hint == all.hints[r] IN
              /\ \A name \in hint.names :
                    LET t == ResolveExecTarget(c, r, name) IN t.ok /\ t.pod = hint.pods[name]
              /\ hint.default # "" =>
                    LET t == ResolveExecTarget(c, r, "") IN t.ok /\ t.name = hint.default /\ t.pod = hint.pods[t.name]
              /\ ~all.cut =>
                    /\ \A name \in AllowedNames : ResolveExecTarget(c, r, name).ok => name \in hint.names
                    /\ ResolveExecTarget(c, r, "").ok => hint.default # ""

\* A command never runs where it can read a service-account token: neither mounted, nor through a
\* volume, a secret or the environment of any container whose files it can see.
AcceptedHoldsNoToken ==
    IsCase("exec") =>
        LET c == query[2] IN
        \A r \in ToSet(WantedReleases), name \in AllowedNames \cup {""} :
            LET t == ResolveExecTarget(c, r, name) IN
            t.ok => LET p == CHOOSE q \in c.pods : q.rank = t.pod
                        visible == {x \in ToSet(p.containers) : p.share \/ x.name = t.name}
                                       \cup {x \in p.others : p.share /\ x.kind \in {"sidecar", "ephemeral"}}
                    IN /\ p.automount = "no" \/ (p.automount = "unset" /\ c.accounts[p.account] = "no")
                       /\ \A x \in visible :
                             /\ \A s \in x.env : c.secrets[s] \in {"opaque", "missing"}
                             /\ \A v \in p.volumes :
                                   v.name \in x.mounts => ~v.token /\ (v.secret # "none" => c.secrets[v.secret] \in {"opaque", "missing"})

\* A port-forward goes to a TCP port: the number of the Service, or the TCP port of that name of a
\* container that runs in the chosen pod (resolveTargetPort).
ForwardGoesToTCP ==
    IsCase("service") =>
        LET c == query[2]
            t == ResolveServiceTarget(c)
        IN t.port # 0 =>
              /\ \E p \in c.pods : p.rank = t.pod /\ p.ready
              /\ \A sp \in ToSet(c.service.ports) :
                    sp.port = c.port /\ sp.tcp /\ sp.number = 0 /\ sp.target # "" =>
                        \E p \in c.pods : p.rank = t.pod /\ \E x \in ToSet(targetPorts(p)) : x.tcp /\ x.name = sp.target /\ x.port = t.port

\* A failed lookup fails open ("the affected sessions stay and the next run retries") and a completed
\* one closes: a session is closed only for a reason that the database holds, and, when every lookup
\* answered in time, whenever there is one.
AccessLossIsReal ==
    IsCase("access") =>
        LET s == query[2]
            reasons == {x \in {"switch", "user", "role", "instance", "cluster"} :
                            CASE x = "switch" -> s.kind \notin s.enabled
                              [] x = "user" -> s.user # "active"
                              [] x = "role" -> s.instance # "gone" /\ ~s.owner /\ s.role = "user"
                              [] x = "instance" -> s.instance # "live"
                              [] x = "cluster" -> s.instance = "live" /\ s.kind \notin s.allowed}
        IN /\ AccessLost(s) => reasons # {}
           /\ s.failed = {} /\ s.inTime => (AccessLost(s) <=> reasons # {})

\* "Port-forward and exec share it, so both choose the same pod" (SelectReadyPod), where the Service
\* selects the pods of the release.
ExecAndForwardChooseOnePod ==
    IsCase("exec") =>
        \A r \in ToSet(WantedReleases) :
            LET t == ResolveExecTarget(query[2], r, "") IN t.ok => t.pod = SelectReadyPod(releasePods(query[2], r)).rank
=============================================================================
