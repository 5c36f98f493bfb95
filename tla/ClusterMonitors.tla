-------------------------- MODULE ClusterMonitors --------------------------
(* The workers of the leader that watch the clusters: the quota monitor, the *)
(* secret monitor and the secret refresher (cluster/quota_monitor.go,        *)
(* secret_monitor.go, secret_refresher.go).  The cooldowns live in the       *)
(* memory of a replica and outlive a term; time is discrete.                 *)
EXTENDS Integers, FiniteSets

CONSTANTS
    Monitors,           \* replicas that can lead
    WarnKeys,           \* what can be warned of: a cluster (quota), a secret
    Cooldown,           \* key -> its cooldown
    RefreshNamespaces,  \* namespaces of the running instances of a cluster
    MaxMonitorTime,     \* bound of the clock
    MaxPasswords,       \* bound: changes of the registry password
    MaxTerms,           \* bound: changes of the leader
    MonitorFaults       \* subset of {"write"}

ASSUME MonitorsAssumption ==
    /\ \A k \in WarnKeys : Cooldown[k] \in Nat \ {0}
    /\ MaxMonitorTime \in Nat /\ MaxPasswords \in Nat
    /\ MonitorFaults \subseteq {"write"} /\ MaxTerms \in Nat

VARIABLES
    monTime,
    leader,         \* the replica whose workers run
    cooldown,       \* replica -> key -> time of the entry, -1 without one
    lastWarned,     \* replica -> key -> time of the last warning, -1 before it (history)
    password,       \* version of the registry password of the cluster row
    pullSecret,     \* namespace -> version of the pull secret
    refresh,        \* the refresher: namespaces to write, the password it listed
    terms           \* terms ended

monitorVars == <<monTime, leader, cooldown, lastWarned, password, pullSecret, refresh, terms>>
refreshVars == <<password, pullSecret, refresh, terms>>

NoRefresh == [active |-> FALSE, todo |-> {}, password |-> 0]

MonitorsInit ==
    /\ monTime = 0 /\ leader = CHOOSE p \in Monitors : TRUE
    /\ cooldown = [p \in Monitors |-> [k \in WarnKeys |-> -1]] /\ lastWarned = cooldown
    /\ password = 0 /\ pullSecret = [n \in RefreshNamespaces |-> 0]
    /\ refresh = NoRefresh /\ terms = 0

MonitorTick == monTime < MaxMonitorTime /\ monTime' = monTime + 1 /\ UNCHANGED <<leader, cooldown, lastWarned, refreshVars>>

\* Another replica takes the leadership; the cycle of the refresher ends where it is.
NewTerm ==
    /\ terms < MaxTerms /\ terms' = terms + 1
    /\ leader' \in Monitors \ {leader}
    /\ refresh' = NoRefresh
    /\ UNCHANGED <<monTime, cooldown, lastWarned, password, pullSecret>>

----------------------------------------------------------------------------
(* The quota monitor and the secret monitor.                                 *)

\* pruneCooldowns and pruneWarned drop an entry that is older than two cooldowns.
Pruned(entry, k, t) == IF entry >= 0 /\ t - entry > 2 * Cooldown[k] THEN -1 ELSE entry

\* The debounce of checkCluster and scanNamespace.
Cooling(entry, k, t) == entry >= 0 /\ t - entry < Cooldown[k]

\* One cycle: prune; then for every cluster or secret over its threshold, unless it is cooling, the
\* entry and the warning.  A failed lookup skips it.
MonitorCycle ==
    LET old == [k \in WarnKeys |-> Pruned(cooldown[leader][k], k, monTime)]
    IN /\ \E over \in SUBSET WarnKeys :
             LET warned == {k \in over : ~Cooling(old[k], k, monTime)}
                 Stamp(f) == [k \in WarnKeys |-> IF k \in warned THEN monTime ELSE f[k]]
             IN /\ cooldown' = [cooldown EXCEPT ![leader] = Stamp(old)]
                /\ lastWarned' = [lastWarned EXCEPT ![leader] = Stamp(@)]
       /\ UNCHANGED <<monTime, leader, refreshVars>>

----------------------------------------------------------------------------
(* The secret refresher.                                                     *)

\* UpdateCluster with a registry password, and the pull secret of a deploy that reads the row.
SetPassword ==
    /\ password < MaxPasswords /\ password' = password + 1
    /\ UNCHANGED <<monTime, leader, cooldown, lastWarned, pullSecret, refresh, terms>>

DeploySecret(n) ==
    /\ pullSecret' = [pullSecret EXCEPT ![n] = password]
    /\ UNCHANGED <<monTime, leader, cooldown, lastWarned, password, refresh, terms>>

\* refreshClusterSecrets: the namespaces of the running instances, whatever secret they have.
RefreshTargets == RefreshNamespaces

\* refresh: the rows of the cycle, with their passwords.
RefreshList ==
    /\ ~refresh.active
    /\ refresh' = [active |-> TRUE, todo |-> RefreshTargets, password |-> password]
    /\ UNCHANGED <<monTime, leader, cooldown, lastWarned, password, pullSecret, terms>>

\* refreshSecret: a namespace that fails is left for the next cycle.
refreshSecret(n, ok) ==
    /\ n \in refresh.todo
    /\ refresh' = [refresh EXCEPT !.todo = @ \ {n}]
    /\ pullSecret' = IF ok THEN [pullSecret EXCEPT ![n] = refresh.password] ELSE pullSecret
    /\ UNCHANGED <<monTime, leader, cooldown, lastWarned, password, terms>>

RefreshEnd ==
    /\ refresh.active /\ refresh.todo = {}
    /\ refresh' = NoRefresh
    /\ UNCHANGED <<monTime, leader, cooldown, lastWarned, password, pullSecret, terms>>

MonitorsNext ==
    \/ MonitorTick \/ NewTerm \/ MonitorCycle \/ SetPassword \/ RefreshList \/ RefreshEnd
    \/ \E n \in RefreshNamespaces : DeploySecret(n) \/ refreshSecret(n, TRUE) \/ ("write" \in MonitorFaults /\ refreshSecret(n, FALSE))

MonitorsSpec == MonitorsInit /\ [][MonitorsNext]_monitorVars

----------------------------------------------------------------------------
(* Properties.                                                               *)

\* Every variable has its type.
MonitorsTypeOK ==
    /\ monTime \in 0 .. MaxMonitorTime /\ leader \in Monitors
    /\ \A p \in Monitors, k \in WarnKeys : cooldown[p][k] \in -1 .. monTime
    /\ password \in 0 .. MaxPasswords /\ refresh.todo \subseteq RefreshNamespaces

\* One replica never repeats a warning within its cooldown, over any number of terms: the pruning of
\* the cooldown maps never drops an entry that still counts.
WarningsAreSpaced ==
    [][\A p \in Monitors, k \in WarnKeys :
          lastWarned'[p][k] # lastWarned[p][k] /\ lastWarned[p][k] >= 0 =>
             lastWarned'[p][k] - lastWarned[p][k] >= Cooldown[k]]_monitorVars

\* A changed registry password reaches every running namespace, also one whose pull secret a cycle
\* with the older row overwrote after a deploy had written the new one.
SecretsFollowPassword == <>[](\A n \in RefreshNamespaces : pullSecret[n] = password)
=============================================================================
