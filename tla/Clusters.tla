------------------------------ MODULE Clusters ------------------------------
(* The cluster registry: the cluster rows, the handlers that change them     *)
(* (handlers/clusters.go, database/cluster_repository.go), the client cache  *)
(* of every replica (cluster/registry.go) and the health poller              *)
(* (cluster/health_poller.go).  A handler invalidates the cache of its own   *)
(* replica only; a client is built outside the lock of the cache.            *)
EXTENDS Integers, FiniteSets

CONSTANTS
    ClusterRequests,    \* 1 .. n; a request that creates a cluster gives it its number
    ClusterScripts,     \* <<kind, replica>> of request 1 .. n
    ClusterFaults,      \* subset of {"build", "health", "lookup"}
    MaxPolls            \* bound: cycles of the health poller

ASSUME ClustersAssumption ==
    /\ ClusterFaults \subseteq {"build", "health", "lookup"}
    /\ MaxPolls \in Nat
    /\ \A s \in ClusterScripts : DOMAIN s = ClusterRequests

ClusterIds == ClusterRequests \cup {0}
Registries == {s[r][2] : s \in ClusterScripts, r \in ClusterRequests}
None == -1

VARIABLES
    clusters,       \* the rows; config and name are the request that wrote them
    registry,       \* replica -> cached clients, cached default
    files,          \* temporary kubeconfig files, named by the request that built the client
    placed,         \* instances: request -> their cluster, None while there is none
    clReq,          \* the requests
    poll,           \* the health poller: the rows it listed and has not checked
    polls,          \* cycles begun
    lastCheck,      \* cluster -> result of the last check that was stored (history)
    raced,          \* clusters whose row was written while a request held an older one (history)
    defaultBy       \* replica of the last change of the default (history)

clusterVars == <<clusters, registry, files, placed, clReq, poll, polls, lastCheck, raced, defaultBy>>

NoCluster == [exists |-> FALSE, config |-> 0, name |-> 0, isDefault |-> FALSE, health |-> "unreachable"]
NoClient == [config |-> None, file |-> None]

\* Cluster 0 is the default, and one instance of before the cluster column runs on it.
ClustersInit ==
    /\ clusters = [c \in ClusterIds |-> IF c = 0 THEN [NoCluster EXCEPT !.exists = TRUE, !.isDefault = TRUE] ELSE NoCluster]
    /\ registry = [p \in Registries |-> [clients |-> [c \in ClusterIds |-> NoClient], resolved |-> FALSE, default |-> None]]
    /\ files = {} /\ placed = [r \in ClusterRequests |-> None]
    /\ poll = [todo |-> {}, rows |-> clusters, cluster |-> None, found |-> ""] /\ polls = 0
    /\ lastCheck = [c \in ClusterIds |-> "unreachable"]
    /\ raced = {} /\ defaultBy = ""
    /\ \E s \in ClusterScripts :
          clReq = [r \in ClusterRequests |->
                     [kind |-> s[r][1], at |-> s[r][2], pc |-> "start", id |-> None, row |-> NoCluster, file |-> None]]

ClAt(r, kinds, pc) == clReq[r].kind \in kinds /\ clReq[r].pc = pc
ClGo(r, pc) == clReq' = [clReq EXCEPT ![r].pc = pc]
ClDone(r) == ClGo(r, "done")
Defaults == {c \in ClusterIds : clusters[c].exists /\ clusters[c].isDefault}
pollVars == <<poll, polls, lastCheck>>

----------------------------------------------------------------------------
(* The registry of a replica.                                                *)

\* InvalidateClient drops the cached client and removes its file, whoever still uses it.
InvalidateClient(p, c) ==
    /\ registry' = [registry EXCEPT ![p].clients[c] = NoClient]
    /\ files' = files \ {registry[p].clients[c].file}

InvalidateDefault(p) ==
    registry' = [registry EXCEPT ![p].resolved = FALSE, ![p].default = None]

\* GetDefaultClients and ResolveClusterID: the row is read under the write lock, so an
\* invalidation comes before the read or after the store.  A failed lookup is not cached.
ResolveClusterID(r) ==
    LET p == clReq[r].at
        found == IF registry[p].resolved THEN registry[p].default
                 ELSE IF Defaults = {} THEN None ELSE CHOOSE c \in Defaults : TRUE
    IN /\ ClAt(r, {"deploy", "place"}, "start")
       /\ \/ /\ registry' = [registry EXCEPT ![p].resolved = TRUE, ![p].default = found]
             /\ clReq' = [clReq EXCEPT ![r].id = found,
                                       ![r].pc = IF found = None THEN "done"
                                                 ELSE IF clReq[r].kind = "place" THEN "insert" ELSE "lookup"]
          \/ /\ "lookup" \in ClusterFaults /\ ~registry[p].resolved
             /\ ClDone(r) /\ UNCHANGED registry
       /\ UNCHANGED <<clusters, files, placed, pollVars, raced, defaultBy>>

\* GetClients: a hit, or the row for the build.
GetClients(r) ==
    LET p == clReq[r].at
        c == clReq[r].id
    IN /\ ClAt(r, {"deploy", "test"}, "lookup")
       /\ clReq' = [clReq EXCEPT ![r].row = clusters[c],
                                 ![r].file = registry[p].clients[c].file,
                                 ![r].pc = IF registry[p].clients[c] # NoClient THEN "use"
                                           ELSE IF clusters[c].exists THEN "build" ELSE "done"]
       /\ UNCHANGED <<clusters, registry, files, placed, pollVars, raced, defaultBy>>

\* buildClients and the second half of GetClients: the first client that was stored wins, the
\* file of the other is removed.
buildClients(r) ==
    LET p == clReq[r].at
        c == clReq[r].id
    IN /\ ClAt(r, {"deploy", "test"}, "build")
       /\ \/ /\ registry[p].clients[c] = NoClient
             /\ files' = files \cup {r}
             /\ registry' = [registry EXCEPT ![p].clients[c] = [config |-> clReq[r].row.config, file |-> r]]
             /\ clReq' = [clReq EXCEPT ![r].pc = "use", ![r].file = r]
          \/ /\ registry[p].clients[c] # NoClient
             /\ clReq' = [clReq EXCEPT ![r].pc = "use", ![r].file = registry[p].clients[c].file]
             /\ UNCHANGED <<registry, files>>
          \/ /\ "build" \in ClusterFaults
             /\ ClDone(r) /\ UNCHANGED <<registry, files>>
       /\ UNCHANGED <<clusters, placed, pollVars, raced, defaultBy>>

\* The Helm commands of an operation read the file of the client they were given.
UseClient(r) ==
    /\ ClAt(r, {"deploy"}, "use")
    /\ ClDone(r)
    /\ UNCHANGED <<clusters, registry, files, placed, pollVars, raced, defaultBy>>

\* TestClusterConnection: read the row, get the client, call the cluster, drop the client.
TestClusterConnection(r) ==
    \/ /\ ClAt(r, {"test"}, "start")
       /\ \E c \in ClusterIds :
             clReq' = [clReq EXCEPT ![r].id = c, ![r].pc = IF clusters[c].exists THEN "lookup" ELSE "done"]
       /\ UNCHANGED <<clusters, registry, files, placed, pollVars, raced, defaultBy>>
    \/ /\ ClAt(r, {"test"}, "use")
       /\ InvalidateClient(clReq[r].at, clReq[r].id)
       /\ ClDone(r)
       /\ UNCHANGED <<clusters, placed, pollVars, raced, defaultBy>>

----------------------------------------------------------------------------
(* The rows.                                                                 *)

Creates == {"create", "createDefault"}
Updates == {"kubeconfig", "rename", "makeDefault"}

\* ClusterRepository.SetDefault: one transaction that locks the rows of the default first.
SetDefault(rows, c) == [d \in ClusterIds |-> [rows[d] EXCEPT !.isDefault = (d = c)]]

\* CreateCluster: the row; then the default, asked for or because there is none.
CreateCluster(r) ==
    /\ ClAt(r, Creates, "start")
    /\ clusters' = [clusters EXCEPT ![r] = [NoCluster EXCEPT !.exists = TRUE, !.config = r, !.name = r]]
    /\ clReq' = [clReq EXCEPT ![r].id = r,
                              ![r].pc = IF clReq[r].kind = "createDefault" THEN "setDefault" ELSE "findDefault"]
    /\ UNCHANGED <<registry, files, placed, pollVars, raced, defaultBy>>

FindDefault(r) ==
    /\ ClAt(r, Creates, "findDefault")
    /\ ClGo(r, IF Defaults = {} THEN "setDefault" ELSE "done")
    /\ UNCHANGED <<clusters, registry, files, placed, pollVars, raced, defaultBy>>

\* SetDefaultCluster starts here; CreateCluster and UpdateCluster come here.
SetDefaultCluster(r) ==
    /\ \/ ClAt(r, Creates \cup Updates, "setDefault")
       \/ ClAt(r, {"setDefault"}, "start")
    /\ \E c \in (IF clReq[r].kind = "setDefault" THEN ClusterIds ELSE {clReq[r].id}) :
          IF clusters[c].exists
          THEN /\ clusters' = SetDefault(clusters, c)
               /\ clReq' = [clReq EXCEPT ![r].pc = "dropDefault", ![r].id = c]
               /\ defaultBy' = clReq[r].at
          ELSE ClDone(r) /\ UNCHANGED <<clusters, defaultBy>>
    /\ UNCHANGED <<registry, files, placed, pollVars, raced>>

\* InvalidateDefault after the commit; an update then writes its row.
DropDefault(r) ==
    /\ clReq[r].pc = "dropDefault"
    /\ InvalidateDefault(clReq[r].at)
    /\ ClGo(r, IF clReq[r].kind \in Updates THEN "save" ELSE "done")
    /\ UNCHANGED <<clusters, files, placed, pollVars, raced, defaultBy>>

\* UpdateCluster up to its first write.
UpdateCluster(r) ==
    /\ ClAt(r, Updates, "start")
    /\ \E c \in ClusterIds :
          clReq' = [clReq EXCEPT
              ![r].id = c,
              ![r].row = [clusters[c] EXCEPT !.config = IF clReq[r].kind = "kubeconfig" THEN r ELSE @,
                                             !.name = IF clReq[r].kind = "rename" THEN r ELSE @],
              ![r].pc = IF ~clusters[c].exists THEN "done"
                        ELSE IF clReq[r].kind = "makeDefault" /\ ~clusters[c].isDefault THEN "setDefault" ELSE "save"]
    /\ UNCHANGED <<clusters, registry, files, placed, pollVars, raced, defaultBy>>

\* A request that read row c and has not written or used it.
Holds(r, c) == clReq[r].id = c /\ clReq[r].pc \in {"save", "setDefault", "dropDefault", "build"}
Racing(r, c) == IF \E o \in ClusterRequests \ {r} : Holds(o, c) THEN {c} ELSE {}

\* ClusterRepository.Update saves the whole row but is_default and health_status.  Save of a row
\* that was deleted inserts it again, with their defaults.
Saved(old, row) ==
    IF old.exists THEN [row EXCEPT !.isDefault = old.isDefault, !.health = old.health]
    ELSE [row EXCEPT !.isDefault = FALSE, !.health = "unreachable"]


\* What UpdateCluster drops from the caches after its write.
AfterSave(kind) == CASE kind = "kubeconfig" -> "dropClient"
                     [] kind = "makeDefault" -> "dropDefaultAgain"
                     [] OTHER -> "done"

SaveCluster(r) ==
    LET c == clReq[r].id
    IN /\ ClAt(r, Updates, "save")
       /\ clusters' = [clusters EXCEPT ![c] = Saved(@, clReq[r].row)]
       /\ lastCheck' = IF clusters[c].exists THEN lastCheck ELSE [lastCheck EXCEPT ![c] = "unreachable"]
       /\ raced' = raced \cup Racing(r, c)
       /\ ClGo(r, AfterSave(clReq[r].kind))
       /\ UNCHANGED <<registry, files, placed, poll, polls, defaultBy>>

\* The end of UpdateCluster and of DeleteCluster.
DropClient(r) ==
    /\ clReq[r].pc = "dropClient"
    /\ InvalidateClient(clReq[r].at, clReq[r].id)
    /\ ClGo(r, IF clReq[r].kind = "delete" THEN "dropDefaultAgain" ELSE "done")
    /\ UNCHANGED <<clusters, placed, pollVars, raced, defaultBy>>

DropDefaultAgain(r) ==
    /\ clReq[r].pc = "dropDefaultAgain"
    /\ InvalidateDefault(clReq[r].at)
    /\ ClDone(r)
    /\ UNCHANGED <<clusters, files, placed, pollVars, raced, defaultBy>>

PlacedOn(c) == {r \in ClusterRequests : placed[r] = c}

\* clusterInstances: the default cluster also has the instances without a cluster; one of them (0)
\* always exists here.
clusterInstances(row, c) == PlacedOn(c) \cup (IF row.isDefault THEN {0} ELSE {})

\* DeleteCluster: the row, the instances, the delete, the caches.
DeleteCluster(r) ==
    LET c == clReq[r].id
    IN \/ /\ ClAt(r, {"delete"}, "start")
          /\ \E d \in ClusterIds :
                clReq' = [clReq EXCEPT ![r].id = d, ![r].row = clusters[d],
                                       ![r].pc = IF clusters[d].exists THEN "count" ELSE "done"]
          /\ UNCHANGED <<clusters, raced, defaultBy>>
       \/ /\ ClAt(r, {"delete"}, "count")
          /\ ClGo(r, IF clusterInstances(clReq[r].row, c) = {} THEN "delete" ELSE "done")
          /\ UNCHANGED <<clusters, raced, defaultBy>>
       \/ /\ ClAt(r, {"delete"}, "delete")
          /\ IF clusters[c].exists
             THEN /\ clusters' = [clusters EXCEPT ![c] = NoCluster]
                  /\ defaultBy' = IF clusters[c].isDefault THEN clReq[r].at ELSE defaultBy
                  /\ raced' = raced \cup Racing(r, c) \cup
                                (IF clReq[r].row.isDefault # clusters[c].isDefault \/ PlacedOn(c) # {}
                                 THEN {c} ELSE {})
                  /\ ClGo(r, "dropClient")
             ELSE ClDone(r) /\ UNCHANGED <<clusters, defaultBy, raced>>
    /\ UNCHANGED <<registry, files, placed, pollVars>>

\* CreateInstance with a cluster (ClusterExists reports a failed lookup as found), and the
\* insert of either form.
PlaceInstance(r) ==
    \/ /\ ClAt(r, {"placeOn"}, "start")
       /\ \E c \in ClusterIds :
             clReq' = [clReq EXCEPT ![r].id = c, ![r].pc = IF clusters[c].exists \/ "lookup" \in ClusterFaults THEN "insert" ELSE "done"]
       /\ UNCHANGED <<clusters, registry, files, placed, pollVars, raced, defaultBy>>
    \/ /\ ClAt(r, {"place", "placeOn"}, "insert")
       /\ placed' = [placed EXCEPT ![r] = clReq[r].id]
       /\ raced' = IF clusters[clReq[r].id].exists THEN raced ELSE raced \cup {clReq[r].id}
       /\ ClDone(r)
       /\ UNCHANGED <<clusters, registry, files, pollVars, defaultBy>>

----------------------------------------------------------------------------
(* The health poller.                                                        *)

\* poll: the list of the cycle.
PollList ==
    /\ poll.todo = {} /\ poll.cluster = None /\ polls < MaxPolls
    /\ poll' = [poll EXCEPT !.todo = {c \in ClusterIds : clusters[c].exists}, !.rows = clusters]
    /\ polls' = polls + 1
    /\ UNCHANGED <<clusters, registry, files, placed, clReq, lastCheck, raced, defaultBy>>

\* checkCluster: an answer of the cluster or none.
PollCheck ==
    /\ poll.cluster = None
    /\ \E c \in poll.todo, found \in {"healthy", "unreachable"} :
          poll' = [poll EXCEPT !.todo = @ \ {c}, !.cluster = c, !.found = found]
    /\ UNCHANGED <<clusters, registry, files, placed, clReq, polls, lastCheck, raced, defaultBy>>

\* UpdateHealthStatus writes one column, of a row that is still there.
UpdateHealthStatus(rows, c) == IF rows[c].exists THEN [rows EXCEPT ![c].health = poll.found] ELSE rows

\* The end of the loop body: nothing for the status of the list; a failed write is left for the
\* next cycle.
PollWrite ==
    LET c == poll.cluster
        end == [poll EXCEPT !.cluster = None, !.found = ""]
    IN /\ c # None
       /\ \/ /\ poll.found = poll.rows[c].health
             /\ UNCHANGED <<clusters, lastCheck>>
          \/ /\ poll.found # poll.rows[c].health
             /\ clusters' = UpdateHealthStatus(clusters, c)
             /\ lastCheck' = IF clusters[c].exists THEN [lastCheck EXCEPT ![c] = poll.found] ELSE lastCheck
          \/ /\ "health" \in ClusterFaults /\ poll.found # poll.rows[c].health
             /\ UNCHANGED <<clusters, lastCheck>>
       /\ poll' = end
       /\ UNCHANGED <<registry, files, placed, clReq, polls, raced, defaultBy>>

ClustersNext ==
    \/ \E r \in ClusterRequests :
          \/ ResolveClusterID(r) \/ GetClients(r) \/ buildClients(r) \/ UseClient(r) \/ TestClusterConnection(r)
          \/ CreateCluster(r) \/ FindDefault(r) \/ SetDefaultCluster(r) \/ DropDefault(r)
          \/ UpdateCluster(r) \/ SaveCluster(r) \/ DropClient(r) \/ DropDefaultAgain(r)
          \/ DeleteCluster(r) \/ PlaceInstance(r)
    \/ PollList \/ PollCheck \/ PollWrite

ClustersSpec == ClustersInit /\ [][ClustersNext]_clusterVars

----------------------------------------------------------------------------
(* Properties.                                                               *)

\* Every variable has its type; no request of ClusterRequests holds a file of a stranger.
ClustersTypeOK ==
    /\ \A c \in ClusterIds : clusters[c].config \in ClusterIds /\ clusters[c].health \in {"healthy", "unreachable"}
    /\ files \subseteq ClusterRequests /\ raced \subseteq ClusterIds
    /\ \A r \in ClusterRequests : clReq[r].id \in ClusterIds \cup {None}
    /\ polls \in 0 .. MaxPolls /\ defaultBy \in Registries \cup {""}

\* At most one cluster is the default, whatever creates, updates and deletes run at once
\* (SetDefault unsets the others in its transaction; CreateCluster without a default races itself).
OneDefault == Cardinality(Defaults) <= 1

\* The replica that changed the default last does not go on with an older one: its cached default is
\* the default of the rows once the handler dropped the cache (ResolveClusterID reads under the lock).
DefaultCacheFollows ==
    \A p \in Registries :
        (/\ registry[p].resolved /\ defaultBy = p
         /\ ~ \E r \in ClusterRequests : clReq[r].at = p /\ clReq[r].pc \in {"dropDefault", "dropClient", "dropDefaultAgain"})
        => IF Defaults = {} THEN registry[p].default = None ELSE registry[p].default \in Defaults

\* A cached client has the kubeconfig of its row on the replica of the update, once the handler
\* dropped the old one, when no other request held the older row meanwhile.
ClientFollowsRow ==
    \A r \in ClusterRequests :
        LET c == clReq[r].id
            p == clReq[r].at
        IN (/\ ClAt(r, {"kubeconfig"}, "done") /\ c # None /\ c \notin raced
            /\ clusters[c].config = r /\ registry[p].clients[c] # NoClient)
           => registry[p].clients[c].config = r

\* The temporary kubeconfig files are those of the cached clients: none is left behind, and no
\* cached client misses its file.
FilesMatchClients ==
    files = {registry[p].clients[c].file : p \in Registries, c \in ClusterIds} \ {None}

\* A stale row never undoes the poller's write (#678): the status of a cluster is what the poller
\* stored last.
HealthIsLastCheck == \A c \in ClusterIds : clusters[c].exists => clusters[c].health = lastCheck[c]

\* DeleteCluster leaves no instance behind that it could see (#679): the cluster of an instance is
\* there, and there is a default for the instances without a cluster.
InstancesHaveCluster ==
    /\ \A r \in ClusterRequests : placed[r] \notin {None} \cup raced => clusters[placed[r]].exists
    /\ raced = {} => Defaults # {}
=============================================================================
