----------------------------- MODULE MCHandlers -----------------------------
(* Instances of the modules of concurrent API requests.  They share no state *)
(* that one of their properties reads, so one of them steps in a behaviour:  *)
(* part says which.  A script is a set of requests that run together.        *)
EXTENDS Sessions, SessionStores, Accounts, Catalog, InstanceCatalog, Clusters, Quotas

CONSTANT Parts
VARIABLE part

Asks(first, second, third) == [ask |-> <<first, second, third>>, started |-> 0]
MCSessionScripts ==
    {Asks("refresh", "refresh", "logout"), Asks("login", "disable", "none"), Asks("login", "password", "none"),
     Asks("refresh", "role", "none"), Asks("logoutAll", "refresh", "none"), Asks("refresh", "disable", "enable"),
     [Asks("refresh", "none", "none") EXCEPT !.started = -1]}

MCBlockedSessions == <<"s1", "s2">>

Ask(kind, caller, target) == [kind |-> kind, caller |-> caller, target |-> target]
MCAcScripts ==
    {<<Ask("demote", 1, 2), Ask("delete", 2, 1), Ask("disable", 1, 2), Ask("sso", 0, 2), Ask("promote", 1, 2)>>,
     <<Ask("disable", 1, 2), Ask("enable", 1, 2), Ask("demote", 2, 1), Ask("cli", 0, 2), Ask("poll", 0, 0)>>,
     <<Ask("cli", 0, 0), Ask("poll", 0, 0), Ask("poll", 0, 0), Ask("sso", 0, 0), Ask("disable", 1, 11)>>,
     <<Ask("sso", 0, 0), Ask("sso", 0, 0), Ask("replay", 0, 0), Ask("delete", 1, 12), Ask("none", 0, 0)>>,
     <<Ask("createKey", 0, 2), Ask("delete", 1, 2), Ask("useKey", 0, 2), Ask("useKey", 0, 2), Ask("deleteKey", 0, 2)>>,
     <<Ask("useKey", 0, 2), Ask("disable", 1, 2), Ask("useKey", 0, 2), Ask("enable", 1, 2), Ask("sso", 0, 2)>>}

MCCatScripts ==
    {<<"create", "publish", "publish", "use", "chart">>, <<"chart", "publish", "use", "upgrade", "editChart">>,
     <<"create", "edit", "publish", "unpublish", "bulkDelete">>, <<"use", "editDef", "link", "publish", "delete">>,
     <<"use", "publish", "delChart", "upgrade", "chart">>, <<"import", "publish", "upgrade", "upgrade", "link">>,
     <<"create", "delete", "use", "dropChart", "publish">>}

NoRequest == <<"none", "u1">>
MCInstScripts ==
    {<<<<"create", "u1">>, <<"clone", "u1">>, <<"quick", "u1">>, NoRequest>>,
     <<<<"clone", "u1">>, <<"delete", "u1">>, <<"delete", "u1">>, <<"clone", "u2">>>>,
     <<<<"clone", "u2">>, <<"bulkDelete", "u1">>, <<"follow", "u1">>, NoRequest>>,
     <<<<"quick", "u2">>, <<"bulkDelete", "u2">>, <<"delDef", "u1">>, NoRequest>>,
     <<<<"delete", "u1">>, <<"override", "u1">>, <<"unfollow", "u2">>, NoRequest>>}

MCClusterScripts ==
    {<<<<"kubeconfig", "a">>, <<"deploy", "a">>, <<"test", "a">>>>,
     <<<<"kubeconfig", "a">>, <<"deploy", "a">>, <<"deploy", "a">>>>,
     <<<<"createDefault", "b">>, <<"makeDefault", "a">>, <<"none", "a">>>>,
     <<<<"createDefault", "a">>, <<"delete", "a">>, <<"place", "a">>>>,
     <<<<"delete", "b">>, <<"setDefault", "b">>, <<"create", "a">>>>,
     <<<<"delete", "a">>, <<"delete", "b">>, <<"none", "a">>>>,
     <<<<"placeOn", "a">>, <<"rename", "a">>, <<"delete", "a">>>>}

Quota(nsReq, nsLim, req, lim, max) ==
    [EmptyQuota EXCEPT !.nsRequest = nsReq, !.nsLimit = nsLim, !.request = req, !.limit = lim, !.max = max]
MCQuotaChoices == {Quota(-1, 3, -1, -1, -1), Quota(2, -1, 3, -1, -1), Quota(-1, -1, 2, -1, -1), Quota(1, 1, -1, -1, 2)}
MCSamples == [Fields -> {-1, 0, 1, 2, 3}]
MCQuotaScripts ==
    {<<"quotas", "override", "deleteOverride">>,
     <<"ownOverride", "deploy", "quotas">>, <<"deleteQuotas", "quotas", "override">>}

----------------------------------------------------------------------------
AnyOf(S) == CHOOSE s \in S : TRUE

\* A part that does not step has one initial state.
HandlersInit ==
    /\ part \in Parts
    /\ SessionsInit /\ (part # "sessions" => request = [r \in Requests |-> Fresh(AnyOf(Scripts).ask[r])])
    /\ StoreInit /\ (part # "stores" => usage = "token")
    /\ AcInit /\ (part # "accounts" => \A r \in AcRequests : acReq[r].kind = AnyOf(AcScripts)[r].kind)
    /\ CatalogInit /\ (part # "catalog" => tmplRow = NoRow /\ catReq = [r \in CatRequests |-> NewRequest(AnyOf(CatScripts)[r])])
    /\ InstInit /\ (part # "instances" => instReq = [r \in InstRequests |-> NewInstReq(AnyOf(InstScripts)[r])])
    /\ ClustersInit /\ (part # "clusters" => \A r \in ClusterRequests : clReq[r].kind = AnyOf(ClusterScripts)[r][1])
    /\ QuotasInit /\ (part # "quotas" => \A r \in QuotaRequests : quReq[r].kind = AnyOf(QuotaScripts)[r])

HandlersNext ==
    \/ /\ part = "sessions" /\ SessionsNext
       /\ UNCHANGED <<part, storeVars, acVars, catalogVars, instVars, clusterVars, quotaVars>>
    \/ /\ part = "stores" /\ StoreNext
       /\ UNCHANGED <<part, sessionVars, acVars, catalogVars, instVars, clusterVars, quotaVars>>
    \/ /\ part = "accounts" /\ AcNext
       /\ UNCHANGED <<part, sessionVars, storeVars, catalogVars, instVars, clusterVars, quotaVars>>
    \/ /\ part = "catalog" /\ CatalogNext
       /\ UNCHANGED <<part, sessionVars, storeVars, acVars, instVars, clusterVars, quotaVars>>
    \/ /\ part = "instances" /\ InstNext
       /\ UNCHANGED <<part, sessionVars, storeVars, acVars, catalogVars, clusterVars, quotaVars>>
    \/ /\ part = "clusters" /\ ClustersNext
       /\ UNCHANGED <<part, sessionVars, storeVars, acVars, catalogVars, instVars, quotaVars>>
    \/ /\ part = "quotas" /\ QuotasNext
       /\ UNCHANGED <<part, sessionVars, storeVars, acVars, catalogVars, instVars, clusterVars>>

HandlersSpec ==
    HandlersInit /\ [][HandlersNext]_<<part, sessionVars, storeVars, acVars, catalogVars, instVars, clusterVars, quotaVars>>

\* Every variable of the seven modules has its type; the slots of the API key verify limiter that
\* are in use are the verifies that run (acquire, release).
HandlersTypeOK ==
    SessionsTypeOK /\ StoreTypeOK /\ AcTypeOK /\ CatalogTypeOK /\ InstTypeOK /\ ClustersTypeOK /\ QuotasTypeOK


=============================================================================
