------------------------------- MODULE Quotas -------------------------------
(* Resource quotas: the quota of a cluster, the override of an instance, and *)
(* the ResourceQuota and LimitRange of its namespace (handlers/clusters.go,  *)
(* instance_quota_overrides.go, quota_apply.go, models/quota_merge.go,       *)
(* k8s/quota.go, and the deploy in deployer/manager.go).  One resource with  *)
(* its five values stands for cpu, memory and ephemeral storage; a quota is  *)
(* a function to quantities, Unset where a value is empty.                   *)
EXTENDS Integers, FiniteSets, FiniteSetsExt

CONSTANTS
    QuotaRequests,      \* 1 .. n
    QuotaScripts,       \* kind of request 1 .. n
    QuotaChoices,       \* the quotas and overrides that requests send
    Samples,            \* quotas whose LimitRange is looked at
    FallbackRequest, FallbackLimit,
    QuotaFaults         \* subset of {"apply", "lookup"}

Unset == -1
Fields == {"nsRequest", "nsLimit", "request", "limit", "max"}
EmptyQuota == [f \in Fields |-> Unset]

ASSUME QuotasAssumption ==
    /\ FallbackRequest \in Nat /\ FallbackLimit \in Nat /\ FallbackRequest <= FallbackLimit
    /\ QuotaFaults \subseteq {"apply", "lookup"}
    /\ \A q \in QuotaChoices \cup Samples : DOMAIN q = Fields /\ \A f \in Fields : q[f] \in Nat \cup {Unset}

VARIABLES
    clusterQuota,   \* resource_quota_configs; EmptyQuota when there is no row
    override,       \* instance_quota_overrides
    namespace,      \* what the namespace enforces: the ResourceQuota and the LimitRange
    nsLock,         \* the request that holds the lock of the namespace, or 0
    quReq,
    sample,         \* a quota that is looked at
    lastChange,     \* kind of the last change of a stored quota (history)
    excused         \* why the namespace may differ from the stored quotas (history)

quotaVars == <<clusterQuota, override, namespace, nsLock, quReq, sample, lastChange, excused>>

----------------------------------------------------------------------------
(* The pure part.                                                            *)

IsEmpty(q) == q = EmptyQuota
MergeQuotaOverride(q, o) == [f \in Fields |-> IF o[f] # Unset THEN o[f] ELSE q[f]]

\* quotaOrderRules: the first value is not above the second when both are set.
quotaOrderRules ==
    {<<"nsRequest", "nsLimit">>, <<"request", "limit">>, <<"limit", "max">>, <<"request", "max">>,
     <<"request", "nsRequest">>, <<"request", "nsLimit">>, <<"limit", "nsLimit">>}

Valid(q) == \A rule \in quotaOrderRules :
    q[rule[1]] # Unset /\ q[rule[2]] # Unset => q[rule[1]] <= q[rule[2]]
ValidateEffectiveQuota(q, o) == Valid(MergeQuotaOverride(q, o))

\* CheckOverrideWithinClusterQuota: an owner may lower a value and keep a value that is stored.
CheckOverrideWithinClusterQuota(q, o, existing) ==
    \A f \in Fields : o[f] # Unset /\ q[f] # Unset => o[f] <= q[f] \/ o[f] = existing[f]

smallestQuantity(q, base, caps) == Min({base} \cup ({q[f] : f \in caps} \ {Unset}))

DefaultRequest(q) ==
    IF q.request # Unset THEN q.request
    ELSE smallestQuantity(q, FallbackRequest, {"nsRequest", "nsLimit", "limit", "max"})

DefaultLimit(q) ==
    IF q.limit # Unset THEN q.limit
    ELSE IF q.nsLimit = Unset /\ q.max = Unset THEN Unset
    ELSE Max({smallestQuantity(q, FallbackLimit, {"nsLimit", "max"}), DefaultRequest(q)})

\* limitRangeResource.entries: defaultRequest, default and max; nothing for a resource without a value.
entries(q) ==
    IF IsEmpty(q) THEN [request |-> Unset, limit |-> Unset, max |-> Unset]
    ELSE [request |-> DefaultRequest(q), limit |-> DefaultLimit(q), max |-> q.max]

NoNamespaceQuota == [hard |-> <<Unset, Unset>>, range |-> entries(EmptyQuota)]
Hard(q) == <<q.nsRequest, q.nsLimit>>

----------------------------------------------------------------------------
QuotasInit ==
    /\ clusterQuota = EmptyQuota /\ override = EmptyQuota
    /\ namespace = NoNamespaceQuota /\ nsLock = 0
    /\ sample = EmptyQuota /\ lastChange = "" /\ excused = {}
    /\ \E s \in QuotaScripts :
          quReq = [r \in QuotaRequests |-> [kind |-> s[r], pc |-> "start", sent |-> EmptyQuota,
                                            quota |-> EmptyQuota, eff |-> EmptyQuota]]

QuAt(r, kinds, pc) == quReq[r].kind \in kinds /\ quReq[r].pc = pc
QuGo(r, pc) == quReq' = [quReq EXCEPT ![r].pc = pc]
QuDone(r) == quReq' = [quReq EXCEPT ![r].pc = "done", ![r].sent = EmptyQuota, ![r].quota = EmptyQuota, ![r].eff = EmptyQuota]

\* A request that passed its check and has not stored its quota.
Checked(r) == {o \in QuotaRequests \ {r} : quReq[o].pc = "upsert"}

\* UpdateQuotas: Validate, checkOverrideConflicts.
UpdateQuotas(r) ==
    /\ QuAt(r, {"quotas"}, "start")
    /\ \E q \in QuotaChoices :
          quReq' = [quReq EXCEPT ![r].sent = q,
                      ![r].pc = IF Valid(q) /\ ValidateEffectiveQuota(q, override) THEN "upsert" ELSE "done"]
    /\ UNCHANGED <<clusterQuota, override, namespace, nsLock, sample, lastChange, excused>>

Overrides == {"override", "ownOverride"}

\* SetQuotaOverride: Validate, the merged quota, and for an owner the cluster quota as the cap.
SetQuotaOverride(r) ==
    /\ QuAt(r, Overrides, "start")
    /\ \E q \in QuotaChoices :
          LET ok == /\ Valid(q) /\ ValidateEffectiveQuota(clusterQuota, q)
                    /\ quReq[r].kind = "override" \/ CheckOverrideWithinClusterQuota(clusterQuota, q, override)
          IN quReq' = [quReq EXCEPT ![r].sent = q, ![r].pc = IF ok THEN "upsert" ELSE "done"]
    /\ UNCHANGED <<clusterQuota, override, namespace, nsLock, sample, lastChange, excused>>

\* Upsert of either, then the write in the background.  Two checks that overlap do not see each other.
Upsert(r) ==
    /\ QuAt(r, Overrides \cup {"quotas"}, "upsert")
    /\ IF quReq[r].kind = "quotas"
       THEN clusterQuota' = quReq[r].sent /\ UNCHANGED override
       ELSE override' = quReq[r].sent /\ UNCHANGED clusterQuota
    /\ excused' = IF Checked(r) # {} THEN excused \cup {"checks"} ELSE excused
    /\ lastChange' = quReq[r].kind
    /\ QuGo(r, "lock")
    /\ UNCHANGED <<namespace, nsLock, sample>>

\* DeleteQuotaOverride writes the namespace too; DeleteQuotas leaves the namespaces alone.
DeleteQuota(r) ==
    /\ QuAt(r, {"deleteOverride", "deleteQuotas"}, "start")
    /\ IF quReq[r].kind = "deleteQuotas"
       THEN clusterQuota' = EmptyQuota /\ UNCHANGED override /\ QuDone(r)
       ELSE override' = EmptyQuota /\ UNCHANGED clusterQuota /\ QuGo(r, "lock")
    /\ lastChange' = quReq[r].kind
    /\ excused' = IF Checked(r) # {} \/ ~ValidateEffectiveQuota(clusterQuota', override')
                  THEN excused \cup {"checks"} ELSE excused
    /\ UNCHANGED <<namespace, nsLock, sample>>

\* writeNamespaceQuota: the lock of this replica, then the cluster quota.
LockAndRead(r) ==
    /\ quReq[r].pc = "lock" /\ nsLock = 0
    /\ nsLock' = r
    /\ quReq' = [quReq EXCEPT ![r].quota = clusterQuota, ![r].pc = "override"]
    /\ UNCHANGED <<clusterQuota, override, namespace, sample, lastChange, excused>>

\* A deploy reads without the lock; a failed lookup of the cluster quota counts as no quota.
DeployRead(r) ==
    /\ QuAt(r, {"deploy"}, "start")
    /\ \E q \in {clusterQuota} \cup (IF "lookup" \in QuotaFaults THEN {EmptyQuota} ELSE {}) :
          quReq' = [quReq EXCEPT ![r].quota = q, ![r].pc = "override"]
    /\ UNCHANGED <<clusterQuota, override, namespace, nsLock, sample, lastChange, excused>>

Unlocked(r) == IF nsLock = r THEN 0 ELSE nsLock

\* The override, the merged quota; nothing is written when it is empty or not valid.
effectiveInstanceQuota(r) ==
    /\ quReq[r].pc = "override"
    /\ LET q == MergeQuotaOverride(quReq[r].quota, override)
           end == IsEmpty(q) \/ ~Valid(q)
       IN /\ IF end THEN QuDone(r) ELSE quReq' = [quReq EXCEPT ![r].eff = q, ![r].pc = "resourceQuota"]
          /\ nsLock' = IF end THEN Unlocked(r) ELSE nsLock
    /\ UNCHANGED <<clusterQuota, override, namespace, sample, lastChange, excused>>

ApplyFails(r) ==
    /\ "apply" \in QuotaFaults /\ quReq[r].pc \in {"resourceQuota", "limitRange"}
    /\ QuDone(r) /\ nsLock' = Unlocked(r)
    /\ excused' = excused \cup {"apply"}
    /\ UNCHANGED <<clusterQuota, override, namespace, sample, lastChange>>

\* EnsureResourceQuota: without a total there is nothing to enforce, and the old object stays.
EnsureResourceQuota(r) ==
    /\ quReq[r].pc = "resourceQuota"
    /\ namespace' = IF Hard(quReq[r].eff) = <<Unset, Unset>> THEN namespace
                    ELSE [namespace EXCEPT !.hard = Hard(quReq[r].eff)]
    /\ QuGo(r, "limitRange")
    /\ excused' = IF quReq[r].kind = "deploy" THEN excused \cup {"deploy"} ELSE excused
    /\ UNCHANGED <<clusterQuota, override, nsLock, sample, lastChange>>

EnsureLimitRange(r) ==
    /\ quReq[r].pc = "limitRange"
    /\ namespace' = [namespace EXCEPT !.range = entries(quReq[r].eff)]
    /\ QuDone(r) /\ nsLock' = Unlocked(r)
    /\ UNCHANGED <<clusterQuota, override, sample, lastChange, excused>>

\* Any quota that can be stored.
LookAt ==
    /\ IsEmpty(sample) /\ \A r \in QuotaRequests : quReq[r].pc = "start"
    /\ sample' \in {q \in Samples : Valid(q)}
    /\ UNCHANGED <<clusterQuota, override, namespace, nsLock, quReq, lastChange, excused>>

QuotasNext ==
    \/ IsEmpty(sample) /\ \E r \in QuotaRequests :
          \/ UpdateQuotas(r) \/ SetQuotaOverride(r) \/ Upsert(r) \/ DeleteQuota(r)
          \/ LockAndRead(r) \/ DeployRead(r) \/ effectiveInstanceQuota(r)
          \/ EnsureResourceQuota(r) \/ EnsureLimitRange(r) \/ ApplyFails(r)
    \/ LookAt

QuotasSpec == QuotasInit /\ [][QuotasNext]_quotaVars

----------------------------------------------------------------------------
(* Properties.                                                               *)

\* Every variable has its type.
QuotasTypeOK ==
    /\ DOMAIN clusterQuota = Fields /\ DOMAIN override = Fields
    /\ nsLock \in QuotaRequests \cup {0}
    /\ \A r \in QuotaRequests : quReq[r].pc \in {"start", "upsert", "lock", "override", "resourceQuota", "limitRange", "done"}

\* Kubernetes accepts every LimitRange the backend derives from a valid quota, and a container that
\* takes the defaults fits the namespace: request <= limit <= max, and neither is above the totals.
LimitRangeIsLegal ==
    LET e == entries(sample)
        Below(a, b) == a # Unset /\ b # Unset => a <= b
    IN /\ Below(e.request, e.limit) /\ Below(e.limit, e.max) /\ Below(e.request, e.max)
       /\ Below(e.request, sample.nsRequest) /\ Below(e.request, sample.nsLimit) /\ Below(e.limit, sample.nsLimit)

\* A container without its own values is not refused for lack of one: the LimitRange gives a request
\* where the ResourceQuota counts requests, and a limit where it counts limits.
DefaultsCoverTheQuota ==
    LET e == entries(sample)
    IN /\ sample.nsRequest # Unset => e.request # Unset
       /\ sample.nsLimit # Unset => e.limit # Unset

\* When the writes of one replica are done, the namespace enforces the stored quotas, whatever order
\* they ran in (quota_apply.go: each write reads the stored quotas under the lock).  Not after a
\* deploy, which takes no lock, after a failed write, and after DeleteQuotas, which writes nothing.
LastWriteHasLatestState ==
    LET eff == MergeQuotaOverride(clusterQuota, override)
    IN (/\ \A r \in QuotaRequests : quReq[r].pc \in {"start", "done"}
        /\ excused = {} /\ lastChange # "deleteQuotas" /\ ~IsEmpty(eff))
       => /\ namespace.range = entries(eff)
          /\ Hard(eff) # <<Unset, Unset>> => namespace.hard = Hard(eff)

\* The stored quotas never contradict each other, so the next deploy is not refused: UpdateQuotas
\* checks the overrides, SetQuotaOverride the cluster quota.  Not when two checks overlap, and not
\* when a delete takes away the value that made the rest valid.
StoredQuotasAgree == excused = {} => ValidateEffectiveQuota(clusterQuota, override)
=============================================================================
