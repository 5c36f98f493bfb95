-------------------------- MODULE InstanceCatalog --------------------------
(* Creating, cloning, quick deploying, following and deleting stack          *)
(* instances (handlers/stack_instances.go, quick_deploy.go,                  *)
(* instance_limit.go, bulk_operations.go, database/instance_delete.go,       *)
(* instance_follower_repository.go).  What the instances then do in the      *)
(* cluster is the subject of Operations; here are the rows: the limit of     *)
(* instances per user, the definition that a quick deploy owns, and the rows *)
(* that hang on an instance.  There are no foreign keys.                     *)
EXTENDS Integers, Sequences, FiniteSets, FiniteSetsExt

CONSTANTS
    InstRequests,       \* 1 .. n; a request that creates a row gives it its number
    InstScripts,        \* <<kind, user>> of request 1 .. n
    InstClusters,       \* clusters a create may name
    DefaultCluster,     \* runs the instances without a cluster ("")
    InstNames,          \* instance names; the namespace is <<name, user>>
    MaxCloneNames,      \* bound of the generated clone names
    MaxInstancesPerUser,\* the limit of every cluster; 0 is none
    InstFaults          \* subset of {"hook", "cleanup"}

ASSUME InstanceCatalogAssumption ==
    /\ MaxInstancesPerUser \in Nat /\ MaxCloneNames \in Nat \ {0}
    /\ InstFaults \subseteq {"hook", "cleanup"}
    /\ \A s \in InstScripts : DOMAIN s = InstRequests

Ids == InstRequests \cup {0}
Users == {s[r][2] : s \in InstScripts, r \in InstRequests}

VARIABLES
    insts,          \* stack_instances
    defs,           \* stack_definitions: exists, and the owner instance (-1: none)
    overrides,      \* <<instance, kind>> of value, branch and quota override rows
    followers,      \* <<user, instance>>
    userLock,       \* user -> the request that holds the user row, or 0
    defLock,        \* definition -> the request that holds its row, or 0
    instReq,        \* the requests
    leftBehind,     \* definitions whose cleanup failed once (history)
    userDeleted     \* definitions a user deleted (history)

instVars == <<insts, defs, overrides, followers, userLock, defLock, instReq, leftBehind, userDeleted>>

NoInst == [exists |-> FALSE, owner |-> "", cluster |-> "", def |-> 0, ns |-> <<>>, status |-> "", shared |-> FALSE]
NewInstReq(s) == [kind |-> s[1], user |-> s[2], pc |-> "start", ok |-> FALSE, new |-> NoInst, source |-> 0,
                  todo |-> IF s[1] = "bulkDelete" THEN Ids ELSE {}, target |-> 0]

Seed == [exists |-> TRUE, owner |-> "u1", cluster |-> "", def |-> 0, ns |-> <<"seed", "u1">>,
         status |-> "running", shared |-> FALSE]

\* Instance 0 is a quick deploy of u1 from before clusters were stored; it has an override.
InstInit ==
    /\ insts = [i \in Ids |-> IF i = 0 THEN Seed ELSE NoInst]
    /\ defs = [d \in Ids |-> [exists |-> d = 0, owner |-> IF d = 0 THEN 0 ELSE -1]]
    /\ overrides = {<<0, "value">>} /\ followers = {}
    /\ userLock = [u \in Users |-> 0] /\ defLock = [d \in Ids |-> 0]
    /\ leftBehind = {} /\ userDeleted = {}
    /\ \E s \in InstScripts : instReq = [r \in InstRequests |-> NewInstReq(s[r])]

InstAt(r, kinds, pc) == instReq[r].kind \in kinds /\ instReq[r].pc = pc
InstAnswer(r, ok) == instReq' = [instReq EXCEPT ![r].pc = "done", ![r].ok = ok]
UsedBy(d) == {i \in Ids : insts[i].exists /\ insts[i].def = d}

\* The owner uses definition d, or an instance does that was inserted while d was rooted.
Rooted(d) == \E i \in UsedBy(d) : insts[i].shared \/ defs[d].owner = i

----------------------------------------------------------------------------
(* Names and the limit.                                                      *)

\* checkNamespaceUniqueness: a read, not a constraint.
NamespaceTaken(ns) == \E i \in Ids : insts[i].exists /\ insts[i].ns = ns

\* CountForInstanceLimit: on the default cluster the instances without a cluster count too.
CountForInstanceLimit(c, u) ==
    Cardinality({i \in Ids : /\ insts[i].exists /\ insts[i].owner = u
                             /\ insts[i].cluster \in {c} \cup (IF c = DefaultCluster THEN {""} ELSE {})})

\* instanceLimitFor: an empty cluster means the default cluster.
LimitCluster(c) == IF c = "" THEN DefaultCluster ELSE c

NewInstance(u, c, d, ns, st) ==
    [exists |-> TRUE, owner |-> u, cluster |-> c, def |-> d, ns |-> ns, status |-> st, shared |-> FALSE]

\* CreateInstance up to its transaction: namespace, definition and hook.
CreateCheck(r) ==
    /\ InstAt(r, {"create"}, "start")
    /\ \E c \in InstClusters, n \in InstNames, d \in Ids :
        LET ns == <<n, instReq[r].user>>
        IN IF NamespaceTaken(ns) \/ ~defs[d].exists
           THEN InstAnswer(r, FALSE)
           ELSE \/ instReq' = [instReq EXCEPT ![r].pc = "tx", ![r].new = NewInstance(instReq[r].user, c, d, ns, "draft")]
                \/ "hook" \in InstFaults /\ InstAnswer(r, FALSE)
    /\ UNCHANGED <<insts, defs, overrides, followers, userLock, defLock, leftBehind, userDeleted>>

\* cloneNameCandidate 1, 2, ...: the first with a free namespace.
CloneNamespace(n, u) == <<"copy", n, u>>
FreeCloneNames(u) == {n \in 1 .. MaxCloneNames : ~NamespaceTaken(CloneNamespace(n, u))}

\* CloneInstance up to its transaction.  It does not look at the definition.
CloneRead(r) ==
    /\ InstAt(r, {"clone"}, "start")
    /\ \E i \in Ids :
        IF ~insts[i].exists \/ FreeCloneNames(instReq[r].user) = {}
        THEN InstAnswer(r, FALSE)
        ELSE LET ns == CloneNamespace(Min(FreeCloneNames(instReq[r].user)), instReq[r].user)
             IN instReq' = [instReq EXCEPT ![r].pc = "tx", ![r].source = i,
                              ![r].new = NewInstance(instReq[r].user, insts[i].cluster, insts[i].def, ns, "draft")]
    /\ UNCHANGED <<insts, defs, overrides, followers, userLock, defLock, leftBehind, userDeleted>>

\* QuickDeploy up to its transaction; the instance is stored as deploying.
QuickCheck(r) ==
    /\ InstAt(r, {"quick"}, "start")
    /\ \E c \in InstClusters, n \in InstNames :
        LET ns == <<n, instReq[r].user>>
        IN IF NamespaceTaken(ns)
           THEN InstAnswer(r, FALSE)
           ELSE instReq' = [instReq EXCEPT ![r].pc = "tx", ![r].new = NewInstance(instReq[r].user, c, r, ns, "deploying")]
    /\ UNCHANGED <<insts, defs, overrides, followers, userLock, defLock, leftBehind, userDeleted>>

\* checkInstanceLimit: first statement of the transaction, it locks the user row until the commit.
checkInstanceLimit(r) ==
    /\ InstAt(r, {"create", "clone", "quick"}, "tx")
    /\ LET new == instReq[r].new
       IN IF MaxInstancesPerUser = 0
          THEN /\ instReq' = [instReq EXCEPT ![r].pc = "insert"]
               /\ UNCHANGED userLock
          ELSE /\ userLock[new.owner] = 0
               /\ IF CountForInstanceLimit(LimitCluster(new.cluster), new.owner) >= MaxInstancesPerUser
                  THEN InstAnswer(r, FALSE) /\ UNCHANGED userLock
                  ELSE /\ instReq' = [instReq EXCEPT ![r].pc = "insert"]
                       /\ userLock' = [userLock EXCEPT ![new.owner] = r]
    /\ UNCHANGED <<insts, defs, overrides, followers, defLock, leftBehind, userDeleted>>

\* The rest of the transaction: the instance; with a clone the override rows of the source
\* (cloneInstanceTx, whose quota policy may leave the quota row out); with a quick deploy the
\* definition that belongs to the instance.
InsertInstance(r) ==
    /\ InstAt(r, {"create", "clone", "quick"}, "insert")
    /\ LET q == instReq[r]
           copied == {<<r, k>> : k \in {o[2] : o \in {x \in overrides : x[1] = q.source}}}
       IN /\ insts' = [insts EXCEPT ![r] = [q.new EXCEPT !.shared = Rooted(q.new.def)]]
          /\ IF q.kind = "clone"
             THEN \E keep \in {copied, copied \ {<<r, "quota">>}} : overrides' = overrides \cup keep
             ELSE overrides' = overrides
          /\ defs' = IF q.kind = "quick" THEN [defs EXCEPT ![r] = [exists |-> TRUE, owner |-> r]] ELSE defs
          /\ userLock' = [u \in Users |-> IF userLock[u] = r THEN 0 ELSE userLock[u]]
          /\ instReq' = [instReq EXCEPT ![r].pc = IF q.kind = "quick" THEN "deploy" ELSE "done", ![r].ok = TRUE]
    /\ UNCHANGED <<followers, defLock, leftBehind, userDeleted>>

\* The end of QuickDeploy: branch overrides of the request, then the deploy.  The result of the
\* deploy belongs to Operations; here it only ends the status that refuses a delete.
QuickDeployed(r) ==
    /\ InstAt(r, {"quick"}, "deploy")
    /\ \E rows \in SUBSET {<<r, "branch">>}, st \in {"running", "error"} :
        /\ overrides' = overrides \cup rows
        /\ insts' = [insts EXCEPT ![r].status = st]
    /\ instReq' = [instReq EXCEPT ![r].pc = "done"]
    /\ UNCHANGED <<defs, followers, userLock, defLock, leftBehind, userDeleted>>

----------------------------------------------------------------------------
(* Rows that hang on an instance.                                            *)

\* SetOverride, SetBranchOverride, SetQuotaOverride: the instance (and, for a chart, its
\* definition's charts) is read first.
ReadForOverride(r) ==
    /\ InstAt(r, {"override"}, "start")
    /\ \E i \in Ids :
        IF insts[i].exists /\ defs[insts[i].def].exists
        THEN instReq' = [instReq EXCEPT ![r].pc = "write", ![r].target = i]
        ELSE InstAnswer(r, FALSE)
    /\ UNCHANGED <<insts, defs, overrides, followers, userLock, defLock, leftBehind, userDeleted>>

\* The write; empty values, and the delete routes, remove the row.
SetOverride(r) ==
    /\ InstAt(r, {"override"}, "write")
    /\ \E k \in {"value", "branch", "quota"} :
        \/ overrides' = overrides \cup {<<instReq[r].target, k>>}
        \/ overrides' = overrides \ {<<instReq[r].target, k>>}
    /\ InstAnswer(r, TRUE)
    /\ UNCHANGED <<insts, defs, followers, userLock, defLock, leftBehind, userDeleted>>

\* setFollow: the instance is read before the write.
ReadForFollow(r) ==
    /\ InstAt(r, {"follow", "unfollow"}, "start")
    /\ \E i \in Ids :
        IF insts[i].exists
        THEN instReq' = [instReq EXCEPT ![r].pc = "lock", ![r].target = i]
        ELSE InstAnswer(r, FALSE)
    /\ UNCHANGED <<insts, defs, overrides, followers, userLock, defLock, leftBehind, userDeleted>>


\* Follow, first statement: SELECT ... FOR SHARE of the instance row.
FollowLock(r) ==
    /\ InstAt(r, {"follow"}, "lock")
    /\ IF insts[instReq[r].target].exists
       THEN instReq' = [instReq EXCEPT ![r].pc = "insert"]
       ELSE InstAnswer(r, FALSE)
    /\ UNCHANGED <<insts, defs, overrides, followers, userLock, defLock, leftBehind, userDeleted>>

\* The insert, with ON CONFLICT DO NOTHING, and the commit.
Follow(r) ==
    /\ InstAt(r, {"follow"}, "insert")
    /\ followers' = followers \cup {<<instReq[r].user, instReq[r].target>>}
    /\ InstAnswer(r, TRUE)
    /\ UNCHANGED <<insts, defs, overrides, userLock, defLock, leftBehind, userDeleted>>

Unfollow(r) ==
    /\ InstAt(r, {"unfollow"}, "lock")
    /\ followers' = followers \ {<<instReq[r].user, instReq[r].target>>}
    /\ InstAnswer(r, TRUE)
    /\ UNCHANGED <<insts, defs, overrides, userLock, defLock, leftBehind, userDeleted>>

SharedLocked(i) == \E r \in InstRequests : InstAt(r, {"follow"}, "insert") /\ instReq[r].target = i

----------------------------------------------------------------------------
(* Deleting: one instance, or each of a list (executeBulkOperation).         *)

Deletes == {"delete", "bulkDelete"}

\* The next instance of a bulk request; a single request is answered.  An error of one
\* instance does not stop the others.
NextTarget(r, ok) ==
    instReq' = [instReq EXCEPT ![r].pc = IF instReq[r].kind = "bulkDelete" THEN "start" ELSE "done",
                               ![r].ok = ok, ![r].todo = @ \ {instReq[r].target}]

\* deleteInstance up to its write: the status check and the pre-delete hook.
DeleteRead(r) ==
    /\ InstAt(r, Deletes, "start")
    /\ \E i \in (IF instReq[r].kind = "delete" THEN Ids ELSE instReq[r].todo) :
        LET skip == IF instReq[r].kind = "delete"
                    THEN InstAnswer(r, FALSE)
                    ELSE instReq' = [instReq EXCEPT ![r].todo = @ \ {i}]
        IN IF ~insts[i].exists \/ insts[i].status \in {"deploying", "cleaning"}
           THEN skip
           ELSE \/ instReq' = [instReq EXCEPT ![r].target = i,
                                 ![r].pc = IF insts[i].status = "draft" THEN "record" ELSE "claim"]
                \/ "hook" \in InstFaults /\ skip
    /\ UNCHANGED <<insts, defs, overrides, followers, userLock, defLock, leftBehind, userDeleted>>

BulkDone(r) ==
    /\ InstAt(r, {"bulkDelete"}, "start") /\ instReq[r].todo = {}
    /\ InstAnswer(r, TRUE)
    /\ UNCHANGED <<insts, defs, overrides, followers, userLock, defLock, leftBehind, userDeleted>>

\* An instance with resources is cleaned first.  CleanForDelete is a conditional update: of two
\* deletes one wins.  The deploy manager goes on with the row.
CleanForDelete(r) ==
    /\ InstAt(r, Deletes, "claim")
    /\ LET i == instReq[r].target
       IN IF insts[i].exists /\ insts[i].status \in {"running", "error"} /\ defs[insts[i].def].exists
          THEN /\ insts' = [insts EXCEPT ![i].status = "cleaning"]
               /\ instReq' = [instReq EXCEPT ![r].pc = "record"]
          ELSE NextTarget(r, FALSE) /\ UNCHANGED insts
    /\ UNCHANGED <<defs, overrides, followers, userLock, defLock, leftBehind, userDeleted>>

\* DeleteInstanceRecord, one transaction.  It waits for a follow that holds the row.
DeleteInstanceRecord(r) ==
    /\ InstAt(r, Deletes, "record")
    /\ LET i == instReq[r].target
       IN /\ ~SharedLocked(i)
          /\ IF insts[i].exists
             THEN /\ overrides' = {o \in overrides : o[1] # i}
                  /\ insts' = [insts EXCEPT ![i].exists = FALSE]
                  /\ followers' = {f \in followers : f[2] # i}
                  /\ instReq' = [instReq EXCEPT ![r].pc = "owned", ![r].ok = TRUE]
             ELSE /\ NextTarget(r, FALSE)
                  /\ UNCHANGED <<insts, overrides, followers>>
    /\ UNCHANGED <<defs, userLock, defLock, leftBehind, userDeleted>>

\* cleanupOwnedDefinitionIfOwned: a plain read in a transaction of its own.
CleanupOwnedDefinitionIfOwned(r) ==
    /\ InstAt(r, Deletes, "owned")
    /\ LET d == insts[instReq[r].target].def
       IN IF defs[d].exists /\ defs[d].owner # -1
          THEN instReq' = [instReq EXCEPT ![r].pc = "lockDef"]
          ELSE NextTarget(r, TRUE)
    /\ UNCHANGED <<insts, defs, overrides, followers, userLock, defLock, leftBehind, userDeleted>>

\* CleanupOwnedDefinition: the definition row is locked, and only then are the owner and the
\* instances that use it read.  The lock does not hold off an insert of an instance.
CleanupOwnedDefinition(r) ==
    /\ InstAt(r, Deletes, "lockDef")
    /\ LET i == instReq[r].target
           d == insts[i].def
           ownerGone == defs[d].owner = i \/ ~insts[defs[d].owner].exists
       IN /\ defLock[d] = 0
          /\ IF defs[d].exists /\ ownerGone /\ UsedBy(d) = {}
             THEN /\ instReq' = [instReq EXCEPT ![r].pc = "deleteDef"]
                  /\ defLock' = [defLock EXCEPT ![d] = r]
             ELSE NextTarget(r, TRUE) /\ UNCHANGED defLock
    /\ UNCHANGED <<insts, defs, overrides, followers, userLock, leftBehind, userDeleted>>

\* The deletes of the same transaction, and its commit.
DeleteOwnedDefinition(r) ==
    /\ InstAt(r, Deletes, "deleteDef")
    /\ LET d == insts[instReq[r].target].def
       IN /\ defs' = [defs EXCEPT ![d].exists = FALSE]
          /\ defLock' = [defLock EXCEPT ![d] = 0]
    /\ NextTarget(r, TRUE)
    /\ UNCHANGED <<insts, overrides, followers, userLock, leftBehind, userDeleted>>

\* The cleanup is best effort: an error or a kill leaves the definition.
CleanupFails(r) ==
    /\ "cleanup" \in InstFaults
    /\ instReq[r].kind \in Deletes /\ instReq[r].pc \in {"owned", "lockDef", "deleteDef"}
    /\ LET d == insts[instReq[r].target].def
       IN /\ defLock' = IF defLock[d] = r THEN [defLock EXCEPT ![d] = 0] ELSE defLock
          /\ leftBehind' = leftBehind \cup {d}
    /\ NextTarget(r, TRUE)
    /\ UNCHANGED <<insts, defs, overrides, followers, userLock, userDeleted>>

\* DeleteDefinition: running and deploying instances refuse it; the check and the delete are
\* separate statements.
DeleteDefinitionCheck(r) ==
    /\ InstAt(r, {"delDef"}, "start")
    /\ \E d \in Ids :
        IF defs[d].exists /\ \A i \in UsedBy(d) : insts[i].status \notin {"running", "deploying"}
        THEN instReq' = [instReq EXCEPT ![r].pc = "write", ![r].target = d]
        ELSE InstAnswer(r, FALSE)
    /\ UNCHANGED <<insts, defs, overrides, followers, userLock, defLock, leftBehind, userDeleted>>

DeleteDefinition(r) ==
    /\ InstAt(r, {"delDef"}, "write")
    /\ LET d == instReq[r].target
       IN /\ defLock[d] = 0
          /\ IF defs[d].exists
             THEN /\ defs' = [defs EXCEPT ![d].exists = FALSE]
                  /\ userDeleted' = userDeleted \cup {d}
                  /\ InstAnswer(r, TRUE)
             ELSE /\ InstAnswer(r, FALSE)
                  /\ UNCHANGED <<defs, userDeleted>>
    /\ UNCHANGED <<insts, overrides, followers, userLock, defLock, leftBehind>>

InstNext ==
    \E r \in InstRequests :
        \/ CreateCheck(r) \/ CloneRead(r) \/ QuickCheck(r)
        \/ checkInstanceLimit(r) \/ InsertInstance(r) \/ QuickDeployed(r)
        \/ ReadForOverride(r) \/ SetOverride(r)
        \/ ReadForFollow(r) \/ FollowLock(r) \/ Follow(r) \/ Unfollow(r)
        \/ DeleteRead(r) \/ BulkDone(r) \/ CleanForDelete(r) \/ DeleteInstanceRecord(r)
        \/ CleanupOwnedDefinitionIfOwned(r) \/ CleanupOwnedDefinition(r) \/ DeleteOwnedDefinition(r)
        \/ CleanupFails(r) \/ DeleteDefinitionCheck(r) \/ DeleteDefinition(r)

InstSpec == InstInit /\ [][InstNext]_instVars

----------------------------------------------------------------------------
(* Properties.                                                               *)

\* Types of the rows, the locks and the requests.
InstTypeOK ==
    /\ \A i \in Ids : insts[i].exists \in BOOLEAN /\ insts[i].def \in Ids
    /\ \A d \in Ids : defs[d].owner \in Ids \cup {-1} /\ defLock[d] \in Ids
    /\ overrides \subseteq Ids \X {"value", "branch", "quota"}
    /\ followers \subseteq Users \X Ids
    /\ userLock \in [Users -> Ids]
    /\ leftBehind \subseteq Ids /\ userDeleted \subseteq Ids

\* checkInstanceLimit: no interleaving of creates, clones and quick deploys gives a user more
\* instances on a cluster than its limit; instances stored without a cluster count for the
\* default cluster.
InstanceLimitHolds ==
    MaxInstancesPerUser > 0 =>
        \A u \in Users, c \in InstClusters : CountForInstanceLimit(c, u) <= MaxInstancesPerUser

\* DeleteInstanceWithOwnedDefinition: once every delete has ended, a definition that a quick
\* deploy owns and no instance uses is gone, in whatever order the owner and its clones were
\* deleted, unless a cleanup failed.
OwnedDefinitionCollected ==
    (\A r \in InstRequests : instReq[r].kind \in Deletes => instReq[r].pc \in {"start", "done"})
        => \A d \in Ids : defs[d].exists /\ defs[d].owner # -1 /\ d \notin leftBehind => UsedBy(d) # {}

\* CleanupOwnedDefinition: an instance inserted while the owner of its definition, or another
\* instance inserted so, was still there (a clone whose source was not deleted meanwhile) keeps
\* the definition as long as it exists itself, although the cleanup does not lock instances.
\* Only the delete of a definition by a user takes it away.
SharedDefinitionKept ==
    \A i \in Ids : insts[i].exists /\ insts[i].shared /\ insts[i].def \notin userDeleted
        => defs[insts[i].def].exists

\* Follow: "no follower row stays without its instance".
FollowersHaveInstance == \A f \in followers : insts[f[2]].exists
============================================================================
