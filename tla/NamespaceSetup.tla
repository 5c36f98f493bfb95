--------------------------- MODULE NamespaceSetup ---------------------------
(* The objects that the backend keeps in a stack namespace (k8s/client.go,   *)
(* k8s/access_binding.go) and their writers: the preparation of a deploy or  *)
(* rollback, the access reconciler, the pull secret refresher, a clean, and  *)
(* Helm, which creates a missing namespace.  Every call to the API server is *)
(* a step of its own; an update of an object that changed since it was read  *)
(* is refused.                                                               *)
EXTENDS Naturals, Sequences, FiniteSets

CONSTANTS
    SetupCallers, CallerKind,   \* "deploy", "rollback", "refresh" or "clean", each once
    SetupGroups,                \* the sets of callers that act together, with the writes of other tools before
    SetupInits,                 \* the access bindings of the earlier deploy
    MaxForeign,                 \* writes of other tools
    SetupFaults                 \* the callers whose calls may fail

Reconciler == "reconciler"

ASSUME SetupAssumption ==
    /\ MaxForeign \in Nat /\ SetupFaults \subseteq SetupCallers /\ Reconciler \notin SetupCallers
    /\ \A p \in SetupCallers : CallerKind[p] \in {"deploy", "rollback", "refresh", "clean"}

VARIABLES
    kns,        \* the namespace: [there, ending, labels, life]; life counts its creations
    kobj,       \* its objects: the bindings "access" and "addon", the secrets "tls" and "pull", "sa"
    call,       \* the calls under way
    foreign,    \* writes of other tools so far
    failed      \* whether a call failed (history)

setupVars == <<kns, kobj, call, foreign, failed>>

SetupProcesses == SetupCallers \cup {Reconciler}
Bindings == {"access", "addon"}
KubeSecrets == {"tls", "pull"}
KubeNames == Bindings \cup KubeSecrets \cup {"sa"}
RightBinding == {"role", "subject"}    \* a binding: its roleRef and its subjects are the wanted ones, or not
DesiredLabels == {"managed", "name"}

NoObject == [there |-> FALSE, val |-> {}]

NewCall == [todo |-> <<>>, step |-> "start", fresh |-> FALSE, ready |-> 0]

\* A namespace of an earlier deploy, without the newer label and with binding b; or none.
SetupInit ==
    /\ \E b \in SetupInits : kobj = [o \in KubeNames |-> CASE o = "access" -> b [] o = "sa" -> [there |-> TRUE, val |-> {}] [] OTHER -> NoObject]
    /\ kns = [there |-> TRUE, ending |-> FALSE, labels |-> {"managed"}, life |-> 1]
    /\ \E group \in SetupGroups :
          /\ call = [p \in SetupProcesses |-> IF p \in group[1] \cup {Reconciler} THEN NewCall ELSE [NewCall EXCEPT !.step = "done"]]
          /\ foreign = group[2]
    /\ failed = FALSE

OnObject(p, o) == call[p].todo # <<>> /\ Head(call[p].todo) = o
AtStep(p, s) == call[p].step = s
Calls(p, c) == call' = [call EXCEPT ![p] = c]

----------------------------------------------------------------------------
(* The calls that a process still has to make.                               *)

\* The first step of the next call.
Began(c) == [c EXCEPT !.step = IF c.todo # <<>> /\ Head(c.todo) = "access" THEN "look" ELSE "get", !.fresh = FALSE]

TasksWithoutAccess(p) ==
    CASE CallerKind[p] = "deploy" -> <<"ns", "tls", "pull", "sa", "addon", "install">>
      [] CallerKind[p] = "rollback" -> <<"ns", "install">>
      [] CallerKind[p] = "refresh" -> <<"pull">>
      [] CallerKind[p] = "clean" -> <<"delete">>

\* executeDeploy, rollbackToTarget, refreshSecret and clean, before the installs.
SetupTasks(p) ==
    CASE CallerKind[p] = "deploy" -> <<"ns", "access", "tls", "pull", "sa", "addon", "install">>
      [] CallerKind[p] = "rollback" -> <<"ns", "access", "install">>
      [] CallerKind[p] = "refresh" -> <<"pull">>
      [] CallerKind[p] = "clean" -> <<"delete">>

BeginCall(p) ==
    /\ p \in SetupCallers /\ AtStep(p, "start")
    /\ Calls(p, Began([call[p] EXCEPT !.todo = SetupTasks(p)]))
    /\ UNCHANGED <<kns, kobj, foreign, failed>>

\* EnsureAccessBindings: the namespaces with the managed-by label.
Reconcile ==
    /\ AtStep(Reconciler, "start") /\ kns.there /\ ~kns.ending /\ "managed" \in kns.labels
    /\ Calls(Reconciler, Began([call[Reconciler] EXCEPT !.todo = <<"access">>]))
    /\ UNCHANGED <<kns, kobj, foreign, failed>>

\* The reconciler runs again after its last namespace.
Followed(p, c) == IF c.todo = <<>> THEN (IF p = Reconciler THEN NewCall ELSE [c EXCEPT !.step = "done"]) ELSE c

\* The current call returned; ready is the life of the namespace that ensureNamespace saw.
Returned(p) ==
    LET c == call[p]
    IN Followed(p, Began([c EXCEPT !.todo = Tail(@), !.ready = IF Head(c.todo) = "ns" THEN kns.life ELSE @]))

\* The current call failed.  Without a ready namespace only the install is left; a pull secret that
\* failed is not put on the service account; another failure is a warning.
AfterFailure(c) ==
    IF Head(c.todo) \in {"ns", "access"} THEN (IF c.todo[Len(c.todo)] = "install" THEN <<"createAndInstall">> ELSE <<>>)
    ELSE IF Head(c.todo) = "pull" THEN SelectSeq(Tail(c.todo), LAMBDA o : o # "sa")
    ELSE Tail(c.todo)

FailCall(p) ==
    /\ Calls(p, Followed(p, Began([call[p] EXCEPT !.todo = AfterFailure(call[p])])))
    /\ failed' = TRUE
    /\ UNCHANGED <<kns, kobj, foreign>>

CallFails(p) == call[p].todo # <<>> /\ p \in SetupFaults /\ FailCall(p)

\* A namespace that is being deleted takes no new objects.
MayCreate == kns.there /\ ~kns.ending

\* A write of object o: whoever read it before has an old version.
WriteObject(p, o, val, c) ==
    /\ kobj' = [kobj EXCEPT ![o] = [there |-> TRUE, val |-> val]]
    /\ call' = [q \in SetupProcesses |-> IF q = p THEN c ELSE IF OnObject(q, o) THEN [call[q] EXCEPT !.fresh = FALSE] ELSE call[q]]
    /\ UNCHANGED <<kns, foreign, failed>>

----------------------------------------------------------------------------
(* ensureNamespace and ensureNamespaceLabels.                                *)

GetNamespace(p) ==
    /\ OnObject(p, "ns") /\ AtStep(p, "get")
    /\ \/ ~kns.there /\ Calls(p, [call[p] EXCEPT !.step = "create"])
       \/ kns.there /\ DesiredLabels \subseteq kns.labels /\ Calls(p, Returned(p))
       \/ kns.there /\ ~(DesiredLabels \subseteq kns.labels) /\ Calls(p, [call[p] EXCEPT !.step = "patch"])
    /\ UNCHANGED <<kns, kobj, foreign, failed>>

\* A namespace that somebody else created meanwhile may lack the labels: look again.
CreateNamespace(p) ==
    /\ OnObject(p, "ns") /\ AtStep(p, "create")
    /\ IF kns.there THEN /\ Calls(p, [call[p] EXCEPT !.step = "again"])
                         /\ UNCHANGED <<kns, kobj>>
       ELSE /\ kns' = [there |-> TRUE, ending |-> FALSE, labels |-> DesiredLabels, life |-> kns.life + 1]
            /\ Calls(p, [Returned(p) EXCEPT !.ready = kns.life + 1]) /\ UNCHANGED kobj
    /\ UNCHANGED <<foreign, failed>>

GetNamespaceAgain(p) ==
    /\ OnObject(p, "ns") /\ AtStep(p, "again")
    /\ IF kns.there THEN /\ Calls(p, [call[p] EXCEPT !.step = "patch"])
                         /\ UNCHANGED <<kns, kobj, foreign, failed>>
       ELSE FailCall(p)

\* The merge patch of the labels that are missing or different.
Patched(labels) == labels \cup DesiredLabels

ensureNamespaceLabels(p) ==
    /\ OnObject(p, "ns") /\ AtStep(p, "patch")
    /\ IF kns.there THEN /\ kns' = [kns EXCEPT !.labels = Patched(@)]
                         /\ Calls(p, Returned(p)) /\ UNCHANGED <<kobj, foreign, failed>>
       ELSE FailCall(p)

----------------------------------------------------------------------------
(* EnsureRoleBinding, and ensureAccessBinding before it.                     *)

\* What a look at a binding leads to.  roleRef cannot be changed, so a wrong one is deleted first.
BindingStep(b) == IF ~b.there THEN "create"
                  ELSE IF b.val = RightBinding THEN "right"
                  ELSE IF "role" \notin b.val THEN "delete" ELSE "update"

ensureAccessBinding(p) ==
    /\ OnObject(p, "access") /\ AtStep(p, "look")
    /\ Calls(p, CASE BindingStep(kobj["access"]) = "right" -> Returned(p)
                  [] BindingStep(kobj["access"]) = "delete" -> [call[p] EXCEPT !.step = "drop"]
                  [] OTHER -> [call[p] EXCEPT !.step = "get"])
    /\ UNCHANGED <<kns, kobj, foreign, failed>>

GetBinding(p, o) ==
    /\ OnObject(p, o) /\ AtStep(p, "get")
    /\ Calls(p, IF BindingStep(kobj[o]) = "right" THEN Returned(p)
                ELSE [call[p] EXCEPT !.step = BindingStep(kobj[o]), !.fresh = TRUE])
    /\ UNCHANGED <<kns, kobj, foreign, failed>>

\* A create that lost the race reads the binding again and treats it as an existing one.
CreateBinding(p, o) ==
    /\ OnObject(p, o) /\ AtStep(p, "create")
    /\ \/ ~MayCreate /\ ~kobj[o].there /\ FailCall(p)
       \/ MayCreate /\ ~kobj[o].there /\ WriteObject(p, o, RightBinding, Returned(p))
       \/ /\ kobj[o].there
          /\ Calls(p, [call[p] EXCEPT !.step = "again"])
          /\ UNCHANGED <<kns, kobj, foreign, failed>>

GetBindingAgain(p, o) ==
    /\ OnObject(p, o) /\ AtStep(p, "again")
    /\ IF ~kobj[o].there THEN FailCall(p)
       ELSE /\ Calls(p, IF BindingStep(kobj[o]) = "right" THEN Returned(p)
                        ELSE [call[p] EXCEPT !.step = BindingStep(kobj[o]), !.fresh = TRUE])
            /\ UNCHANGED <<kns, kobj, foreign, failed>>

\* ensureAccessBinding takes a binding that is gone as deleted, EnsureRoleBinding does not.
DeleteBinding(p, o) ==
    /\ OnObject(p, o) /\ call[p].step \in {"drop", "delete"}
    /\ IF AtStep(p, "delete") /\ ~kobj[o].there THEN FailCall(p)
       ELSE /\ kobj' = [kobj EXCEPT ![o] = NoObject]
            /\ call' = [q \in SetupProcesses |->
                           IF q = p THEN [call[p] EXCEPT !.step = IF AtStep(p, "drop") THEN "get" ELSE "recreate"]
                           ELSE IF OnObject(q, o) THEN [call[q] EXCEPT !.fresh = FALSE] ELSE call[q]]
            /\ UNCHANGED <<kns, foreign, failed>>

RecreateBinding(p, o) ==
    /\ OnObject(p, o) /\ AtStep(p, "recreate")
    /\ IF MayCreate /\ ~kobj[o].there THEN WriteObject(p, o, RightBinding, Returned(p)) ELSE FailCall(p)

UpdateBinding(p, o) ==
    /\ OnObject(p, o) /\ AtStep(p, "update")
    /\ IF call[p].fresh /\ kobj[o].there THEN WriteObject(p, o, RightBinding, Returned(p)) ELSE FailCall(p)

----------------------------------------------------------------------------
(* CopySecret, EnsureDockerRegistrySecret, EnsureServiceAccountPullSecret.   *)

GetSecret(p, o) ==
    /\ OnObject(p, o) /\ AtStep(p, "get")
    /\ Calls(p, [call[p] EXCEPT !.step = IF kobj[o].there THEN "update" ELSE "create", !.fresh = TRUE])
    /\ UNCHANGED <<kns, kobj, foreign, failed>>

CreateSecret(p, o) ==
    /\ OnObject(p, o) /\ AtStep(p, "create")
    /\ \/ ~MayCreate /\ ~kobj[o].there /\ FailCall(p)
       \/ MayCreate /\ ~kobj[o].there /\ WriteObject(p, o, {p}, Returned(p))
       \/ /\ kobj[o].there
          /\ Calls(p, [call[p] EXCEPT !.step = "again"])
          /\ UNCHANGED <<kns, kobj, foreign, failed>>

GetSecretAgain(p, o) ==
    /\ OnObject(p, o) /\ AtStep(p, "again")
    /\ IF kobj[o].there THEN /\ Calls(p, [call[p] EXCEPT !.step = "update", !.fresh = TRUE])
                             /\ UNCHANGED <<kns, kobj, foreign, failed>>
       ELSE FailCall(p)

UpdateSecret(p, o) ==
    /\ OnObject(p, o) /\ AtStep(p, "update")
    /\ IF call[p].fresh /\ kobj[o].there THEN WriteObject(p, o, {p}, Returned(p)) ELSE FailCall(p)

WithReference(refs) == refs \cup {"pull"}

\* The default service account is made by the cluster some time after the namespace.
GetServiceAccount(p) ==
    /\ OnObject(p, "sa") /\ AtStep(p, "get")
    /\ IF ~kobj["sa"].there THEN FailCall(p)
       ELSE /\ Calls(p, IF "pull" \in kobj["sa"].val THEN Returned(p) ELSE [call[p] EXCEPT !.step = "update", !.fresh = TRUE])
            /\ UNCHANGED <<kns, kobj, foreign, failed>>

UpdateServiceAccount(p) ==
    /\ OnObject(p, "sa") /\ AtStep(p, "update")
    /\ IF call[p].fresh /\ kobj["sa"].there THEN WriteObject(p, "sa", WithReference(kobj["sa"].val), Returned(p))
       ELSE FailCall(p)

----------------------------------------------------------------------------
(* Helm, the clean, the cluster and other tools.                             *)

\* helm upgrade --install.  With --create-namespace, which it gets when the preparation failed, a
\* namespace that is missing is created without labels.
HelmInstall(p) ==
    \/ /\ OnObject(p, "install") /\ kns.there
       /\ Calls(p, Returned(p)) /\ UNCHANGED <<kns, kobj, foreign, failed>>
    \/ OnObject(p, "install") /\ ~kns.there /\ FailCall(p)
    \/ /\ OnObject(p, "createAndInstall")
       /\ kns' = IF kns.there THEN kns ELSE [there |-> TRUE, ending |-> FALSE, labels |-> {}, life |-> kns.life + 1]
       /\ Calls(p, Returned(p)) /\ UNCHANGED <<kobj, foreign, failed>>

\* DeleteNamespace: a namespace that is gone is deleted.  The cluster then removes it with its objects.
DeleteNamespace(p) ==
    /\ OnObject(p, "delete")
    /\ kns' = [kns EXCEPT !.ending = kns.there]
    /\ Calls(p, Returned(p)) /\ UNCHANGED <<kobj, foreign, failed>>

NamespaceGone ==
    /\ kns.ending
    /\ kns' = [kns EXCEPT !.there = FALSE, !.ending = FALSE, !.labels = {}] /\ kobj' = [o \in KubeNames |-> NoObject]
    /\ call' = [q \in SetupProcesses |-> [call[q] EXCEPT !.fresh = FALSE]]
    /\ UNCHANGED <<foreign, failed>>

ClusterMakesAccount ==
    /\ MayCreate /\ ~kobj["sa"].there
    /\ kobj' = [kobj EXCEPT !["sa"].there = TRUE] /\ UNCHANGED <<kns, call, foreign, failed>>

\* Another tool labels the namespace, adds a pull secret, or removes the access binding.
ForeignWrite ==
    /\ foreign < MaxForeign /\ MayCreate /\ foreign' = foreign + 1
    /\ \/ kns' = [kns EXCEPT !.labels = @ \cup {"team"}] /\ UNCHANGED <<kobj, call>>
       \/ /\ kobj["sa"].there /\ kobj' = [kobj EXCEPT !["sa"].val = @ \cup {"other"}]
          /\ call' = [q \in SetupProcesses |-> IF OnObject(q, "sa") THEN [call[q] EXCEPT !.fresh = FALSE] ELSE call[q]]
          /\ UNCHANGED kns
       \/ /\ kobj["access"].there /\ kobj' = [kobj EXCEPT !["access"] = NoObject]
          /\ call' = [q \in SetupProcesses |-> IF OnObject(q, "access") THEN [call[q] EXCEPT !.fresh = FALSE] ELSE call[q]]
          /\ UNCHANGED kns
    /\ UNCHANGED failed

----------------------------------------------------------------------------
BindingCall(p, o) ==
    \/ GetBinding(p, o) \/ CreateBinding(p, o) \/ GetBindingAgain(p, o)
    \/ DeleteBinding(p, o) \/ RecreateBinding(p, o) \/ UpdateBinding(p, o)

SecretCall(p, o) == GetSecret(p, o) \/ CreateSecret(p, o) \/ GetSecretAgain(p, o) \/ UpdateSecret(p, o)

CallStep(p) ==
    \/ BeginCall(p)
    \/ GetNamespace(p) \/ CreateNamespace(p) \/ GetNamespaceAgain(p) \/ ensureNamespaceLabels(p)
    \/ ensureAccessBinding(p)
    \/ \E o \in Bindings : BindingCall(p, o)
    \/ \E o \in KubeSecrets : SecretCall(p, o)
    \/ GetServiceAccount(p) \/ UpdateServiceAccount(p) \/ HelmInstall(p) \/ DeleteNamespace(p)

SetupNext ==
    \/ Reconcile \/ NamespaceGone \/ ClusterMakesAccount \/ ForeignWrite
    \/ \E p \in SetupProcesses : CallStep(p) \/ CallFails(p)

SetupSpec == SetupInit /\ [][SetupNext]_setupVars

----------------------------------------------------------------------------
SetupTypeOK ==
    /\ kns \in [there : BOOLEAN, ending : BOOLEAN, labels : SUBSET (DesiredLabels \cup {"team"}), life : Nat]
    /\ \A o \in KubeNames : kobj[o].there \in BOOLEAN
    /\ \A o \in Bindings : kobj[o].val \in SUBSET RightBinding
    /\ \A o \in KubeSecrets : kobj[o].val \in SUBSET SetupProcesses
    /\ kobj["sa"].val \in SUBSET {"pull", "other"}
    /\ \A o \in KubeNames : ~kns.there => kobj[o] = NoObject
    /\ foreign \in 0..MaxForeign /\ failed \in BOOLEAN

\* A namespace that a deploy or rollback prepared has the managed-by label as long as it exists, also
\* when somebody else created it between the read and the create (ensureNamespace); the reconciler,
\* the cleanup and the network rules find stack namespaces by that label.
PreparedIsLabelled ==
    \A p \in SetupCallers : kns.there /\ call[p].ready = kns.life => DesiredLabels \subseteq kns.labels

\* The preparation adds to a namespace and takes nothing away: labels of other tools stay, and so do the
\* pull secrets of the service account (merge patch in ensureNamespaceLabels, append in
\* EnsureServiceAccountPullSecret), whatever runs at the same time.
PreparationOnlyAdds ==
    [][kns'.there /\ kns'.life = kns.life =>
         kns.labels \subseteq kns'.labels /\ kobj["sa"].val \subseteq kobj'["sa"].val]_setupVars

\* Once every call returned and none failed, an access binding that some deploy prepared is the wanted
\* one, unless it was removed since (ensureAccessBinding deletes before it creates).
AccessIsRightAtRest ==
    (/\ ~failed /\ foreign = 0
     /\ \A p \in SetupProcesses : call[p].step \in {"start", "done"}
     /\ MayCreate /\ \E p \in SetupCallers : call[p].ready = kns.life)
    => kobj["access"].val = RightBinding

\* A labelled namespace has its access.
AccessIsThere == MayCreate /\ "managed" \in kns.labels => kobj["access"].val = RightBinding
=============================================================================
