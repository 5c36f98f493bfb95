-------------------------------- MODULE Hooks --------------------------------
(* The hook dispatcher and the action registry (hooks/dispatcher.go,         *)
(* actions.go, client.go, scope.go): which subscribers are called for an     *)
(* instance, in which order, and what their answers mean; and the lookup of  *)
(* the template of the instance that the decisions need (templates.go,       *)
(* lookup.go, cache/cache.go).  A lookup query outlives the wait for it.     *)
EXTENDS Naturals, Sequences, SequencesExt, FiniteSets

CONSTANTS
    HookOps, HookKind,     \* "fire" or "progress" (Fire, FireWithProgress), "block" (FireBlocking),
                           \* "action" (Invoke) or "list" (ListFor); each runs once
    HookGroups,            \* the sets of dispatches that run together
    HookSubs,              \* sequence of [scope, policy, blocking]; scope: a set of templates, {} for all
    ActionScope,           \* the scope of the action
    HookTemplates,         \* the templates that the definition may have
    HookAnswers,           \* what subscribers answer: [code, body, over]
    CacheTTL, LookupTimeout, MaxHookTime, MaxTemplateChanges,
    HookFaults             \* subset of {"query", "wait"}

ASSUME HooksAssumption ==
    /\ CacheTTL \in Nat /\ LookupTimeout \in Nat /\ MaxHookTime \in Nat /\ MaxTemplateChanges \in Nat
    /\ HookFaults \subseteq {"query", "wait"}
    /\ \A o \in HookOps : HookKind[o] \in {"fire", "progress", "block", "action", "list"}

VARIABLES
    hookTime,
    template,      \* of the definition of the instance, in the database: [is, was, since, changes]
    refCache,      \* the cached template: [val, until], or NoRef
    queries,       \* the lookup queries under way: [op, read, val, deadline]
    ops            \* the dispatches

hookVars == <<hookTime, template, refCache, queries, ops>>

NoRef == [val |-> "unknown", until |-> 0]
Unresolved == "unknown"
NewOp == [step |-> "start", ref |-> Unresolved, counted |-> {}, todo |-> <<>>, called |-> {},
          denied |-> {}, result |-> "none"]

HooksInit ==
    /\ hookTime = 0 /\ refCache = NoRef /\ queries = {}
    /\ \E t \in HookTemplates : template = [is |-> t, was |-> t, since |-> 0, changes |-> 0]
    /\ \E g \in HookGroups : ops = [o \in HookOps |-> IF o \in g THEN NewOp ELSE [NewOp EXCEPT !.step = "done"]]

OpGoes(o, r) == ops' = [ops EXCEPT ![o] = r]

----------------------------------------------------------------------------
(* The lookup (batchLookup) over the TTL cache.                              *)

\* TTLCache.Get.
CacheHas == refCache # NoRef /\ hookTime <= refCache.until

\* The wait ends with the answer, at its limit, or when the query failed.
Waits(o) == ops[o].step \in {"wait", "waitAgain"}
AfterWait(o) == IF ops[o].step = "wait" THEN "resolved" ELSE "prepared"

\* TemplateResolver.resolve: the step that o goes to with a known template, and else its wait.
Resolve(o, next, wait) ==
    IF ops[o].ref # Unresolved THEN OpGoes(o, [ops[o] EXCEPT !.step = next]) /\ UNCHANGED queries
    ELSE IF CacheHas THEN OpGoes(o, [ops[o] EXCEPT !.step = next, !.ref = refCache.val]) /\ UNCHANGED queries
    ELSE /\ queries' = queries \cup {[op |-> o, read |-> FALSE, val |-> Unresolved, deadline |-> hookTime + LookupTimeout]}
         /\ OpGoes(o, [ops[o] EXCEPT !.step = wait])

QueryReads(q) ==
    /\ q \in queries /\ ~q.read
    /\ queries' = (queries \ {q}) \cup {[q EXCEPT !.read = TRUE, !.val = template.is]}
    /\ UNCHANGED <<hookTime, template, refCache, ops>>

\* The answer fills the cache, also when nobody waits for it any more.
QueryEnds(q) ==
    /\ q \in queries /\ q.read
    /\ queries' = queries \ {q} /\ refCache' = [val |-> q.val, until |-> hookTime + CacheTTL]
    /\ ops' = IF Waits(q.op) THEN [ops EXCEPT ![q.op] = [@ EXCEPT !.step = AfterWait(q.op), !.ref = q.val]] ELSE ops
    /\ UNCHANGED <<hookTime, template>>

QueryFails(q) ==
    /\ q \in queries /\ ("query" \in HookFaults \/ hookTime >= q.deadline)
    /\ queries' = queries \ {q}
    /\ ops' = IF Waits(q.op) THEN [ops EXCEPT ![q.op].step = AfterWait(q.op)] ELSE ops
    /\ UNCHANGED <<hookTime, template, refCache>>

WaitEnds(o) ==
    /\ Waits(o) /\ "wait" \in HookFaults
    /\ OpGoes(o, [ops[o] EXCEPT !.step = AfterWait(o)])
    /\ UNCHANGED <<hookTime, template, refCache, queries>>

HookTick ==
    /\ hookTime < MaxHookTime /\ \A q \in queries : hookTime < q.deadline
    /\ hookTime' = hookTime + 1 /\ UNCHANGED <<template, refCache, queries, ops>>

\* The definition gets another template.
TemplateChanges ==
    /\ template.changes < MaxTemplateChanges
    /\ \E t \in HookTemplates \ {template.is} :
          template' = [is |-> t, was |-> template.is, since |-> hookTime, changes |-> template.changes + 1]
    /\ UNCHANGED <<hookTime, refCache, queries, ops>>

----------------------------------------------------------------------------
(* Scopes and answers.                                                       *)

DecideWithoutUnknown(scope, ref) == IF scope = {} \/ ref \in scope THEN "match" ELSE "noMatch"

\* Scope.decide.
decide(scope, ref) ==
    IF scope = {} THEN "match" ELSE IF ref = Unresolved THEN "unknown" ELSE IF ref \in scope THEN "match" ELSE "noMatch"

Verdict(body) == IF body = "empty" THEN "allowed" ELSE IF body = "garbage" THEN "error" ELSE body

\* deliver: what an answer of a subscriber means.
deliver(a) == IF a.code # "2xx" \/ a.over THEN {"error"} ELSE {Verdict(a.body)}

\* deliverStreaming reads the progress lines and the last other line; an answer over the size limit is
\* cut, in its progress lines (no other line is left then) or later.
deliverStreaming(a) ==
    IF a.code # "2xx" THEN {"error"} ELSE IF a.over THEN {"allowed", "error"} ELSE {Verdict(a.body)}

\* invoke: with a progress callback the answer is streamed.
invoke(o, a) == IF HookKind[o] = "fire" THEN deliver(a) ELSE deliverStreaming(a)

Indices(blocking) == SelectSeq([i \in DOMAIN HookSubs |-> i], LAMBDA i : HookSubs[i].blocking = blocking)

\* blockingIndicesFor: HasBlockingFor and BlockingTimeoutFor count a subscriber of unknown scope.
blockingIndicesFor(ref) == {i \in Range(Indices(TRUE)) : decide(HookSubs[i].scope, ref) # "noMatch"}

----------------------------------------------------------------------------
(* The dispatches.                                                           *)

\* Fire and Invoke prepare the request at once; the deploy first resolves the instance for
\* HasBlockingFor and BlockingTimeoutFor.
OpBegins(o) ==
    /\ ops[o].step = "start"
    /\ IF HookKind[o] \in {"fire", "progress"} THEN Resolve(o, "prepared", "waitAgain")
       ELSE IF HookKind[o] # "block" /\ ActionScope = {} THEN OpGoes(o, [ops[o] EXCEPT !.step = "resolved"]) /\ UNCHANGED queries
       ELSE Resolve(o, "resolved", "wait")
    /\ UNCHANGED <<hookTime, template, refCache>>

\* BlockingTimeoutFor, then FireBlocking.
CountBlocking(o) ==
    /\ ops[o].step = "resolved" /\ HookKind[o] = "block"
    /\ OpGoes(o, [ops[o] EXCEPT !.step = "dispatch", !.counted = blockingIndicesFor(ops[o].ref)])
    /\ UNCHANGED <<hookTime, template, refCache, queries>>

prepare(o) ==
    /\ ops[o].step = "dispatch"
    /\ IF ops[o].counted = {} THEN OpGoes(o, [ops[o] EXCEPT !.step = "done", !.result = "allowed"]) /\ UNCHANGED queries
       ELSE Resolve(o, "prepared", "waitAgain")
    /\ UNCHANGED <<hookTime, template, refCache>>

FireBegins(o) ==
    /\ ops[o].step = "prepared" /\ HookKind[o] \in {"fire", "progress", "block"}
    /\ OpGoes(o, [ops[o] EXCEPT !.step = "loop", !.todo = Indices(HookKind[o] = "block")])
    /\ UNCHANGED <<hookTime, template, refCache, queries>>

OpEnds(r, result) == [r EXCEPT !.step = "done", !.result = result]

\* The policy of a subscriber decides what its failure does.
Invoked(r, i, outcomes) ==
    {IF v = "allowed" \/ HookSubs[i].policy = "ignore" THEN r ELSE OpEnds(r, "failed") : v \in outcomes}

\* One subscriber of fireInternal or FireBlocking: its scope (checkScope), its call and its policy.
FireNext(o) ==
    LET r == ops[o] IN
    /\ r.step = "loop"
    /\ IF r.todo = <<>> THEN OpGoes(o, OpEnds(r, "allowed"))
       ELSE LET i == Head(r.todo)
                rest == [r EXCEPT !.todo = Tail(@)]
                scope == decide(HookSubs[i].scope, r.ref)
            IN \/ scope = "noMatch" /\ OpGoes(o, rest)
               \/ scope = "unknown" /\ OpGoes(o, IF HookSubs[i].policy = "fail" THEN OpEnds(rest, "failed") ELSE rest)
               \/ /\ scope = "match"
                  /\ \E a \in HookAnswers : \E c \in Invoked([rest EXCEPT !.called = @ \cup {i},
                                                                       !.denied = IF a.body = "denied" THEN @ \cup {i} ELSE @],
                                                            i, invoke(o, a)) : OpGoes(o, c)
    /\ UNCHANGED <<hookTime, template, refCache, queries>>

\* LookupFor in Invoke, and ListFor.
LookupFor(o) ==
    /\ ops[o].step = "resolved" /\ HookKind[o] \in {"action", "list"}
    /\ LET d == decide(ActionScope, ops[o].ref)
       IN OpGoes(o, IF HookKind[o] = "action" /\ d = "match" THEN [ops[o] EXCEPT !.step = "dispatchAction"]
                    ELSE OpEnds(ops[o], IF d = "match" THEN "listed" ELSE IF d = "unknown" THEN "incomplete" ELSE "unknownAction"))
    /\ UNCHANGED <<hookTime, template, refCache, queries>>

\* Invoke: the request carries the template when it is known; the answer is forwarded.
Invoke(o) ==
    \/ /\ ops[o].step = "dispatchAction" /\ Resolve(o, "prepared", "waitAgain")
       /\ UNCHANGED <<hookTime, template, refCache>>
    \/ /\ ops[o].step = "prepared" /\ HookKind[o] = "action"
       /\ \E a \in HookAnswers :
             OpGoes(o, OpEnds(ops[o], IF a.code = "none" \/ a.over \/ (a.code # "5xx" /\ a.body = "garbage") THEN "error" ELSE "forwarded"))
       /\ UNCHANGED <<hookTime, template, refCache, queries>>

----------------------------------------------------------------------------
HooksNext ==
    \/ HookTick \/ TemplateChanges
    \/ \E q \in queries : QueryReads(q) \/ QueryEnds(q) \/ QueryFails(q)
    \/ \E o \in HookOps : \/ WaitEnds(o) \/ OpBegins(o) \/ CountBlocking(o) \/ prepare(o) \/ FireBegins(o)
                          \/ FireNext(o) \/ LookupFor(o) \/ Invoke(o)

HooksSpec == HooksInit /\ [][HooksNext]_hookVars

----------------------------------------------------------------------------
HooksTypeOK ==
    /\ hookTime \in 0..MaxHookTime
    /\ refCache.val \in HookTemplates \cup {Unresolved}
    /\ queries \subseteq [op : HookOps, read : BOOLEAN, val : HookTemplates \cup {Unresolved}, deadline : Nat]
    /\ \A o \in HookOps : /\ ops[o].ref \in HookTemplates \cup {Unresolved}
                          /\ ops[o].called \cup ops[o].counted \subseteq DOMAIN HookSubs

Gate(i) == HookSubs[i].policy = "fail"

\* A pre-deploy dispatch that lets the deploy go on has called every gate (failure_policy=fail) that
\* applies to the instance, whatever the template lookup did: slow, failed or answered late.  "A gate
\* that cannot decide is never skipped silently" (checkScope).  The template may not have changed meanwhile.
GatesAreNotSkipped ==
    \A o \in HookOps : HookKind[o] \in {"fire", "progress"} /\ ops[o].result = "allowed" /\ template.changes = 0 =>
        \A i \in Range(Indices(FALSE)) :
            Gate(i) /\ (HookSubs[i].scope = {} \/ template.is \in HookSubs[i].scope) => i \in ops[o].called

\* A dispatch that lets the operation go on has no gate whose subscriber answered allowed=false (Fire:
\* "Subscriptions that respond with Allowed=false are treated as failures"), for answers within the size limit.
DenialsAreHonoured ==
    \A o \in HookOps : ops[o].result = "allowed" => \A i \in ops[o].denied : ~Gate(i)

\* A pre-deploy gate decides: the deploy goes on only when every gate was called and none said no.
GatesDecide == GatesAreNotSkipped /\ DenialsAreHonoured

\* FireBlocking calls no subscriber whose timeout the deploy did not count when it set the budget of the
\* blocking hooks and of its log (BlockingTimeoutFor), also when the template becomes known in between.
BlockingCallsAreCounted ==
    \A o \in HookOps : HookKind[o] = "block" => ops[o].called \subseteq ops[o].counted

\* The list of actions and an invoke agree (LookupFor, ListFor), unless the template changed.
ListAndInvokeAgree ==
    \A l, o \in HookOps :
        HookKind[l] = "list" /\ HookKind[o] = "action" /\ template.changes = 0 =>
            /\ ~(ops[l].result = "listed" /\ ops[o].result = "unknownAction")
            /\ ~(ops[l].result = "unknownAction" /\ ops[o].result = "forwarded")

\* A template that changed is not served from the cache for longer than the cache time and the time of a
\* query, even when a late answer of an older query overwrites a newer one (batchLookup).
CacheAgeIsBounded ==
    CacheHas /\ refCache.val # template.is =>
        hookTime <= template.since + LookupTimeout + CacheTTL
=============================================================================
