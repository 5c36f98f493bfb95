------------------------------ MODULE ValueLayers ------------------------------
(***************************************************************************)
(* The layers of one chart of an instance, and the requests that change    *)
(* and read them at the same time: the override of the chart               *)
(* (handlers/value_overrides.go), the shared values of the cluster         *)
(* (handlers/shared_values.go), the locked values of the template's release*)
(* and the builds of a deploy, preview or export                           *)
(* (handlers/values_builder.go, shared_values_loader.go).                  *)
(***************************************************************************)
EXTENDS Integers, Sequences, FiniteSets, SequencesExt

----------------------------------------------------------------------------
(***************************************************************************)
(* How the Helm values of a chart are made (internal/helm): the layers are *)
(* parsed, merged from the weakest to the strongest, and the variables are *)
(* put in.  A value is a null, a leaf or a map; the text of a layer is a   *)
(* map or does not parse.  A leaf is a text without variables, the variable*)
(* "{{.Branch}}", or a template that fails ("{{.Nope}}").                  *)
(***************************************************************************)

CONSTANTS
    TopKeys, SubKeys,   \* keys of the root map, and of the maps under it
    SharedTexts,        \* texts of the shared values of a cluster
    LayerTexts,         \* texts of the other layers
    TagChars,           \* characters of branch names
    MaxBranchName,      \* bound: length of branch names
    MaxTag              \* 128: length of an image tag

ASSUME ValueMergeAssumption ==
    /\ IsFiniteSet(TopKeys) /\ IsFiniteSet(SubKeys)
    /\ {MaxBranchName, MaxTag} \subseteq Nat \ {0}

VARIABLE sample         \* the layers or the branch name looked at

Null == [is |-> "null", text |-> "", map |-> <<>>]
Leaf(s) == [is |-> "leaf", text |-> s, map |-> <<>>]
MapOf(f) == [is |-> "map", text |-> "", map |-> f]

NoKeys == [k \in {} |-> Null]

Text(f) == [ok |-> TRUE, map |-> f]
BrokenText == [ok |-> FALSE, map |-> NoKeys]

--------------------------------------------------------------------------------
(***************************************************************************)
(* The merge.                                                              *)
(***************************************************************************)

\* deepMerge: maps are merged key by key, other values of src replace, a null
\* of src removes the key.
RECURSIVE deepMerge(_, _)
deepMerge(dst, src) ==
    [k \in (DOMAIN dst \cup DOMAIN src) \ {k \in DOMAIN src : src[k].is = "null"} |->
        CASE k \notin DOMAIN src -> dst[k]
          [] k \notin DOMAIN dst -> src[k]
          [] k \in DOMAIN src \cap DOMAIN dst ->
                IF src[k].is = "map" /\ dst[k].is = "map"
                THEN MapOf(deepMerge(dst[k].map, src[k].map)) ELSE src[k]]

\* substituteVars and substituteValue.
RECURSIVE substituteVars(_, _)
substituteVars(m, branch) ==
    [k \in DOMAIN m |->
        CASE m[k].is = "map" -> MapOf(substituteVars(m[k].map, branch))
          [] m[k].is = "leaf" /\ m[k].text = "{{.Branch}}" -> Leaf(branch)
          [] OTHER -> m[k]]

RECURSIVE TemplateFails(_)
TemplateFails(m) ==
    \E k \in DOMAIN m :
        \/ m[k].is = "map" /\ TemplateFails(m[k].map)
        \/ m[k].is = "leaf" /\ m[k].text = "{{.Nope}}"

LockedBeforeOverrides(p, shared) ==
    deepMerge(deepMerge(deepMerge(shared, p.defaults.map), p.locked.map), p.overrides.map)

\* GenerateValues from the parsed layers: shared, defaults, overrides, locked.
MergeLayers(p, shared) ==
    deepMerge(deepMerge(deepMerge(shared, p.defaults.map), p.overrides.map), p.locked.map)

\* GenerateValues: a shared layer that does not parse is left out, any other
\* is an error, and so is a template that fails after the merge.
GenerateValues(p) ==
    LET shared == FoldLeft(LAMBDA acc, t : IF t.ok THEN deepMerge(acc, t.map) ELSE acc,
                           NoKeys, p.shared)
        merged == MergeLayers(p, shared)
        branch == IF p.chartBranch # "" THEN p.chartBranch ELSE p.branch
    IN  IF ~(p.defaults.ok /\ p.overrides.ok /\ p.locked.ok) \/ TemplateFails(merged)
        THEN [err |-> TRUE, values |-> NoKeys]
        ELSE [err |-> FALSE, values |-> substituteVars(merged, branch)]

--------------------------------------------------------------------------------
(***************************************************************************)
(* SanitizeImageTag on a name as a sequence of characters: "A" stands for  *)
(* an upper-case letter, "a" for lower case and digits, "!" for a character*)
(* that no tag holds.                                                      *)
(***************************************************************************)

LowerChar(c) == IF c = "A" THEN "a" ELSE IF c \in {"/", " ", "_"} THEN "-" ELSE c

TrimLeft(s) ==
    LET good == {i \in DOMAIN s : s[i] \notin {"-", "."}}
    IN  IF good = {} THEN <<>>
        ELSE SubSeq(s, CHOOSE i \in good : \A j \in good : i =< j, Len(s))

SanitizeImageTag(name) ==
    LET valid == SelectSeq([i \in DOMAIN name |-> LowerChar(name[i])],
                           LAMBDA c : c \in {"a", "-", "."})
        tag == SubSeq(TrimLeft(valid), 1, IF Len(TrimLeft(valid)) > MaxTag THEN MaxTag
                                          ELSE Len(TrimLeft(valid)))
    IN  IF tag = <<>> THEN <<"latest">> ELSE tag

--------------------------------------------------------------------------------
NoSample == [layers |-> <<>>, name |-> <<>>]

MergeInit == sample = NoSample

SampleLayers ==
    /\ sample = NoSample
    /\ \E s1, s2 \in SharedTexts, d, o, l \in LayerTexts, b \in {"", "own"} :
          sample' = [NoSample EXCEPT !.layers =
              <<[shared |-> <<s1, s2>>, defaults |-> d, overrides |-> o, locked |-> l,
                 chartBranch |-> b, branch |-> "main"]>>]

SampleName ==
    /\ sample = NoSample
    /\ \E n \in 1..MaxBranchName : \E name \in [1..n -> TagChars] :
          sample' = [NoSample EXCEPT !.name = name]

MergeNext == SampleLayers \/ SampleName

MergeSpec == MergeInit /\ [][MergeNext]_sample

--------------------------------------------------------------------------------
(***************************************************************************)
(* Properties.                                                             *)
(***************************************************************************)

\* What a layer says of a path: a text, "remove", "map", or nothing.
Says(layer, path) ==
    IF ~layer.ok \/ path[1] \notin DOMAIN layer.map THEN "nothing"
    ELSE LET v == layer.map[path[1]] IN
         IF Len(path) = 1 \/ v.is # "map"
         THEN IF v.is = "leaf" /\ Len(path) = 1 THEN v.text
              ELSE IF v.is = "map" THEN "map" ELSE "remove"
         ELSE IF path[2] \notin DOMAIN v.map THEN "nothing"
         ELSE IF v.map[path[2]].is = "null" THEN "remove" ELSE v.map[path[2]].text

\* The strongest layer that says something of a path decides.
Decided(layersOf, path) ==
    LET speak == {i \in DOMAIN layersOf : Says(layersOf[i], path) # "nothing"}
    IN  IF speak = {} THEN "remove"
        ELSE Says(layersOf[CHOOSE i \in speak : \A j \in speak : i >= j], path)

Paths == {<<k>> : k \in TopKeys} \cup (TopKeys \X SubKeys)

Shown(text, p) ==
    IF text = "{{.Branch}}" THEN IF p.chartBranch = "" THEN p.branch ELSE p.chartBranch
    ELSE text

\* "Merge order: shared values <- defaults <- overrides <- locked (locked always
\* wins)": at each path the generated values hold what the strongest layer that
\* speaks of the path says, with the chart's own branch for {{.Branch}}.
StrongestLayerDecides ==
    sample.layers # <<>> =>
        LET p == sample.layers[1]
            all == p.shared \o <<p.defaults, p.overrides, p.locked>>
            r == GenerateValues(p)
        IN  ~r.err => \A path \in Paths :
                LET is == Says(Text(r.values), path)
                    due == Decided(all, path)
                IN  due # "remove" \/ is \notin {"nothing", "remove"} =>
                       is = Shown(due, p)

\* A branch name always gives a tag that a registry accepts: not empty, not too
\* long, without a leading dot or dash.
TagsAreValid ==
    sample.name # <<>> =>
        LET tag == SanitizeImageTag(sample.name) IN
        /\ Len(tag) \in 1..MaxTag
        /\ tag[1] \notin {"-", "."}
        /\ \A i \in DOMAIN tag : tag[i] \in {"a", "-", ".", "latest"}

----------------------------------------------------------------------------
CONSTANTS
    LayerRequests,      \* requests, each runs once
    LayerScripts,       \* sets of tuples of what they do: see NewLayerRequest
    FirstStore,         \* layers at the start
    ChartDefaults,      \* default values of the chart
    LayerFaults         \* subset of {"read", "write"}

ASSUME ValueLayersAssumption == IsFiniteSet(LayerRequests)

VARIABLES
    store,      \* [row, locked, shared, chart]: what the database holds
    lreq        \* requests

layerVars == <<store, lreq>>

\* A row of value_overrides.  `against` is the locked layer that its text was
\* checked against, and is not stored.
NoOverride == [id |-> 0, text |-> Text(NoKeys), against |-> BrokenText]

\* A request: what it does, its place, what it read, its answer; a build also
\* has the states of the database since it began.
NewLayerRequest(do) ==
    [do |-> do, pc |-> "new", found |-> 0, against |-> BrokenText, locked |-> Text(NoKeys),
     shared |-> <<>>, result |-> [err |-> FALSE, values |-> NoKeys], over |-> NoOverride,
     during |-> {}, status |-> 0]

LayerInit ==
    /\ store = FirstStore
    /\ \E script \in LayerScripts :
          lreq = [r \in LayerRequests |-> NewLayerRequest(script[r])]

\* A change of the database is seen by the builds that run.
Stored(s, q) ==
    /\ store' = s
    /\ lreq' = [r \in LayerRequests |->
                  IF q[r].during # {} /\ q[r].pc # "done" THEN [q[r] EXCEPT !.during = @ \cup {s}]
                  ELSE q[r]]

Reply(r, status) == [lreq EXCEPT ![r] = [@ EXCEPT !.pc = "done", !.status = status]]

\* A read or a write that fails ends a request, and changes nothing.
RequestFails(r) ==
    /\ lreq[r].pc # "done" /\ lreq[r].do.kind \notin {"publish", "dropChart"}
    /\ (IF lreq[r].pc \in {"write", "drop", "save", "remove shared"} THEN "write" ELSE "read")
          \in LayerFaults
    /\ Stored(store, Reply(r, 500))

--------------------------------------------------------------------------------
(***************************************************************************)
(* SetOverride and DeleteOverride.                                         *)
(***************************************************************************)

SkipsLockCheck(s, text) == FALSE

\* checkLockedValues: a key of the root map that the release locks.
LockedConflict(s, text) ==
    s.locked.ok /\ text.ok /\ DOMAIN s.locked.map \cap DOMAIN text.map # {}

\* helm.ValidateValues: the parser of the deploy.
ValidateValues(text) == text.ok

\* SetOverride up to the lookup: requireInstanceChart, the check of the text
\* and the check of the locked values.  An empty text removes the override.
SetOverrideChecks(r) ==
    LET text == lreq[r].do.text IN
    /\ lreq[r].pc = "new" /\ lreq[r].do.kind = "set"
    /\ IF ~store.chart THEN Stored(store, Reply(r, 404))
       ELSE IF text = Text(NoKeys)
       THEN Stored(store, [lreq EXCEPT ![r].pc = "remove"])
       ELSE IF ~ValidateValues(text) \/ LockedConflict(store, text)
       THEN Stored(store, Reply(r, 400))
       ELSE Stored(store, [lreq EXCEPT ![r] = [@ EXCEPT !.pc = "find",
                                                        !.against = store.locked]])

\* FindByInstanceAndChart decides between update and create.
FindOverride(r) ==
    /\ lreq[r].pc = "find"
    /\ Stored(store, [lreq EXCEPT ![r] = [@ EXCEPT !.pc = "write", !.found = store.row.id]])

\* The detached write.  Save writes the row, also when it is gone; Create is
\* refused by the unique index when another request was first.
WriteOverride(r) ==
    LET q == lreq[r]
        row == [id |-> IF store.row.id # 0 THEN store.row.id
                       ELSE IF q.found # 0 THEN q.found ELSE r,
                text |-> q.do.text, against |-> q.against]
    IN  /\ q.pc = "write"
        /\ IF q.found = 0 /\ store.row.id # 0 THEN Stored(store, Reply(r, 409))
           ELSE Stored([store EXCEPT !.row = row], Reply(r, 200))

DeleteOverride(r) ==
    /\ lreq[r].pc = "new" /\ lreq[r].do.kind = "delete"
    /\ Stored(store, [lreq EXCEPT ![r].pc = "remove"])

\* deleteValueOverride: find, then delete that row; a row that is gone is 404,
\* or 204 for an empty text.
FindToDelete(r) ==
    /\ lreq[r].pc = "remove"
    /\ IF store.row.id # 0
       THEN Stored(store, [lreq EXCEPT ![r] = [@ EXCEPT !.pc = "drop", !.found = store.row.id]])
       ELSE Stored(store, Reply(r, IF lreq[r].do.kind = "set" THEN 204 ELSE 404))

DropOverride(r) ==
    /\ lreq[r].pc = "drop"
    /\ IF store.row.id = lreq[r].found
       THEN Stored([store EXCEPT !.row = NoOverride], Reply(r, 204))
       ELSE Stored(store, Reply(r, IF lreq[r].do.kind = "set" THEN 204 ELSE 404))

--------------------------------------------------------------------------------
(***************************************************************************)
(* What else changes the layers.                                           *)
(***************************************************************************)

\* A publish of the template replaces the locked values of its release.
PublishLocked(r) ==
    /\ lreq[r].pc = "new" /\ lreq[r].do.kind = "publish"
    /\ Stored([store EXCEPT !.locked = lreq[r].do.text], Reply(r, 200))

\* CreateSharedValues, with a new row; UpdateSharedValues and
\* DeleteSharedValues find the row first.  No text is parsed here.
FindSharedValues(r) ==
    /\ lreq[r].pc = "new" /\ lreq[r].do.kind \in {"share", "reshare", "unshare"}
    /\ IF lreq[r].do.kind # "share" /\ \A v \in store.shared : v.id # lreq[r].do.id
       THEN Stored(store, Reply(r, 404))
       ELSE Stored(store, [lreq EXCEPT ![r].pc = IF lreq[r].do.kind = "unshare" THEN "remove shared"
                                                 ELSE "save"])

\* The update saves the whole row, also when it is gone by now.
SaveSharedValues(r) ==
    LET do == lreq[r].do IN
    /\ lreq[r].pc = "save"
    /\ Stored([store EXCEPT !.shared =
                  {v \in @ : v.id # do.id}
                  \cup {[id |-> do.id, priority |-> do.priority, text |-> do.text]}],
              Reply(r, 200))

DeleteSharedValues(r) ==
    /\ lreq[r].pc = "remove shared"
    /\ Stored([store EXCEPT !.shared = {v \in @ : v.id # lreq[r].do.id}],
              Reply(r, IF \E v \in store.shared : v.id = lreq[r].do.id THEN 204 ELSE 404))

\* The chart leaves the definition; its override stays.
RemoveChart(r) ==
    /\ lreq[r].pc = "new" /\ lreq[r].do.kind = "dropChart"
    /\ Stored([store EXCEPT !.chart = FALSE], Reply(r, 200))

--------------------------------------------------------------------------------
(***************************************************************************)
(* valuesBuilder.build: one read after the other.                          *)
(***************************************************************************)

\* SortSharedValues: priority, then name (here the row's number).
SortSharedValues(rows) ==
    SetToSortSeq(rows, LAMBDA a, b : a.priority < b.priority
                                       \/ (a.priority = b.priority /\ a.id < b.id))

\* loadSharedValues: empty rows and rows that do not parse are left out.
IsLayer(text) == text.ok /\ text # Text(NoKeys)

loadSharedValues(rows) ==
    LET sorted == SortSharedValues(rows)
    IN  SelectSeq([i \in DOMAIN sorted |-> sorted[i].text], IsLayer)

\* The handler lists the charts; a chart that is gone has no values.
BuildCharts(r) ==
    /\ lreq[r].pc = "new" /\ lreq[r].do.kind = "deploy"
    /\ IF store.chart
       THEN Stored(store, [lreq EXCEPT ![r] = [@ EXCEPT !.pc = "locked", !.during = {store}]])
       ELSE Stored(store, Reply(r, 200))

\* lockedValues: of the latest release.
BuildLocked(r) ==
    /\ lreq[r].pc = "locked"
    /\ Stored(store, [lreq EXCEPT ![r] = [@ EXCEPT !.pc = "shared", !.locked = store.locked]])

BuildShared(r) ==
    /\ lreq[r].pc = "shared"
    /\ Stored(store, [lreq EXCEPT ![r] = [@ EXCEPT !.pc = "overrides",
                                                   !.shared = loadSharedValues(store.shared)]])

Layers(q) ==
    [shared |-> q.shared, defaults |-> ChartDefaults, overrides |-> q.over.text,
     locked |-> q.locked, chartBranch |-> "", branch |-> "main"]

\* ListByInstance: a failed read ends the build (RequestFails).
BuildReads(q) == {[q EXCEPT !.over = store.row]}

BuildOverrides(r) ==
    /\ lreq[r].pc = "overrides"
    /\ \E q \in BuildReads(lreq[r]) :
          LET g == GenerateValues(Layers(q)) IN
          Stored(store, [lreq EXCEPT ![r] = [q EXCEPT !.pc = "done", !.result = g,
                                                      !.status = IF g.err THEN 500 ELSE 200]])

LayerStep(r) ==
    \/ SetOverrideChecks(r) \/ FindOverride(r) \/ WriteOverride(r)
    \/ DeleteOverride(r) \/ FindToDelete(r) \/ DropOverride(r)
    \/ PublishLocked(r) \/ RemoveChart(r)
    \/ FindSharedValues(r) \/ SaveSharedValues(r) \/ DeleteSharedValues(r)
    \/ BuildCharts(r) \/ BuildLocked(r) \/ BuildShared(r) \/ BuildOverrides(r)
    \/ RequestFails(r)

LayerNext == \E r \in LayerRequests : LayerStep(r)

LayerSpec == LayerInit /\ [][LayerNext]_layerVars

--------------------------------------------------------------------------------
(***************************************************************************)
(* Properties.                                                             *)
(***************************************************************************)

LayerTypeOK ==
    /\ store.row.id \in 0..Cardinality(LayerRequests) + 1
    /\ store.chart \in BOOLEAN
    /\ \A r \in LayerRequests :
          /\ lreq[r].pc \in {"new", "find", "write", "remove", "drop", "save",
                            "remove shared", "locked", "shared", "overrides", "done"}
          /\ lreq[r].status \in {0, 200, 204, 400, 404, 409, 500}

Built(q) == q.do.kind = "deploy" /\ q.pc = "done" /\ q.status = 200 /\ q.during # {}

\* An override that SetOverride accepted takes effect: a build with the locked
\* values that the override was checked against shows every text of it.  The
\* check of the root keys and the merge agree on what is locked.
AcceptedOverridesTakeEffect ==
    \A r \in LayerRequests :
        LET q == lreq[r] IN
        Built(q) /\ q.over.against = q.locked =>
            \A path \in Paths :
                Says(q.over.text, path) \notin {"nothing", "remove"} =>
                    Says(Text(q.result.values), path) = Says(q.over.text, path)

\* A build misses no layer: what it rendered was stored while it ran, the shared
\* values in the order of their priority ("callers fail closed, because values
\* rendered with a missing layer would be wrong").
BuildsMissNoLayer ==
    \A r \in LayerRequests :
        LET q == lreq[r] IN
        Built(q) =>
            /\ \E s \in q.during : s.locked = q.locked
            /\ \E s \in q.during : s.row = q.over
            /\ \E s \in q.during :
                  /\ Len(q.shared) = Cardinality({v \in s.shared : IsLayer(v.text)})
                  /\ \A v, w \in {u \in s.shared : IsLayer(u.text)} :
                        v.priority < w.priority /\ v.text # w.text =>
                            \E i, j \in DOMAIN q.shared :
                                i < j /\ q.shared[i] = v.text /\ q.shared[j] = w.text

\* A text that the deploy cannot parse is never stored by SetOverride
\* (ValidateValues: "a value that passes here also passes that parse step at
\* deploy time"): only a row from before can fail a build.
StoredOverridesParse ==
    store.row.text.ok \/ store.row = FirstStore.row

================================================================================
