------------------------------ MODULE Catalog ------------------------------
(* The catalog: one stack template with its working copy and its published   *)
(* snapshots, and the stack definitions made from it (handlers/              *)
(* stack_templates.go, template_charts.go, template_releases.go,             *)
(* stack_definitions.go, definition_template_link.go, chart_configs.go).     *)
(* Every request runs once and is split where it reads and where it writes.  *)
(* Publish and upgrade are the interesting writers: one locks the template   *)
(* row, the other writes chart by chart without a transaction.               *)
EXTENDS Integers, Sequences, FiniteSets, FiniteSetsExt

CONSTANTS
    CatRequests,    \* 1 .. n
    CatScripts,     \* the kinds of request 1 .. n
    ChartNames,     \* e.g. {"a", "b"}
    CatVersions,    \* version strings
    MaxStamp,       \* bound: clock reading of a replica at publish
    CatFaults       \* subset of {"write"}: a chart write of an upgrade may fail

ASSUME CatalogAssumption ==
    /\ MaxStamp \in Nat
    /\ CatFaults \subseteq {"write"}
    /\ \A s \in CatScripts : DOMAIN s = CatRequests

VARIABLES
    tmplRow,        \* the stack_templates row
    workingCharts,  \* template_chart_configs: the working copy
    snapshots,      \* template_versions, in the order of their inserts
    tmplLock,       \* the request that holds the row lock, or 0
    defRow,         \* stack_definitions, by the request that created the row
    defCharts,      \* chart_configs, by definition
    catReq          \* the requests

catalogVars == <<tmplRow, workingCharts, snapshots, tmplLock, defRow, defCharts, catReq>>

Row == [exists : BOOLEAN, published : BOOLEAN, version : CatVersions, desc : 0 .. Max(CatRequests)]
NoRow == [exists |-> FALSE, published |-> FALSE, version |-> "v1", desc |-> 0]
NoDef == [exists |-> FALSE, name |-> 0, linked |-> FALSE, version |-> ""]

\* Template chart: the fields of every snapshot format (values, required) and one that
\* the legacy format does not hold (source; 0 is unset).
TemplateChart(n, v) == [name |-> n, values |-> v, required |-> n = "a", source |-> IF n = "a" THEN v ELSE 0]

NoRead == [row |-> NoRow, def |-> 0, defRow |-> NoDef, release |-> {}, version |-> "",
           todo |-> {}, before |-> {}, after |-> {}, shown |-> [added |-> {}, modified |-> {}],
           raced |-> FALSE, known |-> <<>>, charts |-> {}]
NewRequest(k) == [kind |-> k, pc |-> "start", ok |-> FALSE, read |-> NoRead]

LegacyRow == [exists |-> TRUE, published |-> TRUE, version |-> "v1", desc |-> 0]
LegacySnapshot ==
    [version |-> "v1", desc |-> 0, at |-> MaxStamp, full |-> FALSE,
     charts |-> {[TemplateChart("a", 0) EXCEPT !.source = 0]}]

\* An empty catalog, or a template published before the snapshot format had a version.
CatalogInit ==
    /\ \/ tmplRow = NoRow /\ workingCharts = {} /\ snapshots = <<>>
       \/ tmplRow = LegacyRow /\ workingCharts = {TemplateChart("a", 0)} /\ snapshots = <<LegacySnapshot>>
    /\ tmplLock = 0
    /\ defRow = [d \in CatRequests |-> NoDef]
    /\ defCharts = [d \in CatRequests |-> {}]
    /\ \E s \in CatScripts : catReq = [r \in CatRequests |-> NewRequest(s[r])]

At(r, k, pc) == catReq[r].kind = k /\ catReq[r].pc = pc
To(r, pc, read) == catReq' = [catReq EXCEPT ![r].pc = pc, ![r].read = read]
Answer(r, ok) == catReq' = [catReq EXCEPT ![r].pc = "done", ![r].ok = ok]

----------------------------------------------------------------------------
(* Releases (template_releases.go).                                          *)

\* GetLatestByTemplate: ORDER BY created_at DESC; equal times sort by random IDs.
Latests(s) == {i \in DOMAIN s : \A j \in DOMAIN s : s[j].at <= s[i].at}
GetLatest(s) == s[CHOOSE i \in Latests(s) : \A j \in Latests(s) : i <= j]

\* TemplateSnapshot.ChartConfigs: a legacy snapshot takes the source from the working copy.
WorkingSource(n) == LET w == {c \in workingCharts : c.name = n} IN IF w = {} THEN 0 ELSE (CHOOSE c \in w : TRUE).source
ChartConfigs(s) == {IF s.full THEN c ELSE [c EXCEPT !.source = WorkingSource(c.name)] : c \in s.charts}

\* usableTemplateRelease and upgradeRelease.
Usable == tmplRow.exists /\ tmplRow.published /\ snapshots # <<>>

\* latestTemplateRelease: the charts that Use Template and the upgrade take.
ReleaseCharts == ChartConfigs(GetLatest(snapshots))

\* releasedTemplateCharts: the working copy stands in when there is no snapshot.
releasedTemplateCharts == IF snapshots = <<>> THEN workingCharts ELSE ReleaseCharts

----------------------------------------------------------------------------
(* The template and its working copy.                                        *)

SameTemplateContent(s, row, charts, v) == s.version = v /\ s.desc = row.desc /\ s.charts = charts

ClockTime(known, t) == t

\* createdAt of a new snapshot on a replica whose clock reads t: it must sort first.
CreatedAt(known, t) == IF known # <<>> /\ t <= GetLatest(known).at THEN GetLatest(known).at + 1 ELSE t

\* A legacy latest snapshot may be stored again, once, under its version.
VersionTaken(known, v) ==
    /\ \E i \in DOMAIN known : known[i].version = v
    /\ ~(~GetLatest(known).full /\ GetLatest(known).version = v)

Unchanged(known, row, charts, v) ==
    known # <<>> /\ GetLatest(known).full /\ SameTemplateContent(GetLatest(known), row, charts, v)

\* publishInTx: a new snapshot unless nothing changed.
publishInTx(known, row, charts, v, t) ==
    snapshots' = IF Unchanged(known, row, charts, v) THEN snapshots
                 ELSE Append(snapshots, [version |-> v, desc |-> row.desc, at |-> CreatedAt(known, t),
                                         full |-> TRUE, charts |-> charts])

\* CreateTemplate: row, charts and first snapshot in one transaction.
CreateTemplate(r) ==
    /\ At(r, "create", "start")
    /\ ~tmplRow.exists /\ snapshots = <<>>
    /\ \E publish \in BOOLEAN, t \in 0 .. MaxStamp :
        LET row == [exists |-> TRUE, published |-> publish, version |-> "v1", desc |-> r]
        IN /\ tmplRow' = row
           /\ workingCharts' = {TemplateChart("a", r)}
           /\ IF publish THEN publishInTx(<<>>, row, {TemplateChart("a", r)}, "v1", t) ELSE snapshots' = snapshots
    /\ Answer(r, TRUE)
    /\ UNCHANGED <<tmplLock, defRow, defCharts>>

\* findManagedTemplate of UpdateTemplate and UnpublishTemplate.
ReadTemplate(r) ==
    /\ catReq[r].kind \in {"edit", "unpublish"} /\ catReq[r].pc = "start"
    /\ IF tmplRow.exists THEN To(r, "write", [NoRead EXCEPT !.row = tmplRow]) ELSE Answer(r, FALSE)
    /\ UNCHANGED <<tmplRow, workingCharts, snapshots, tmplLock, defRow, defCharts>>

\* Save of the whole row; it waits for the row lock and inserts a row that is gone.
SaveTemplate(r, row) ==
    /\ tmplLock = 0
    /\ tmplRow' = row
    /\ Answer(r, TRUE)
    /\ UNCHANGED <<workingCharts, snapshots, tmplLock, defRow, defCharts>>

\* UpdateTemplate: description and version change.
UpdateTemplate(r) ==
    /\ At(r, "edit", "write")
    /\ \E v \in CatVersions : SaveTemplate(r, [catReq[r].read.row EXCEPT !.desc = r, !.version = v])

UnpublishTemplate(r) ==
    /\ At(r, "unpublish", "write")
    /\ SaveTemplate(r, [catReq[r].read.row EXCEPT !.published = FALSE])

\* AddTemplateChart, UpdateTemplateChart: the request replaces every field of the chart.
SaveTemplateChart(r) ==
    /\ At(r, "chart", "start")
    /\ IF tmplRow.exists
       THEN \E n \in ChartNames : workingCharts' = {c \in workingCharts : c.name # n} \cup {TemplateChart(n, r)}
       ELSE workingCharts' = workingCharts
    /\ Answer(r, tmplRow.exists)
    /\ UNCHANGED <<tmplRow, snapshots, tmplLock, defRow, defCharts>>

DeleteTemplateChart(r) ==
    /\ At(r, "dropChart", "start")
    /\ IF tmplRow.exists /\ workingCharts # {}
       THEN /\ \E c \in workingCharts : workingCharts' = workingCharts \ {c}
            /\ Answer(r, TRUE)
       ELSE /\ workingCharts' = workingCharts
            /\ Answer(r, FALSE)
    /\ UNCHANGED <<tmplRow, snapshots, tmplLock, defRow, defCharts>>

\* DeleteTemplate: refuses a template that a definition references, BulkDeleteTemplates also
\* a published one ...
DeleteTemplateCheck(r) ==
    /\ catReq[r].kind \in {"delete", "bulkDelete"} /\ catReq[r].pc = "start"
    /\ IF /\ tmplRow.exists
          /\ catReq[r].kind = "bulkDelete" => ~tmplRow.published
          /\ \A d \in CatRequests : ~(defRow[d].exists /\ defRow[d].linked)
       THEN To(r, "write", NoRead)
       ELSE Answer(r, FALSE)
    /\ UNCHANGED <<tmplRow, workingCharts, snapshots, tmplLock, defRow, defCharts>>

\* ... and deletes the row only: charts and snapshots stay.
DeleteTemplate(r) ==
    /\ catReq[r].kind \in {"delete", "bulkDelete"} /\ catReq[r].pc = "write"
    /\ tmplLock = 0
    /\ tmplRow' = [tmplRow EXCEPT !.exists = FALSE]
    /\ Answer(r, tmplRow.exists)
    /\ UNCHANGED <<workingCharts, snapshots, tmplLock, defRow, defCharts>>

\* publishWorkingCopy: locks the row, then reads charts and snapshots ...
PublishLock(r) ==
    /\ At(r, "publish", "start")
    /\ tmplLock = 0
    /\ IF tmplRow.exists
       THEN /\ tmplLock' = r
            /\ To(r, "write", [NoRead EXCEPT !.row = tmplRow, !.known = snapshots, !.charts = workingCharts])
       ELSE tmplLock' = 0 /\ Answer(r, FALSE)
    /\ UNCHANGED <<tmplRow, workingCharts, snapshots, defRow, defCharts>>

\* ... and commits: a version string that is taken is refused, else the row is published.
PublishCommit(r) ==
    /\ At(r, "publish", "write")
    /\ tmplLock' = 0
    /\ LET q == catReq[r].read IN \E v \in CatVersions, t \in 0 .. MaxStamp :
        IF ~Unchanged(q.known, q.row, q.charts, v) /\ VersionTaken(q.known, v)
        THEN Answer(r, FALSE) /\ UNCHANGED <<tmplRow, snapshots>>
        ELSE /\ publishInTx(q.known, q.row, q.charts, v, t)
             /\ tmplRow' = [q.row EXCEPT !.published = TRUE, !.version = v]
             /\ Answer(r, TRUE)
    /\ UNCHANGED <<workingCharts, defRow, defCharts>>

----------------------------------------------------------------------------
(* Definitions.                                                              *)

\* definitionNameTaken: the one name that the requests use is 1.
NameTaken == \E d \in CatRequests : defRow[d].exists /\ defRow[d].name = 1

DefChart(r, c) == [id |-> <<r, c.name>>, name |-> c.name, values |-> c.values, source |-> c.source]

\* InstantiateTemplate: reads the release, checks the name ...
UseTemplate(r) ==
    /\ At(r, "use", "start")
    /\ IF Usable /\ ~NameTaken
       THEN To(r, "write", [NoRead EXCEPT !.release = ReleaseCharts, !.version = GetLatest(snapshots).version])
       ELSE Answer(r, FALSE)
    /\ UNCHANGED <<tmplRow, workingCharts, snapshots, tmplLock, defRow, defCharts>>

\* ... and creates the definition with its charts in one transaction.
InstantiateTemplate(r) ==
    /\ At(r, "use", "write")
    /\ defRow' = [defRow EXCEPT ![r] = [exists |-> TRUE, name |-> 1, linked |-> TRUE, version |-> catReq[r].read.version]]
    /\ defCharts' = [defCharts EXCEPT ![r] = {DefChart(r, c) : c \in catReq[r].read.release}]
    /\ Answer(r, TRUE)
    /\ UNCHANGED <<tmplRow, workingCharts, snapshots, tmplLock>>

\* The values that users write themselves are told from template values by their sign.
UserChart(r, n) == [id |-> <<r, n>>, name |-> n, values |-> -r, source |-> 0]

\* importTemplateLink, resolveTemplateLink: a published version, or no link; it never stops an import.
importTemplateLink == {""} \cup (IF Usable THEN {snapshots[i].version : i \in DOMAIN snapshots} ELSE {})

\* ImportDefinition: charts from the bundle, the first free name, one transaction.
ImportDefinition(r) ==
    /\ At(r, "import", "start")
    /\ \E v \in importTemplateLink, names \in SUBSET ChartNames :
        /\ defRow' = [defRow EXCEPT ![r] = [exists |-> TRUE, name |-> IF NameTaken THEN 100 + r ELSE 1,
                                             linked |-> v # "", version |-> v]]
        /\ defCharts' = [defCharts EXCEPT ![r] = {UserChart(r, n) : n \in names}]
    /\ Answer(r, TRUE)
    /\ UNCHANGED <<tmplRow, workingCharts, snapshots, tmplLock>>

\* UpdateDefinition and SetTemplateLink read the row.
ReadDefinition(r) ==
    /\ catReq[r].kind \in {"editDef", "link"} /\ catReq[r].pc = "start"
    /\ \/ \E d \in CatRequests :
           /\ defRow[d].exists
           /\ catReq[r].kind = "link" => Usable
           /\ \E v \in IF catReq[r].kind = "link" THEN {snapshots[i].version : i \in DOMAIN snapshots} ELSE {""} :
                 To(r, "write", [NoRead EXCEPT !.def = d, !.defRow = defRow[d], !.version = v])
       \/ Answer(r, FALSE)
    /\ UNCHANGED <<tmplRow, workingCharts, snapshots, tmplLock, defRow, defCharts>>

\* Save of the whole definition row.
UpdateDefinition(r) ==
    /\ At(r, "editDef", "write")
    /\ defRow' = [defRow EXCEPT ![catReq[r].read.def] = [catReq[r].read.defRow EXCEPT !.name = r + 1]]
    /\ Answer(r, TRUE)
    /\ UNCHANGED <<tmplRow, workingCharts, snapshots, tmplLock, defCharts>>

\* SetTemplateLink: the link columns only, of a row that exists.
SetTemplateLink(r) ==
    /\ At(r, "link", "write")
    /\ LET q == catReq[r].read IN
        IF defRow[q.def].exists
        THEN /\ defRow' = [defRow EXCEPT ![q.def].linked = TRUE, ![q.def].version = q.version]
             /\ Answer(r, TRUE)
        ELSE Answer(r, FALSE) /\ UNCHANGED defRow
    /\ UNCHANGED <<tmplRow, workingCharts, snapshots, tmplLock, defCharts>>

\* Another writer of the charts of d: the ghost tells the upgrades in flight.
ChartsWritten(r, d) ==
    catReq' = [x \in CatRequests |->
                 IF x = r THEN [catReq[r] EXCEPT !.pc = "done", !.ok = TRUE]
                 ELSE IF catReq[x].read.def = d THEN [catReq[x] EXCEPT !.read.raced = TRUE] ELSE catReq[x]]

\* AddChartConfig, UpdateChartConfig: a user sets the values of a chart.
SaveChartConfig(r) ==
    /\ At(r, "editChart", "start")
    /\ \/ \E d \in CatRequests :
           /\ defRow[d].exists
           /\ \/ \E c \in defCharts[d] : defCharts' = [defCharts EXCEPT ![d] = (@ \ {c}) \cup {[c EXCEPT !.values = -r]}]
              \/ \E n \in ChartNames : defCharts' = [defCharts EXCEPT ![d] = @ \cup {UserChart(r, n)}]
           /\ ChartsWritten(r, d)
       \/ Answer(r, FALSE) /\ UNCHANGED defCharts
    /\ UNCHANGED <<tmplRow, workingCharts, snapshots, tmplLock, defRow>>

\* DeleteChartConfig: a required chart of the release stays.
DeleteChartConfig(r) ==
    /\ At(r, "delChart", "start")
    /\ \/ \E d \in CatRequests : \E c \in defCharts[d] :
           /\ ~(defRow[d].linked /\ \E t \in releasedTemplateCharts : t.name = c.name /\ t.required)
           /\ defCharts' = [defCharts EXCEPT ![d] = @ \ {c}]
           /\ ChartsWritten(r, d)
       \/ Answer(r, FALSE) /\ UNCHANGED defCharts
    /\ UNCHANGED <<tmplRow, workingCharts, snapshots, tmplLock, defRow>>

----------------------------------------------------------------------------
(* Upgrade of a definition to the latest snapshot.                           *)

Named(S, n) == {c \in S : c.name = n}
NoChart == [source |-> 0]

\* upgradeTargetChart: the values always, the source only when the template chart has one.
upgradeTargetChart(cur, t) == [values |-> t.values, source |-> IF t.source # 0 THEN t.source ELSE cur.source]

Content(c) == [values |-> c.values, source |-> c.source]
Current(S, n) == IF Named(S, n) = {} THEN NoChart ELSE CHOOSE c \in Named(S, n) : TRUE

\* upgradeChartDiffs and computeChartDiffs: what check-upgrade shows as added and modified.
upgradeChartDiffs(current, target) ==
    [added |-> {t.name : t \in {x \in target : Named(current, x.name) = {}}},
     modified |-> {t.name : t \in {x \in target :
                     /\ Named(current, x.name) # {}
                     /\ upgradeTargetChart(Current(current, x.name), x) # Content(Current(current, x.name))}}]

\* ApplyUpgrade up to its first write: it reads row, release and charts.
UpgradeRead(r) ==
    /\ At(r, "upgrade", "start")
    /\ \/ \E d \in CatRequests :
           /\ defRow[d].exists /\ defRow[d].linked
           /\ Usable /\ GetLatest(snapshots).version # defRow[d].version
           /\ To(r, "charts", [NoRead EXCEPT !.def = d, !.defRow = defRow[d], !.release = ReleaseCharts,
                                             !.version = GetLatest(snapshots).version,
                                             !.todo = {c.name : c \in ReleaseCharts}, !.before = defCharts[d],
                                             !.shown = upgradeChartDiffs(defCharts[d], ReleaseCharts)])
       \/ Answer(r, FALSE)
    /\ UNCHANGED <<tmplRow, workingCharts, snapshots, tmplLock, defRow, defCharts>>

\* The chart rows after the upgrade has written one released chart.  An existing chart is
\* saved whole from the earlier read; Save inserts a row that is gone.
UpgradedRows(r, rows, before, t) ==
    IF Named(before, t.name) = {}
    THEN rows \cup {DefChart(r, t)}
    ELSE LET e == Current(before, t.name)
             u == upgradeTargetChart(e, t)
         IN {c \in rows : c.id # e.id} \cup {[e EXCEPT !.values = u.values, !.source = u.source]}

UpgradeChart(r) ==
    /\ At(r, "upgrade", "charts")
    /\ LET q == catReq[r].read IN
        /\ q.todo # {}
        /\ LET n == CHOOSE x \in q.todo : TRUE
               t == CHOOSE c \in q.release : c.name = n
           IN /\ defCharts' = [defCharts EXCEPT ![q.def] = UpgradedRows(r, @, q.before, t)]
              /\ catReq' = [x \in CatRequests |->
                             IF x = r THEN [catReq[r] EXCEPT !.read.todo = @ \ {n}]
                             ELSE IF catReq[x].read.def = q.def THEN [catReq[x] EXCEPT !.read.raced = TRUE]
                             ELSE catReq[x]]
    /\ UNCHANGED <<tmplRow, workingCharts, snapshots, tmplLock, defRow>>

\* A chart write that fails ends the request; what it wrote stays.
UpgradeFails(r) ==
    /\ "write" \in CatFaults
    /\ At(r, "upgrade", "charts") /\ catReq[r].read.todo # {}
    /\ Answer(r, FALSE)
    /\ UNCHANGED <<tmplRow, workingCharts, snapshots, tmplLock, defRow, defCharts>>

\* The definition row is saved last, whole, with the version of the release.
ApplyUpgrade(r) ==
    /\ At(r, "upgrade", "charts") /\ catReq[r].read.todo = {}
    /\ LET q == catReq[r].read IN
        /\ defRow' = [defRow EXCEPT ![q.def] = [q.defRow EXCEPT !.version = q.version]]
        /\ catReq' = [catReq EXCEPT ![r].pc = "done", ![r].ok = TRUE, ![r].read.after = defCharts[q.def]]
    /\ UNCHANGED <<tmplRow, workingCharts, snapshots, tmplLock, defCharts>>

\* DeleteDefinition and its owned cleanup are part of InstanceCatalog.
CatalogNext ==
    \E r \in CatRequests :
        \/ CreateTemplate(r) \/ ReadTemplate(r) \/ UpdateTemplate(r) \/ UnpublishTemplate(r)
        \/ SaveTemplateChart(r) \/ DeleteTemplateChart(r)
        \/ DeleteTemplateCheck(r) \/ DeleteTemplate(r)
        \/ PublishLock(r) \/ PublishCommit(r)
        \/ UseTemplate(r) \/ InstantiateTemplate(r)
        \/ ReadDefinition(r) \/ UpdateDefinition(r) \/ SetTemplateLink(r)
        \/ ImportDefinition(r) \/ SaveChartConfig(r) \/ DeleteChartConfig(r)
        \/ UpgradeRead(r) \/ UpgradeChart(r) \/ UpgradeFails(r) \/ ApplyUpgrade(r)

CatalogSpec == CatalogInit /\ [][CatalogNext]_catalogVars

----------------------------------------------------------------------------
(* Properties.                                                               *)

\* Every row, snapshot and lock has its type; the lock is held by a publish that is about to commit.
CatalogTypeOK ==
    /\ tmplRow \in Row
    /\ \A i \in DOMAIN snapshots : snapshots[i].version \in CatVersions /\ snapshots[i].full \in BOOLEAN
    /\ tmplLock # 0 => At(tmplLock, "publish", "write")
    /\ \A d \in CatRequests : defRow[d].exists \in BOOLEAN /\ defRow[d].version \in CatVersions \cup {""}

\* Users get what was published last: the newest snapshot by created_at, which every reader
\* takes, is the one that committed last, whatever the clocks of the replicas read
\* (publishInTx moves created_at past the latest).
ReleaseIsLastPublished == \A i, j \in DOMAIN snapshots : i < j => snapshots[i].at < snapshots[j].at

\* A version string names one content: two concurrent publishes never store it twice.  Only the
\* string of a legacy snapshot may return, once, in the full format.
VersionNamesOneContent ==
    \A i, j \in DOMAIN snapshots :
        i < j /\ snapshots[i].version = snapshots[j].version => ~snapshots[i].full /\ snapshots[j].full

\* A published template can be used: no interleaving of publish, edit, unpublish and delete
\* leaves the flag set without a snapshot.
PublishedHasRelease == tmplRow.exists /\ tmplRow.published => snapshots # <<>>

\* Releases are what was published: in the order of the publishes, each under a version of its own,
\* and at least one for a template that is published (publishInTx, Update, deleteTemplate).
ReleasesAreWhatWasPublished == ReleaseIsLastPublished /\ VersionNamesOneContent /\ PublishedHasRelease

\* Draft values never reach a definition: the values of its charts were published,
\* unless a user wrote them.
NoDraftInDefinitions ==
    \A d \in CatRequests : \A c \in defCharts[d] :
        \/ c.values < 0
        \/ \E i \in DOMAIN snapshots : \E t \in snapshots[i].charts : t.name = c.name /\ t.values = c.values

\* The upgrade changes the charts that check-upgrade shows as added or modified and no other,
\* unless another request wrote the charts meanwhile or two charts share a name.
UpgradeDoesWhatTheCheckShows ==
    \A r \in CatRequests :
        LET q == catReq[r].read
            rows(n) == {Content(c) : c \in Named(q.after, n)}
            distinct == \A c, e \in q.before : c.name = e.name => c = e
        IN catReq[r].kind = "upgrade" /\ catReq[r].ok /\ ~q.raced /\ distinct =>
             /\ {c.name : c \in q.after} \ {c.name : c \in q.before} = q.shown.added
             /\ \A c \in q.before : Content(c) \in rows(c.name) <=> c.name \notin q.shown.modified

\* A concurrent edit is not lost by linking a template: SetTemplateLink writes the link columns
\* only, so a name changes in an edit or in the whole-row save of an upgrade.
LinkKeepsEdits ==
    [][\A d \in CatRequests :
         defRow[d].exists /\ defRow'[d].name # defRow[d].name =>
           \E r \in CatRequests : catReq[r].kind \in {"editDef", "upgrade"} /\ catReq'[r] # catReq[r]]_catalogVars

\* An edit of the template changes the working copy only: it leaves the publish state alone.
EditsChangeTheWorkingCopyOnly ==
    [][\A r \in CatRequests : UpdateTemplate(r) => tmplRow'.published = tmplRow.published]_catalogVars

============================================================================
