----------------------------- MODULE Migrations -----------------------------
(***************************************************************************)
(* The start of the backend up to "migrations done": several replicas run  *)
(* Migrator.MigrateUp on one MySQL database at the same time.  Nothing     *)
(* keeps them apart, every guard of a migration is a query before the      *)
(* statement, and MySQL commits the transaction of a migration at its      *)
(* first DDL statement, so a crash leaves a half-done migration behind.  A *)
(* start that fails ends the process and Kubernetes starts it again.       *)
(***************************************************************************)
EXTENDS Sequences, Naturals, FiniteSets, FiniteSetsExt

----------------------------------------------------------------------------
(***************************************************************************)
(* The 67 database migrations (internal/database/migrations.go and three   *)
(* files beside it) as data.  A migration is a pair of step lists: Up, a   *)
(* sequence of guarded blocks, and Down, what it drops and restores.  An   *)
(* object of the schema is a pair <<table, name>>: the table itself has    *)
(* the empty name; a column, an index, a column type and the effect of a   *)
(* data statement have names of their own.                                 *)
(***************************************************************************)

Tab(t) == <<t, "">>

(***************************************************************************)
(* The fields and tagged indexes of the current models that some migration *)
(* also names.  AutoMigrate of a model creates the table with all of them, *)
(* so on a new database most later steps find their column there already.  *)
(***************************************************************************)
UserFields == {"auth_provider", "external_id", "email", "disabled", "service_account",
               "idx_users_username", "idx_users_role"}

InstanceFields == {"last_deployed_values", "longtext", "stopped_at", "expiry_warned_at",
                   "post_deploy_hook_until", "delete_after_clean", "cleaned_at"}

DefinitionFields == {"owner_instance_id", "idx_owner_instance_id"}

DeploymentLogFields == {"values_snapshot", "target_log_id", "chart_versions", "branch",
                        "user_id", "replica_id", "deadline_at"}

ClusterFields == {"max_instances_per_user", "use_in_cluster", "registry_url", "registry_username",
                  "registry_password", "image_pull_secret_name", "allow_port_forward", "allow_exec"}

RefreshTokenFields == {"family_id", "session_started_at", "rotated_at", "idx_family_id"}

NotificationFields == {"trigger_type", "trigger_id", "trigger_name"}

\* Two of its nine columns, which are all treated alike.
containerQuotaFieldColumns == <<"container_cpu_request", "ephemeral_storage_limit">>

QuotaFields == {containerQuotaFieldColumns[i] : i \in DOMAIN containerQuotaFieldColumns}

ModelFields(t) ==
  CASE t = "users"                    -> UserFields
    [] t = "stack_instances"          -> InstanceFields
    [] t = "stack_definitions"        -> DefinitionFields
    [] t = "deployment_logs"          -> DeploymentLogFields
    [] t = "clusters"                 -> ClusterFields
    [] t = "refresh_tokens"           -> RefreshTokenFields
    [] t = "notifications"            -> NotificationFields
    [] t \in {"resource_quota_configs", "instance_quota_overrides"} -> QuotaFields
    [] t \in {"chart_configs", "template_chart_configs"} -> {"build_pipeline_id"}
    [] t = "items"                    -> {"version"}
    [] t = "audit_logs"               -> {"entity_id 63"}
    [] t = "notification_preferences" -> {"channel"}
    [] t = "chart_branch_overrides"   -> {"idx_instance_chart"}
    [] t = "value_overrides"          -> {"idx_override_instance_chart"}
    [] t = "user_favorites"           -> {"idx_user_favorites_unique"}
    [] OTHER                          -> {}

Model(t) == {Tab(t)} \cup {<<t, f>> : f \in ModelFields(t)}

(***************************************************************************)
(* Steps and blocks.  A block runs its steps one after the other when all  *)
(* of "when" exists and none of "unless" does: the guards the code checks  *)
(* before the statements.  "auto" is GORM's AutoMigrate, "add" a CREATE or *)
(* ADD that fails on an object that exists, "alter" a MODIFY that does     *)
(* not, "drop" a DROP, "fill" a data statement that can run again.         *)
(***************************************************************************)
Block(when, unless, steps) == [when |-> when, unless |-> unless, steps |-> steps]
Step(op, o) == [op |-> op, of |-> o]

\* AutoMigrate; "then" is what the model of that time had of ModelFields.
Auto(t, then) == [when |-> {}, unless |-> {}, steps |-> << [op |-> "auto", of |-> Tab(t), then |-> then] >>]
Add(t, c) == Block({}, {<<t, c>>}, <<Step("add", <<t, c>>)>>)
AddIfTable(t, c) == Block({Tab(t)}, {<<t, c>>}, <<Step("add", <<t, c>>)>>)
Create(t, indexes) ==
  Block({}, {Tab(t)}, <<Step("add", Tab(t))>> \o [i \in DOMAIN indexes |-> Step("add", <<t, indexes[i]>>)])
Alter(t, c) == Block({Tab(t)}, {}, <<Step("alter", <<t, c>>)>>)
DropPresent(t, c) == Block({<<t, c>>}, {}, <<Step("drop", <<t, c>>)>>)
Fill(t, c) == Block({Tab(t)}, {}, <<Step("fill", <<t, c>>)>>)

Each(f(_, _), t, names) == [i \in DOMAIN names |-> f(t, names[i])]
EachPair(f(_, _), pairs) == [i \in DOMAIN pairs |-> f(pairs[i][1], pairs[i][2])]

\* Down: what it drops (a table goes with its columns and indexes), what it
\* restores, and the drops without a guard, whose error it returns.
Down(drops, restores, musts) == [drops |-> drops, restores |-> restores, musts |-> musts]
Drops(objects) == Down(objects, {}, {})
NoDown == Drops({})
DropTables(ts) == Drops({Tab(t) : t \in ts})
Of(t, names) == {<<t, names[i]>> : i \in DOMAIN names}
InSet(seq) == {seq[i] : i \in DOMAIN seq}
Migration(up, down) == [up |-> up, down |-> down]
-----------------------------------------------------------------------------
baseMigrations ==   \* 1 to 5
  << Migration(<<Auto("users", {}), Auto("items", {"version"})>>, DropTables({"users", "items"})),
     Migration(<<Add("items", "idx_items_name_price"), Add("users", "idx_users_username")>>,
               Down({<<"items", "idx_items_name_price">>, <<"users", "idx_users_username">>}, {},
                    {<<"items", "idx_items_name_price">>, <<"users", "idx_users_username">>})),
     Migration(<<Auto("items", {}), Fill("items", "version 1"), Alter("items", "default 1")>>,
               Drops({<<"items", "default 1">>})),
     Migration(<<Auto("notifications", {"idx_notifications_is_read"}), Auto("notification_preferences", {})>>,
               DropTables({"notifications", "notification_preferences"})),
     Migration(<<Auto("resource_quota_configs", {}), AddIfTable("clusters", "max_instances_per_user")>>,
               Drops({Tab("resource_quota_configs"), <<"clusters", "max_instances_per_user">>})) >>

oidcMigrations ==   \* 6 to 8
  << Migration(<<Auto("template_versions", {})>>, DropTables({"template_versions"})),
     Migration(<<Auto("instance_quota_overrides", {})>>, DropTables({"instance_quota_overrides"})),
     Migration(Each(Add, "users", <<"auth_provider", "external_id", "email">>)
                 \o <<Fill("users", "local"), Fill("users", "null external_id"), Add("users", "idx_external_id")>>,
               Drops(Of("users", <<"idx_external_id", "email", "external_id", "auth_provider">>))) >>

TableMigration(ts) == Migration([i \in DOMAIN ts |-> Auto(ts[i], {})], DropTables(InSet(ts)))

tableMigrations ==   \* 9 to 18
  << TableMigration(<<"clusters">>), TableMigration(<<"stack_definitions", "stack_templates">>),
     TableMigration(<<"stack_instances">>), TableMigration(<<"chart_configs", "template_chart_configs">>),
     TableMigration(<<"value_overrides", "chart_branch_overrides">>), TableMigration(<<"deployment_logs">>),
     TableMigration(<<"audit_logs">>), TableMigration(<<"api_keys">>), TableMigration(<<"shared_values">>),
     TableMigration(<<"cleanup_policies">>) >>

domainIndexes ==
  << <<"stack_definitions", "owner_id">>, <<"stack_templates", "owner_id">>, <<"stack_templates", "is_published">>,
     <<"stack_instances", "owner_id">>, <<"stack_instances", "status">>, <<"stack_instances", "cluster_id">>,
     <<"stack_instances", "definition_id">>, <<"chart_configs", "definition_id">>,
     <<"template_chart_configs", "template_id">>, <<"value_overrides", "instance_id">>,
     <<"chart_branch_overrides", "instance_id">>, <<"deployment_logs", "instance_id">>,
     <<"audit_logs", "user_id">>, <<"audit_logs", "entity">>, <<"audit_logs", "timestamp">>,
     <<"api_keys", "user_id">>, <<"api_keys", "prefix">>, <<"shared_values", "cluster_id">>,
     <<"user_favorites", "user_id">>, <<"user_favorites", "entity">> >>

IndexMigration(indexes) == Migration(EachPair(Add, indexes), Drops(InSet(indexes)))

domainIndexMigrations ==   \* 19 and 20
  << TableMigration(<<"user_favorites">>), IndexMigration(domainIndexes) >>

coveringIndexes ==
  << <<"stack_instances", "created_at">>, <<"stack_instances", "status_created">>,
     <<"stack_definitions", "created_at">>, <<"deployment_logs", "instance_action_started">>,
     <<"deployment_logs", "instance_started_completed">>, <<"audit_logs", "action_timestamp">>,
     <<"stack_templates", "created_at">>, <<"notifications", "user_read_created">> >>

compositeIndexes == <<"status_expires", "namespace", "cluster_owner", "def_status">>

coveringIndexMigrations ==   \* 21 to 23
  << IndexMigration(coveringIndexes),
     IndexMigration(<< <<"chart_branch_overrides", "idx_instance_chart">> >>),
     Migration(Each(Add, "stack_instances", compositeIndexes)
                 \o <<DropPresent("stack_instances", "status"), DropPresent("deployment_logs", "instance_id")>>,
               Down(Of("stack_instances", compositeIndexes),
                    {<<"stack_instances", "status">>, <<"deployment_logs", "instance_id">>}, {})) >>

MustDrop(t, c) == Down({<<t, c>>}, {}, {<<t, c>>})
ColumnMigration(t, names) == Migration(Each(Add, t, names), Drops(Of(t, names)))

uniqueIndexMigrations ==   \* 24 to 30
  << IndexMigration(<< <<"value_overrides", "idx_override_instance_chart">> >>),
     Migration(<<Add("user_favorites", "idx_user_favorites_unique")>>,
               MustDrop("user_favorites", "idx_user_favorites_unique")),
     Migration(<<Add("deployment_logs", "action_started")>>, MustDrop("deployment_logs", "action_started")),
     ColumnMigration("stack_instances", <<"last_deployed_values">>),
     Migration(<<Block({<<"stack_instances", "last_deployed_values">>}, {<<"stack_instances", "longtext">>},
                       <<Step("alter", <<"stack_instances", "longtext">>)>>)>>,
               Drops({<<"stack_instances", "longtext">>})),
     ColumnMigration("clusters", <<"use_in_cluster">>),
     TableMigration(<<"refresh_tokens">>) >>

deployLogMigrations ==   \* 31 to 36
  << Migration(<<Auto("chart_configs", {"build_pipeline_id"}), Auto("template_chart_configs", {"build_pipeline_id"})>>,
               Drops({<<"chart_configs", "build_pipeline_id">>, <<"template_chart_configs", "build_pipeline_id">>})),
     Migration(<<Auto("deployment_logs", {"values_snapshot", "target_log_id"})>>,
               Drops(Of("deployment_logs", <<"values_snapshot", "target_log_id">>))),
     IndexMigration(<< <<"stack_instances", "name">> >>),
     ColumnMigration("clusters", <<"registry_url", "registry_username", "registry_password",
                                   "image_pull_secret_name">>),
     ColumnMigration("notification_preferences", <<"channel">>),
     IndexMigration(<< <<"deployment_logs", "started_at">> >>) >>

\* 37 to 40.  The guard of 39 covers the column and the data statement after
\* it, the guards of 40 a table and the indexes after it.
accountMigrations ==
  << Migration(<<Block({}, {}, <<Step("alter", Tab("session_entries"))>>),
                 Add("session_entries", "expires_at")>>, DropTables({"session_entries"})),
     ColumnMigration("users", <<"disabled">>),
     Migration(<<Block({}, {<<"users", "service_account">>},
                       <<Step("add", <<"users", "service_account">>), Step("fill", <<"users", "local admins">>)>>)>>,
               Drops({<<"users", "service_account">>})),
     Migration(<<Create("notification_channels", <<>>),
                 Create("notification_channel_subscriptions", <<"event_type">>),
                 Create("notification_delivery_logs", <<"channel_id", "created_at">>)>>,
               DropTables({"notification_channels", "notification_channel_subscriptions",
                           "notification_delivery_logs"})) >>

refreshTokenSessionFamilyMigration ==
  Migration(Each(Add, "refresh_tokens", <<"family_id", "session_started_at", "rotated_at", "idx_family_id">>)
              \o <<Fill("refresh_tokens", "own family"), Fill("refresh_tokens", "session start")>>,
            Drops(Of("refresh_tokens", <<"idx_family_id", "rotated_at", "session_started_at", "family_id">>)))

removeEmptyValueOverridesMigration == Migration(<<Fill("value_overrides", "no empty rows")>>, NoDown)

\* The blocks guarded by HasTable of two tables keep both in "when".
stackLifecycleColumnsMigration ==
  Migration(<<AddIfTable("stack_instances", "stopped_at"), AddIfTable("stack_definitions", "owner_instance_id"),
              AddIfTable("stack_definitions", "idx_owner_instance_id"),
              AddIfTable("deployment_logs", "chart_versions"), AddIfTable("deployment_logs", "branch"),
              Block({Tab("stack_instances"), Tab("deployment_logs")}, {},
                    <<Step("fill", <<"stack_instances", "stopped_at of stop logs">>)>>),
              Fill("stack_instances", "stopped_at of updated_at")>>,
            Drops(Of("deployment_logs", <<"branch", "chart_versions">>)
                  \cup Of("stack_definitions", <<"idx_owner_instance_id", "owner_instance_id">>)
                  \cup {<<"stack_instances", "stopped_at">>}))

\* The snapshots that releaseTemplateWorkingCopies inserts: the one effect of
\* a migration that counts when it happens twice.
releaseTemplateWorkingCopies ==
  Block({Tab("stack_templates"), Tab("template_versions"), Tab("template_chart_configs")}, {},
        <<Step("fill", <<"template_versions", "releases">>)>>)

backfillPublishedTemplateSnapshotsMigration == Migration(<<releaseTemplateWorkingCopies>>, NoDown)

ColumnIfTable(t, names) == Migration(Each(AddIfTable, t, names), Drops(Of(t, names)))

expiryWarnedAtMigration == ColumnIfTable("stack_instances", <<"expiry_warned_at">>)

wsEventsMigration == TableMigration(<<"ws_events">>)

auditEntityTypesMigration ==
  Migration(<<Alter("audit_logs", "entity_id 63"), Fill("audit_logs", "singular entity types")>>, NoDown)

definitionOwnerNameIndexMigration == ColumnIfTable("stack_definitions", <<"owner_name">>)

backfillDeployLogUsers ==
  Block({Tab("deployment_logs"), Tab("stack_instances")}, {}, <<Step("fill", <<"deployment_logs", "owners">>)>>)


deployLogUserIDMigration ==
  Migration(Each(AddIfTable, "deployment_logs", <<"user_id", "user_action">>) \o <<backfillDeployLogUsers>>,
            Drops(Of("deployment_logs", <<"user_action", "user_id">>)))

userRoleIndexMigration == ColumnIfTable("users", <<"idx_users_role">>)

postDeployHookUntilMigration == ColumnIfTable("stack_instances", <<"post_deploy_hook_until">>)

notificationChannelFiltersMigration == ColumnIfTable("notification_channels", <<"filters">>)

instanceFollowersMigration == TableMigration(<<"instance_followers">>)

deployLogReplicaIDMigration == ColumnIfTable("deployment_logs", <<"replica_id", "deadline_at", "status_started">>)

replicaHeartbeatsMigration == TableMigration(<<"replica_heartbeats">>)

unknownPreferenceTypesMigration == Migration(<<Fill("notification_preferences", "known types")>>, NoDown)

deleteAfterCleanMigration == ColumnIfTable("stack_instances", <<"delete_after_clean">>)

containerQuotaFieldsMigration ==
  Migration(Each(AddIfTable, "resource_quota_configs", containerQuotaFieldColumns)
              \o Each(AddIfTable, "instance_quota_overrides", containerQuotaFieldColumns),
            Drops(Of("resource_quota_configs", containerQuotaFieldColumns)
                  \cup Of("instance_quota_overrides", containerQuotaFieldColumns)))

cleanedAtMigration ==
  Migration(<<AddIfTable("stack_instances", "cleaned_at"),
              Block({Tab("stack_instances"), Tab("deployment_logs")}, {},
                    <<Step("fill", <<"stack_instances", "cleaned_at of clean logs">>)>>)>>,
            Drops({<<"stack_instances", "cleaned_at">>}))

notificationChannelFormatMigration ==
  Migration(<<AddIfTable("notification_channels", "format"), Fill("notification_channels", "generic format")>>,
            Drops({<<"notification_channels", "format">>}))

actionRunsMigration == TableMigration(<<"action_runs">>)

dropNotificationIsReadIndexMigration ==
  Migration(<<DropPresent("notifications", "idx_notifications_is_read")>>,
            Down({}, {<<"notifications", "idx_notifications_is_read">>}, {}))

notificationListIndexMigration == ColumnIfTable("notifications", <<"user_created">>)

notificationTriggerMigration == ColumnIfTable("notifications", <<"trigger_type", "trigger_id", "trigger_name">>)

\* Down refuses when a stored URL is too long; such URLs are not modelled.
notificationChannelURLMigration ==
  Migration(<<Block({Tab("notification_channels")}, {<<"notification_channels", "webhook_url text">>},
                    <<Step("alter", <<"notification_channels", "webhook_url text">>)>>)>>,
            Drops({<<"notification_channels", "webhook_url text">>}))

clusterAllowPortForwardMigration == ColumnIfTable("clusters", <<"allow_port_forward">>)

clusterAllowExecMigration == ColumnIfTable("clusters", <<"allow_exec">>)

\* The order in which AutoMigrate registers them.
AllMigrations ==
  baseMigrations \o oidcMigrations \o tableMigrations \o domainIndexMigrations \o coveringIndexMigrations
    \o uniqueIndexMigrations \o deployLogMigrations \o accountMigrations
    \o << refreshTokenSessionFamilyMigration, removeEmptyValueOverridesMigration, stackLifecycleColumnsMigration,
          backfillPublishedTemplateSnapshotsMigration, expiryWarnedAtMigration, wsEventsMigration,
          auditEntityTypesMigration, definitionOwnerNameIndexMigration, deployLogUserIDMigration,
          userRoleIndexMigration, postDeployHookUntilMigration, notificationChannelFiltersMigration,
          instanceFollowersMigration, deployLogReplicaIDMigration, replicaHeartbeatsMigration,
          unknownPreferenceTypesMigration, deleteAfterCleanMigration, containerQuotaFieldsMigration,
          cleanedAtMigration, notificationChannelFormatMigration, actionRunsMigration,
          dropNotificationIsReadIndexMigration, notificationListIndexMigration, notificationTriggerMigration,
          notificationChannelURLMigration, clusterAllowPortForwardMigration, clusterAllowExecMigration >>

----------------------------------------------------------------------------
CONSTANTS
  MigReplicas,   \* the replicas that start
  MigStarts,     \* what may be started: version of the database, replicas, calls of
                 \* MigrateDown, crashes in the middle of a start, version queries that fail
  Judged         \* the migrations RecordedMeansDone is about

N == Len(AllMigrations)

ASSUME MigrationsAssumption ==
  /\ MigStarts # {}
  /\ \A s \in MigStarts : s.version \in 0..N /\ s.replicas \subseteq MigReplicas
                           /\ s.rollbacks \in Nat /\ s.crashes \in Nat /\ s.failures \in Nat

VARIABLES
  schema,    \* the objects of the database and the effects of data statements
  versions,  \* schema_versions: the recorded migrations
  removed,   \* the soft-deleted rows of schema_versions
  boot,      \* the progress of the start of each replica
  releases,  \* how often migration 44 inserted its snapshots
  history    \* where the database came from; crashes, rollbacks and failed queries to come

migVars == <<schema, versions, removed, boot, releases, history>>

Ops(op) == [m \in 1..N |-> {s \in UNION {InSet(AllMigrations[m].up[b].steps) : b \in DOMAIN AllMigrations[m].up} : s.op = op}]
OpTable == [op \in {"auto", "add", "alter", "drop", "fill"} |-> Ops(op)]
Objects(op, m) == {s.of : s \in OpTable[op][m]}

\* What migration m adds when it was written, and what it removes.
Adds(m) ==
  UNION {Objects(op, m) : op \in {"add", "alter", "auto"}}
    \cup UNION {{<<s.of[1], f>> : f \in s.then} : s \in OpTable["auto"][m]}

Made(m) == Adds(m) \cup Objects("fill", m)

\* The schema a database at version k has when older releases made it.
Old(k) ==
  {o \in UNION {Made(m) : m \in 1..k} :
     \E m \in 1..k : o \in Made(m) /\ \A later \in (m + 1)..k : o \notin Objects("drop", later)}

NotBooting == [mode |-> "off", at |-> 0, block |-> 0, step |-> 0, target |-> {}, tx |-> FALSE, held |-> {}]

MigInit ==
  \E start \in MigStarts :
    /\ schema = Old(start.version)
    /\ versions = 1..start.version
    /\ removed = {}
    /\ boot = [r \in MigReplicas |-> NotBooting]
    /\ releases = 0
    /\ history = [start |-> start, crashes |-> start.crashes, rollbacks |-> start.rollbacks, failures |-> start.failures]
-----------------------------------------------------------------------------
Up(r) == AllMigrations[boot[r].at].up
Now(r) == Up(r)[boot[r].block]

\* NewRepository: connect and call AutoMigrate.
Boot(r) ==
  /\ r \in history.start.replicas
  /\ boot[r].mode = "off"
  /\ boot' = [boot EXCEPT ![r] = [NotBooting EXCEPT !.mode = "lookup", !.at = 1]]
  /\ UNCHANGED <<schema, versions, removed, releases, history>>

\* The loop of MigrateUp over versions with a row.  No row goes away while a
\* replica starts, so the rows in front are passed in one step.
FirstPending(from) == Min((from..(N + 1)) \ versions)

\* A row that is not found starts the migration; any other error of the
\* query is not looked at and the loop goes on with the next version.
Lookup(r) ==
  /\ boot[r].mode = "lookup"
  /\ LET m == FirstPending(boot[r].at)
         go(at, mode) == boot' = [boot EXCEPT ![r] = [NotBooting EXCEPT !.mode = mode, !.at = at, !.block = 1, !.tx = TRUE]]
     IN \/ /\ m > N
           /\ go(m, "up") /\ UNCHANGED history
        \/ /\ m <= N
           /\ go(m, "check") /\ UNCHANGED history
        \/ /\ m <= N /\ history.failures > 0
           /\ go(m + 1, "lookup") /\ history' = [history EXCEPT !.failures = @ - 1]
  /\ UNCHANGED <<schema, versions, removed, releases>>

\* The guards in front of the statements of a block.  AutoMigrate compares
\* the model with the table: it creates the table, or adds one missing
\* column or index after the other.
Missing(t) == IF Tab(t) \in schema
              THEN {CHOOSE o \in Model(t) \ schema : TRUE}
              ELSE Model(t)

\* The data effects of a block that its queries find not done.
Unfilled(b) == {s.of : s \in {x \in InSet(b.steps) : x.op = "fill"}} \ schema

Check(r) ==
  /\ boot[r].mode = "check"
  /\ IF boot[r].block > Len(Up(r))
     THEN boot' = [boot EXCEPT ![r].mode = "record"]
     ELSE LET b == Now(r)
              auto == b.steps[1].op = "auto"
              skip == IF auto
                      THEN Model(b.steps[1].of[1]) \subseteq schema
                      ELSE ~(b.when \subseteq schema /\ b.unless \cap schema = {})
          IN boot' = [boot EXCEPT ![r] =
               IF skip THEN [@ EXCEPT !.block = @ + 1]
               ELSE [@ EXCEPT !.mode = "run", !.step = 1,
                              !.target = IF auto THEN Missing(b.steps[1].of[1]) ELSE Unfilled(b)]]
  /\ UNCHANGED <<schema, versions, removed, releases, history>>

\* The start returns the error and the process ends.  What the transaction
\* still holds is rolled back.
Fails(r) ==
  /\ boot' = [boot EXCEPT ![r] = NotBooting]
  /\ UNCHANGED <<schema, versions, removed, releases, history>>

\* What MySQL makes permanent when it commits the effects "held".
Commit(held) ==
  releases' = IF <<"template_versions", "releases">> \in held THEN Min({2, releases + 1}) ELSE releases

NextStep(b) ==
  IF b.step < Len(AllMigrations[b.at].up[b.block].steps)
  THEN [b EXCEPT !.step = @ + 1]
  ELSE [b EXCEPT !.mode = "check", !.block = @ + 1, !.step = 0, !.target = {}]

\* A DDL statement commits the transaction it runs in; what follows it is
\* not in a transaction.
Ddl(r, new, next) ==
  /\ schema' = new \cup boot[r].held
  /\ Commit(boot[r].held)
  /\ boot' = [boot EXCEPT ![r] = [next EXCEPT !.tx = FALSE, !.held = {}]]
  /\ UNCHANGED <<versions, removed, history>>

TableThere(o) == o[2] = "" \/ Tab(o[1]) \in schema

DataStatement(r, o) ==
  IF boot[r].tx
  THEN /\ boot' = [boot EXCEPT ![r] = NextStep([@ EXCEPT !.held = @ \cup (boot[r].target \cap {o})])]
       /\ UNCHANGED <<schema, versions, removed, releases, history>>
  ELSE /\ schema' = schema \cup {o}
       /\ Commit(boot[r].target)
       /\ boot' = [boot EXCEPT ![r] = NextStep(@)]
       /\ UNCHANGED <<versions, removed, history>>

Statement(r) ==
  /\ boot[r].mode = "run"
  /\ LET s == Now(r).steps[boot[r].step]
     IN \/ /\ s.op = "auto"
           /\ IF boot[r].target \cap schema # {} THEN Fails(r)
              ELSE Ddl(r, schema \cup boot[r].target, [boot[r] EXCEPT !.mode = "check", !.step = 0, !.target = {}])
        \/ /\ s.op = "add"
           /\ IF s.of \in schema \/ ~TableThere(s.of) THEN Fails(r)
              ELSE Ddl(r, schema \cup {s.of}, NextStep(boot[r]))
        \/ /\ s.op = "alter"
           /\ IF ~TableThere(s.of) THEN Fails(r) ELSE Ddl(r, schema \cup {s.of}, NextStep(boot[r]))
        \/ /\ s.op = "drop"
           /\ IF s.of \notin schema THEN Fails(r) ELSE Ddl(r, schema \ {s.of}, NextStep(boot[r]))
        \/ /\ s.op = "fill"
           /\ DataStatement(r, s.of)

\* tx.Create of the version row; the unique index on version also holds the
\* soft-deleted rows.
Record(r) ==
  /\ boot[r].mode = "record"
  /\ IF boot[r].at \in versions \cup removed THEN Fails(r)
     ELSE /\ schema' = schema \cup boot[r].held
          /\ Commit(boot[r].held)
          /\ versions' = versions \cup {boot[r].at}
          /\ boot' = [boot EXCEPT ![r] = [NotBooting EXCEPT !.mode = "lookup", !.at = boot[r].at + 1]]
          /\ UNCHANGED <<removed, history>>

Crash(r) ==
  /\ boot[r].mode \in {"check", "run", "record"}
  /\ history.crashes > 0
  /\ boot' = [boot EXCEPT ![r] = NotBooting]
  /\ history' = [history EXCEPT !.crashes = @ - 1]
  /\ UNCHANGED <<schema, versions, removed, releases>>

\* MigrateDown, called while no replica starts: the last version's Down, then
\* the soft delete of its row.
Gone(drops) == {o \in schema : o \in drops \/ Tab(o[1]) \in drops}

MigrateDown ==
  /\ history.rollbacks > 0
  /\ \A r \in MigReplicas : boot[r].mode = "off"
  /\ versions # {}
  /\ LET m == Max(versions)
         down == AllMigrations[m].down
     IN /\ down.musts \subseteq schema
        /\ schema' = (schema \ Gone(down.drops)) \cup down.restores
        /\ versions' = versions \ {m}
        /\ removed' = removed \cup {m}
  /\ history' = [history EXCEPT !.rollbacks = @ - 1]
  /\ UNCHANGED <<boot, releases>>

MigNext ==
  \/ MigrateDown
  \/ \E r \in MigReplicas : Boot(r) \/ Lookup(r) \/ Check(r) \/ Statement(r) \/ Record(r) \/ Crash(r)

MigSpec == MigInit /\ [][MigNext]_migVars

-----------------------------------------------------------------------------
MigTypeOK ==
  /\ versions \subseteq 1..N /\ removed \subseteq 1..N /\ versions \cap removed = {}
  /\ \A o \in schema : Len(o) = 2
  /\ boot \in [MigReplicas -> [mode : {"off", "lookup", "check", "run", "record", "up"}, at : 0..(N + 1),
                               block : Nat, step : Nat, target : SUBSET schema \cup {boot[r].target : r \in MigReplicas},
                               tx : BOOLEAN, held : {boot[r].held : r \in MigReplicas}]]
  /\ releases \in 0..2

\* A version query failed, and the start passed over its migration.
Skipped == history.failures < history.start.failures

EverDropped == {s.of : s \in UNION {OpTable["drop"][m] : m \in 1..N}}


\* A replica that serves has a database at the last version, unless a failed
\* version query made its start pass over a migration.
ServingMeansMigrated ==
  \A r \in MigReplicas : boot[r].mode = "up" => (versions \cup removed = 1..N \/ Skipped)

\* Migration 44 inserts its snapshots once, however many replicas ran it.
ReleasedOnce == releases <= 1

\* MigrateDown takes back what Up of the same migration added: of its objects
\* only those stay that a migration still recorded adds too, or that Down
\* leaves on purpose (the wider column of migration 47).
DownUndoesUp ==
  [][\A m \in removed' \ removed :
       AllMigrations[m].down # NoDown =>
         Adds(m) \cap schema' \subseteq UNION {Adds(v) : v \in versions'}]_migVars

\* Every replica that starts serves (when nothing was rolled back).
AllServe == removed # {} \/ \A r \in history.start.replicas : boot[r].mode = "up"

=============================================================================
