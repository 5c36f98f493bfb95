------------------------------ MODULE HistoryPages ------------------------------
(***************************************************************************)
(* The history lists and what a client makes of their pages while rows are *)
(* added, finished and removed: deploy logs, action runs and audit entries *)
(* (database/deployment_log_repository.go, action_run_repository.go,       *)
(* audit_log_repository.go and the handlers over them), the highlights of  *)
(* the deploy history, and the counts of the analytics.  The table is the  *)
(* one that the client of the run lists.                                   *)
(***************************************************************************)
EXTENDS Integers, Sequences, FiniteSets, SequencesExt

CONSTANTS
    HistoryStarts,      \* sets of [rows, list]: rows at the start, and the list read
    PageLimit,          \* rows of a page
    MaxHistoryRows,     \* bound: ids of rows
    MaxHistoryChanges,  \* bound: changes of the table
    CountDays           \* 90 days: age of the logs that the summaries count

ASSUME HistoryAssumption == {PageLimit, MaxHistoryRows, MaxHistoryChanges, CountDays} \subseteq Nat

VARIABLES
    hist,       \* rows: [id, at, inst, action, status, target]
    hNow,       \* time
    hChanges,   \* changes of the table
    pager,      \* the client that pages through the list
    marks       \* the request that reads the highlights

historyVars == <<hist, hNow, hChanges, pager, marks>>

Statuses == {"running", "success", "error", "partial"}

NoLog == [id |-> 0, at |-> 0, inst |-> "", action |-> "", status |-> "", target |-> 0]

NewPager(list) == [list |-> list, pc |-> "first", total |-> 0, offset |-> 0, after |-> NoLog,
                   got |-> <<>>, stay |-> {}, raced |-> FALSE]

NewMarks == [pc |-> "running", running |-> NoLog, good |-> NoLog, current |-> NoLog,
             failure |-> NoLog, during |-> {}]

HistoryInit ==
    /\ hNow = 1 /\ hChanges = 0
    /\ marks = NewMarks
    /\ \E s \in HistoryStarts : hist = s.rows /\ pager = NewPager(s.list)

--------------------------------------------------------------------------------
(***************************************************************************)
(* The queries.                                                            *)
(***************************************************************************)

\* ORDER BY started_at DESC, id DESC.
RowBefore(a, b) == a.at > b.at \/ (a.at = b.at /\ a.id > b.id)

NewestFirst(rows) == SetToSortSeq(rows, RowBefore)

Limited(s, n) == SubSeq(s, 1, IF Len(s) < n THEN Len(s) ELSE n)

\* The rows that a list selects; the filtered list has a status filter.
Selected(rows, list) ==
    {r \in rows : r.inst = "i" /\ (list = "filtered" => r.status \in {"success", "running"})}

\* The keyset condition of a cursor (encode/decodeDeployLogCursor and
\* encode/decodeAuditCursor hold the time and the id).
KeysetAfter(rows, cursor) ==
    {r \in rows : r.at < cursor.at \/ (r.at = cursor.at /\ r.id < cursor.id)}

\* A cursor page: limit+1 rows tell whether there is a next page.
CursorPage(rows, cursor) ==
    LET found == NewestFirst(IF cursor = NoLog THEN rows ELSE KeysetAfter(rows, cursor))
    IN  [data |-> Limited(found, PageLimit),
         next |-> IF Len(found) > PageLimit THEN found[PageLimit] ELSE NoLog]

\* An offset page; with a total, the deploy log list also gives a cursor.
OffsetPage(rows, list, offset, total) ==
    LET found == NewestFirst(rows)
        data == Limited(SubSeq(found, offset + 1, Len(found)), PageLimit)
    IN  [data |-> data,
         next |-> IF list # "audit" /\ data # <<>> /\ offset + Len(data) < total
                  THEN Last(data) ELSE NoLog]

--------------------------------------------------------------------------------
(***************************************************************************)
(* The client: the first page, and the next ones until the list says that  *)
(* there is none.                                                          *)
(***************************************************************************)

\* GetDeployLog without a cursor and ListAuditLogs with a filter count first.
CountRows ==
    /\ pager.list \notin {"runs", "highlights"} /\ pager.pc \in {"first", "offset"}
    /\ pager' = [pager EXCEPT !.pc = "select", !.total = Cardinality(Selected(hist, pager.list)),
                              !.stay = IF pager.pc = "first" THEN Selected(hist, pager.list)
                                       ELSE @]
    /\ UNCHANGED <<hist, hNow, hChanges, marks>>

\* The next page by cursor (deploy logs, action runs), or by offset while the
\* rows are fewer than the total (the audit log page).
SelectPage ==
    LET page == OffsetPage(Selected(hist, pager.list), pager.list, pager.offset, pager.total)
        shown == pager.offset + Len(page.data)
    IN  /\ pager.pc = "select"
        /\ pager' = [pager EXCEPT !.got = @ \o page.data, !.after = page.next,
                                  !.offset = shown,
                                  !.pc = IF pager.list = "audit"
                                         THEN IF page.data # <<>> /\ shown < pager.total
                                              THEN "offset" ELSE "done"
                                         ELSE IF page.next = NoLog THEN "done" ELSE "cursor"]
        /\ UNCHANGED <<hist, hNow, hChanges, marks>>

\* ListActionRuns, and the deploy log list with a cursor.
FollowCursor ==
    /\ \/ pager.pc = "cursor"
       \/ pager.pc = "first" /\ pager.list = "runs"
    /\ LET page == CursorPage(Selected(hist, pager.list), pager.after)
       IN  pager' = [pager EXCEPT !.got = @ \o page.data, !.after = page.next,
                                  !.stay = IF pager.pc = "first"
                                           THEN Selected(hist, pager.list) ELSE @,
                                  !.pc = IF page.next = NoLog THEN "done" ELSE "cursor"]
    /\ UNCHANGED <<hist, hNow, hChanges, marks>>

--------------------------------------------------------------------------------
(***************************************************************************)
(* HistoryHighlights: one query after the other.                           *)
(***************************************************************************)

NewestOf(rows) == IF rows = {} THEN NoLog ELSE NewestFirst(rows)[1]

Good(r) == r.action \in {"deploy", "rollback"} /\ r.status \in {"success", "partial"}

Own == {r \in hist : r.inst = "i"}

HighlightRunning ==
    /\ marks.pc = "running" /\ pager.list = "highlights"
    /\ marks' = [marks EXCEPT !.pc = "good", !.during = {hist},
                              !.running = NewestOf({r \in Own : r.status = "running"})]
    /\ UNCHANGED <<hist, hNow, hChanges, pager>>

\* The newest good deploy or rollback; a rollback needs its target.
HighlightGood ==
    LET good == NewestOf({r \in Own : Good(r)}) IN
    /\ marks.pc = "good"
    /\ marks' = [marks EXCEPT !.good = good,
                              !.current = IF good.action = "deploy" THEN good ELSE NoLog,
                              !.pc = IF good.action = "rollback" /\ good.target # 0
                                     THEN "target" ELSE "failure"]
    /\ UNCHANGED <<hist, hNow, hChanges, pager>>

HighlightTarget ==
    /\ marks.pc = "target"
    /\ marks' = [marks EXCEPT !.pc = "failure",
                              !.current = NewestOf({r \in Own : r.id = marks.good.target})]
    /\ UNCHANGED <<hist, hNow, hChanges, pager>>

FailureAfter(rows, good) ==
    NewestOf({r \in rows : r.status = "error" /\ (good = NoLog \/ r.at > good.at)})

HighlightFailure ==
    /\ marks.pc = "failure"
    /\ marks' = [marks EXCEPT !.pc = "done", !.failure = FailureAfter(Own, marks.good)]
    /\ UNCHANGED <<hist, hNow, hChanges, pager>>

--------------------------------------------------------------------------------
(***************************************************************************)
(* The rows.                                                               *)
(***************************************************************************)

\* A change of the table, while somebody reads it: the readers remember it.
HistoryBecomes(rows) ==
    /\ pager.pc \in {"select", "offset", "cursor"} \/ marks.pc \in {"good", "target", "failure"}
    /\ hChanges < MaxHistoryChanges /\ hChanges' = hChanges + 1
    /\ hist' = rows
    /\ marks' = IF marks.pc \in {"good", "target", "failure"}
                THEN [marks EXCEPT !.during = @ \cup {rows}] ELSE marks
    /\ pager' = IF pager.pc \in {"first", "done"} THEN pager
                ELSE [pager EXCEPT !.stay = {r \in @ : \E q \in Selected(rows, pager.list) : q.id = r.id},
                                   !.raced = @ \/ pager.pc = "select"]

\* Create: the clock of the writer, and a random id.
CreateRow ==
    /\ \A r \in hist : r.inst = "i" /\ pager.list # "audit" => r.status # "running"
    /\ \E id \in 1..MaxHistoryRows, action \in {"deploy", "rollback"}, target \in 0..2 :
          /\ \A r \in hist : r.id # id
          /\ (target = 0) = (action = "deploy")
          /\ HistoryBecomes(hist \cup {[id |-> id, at |-> hNow, inst |-> "i", action |-> action,
                                 status |-> "running", target |-> target]})
    /\ UNCHANGED hNow

\* The end of an operation, later than its start.
FinishRow ==
    /\ pager.list # "audit"
    /\ \E r \in hist, status \in Statuses \ {"running"} :
          /\ r.status = "running"
          /\ HistoryBecomes((hist \ {r}) \cup {[r EXCEPT !.status = status]})
    /\ hNow' = hNow + 1

\* The retention removes old rows, not those of the audit log.
RemoveRow ==
    /\ pager.list # "audit"
    /\ \E r \in hist :
          /\ r.status # "running" /\ \E q \in hist : q.at > r.at /\ Good(q)
          /\ HistoryBecomes(hist \ {r})
    /\ UNCHANGED hNow

HistoryNext ==
    \/ CountRows \/ SelectPage \/ FollowCursor
    \/ HighlightRunning \/ HighlightGood \/ HighlightTarget \/ HighlightFailure
    \/ CreateRow \/ FinishRow \/ RemoveRow

HistorySpec == HistoryInit /\ [][HistoryNext]_historyVars

--------------------------------------------------------------------------------
(***************************************************************************)
(* The counts.                                                             *)
(***************************************************************************)

Recent(rows) == {r \in rows : r.at + CountDays >= hNow}

\* summarizeBatchChunk, of one instance.
SummarizeBatch(inst) ==
    LET logs == {r \in Recent(hist) : r.inst = inst /\ r.action = "deploy"}
    IN  [deploys |-> Cardinality(logs),
         successes |-> Cardinality({r \in logs : r.status = "success"}),
         errors |-> Cardinality({r \in logs : r.status \in {"error", "partial"}})]

CountByAction(action) == Cardinality({r \in Recent(hist) : r.action = action})

--------------------------------------------------------------------------------
(***************************************************************************)
(* Properties.                                                             *)
(***************************************************************************)

HistoryTypeOK ==
    /\ \A r \in hist : r.id \in 1..MaxHistoryRows /\ r.status \in Statuses
    /\ pager.pc \in {"first", "select", "offset", "cursor", "done"}
    /\ marks.pc \in {"running", "good", "target", "failure", "done"}

Numbers(s) == {s[i].id : i \in DOMAIN s}

\* A client that has read all pages has every row that was in the list from its
\* first page to its last, whatever was added or removed meanwhile.  Only a
\* change between the count and the select of one page can end the list early.
PagesMissNothing ==
    pager.pc = "done" /\ ~pager.raced => {r.id : r \in pager.stay} \subseteq Numbers(pager.got)

\* Pages by cursor never show a row twice, and stay in order.
CursorPagesRepeatNothing ==
    pager.list # "audit" =>
        \A i, j \in DOMAIN pager.got : i < j => RowBefore(pager.got[i], pager.got[j])

TrueFailure(rows, f) ==
    LET own == {r \in rows : r.inst = "i"}
        failures == {r \in own : r.status = "error"
                                   /\ \A g \in own : Good(g) => r.at > g.at}
    IN  IF f = NoLog THEN failures = {}
        ELSE f \in failures /\ \A r \in failures : r = f \/ RowBefore(f, r)

\* The failure that the history view puts first is a failure that nothing good
\* followed, at some moment of the request ("LatestFailure is the newest error
\* log that started after the newest successful or partial deploy or rollback").
FailureWasLatest ==
    marks.pc = "done" => \E rows \in marks.during : TrueFailure(rows, marks.failure)

\* The overview counts what the summaries of all instances count ("matching the
\* SummarizeByInstance cutoff"), and each deploy that ended in them is either a
\* success or an error.
CountsAgree ==
    LET insts == {r.inst : r \in hist}
        total == FoldSet(LAMBDA i, n : SummarizeBatch(i).deploys + n, 0, insts)
    IN  /\ CountByAction("deploy") = total
        /\ \A i \in insts :
              LET s == SummarizeBatch(i) IN
              s.successes + s.errors =
                  s.deploys - Cardinality({r \in Recent(hist) : r.inst = i /\ r.action = "deploy"
                                                                  /\ r.status = "running"})

\* "Supports cursor-based pagination for efficient large dataset traversal"
\* (ListAuditLogs): a page of the audit log that is not the last one has the
\* cursor of the next.
AuditPagesHaveCursor ==
    pager.list = "audit" /\ pager.pc = "offset" => pager.after # NoLog
================================================================================
