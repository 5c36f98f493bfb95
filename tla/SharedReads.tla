----------------------------- MODULE SharedReads -----------------------------
(* Reads that concurrent requests share (singleflight): the status and the   *)
(* pods of an instance (stack_instances.go, with the cache of the watcher),  *)
(* the exec hints that are added to them (instance_exec_hints.go) and the    *)
(* dashboard with its cache (dashboard.go).  One flight per key runs         *)
(* detached from its callers; every caller that comes while it runs gets its *)
(* result, a pointer to one shared object.  What an object holds is the time *)
(* at which its oldest part was read, and whether it has the exec fields.    *)
EXTENDS Naturals, Sequences, FiniteSets

CONSTANTS
    Readers,
    ReaderIs,     \* [kind : "status", "pods" or "dashboard"; hints, privileged : BOOLEAN]
    ReaderGroups, \* the readers of one behaviour and the time at which it starts: <<set, time>>
    FlightBound,  \* the longest time of a flight
    HintWait,     \* how long a caller waits for the hints
    DashboardTTL,
    MaxReadTime,
    ReadFaults    \* subset of {"read", "leave"}

ASSUME SharedReadsAssumption ==
    /\ \A r \in Readers : ReaderIs[r].kind \in {"status", "pods", "dashboard"}
    /\ FlightBound \in Nat /\ HintWait \in Nat /\ DashboardTTL \in Nat /\ MaxReadTime \in Nat

Nothing == 0

VARIABLES
    clk,
    heap,         \* the objects: [read : time, of : the flight key, hints : BOOLEAN]
    seen,         \* the watcher's cached status: an object or Nothing
    dash,         \* key -> [obj, stored] of the dashboard cache
    flight,       \* key -> [runs, owner, members, since, read]
    reader        \* [at; since and asked : the times of the call and of its last join; key : the flight;
                  \*  obj : its object; box and value : what the flight gave; lists : when the hints were read]

readVars == <<clk, heap, seen, dash, flight, reader>>

FlightKeys == {"status", "pods", "hints", "privileged", "basic"}
NoFlight == [runs |-> FALSE, owner |-> "nobody", members |-> {}, since |-> 0, read |-> Nothing]
NewReader == [at |-> "idle", since |-> 0, asked |-> 0, key |-> "status", obj |-> Nothing, box |-> "empty", value |-> Nothing,
              lists |-> Nothing]

SharedInit ==
    /\ heap = <<>> /\ seen = Nothing
    /\ dash = [k \in {"privileged", "basic"} |-> [obj |-> Nothing, stored |-> 0]]
    /\ flight = [k \in FlightKeys |-> NoFlight]
    /\ \E g \in ReaderGroups :
          clk = g[2] /\ reader = [r \in Readers |-> IF r \in g[1] THEN NewReader ELSE [NewReader EXCEPT !.at = "done"]]

----------------------------------------------------------------------------
(* singleflight.                                                             *)

\* DoChan and Do: join the running flight of the key, or start one.
Join(r, k) ==
    flight' = [flight EXCEPT ![k] =
        IF @.runs THEN [@ EXCEPT !.members = @ \cup {r}]
        ELSE [runs |-> TRUE, owner |-> r, members |-> {r}, since |-> clk, read |-> Nothing]]

Waits(r, k, at) ==
    [reader[r] EXCEPT !.at = at, !.key = k, !.box = "empty", !.asked = clk, !.since = IF at = "hints" THEN @ ELSE clk]

Fresh(entry) == entry.obj # Nothing /\ clk <= entry.stored + DashboardTTL

\* The first step of a flight.  The dashboard looks in its cache again; else the first part is read.
FlightReads(k) ==
    /\ flight[k].runs /\ flight[k].read = Nothing
    /\ flight' = [flight EXCEPT ![k].read =
           IF k \in DOMAIN dash /\ Fresh(dash[k]) THEN heap[dash[k].obj].read ELSE clk]
    /\ UNCHANGED <<clk, heap, seen, dash, reader>>

\* The members get what the flight returned; the next call of the key starts a new flight.
Deliver(k, box, value) ==
    /\ reader' = [r \in Readers |->
           IF r \in flight[k].members /\ reader[r].at \in {"read", "hints"} /\ reader[r].key = k
           THEN [reader[r] EXCEPT !.box = box, !.value = value] ELSE reader[r]]
    /\ flight' = [flight EXCEPT ![k] = NoFlight]

\* The end of a flight: its object, which the dashboard also puts in its cache (buildDashboard).
FlightReturns(k) ==
    /\ flight[k].runs /\ flight[k].read # Nothing
    /\ LET new == [read |-> flight[k].read, of |-> k, hints |-> FALSE] IN
          IF k \in DOMAIN dash /\ Fresh(dash[k]) /\ heap[dash[k].obj].read = flight[k].read
          THEN Deliver(k, "value", dash[k].obj) /\ UNCHANGED <<heap, dash>>
          ELSE /\ heap' = Append(heap, new) /\ Deliver(k, "value", Len(heap) + 1)
               /\ dash' = IF k \in DOMAIN dash THEN [dash EXCEPT ![k] = [obj |-> Len(heap) + 1, stored |-> clk]] ELSE dash
    /\ UNCHANGED <<clk, seen>>

\* A flight fails when a read of it fails or its time is over.  It runs detached: no caller ends it.
MayFailFlight(k) == "read" \in ReadFaults \/ clk = flight[k].since + FlightBound

FlightFails(k) ==
    /\ flight[k].runs /\ flight[k].read # Nothing /\ MayFailFlight(k)
    /\ Deliver(k, "error", clk - flight[k].since)
    /\ UNCHANGED <<clk, heap, seen, dash>>

----------------------------------------------------------------------------
(* The requests.                                                             *)

\* namespaceStatusKey (the pods are read with events), and the key of GetDashboard.
KeyOf(r) ==
    IF ReaderIs[r].kind # "dashboard" THEN ReaderIs[r].kind ELSE IF ReaderIs[r].privileged THEN "privileged" ELSE "basic"

\* What follows a status: the answer, or the exec hints.
AfterObject(s, r, obj) ==
    [s EXCEPT !.obj = obj, !.box = "empty", !.at = IF ReaderIs[r].hints THEN "annotate" ELSE "answer"]

\* GetDashboard: the cache, or a flight.
GetDashboard(r) ==
    /\ ReaderIs[r].kind = "dashboard" /\ reader[r].at = "idle"
    /\ LET k == KeyOf(r) IN
          IF Fresh(dash[k])
          THEN /\ reader' = [reader EXCEPT ![r].since = clk, ![r].at = "answer", ![r].obj = dash[k].obj]
               /\ UNCHANGED flight
          ELSE reader' = [reader EXCEPT ![r] = Waits(r, k, "read")] /\ Join(r, k)
    /\ UNCHANGED <<clk, heap, seen, dash>>

\* GetInstanceStatus: the cached status of the watcher, or a flight.
GetInstanceStatus(r) ==
    /\ ReaderIs[r].kind = "status" /\ reader[r].at = "idle"
    /\ IF seen # Nothing
       THEN reader' = [reader EXCEPT ![r] = AfterObject([reader[r] EXCEPT !.since = clk], r, seen)] /\ UNCHANGED flight
       ELSE reader' = [reader EXCEPT ![r] = Waits(r, KeyOf(r), "read")] /\ Join(r, KeyOf(r))
    /\ UNCHANGED <<clk, heap, seen, dash>>

\* GetInstancePods: always a flight.
GetInstancePods(r) ==
    /\ ReaderIs[r].kind = "pods" /\ reader[r].at = "idle"
    /\ reader' = [reader EXCEPT ![r] = Waits(r, KeyOf(r), "read")] /\ Join(r, KeyOf(r))
    /\ UNCHANGED <<clk, heap, seen, dash>>

\* The result of the shared read.
Receive(r) ==
    /\ reader[r].at = "read" /\ reader[r].box # "empty"
    /\ reader' = [reader EXCEPT ![r] =
           IF reader[r].box = "error" THEN [@ EXCEPT !.at = "error"]
           ELSE IF ReaderIs[r].kind = "dashboard" THEN [@ EXCEPT !.at = "answer", !.obj = reader[r].value]
           ELSE AfterObject(reader[r], r, reader[r].value)]
    /\ UNCHANGED <<clk, heap, seen, dash, flight>>

\* The request of the caller ends while it waits; Do, of the dashboard, waits to the end.
Leave(r) ==
    /\ "leave" \in ReadFaults
    /\ reader[r].at \in {"read", "hints"} /\ ReaderIs[r].kind # "dashboard"
    /\ reader' = [reader EXCEPT ![r].at = "left"]
    /\ UNCHANGED <<clk, heap, seen, dash, flight>>

\* ExecHints, for a caller who may use them: sharedExecHints joins the flight of the instance.
ExecHints(r) ==
    /\ reader[r].at = "annotate"
    /\ reader' = [reader EXCEPT ![r] = Waits(r, "hints", "hints")] /\ Join(r, "hints")
    /\ UNCHANGED <<clk, heap, seen, dash>>

\* withExecHints: the exec fields go into a copy of the status.
Annotate(r, lists) ==
    /\ heap' = Append(heap, [heap[reader[r].obj] EXCEPT !.hints = TRUE])
    /\ reader' = [reader EXCEPT ![r].at = "answer", ![r].obj = Len(heap) + 1, ![r].lists = lists]

\* The hints came, or they failed or the wait is over: then the fields have no lists.
HintsArrive(r) ==
    /\ reader[r].at = "hints"
    /\ \/ reader[r].box = "value" /\ Annotate(r, heap[reader[r].value].read)
       \/ (reader[r].box = "error" \/ clk >= reader[r].asked + HintWait) /\ Annotate(r, Nothing)
    /\ UNCHANGED <<clk, seen, dash, flight>>

\* c.JSON: the object as it is now.
Respond(r) ==
    /\ reader[r].at = "answer"
    /\ reader' = [reader EXCEPT ![r].at = "done", ![r].box = IF heap[reader[r].obj].hints THEN "hints" ELSE "plain"]
    /\ UNCHANGED <<clk, heap, seen, dash, flight>>

----------------------------------------------------------------------------
(* The watcher and the time.                                                 *)

\* Only while a request can still see what it stores, and at most once in a time unit.
WatcherStores ==
    /\ \A i \in DOMAIN heap : heap[i].of = "watch" => heap[i].read < clk
    /\ \E r \in Readers : ReaderIs[r].kind = "status" /\ reader[r].at = "idle"
    /\ heap' = Append(heap, [read |-> clk, of |-> "watch", hints |-> FALSE]) /\ seen' = Len(heap) + 1
    /\ UNCHANGED <<clk, dash, flight, reader>>

ReadTick ==
    /\ clk < MaxReadTime
    /\ \A k \in FlightKeys : flight[k].runs => clk < flight[k].since + FlightBound
    /\ clk' = clk + 1
    /\ UNCHANGED <<heap, seen, dash, flight, reader>>

----------------------------------------------------------------------------
FlightSteps(k) == FlightReads(k) \/ FlightReturns(k) \/ FlightFails(k)
ReaderSteps(r) == Receive(r) \/ ExecHints(r) \/ HintsArrive(r) \/ Respond(r)

SharedNext ==
    \/ \E k \in FlightKeys : FlightSteps(k)
    \/ \E r \in Readers : GetDashboard(r) \/ GetInstanceStatus(r) \/ GetInstancePods(r) \/ ReaderSteps(r) \/ Leave(r)
    \/ WatcherStores
    \/ ReadTick

SharedSpec == SharedInit /\ [][SharedNext]_readVars

----------------------------------------------------------------------------
\* The type invariant of this module.
SharedTypeOK ==
    /\ clk \in 1..MaxReadTime /\ seen \in 0..Len(heap)
    /\ \A i \in DOMAIN heap :
          heap[i].read \in 1..MaxReadTime /\ heap[i].of \in FlightKeys \cup {"watch"} /\ heap[i].hints \in BOOLEAN
    /\ \A k \in DOMAIN dash : dash[k].obj \in 0..Len(heap)
    /\ \A k \in FlightKeys : flight[k].members \subseteq Readers /\ (flight[k].runs => flight[k].owner \in flight[k].members)
    /\ \A r \in Readers :
          /\ reader[r].at \in {"idle", "read", "annotate", "hints", "answer", "done", "error", "left"}
          /\ reader[r].key \in FlightKeys /\ reader[r].obj \in 0..Len(heap)

\* The exec fields are only in the answers of the callers who asked for them and may use them
\* (withExecHints: "ns is never changed: the watcher cache and the shared status read hand the same
\* object to every caller").
HintsForTheirCallersOnly ==
    \A r \in Readers : reader[r].at = "done" /\ reader[r].obj # Nothing => (reader[r].box = "hints") = ReaderIs[r].hints

\* Nobody gets the dashboard of the other role: the privileged one holds the health of the clusters
\* (GetDashboard uses two caches, but one singleflight group).
DashboardOfOwnRole ==
    \A r \in Readers :
        ReaderIs[r].kind = "dashboard" /\ reader[r].obj # Nothing =>
            heap[reader[r].obj].of = IF ReaderIs[r].privileged THEN "privileged" ELSE "basic"

\* Where no read fails by itself, a caller fails only when its flight used its whole time: that
\* another caller left, also the one who started the flight, fails nobody (#656).
LeavingFailsNobody ==
    "read" \notin ReadFaults => \A r \in Readers : reader[r].at = "error" => reader[r].value = FlightBound

\* What a caller is shown was read at most one flight before the call; for the dashboard, one flight
\* before it was stored in the cache, which was at most its time to live before the call.
AnswersAreRecent ==
    \A r \in Readers :
        reader[r].at = "done" /\ reader[r].obj # Nothing =>
            LET age == FlightBound + IF ReaderIs[r].kind = "dashboard" THEN DashboardTTL ELSE 0 IN
            /\ heap[reader[r].obj].of # "watch" => heap[reader[r].obj].read + age >= reader[r].since
            /\ reader[r].lists # Nothing => reader[r].lists + FlightBound >= reader[r].asked

\* The hints show the pods as they are when the call is made ("a stack that just became running must
\* show its new pods at the next read", sharedExecHints).
HintsShowCurrentPods ==
    \A r \in Readers : reader[r].at = "done" /\ reader[r].lists # Nothing => reader[r].lists >= reader[r].asked

\* Every caller gets an answer, or has left.
ReadersAreAnswered ==
    \A r \in Readers : []<>(reader[r].at \in {"idle", "done", "error", "left"})
=============================================================================
