------------------------------ MODULE ActionJobs ------------------------------
(* The runs of an asynchronous action: InvokeAction stores the run of a job  *)
(* (stack_instances.go, instance_actions.go), clients poll the job log of    *)
(* the subscriber through the proxy (hooks/action_joblog.go), and the first  *)
(* poll that sees the end stores it on the run (action_run_repository.go).   *)
(* A log is a sequence of bytes: "x" text, "n" a newline, "h" and "t" the    *)
(* two bytes of one character, "m" an end marker and "e", "s" its status.    *)
EXTENDS Naturals, Sequences, SequencesExt

CONSTANTS
    JobClients,        \* the clients that poll
    JobLogs,           \* the complete logs that a job may write
    LogCap,            \* maxJobLogBytes
    Subscribers,       \* what the subscriber does: sets of "status" and "offset" (the headers that it sends)
                       \* and "bytes" (it shows its log byte by byte, and else line by line)
    JobFaults          \* subset of {"create", "store"}

ASSUME ActionJobsAssumption ==
    /\ LogCap \in Nat \ {0} /\ JobFaults \subseteq {"create", "store"}
    /\ \A s \in Subscribers : s \subseteq {"status", "offset", "bytes"}
    /\ \A l \in JobLogs : l \in Seq({"x", "n", "h", "t", "m", "e", "s"})

VARIABLES
    jobLog,     \* the complete log of the job
    headers,    \* what its subscriber does
    written,    \* how many bytes of the log the subscriber shows
    action,     \* the invoke: "start", "answered" or "done"; and its outcome, "job", "result" or "error"
    run,        \* the row of the run: [there, job, status]
    client      \* the clients: [step, offset, got, shown]

jobVars == <<jobLog, headers, written, action, run, client>>

NoRun == [there |-> FALSE, job |-> FALSE, status |-> "none"]

JobsInit ==
    /\ jobLog \in JobLogs /\ headers \in Subscribers /\ written = 0
    /\ action = [step |-> "start", outcome |-> "none"] /\ run = NoRun
    /\ client = [c \in JobClients |-> [step |-> "idle", offset |-> 0, got |-> <<>>, shown |-> <<>>]]

----------------------------------------------------------------------------
(* The invoke.                                                               *)

\* InvokeAction up to the answer of the subscriber: a job, a result without one (asyncJobID), or an
\* answer that cannot be forwarded.
InvokeAction ==
    /\ action.step = "start"
    /\ \E o \in {"job", "result", "error"} : action' = [step |-> "answered", outcome |-> o]
    /\ UNCHANGED <<jobLog, headers, written, run, client>>

\* newActionRun and recordActionRun, then the response: the run of a job has no finish time yet.
RecordActionRun ==
    /\ action.step = "answered"
    /\ action' = [action EXCEPT !.step = "done"]
    /\ \/ run' = [there |-> TRUE, job |-> action.outcome = "job", status |-> IF action.outcome = "job" THEN "none" ELSE "finished"]
       \/ "create" \in JobFaults /\ UNCHANGED run
    /\ UNCHANGED <<jobLog, headers, written, client>>

\* The subscriber writes more of its log.
JobWrites ==
    /\ action.outcome = "job"
    /\ \E w \in (written + 1)..Len(jobLog) :
          /\ ("bytes" \in headers \/ jobLog[w] = "n" \/ w = Len(jobLog)) /\ written' = w
    /\ UNCHANGED <<jobLog, headers, action, run, client>>

----------------------------------------------------------------------------
(* One poll.                                                                 *)

JobEnded == written = Len(jobLog)

\* trimIncompleteRune.
trimIncompleteRune(b) == IF b # <<>> /\ Last(b) = "h" THEN Front(b) ELSE b

\* cutChunk: up to the last newline, when there is one.
cutChunk(b) ==
    LET n == SelectLastInSeq(b, LAMBDA x : x = "n")
    IN IF n > 0 THEN SubSeq(b, 1, n) ELSE trimIncompleteRune(b)

\* endMarkerPattern: a line of its own; the end of the chunk ends a line, also inside the status.
HasMarker(b) == \E i \in 1..(Len(b) - 1) : b[i] = "m" /\ b[i + 1] = "e" /\ (i = 1 \/ b[i - 1] = "n")

\* jobStatus and isActiveJobStatus.
jobStatusEnded(b) == IF "status" \in headers THEN JobEnded ELSE HasMarker(b)

\* What the subscriber sends from an offset, up to the cap, and whether it was cut.
Available(offset) == SubSeq(jobLog, offset + 1, written)

ChunkDoneWhenCut(offset) ==
    LET all == Available(offset)
        truncated == Len(all) > LogCap
        body == IF truncated THEN cutChunk(SubSeq(all, 1, LogCap)) ELSE all
        hasOffset == "offset" \in headers /\ ~truncated
        ends == jobStatusEnded(body)
        text == IF ~ends /\ ~hasOffset THEN trimIncompleteRune(body) ELSE body
    IN [text |-> text, next |-> offset + Len(text), done |-> ends]

\* FetchJobLog.
FetchJobLog(offset) ==
    LET all == Available(offset)
        truncated == Len(all) > LogCap
        body == IF truncated THEN cutChunk(SubSeq(all, 1, LogCap)) ELSE all
        hasOffset == "offset" \in headers /\ ~truncated
        ends == ~truncated /\ jobStatusEnded(body)
        text == IF ~ends /\ ~hasOffset THEN trimIncompleteRune(body) ELSE body
    IN [text |-> text, next |-> IF hasOffset THEN offset + Len(all) ELSE offset + Len(text), done |-> ends]

\* strings.ToValidUTF8 on one chunk: a byte of a cut character is replaced.
ToValidUTF8(b) ==
    [i \in DOMAIN b |-> IF \/ b[i] = "h" /\ (i = Len(b) \/ b[i + 1] # "t")
                           \/ b[i] = "t" /\ (i = 1 \/ b[i - 1] # "h") THEN "?" ELSE b[i]]

\* GetActionJobLog up to the final status; a failed fetch answers an error and the client polls again.
GetActionJobLog(c) ==
    /\ action.step = "done" /\ action.outcome = "job" /\ client[c].step = "idle"
    /\ LET f == FetchJobLog(client[c].offset)
       IN client' = [client EXCEPT ![c] = [step |-> IF f.done THEN "store" ELSE "idle", offset |-> f.next,
                                           got |-> @.got \o f.text, shown |-> @.shown \o ToValidUTF8(f.text)]]
    /\ UNCHANGED <<jobLog, headers, written, action, run>>

\* SetJobFinalStatus: one conditional UPDATE.
SetJobFinalStatus(c) == run' = [run EXCEPT !.status = IF run.there /\ run.job /\ @ = "none" THEN c ELSE @]

\* storeJobFinalStatus, and the response with done: the client stops.  The stored end is named after
\* the client that stored it.
storeJobFinalStatus(c) ==
    /\ client[c].step = "store"
    /\ \/ SetJobFinalStatus(c) /\ client' = [client EXCEPT ![c].step = "done"]
       \/ "store" \in JobFaults /\ client' = [client EXCEPT ![c].step = "failed"] /\ UNCHANGED run
    /\ UNCHANGED <<jobLog, headers, written, action>>

----------------------------------------------------------------------------
JobsNext ==
    \/ InvokeAction \/ RecordActionRun \/ JobWrites
    \/ \E c \in JobClients : GetActionJobLog(c) \/ storeJobFinalStatus(c)

JobsSpec == JobsInit /\ [][JobsNext]_jobVars

----------------------------------------------------------------------------
JobsTypeOK ==
    /\ written \in 0..Len(jobLog) /\ run.status \in {"none", "finished"} \cup JobClients
    /\ \A c \in JobClients : /\ client[c].step \in {"idle", "store", "done", "failed"} /\ client[c].offset \in 0..Len(jobLog)
                             /\ Len(client[c].got) = Len(client[c].shown)

\* The chunks that a client got are the log up to its next offset: no byte is lost or read twice when a
\* chunk is capped, cut at a line, or ends inside a character (FetchJobLog, cutChunk, trimIncompleteRune).
ChunksAreTheLog == \A c \in JobClients : client[c].got = SubSeq(jobLog, 1, client[c].offset)

\* Without an offset header, the text a client shows has no replaced character that the log does not have.
TextIsTheLog ==
    \A c \in JobClients : "offset" \notin headers => client[c].shown = ToValidUTF8(SubSeq(jobLog, 1, client[c].offset))

\* A client is told done only when the job ended and the client has its whole log, also when the last
\* chunk was capped (out.Done is set for a complete chunk only).
DoneMeansWholeLog ==
    \A c \in JobClients : client[c].step # "idle" => JobEnded /\ client[c].offset = Len(jobLog)

\* A client that follows a job has its log: every byte once, and all of it when it is told done.
JobLogIsWhole == ChunksAreTheLog /\ DoneMeansWholeLog

\* The end of a run is stored once: a second client that sees the end changes nothing (SetJobFinalStatus).
EndIsStoredOnce == [][run.status # "none" => run'.status = run.status]_jobVars

\* A job that is polled comes to its end for every client, also when a line is longer than the cap, and
\* its run gets its end unless a write failed.
ClientsSeeTheEnd ==
    \A c \in JobClients :
        []<>(action.step = "done" /\ action.outcome = "job" =>
                \/ client[c].step = "failed"
                \/ client[c].step = "done" /\ (~run.there \/ run.status # "none"))
=============================================================================
