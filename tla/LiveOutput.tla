----------------------------- MODULE LiveOutput -----------------------------
(* The live output of running operations (internal/deployer/live_output.go): *)
(* operations stream lines into a buffer per deployment log, one flusher     *)
(* goroutine writes the changed buffers to deployment_logs.output, and the   *)
(* final write of the operation, or the interrupted operation recovery of    *)
(* the leader, replaces the output.  A line is its number; the output of a   *)
(* log is the sequence of its lines.                                         *)
EXTENDS Naturals, Sequences, SequencesExt, FiniteSets

CONSTANTS
    Logs,           \* deployment logs of operations of this replica
    Flushers,       \* identities for flusher goroutines
    MaxStreamed,    \* bound: lines that one operation streams
    MaxOutputLines, \* maxOutputLen, in lines
    WriteErrors     \* TRUE: a database write may fail

VARIABLES
    streamed,       \* lines the operation of the log has streamed
    operation,      \* the operation's goroutine: runs, final (in writeFinal), over
    logOutput,      \* the row: its output, and who ended it
    byLog,          \* liveOutputs.byLog
    flushing,       \* liveOutputs.flushing
    flusher,        \* the flusher goroutines
    liveShutdown    \* shutdownCtx is done

liveVars == <<streamed, operation, logOutput, byLog, flushing, flusher, liveShutdown>>

NoBuffer == [lines |-> <<>>, full |-> FALSE, dirty |-> FALSE, kept |-> FALSE]
Asleep == [at |-> "none", todo |-> << >>]

LiveTypeOK ==
    /\ streamed \in [Logs -> 0 .. MaxStreamed]
    /\ operation \in [Logs -> {"runs", "final", "over"}]
    /\ \A l \in Logs :
        /\ logOutput[l].lines \in Seq(1 .. MaxStreamed)
        /\ logOutput[l].status \in {"running", "finished", "interrupted"}
        /\ byLog[l].lines \in Seq(1 .. MaxStreamed)
        /\ byLog[l].full \in BOOLEAN /\ byLog[l].dirty \in BOOLEAN /\ byLog[l].kept \in BOOLEAN
    /\ flushing \in BOOLEAN /\ liveShutdown \in BOOLEAN
    /\ \A f \in Flushers : flusher[f].at \in {"none", "waits", "writes"}

LiveInit ==
    /\ streamed = [l \in Logs |-> 0]
    /\ operation = [l \in Logs |-> "runs"]
    /\ logOutput = [l \in Logs |-> [lines |-> <<>>, status |-> "running"]]
    /\ byLog = [l \in Logs |-> NoBuffer]
    /\ flushing = FALSE
    /\ flusher = [f \in Flushers |-> Asleep]
    /\ liveShutdown = FALSE

Running(l) == logOutput[l].status = "running"
HasBuffer(l) == byLog[l].kept

----------------------------------------------------------------------------
(* The operation.                                                            *)

\* go m.runLiveOutputFlusher(), when no flusher runs.
StartFlusher ==
    IF flushing
    THEN UNCHANGED <<flushing, flusher>>
    ELSE /\ flushing' = TRUE
         /\ \E f \in Flushers :
                /\ flusher[f].at = "none"
                /\ flusher' = [flusher EXCEPT ![f].at = "waits"]


\* A streamed line (broadcastLog); a line past maxOutputLen is not kept.
appendLiveOutput(l) ==
    /\ operation[l] = "runs"
    /\ streamed[l] < MaxStreamed
    /\ streamed' = [streamed EXCEPT ![l] = @ + 1]
    /\ IF byLog[l].full \/ Len(byLog[l].lines) + 1 > MaxOutputLines
       THEN /\ byLog' = [byLog EXCEPT ![l].full = TRUE, ![l].kept = TRUE]
            /\ UNCHANGED <<flushing, flusher>>
       ELSE /\ byLog' = [byLog EXCEPT
                    ![l].lines = Append(@, streamed[l] + 1),
                    ![l].dirty = TRUE, ![l].kept = TRUE]
            /\ StartFlusher
    /\ UNCHANGED <<operation, logOutput, liveShutdown>>

\* dropLiveOutput
dropLiveOutput(l) == [byLog EXCEPT ![l] = NoBuffer]

\* writeFinal drops the live output, then writes the log.
BeginFinal(l) ==
    /\ operation[l] = "runs"
    /\ operation' = [operation EXCEPT ![l] = "final"]
    /\ byLog' = dropLiveOutput(l)
    /\ UNCHANGED <<streamed, logOutput, flushing, flusher, liveShutdown>>

\* The conditional Update of the log with the full output: all streamed lines, cut
\* at maxOutputLen.  A log that is no longer running keeps its output.  With a
\* database error the log stays running for the recovery.
FinalOutputWrite(l) ==
    /\ operation[l] = "final"
    /\ operation' = [operation EXCEPT ![l] = "over"]
    /\ \/ logOutput' = IF Running(l)
                       THEN [logOutput EXCEPT ![l] =
                                [lines |-> [n \in 1 .. (IF streamed[l] < MaxOutputLines
                                                        THEN streamed[l] ELSE MaxOutputLines) |-> n],
                                 status |-> "finished"]]
                       ELSE logOutput
       \/ WriteErrors /\ UNCHANGED logOutput
    /\ UNCHANGED <<streamed, byLog, flushing, flusher, liveShutdown>>

\* The interrupted operation recovery ends the log, on any replica.
Interrupted(l) ==
    /\ Running(l)
    /\ logOutput' = [logOutput EXCEPT ![l].status = "interrupted"]
    /\ UNCHANGED <<streamed, operation, byLog, flushing, flusher, liveShutdown>>

----------------------------------------------------------------------------
(* The flusher.                                                              *)

\* The ticker fires: flushLiveOutputs copies the changed buffers.
TakeDirty(f) ==
    /\ flusher[f].at = "waits"
    /\ LET dirty == {l \in Logs : byLog[l].dirty}
       IN /\ flusher' = [flusher EXCEPT ![f] =
                [at |-> "writes", todo |-> [l \in dirty |-> byLog[l].lines]]]
          /\ byLog' = [l \in Logs |-> [byLog[l] EXCEPT !.dirty = FALSE]]
    /\ UNCHANGED <<streamed, operation, logOutput, flushing, liveShutdown>>

\* UPDATE ... WHERE id = ? AND status = 'running'
UpdateRunningOutput(l, lines) ==
    IF Running(l) THEN [logOutput EXCEPT ![l].lines = lines] ELSE logOutput

Done(f, l) == flusher' = [flusher EXCEPT ![f].todo = [k \in DOMAIN @ \ {l} |-> @[k]]]

\* One write.  It succeeds, or finds the log ended and drops the buffer.
WriteLive(f, l) ==
    /\ flusher[f].at = "writes" /\ l \in DOMAIN flusher[f].todo
    /\ logOutput' = UpdateRunningOutput(l, flusher[f].todo[l])
    /\ byLog' = IF Running(l) THEN byLog ELSE dropLiveOutput(l)
    /\ Done(f, l)
    /\ UNCHANGED <<streamed, operation, flushing, liveShutdown>>

\* A failed write is marked dirty again, so the next flush repeats it.
MarkDirty(f, l) == IF HasBuffer(l) THEN [byLog EXCEPT ![l].dirty = TRUE] ELSE byLog

\* One write that fails (an error, the timeout or the shutdown); it may have
\* reached the database all the same.
WriteFails(f, l) ==
    /\ WriteErrors \/ liveShutdown
    /\ flusher[f].at = "writes" /\ l \in DOMAIN flusher[f].todo
    /\ logOutput' \in {logOutput, UpdateRunningOutput(l, flusher[f].todo[l])}
    /\ byLog' = MarkDirty(f, l)
    /\ Done(f, l)
    /\ UNCHANGED <<streamed, operation, flushing, liveShutdown>>

\* The end of a flush: the flusher stops when no live output is left.
FlushEnds(f) ==
    /\ flusher[f].at = "writes" /\ DOMAIN flusher[f].todo = {}
    /\ IF \E l \in Logs : HasBuffer(l)
       THEN /\ flusher' = [flusher EXCEPT ![f] = [at |-> "waits", todo |-> << >>]]
            /\ UNCHANGED flushing
       ELSE /\ flusher' = [flusher EXCEPT ![f] = Asleep]
            /\ flushing' = FALSE
    /\ UNCHANGED <<streamed, operation, logOutput, byLog, liveShutdown>>

\* The flusher sees the shutdown.  (With the ticker ready too, select may also
\* take TakeDirty.)
FlusherStops(f) ==
    /\ liveShutdown /\ flusher[f].at = "waits"
    /\ flusher' = [flusher EXCEPT ![f] = Asleep]
    /\ flushing' = FALSE
    /\ UNCHANGED <<streamed, operation, logOutput, byLog, liveShutdown>>

\* Manager.Shutdown
LiveShutdown ==
    /\ ~liveShutdown
    /\ liveShutdown' = TRUE
    /\ UNCHANGED <<streamed, operation, logOutput, byLog, flushing, flusher>>

LiveNext ==
    \/ \E l \in Logs : appendLiveOutput(l) \/ BeginFinal(l) \/ FinalOutputWrite(l) \/ Interrupted(l)
    \/ \E f \in Flushers :
        \/ TakeDirty(f) \/ FlushEnds(f) \/ FlusherStops(f)
        \/ \E l \in Logs : WriteLive(f, l) \/ WriteFails(f, l)
    \/ LiveShutdown

LiveSpec == LiveInit /\ [][LiveNext]_liveVars

----------------------------------------------------------------------------
(* Properties.                                                               *)


\* A stored output is never replaced by an older copy, and never changes after the
\* log ended: a flush that copied its buffer before the final write, or before the
\* recovery, loses against it (UpdateRunningOutput, one flusher at a time).
OutputNeverGoesBack ==
    [][\A l \in Logs :
        /\ Len(logOutput'[l].lines) >= Len(logOutput[l].lines)
        /\ ~Running(l) => logOutput'[l] = logOutput[l]]_liveVars

\* Every line within the limit is stored while its operation still runs, unless the
\* log ends or the process shuts down first (runLiveOutputFlusher, the repeat after
\* a failed write).
StreamedLinesAreStored ==
    \A l \in Logs : \A n \in 1 .. MaxOutputLines :
        []<>(streamed[l] >= n => \/ Len(logOutput[l].lines) >= n
                                 \/ operation[l] # "runs" \/ ~Running(l) \/ liveShutdown)

\* When all operations are over no buffer stays behind and the flusher ends; it does
\* not tick forever for a log that ended (dropLiveOutput, flushLiveOutputs).
FlusherEnds ==
    <>[]((\A l \in Logs : operation[l] = "over") => ~flushing /\ \A l \in Logs : ~HasBuffer(l))
=============================================================================
