------------------------------ MODULE RunLogs -------------------------------
(***************************************************************************)
(* Log files of file runs (helpers/filesystem/lib/logfile.ts): lines are   *)
(* pushed into a buffer and appended in batches nobody waits for, while    *)
(* each new run deletes old logs.                                          *)
(***************************************************************************)
EXTENDS Naturals, FiniteSets, SequencesExt

CONSTANTS
    LogRun,       \* runs that keep a log
    Event,        \* what a run does to one file, or with one backup
    FlushEvery,   \* FLUSH_EVERY: lines in the buffer that start a flush
    DetailLimit,  \* MAX_DETAIL_BYTES, counted in lines
    KeepRuns      \* RetentionPolicy.keepRuns, 0 for no limit

ASSUME LogConstantsOK == FlushEvery \in Nat \ {0} /\ DetailLimit \in Nat /\ KeepRuns \in Nat

VARIABLES
    onDisk,       \* lines in each log file, or {} where there is none
    buffer,       \* RunLog.buf
    flying,       \* batches handed to appendFile
    logged,       \* RunLog.written, counted in lines
    logState,     \* whether each run's log is open, and closed
    recent,       \* log files, the one written last first
    doomed,       \* what a pass of pruneLogs has still to delete
    \* history
    noted,     \* skips, removals and errors a run noted
    spoilt        \* runs that lost lines to the disk or to retention

logVars == <<onDisk, buffer, flying, logged, logState, recent, doomed, noted, spoilt>>

Line == Event \cup {"header", "footer", "limit"}

LogsTypeOK ==
    /\ onDisk \in [LogRun -> SUBSET Line]
    /\ buffer \in [LogRun -> SUBSET Line]
    /\ flying \in [LogRun -> SUBSET SUBSET Line]
    /\ logged \in [LogRun -> Nat]
    /\ logState \in [LogRun -> {"none", "opening", "open", "stopped", "closed"}]
    /\ recent \in Seq(LogRun)
    /\ doomed \subseteq LogRun
    /\ noted \in [LogRun -> SUBSET Event]
    /\ spoilt \subseteq LogRun

LogsInit ==
    /\ onDisk = [r \in LogRun |-> {}]
    /\ buffer = [r \in LogRun |-> {}]
    /\ flying = [r \in LogRun |-> {}]
    /\ logged = [r \in LogRun |-> 0]
    /\ logState = [r \in LogRun |-> "none"]
    /\ recent = <<>>
    /\ doomed = {}
    /\ noted = [r \in LogRun |-> {}]
    /\ spoilt = {}

Opened(r) == logState[r] \in {"open", "stopped"}

\* push, with the flush it starts when the buffer is long enough.
Pushed(r, lines, ends) ==
    LET all == buffer[r] \cup lines
        full == ends \/ Cardinality(all) >= FlushEvery
    IN  /\ buffer' = [buffer EXCEPT ![r] = IF full THEN {} ELSE all]
        /\ flying' = [flying EXCEPT ![r] = IF full THEN @ \cup {all} ELSE @]

-----------------------------------------------------------------------------
\* RunLog.open waits for its own flush.
OpenLog(r) ==
    /\ logState[r] = "none"
    /\ logState' = [logState EXCEPT ![r] = "opening"]
    /\ Pushed(r, {"header"}, TRUE)
    /\ UNCHANGED <<onDisk, logged, recent, doomed, noted, spoilt>>

OpenedLog(r) ==
    /\ logState[r] = "opening" /\ flying[r] = {}
    /\ logState' = [logState EXCEPT ![r] = "open"]
    /\ UNCHANGED <<onDisk, buffer, flying, logged, recent, doomed, noted, spoilt>>

\* A file was copied: left out once the log is past its limit, which is said once.
LogCopied(r, e) ==
    /\ Opened(r)
    /\ e \notin UNION flying[r] \cup buffer[r] \cup onDisk[r] \cup noted[r]
    /\ IF logged[r] <= DetailLimit
       THEN Pushed(r, {e}, FALSE) /\ UNCHANGED logState
       ELSE /\ logState[r] = "open"
            /\ Pushed(r, {"limit"}, FALSE)
            /\ logState' = [logState EXCEPT ![r] = "stopped"]
    /\ UNCHANGED <<onDisk, logged, recent, doomed, noted, spoilt>>

\* skipped, removed and failed are always recorded.
LogAlways(r, e) ==
    /\ Opened(r)
    /\ e \notin UNION flying[r] \cup buffer[r] \cup onDisk[r] \cup noted[r]
    /\ Pushed(r, {e}, FALSE)
    /\ noted' = [noted EXCEPT ![r] = @ \cup {e}]
    /\ UNCHANGED <<onDisk, logged, logState, recent, doomed, spoilt>>

CloseLog(r) ==
    /\ Opened(r)
    /\ Pushed(r, {"footer"}, TRUE)
    /\ logState' = [logState EXCEPT ![r] = "closed"]
    /\ UNCHANGED <<onDisk, logged, recent, doomed, noted, spoilt>>

\* Mutant: the buffer is cleared when the text is on the disk.
StillBufferedLate(r) == {}

StillBuffered(r) == buffer[r]

\* appendFile: batches land in any order, and create the file if it is gone.
AppendLands(r) ==
    \E batch \in flying[r] :
        /\ onDisk' = [onDisk EXCEPT ![r] = @ \cup batch]
        /\ logged' = [logged EXCEPT ![r] = @ + Cardinality(batch)]
        /\ flying' = [flying EXCEPT ![r] = @ \ {batch}]
        /\ buffer' = [buffer EXCEPT ![r] = StillBuffered(r)]
        /\ recent' = <<r>> \o SelectSeq(recent, LAMBDA q : q # r)
        /\ UNCHANGED <<logState, doomed, noted, spoilt>>

AppendFails(r) ==
    \E batch \in flying[r] :
        /\ flying' = [flying EXCEPT ![r] = @ \ {batch}]
        /\ spoilt' = spoilt \cup {r}
        /\ UNCHANGED <<onDisk, buffer, logged, logState, recent, doomed, noted>>

\* pruneLogs lists the logs, newest first: past keepRuns they are doomed,
\* and any that are too old, which is the tail of the list from some place on.
BeginPruneLogs(young) ==
    LET kept == IF KeepRuns > 0 /\ KeepRuns < young THEN KeepRuns ELSE young
    IN  /\ doomed = {}
        /\ young <= Len(recent)
        /\ doomed' = {recent[i] : i \in (kept + 1)..Len(recent)}
        /\ UNCHANGED <<onDisk, buffer, flying, logged, logState, recent, noted, spoilt>>

DeleteLog(r) ==
    /\ r \in doomed
    /\ doomed' = doomed \ {r}
    /\ onDisk' = [onDisk EXCEPT ![r] = {}]
    /\ recent' = SelectSeq(recent, LAMBDA q : q # r)
    /\ spoilt' = spoilt \cup {r}
    /\ UNCHANGED <<buffer, flying, logged, logState, noted>>

StopLogging ==
    /\ spoilt' = spoilt \cup {r \in LogRun : logState[r] \notin {"none", "closed"} \/ flying[r] # {}}
    /\ buffer' = [r \in LogRun |-> {}]
    /\ flying' = [r \in LogRun |-> {}]
    /\ logState' = [r \in LogRun |-> IF logState[r] = "none" THEN "none" ELSE "closed"]
    /\ doomed' = {}
    /\ UNCHANGED <<onDisk, logged, recent, noted>>

LogsNext ==
    \/ \E r \in LogRun : OpenLog(r) \/ OpenedLog(r) \/ CloseLog(r) \/ AppendLands(r) \/ AppendFails(r) \/ DeleteLog(r)
    \/ \E r \in LogRun, e \in Event : LogCopied(r, e) \/ LogAlways(r, e)
    \/ \E young \in 0..Cardinality(LogRun) : BeginPruneLogs(young)
    \/ StopLogging

LogsSpec == LogsInit /\ [][LogsNext]_logVars

-----------------------------------------------------------------------------
(***************************************************************************)
(* What a run skipped, removed or failed on can be looked up: once its log *)
(* is closed and the appends are through, every such line is in the file,  *)
(* however flushes and reports overlapped, unless the disk refused a batch *)
(* or retention deleted the file.                                          *)
(***************************************************************************)
SkipsAreOnRecord ==
    \A r \in LogRun \ spoilt :
        logState[r] = "closed" /\ flying[r] = {} => {"header", "footer"} \cup noted[r] \subseteq onDisk[r]
=============================================================================
