---------------------------- MODULE BackupAlerts ----------------------------
(***************************************************************************)
(* What the backup manager tells its owner: an alert for a run that failed *)
(* or for a job with no success in too long (alert, checkForStaleJobs and  *)
(* failRun of module.ts, lib/notify.ts), and the weekly summary            *)
(* (maybeSendDigest, digestLines).  The scheduler's tick and a Run now     *)
(* raise alerts side by side; a job's row is read long before the alert    *)
(* that rests on it, and marked long after.                                *)
(***************************************************************************)
EXTENDS Integers, FiniteSets, FiniteSetsExt

CONSTANTS
    Herald,          \* who raises alerts: the tick, and Run now
    Ticker,          \* the one of them that is the tick
    AlertJob,
    AlertRun,        \* rows of the runs table
    Window,          \* hours between runs that the form offers
    DigestEvery,     \* DIGEST_DAYS
    LastHour,        \* bounds the clock
    Never            \* null

ASSUME AlertConstantsOK ==
    /\ Ticker \in Herald
    /\ Window \subseteq Nat
    /\ DigestEvery \in Nat \ {0}
    /\ LastHour \in Nat
    /\ Never \in Int /\ Never < -DigestEvery

VARIABLES
    hour,            \* the clock
    jobRow,          \* jobs table: what alerts need of a row, or NoRow
    run,             \* runs table
    recipient,       \* settings table: digestEmail is not empty
    digestAt,        \* settings table: digestSentAt, or Never
    alert,           \* per herald: where it is and the row it read
    summary,         \* the summary on its way
    edit,            \* a save of each job: nothing, or the row it read
    \* history
    heard,           \* when each job's last alert was delivered, or Never
    early,           \* jobs heard of again within their window
    overlapped,      \* jobs whose alerts ran into each other or were cut short
    counted,         \* runs counted in a summary that was delivered
    countedTwice,    \* and those counted in two of them
    lost             \* a delivered summary could not be marked as sent

historyOfAlerts == <<heard, early, overlapped, counted, countedTwice, lost>>
alertVars == <<hour, jobRow, run, recipient, digestAt, alert, summary, edit, historyOfAlerts>>

NoRow == [enabled |-> FALSE, every |-> 0, stale |-> 0, by |-> {}, toldAt |-> Never - 1]
Settings == [enabled : BOOLEAN, every : Window, stale : {0, 1}, by : SUBSET {"email", "webhook"}]
Row == [enabled : BOOLEAN, every : Window, stale : {0, 1}, by : SUBSET {"email", "webhook"},
        toldAt : (0..LastHour) \cup {Never}]
NoBackup == [of |-> Never, started |-> Never, state |-> "none"]
Silent == [at |-> "none"]

AlertsTypeOK ==
    /\ hour \in 0..LastHour
    /\ jobRow \in [AlertJob -> Row \cup {NoRow}]
    /\ \A r \in AlertRun : run[r] = NoBackup \/
          (run[r].of \in AlertJob /\ run[r].started \in 0..hour /\ run[r].state \in {"running", "done", "failed"})
    /\ recipient \in BOOLEAN
    /\ digestAt \in (0..hour) \cup {Never}
    /\ \A w \in Herald : alert[w] = Silent \/
          (alert[w].at \in {"holds", "email", "webhook", "mark"} /\ alert[w].row \in Row)
    /\ summary.at \in {"none", "lines", "send", "mark"}

AlertsInit ==
    /\ hour = 0
    /\ jobRow \in [AlertJob -> {k \in Row : k.toldAt = Never} \cup {NoRow}]
    /\ run = [r \in AlertRun |-> NoBackup]
    /\ recipient = TRUE
    /\ digestAt = Never
    /\ alert = [w \in Herald |-> Silent]
    /\ summary = Silent
    /\ edit = [j \in AlertJob |-> NoRow]
    /\ heard = [j \in AlertJob |-> Never]
    /\ early = {} /\ overlapped = {} /\ counted = {} /\ countedTwice = {}
    /\ lost = FALSE

AtLeastOne(n) == IF n < 1 THEN 1 ELSE n

\* shouldNotify: somebody to tell, and not told within the job's window
ShouldNotify(row) ==
    /\ row.by # {}
    /\ row.toldAt = Never \/ hour - row.toldAt >= AtLeastOne(row.every)

\* lastSuccessAt
LastSuccess(j) == LET ends == {run[r].started : r \in {x \in AlertRun : run[x].of = j /\ run[x].state = "done"}}
                  IN  IF ends = {} THEN Never ELSE Max(ends)

IsStale(j, row, asked) ==
    /\ row.enabled /\ row.stale > 0
    /\ LastSuccess(j) = Never \/ asked - LastSuccess(j) >= row.stale

-----------------------------------------------------------------------------
(* Raising an alert. *)

Alerting(j) == {w \in Herald : alert[w] # Silent /\ alert[w].of = j /\ alert[w].at # "holds"}

\* A herald looks at a job: runJob, checkForStaleJobs and reconcileRuns read
\* its row, and decide on it only after other statements.
HoldRow(w, j) ==
    /\ alert[w] = Silent
    /\ w = Ticker => summary = Silent
    /\ jobRow[j] # NoRow
    /\ alert' = [alert EXCEPT ![w] = [at |-> "holds", of |-> j, row |-> jobRow[j],
                                        asked |-> IF w = Ticker THEN hour ELSE Never, sent |-> FALSE]]
    /\ UNCHANGED <<hour, jobRow, run, recipient, digestAt, summary, edit, historyOfAlerts>>

\* alert: decided on the row as it was read
Announce(w) ==
    LET a == alert[w]
    IN  IF ShouldNotify(a.row)
        THEN /\ alert' = [alert EXCEPT ![w] = [a EXCEPT !.at = "email"]]
             /\ overlapped' = IF Alerting(a.of) # {} \/ jobRow[a.of].toldAt # a.row.toldAt
                              THEN overlapped \cup {a.of} ELSE overlapped
        ELSE alert' = [alert EXCEPT ![w] = Silent] /\ UNCHANGED overlapped

\* A run failed, was refused, or was found interrupted: the row is closed first.
RunFails(w, r) ==
    /\ alert[w] # Silent /\ alert[w].at = "holds"
    /\ run[r] = NoBackup \/ (w = Ticker /\ run[r].of = alert[w].of /\ run[r].state = "running")
    /\ run' = [run EXCEPT ![r] = [of |-> alert[w].of, started |-> IF @ = NoBackup THEN hour ELSE @.started, state |-> "failed"]]
    /\ Announce(w)
    /\ UNCHANGED <<hour, jobRow, recipient, digestAt, summary, edit, heard, early, counted, countedTwice, lost>>

\* checkForStaleJobs asks for the age at the hour it read the list of jobs.
FindStale ==
    /\ alert[Ticker] # Silent /\ alert[Ticker].at = "holds"
    /\ IF IsStale(alert[Ticker].of, alert[Ticker].row, alert[Ticker].asked)
       THEN Announce(Ticker)
       ELSE alert' = [alert EXCEPT ![Ticker] = Silent] /\ UNCHANGED overlapped
    /\ UNCHANGED <<hour, jobRow, run, recipient, digestAt, summary, edit, heard, early, counted, countedTwice, lost>>

\* Nothing to tell: the run is started, or ended well.
LetGo(w) ==
    /\ alert[w] # Silent /\ alert[w].at = "holds"
    /\ alert' = [alert EXCEPT ![w] = Silent]
    /\ UNCHANGED <<hour, jobRow, run, recipient, digestAt, summary, edit, historyOfAlerts>>

\* send: each way on its own; one that fails does not stop the other.
Deliver(w, way, next) ==
    /\ alert[w] # Silent /\ alert[w].at = way
    /\ LET a == alert[w]
       IN  \/ /\ way \in a.row.by
              /\ alert' = [alert EXCEPT ![w] = [a EXCEPT !.at = next, !.sent = TRUE]]
              /\ early' = IF ~a.sent /\ heard[a.of] # Never /\ hour - heard[a.of] < AtLeastOne(a.row.every)
                          THEN early \cup {a.of} ELSE early
              /\ heard' = [heard EXCEPT ![a.of] = hour]
           \/ /\ alert' = [alert EXCEPT ![w] = [a EXCEPT !.at = next]]
              /\ UNCHANGED <<heard, early>>
    /\ UNCHANGED <<hour, jobRow, run, recipient, digestAt, summary, edit, overlapped, counted, countedTwice, lost>>

\* markNotified, whether or not anything was delivered.
MarkNotified(w) ==
    /\ alert[w] # Silent /\ alert[w].at = "mark"
    /\ jobRow' = [jobRow EXCEPT ![alert[w].of] = IF @ = NoRow THEN @ ELSE [@ EXCEPT !.toldAt = hour]]
    /\ alert' = [alert EXCEPT ![w] = Silent]
    /\ UNCHANGED <<hour, run, recipient, digestAt, summary, edit, historyOfAlerts>>

\* A statement fails on the way: swallowed, and nothing is marked.
CutShort(w) ==
    /\ alert[w] # Silent /\ alert[w].at # "holds"
    /\ alert' = [alert EXCEPT ![w] = Silent]
    /\ overlapped' = IF alert[w].sent THEN overlapped \cup {alert[w].of} ELSE overlapped
    /\ UNCHANGED <<hour, jobRow, run, recipient, digestAt, summary, edit, heard, early, counted, countedTwice, lost>>

-----------------------------------------------------------------------------
(* The weekly summary, part of the tick. *)

\* Due when the last one is not younger than a week.
OpenDigest ==
    /\ alert[Ticker] = Silent /\ summary = Silent
    /\ recipient
    /\ digestAt = Never \/ digestAt <= hour - DigestEvery
    /\ summary' = [at |-> "lines", since |-> hour - DigestEvery, runs |-> {}]
    /\ UNCHANGED <<hour, jobRow, run, recipient, digestAt, alert, edit, historyOfAlerts>>

\* digestLines: the runs since then of the jobs there are; none if there are no jobs.
ReadLines ==
    /\ summary.at = "lines"
    /\ summary' =
          IF \A j \in AlertJob : jobRow[j] = NoRow THEN Silent
          ELSE [summary EXCEPT !.at = "send",
                               !.runs = {r \in AlertRun : run[r] # NoBackup /\ jobRow[run[r].of] # NoRow
                                                          /\ run[r].started >= summary.since}]
    /\ UNCHANGED <<hour, jobRow, run, recipient, digestAt, alert, edit, historyOfAlerts>>

\* A run that started at the very hour of a summary is on the edge of both.
SendDigest ==
    /\ summary.at = "send"
    /\ \/ /\ countedTwice' = countedTwice \cup {r \in summary.runs \cap counted : run[r].started # digestAt}
          /\ counted' = counted \cup summary.runs
       \/ UNCHANGED <<counted, countedTwice>>
    /\ summary' = [summary EXCEPT !.at = "mark"]
    /\ UNCHANGED <<hour, jobRow, run, recipient, digestAt, alert, edit, heard, early, overlapped, lost>>

\* markDigestSent, also when the sending failed
MarkDigestSent ==
    /\ summary.at = "mark"
    /\ digestAt' = hour
    /\ summary' = Silent
    /\ UNCHANGED <<hour, jobRow, run, recipient, alert, edit, historyOfAlerts>>

-----------------------------------------------------------------------------
(* Meanwhile. *)

StartBackup(r, j) ==
    /\ run[r] = NoBackup /\ jobRow[j] # NoRow
    /\ run' = [run EXCEPT ![r] = [of |-> j, started |-> hour, state |-> "running"]]
    /\ UNCHANGED <<hour, jobRow, recipient, digestAt, alert, summary, edit, historyOfAlerts>>

FinishBackup(r) ==
    /\ run[r].state = "running"
    /\ run' = [run EXCEPT ![r].state = "done"]
    /\ UNCHANGED <<hour, jobRow, recipient, digestAt, alert, summary, edit, historyOfAlerts>>

\* saveJobAction reads the row it is about to replace ...
ReadForSave(j) ==
    /\ edit[j] = NoRow /\ jobRow[j] # NoRow
    /\ edit' = [edit EXCEPT ![j] = jobRow[j]]
    /\ UNCHANGED <<hour, jobRow, run, recipient, digestAt, alert, summary, historyOfAlerts>>

With(s, t) == [enabled |-> s.enabled, every |-> s.every, stale |-> s.stale, by |-> s.by, toldAt |-> t]

\* Mutant: the save writes back when the job was told of, as it read it.
OverwriteJob(j, s) ==
    /\ edit[j] # NoRow
    /\ jobRow' = [jobRow EXCEPT ![j] = With(s, edit[j].toldAt)]
    /\ edit' = [edit EXCEPT ![j] = NoRow]
    /\ overlapped' = IF jobRow[j] = NoRow THEN overlapped \cup {j} ELSE overlapped
    /\ UNCHANGED <<hour, run, recipient, digestAt, alert, summary, heard, early, counted, countedTwice, lost>>

\* ... and updates all of it but when it was told; a job deleted in between
\* comes back as it was read.
WriteJob(j, s) ==
    /\ edit[j] # NoRow
    /\ jobRow' = [jobRow EXCEPT ![j] = With(s, IF @ = NoRow THEN edit[j].toldAt ELSE @.toldAt)]
    /\ edit' = [edit EXCEPT ![j] = NoRow]
    /\ overlapped' = IF jobRow[j] = NoRow THEN overlapped \cup {j} ELSE overlapped
    /\ UNCHANGED <<hour, run, recipient, digestAt, alert, summary, heard, early, counted, countedTwice, lost>>

RemoveJob(j) ==
    /\ jobRow[j] # NoRow
    /\ jobRow' = [jobRow EXCEPT ![j] = NoRow]
    /\ run' = [r \in AlertRun |-> IF run[r].of = j THEN NoBackup ELSE run[r]]
    /\ summary' = IF summary.at \in {"send", "mark"}
                  THEN [summary EXCEPT !.runs = {r \in @ : run[r].of # j}] ELSE summary
    /\ counted' = {r \in counted : run[r].of # j}
    /\ UNCHANGED <<hour, recipient, digestAt, alert, edit, heard, early, overlapped, countedTwice, lost>>

\* cloneJobAction: paused and clean, whatever became of the one it is made from.
CloneJob(j, copy) ==
    /\ jobRow[j] # NoRow /\ jobRow[copy] = NoRow /\ heard[copy] = Never
    /\ jobRow' = [jobRow EXCEPT ![copy] = [jobRow[j] EXCEPT !.enabled = FALSE, !.toldAt = Never]]
    /\ UNCHANGED <<hour, run, recipient, digestAt, alert, summary, edit, historyOfAlerts>>

SetDigest(on) ==
    /\ recipient' = on
    /\ UNCHANGED <<hour, jobRow, run, digestAt, alert, summary, edit, historyOfAlerts>>

\* A restart ends every alert and the summary where they are.
StopTelling ==
    /\ overlapped' = overlapped \cup {alert[w].of : w \in {x \in Herald : alert[x] # Silent /\ alert[x].sent}}
    /\ lost' = (lost \/ summary.at = "mark")
    /\ alert' = [w \in Herald |-> Silent]
    /\ summary' = Silent
    /\ edit' = [j \in AlertJob |-> NoRow]
    /\ UNCHANGED <<hour, jobRow, run, recipient, digestAt, heard, early, counted, countedTwice>>

HourGoes ==
    /\ hour < LastHour
    /\ hour' = hour + 1
    /\ UNCHANGED <<jobRow, run, recipient, digestAt, alert, summary, edit, historyOfAlerts>>

AlertsNext ==
    \/ \E w \in Herald :
          \/ \E j \in AlertJob : HoldRow(w, j)
          \/ \E r \in AlertRun : RunFails(w, r)
          \/ LetGo(w) \/ Deliver(w, "email", "webhook") \/ Deliver(w, "webhook", "mark")
          \/ MarkNotified(w) \/ CutShort(w)
    \/ FindStale
    \/ OpenDigest \/ ReadLines \/ SendDigest \/ MarkDigestSent
    \/ \E r \in AlertRun : FinishBackup(r) \/ \E j \in AlertJob : StartBackup(r, j)
    \/ \E j \in AlertJob :
          \/ ReadForSave(j) \/ RemoveJob(j)
          \/ \E s \in Settings : WriteJob(j, s)
          \/ \E c \in AlertJob : CloneJob(j, c)
    \/ \E on \in BOOLEAN : SetDigest(on)
    \/ StopTelling
    \/ HourGoes

AlertsSpec == AlertsInit /\ [][AlertsNext]_alertVars

-----------------------------------------------------------------------------
(* A broken job is told of once in its window ("a tick that fires every    *)
(* minute would otherwise send a thousand emails"), whatever is edited     *)
(* meanwhile, unless two alerts of it ran into each other or one was cut   *)
(* short; and no run is counted in two weekly summaries unless a stop came *)
(* between the sending and its mark.                                       *)
NobodyIsToldTwice ==
    /\ early \subseteq overlapped
    /\ lost \/ countedTwice = {}
=============================================================================
