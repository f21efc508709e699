--------------------------- MODULE BackupLedger ---------------------------
(***************************************************************************)
(* What the history of backup runs promises, whoever writes it and however *)
(* often the server stops: a run is opened once, closed once, never         *)
(* rewritten after that, and closed as done only if its copy was whole.     *)
(***************************************************************************)
CONSTANTS Attempt   \* ids of runs

VARIABLES
    ledger,   \* the state of each run on record
    whole     \* whether the copy behind a run ended as a complete one

Closed == {"done", "failed", "cancelled", "interrupted"}

Init ==
    /\ ledger = [a \in Attempt |-> "none"]
    /\ whole = [a \in Attempt |-> FALSE]

\* Opened (an id may be taken anew), closed, or forgotten with its job.
Open(a)   == ledger[a] # "running" /\ ledger'[a] = "running"
Close(a)  == ledger[a] = "running" /\ ledger'[a] \in Closed
Forget(a) == ledger'[a] = "none"

\* Several runs may move at once: a job is deleted with all its runs, the
\* module closes all it finds open.
Next ==
    /\ ledger' \in [Attempt -> Closed \cup {"none", "running"}]
    /\ whole' \in [Attempt -> BOOLEAN]
    /\ \A a \in Attempt :
        /\ Open(a) \/ Close(a) \/ Forget(a) \/ ledger'[a] = ledger[a]
        /\ ledger'[a] = "done" => whole'[a]

Spec == Init /\ [][Next]_<<ledger, whole>>
=============================================================================
