--------------------------- MODULE MCBackupRuns ---------------------------
(* Instances of BackupRuns for TLC.                                        *)
EXTENDS BackupRuns, TLC

\* Attempts are interchangeable (safety runs only).
AttemptSymmetry == Permutations(Attempt)
AttemptJobSymmetry == Permutations(Attempt) \cup Permutations(Job)
=============================================================================
