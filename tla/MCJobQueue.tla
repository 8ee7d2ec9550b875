----------------------------- MODULE MCJobQueue -----------------------------
(* Small instances of the job queue for TLC.                               *)
EXTENDS JobQueue
=============================================================================
