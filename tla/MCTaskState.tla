----------------------------- MODULE MCTaskState ----------------------------
\* Small instances of TaskState; the constants are in the .cfg files.
EXTENDS TaskState
=============================================================================
