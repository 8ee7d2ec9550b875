---------------------------- MODULE MCRepairQueue ----------------------------
\* Small instances of RepairQueue; the constants are in the .cfg files.
EXTENDS RepairQueue
=============================================================================
