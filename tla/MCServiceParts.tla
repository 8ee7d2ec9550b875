---------------------------- MODULE MCServiceParts --------------------------
\* Three tasks of the kernel, and one that depends on two of them; all clients of the
\* app-server are of one app.
EXTENDS ServiceParts

Fork(t) == IF t = 4 THEN {1, 2} ELSE {}

CONSTANT a1
OneApp(c) == a1
=============================================================================
