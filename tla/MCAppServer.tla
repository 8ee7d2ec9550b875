----------------------------- MODULE MCAppServer ----------------------------
\* Small instances of AppServer; the constants are in the .cfg files.
EXTENDS AppServer

CONSTANT a1
OneApp(c) == a1
=============================================================================
