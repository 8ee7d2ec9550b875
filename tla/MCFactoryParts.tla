--------------------------- MODULE MCFactoryParts ---------------------------
\* Small instances of every part of FactoryParts; the constants are in the .cfg.
EXTENDS FactoryParts, TLC

\* A goal's signal may fall below zero.
MCMin == -1

\* Slippage in favour of the order, none, and up to above the limit.
MCSlips == {-1, 0, 1, 2}

\* The processes of a part are alike, and no property of these runs is temporal: the .cfg
\* gives the three parts with processes the same two.
Alike == Permutations(Procs)
=============================================================================
