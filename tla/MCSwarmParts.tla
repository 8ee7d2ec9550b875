---------------------------- MODULE MCSwarmParts ----------------------------
\* Two predictions, one due at once and one later; three artifacts in a chain, the
\* youngest by a trusted validator, and one that a validator has put on sale.  The second
\* is a strategy, which two products sell.
EXTENDS SwarmParts, TLC

CONSTANTS p1, p2
MCDue == (p1 :> 0) @@ (p2 :> 1)

MCOnSale == ("signal" :> {1, 2}) @@ ("research" :> {2, 4})
MCParents == (1 :> {}) @@ (2 :> {1}) @@ (3 :> {2}) @@ (4 :> {})
MCCalibration == (1 :> 40) @@ (2 :> 80) @@ (3 :> 0) @@ (4 :> 0)
=============================================================================
