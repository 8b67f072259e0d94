--------------------------- MODULE MCTaskWorkers ---------------------------
EXTENDS TaskWorkers

CONSTANTS p1, i1, i2

\* One page with two items, or with one.
PageOfTwo == p1 :> <<i1, i2>>
PageOfOne == p1 :> <<i1>>
=============================================================================
