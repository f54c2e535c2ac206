---------------------------- MODULE MCReqqAlloc ----------------------------
EXTENDS ReqqAlloc
PairsAtL2 == [L2 |-> {"pair", "bad"}, L3 |-> {}]
PlainAtBoth == [L2 |-> {"plain"}, L3 |-> {"plain"}]
=============================================================================
