---------------------------- MODULE MCIdxCopSm ----------------------------
EXTENDS IdxCopSm

SomeBase == [L2 |-> 0, L3 |-> 1, Scp |-> 2]
SomeSize == [L2 |-> 1, L3 |-> 1, Scp |-> 0]
=============================================================================
