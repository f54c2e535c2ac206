----------------------------- MODULE MCReqqDeps -----------------------------
EXTENDS ReqqDeps, TLC
Symmetry  == Permutations(Entries) \union Permutations(Lines)
FirstQuad == {{1}}
\* With esr_sc_ram_delay at 2: shirecache_pipe.sv:537-548.
BusyAfter   == {1, 3, 5, 7}
BubbleAfter == {6}
\* What the theorems ask of the timing holds at this delay, and at those of 3 and 4,
\* where the tag response comes in the ninth clock: shirecache_pipe.sv:549-581.
ASSUME TimingHolds == /\ PipeTiming
                      /\ Timely(9, {1, 2, 4, 5, 7, 8}, {9})
                      /\ Timely(9, {1, 2, 3, 5, 6, 7, 9}, {8})
=============================================================================
