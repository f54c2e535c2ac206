---------------------------- MODULE MCPrimitives ----------------------------
(* The three primitives, one of them in a behaviour: the others stand still   *)
(* in one of their first states. Two values are enough to tell any          *)
(* reordering of a FIFO.                                                      *)
EXTENDS PrimFifoReg, PrimArbLru, PrimArbRr2

VARIABLE which
all_vars == <<which, fifo_vars, lru_vars, rr2_vars>>

AnyData == CHOOSE d \in Data : TRUE
StillFifo ==
    /\ port = [push |-> FALSE, wdata |-> AnyData, pop |-> FALSE]
    /\ mem = [i \in 0 .. MemDepth - 1 |-> AnyData] /\ rdata = AnyData
    /\ FifoInit

\* The state of the arbiter one clock after reset: both grants are held.
StillRr2 ==
    /\ mask = {} /\ inUse = {} /\ v = TRUE /\ v2 = TRUE
    /\ g = {0} /\ g2 = {NumReqs - 1}

Init == \/ which = "fifo" /\ FifoInit /\ LruInit /\ StillRr2
        \/ which = "lru" /\ StillFifo /\ LruInit /\ StillRr2
        \/ which = "rr2" /\ StillFifo /\ LruInit /\ Rr2Init

InFifo == which = "fifo" /\ UNCHANGED <<which, lru_vars, rr2_vars>>
InLru  == which = "lru" /\ UNCHANGED <<which, fifo_vars, rr2_vars>>
InRr2  == which = "rr2" /\ UNCHANGED <<which, fifo_vars, lru_vars>>

Next == \/ FifoNext /\ InFifo
        \/ LruNext /\ InLru
        \/ Rr2Next /\ InRr2

\* The fairness that PrimArbRr2 states.
Spec == /\ Init /\ [][Next]_all_vars
        /\ WF_rr2_vars(which = "rr2" /\ \E ended \in SUBSET inUse, alloc, paired \in BOOLEAN :
                            Rr2Edge(alloc, paired, ended) /\ InRr2)
=============================================================================
