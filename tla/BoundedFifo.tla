---------------------------- MODULE BoundedFifo ----------------------------
(***************************************************************************)
(* What every FIFO of the chip promises its users: a queue of at most      *)
(* Depth values, handed out in the order they were accepted, none lost and *)
(* none invented.  One step is one clock edge; `port' holds the pins that  *)
(* were sampled there.                                                     *)
(***************************************************************************)
EXTENDS FifoOps

CONSTANTS Data, Depth

VARIABLES queue, port

vars == <<queue, port>>

Pins == [push : BOOLEAN, wdata : Data, pop : BOOLEAN]

Init == queue = <<>> /\ port \in Pins

Edge == \E p \in Pins :
           /\ port' = p
           /\ queue' = After(queue, Depth, p.push, p.wdata, p.pop)

Reset == queue' = <<>> /\ UNCHANGED port

Next == Edge \/ Reset

Spec == Init /\ [][Next]_vars
=============================================================================
