------------------------------ MODULE FifoOps ------------------------------
(***************************************************************************)
(* One clock edge of a FIFO, as a function of its contents and its pins.   *)
(* BoundedFifo, which prim_fifo_reg implements, is built from these, and   *)
(* so are the blocks that instantiate such FIFOs.                          *)
(***************************************************************************)
EXTENDS Naturals, Sequences

\* A push into a full queue is refused; only a one-entry queue has room at
\* the edge that frees its place.
Room(q, depth, pop) == Len(q) < depth \/ (depth = 1 /\ pop)

\* A pop of an empty queue is ignored.
After(q, depth, push, d, pop) ==
    LET rest == IF pop /\ q # <<>> THEN Tail(q) ELSE q
    IN  IF push /\ Room(q, depth, pop) THEN Append(rest, d) ELSE rest
=============================================================================
