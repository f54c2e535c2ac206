---------------------------- MODULE PrimFifoReg ----------------------------
(***************************************************************************)
(* prim_fifo_reg: the register FIFO in front of and behind almost every    *)
(* handshake of the shire.  Occupancy is not counted: it is a one-hot      *)
(* shift register `level', here the set of the bits that are 1.  The       *)
(* oldest value sits in an output register `rdata', the others in a        *)
(* circular memory of Depth-1 words, which a push bypasses when the output *)
(* register is, or is becoming, free.                                      *)
(* An action is one rising clock edge; `port' holds the input pins push,   *)
(* wdata and pop that were sampled there.  Nothing keeps the user from     *)
(* pushing a full FIFO or popping an empty one: the code must cope.        *)
(***************************************************************************)
EXTENDS Naturals, Sequences

CONSTANTS Data,   \* the values of Width bits, abstracted to a small set
          Depth   \* entries, the output register included

\* The single-entry variant (gen_depth_1) has no instance in the repository.
ASSUME DepthAssumption == Depth \in Nat /\ Depth >= 2

MemDepth == Depth - 1

VARIABLES port, level, wptr, rptr, mem, rdata

fifo_vars == <<port, level, wptr, rptr, mem, rdata>>

Pins == [push : BOOLEAN, wdata : Data, pop : BOOLEAN]

\* rdata and mem have no reset: they start with whatever the flops hold.
FifoInit == /\ port \in Pins
            /\ level = {0}
            /\ wptr = 0
            /\ rptr = 0
            /\ mem \in [0 .. MemDepth - 1 -> Data]
            /\ rdata \in Data

valid    == 0 \notin level
memValid == 0 \notin level /\ 1 \notin level
full     == Depth \in level

\* The bit shifted out at either end is lost.
ShiftLeft  == {j \in 1 .. Depth : j - 1 \in level}
ShiftRight == {j \in 0 .. Depth - 1 : j + 1 \in level}

\* level moves only when exactly one of "taken" and "given" happens.
LevelNext(push, pop) ==
    LET taken == push /\ ~full
        given == pop /\ valid
    IN  IF taken = given THEN level ELSE IF taken THEN ShiftLeft ELSE ShiftRight

\* Mutant: counts the push that bypasses the memory.
incWptrNoPop(push, pop) == push /\ valid /\ ~full

incWptr(push, pop) == push /\ (memValid \/ (valid /\ ~pop)) /\ ~full

incRptr(pop) == pop /\ memValid

Bump(ptr) == IF ptr = MemDepth - 1 THEN 0 ELSE ptr + 1

\* Mutant: forgets that a pop frees the output register.
bypassOnlyEmpty(push, pop) == push /\ ~valid

\* The push goes straight to the output register.
bypass(push, pop) == (push /\ ~valid) \/ (push /\ pop /\ ~memValid)

\* gen_depth_n at one clock edge.
ClockN(push, d, pop) ==
    /\ level' = LevelNext(push, pop)
    /\ wptr'  = IF incWptr(push, pop) THEN Bump(wptr) ELSE wptr
    /\ rptr'  = IF incRptr(pop) THEN Bump(rptr) ELSE rptr
    /\ mem'   = IF incWptr(push, pop) THEN [mem EXCEPT ![wptr] = d] ELSE mem
    /\ rdata' = IF bypass(push, pop) THEN d
                ELSE IF incRptr(pop) THEN mem[rptr] ELSE rdata

\* rst_ni is asynchronous and may be asserted at any time.
FifoReset == /\ level' = {0}
             /\ wptr' = 0
             /\ rptr' = 0
             /\ UNCHANGED <<port, mem, rdata>>

FifoNext == \/ \E push, pop \in BOOLEAN, d \in Data :
               /\ port' = [push |-> push, wdata |-> d, pop |-> pop]
               /\ ClockN(push, d, pop)
            \/ FifoReset

FifoSpec == FifoInit /\ [][FifoNext]_fifo_vars

-----------------------------------------------------------------------------
\* In particular the pointers always address a word of mem.
FifoTypeOK == /\ port \in Pins
              /\ level \subseteq 0 .. Depth
              /\ wptr \in 0 .. MemDepth - 1
              /\ rptr \in 0 .. MemDepth - 1
              /\ mem \in [0 .. MemDepth - 1 -> Data]
              /\ rdata \in Data

\* Exactly one bit of level is set: the shift register never loses or splits
\* its one, whatever the user pushes and pops (prim_fifo_reg.sv:67-86).
LevelIsOneHot == \E i \in 0 .. Depth : level = {i}

Count == CHOOSE i \in 0 .. Depth : i \in level

\* Words in mem: all but the one in the output register.
InMem == IF Count = 0 THEN 0 ELSE Count - 1

\* The pointers, which wrap by comparison and never look at level, stay as
\* far apart as level says: neither laps the other.
PointersMatchLevel == wptr = rptr + InMem \/ wptr = rptr + InMem - MemDepth

-----------------------------------------------------------------------------
(* The queue the code implements: output register, then mem from rptr.     *)
MemAt(k) == mem[IF rptr + k < MemDepth THEN rptr + k ELSE rptr + k - MemDepth]

Contents == [i \in 1 .. Count |-> IF i = 1 THEN rdata ELSE MemAt(i - 2)]

Fifo == INSTANCE BoundedFifo WITH queue <- Contents

\* The FIFO never loses, duplicates or reorders a value it accepted, and
\* never holds more than Depth of them.
IsBoundedFifo == Fifo!Spec
=============================================================================
