----------------------------- MODULE PrimArbRr2 -----------------------------
(***************************************************************************)
(* prim_arb_rr2 as shirecache_bank_reqq_alloc uses it: two free entries    *)
(* chosen ahead of time and held in registers until they are allocated.    *)
(* The requests are the entries that are allowed and not in use.  The      *)
(* registers are on a gated clock, which runs at least when something is   *)
(* allocated.  A step is one edge of the free-running clock.               *)
(***************************************************************************)
EXTENDS RoundRobin

VARIABLES mask,      \* of the prim_arb_rr inside
          v, g,      \* valid_o, grants_o
          v2, g2,    \* valid2_o, grants2_o
          inUse      \* the entries that are valid

rr2_vars == <<mask, v, g, v2, g2, inUse>>

Rr2Init == /\ mask = {} /\ inUse = {}
           /\ v = FALSE /\ g = {} /\ v2 = FALSE /\ g2 = {}

\* Mutant: the secondary grant stays among the candidates.
CandidatesSecond == (Requesters \ inUse) \ (IF v THEN g ELSE {})

\* The requests less what is granted already.
Candidates == ((Requesters \ inUse) \ (IF v THEN g ELSE {})) \ (IF v2 THEN g2 ELSE {})

Lowest(s) == {i \in s : \A j \in s : i <= j}
Highest(s) == {i \in s : \A j \in s : j <= i}

Primary == Grants(mask, Candidates)

Secondary == IF Highest(Candidates) # Primary THEN Highest(Candidates) ELSE Lowest(Candidates)

\* Mutant: the registers wait for an allocation.
RegistersOnAlloc(alloc) == alloc

\* The registers load.
Registers(alloc) == alloc \/ ~v \/ ~v2

Clock(alloc) ==
    /\ mask' = MaskUpdate(mask, Candidates, alloc)
    /\ IF Registers(alloc)
       THEN /\ v' = (Primary # {}) /\ g' = Primary
            /\ v2' = (Highest(Candidates) # Primary \/ Lowest(Candidates) # Primary)
            /\ g2' = Secondary
       ELSE UNCHANGED <<v, g, v2, g2>>

\* One edge: the holder of the primary grant is allocated or not, that of the
\* secondary one with it or not, and some entries end.
Rr2Edge(alloc, paired, ended) ==
    /\ alloc => v
    /\ paired => alloc /\ v2
    /\ inUse' = (inUse \ ended) \cup (IF alloc THEN g ELSE {}) \cup (IF paired THEN g2 ELSE {})
    /\ Clock(alloc)

\* The clock of the registers is off; entries may end all the same.
Gated(ended) == inUse' = inUse \ ended /\ UNCHANGED <<mask, v, g, v2, g2>>

Rr2Next == \E ended \in SUBSET inUse : \/ \E alloc, paired \in BOOLEAN : Rr2Edge(alloc, paired, ended)
                                       \/ Gated(ended)

Rr2Spec == Rr2Init /\ [][Rr2Next]_rr2_vars

\* A request that waits keeps the clock on.
Rr2FairSpec == /\ Rr2Spec
               /\ WF_rr2_vars(\E ended \in SUBSET inUse, alloc, paired \in BOOLEAN :
                             Rr2Edge(alloc, paired, ended))

-----------------------------------------------------------------------------
Rr2TypeOK == /\ {mask, g, g2, inUse} \subseteq SUBSET Requesters
             /\ {v, v2} \subseteq BOOLEAN

\* The grants held in reserve, for however long and whatever the clock gate
\* does, are one free entry each and never the same one twice: an allocation
\* cannot land on a live entry.
GrantsFree == /\ v => \E i \in Requesters \ inUse : g = {i}
              /\ v2 => \E i \in Requesters \ inUse : g2 = {i}
              /\ v /\ v2 => g # g2

\* As long as entries are free there is a grant again and again: the queue
\* never looks full when it is not.
GrantComesBack == []<>(v \/ inUse = Requesters)
=============================================================================
