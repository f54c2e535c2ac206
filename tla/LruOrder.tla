------------------------------ MODULE LruOrder ------------------------------
(***************************************************************************)
(* The triangular priority matrix shared by every least-recently-used      *)
(* element of the chip.  prio_q[i][j] exists for j < i only and is 1 when  *)
(* client i outranks client j; here prio is the set of the pairs <<i, j>>, *)
(* j < i, whose bit is 1.                                                  *)
(***************************************************************************)
EXTENDS Naturals

CONSTANT NumClients

ASSUME NumClientsAssumption == NumClients \in Nat \ {0}

Clients == 0 .. NumClients - 1

Triangle == {p \in Clients \X Clients : p[2] < p[1]}

Outranks(prio, i, j) == IF j < i THEN <<i, j>> \in prio ELSE <<j, i>> \notin prio

\* Mutant: compares with the clients of lower number only.
WinnersLowOnly(prio, bid) ==
    {i \in bid : \A j \in bid : j < i => Outranks(prio, i, j)}

Winners(prio, bid) == {i \in bid : \A j \in bid \ {i} : Outranks(prio, i, j)}

\* Mutant: the column loop starts one client late.
DemoteLate(prio, i) ==
    {p \in prio : p[1] # i} \cup {p \in Triangle : p[2] = i /\ p[1] > i + 1}

\* The loop body of every priority update: i becomes the least.
Demote(prio, i) == {p \in prio : p[1] # i} \cup {p \in Triangle : p[2] = i}

\* The matrix is a strict total order as long as it has no cycle of three.
IsOrder(prio) ==
    \A i, j, k \in Clients :
        /\ i # j /\ j # k /\ i # k
        /\ Outranks(prio, i, j)
        /\ Outranks(prio, j, k)
        => Outranks(prio, i, k)
=============================================================================
