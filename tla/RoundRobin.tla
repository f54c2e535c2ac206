----------------------------- MODULE RoundRobin -----------------------------
(***************************************************************************)
(* The combinational part of prim_arb_rr.  mask holds the clients above    *)
(* the last one that was popped; requests under the mask go first, all     *)
(* requests when there are none.  The grant is the XOR of a thermometer    *)
(* code with itself shifted by one, which is also the next mask.  Vectors  *)
(* are the sets of their 1 bits.                                           *)
(***************************************************************************)
EXTENDS Naturals

CONSTANT NumReqs

ASSUME NumReqsAssumption == NumReqs \in Nat \ {0}

Requesters == 0 .. NumReqs - 1

Thermometer(reqs) == {i \in Requesters : \E j \in reqs : j <= i}

\* Mutant: requests under the mask get no preference.
CodeUnmasked(mask, reqs) == Thermometer(reqs)

Code(mask, reqs) ==
    LET masked == mask \cap reqs
    IN  Thermometer(IF masked # {} THEN masked ELSE reqs)

MaskNext(mask, reqs) == {i \in Requesters : i > 0 /\ i - 1 \in Code(mask, reqs)}

Grants(mask, reqs) ==
    (Code(mask, reqs) \ MaskNext(mask, reqs)) \cup (MaskNext(mask, reqs) \ Code(mask, reqs))

MaskUpdate(mask, reqs, pop) == IF reqs # {} /\ pop THEN MaskNext(mask, reqs) ELSE mask
=============================================================================
