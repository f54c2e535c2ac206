------------------------- MODULE ArbitrationProofs -------------------------
(***************************************************************************)
(* What the two kinds of arbiter promise those who use them, for any       *)
(* number of clients: the priority matrix of LruOrder has one winner, and  *)
(* the thermometer codes of RoundRobin grant one of the requests.          *)
(***************************************************************************)
EXTENDS LruOrder, RoundRobin, FiniteSetTheorems, WellFoundedInduction, TLAPS

(***************************************************************************)
(* The priority matrix.                                                    *)
(***************************************************************************)
\* Of two clients exactly one outranks the other, whatever the matrix.
LEMMA OutranksTotal ==
    ASSUME NEW p, NEW i \in Clients, NEW j \in Clients, i # j
    PROVE  Outranks(p, i, j) <=> ~Outranks(p, j, i)
BY NumClientsAssumption DEF Outranks, Clients

\* What demoting w means for the order: w is below everybody, the rest is
\* as before.
LEMMA DemoteOutranks ==
    ASSUME NEW p \in SUBSET Triangle, NEW w \in Clients,
           NEW i \in Clients, NEW j \in Clients, i # j
    PROVE  Outranks(Demote(p, w), i, j) <=> j = w \/ (i # w /\ Outranks(p, i, j))
<1> i \in Int /\ j \in Int /\ w \in Int
  BY NumClientsAssumption DEF Clients
<1>1. CASE j < i
  <2>1. <<i, j>> \in Triangle
    BY <1>1 DEF Triangle
  <2>2. Outranks(p, i, j) <=> <<i, j>> \in p
    BY <1>1 DEF Outranks
  <2>3. Outranks(Demote(p, w), i, j) <=> <<i, j>> \in Demote(p, w)
    BY <1>1 DEF Outranks
  <2> QED BY <2>1, <2>2, <2>3 DEF Demote
<1>2. CASE i < j
  <2>1. <<j, i>> \in Triangle
    BY <1>2 DEF Triangle
  <2>2. Outranks(p, i, j) <=> <<j, i>> \notin p
    BY <1>2 DEF Outranks
  <2>3. Outranks(Demote(p, w), i, j) <=> <<j, i>> \notin Demote(p, w)
    BY <1>2 DEF Outranks
  <2> QED BY <2>1, <2>2, <2>3 DEF Demote
<1> QED BY <1>1, <1>2

\* Demoting a client only moves bits of the triangle.
LEMMA DemoteType ==
    ASSUME NEW p \in SUBSET Triangle, NEW w \in Clients
    PROVE  Demote(p, w) \in SUBSET Triangle
BY DEF Demote

\* The order stays total when a client goes to its end.
LEMMA DemoteKeepsOrder ==
    ASSUME NEW p \in SUBSET Triangle, NEW w \in Clients, IsOrder(p)
    PROVE  IsOrder(Demote(p, w))
BY DemoteOutranks DEF IsOrder

\* Nobody wins together with another client.
LEMMA AtMostOneWinner ==
    ASSUME NEW p, NEW bid \in SUBSET Clients,
           NEW i \in Winners(p, bid), NEW j \in Winners(p, bid)
    PROVE  i = j
BY OutranksTotal DEF Winners

\* The number of clients above i is a rank: it grows strictly downwards.
LEMMA RankGrows ==
    ASSUME NEW p, IsOrder(p), NEW i \in Clients, NEW j \in Clients, i # j,
           Outranks(p, i, j)
    PROVE  LET above(k) == {c \in Clients \ {k} : Outranks(p, c, k)}
           IN  Cardinality(above(i)) < Cardinality(above(j))
<1> DEFINE above(k) == {c \in Clients \ {k} : Outranks(p, c, k)}
<1>1. IsFiniteSet(Clients)
  BY NumClientsAssumption, FS_Interval DEF Clients
<1>2. IsFiniteSet(above(j))
  BY <1>1, FS_Subset
<1>3. above(i) \subseteq above(j)
  <2> SUFFICES ASSUME NEW c \in above(i) PROVE c \in above(j)
    OBVIOUS
  <2>1. c # j
    BY OutranksTotal
  <2> QED BY <2>1 DEF IsOrder
<1>4. i \in above(j) /\ i \notin above(i)
  OBVIOUS
<1>5. above(i) # above(j)
  BY <1>4
<1> HIDE DEF above
<1>6. Cardinality(above(i)) < Cardinality(above(j))
  BY <1>2, <1>3, <1>5, FS_Subset, FS_CardinalityType
<1> QED BY <1>6 DEF above

\* An order has a winner for every non-empty set of bids.
LEMMA SomeWinner ==
    ASSUME NEW p, IsOrder(p), NEW bid \in SUBSET Clients, bid # {}
    PROVE  Winners(p, bid) # {}
<1> DEFINE above(k) == {c \in Clients \ {k} : Outranks(p, c, k)}
           rank(k) == Cardinality(above(k))
           ranks == {rank(k) : k \in bid}
           less == OpToRel(<, Nat)
<1>1. IsFiniteSet(Clients)
  BY NumClientsAssumption, FS_Interval DEF Clients
<1>2. \A k \in Clients : rank(k) \in Nat
  BY <1>1, FS_Subset, FS_CardinalityType
<1>3. ranks \subseteq Nat /\ ranks # {}
  BY <1>2
<1>4. IsWellFoundedOn(less, Nat)
  BY NatLessThanWellFounded
<1>5. \E x \in ranks : \A y \in ranks : <<y, x>> \notin less
  BY <1>3, <1>4, WFMin
<1>6. PICK i \in bid : \A k \in bid : <<rank(k), rank(i)>> \notin less
  BY <1>5
<1>7. \A k \in bid : ~(rank(k) < rank(i))
  BY <1>2, <1>6 DEF OpToRel
<1>8. \A k \in bid \ {i} : Outranks(p, i, k)
  <2> SUFFICES ASSUME NEW k \in bid \ {i}, ~Outranks(p, i, k) PROVE FALSE
    OBVIOUS
  <2>1. Outranks(p, k, i)
    BY OutranksTotal
  <2>2. rank(k) < rank(i)
    BY <2>1, RankGrows
  <2> QED BY <1>7, <2>2
<1> QED BY <1>8 DEF Winners

-----------------------------------------------------------------------------
(***************************************************************************)
(* The thermometer codes.                                                  *)
(***************************************************************************)
Minimum(s, i) == i \in s /\ \A j \in s : i <= j

\* A set of clients that is not empty has a least element: what the
\* thermometer codes of the arbiter are built on.
LEMMA LeastExists ==
    ASSUME NEW s \in SUBSET Requesters, s # {}
    PROVE  \E i \in s : Minimum(s, i)
<1>1. s \subseteq Nat
  BY NumReqsAssumption DEF Requesters
<1> DEFINE less == OpToRel(<, Nat)
<1>2. IsWellFoundedOn(less, Nat)
  BY NatLessThanWellFounded
<1>3. \E i \in s : \A j \in s : <<j, i>> \notin less
  BY <1>1, <1>2, WFMin
<1>4. PICK i \in s : \A j \in s : <<j, i>> \notin less
  BY <1>3
<1>5. \A j \in s : ~(j < i)
  BY <1>1, <1>4 DEF OpToRel
<1> QED
  BY <1>1, <1>5 DEF Minimum

\* And a greatest one.
LEMMA GreatestExists ==
    ASSUME NEW s \in SUBSET Requesters, s # {}
    PROVE  \E i \in s : \A j \in s : j <= i
<1> DEFINE t == {n \in Requesters : NumReqs - 1 - n \in s}
<1>1. t # {}
  <2>1. PICK i \in s : TRUE
    OBVIOUS
  <2>2. i \in Nat /\ i <= NumReqs - 1 /\ NumReqs - 1 - (NumReqs - 1 - i) = i
    BY NumReqsAssumption DEF Requesters
  <2>3. NumReqs - 1 - i \in t
    BY <2>1, <2>2, NumReqsAssumption DEF Requesters
  <2> QED
    BY <2>3
<1>2. PICK m \in t : Minimum(t, m)
  BY <1>1, LeastExists
<1>3. ASSUME NEW j \in s PROVE j <= NumReqs - 1 - m
  <2>1. j \in Nat /\ j <= NumReqs - 1 /\ NumReqs - 1 - (NumReqs - 1 - j) = j
    BY NumReqsAssumption DEF Requesters
  <2>2. NumReqs - 1 - j \in t
    BY <2>1, NumReqsAssumption DEF Requesters
  <2>3. m <= NumReqs - 1 - j
    BY <1>2, <2>2 DEF Minimum
  <2> QED
    BY <2>1, <2>3, NumReqsAssumption DEF Requesters
<1> QED
  BY <1>2, <1>3

\* The XOR of a thermometer code with itself shifted by one is the least
\* element the code was made from.
LEMMA ThermometerEdge ==
    ASSUME NEW s \in SUBSET Requesters, NEW m \in s, Minimum(s, m),
           NEW under, NEW reqs, Code(under, reqs) = Thermometer(s)
    PROVE  Grants(under, reqs) = {m}
<1>1. m \in Nat /\ m < NumReqs
  BY NumReqsAssumption DEF Requesters
<1>2. Code(under, reqs) = {i \in Requesters : m <= i}
  <2>1. ASSUME NEW i \in Requesters PROVE (\E j \in s : j <= i) <=> m <= i
    <3>1. i \in Nat
      BY NumReqsAssumption DEF Requesters
    <3>2. \A j \in s : j \in Nat /\ m <= j
      BY NumReqsAssumption DEF Requesters, Minimum
    <3> QED
      BY <1>1, <3>1, <3>2
  <2> QED
    BY <2>1 DEF Thermometer
<1>3. MaskNext(under, reqs) = {i \in Requesters : m < i}
  <2>1. ASSUME NEW i \in Requesters
        PROVE  (i > 0 /\ i - 1 \in Requesters /\ m <= i - 1) <=> m < i
    BY <1>1, NumReqsAssumption DEF Requesters
  <2> QED
    BY <1>2, <2>1 DEF MaskNext
<1>4. ASSUME NEW i \in Requesters
      PROVE  i = m <=> i \in (Code(under, reqs) \ MaskNext(under, reqs))
    <2>1. i \in Nat
      BY NumReqsAssumption DEF Requesters
    <2> QED
      BY <1>1, <1>2, <1>3, <2>1
<1>5. MaskNext(under, reqs) \ Code(under, reqs) = {}
  <2>1. ASSUME NEW i \in Requesters, m < i PROVE m <= i
    BY <1>1, <2>1, NumReqsAssumption DEF Requesters
  <2> QED
    BY <1>2, <1>3, <2>1
<1>6. Code(under, reqs) \subseteq Requesters
  BY <1>2
<1> QED
  BY <1>4, <1>5, <1>6 DEF Grants

\* The round robin grants one of the requests, and nothing when there are none.
LEMMA OneGrant ==
    ASSUME NEW m, NEW reqs \in SUBSET Requesters
    PROVE  IF reqs = {} THEN Grants(m, reqs) = {} ELSE \E i \in reqs : Grants(m, reqs) = {i}
<1>1. CASE reqs = {}
  <2>1. Code(m, reqs) = {}
    BY <1>1 DEF Code, Thermometer
  <2>2. MaskNext(m, reqs) = {}
    BY <2>1 DEF MaskNext
  <2> QED
    BY <1>1, <2>1, <2>2 DEF Grants
<1>2. CASE reqs # {}
  <2> DEFINE s == IF m \cap reqs # {} THEN m \cap reqs ELSE reqs
  <2>1. s \in SUBSET Requesters /\ s # {} /\ s \subseteq reqs
    BY <1>2
  <2>2. Code(m, reqs) = Thermometer(s)
    BY DEF Code
  <2>3. PICK i \in s : Minimum(s, i)
    BY <2>1, LeastExists
  <2>4. Grants(m, reqs) = {i}
    BY <2>1, <2>2, <2>3, ThermometerEdge
  <2> QED
    BY <1>2, <2>1, <2>4
<1> QED
  BY <1>1, <1>2

\* The mask holds requesters only.
LEMMA MaskIsMask == \A m, reqs, pop : m \subseteq Requesters => MaskUpdate(m, reqs, pop) \subseteq Requesters
  BY DEF MaskUpdate, MaskNext

\* Only requesters are granted, whatever the mask holds.
LEMMA GrantsRequested ==
    ASSUME NEW m, NEW reqs \in SUBSET Requesters
    PROVE  Grants(m, reqs) \subseteq reqs
BY OneGrant
=============================================================================
