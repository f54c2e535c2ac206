---------------------------- MODULE RspMuxProofs ----------------------------
(***************************************************************************)
(* The response multiplexer for any number of sources and ports and any    *)
(* depth of the credit FIFOs. Its arbiters are those of ArbitrationProofs. *)
(***************************************************************************)
EXTENDS RspMux, TLAPS

Arb == INSTANCE ArbitrationProofs WITH NumClients <- NumPorts, NumReqs <- NumSources

\* The matrix is an order, the credits are counted within their FIFOs, and what
\* is queued for a port is a response that takes the FIFO of that port.
RspIInv ==
    /\ TypeOK
    /\ fifo \in [Ports -> Seq(Responses)]
    /\ Lru!IsOrder(prio)

-----------------------------------------------------------------------------
(***************************************************************************)
(* The arbiters.                                                           *)
(***************************************************************************)
LEMMA Assumptions ==
    /\ Arb!NumClientsAssumption /\ Arb!NumReqsAssumption
    /\ Arb!Clients = Ports /\ Arb!Requesters = Sources
BY RspMuxAssumption
   DEF Arb!NumClientsAssumption, Arb!NumReqsAssumption, Arb!Clients, Arb!Requesters, Ports, Sources

\* At most one bidder wins, and one does when the matrix is an order.
LEMMA OneWinner ==
    ASSUME NEW p, NEW bid \in SUBSET Ports
    PROVE  /\ Lru!Winners(p, bid) \subseteq bid
           /\ \A i, j \in Lru!Winners(p, bid) : i = j
           /\ Lru!IsOrder(p) /\ bid # {} => Lru!Winners(p, bid) # {}
<1>1. Lru!Winners(p, bid) = Arb!Winners(p, bid)
  BY DEF Lru!Winners, Arb!Winners, Lru!Outranks, Arb!Outranks
<1>2. Lru!IsOrder(p) <=> Arb!IsOrder(p)
  BY DEF Lru!IsOrder, Arb!IsOrder, Lru!Outranks, Arb!Outranks, Lru!Clients, Arb!Clients
<1>3. Arb!Winners(p, bid) \subseteq bid
  BY DEF Arb!Winners
<1>4. \A i, j \in Arb!Winners(p, bid) : i = j
  BY Assumptions, Arb!AtMostOneWinner
<1>5. Arb!IsOrder(p) /\ bid # {} => Arb!Winners(p, bid) # {}
  BY Assumptions, Arb!SomeWinner
<1>6. QED
  BY <1>1, <1>2, <1>3, <1>4, <1>5

\* Demoting a port keeps the order.
LEMMA OrderKept ==
    ASSUME NEW p \in SUBSET Lru!Triangle, Lru!IsOrder(p), NEW w \in Ports
    PROVE  Lru!Demote(p, w) \in SUBSET Lru!Triangle /\ Lru!IsOrder(Lru!Demote(p, w))
<1>1. Lru!Triangle = Arb!Triangle
  BY DEF Lru!Triangle, Arb!Triangle, Lru!Clients, Arb!Clients
<1>2. Lru!Demote(p, w) = Arb!Demote(p, w)
  BY <1>1 DEF Lru!Demote, Arb!Demote
<1>3. \A m : Lru!IsOrder(m) <=> Arb!IsOrder(m)
  BY DEF Lru!IsOrder, Arb!IsOrder, Lru!Outranks, Arb!Outranks, Lru!Clients, Arb!Clients
<1>4. Arb!Demote(p, w) \in SUBSET Arb!Triangle
  BY <1>1, Assumptions, Arb!DemoteType
<1>5. Arb!IsOrder(Arb!Demote(p, w))
  BY <1>1, <1>3, Assumptions, Arb!DemoteKeepsOrder
<1>6. QED
  BY <1>1, <1>2, <1>3, <1>4, <1>5

\* A port with a response on offer grants one source that holds it.
LEMMA OneSource ==
    ASSUME NEW p \in Ports, validPerPort(p) # {}
    PROVE  \E s \in validPerPort(p) : grantPerPort(p) = {s}
<1>1. validPerPort(p) \in SUBSET Sources
  BY DEF validPerPort
<1>2. Arb!Grants(mask[p], validPerPort(p)) = Rr!Grants(mask[p], validPerPort(p))
  BY DEF Rr!Grants, Rr!MaskNext, Rr!Code, Rr!Thermometer, Rr!Requesters,
     Arb!Grants, Arb!MaskNext, Arb!Code, Arb!Thermometer, Arb!Requesters
<1>3. \E s \in validPerPort(p) : Arb!Grants(mask[p], validPerPort(p)) = {s}
  BY <1>1, Assumptions, Arb!OneGrant
<1>4. QED
  BY <1>2, <1>3 DEF grantPerPort

\* The mask of the round robin holds sources only.
LEMMA MaskStays ==
    ASSUME NEW m \in SUBSET Sources, NEW reqs, NEW pop
    PROVE  Rr!MaskUpdate(m, reqs, pop) \in SUBSET Sources
BY DEF Rr!MaskUpdate, Rr!MaskNext, Rr!Requesters, Sources
-----------------------------------------------------------------------------
(***************************************************************************)
(* The inductive invariant.                                                *)
(***************************************************************************)
LEMMA RspInitially == Init => RspIInv
<1> SUFFICES ASSUME Init PROVE RspIInv
  OBVIOUS
<1>1. offer \in [Sources -> Offers] /\ mask \in [Ports -> SUBSET Sources]
  BY DEF Init, Offers
<1>2. fifo \in [Ports -> Seq(Responses)] /\ \A p \in Ports : Len(fifo[p]) = 0 /\ DOMAIN fifo[p] = {}
  BY DEF Init
<1>3. prio \subseteq Lru!Triangle /\ Lru!IsOrder(prio)
  <2>1. \A i, j \in Ports : Lru!Outranks({}, i, j) <=> ~(j < i)
    BY DEF Lru!Outranks
  <2>2. \A i, j, k \in Ports : ~(j < i) /\ ~(k < j) => ~(k < i)
    BY RspMuxAssumption DEF Ports
  <2>3. Lru!IsOrder({})
    BY <2>1, <2>2 DEF Lru!IsOrder, Lru!Clients, Ports
  <2>4. QED
    BY <2>3 DEF Init
<1>4. credit \in [Ports -> 0 .. FifoDepth]
  BY RspMuxAssumption DEF Init
<1>5. QED
  BY <1>1, <1>2, <1>3, <1>4 DEF RspIInv, TypeOK

\* What bids has a FIFO that is not empty, and its head is a response.
LEMMA Heads ==
    ASSUME RspIInv, NEW p \in fifoValid
    PROVE  p \in Ports /\ Head(fifo[p]) \in Responses /\ destHot(p) \in SUBSET Ports
<1>1. p \in Ports /\ fifo[p] \in Seq(Responses) /\ fifo[p] # <<>>
  BY DEF fifoValid, RspIInv
<1>2. Head(fifo[p]) \in Responses
  BY <1>1
<1>3. QED
  BY <1>1, <1>2, RspMuxAssumption DEF destHot

\* At most one FIFO is popped at an edge, and it is one that has its resources.
LEMMA OneGoes ==
    /\ opportunisticGrant \subseteq bid1
    /\ \A i, j \in opportunisticGrant : i = j
    /\ \A i, j \in priorityGrant : i = j
    /\ priorityGrant \subseteq fifoValid
    /\ RspIInv /\ bid1 # {} => opportunisticGrant # {}
    /\ RspIInv /\ fifoValid # {} => priorityGrant # {}
<1>1. fifoValid \in SUBSET Ports /\ bid1 \in SUBSET Ports
  BY DEF fifoValid, bid1
<1>2. QED
  BY <1>1, OneWinner DEF opportunisticGrant, priorityGrant, RspIInv

\* One edge of the FIFO of a port.
LEMMA FifoStays ==
    ASSUME RspIInv, NEW p \in Ports
    PROVE  /\ FifoNext(p) \in Seq(Responses)
           /\ Len(FifoNext(p)) <= 2
           /\ \A i \in DOMAIN FifoNext(p) : FifoNext(p)[i].port = p
<1> DEFINE any == validPerPort(p) # {}
           won == CHOOSE s \in grantPerPort(p) : TRUE
           got == IF any THEN CHOOSE r \in offer[won] : TRUE ELSE {}
           rest == IF p \in opportunisticGrant /\ fifo[p] # <<>> THEN Tail(fifo[p]) ELSE fifo[p]
<1>1. FifoNext(p) = IF any /\ Len(fifo[p]) < 2 THEN Append(rest, got) ELSE rest
  BY DEF FifoNext, After, Room
<1>2. any => got \in Responses /\ got.port = p
  <2> SUFFICES ASSUME any PROVE got \in Responses /\ got.port = p
    OBVIOUS
  <2>1. PICK s \in validPerPort(p) : grantPerPort(p) = {s}
    BY OneSource
  <2>2. won = s
    BY <2>1
  <2>3. s \in Sources /\ (\E r \in offer[s] : r.port = p) /\ offer[s] \in Offers
    BY DEF validPerPort, RspIInv, TypeOK
  <2>4. PICK r \in Responses : offer[s] = {r} /\ r.port = p
    BY <2>3 DEF Offers
  <2>5. got = r
    BY <2>2, <2>4
  <2>6. QED
    BY <2>4, <2>5
<1>3. /\ fifo[p] \in Seq(Responses) /\ Len(fifo[p]) <= 2
      /\ \A i \in 1 .. Len(fifo[p]) : fifo[p][i].port = p
  BY DEF RspIInv, TypeOK
<1> HIDE DEF got, any
<1>4. /\ rest \in Seq(Responses) /\ Len(rest) <= Len(fifo[p])
      /\ \A i \in 1 .. Len(rest) : rest[i].port = p
  <2>1. CASE p \in opportunisticGrant /\ fifo[p] # <<>>
    <3> DEFINE q == fifo[p]
    <3>1. q \in Seq(Responses) /\ q # <<>> /\ \A i \in 1 .. Len(q) : q[i].port = p
      BY <1>3, <2>1
    <3> HIDE DEF q
    <3>2. /\ Tail(q) \in Seq(Responses) /\ Len(Tail(q)) = Len(q) - 1 /\ Len(q) \in Nat
          /\ \A i \in 1 .. Len(Tail(q)) : Tail(q)[i] = q[i + 1] /\ i + 1 \in 1 .. Len(q)
      BY <3>1
    <3>3. \A i \in 1 .. Len(Tail(q)) : Tail(q)[i].port = p
      BY <3>1, <3>2
    <3>4. rest = Tail(q) /\ q = fifo[p]
      BY <2>1 DEF q
    <3>5. rest \in Seq(Responses) /\ Len(rest) <= Len(q)
      BY <3>2, <3>4
    <3>6. \A i \in 1 .. Len(rest) : rest[i].port = p
      BY <3>3, <3>4
    <3>7. QED
      BY <3>4, <3>5, <3>6
  <2>2. CASE ~(p \in opportunisticGrant /\ fifo[p] # <<>>)
    BY <1>3, <2>2
  <2>3. QED
    BY <2>1, <2>2
<1> HIDE DEF rest
<1>5. CASE any /\ Len(fifo[p]) < 2
  <2>1. /\ Append(rest, got) \in Seq(Responses)
        /\ Len(Append(rest, got)) = Len(rest) + 1 /\ Len(rest) \in Nat /\ Len(fifo[p]) \in Nat
        /\ DOMAIN Append(rest, got) = 1 .. Len(rest) + 1
        /\ \A i \in 1 .. Len(rest) : Append(rest, got)[i] = rest[i]
        /\ Append(rest, got)[Len(rest) + 1] = got
    BY <1>2, <1>3, <1>4, <1>5
  <2>2. \A i \in 1 .. Len(rest) + 1 : Append(rest, got)[i].port = p
    BY <1>2, <1>4, <1>5, <2>1
  <2>3. QED
    BY <1>1, <1>4, <1>5, <2>1, <2>2
<1>6. CASE ~(any /\ Len(fifo[p]) < 2)
  BY <1>1, <1>3, <1>4, <1>6
<1>7. QED
  BY <1>5, <1>6

\* An edge keeps the invariant, whatever arrives and is drained.
LEMMA RspEdgeKeeps ==
    ASSUME RspIInv, NEW new \in [Sources -> Offers], NEW drained \in SUBSET Ports,
           Edge(new, drained)
    PROVE  RspIInv'
<1>1. offer' \in [Sources -> Offers]
  BY DEF Edge, OfferNext, RspIInv, TypeOK
<1>2. mask' \in [Ports -> SUBSET Sources]
  <2>1. \A p \in Ports : Rr!MaskUpdate(mask[p], validPerPort(p), ~full(p)) \in SUBSET Sources
    BY MaskStays DEF RspIInv, TypeOK
  <2>2. QED
    BY <2>1 DEF Edge
<1>3. /\ fifo' \in [Ports -> Seq(Responses)]
      /\ \A p \in Ports : /\ Len(fifo'[p]) <= 2
                          /\ \A i \in DOMAIN fifo'[p] : fifo'[p][i].port = p
  <2>1. \A p \in Ports : fifo'[p] = FifoNext(p)
    BY DEF Edge
  <2>2. fifo' \in [Ports -> Seq(Responses)]
    BY FifoStays DEF Edge
  <2>3. QED
    BY <2>1, <2>2, FifoStays
<1>4. prio' \in SUBSET Lru!Triangle /\ Lru!IsOrder(prio')
  <2>1. CASE bid1 = {}
    BY <2>1 DEF Edge, PrioNext, RspIInv, TypeOK
  <2>2. CASE bid1 # {}
    <3> DEFINE w == CHOOSE p \in opportunisticGrant : TRUE
    <3>1. w \in Ports
      BY <2>2, OneGoes DEF bid1, fifoValid
    <3>2. prio' = Lru!Demote(prio, w)
      BY <2>2 DEF Edge, PrioNext
    <3> HIDE DEF w
    <3>3. QED
      BY <3>1, <3>2, OrderKept DEF RspIInv, TypeOK
  <2>3. QED
    BY <2>1, <2>2
<1>5. credit' \in [Ports -> 0 .. FifoDepth]
  <2> SUFFICES ASSUME NEW d \in Ports PROVE CreditNext(d, drained) \in 0 .. FifoDepth
    BY DEF Edge
  <2>1. credit[d] \in 0 .. FifoDepth /\ FifoDepth \in Nat
    BY RspMuxAssumption DEF RspIInv, TypeOK
  <2>2. d \in drained => credit[d] > 0
    BY DEF Edge
  <2>3. d \in bankRspValid \cap ready => credit[d] < FifoDepth
    BY DEF ready
  <2>4. QED
    BY <2>1, <2>2, <2>3 DEF CreditNext
<1>6. \A p \in Ports : \A i \in DOMAIN fifo'[p] : fifo'[p][i] \in Responses
  BY <1>3
<1>7. QED
  BY <1>1, <1>2, <1>3, <1>4, <1>5, <1>6 DEF RspIInv, TypeOK

\* So does every step.
LEMMA RspSteps == RspIInv /\ [Next]_vars => RspIInv'
<1> SUFFICES ASSUME RspIInv, [Next]_vars PROVE RspIInv'
  OBVIOUS
<1>1. CASE Next
  BY <1>1, RspEdgeKeeps DEF Next
<1>2. CASE UNCHANGED vars
  BY <1>2 DEF vars, RspIInv, TypeOK
<1>3. QED
  BY <1>1, <1>2

\* The invariant holds in every reachable state.
LEMMA RspInvariant == Spec => []RspIInv
BY RspInitially, RspSteps, PTL DEF Spec

-----------------------------------------------------------------------------
\* Every variable stays in its type: no credit FIFO towards a port is filled
\* beyond its depth or drained below nothing, and a port's FIFO holds at most
\* two responses, all of them responses that take that port's FIFO.
THEOREM TypeCorrect == Spec => []TypeOK
<1>1. RspIInv => TypeOK
  BY DEF RspIInv
<1>2. QED
  BY <1>1, RspInvariant, PTL

\* A response that goes is offered only to ports that take it at that edge, so
\* popping it once loses none of its copies.
THEOREM AlwaysSentToAllOrNone == Spec => []SentToAllOrNone
<1>1. RspIInv => SentToAllOrNone
  <2> SUFFICES ASSUME RspIInv, NEW d \in bankRspValid PROVE d \in ready
    BY DEF SentToAllOrNone
  <2>1. PICK p \in opportunisticGrant : d \in destHot(p)
    BY DEF bankRspValid
  <2>2. p \in fifoValid /\ resourcesReady(p)
    BY OneGoes DEF bid1
  <2>3. d \in Ports
    BY <2>1, <2>2, Heads
  <2>4. credit[d] \in Nat /\ FifoDepth \in Nat
    BY <2>3, RspMuxAssumption DEF RspIInv, TypeOK
  <2>5. d \in twoCredits => d \in ready
    BY <2>3, <2>4 DEF twoCredits, ready
  <2>6. QED
    BY <2>1, <2>2, <2>5 DEF resourcesReady
<1>2. QED
  BY <1>1, RspInvariant, PTL

\* While a response is queued exactly one FIFO holds the reservation: nobody
\* waits unprotected, and no two responses reserve against each other.
OneReserver == fifoValid # {} => \E p \in fifoValid : priorityGrant = {p}

\* At most one source has the output reserved, for any number of sources.
THEOREM AlwaysOneReserver == Spec => []OneReserver
<1>1. RspIInv => OneReserver
  BY OneGoes DEF OneReserver
<1>2. QED
  BY <1>1, RspInvariant, PTL

\* What goes past a waiting reserver leaves it the entries it has.
LEMMA EdgeReserves ==
    ASSUME RspIInv, NEW new, NEW drained, Edge(new, drained),
           NEW p \in priorityGrant \ opportunisticGrant, NEW d \in destHot(p) \cap ready
    PROVE  d \in ready'
<1>1. p \in fifoValid /\ d \in Ports
  BY OneGoes, Heads
<1>2. credit[d] \in Nat /\ FifoDepth \in Nat /\ credit[d] < FifoDepth
  BY <1>1, RspMuxAssumption DEF RspIInv, TypeOK, ready
<1>3. credit'[d] = CreditNext(d, drained)
  BY <1>1 DEF Edge
<1>4. d \in bankRspValid => credit[d] < FifoDepth - 1
  <2> SUFFICES ASSUME d \in bankRspValid PROVE d \in twoCredits
    BY DEF twoCredits
  <2>1. PICK q \in opportunisticGrant : d \in destHot(q)
    BY DEF bankRspValid
  <2>2. resourcesReady(q)
    BY OneGoes DEF bid1
  <2>3. q \notin priorityGrant
    BY OneGoes
  <2>4. d \in reserved
    BY DEF reserved
  <2>5. QED
    BY <2>1, <2>2, <2>3, <2>4 DEF resourcesReady
<1>5. CreditNext(d, drained) < FifoDepth
  <2>1. CASE d \in bankRspValid
    BY <1>2, <1>4, <2>1 DEF CreditNext
  <2>2. CASE d \notin bankRspValid
    BY <1>2, <2>2 DEF CreditNext
  <2>3. QED
    BY <2>1, <2>2
<1>6. QED
  BY <1>1, <1>3, <1>5 DEF ready

\* No step, whatever it accepts and sends, takes an entry the waiting response
\* needs and has: what it reserves it keeps until it goes.
THEOREM AlwaysReservationHolds == Spec => ReservationHolds
<1>1. RspIInv /\ [Next]_vars =>
          [\A p \in priorityGrant \ opportunisticGrant : destHot(p) \cap ready \subseteq ready']_vars
  BY EdgeReserves DEF Next
<1>2. QED
  BY <1>1, RspInvariant, PTL DEF Spec, ReservationHolds
=============================================================================
