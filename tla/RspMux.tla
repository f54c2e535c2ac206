------------------------------- MODULE RspMux -------------------------------
(***************************************************************************)
(* shirecache_bank_rspmux and the credits of the response crossbar it      *)
(* spends.  Sources hold responses for a port; a round-robin arbiter per   *)
(* port moves them into a two-entry FIFO per port.  The heads of these     *)
(* FIFOs then compete for the crossbar: a response may need room towards   *)
(* several ports at once (a cooperative read), and the one that has waited *)
(* longest keeps what it needs reserved until all of it is there.          *)
(* A step is one clock edge.                                               *)
(***************************************************************************)
EXTENDS FifoOps

CONSTANTS NumSources, NumPorts, FifoDepth, Responses

Sources == 0 .. NumSources - 1
Ports == 0 .. NumPorts - 1

\* A response is the port whose FIFO it takes and the ports it is sent to.
ASSUME RspMuxAssumption ==
    /\ NumSources \in Nat \ {0}
    /\ NumPorts \in Nat \ {0}
    /\ FifoDepth \in Nat \ {0, 1}
    /\ Responses \subseteq [port : Ports, dest : (SUBSET Ports) \ {{}}]

VARIABLES offer,  \* offer[s]: what source s holds up, a set of at most one response
          mask,   \* mask[p]: the round-robin mask of port p
          fifo,   \* fifo[p]: the responses queued for port p
          prio,   \* the matrix of the arbiter behind the FIFOs
          credit  \* credit[d]: occupancy of the crossbar's credit FIFO towards d

vars == <<offer, mask, fifo, prio, credit>>

Lru == INSTANCE LruOrder WITH NumClients <- NumPorts
Rr == INSTANCE RoundRobin WITH NumReqs <- NumSources

Init == /\ offer = [s \in Sources |-> {}]
        /\ mask = [p \in Ports |-> {}]
        /\ fifo = [p \in Ports |-> <<>>]
        /\ prio = {}
        /\ credit = [d \in Ports |-> 0]

-----------------------------------------------------------------------------
\* The crossbar's side: one free entry, and two.
ready == {d \in Ports : credit[d] < FifoDepth}
twoCredits == {d \in Ports : credit[d] < FifoDepth - 1}

validPerPort(p) == {s \in Sources : \E r \in offer[s] : r.port = p}
grantPerPort(p) == Rr!Grants(mask[p], validPerPort(p))
full(p) == Len(fifo[p]) = 2

\* rspmux_ready: the sources whose response is taken at this edge.
rspmuxReady == UNION {IF full(p) THEN {} ELSE grantPerPort(p) : p \in Ports}

fifoValid == {p \in Ports : fifo[p] # <<>>}
destHot(p) == Head(fifo[p]).dest

\* grant0: the valid FIFO that outranks the others, whether it can go or not.
priorityGrant == Lru!Winners(prio, fifoValid)

\* Mutant: nothing is kept for the response that has waited longest.
reservedNothing == {}

reserved == UNION {destHot(p) : p \in priorityGrant}

\* Mutant: the priority response goes as soon as one of its ports is ready.
resourcesReadyPartial(p) ==
    IF p \in priorityGrant THEN destHot(p) \cap ready # {}
    ELSE \A d \in destHot(p) : d \in twoCredits \/ d \in ready \ reserved

resourcesReady(p) ==
    \A d \in destHot(p) :
        d \in twoCredits \/ (d \in ready /\ (p \in priorityGrant \/ d \notin reserved))

bid1 == {p \in fifoValid : resourcesReady(p)}

opportunisticGrant == Lru!Winners(prio, bid1)

bankRspValid == UNION {destHot(p) : p \in opportunisticGrant}

\* Mutant: the priority update looks at the first bid's winner.
PrioNextReserver == IF bid1 = {} THEN prio
                    ELSE Lru!Demote(prio, CHOOSE p \in priorityGrant : TRUE)

PrioNext == IF bid1 = {} THEN prio
            ELSE Lru!Demote(prio, CHOOSE p \in opportunisticGrant : TRUE)

FifoNext(p) ==
    LET won == CHOOSE s \in grantPerPort(p) : TRUE
        any == validPerPort(p) # {}
    IN  After(fifo[p], 2, any, IF any THEN CHOOSE r \in offer[won] : TRUE ELSE {},
              p \in opportunisticGrant)

\* The crossbar fills a credit FIFO per flit taken and drains those of the
\* ports in drained.
CreditNext(d, drained) ==
    credit[d] + (IF d \in bankRspValid \cap ready THEN 1 ELSE 0)
              - (IF d \in drained THEN 1 ELSE 0)

\* A source holds its response up until it is taken.
OfferNext(s, new) ==
    IF offer[s] = {} \/ s \in rspmuxReady THEN new[s] ELSE offer[s]

Edge(new, drained) ==
    /\ \A d \in drained : credit[d] > 0
    /\ offer' = [s \in Sources |-> OfferNext(s, new)]
    /\ mask' = [p \in Ports |-> Rr!MaskUpdate(mask[p], validPerPort(p), ~full(p))]
    /\ fifo' = [p \in Ports |-> FifoNext(p)]
    /\ prio' = PrioNext
    /\ credit' = [d \in Ports |-> CreditNext(d, drained)]

Offers == {{}} \cup {{r} : r \in Responses}

Next == \E new \in [Sources -> Offers], drained \in SUBSET Ports : Edge(new, drained)

Spec == Init /\ [][Next]_vars

\* The clock keeps ticking, and the crossbar drains every port it holds a
\* flit for.
Drain(d) == \E new \in [Sources -> Offers], drained \in SUBSET Ports :
               d \in drained /\ Edge(new, drained)

FairSpec == /\ Spec
            /\ WF_vars(Next)
            /\ \A d \in Ports : WF_vars(Drain(d))

-----------------------------------------------------------------------------
TypeOK == /\ offer \in [Sources -> Offers]
          /\ mask \in [Ports -> SUBSET Sources]
          /\ \A p \in Ports : /\ Len(fifo[p]) <= 2
                              /\ \A i \in DOMAIN fifo[p] : fifo[p][i] \in Responses
                              /\ \A i \in DOMAIN fifo[p] : fifo[p][i].port = p
          /\ prio \subseteq Lru!Triangle
          /\ credit \in [Ports -> 0 .. FifoDepth]

\* The FIFO is popped once for all the ports a response goes to, and the
\* crossbar takes a flit for each ready port on its own: the response must
\* never be offered to a port that is not ready, or that copy is lost.
SentToAllOrNone == bankRspValid \subseteq ready

\* Once the response that has waited longest has an entry towards one of its
\* ports, no other response takes that entry away before it is sent.
ReservationHolds ==
    [][\A p \in priorityGrant \ opportunisticGrant :
          destHot(p) \cap ready \subseteq ready']_vars

\* No response starves: the head of every FIFO goes at last, also one that needs
\* several ports at once behind a stream of others that need one each.
EveryFifoMoves == \A p \in Ports : fifo[p] # <<>> ~> p \in opportunisticGrant
=============================================================================
