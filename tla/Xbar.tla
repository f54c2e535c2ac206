-------------------------------- MODULE Xbar --------------------------------
(***************************************************************************)
(* shirecache_xbar: sources reach destinations through one data FIFO per   *)
(* pair, beside the destination.  A credit FIFO per pair, beside the       *)
(* source, counts what is on its way; a relay register lies between.  A    *)
(* source of SrcArb sees every destination with credit and may send one    *)
(* flit to several at once; for the others the crossbar chooses.  The      *)
(* destinations of Relayed have a two-entry output FIFO.                   *)
(* A step is one clock edge.                                               *)
(***************************************************************************)
EXTENDS FifoOps, FiniteSets

CONSTANTS NumSrc, NumDest, FifoDepth, SrcArb, Relayed

Sources == 0 .. NumSrc - 1
Dests == 0 .. NumDest - 1

\* With a single entry a popped FIFO takes a flit its credit does not show.
ASSUME XbarAssumption == /\ NumSrc \in Nat \ {0}
                         /\ NumDest \in Nat \ {0}
                         /\ FifoDepth \in Nat \ {0, 1}
                         /\ SrcArb \subseteq Sources
                         /\ Relayed \subseteq Dests

VARIABLES credit,    \* credit[s][d]: occupancy of the credit FIFO
          data,      \* data[s][d]: the data FIFO
          relay,     \* relay[s]: the flit under way and where it goes
          out,       \* out[d]: the output relay FIFO
          srcMask,   \* the round-robin masks
          destMask,
          seq,       \* numbers each source's flits modulo 2
          accepted,  \* what the last edge took in and handed out:
          delivered  \* sets of <<source, destination, flit>>

vars == <<credit, data, relay, out, srcMask, destMask, seq, accepted, delivered>>

SrcRr == INSTANCE RoundRobin WITH NumReqs <- NumDest
DestRr == INSTANCE RoundRobin WITH NumReqs <- NumSrc

Flits == Sources \X {0, 1}

Init == /\ credit = [s \in Sources |-> [d \in Dests |-> 0]]
        /\ data = [s \in Sources |-> [d \in Dests |-> <<>>]]
        /\ relay = [s \in Sources |-> [to |-> {}, flit |-> <<s, 0>>]]
        /\ out = [d \in Dests |-> <<>>]
        /\ srcMask = [s \in Sources |-> {}]
        /\ destMask = [d \in Dests |-> {}]
        /\ seq = [s \in Sources |-> 0]
        /\ accepted = {}
        /\ delivered = {}

-----------------------------------------------------------------------------
withCredit(s) == {d \in Dests : credit[s][d] < FifoDepth}

rrReq(s, valid) == valid[s] \cap withCredit(s)

\* src_ready_o for the destinations the source is valid for.
taken(s, valid) == IF s \in SrcArb THEN rrReq(s, valid)
                   ELSE SrcRr!Grants(srcMask[s], rrReq(s, valid))

reqs(d) == {s \in Sources : data[s][d] # <<>>}

grants(d) == DestRr!Grants(destMask[d], reqs(d))

popArb(d, ready) == IF d \in Relayed THEN Len(out[d]) < 2 ELSE d \in ready

\* Mutant: the FIFO is popped even when the output has no room.
popsAlways(d, ready) == grants(d)

\* dest_fifo_pop: the sources whose FIFO towards d is popped.
pops(d, ready) == IF popArb(d, ready) THEN grants(d) ELSE {}

\* The data multiplexer in front of destination d.
chosen(d) == LET s == CHOOSE s \in grants(d) : TRUE IN Head(data[s][d])

RelayNext(s, valid) ==
    IF taken(s, valid) = {} THEN [relay[s] EXCEPT !.to = {}]
    ELSE [to |-> taken(s, valid), flit |-> <<s, seq[s]>>]

\* Occupancy of a FIFO of FifoDepth entries after an edge.
Count(n, push, pop) ==
    (IF pop /\ n > 0 THEN n - 1 ELSE n) + (IF push /\ n < FifoDepth THEN 1 ELSE 0)

\* Mutant: a credit comes back with the relay's push, not with the pop.
CreditNextEarly(s, d, valid, ready) ==
    Count(credit[s][d], d \in taken(s, valid), d \in relay[s].to)

CreditNext(s, d, valid, ready) ==
    Count(credit[s][d], d \in taken(s, valid), s \in pops(d, ready))

DataNext(s, d, ready) ==
    After(data[s][d], FifoDepth, d \in relay[s].to, relay[s].flit,
          s \in pops(d, ready))

OutNext(d, ready) ==
    IF d \notin Relayed THEN <<>>
    ELSE After(out[d], 2, reqs(d) # {}, IF reqs(d) # {} THEN chosen(d) ELSE <<>>,
               d \in ready)

\* dest_data_o, where the destination is ready and dest_valid_o is up.
handedOut(d, ready) ==
    IF d \notin ready THEN {}
    ELSE IF d \in Relayed THEN IF out[d] = <<>> THEN {} ELSE {Head(out[d])}
    ELSE IF reqs(d) = {} THEN {} ELSE {chosen(d)}

Edge(valid, ready) ==
    /\ credit' = [s \in Sources |-> [d \in Dests |-> CreditNext(s, d, valid, ready)]]
    /\ data' = [s \in Sources |-> [d \in Dests |-> DataNext(s, d, ready)]]
    /\ relay' = [s \in Sources |-> RelayNext(s, valid)]
    /\ out' = [d \in Dests |-> OutNext(d, ready)]
    /\ srcMask' = [s \in Sources |->
          IF s \in SrcArb THEN {}
          ELSE SrcRr!MaskUpdate(srcMask[s], rrReq(s, valid), taken(s, valid) # {})]
    /\ destMask' = [d \in Dests |->
          DestRr!MaskUpdate(destMask[d], reqs(d), popArb(d, ready))]
    /\ seq' = [s \in Sources |->
          IF taken(s, valid) = {} THEN seq[s] ELSE 1 - seq[s]]
    /\ accepted' = UNION {{<<s, d, <<s, seq[s]>>>> : d \in taken(s, valid)} :
                          s \in Sources}
    /\ delivered' = UNION {{<<f[1], d, f>> : f \in handedOut(d, ready)} : d \in Dests}

Next == \E valid \in [Sources -> SUBSET Dests], ready \in SUBSET Dests :
            Edge(valid, ready)

Spec == Init /\ [][Next]_vars

\* The clock keeps ticking, and a destination whose valid is up is ready at
\* some edge.
Deliver(d) == \E valid \in [Sources -> SUBSET Dests], ready \in SUBSET Dests :
                 handedOut(d, ready) # {} /\ Edge(valid, ready)

FairSpec == /\ Spec
            /\ WF_vars(Next)
            /\ \A d \in Dests : WF_vars(Deliver(d))

-----------------------------------------------------------------------------
TypeOK == /\ credit \in [Sources -> [Dests -> 0 .. FifoDepth]]
          /\ \A s \in Sources, d \in Dests :
                /\ Len(data[s][d]) <= FifoDepth
                /\ \A i \in DOMAIN data[s][d] : data[s][d][i] \in Flits
          /\ relay \in [Sources -> [to : SUBSET Dests, flit : Flits]]
          /\ \A d \in Dests : Len(out[d]) <= IF d \in Relayed THEN 2 ELSE 0
          /\ srcMask \in [Sources -> SUBSET Dests]
          /\ destMask \in [Dests -> SUBSET Sources]
          /\ seq \in [Sources -> {0, 1}]

\* The credit FIFO of a pair counts the flits in its data FIFO and the one in
\* the relay register: the two FIFOs never get out of step.
CreditsCountFlits ==
    \A s \in Sources, d \in Dests :
        credit[s][d] = Len(data[s][d]) + (IF d \in relay[s].to THEN 1 ELSE 0)

\* The flits of source s in a FIFO of at most two.
OfSource(s, q) ==
    LET place(k) == IF k <= Len(q) /\ q[k][1] = s THEN <<q[k]>> ELSE <<>>
    IN  place(1) \o place(2)

UnderWay(s, d) == IF d \in relay[s].to THEN <<relay[s].flit>> ELSE <<>>

\* What lies between a source and a destination, the oldest first.
owed == [s \in Sources |-> [d \in Dests |->
            OfSource(s, out[d]) \o (data[s][d] \o UnderWay(s, d))]]

Pairs == INSTANCE PairwiseQueues

\* Every pair is a queue of its own: nothing is lost, duplicated, sent to
\* another destination or overtaken on its way, whoever else is sending.
IsPairwiseQueues == Pairs!Spec

\* What has been accepted comes out: no source is starved at a destination.
EveryFlitArrives ==
    \A s \in Sources, d \in Dests :
        credit[s][d] > 0 ~> \E t \in delivered : t[1] = s /\ t[2] = d
=============================================================================
