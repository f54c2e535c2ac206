----------------------------- MODULE XbarProofs -----------------------------
(***************************************************************************)
(* The credits of the crossbar, for any number of sources and destinations *)
(* and any depth: they count the flits under way, and so the push of the   *)
(* relay, which looks at no full flag, is never refused.                   *)
(***************************************************************************)
EXTENDS Xbar, SequenceTheorems, TLAPS

SrcProofs == INSTANCE ArbitrationProofs WITH NumReqs <- NumDest, NumClients <- NumDest
DestProofs == INSTANCE ArbitrationProofs WITH NumReqs <- NumSrc, NumClients <- NumSrc

\* 1 for a wire that is up.
Bit(b) == IF b THEN 1 ELSE 0

\* The part of the state the credits depend on.
CreditType ==
    /\ credit \in [Sources -> [Dests -> 0 .. FifoDepth]]
    /\ data \in [Sources -> [Dests -> Seq(Flits)]]
    /\ relay \in [Sources -> [to : SUBSET Dests, flit : Flits]]
    /\ seq \in [Sources -> {0, 1}]

CreditIInv == CreditType /\ CreditsCountFlits

-----------------------------------------------------------------------------
\* Only destinations with credit are taken from the source (src_ready_o).
LEMMA TakenHasCredit ==
    ASSUME NEW s \in Sources, NEW valid \in [Sources -> SUBSET Dests]
    PROVE  taken(s, valid) \subseteq withCredit(s)
<1>1. rrReq(s, valid) \subseteq withCredit(s) /\ withCredit(s) \subseteq Dests
  BY DEF rrReq, withCredit
<1>2. SrcRr!Grants(srcMask[s], rrReq(s, valid)) \subseteq rrReq(s, valid)
  <2>1. SrcProofs!NumReqsAssumption /\ SrcProofs!Requesters = Dests
    BY XbarAssumption DEF SrcProofs!NumReqsAssumption, SrcProofs!Requesters, Dests
  <2>2. SrcProofs!Grants(srcMask[s], rrReq(s, valid)) \subseteq rrReq(s, valid)
    BY <1>1, <2>1, SrcProofs!GrantsRequested
  <2>3. QED
    BY <2>2 DEF SrcRr!Grants, SrcRr!MaskNext, SrcRr!Code, SrcRr!Thermometer, SrcRr!Requesters,
       SrcProofs!Grants, SrcProofs!MaskNext, SrcProofs!Code, SrcProofs!Thermometer,
       SrcProofs!Requesters
<1>3. QED
  BY <1>1, <1>2 DEF taken

\* Only a FIFO with a flit in it is popped.
LEMMA PopsFind ==
    ASSUME NEW d \in Dests, NEW ready, NEW s \in pops(d, ready)
    PROVE  s \in Sources /\ data[s][d] # <<>>
<1>1. reqs(d) \subseteq Sources /\ \A t \in reqs(d) : data[t][d] # <<>>
  BY DEF reqs
<1>2. grants(d) \subseteq reqs(d)
  <2>1. DestProofs!NumReqsAssumption /\ DestProofs!Requesters = Sources
    BY XbarAssumption DEF DestProofs!NumReqsAssumption, DestProofs!Requesters, Sources
  <2>2. DestProofs!Grants(destMask[d], reqs(d)) \subseteq reqs(d)
    BY <1>1, <2>1, DestProofs!GrantsRequested
  <2>3. QED
    BY <2>2 DEF grants, DestRr!Grants, DestRr!MaskNext, DestRr!Code, DestRr!Thermometer,
       DestRr!Requesters, DestProofs!Grants, DestProofs!MaskNext, DestProofs!Code,
       DestProofs!Thermometer, DestProofs!Requesters
<1>3. QED
  BY <1>1, <1>2 DEF pops

\* The length of a FIFO after an edge in which a push has room and a pop finds
\* something.
LEMMA LengthAfter ==
    ASSUME NEW S, NEW q \in Seq(S), NEW depth \in Nat, NEW push, NEW x \in S,
           NEW pop, push => Len(q) < depth, pop => q # <<>>
    PROVE  /\ After(q, depth, push, x, pop) \in Seq(S)
           /\ Len(After(q, depth, push, x, pop)) = Len(q) - Bit(pop) + Bit(push)
<1> DEFINE rest == IF pop /\ q # <<>> THEN Tail(q) ELSE q
<1>1. rest \in Seq(S) /\ Len(rest) = Len(q) - Bit(pop)
  <2>1. CASE pop
    <3>1. rest = Tail(q) /\ Bit(pop) = 1
      BY <2>1 DEF Bit
    <3>2. Tail(q) \in Seq(S) /\ Len(Tail(q)) = Len(q) - 1
      BY <2>1
    <3>3. QED
      BY <3>1, <3>2
  <2>2. CASE ~pop
    <3>1. rest = q /\ Bit(pop) = 0
      BY <2>2 DEF Bit
    <3>2. Len(q) - 0 = Len(q)
      OBVIOUS
    <3>3. QED
      BY <3>1, <3>2
  <2>3. QED
    BY <2>1, <2>2
<1>2. Append(rest, x) \in Seq(S) /\ Len(Append(rest, x)) = Len(rest) + 1
  BY <1>1
<1>3. Len(rest) \in Nat
  BY <1>1
<1> HIDE DEF rest
<1>4. CASE push
  <2>1. After(q, depth, push, x, pop) = Append(rest, x) /\ Bit(push) = 1
    BY <1>4 DEF After, Room, Bit, rest
  <2>2. QED
    BY <1>1, <1>2, <2>1
<1>5. CASE ~push
  <2>1. After(q, depth, push, x, pop) = rest /\ Bit(push) = 0
    BY <1>5 DEF After, Bit, rest
  <2>2. Len(rest) = Len(rest) + 0
    BY <1>3
  <2>3. QED
    BY <1>1, <2>1, <2>2
<1>6. QED
  BY <1>4, <1>5

\* The same for the credit FIFO, of which only the length is modelled.
LEMMA CountAfter ==
    ASSUME NEW n \in 0 .. FifoDepth, NEW push, NEW pop, push => n < FifoDepth, pop => n > 0
    PROVE  /\ Count(n, push, pop) = n - Bit(pop) + Bit(push)
           /\ Count(n, push, pop) \in 0 .. FifoDepth
<1>1. FifoDepth \in Nat /\ n \in Nat /\ n <= FifoDepth
  BY XbarAssumption
<1>2. CASE push /\ pop
  <2>1. Count(n, push, pop) = n - 1 + 1 /\ Bit(push) = 1 /\ Bit(pop) = 1
    BY <1>2 DEF Count, Bit
  <2>2. QED
    BY <1>1, <2>1
<1>3. CASE push /\ ~pop
  <2>1. Count(n, push, pop) = n + 1 /\ Bit(push) = 1 /\ Bit(pop) = 0
    BY <1>3 DEF Count, Bit
  <2>2. n < FifoDepth
    BY <1>3
  <2>3. QED
    BY <1>1, <2>1, <2>2
<1>4. CASE ~push /\ pop
  <2>1. Count(n, push, pop) = n - 1 + 0 /\ Bit(push) = 0 /\ Bit(pop) = 1
    BY <1>4 DEF Count, Bit
  <2>2. n > 0
    BY <1>4
  <2>3. QED
    BY <1>1, <2>1, <2>2
<1>5. CASE ~push /\ ~pop
  <2>1. Count(n, push, pop) = n + 0 /\ Bit(push) = 0 /\ Bit(pop) = 0
    BY <1>5 DEF Count, Bit
  <2>2. QED
    BY <1>1, <2>1
<1>6. QED
  BY <1>2, <1>3, <1>4, <1>5

-----------------------------------------------------------------------------
\* One pair at one edge: the flit in the relay moves to the data FIFO and the
\* credit taken by the next one is worth it.
LEMMA OnePair ==
    ASSUME CreditIInv, NEW s \in Sources, NEW d \in Dests,
           NEW valid \in [Sources -> SUBSET Dests], NEW ready
    PROVE  /\ CreditNext(s, d, valid, ready) \in 0 .. FifoDepth
           /\ DataNext(s, d, ready) \in Seq(Flits)
           /\ CreditNext(s, d, valid, ready) =
                Len(DataNext(s, d, ready)) + Bit(d \in taken(s, valid))
<1> DEFINE n == credit[s][d]
           q == data[s][d]
           push == d \in taken(s, valid)
           pop == s \in pops(d, ready)
           moved == d \in relay[s].to
<1>1. n \in 0 .. FifoDepth /\ q \in Seq(Flits) /\ relay[s].flit \in Flits
  BY DEF CreditIInv, CreditType
<1>2. n = Len(q) + Bit(moved)
  BY DEF CreditIInv, CreditsCountFlits, Bit
<1>3. FifoDepth \in Nat /\ Len(q) \in Nat
  BY <1>1, XbarAssumption
<1>4. push => n < FifoDepth
  BY TakenHasCredit DEF withCredit
<1>5. pop => q # <<>>
  BY PopsFind
<1>6. pop => n > 0
  <2>1. q # <<>> => Len(q) > 0
    BY <1>1
  <2>2. Bit(moved) >= 0 /\ Bit(moved) \in Nat
    BY DEF Bit
  <2>3. QED
    BY <1>2, <1>3, <1>5, <2>1, <2>2
<1>7. moved => Len(q) < FifoDepth
  <2>1. moved => Bit(moved) = 1
    BY DEF Bit
  <2>2. QED
    BY <1>1, <1>2, <1>3, <2>1
<1>8. /\ DataNext(s, d, ready) \in Seq(Flits)
      /\ Len(DataNext(s, d, ready)) = Len(q) - Bit(pop) + Bit(moved)
  <2> DEFINE x == relay[s].flit
  <2> HIDE DEF q, pop, moved, x
  <2>1. x \in Flits /\ q \in Seq(Flits) /\ FifoDepth \in Nat
    BY <1>1, <1>3 DEF x
  <2>2. /\ After(q, FifoDepth, moved, x, pop) \in Seq(Flits)
        /\ Len(After(q, FifoDepth, moved, x, pop)) = Len(q) - Bit(pop) + Bit(moved)
    BY <1>5, <1>7, <2>1, LengthAfter
  <2>3. DataNext(s, d, ready) = After(q, FifoDepth, moved, x, pop)
    BY DEF DataNext, q, pop, moved, x
  <2>4. QED
    BY <2>2, <2>3
<1>9. /\ CreditNext(s, d, valid, ready) \in 0 .. FifoDepth
      /\ CreditNext(s, d, valid, ready) = n - Bit(pop) + Bit(push)
  <2> HIDE DEF n, pop, push
  <2>1. /\ Count(n, push, pop) = n - Bit(pop) + Bit(push)
        /\ Count(n, push, pop) \in 0 .. FifoDepth
    BY <1>1, <1>4, <1>6, CountAfter
  <2>2. CreditNext(s, d, valid, ready) = Count(n, push, pop)
    BY DEF CreditNext, n, push, pop
  <2>3. QED
    BY <2>1, <2>2
<1>10. n - Bit(pop) + Bit(push) = Len(q) - Bit(pop) + Bit(moved) + Bit(push)
  <2>1. Bit(pop) \in Nat /\ Bit(push) \in Nat /\ Bit(moved) \in Nat
    BY DEF Bit
  <2> HIDE DEF n, q, pop, push, moved
  <2>2. QED
    BY <1>2, <1>3, <2>1
<1>11. QED
  BY <1>8, <1>9, <1>10

\* Every clock edge keeps the invariant: one step per variable of it.
LEMMA EdgeKeeps ==
    ASSUME CreditIInv, NEW valid \in [Sources -> SUBSET Dests], NEW ready, Edge(valid, ready)
    PROVE  CreditIInv'
<1>1. \A s \in Sources : taken(s, valid) \subseteq Dests
  BY TakenHasCredit DEF withCredit
<1>2. ASSUME NEW s \in Sources
      PROVE  /\ RelayNext(s, valid) \in [to : SUBSET Dests, flit : Flits]
             /\ RelayNext(s, valid).to = taken(s, valid)
  <2>1. relay[s] \in [to : SUBSET Dests, flit : Flits] /\ <<s, seq[s]>> \in Flits
    BY DEF CreditIInv, CreditType, Flits
  <2>2. CASE taken(s, valid) = {}
    BY <2>1, <2>2 DEF RelayNext
  <2>3. CASE taken(s, valid) # {}
    BY <1>1, <2>1, <2>3 DEF RelayNext
  <2>4. QED
    BY <2>2, <2>3
<1>3. relay' \in [Sources -> [to : SUBSET Dests, flit : Flits]]
      /\ \A s \in Sources : relay'[s].to = taken(s, valid)
  BY <1>2 DEF Edge
<1>4. seq' \in [Sources -> {0, 1}]
  BY DEF Edge, CreditIInv, CreditType
<1>5. /\ credit' \in [Sources -> [Dests -> 0 .. FifoDepth]]
      /\ data' \in [Sources -> [Dests -> Seq(Flits)]]
  BY OnePair DEF Edge
<1>6. CreditsCountFlits'
  BY OnePair, <1>3 DEF Edge, CreditsCountFlits, Bit
<1>7. QED
  BY <1>3, <1>4, <1>5, <1>6 DEF CreditIInv, CreditType

\* The inductive invariant holds in every reachable state.
LEMMA CreditInvariant == Spec => []CreditIInv
<1>1. Init => CreditIInv
  BY XbarAssumption DEF Init, CreditIInv, CreditType, CreditsCountFlits, Flits
<1>2. CreditIInv /\ [Next]_vars => CreditIInv'
  <2>1. CreditIInv /\ Next => CreditIInv'
    BY EdgeKeeps DEF Next
  <2>2. CreditIInv /\ UNCHANGED vars => CreditIInv'
    BY DEF vars, CreditIInv, CreditType, CreditsCountFlits
  <2>3. QED
    BY <2>1, <2>2
<1>3. QED
  BY <1>1, <1>2, PTL DEF Spec

\* The credit FIFO beside a source and the data FIFO beside a destination never
\* get out of step, however sources, stalls and broadcasts overlap.
THEOREM CreditsAlwaysCountFlits == Spec => []CreditsCountFlits
<1>1. CreditIInv => CreditsCountFlits
  BY DEF CreditIInv
<1>2. QED
  BY <1>1, CreditInvariant, PTL

\* The data FIFO of a flit in the relay register has a free entry.
RelayHasRoom == \A s \in Sources : \A d \in relay[s].to : Len(data[s][d]) < FifoDepth

\* The relay pushes without looking at full_o of the data FIFO
\* (shirecache_xbar.sv:79-81): there is room, in every state.
THEOREM RelayNeverRefused == Spec => []RelayHasRoom
<1>1. CreditIInv => RelayHasRoom
  <2> SUFFICES ASSUME CreditIInv, NEW s \in Sources, NEW d \in relay[s].to
               PROVE  Len(data[s][d]) < FifoDepth
    BY DEF RelayHasRoom
  <2>1. d \in Dests /\ credit[s][d] \in 0 .. FifoDepth /\ data[s][d] \in Seq(Flits)
    BY DEF CreditIInv, CreditType
  <2>2. credit[s][d] = Len(data[s][d]) + 1
    BY <2>1 DEF CreditIInv, CreditsCountFlits
  <2>3. QED
    BY <2>1, <2>2, XbarAssumption
<1>2. QED
  BY <1>1, CreditInvariant, PTL
-----------------------------------------------------------------------------
(***************************************************************************)
(* The crossbar is a queue for every pair.  Two more facts are needed: the *)
(* output FIFOs hold at most two flits, which is what OfSource looks at,   *)
(* and what lies in the relay and in the FIFOs of a source is its own, so  *)
(* that what a destination hands out can be charged to one pair.           *)
(***************************************************************************)
OutType == /\ out \in [Dests -> Seq(Flits)]
           /\ \A d \in Dests : Len(out[d]) <= IF d \in Relayed THEN 2 ELSE 0

OwnFlits == \A s \in Sources :
                /\ relay[s].flit[1] = s
                /\ \A d \in Dests : \A i \in 1 .. Len(data[s][d]) : data[s][d][i][1] = s

QueueIInv == CreditIInv /\ OutType /\ OwnFlits

\* What flit f adds to the queue of source s.
Share(s, f) == IF f[1] = s THEN <<f>> ELSE <<>>

\* The empty sequence is the one of length 0.
LEMMA Lengths ==
    ASSUME NEW S, NEW q \in Seq(S)
    PROVE  /\ Len(q) \in Nat
           /\ q = <<>> <=> Len(q) = 0
           /\ \A i \in 1 .. Len(q) : q[i] \in S
<1>1. Len(q) \in Nat /\ \A i \in 1 .. Len(q) : q[i] \in S
  BY LenProperties
<1>2. q # <<>> => Len(q) # 0
  BY EmptySeq
<1>3. q = <<>> => Len(q) = 0
  BY EmptySeq
<1>4. QED
  BY <1>1, <1>2, <1>3

\* A flit in front of a queue is its head.
LEMMA InFront ==
    ASSUME NEW S, NEW h \in S, NEW q \in Seq(S)
    PROVE  /\ <<h>> \o q \in Seq(S) /\ <<h>> \o q # <<>>
           /\ Head(<<h>> \o q) = h /\ Tail(<<h>> \o q) = q
<1>1. /\ <<h>> \in Seq(S) /\ Len(<<h>>) = 1 /\ <<h>>[1] = h
  OBVIOUS
<1>2. /\ <<h>> \o q \in Seq(S) /\ Len(<<h>> \o q) = 1 + Len(q) /\ Len(q) \in Nat
      /\ \A i \in 1 .. 1 + Len(q) : (<<h>> \o q)[i] = IF i <= 1 THEN h ELSE q[i - 1]
  BY <1>1, ConcatProperties, LenProperties
<1> DEFINE r == <<h>> \o q
<1>3. r \in Seq(S) /\ r # <<>> /\ Len(r) = 1 + Len(q) /\ r[1] = h
  BY <1>2
<1>4. \A i \in 1 .. Len(q) : r[i + 1] = q[i]
  BY <1>2
<1> HIDE DEF r
<1>5. /\ Head(r) = h /\ Tail(r) \in Seq(S) /\ Len(Tail(r)) = Len(q)
      /\ \A i \in 1 .. Len(Tail(r)) : Tail(r)[i] = r[i + 1]
  BY <1>2, <1>3, HeadTailProperties
<1>6. Tail(r) = q
  BY <1>4, <1>5, SeqEqual
<1>7. QED
  BY <1>3, <1>5, <1>6 DEF r

\* A sequence is its head followed by its tail.
LEMMA HeadAndTail ==
    ASSUME NEW S, NEW q \in Seq(S), q # <<>>
    PROVE  q = <<Head(q)>> \o Tail(q)
<1>1. /\ Head(q) \in S /\ Tail(q) \in Seq(S) /\ Len(Tail(q)) = Len(q) - 1
      /\ \A i \in 1 .. Len(Tail(q)) : Tail(q)[i] = q[i + 1]
  BY HeadTailProperties
<1>2. Len(q) \in Nat \ {0} /\ Head(q) = q[1]
  BY EmptySeq
<1>3. <<Head(q)>> \in Seq(S) /\ Len(<<Head(q)>>) = 1 /\ <<Head(q)>>[1] = Head(q)
  BY <1>1
<1> DEFINE r == <<Head(q)>> \o Tail(q)
<1>4. /\ r \in Seq(S) /\ Len(r) = Len(q)
      /\ \A i \in 1 .. Len(q) : r[i] = IF i <= 1 THEN Head(q) ELSE Tail(q)[i - 1]
  BY <1>1, <1>2, <1>3, ConcatProperties
<1> HIDE DEF r
<1>5. \A i \in 1 .. Len(q) : r[i] = q[i]
  <2> TAKE i \in 1 .. Len(q)
  <2>1. CASE i = 1
    BY <1>2, <1>4, <2>1
  <2>2. CASE i > 1
    <3>1. i - 1 \in 1 .. Len(Tail(q)) /\ i - 1 + 1 = i
      BY <1>1, <1>2, <2>2
    <3>2. QED
      BY <1>1, <1>2, <1>4, <2>2, <3>1
  <2>3. QED
    BY <1>2, <2>1, <2>2
<1>6. QED
  BY <1>4, <1>5, SeqEqual DEF r

\* What an edge leaves of a FIFO, and what it adds.
Rest(q, pop) == IF pop /\ q # <<>> THEN Tail(q) ELSE q
Joining(push, x) == IF push THEN <<x>> ELSE <<>>

\* One edge of a FIFO with room for what is pushed: the head goes, a value joins.
LEMMA AfterIsConcat ==
    ASSUME NEW S, NEW q \in Seq(S), NEW depth \in Nat, NEW push, NEW x \in S,
           NEW pop, push => Len(q) < depth
    PROVE  /\ Rest(q, pop) \in Seq(S)
           /\ Joining(push, x) \in Seq(S)
           /\ Len(Joining(push, x)) = Bit(push)
           /\ After(q, depth, push, x, pop) = Rest(q, pop) \o Joining(push, x)
<1> DEFINE rest == Rest(q, pop)
<1>1. rest \in Seq(S)
  BY HeadTailProperties DEF Rest
<1>2. After(q, depth, push, x, pop) = IF push THEN Append(rest, x) ELSE rest
  BY DEF After, Room, Rest
<1> HIDE DEF rest
<1>3. CASE push
  <2>1. Joining(push, x) = <<x>> /\ Bit(push) = 1
    BY <1>3 DEF Joining, Bit
  <2>2. Append(rest, x) = rest \o <<x>>
    BY <1>1, AppendIsConcat
  <2>3. <<x>> \in Seq(S) /\ Len(<<x>>) = 1
    OBVIOUS
  <2>4. QED
    BY <1>1, <1>2, <1>3, <2>1, <2>2, <2>3 DEF rest
<1>4. CASE ~push
  <2>1. Joining(push, x) = <<>> /\ Bit(push) = 0
    BY <1>4 DEF Joining, Bit
  <2>2. rest = rest \o <<>>
    BY <1>1, ConcatEmptySeq
  <2>3. <<>> \in Seq(S) /\ Len(<<>>) = 0
    OBVIOUS
  <2>4. QED
    BY <1>1, <1>2, <1>4, <2>1, <2>2, <2>3 DEF rest
<1>5. QED
  BY <1>3, <1>4

\* The shares of the flits in an output FIFO, when its head goes and when a flit
\* joins.
LEMMA SharesOfTwo ==
    ASSUME NEW s, NEW q \in Seq(Flits), Len(q) <= 2
    PROVE  /\ OfSource(s, q) \in Seq(Flits)
           /\ q = <<>> => OfSource(s, q) = <<>>
           /\ Len(q) = 1 => OfSource(s, q) = Share(s, q[1])
           /\ Len(q) = 2 => OfSource(s, q) = Share(s, q[1]) \o Share(s, q[2])
<1>1. \A f \in Flits : Share(s, f) \in Seq(Flits)
  BY DEF Share
<1>2. <<>> \in Seq(Flits)
  OBVIOUS
<1>3. /\ \A i \in 1 .. Len(q) : q[i] \in Flits
      /\ Len(q) = 0 \/ Len(q) = 1 \/ Len(q) = 2
      /\ q = <<>> <=> Len(q) = 0
  <2>1. Len(q) \in Nat /\ (q = <<>> <=> Len(q) = 0) /\ \A i \in 1 .. Len(q) : q[i] \in Flits
    BY Lengths
  <2>2. \A n \in Nat : n <= 2 => n = 0 \/ n = 1 \/ n = 2
    OBVIOUS
  <2>3. Len(q) = 0 \/ Len(q) = 1 \/ Len(q) = 2
    BY <2>1, <2>2
  <2>4. QED
    BY <2>1, <2>3
<1>4. CASE Len(q) = 0
  <2>1. OfSource(s, q) = <<>> \o <<>>
    BY <1>4 DEF OfSource
  <2>2. QED
    BY <1>2, <1>3, <1>4, <2>1, ConcatEmptySeq
<1>5. CASE Len(q) = 1
  <2>1. OfSource(s, q) = Share(s, q[1]) \o <<>> /\ q[1] \in Flits /\ q # <<>>
    BY <1>3, <1>5 DEF OfSource, Share
  <2>2. QED
    BY <1>1, <1>3, <1>5, <2>1, ConcatEmptySeq
<1>6. CASE Len(q) = 2
  <2>1. OfSource(s, q) = Share(s, q[1]) \o Share(s, q[2]) /\ q[1] \in Flits /\ q[2] \in Flits /\ q # <<>>
    BY <1>3, <1>6 DEF OfSource, Share
  <2>2. QED
    BY <1>1, <1>3, <1>6, <2>1, ConcatProperties
<1>7. QED
  BY <1>3, <1>4, <1>5, <1>6

\* What a queue holds of a source starts with the share of its head.
LEMMA SharesOfTail ==
    ASSUME NEW s, NEW q \in Seq(Flits), Len(q) <= 2, q # <<>>
    PROVE  /\ OfSource(s, q) = Share(s, Head(q)) \o OfSource(s, Tail(q))
           /\ Tail(q) \in Seq(Flits) /\ Len(Tail(q)) <= 1 /\ Head(q) \in Flits
<1>1. /\ Head(q) \in Flits /\ Head(q) = q[1] /\ Tail(q) \in Seq(Flits)
      /\ Len(Tail(q)) = Len(q) - 1 /\ Len(q) \in Nat \ {0}
      /\ \A i \in 1 .. Len(Tail(q)) : Tail(q)[i] = q[i + 1]
  BY HeadTailProperties, EmptySeq
<1> DEFINE t == Tail(q)
<1>2. t \in Seq(Flits) /\ (Len(t) = 0 \/ Len(t) = 1) /\ (t = <<>> <=> Len(t) = 0)
  <2>1. t \in Seq(Flits) /\ Len(t) = Len(q) - 1 /\ Len(q) \in Nat
    BY <1>1
  <2> HIDE DEF t
  <2>2. Len(t) \in Nat /\ (t = <<>> <=> Len(t) = 0)
    BY <2>1, Lengths
  <2>3. QED
    BY <2>1, <2>2
<1> HIDE DEF t
<1>3. CASE Len(t) = 0
  <2>1. t = <<>> /\ Len(q) = 1
    <3>1. t = <<>>
      BY <1>2, <1>3
    <3>2. Len(q) \in Nat /\ Len(t) = Len(q) - 1
      BY <1>1 DEF t
    <3>3. Len(q) = 1
      BY <1>3, <3>2
    <3>4. QED
      BY <3>1, <3>3
  <2>2. OfSource(s, q) = Share(s, q[1])
    BY <2>1, SharesOfTwo
  <2>5. t \in Seq(Flits) /\ Len(t) <= 2
    BY <1>2, <1>3
  <2>6. OfSource(s, t) = <<>>
    BY <2>1, <2>5, SharesOfTwo
  <2>3. Share(s, q[1]) \in Seq(Flits)
    BY <1>1 DEF Share
  <2>4. QED
    <3>1. OfSource(s, q) = Share(s, Head(q)) \o OfSource(s, t)
      BY <1>1, <2>2, <2>3, <2>6, ConcatEmptySeq
    <3>2. QED
      BY <1>1, <1>2, <1>3, <3>1 DEF t
<1>4. CASE Len(t) = 1
  <2>1. Len(q) = 2 /\ Len(q) <= 2 /\ t[1] = q[2]
    <3>1. Len(t) = Len(q) - 1 /\ Len(q) \in Nat /\ \A i \in 1 .. Len(t) : t[i] = q[i + 1]
      BY <1>1 DEF t
    <3>2. QED
      BY <1>4, <3>1
  <2>2. OfSource(s, q) = Share(s, q[1]) \o Share(s, q[2])
    BY <2>1, SharesOfTwo
  <2>3. t \in Seq(Flits) /\ Len(t) <= 2
    BY <1>2, <1>4
  <2>4. OfSource(s, t) = Share(s, t[1])
    BY <1>4, <2>3, SharesOfTwo
  <2>5. OfSource(s, q) = Share(s, Head(q)) \o OfSource(s, t)
    BY <1>1, <2>1, <2>2, <2>4
  <2>6. QED
    BY <1>1, <1>2, <1>4, <2>5 DEF t
<1>5. QED
  BY <1>2, <1>3, <1>4

\* What a queue holds of a source ends with the share of what joins it.
LEMMA SharesOfMore ==
    ASSUME NEW s, NEW q \in Seq(Flits), Len(q) <= 1, NEW f \in Flits
    PROVE  OfSource(s, q \o <<f>>) = OfSource(s, q) \o Share(s, f)
<1>1. /\ Share(s, f) \in Seq(Flits)
      /\ Len(q) \in Nat /\ (Len(q) = 0 \/ Len(q) = 1) /\ (q = <<>> <=> Len(q) = 0)
  <2>1. Len(q) \in Nat /\ (q = <<>> <=> Len(q) = 0)
    BY Lengths
  <2>2. Share(s, f) \in Seq(Flits)
    BY DEF Share
  <2>3. \A n \in Nat : n <= 1 => n = 0 \/ n = 1
    OBVIOUS
  <2>4. Len(q) = 0 \/ Len(q) = 1
    BY <2>1, <2>3
  <2>5. QED
    BY <2>1, <2>2, <2>4
<1> DEFINE r == q \o <<f>>
<1>2. /\ <<f>> \in Seq(Flits) /\ Len(<<f>>) = 1 /\ <<f>>[1] = f
  OBVIOUS
<1>3. /\ r \in Seq(Flits) /\ Len(r) = Len(q) + 1
      /\ \A i \in 1 .. Len(q) + 1 : r[i] = IF i <= Len(q) THEN q[i] ELSE f
  <2>1. /\ r \in Seq(Flits) /\ Len(r) = Len(q) + 1
        /\ \A i \in 1 .. Len(q) + 1 : r[i] = IF i <= Len(q) THEN q[i] ELSE <<f>>[i - Len(q)]
    BY <1>2, ConcatProperties
  <2>2. \A i \in 1 .. Len(q) + 1 : ~(i <= Len(q)) => i - Len(q) = 1
    BY <1>1
  <2>3. QED
    BY <1>2, <2>1, <2>2
<1> HIDE DEF r
<1>4. CASE Len(q) = 0
  <2>1. q = <<>> /\ Len(q) <= 2 /\ Len(r) = 1 /\ Len(r) <= 2 /\ r[1] = f /\ r \in Seq(Flits)
    BY <1>1, <1>3, <1>4
  <2>2. OfSource(s, r) = Share(s, f)
    BY <2>1, SharesOfTwo
  <2>3. OfSource(s, q) = <<>>
    BY <2>1, SharesOfTwo
  <2>4. QED
    BY <1>1, <2>2, <2>3, ConcatEmptySeq DEF r
<1>5. CASE Len(q) = 1
  <2>1. Len(r) = 2 /\ Len(r) <= 2 /\ r[1] = q[1] /\ r[2] = f /\ r \in Seq(Flits) /\ Len(q) <= 2
    BY <1>3, <1>5
  <2>2. OfSource(s, r) = Share(s, q[1]) \o Share(s, f)
    BY <2>1, SharesOfTwo
  <2>3. OfSource(s, q) = Share(s, q[1])
    BY <1>5, <2>1, SharesOfTwo
  <2>4. QED
    BY <2>2, <2>3 DEF r
<1>6. QED
  BY <1>1, <1>4, <1>5-----------------------------------------------------------------------------
\* A destination that is asked grants one source, and hands on its head.
LEMMA ChosenIs ==
    ASSUME QueueIInv, NEW d \in Dests, reqs(d) # {}
    PROVE  \E t \in Sources : /\ grants(d) = {t}
                              /\ data[t][d] \in Seq(Flits) /\ data[t][d] # <<>>
                              /\ chosen(d) = Head(data[t][d])
                              /\ chosen(d) \in Flits
                              /\ chosen(d)[1] = t
<1>1. reqs(d) \in SUBSET Sources
  BY DEF reqs
<1>2. \E t \in reqs(d) : DestProofs!Grants(destMask[d], reqs(d)) = {t}
  <2>1. DestProofs!NumReqsAssumption /\ DestProofs!Requesters = Sources
    BY XbarAssumption DEF DestProofs!NumReqsAssumption, DestProofs!Requesters, Sources
  <2>2. QED
    BY <1>1, <2>1, DestProofs!OneGrant
<1>3. PICK t \in reqs(d) : grants(d) = {t}
  BY <1>2 DEF grants, DestRr!Grants, DestRr!MaskNext, DestRr!Code, DestRr!Thermometer,
     DestRr!Requesters, DestProofs!Grants, DestProofs!MaskNext, DestProofs!Code,
     DestProofs!Thermometer, DestProofs!Requesters
<1>4. t \in Sources /\ data[t][d] # <<>> /\ data[t][d] \in Seq(Flits)
  BY <1>3 DEF reqs, QueueIInv, CreditIInv, CreditType
<1>5. chosen(d) = Head(data[t][d])
  BY <1>3 DEF chosen
<1> DEFINE q == data[t][d]
<1>6. \A i \in 1 .. Len(q) : q[i][1] = t
  BY <1>4 DEF QueueIInv, OwnFlits
<1>7. q \in Seq(Flits) /\ q # <<>>
  BY <1>4
<1> HIDE DEF q
<1>8. Head(q) \in Flits /\ Head(q) = q[1] /\ 1 \in 1 .. Len(q)
  BY <1>7, HeadTailProperties, EmptySeq
<1>9. QED
  BY <1>3, <1>4, <1>5, <1>6, <1>8 DEF q

\* A relay holds at most one flit for a destination.
LEMMA UnderWayIs ==
    ASSUME QueueIInv, NEW s \in Sources, NEW d
    PROVE  UnderWay(s, d) \in Seq(Flits) /\ Len(UnderWay(s, d)) = Bit(d \in relay[s].to)
<1>1. relay[s].flit \in Flits
  BY DEF QueueIInv, CreditIInv, CreditType
<1>2. CASE d \in relay[s].to
  <2>1. UnderWay(s, d) = <<relay[s].flit>> /\ Bit(d \in relay[s].to) = 1
    BY <1>2 DEF UnderWay, Bit
  <2>2. QED
    BY <1>1, <2>1
<1>3. CASE d \notin relay[s].to
  <2>1. UnderWay(s, d) = <<>> /\ Bit(d \in relay[s].to) = 0
    BY <1>3 DEF UnderWay, Bit
  <2>2. QED
    BY <2>1
<1>4. QED
  BY <1>2, <1>3

\* One edge of the data FIFO of a pair: the head goes when it is popped, and the
\* flit under way joins.
LEMMA DataIs ==
    ASSUME QueueIInv, NEW s \in Sources, NEW d \in Dests, NEW ready
    PROVE  LET q == data[s][d]
               rest == Rest(q, s \in pops(d, ready))
           IN  /\ q \in Seq(Flits)
               /\ s \in pops(d, ready) => q # <<>>
               /\ rest \in Seq(Flits)
               /\ DataNext(s, d, ready) = rest \o UnderWay(s, d)
<1> DEFINE q == data[s][d]
           moved == d \in relay[s].to
           x == relay[s].flit
           pop == s \in pops(d, ready)
<1>1. /\ q \in Seq(Flits) /\ x \in Flits /\ FifoDepth \in Nat
      /\ credit[s][d] \in 0 .. FifoDepth
      /\ credit[s][d] = Len(q) + Bit(moved)
  BY XbarAssumption DEF QueueIInv, CreditIInv, CreditType, CreditsCountFlits, Bit
<1>2. pop => q # <<>>
  BY PopsFind
<1>3. UnderWay(s, d) = Joining(moved, x)
  BY DEF UnderWay, Joining
<1>4. DataNext(s, d, ready) = After(q, FifoDepth, moved, x, pop)
  BY DEF DataNext
<1> HIDE DEF q, moved, x, pop
<1>5. moved => Len(q) < FifoDepth
  BY <1>1, Lengths DEF Bit
<1>6. /\ Rest(q, pop) \in Seq(Flits)
      /\ Joining(moved, x) \in Seq(Flits)
      /\ Len(Joining(moved, x)) = Bit(moved)
      /\ After(q, FifoDepth, moved, x, pop) = Rest(q, pop) \o Joining(moved, x)
  <2>1. x \in Flits /\ q \in Seq(Flits) /\ FifoDepth \in Nat
    BY <1>1
  <2>2. QED
    BY <2>1, <1>5, AfterIsConcat
<1>7. QED
  BY <1>1, <1>2, <1>3, <1>4, <1>6 DEF q, pop

\* One edge of an output FIFO: the head goes when the destination is ready, and
\* what is chosen joins when there is room.
LEMMA OutIs ==
    ASSUME QueueIInv, NEW d \in Dests, d \in Relayed, NEW ready
    PROVE  LET joins == reqs(d) # {} /\ Len(out[d]) < 2
               rest == Rest(out[d], d \in ready)
               last == Joining(joins, chosen(d))
           IN  /\ out[d] \in Seq(Flits) /\ Len(out[d]) <= 2
               /\ rest \in Seq(Flits) /\ Len(rest) <= Len(out[d])
               /\ last \in Seq(Flits) /\ Len(last) = Bit(joins)
               /\ OutNext(d, ready) = rest \o last
<1> DEFINE q == out[d]
           joins == reqs(d) # {} /\ Len(q) < 2
           pop == d \in ready
           x == chosen(d)
<1>1. q \in Seq(Flits) /\ Len(q) <= 2
  BY DEF QueueIInv, OutType
<1>2. OutNext(d, ready) = After(q, 2, joins, x, pop)
  BY DEF OutNext, After, Room
<1>3. joins => x \in Flits
  BY ChosenIs
<1>4. joins => Len(q) < 2
  OBVIOUS
<1> HIDE DEF q, pop, x, joins
<1>5. /\ Rest(q, pop) \in Seq(Flits)
      /\ Joining(joins, x) \in Seq(Flits)
      /\ Len(Joining(joins, x)) = Bit(joins)
      /\ After(q, 2, joins, x, pop) = Rest(q, pop) \o Joining(joins, x)
  <2> DEFINE y == IF joins THEN x ELSE <<0, 0>>
  <2>1. q \in Seq(Flits)
    BY <1>1
  <2>2. y \in Flits
    BY <1>3, XbarAssumption DEF Flits, Sources
  <2>3. /\ Joining(joins, y) = Joining(joins, x)
        /\ After(q, 2, joins, y, pop) = After(q, 2, joins, x, pop)
    BY DEF Joining, After
  <2> HIDE DEF y
  <2>4. /\ Rest(q, pop) \in Seq(Flits)
        /\ Joining(joins, y) \in Seq(Flits)
        /\ Len(Joining(joins, y)) = Bit(joins)
        /\ After(q, 2, joins, y, pop) = Rest(q, pop) \o Joining(joins, y)
    BY <2>1, <2>2, <1>4, AfterIsConcat
  <2>5. QED
    BY <2>3, <2>4
<1>6. Len(Rest(q, pop)) <= Len(q)
  <2>1. q # <<>> => Len(Tail(q)) = Len(q) - 1
    BY <1>1, HeadTailProperties
  <2>2. Len(q) \in Nat
    BY <1>1, Lengths
  <2>3. QED
    BY <2>1, <2>2 DEF Rest
<1>7. QED
  BY <1>1, <1>2, <1>5, <1>6 DEF q, joins, pop, x

-----------------------------------------------------------------------------
\* The strengthened invariant is inductive.
LEMMA QueueEdgeKeeps ==
    ASSUME QueueIInv, NEW valid \in [Sources -> SUBSET Dests], NEW ready, Edge(valid, ready)
    PROVE  QueueIInv'
<1>1. CreditIInv'
  BY EdgeKeeps DEF QueueIInv
<1>2. ASSUME NEW d \in Dests
      PROVE  /\ OutNext(d, ready) \in Seq(Flits)
             /\ Len(OutNext(d, ready)) <= IF d \in Relayed THEN 2 ELSE 0
  <2>1. CASE d \notin Relayed
    <3>1. OutNext(d, ready) = <<>>
      BY <2>1 DEF OutNext
    <3>2. QED
      BY <2>1, <3>1
  <2>2. CASE d \in Relayed
    <3> DEFINE joins == reqs(d) # {} /\ Len(out[d]) < 2
               rest == Rest(out[d], d \in ready)
               last == Joining(joins, chosen(d))
    <3>1. /\ out[d] \in Seq(Flits) /\ Len(out[d]) <= 2
          /\ rest \in Seq(Flits) /\ Len(rest) <= Len(out[d])
          /\ last \in Seq(Flits) /\ Len(last) = Bit(joins)
          /\ OutNext(d, ready) = rest \o last
      BY <2>2, OutIs
    <3>2. joins => Len(out[d]) < 2
      OBVIOUS
    <3>3. Len(out[d]) \in Nat /\ Len(rest) \in Nat
      BY <3>1, Lengths
    <3> HIDE DEF joins, rest, last
    <3>4. rest \o last \in Seq(Flits) /\ Len(rest \o last) = Len(rest) + Bit(joins)
      BY <3>1, ConcatProperties
    <3>5. Len(rest) + Bit(joins) <= 2
      BY <3>1, <3>2, <3>3 DEF Bit
    <3>6. QED
      BY <2>2, <3>1, <3>4, <3>5
  <2>3. QED
    BY <2>1, <2>2
<1>3. OutType'
  BY <1>2 DEF Edge, OutType
<1>4. ASSUME NEW s \in Sources PROVE RelayNext(s, valid).flit[1] = s
  <2>1. relay[s].flit[1] = s /\ relay[s] \in [to : SUBSET Dests, flit : Flits]
    BY DEF QueueIInv, OwnFlits, CreditIInv, CreditType
  <2>2. CASE taken(s, valid) = {}
    BY <2>1, <2>2 DEF RelayNext
  <2>3. CASE taken(s, valid) # {}
    BY <2>3 DEF RelayNext
  <2>4. QED
    BY <2>2, <2>3
<1>5. ASSUME NEW s \in Sources, NEW d \in Dests
      PROVE  \A i \in 1 .. Len(DataNext(s, d, ready)) : DataNext(s, d, ready)[i][1] = s
  <2> DEFINE q == data[s][d]
             pop == s \in pops(d, ready)
             rest == Rest(q, pop)
             last == UnderWay(s, d)
  <2>1. /\ q \in Seq(Flits) /\ (pop => q # <<>>) /\ rest \in Seq(Flits)
        /\ DataNext(s, d, ready) = rest \o last
    BY DataIs
  <2>2. last \in Seq(Flits) /\ \A i \in 1 .. Len(last) : last[i][1] = s
    <3>1. relay[s].flit \in Flits /\ relay[s].flit[1] = s
      BY DEF QueueIInv, OwnFlits, CreditIInv, CreditType
    <3>2. CASE d \in relay[s].to
      <4>1. last = <<relay[s].flit>>
        BY <3>2 DEF UnderWay
      <4>2. QED
        BY <3>1, <4>1
    <3>3. CASE d \notin relay[s].to
      <4>1. last = <<>>
        BY <3>3 DEF UnderWay
      <4>2. QED
        BY <4>1
    <3>4. QED
      BY <3>2, <3>3
  <2>3. \A i \in 1 .. Len(q) : q[i][1] = s
    BY DEF QueueIInv, OwnFlits
  <2> HIDE DEF q, pop, last
  <2>4. \A i \in 1 .. Len(rest) : rest[i][1] = s
    <3>1. CASE pop
      <4>1. /\ Len(Tail(q)) = Len(q) - 1 /\ \A i \in 1 .. Len(Tail(q)) : Tail(q)[i] = q[i + 1]
        BY <2>1, <3>1, HeadTailProperties
      <4>2. Len(q) \in Nat
        BY <2>1, Lengths
      <4>3. \A i \in 1 .. Len(Tail(q)) : i + 1 \in 1 .. Len(q)
        BY <4>1, <4>2
      <4>4. QED
        BY <2>1, <2>3, <3>1, <4>1, <4>3 DEF Rest
    <3>2. CASE ~pop
      BY <2>3, <3>2 DEF Rest
    <3>3. QED
      BY <3>1, <3>2
  <2> HIDE DEF rest
  <2>5. /\ Len(rest \o last) = Len(rest) + Len(last)
        /\ \A i \in 1 .. Len(rest) + Len(last) :
              (rest \o last)[i] = IF i <= Len(rest) THEN rest[i] ELSE last[i - Len(rest)]
    BY <2>1, <2>2, ConcatProperties
  <2>6. Len(rest) \in Nat /\ Len(last) \in Nat
    BY <2>1, <2>2, Lengths
  <2>7. \A i \in 1 .. Len(rest) + Len(last) :
           IF i <= Len(rest) THEN i \in 1 .. Len(rest) ELSE i - Len(rest) \in 1 .. Len(last)
    BY <2>6
  <2>8. QED
    BY <2>1, <2>2, <2>4, <2>5, <2>7
<1>6. OwnFlits'
  BY <1>4, <1>5 DEF Edge, OwnFlits
<1>7. QED
  BY <1>1, <1>3, <1>6 DEF QueueIInv

\* Credits, types and the sources of queued flits hold in every reachable state.
LEMMA QueueInvariant == Spec => []QueueIInv
<1>1. Init => QueueIInv
  <2> SUFFICES ASSUME Init PROVE QueueIInv
    OBVIOUS
  <2>1. CreditIInv
    BY XbarAssumption DEF Init, CreditIInv, CreditType, CreditsCountFlits, Flits
  <2>2. OutType
    BY DEF Init, OutType
  <2>3. OwnFlits
    BY DEF Init, OwnFlits
  <2>4. QED
    BY <2>1, <2>2, <2>3 DEF QueueIInv
<1>2. QueueIInv /\ [Next]_vars => QueueIInv'
  <2>1. QueueIInv /\ Next => QueueIInv'
    BY QueueEdgeKeeps DEF Next
  <2>2. QueueIInv /\ UNCHANGED vars => QueueIInv'
    <3>1. CreditIInv /\ UNCHANGED vars => CreditIInv'
      BY DEF vars, CreditIInv, CreditType, CreditsCountFlits
    <3>2. OutType /\ UNCHANGED vars => OutType'
      BY DEF vars, OutType
    <3>3. OwnFlits /\ UNCHANGED vars => OwnFlits'
      BY DEF vars, OwnFlits
    <3>4. QED
      BY <3>1, <3>2, <3>3 DEF QueueIInv
  <2>3. QED
    BY <2>1, <2>2
<1>3. QED
  BY <1>1, <1>2, PTL DEF Spec-----------------------------------------------------------------------------
\* Who is popped: the source of the flit that is chosen, and it is its head.
LEMMA PopsWhom ==
    ASSUME QueueIInv, NEW s \in Sources, NEW d \in Dests, NEW ready
    PROVE  /\ s \in pops(d, ready) <=> popArb(d, ready) /\ reqs(d) # {} /\ chosen(d)[1] = s
           /\ s \in pops(d, ready) => chosen(d) = Head(data[s][d])
<1>1. CASE reqs(d) = {}
  BY <1>1, PopsFind DEF reqs
<1>2. CASE reqs(d) # {}
  <2>1. PICK t \in Sources : grants(d) = {t} /\ chosen(d) = Head(data[t][d]) /\ chosen(d)[1] = t
    BY <1>2, ChosenIs
  <2>2. QED
    BY <1>2, <2>1 DEF pops
<1>3. QED
  BY <1>1, <1>2

\* What the relay holds after an edge.
LEMMA NewUnderWay ==
    ASSUME NEW s \in Sources, NEW d \in Dests, NEW valid, NEW ready, Edge(valid, ready)
    PROVE  UnderWay(s, d)' = Joining(d \in taken(s, valid), <<s, seq[s]>>)
<1>1. relay'[s] = RelayNext(s, valid)
  BY DEF Edge
<1>2. CASE taken(s, valid) = {}
  <2>1. relay'[s] = [relay[s] EXCEPT !.to = {}]
    BY <1>1, <1>2 DEF RelayNext
  <2>2. d \notin relay'[s].to
    BY <2>1
  <2>3. QED
    BY <1>2, <2>2 DEF UnderWay, Joining
<1>3. CASE taken(s, valid) # {}
  BY <1>1, <1>3 DEF RelayNext, UnderWay, Joining
<1>4. QED
  BY <1>2, <1>3

\* A FIFO is what is popped followed by what is left.
LEMMA SplitAtHead ==
    ASSUME NEW S, NEW q \in Seq(S), NEW pop, pop => q # <<>>
    PROVE  /\ Joining(pop, Head(q)) \in Seq(S)
           /\ Rest(q, pop) \in Seq(S)
           /\ q = Joining(pop, Head(q)) \o Rest(q, pop)
<1>1. CASE pop
  <2>1. Joining(pop, Head(q)) = <<Head(q)>> /\ Rest(q, pop) = Tail(q)
    BY <1>1 DEF Joining, Rest
  <2>2. Head(q) \in S /\ Tail(q) \in Seq(S)
    BY <1>1, HeadTailProperties
  <2>3. <<Head(q)>> \in Seq(S)
    BY <2>2
  <2>4. QED
    BY <1>1, <2>1, <2>2, <2>3, HeadAndTail
<1>2. CASE ~pop
  <2>1. Joining(pop, Head(q)) = <<>> /\ Rest(q, pop) = q
    BY <1>2 DEF Joining, Rest
  <2>2. <<>> \in Seq(S) /\ q = <<>> \o q
    BY ConcatEmptySeq
  <2>3. QED
    BY <2>1, <2>2
<1>3. QED
  BY <1>1, <1>2

\* Concatenation under a name of its own: the provers are lost among sequences
\* when they may look into \o.
Cat(x, y) == x \o y

\* Concatenation is associative, on the shorthand used below.
LEMMA CatAssociative ==
    ASSUME NEW S, NEW a \in Seq(S), NEW b \in Seq(S), NEW c \in Seq(S)
    PROVE  Cat(Cat(a, b), c) = Cat(a, Cat(b, c)) /\ Cat(a, b) \in Seq(S)
<1>1. (a \o b) \o c = a \o (b \o c)
  BY ConcatAssociative
<1>2. a \o b \in Seq(S)
  BY ConcatProperties
<1>3. QED
  BY <1>1, <1>2 DEF Cat

\* Five pieces, bracketed as the relay brackets them and as the queue does.
LEMMA Brackets ==
    ASSUME NEW S, NEW a \in Seq(S), NEW p \in Seq(S), NEW r \in Seq(S), NEW u \in Seq(S),
           NEW n \in Seq(S)
    PROVE  Cat(Cat(a, p), Cat(Cat(r, u), n)) = Cat(Cat(a, Cat(Cat(p, r), u)), n)
<1>1. /\ Cat(a, p) \in Seq(S) /\ Cat(r, u) \in Seq(S) /\ Cat(p, r) \in Seq(S)
      /\ Cat(p, Cat(r, u)) \in Seq(S)
  BY CatAssociative
<1>2. Cat(Cat(a, p), Cat(Cat(r, u), n)) = Cat(Cat(Cat(a, p), Cat(r, u)), n)
  BY <1>1, CatAssociative
<1>3. Cat(Cat(a, p), Cat(r, u)) = Cat(a, Cat(p, Cat(r, u)))
  BY <1>1, CatAssociative
<1>4. Cat(p, Cat(r, u)) = Cat(Cat(p, r), u)
  BY CatAssociative
<1>5. QED
  BY <1>2, <1>3, <1>4

\* The flits of source s that destination d takes.
Out(s, d, ready) == {f \in handedOut(d, ready) : f[1] = s}

\* What an edge does to one pair: q stays, h is handed out in front of it, and
\* what is taken from the source joins it.
PairEdge(s, d, valid, ready) ==
    \E h, q \in Seq(Flits) :
        /\ owed[s][d] = h \o q
        /\ owed'[s][d] = q \o Joining(d \in taken(s, valid), <<s, seq[s]>>)
        /\ \/ Out(s, d, ready) = {} /\ h = <<>>
           \/ \E f \in Flits : Out(s, d, ready) = {f} /\ h = <<f>>

\* What is owed, now and after a step, as three pieces.
LEMMA OwedIs ==
    ASSUME NEW s \in Sources, NEW d \in Dests
    PROVE  /\ owed[s][d] = OfSource(s, out[d]) \o (data[s][d] \o UnderWay(s, d))
           /\ owed'[s][d] = OfSource(s, out'[d]) \o (data'[s][d] \o UnderWay(s, d)')
<1>1. owed[s][d] = OfSource(s, out[d]) \o (data[s][d] \o UnderWay(s, d))
  BY DEF owed
<1>2. owed'[s][d] = OfSource(s, out'[d]) \o (data'[s][d] \o UnderWay(s, d)')
  BY DEF owed, OfSource
<1>3. QED
  BY <1>1, <1>2

\* A pair whose destination has no output FIFO.
LEMMA DirectPair ==
    ASSUME QueueIInv, NEW s \in Sources, NEW d \in Dests, d \notin Relayed,
           NEW valid \in [Sources -> SUBSET Dests], NEW ready, Edge(valid, ready)
    PROVE  PairEdge(s, d, valid, ready)
<1> DEFINE D == data[s][d]
           pop == s \in pops(d, ready)
           U == UnderWay(s, d)
           N == Joining(d \in taken(s, valid), <<s, seq[s]>>)
           h == Joining(pop, Head(D))
           r == Rest(D, pop)
<1>1. /\ D \in Seq(Flits) /\ (pop => D # <<>>)
      /\ data'[s][d] = r \o U
  BY DataIs DEF Edge
<1>2. U \in Seq(Flits)
  BY UnderWayIs
<1>3. UnderWay(s, d)' = N
  BY NewUnderWay
<1>4. out[d] = <<>> /\ out'[d] = <<>> /\ OfSource(s, <<>>) = <<>>
  <2>1. out[d] \in Seq(Flits) /\ Len(out[d]) <= 0
    BY DEF QueueIInv, OutType
  <2>2. out[d] = <<>>
    BY <2>1, Lengths
  <2>3. out'[d] = <<>>
    BY DEF Edge, OutNext
  <2>4. <<>> \in Seq(Flits) /\ Len(<<>>) <= 2
    OBVIOUS
  <2>5. QED
    BY <2>2, <2>3, <2>4, SharesOfTwo
<1>5. \/ Out(s, d, ready) = {} /\ ~pop
      \/ Out(s, d, ready) = {Head(D)} /\ pop
  <2>1. handedOut(d, ready) = IF d \in ready /\ reqs(d) # {} THEN {chosen(d)} ELSE {}
    BY DEF handedOut
  <2>2. /\ pop <=> d \in ready /\ reqs(d) # {} /\ chosen(d)[1] = s
        /\ pop => chosen(d) = Head(D)
    BY PopsWhom DEF popArb
  <2>3. QED
    BY <2>1, <2>2 DEF Out
<1>6. /\ owed[s][d] = <<>> \o (D \o U)
      /\ owed'[s][d] = <<>> \o ((r \o U) \o N)
  BY <1>1, <1>3, <1>4, OwedIs
<1> HIDE DEF D, pop, U
<1>7. h \in Seq(Flits) /\ r \in Seq(Flits) /\ D = h \o r
  <2>1. D \in Seq(Flits)
    BY <1>1
  <2>2. pop => D # <<>>
    BY <1>1
  <2>3. QED
    BY <2>1, <2>2, SplitAtHead
<1>8. pop => Head(D) \in Flits
  BY <1>1, HeadTailProperties
<1>9. N \in Seq(Flits)
  <2>1. <<s, seq[s]>> \in Flits
    BY DEF Flits, QueueIInv, CreditIInv, CreditType
  <2>2. QED
    BY <2>1 DEF Joining
<1>10. pop => h = <<Head(D)>>
  BY DEF Joining
<1>11. ~pop => h = <<>>
  BY DEF Joining
<1> HIDE DEF h, r, N
<1>12. D \o U \in Seq(Flits) /\ r \o U \in Seq(Flits) /\ (r \o U) \o N \in Seq(Flits)
  BY <1>1, <1>2, <1>7, <1>9, ConcatProperties
<1>13. owed[s][d] = h \o (r \o U)
  <2>1. owed[s][d] = D \o U
    BY <1>6, <1>12, ConcatEmptySeq
  <2>2. (h \o r) \o U = h \o (r \o U)
    BY <1>2, <1>7, ConcatAssociative
  <2>3. QED
    BY <1>7, <2>1, <2>2
<1>14. owed'[s][d] = (r \o U) \o N
  BY <1>6, <1>12, ConcatEmptySeq
<1>15. \/ Out(s, d, ready) = {} /\ h = <<>>
       \/ \E f \in Flits : Out(s, d, ready) = {f} /\ h = <<f>>
  BY <1>5, <1>8, <1>10, <1>11
<1>16. QED
  BY <1>7, <1>12, <1>13, <1>14, <1>15 DEF PairEdge, N

\* A pair whose destination has one: what leaves the data FIFO joins the output
\* FIFO at the same edge, so the queue as a whole does not see it move.
LEMMA RelayedPair ==
    ASSUME QueueIInv, NEW s \in Sources, NEW d \in Dests, d \in Relayed,
           NEW valid \in [Sources -> SUBSET Dests], NEW ready, Edge(valid, ready)
    PROVE  PairEdge(s, d, valid, ready)
<1> DEFINE D == data[s][d]
           o == out[d]
           pop == s \in pops(d, ready)
           goes == d \in ready /\ o # <<>>
           joins == reqs(d) # {} /\ Len(o) < 2
           U == UnderWay(s, d)
           N == Joining(d \in taken(s, valid), <<s, seq[s]>>)
           p == Joining(pop, Head(D))
           r == Rest(D, pop)
           left == Rest(o, d \in ready)
           a == OfSource(s, left)
           h == IF goes THEN Share(s, Head(o)) ELSE <<>>
<1>1. /\ D \in Seq(Flits) /\ (pop => D # <<>>)
      /\ data'[s][d] = r \o U
  BY DataIs DEF Edge
<1>2. U \in Seq(Flits)
  BY UnderWayIs
<1>3. UnderWay(s, d)' = N
  BY NewUnderWay
<1>4. /\ o \in Seq(Flits) /\ Len(o) <= 2
      /\ left \in Seq(Flits) /\ Len(left) <= Len(o)
      /\ out'[d] = left \o Joining(joins, chosen(d))
  BY OutIs DEF Edge
<1>5. pop <=> joins /\ chosen(d)[1] = s
  BY PopsWhom DEF popArb
<1>6. pop => chosen(d) = Head(D)
  BY PopsWhom
<1>7. joins => chosen(d) \in Flits
  BY ChosenIs
<1>8. Out(s, d, ready) = IF goes /\ Head(o)[1] = s THEN {Head(o)} ELSE {}
  <2>1. handedOut(d, ready) = IF goes THEN {Head(o)} ELSE {}
    BY DEF handedOut
  <2>2. QED
    BY <2>1 DEF Out
<1>9. /\ owed[s][d] = OfSource(s, o) \o (D \o U)
      /\ owed'[s][d] = OfSource(s, out'[d]) \o ((r \o U) \o N)
  BY <1>1, <1>3, OwedIs
<1>10. N \in Seq(Flits)
  <2>1. <<s, seq[s]>> \in Flits
    BY DEF Flits, QueueIInv, CreditIInv, CreditType
  <2>2. QED
    BY <2>1 DEF Joining
<1>11. goes => Rest(o, d \in ready) = Tail(o)
  BY DEF Rest
<1>12. ~goes => Rest(o, d \in ready) = o
  BY DEF Rest
<1> HIDE DEF D, o, pop, joins, U, N, left, goes
<1>13. p \in Seq(Flits) /\ r \in Seq(Flits) /\ D = p \o r
  <2>1. D \in Seq(Flits)
    BY <1>1
  <2>2. pop => D # <<>>
    BY <1>1
  <2>3. QED
    BY <2>1, <2>2, SplitAtHead
<1>14. Len(o) \in Nat /\ Len(left) \in Nat
  BY <1>4, Lengths
<1>15. left \in Seq(Flits) /\ Len(left) <= 2
  BY <1>4, <1>14
<1>16. a \in Seq(Flits)
  BY <1>15, SharesOfTwo
\* The output FIFO gains exactly what this source loses.
<1>17. OfSource(s, out'[d]) = a \o p
  <2>1. CASE joins
    <3>1. Len(left) <= 1
      BY <1>4, <1>14, <2>1 DEF joins
    <3>2. out'[d] = left \o <<chosen(d)>>
      BY <1>4, <2>1 DEF Joining
    <3>3. OfSource(s, out'[d]) = a \o Share(s, chosen(d))
      BY <1>7, <1>15, <2>1, <3>1, <3>2, SharesOfMore
    <3>4. Share(s, chosen(d)) = p
      BY <1>5, <1>6, <2>1 DEF Share, Joining
    <3>5. QED
      BY <3>3, <3>4
  <2>2. CASE ~joins
    <3>1. out'[d] = left \o <<>> /\ p = <<>>
      BY <1>4, <1>5, <2>2 DEF Joining
    <3>2. out'[d] = left
      BY <1>15, <3>1, ConcatEmptySeq
    <3>3. a = a \o <<>>
      BY <1>16, ConcatEmptySeq
    <3>4. QED
      BY <3>1, <3>2, <3>3
  <2>3. QED
    BY <2>1, <2>2
<1>18. h \in Seq(Flits) /\ OfSource(s, o) = h \o a
  <2>1. CASE goes
    <3>1. o # <<>> /\ left = Tail(o)
      BY <1>11, <2>1 DEF goes, left
    <3>2. OfSource(s, o) = Share(s, Head(o)) \o OfSource(s, Tail(o)) /\ Head(o) \in Flits
      BY <1>4, <3>1, SharesOfTail
    <3>3. Share(s, Head(o)) \in Seq(Flits)
      BY <3>2 DEF Share
    <3>4. QED
      BY <2>1, <3>1, <3>2, <3>3
  <2>2. CASE ~goes
    <3>1. h = <<>> /\ left = o
      BY <1>12, <2>2 DEF left
    <3>2. a = <<>> \o a /\ <<>> \in Seq(Flits)
      BY <1>16, ConcatEmptySeq
    <3>3. QED
      BY <3>1, <3>2
  <2>3. QED
    BY <2>1, <2>2
<1>19. \/ Out(s, d, ready) = {} /\ h = <<>>
       \/ \E f \in Flits : Out(s, d, ready) = {f} /\ h = <<f>>
  <2>1. goes => Head(o) \in Flits
    BY <1>4, HeadTailProperties DEF goes
  <2>2. QED
    BY <1>8, <2>1 DEF Share
<1> HIDE DEF a, p, r, h
<1>20. D \o U \in Seq(Flits) /\ a \o (D \o U) \in Seq(Flits)
  BY <1>1, <1>2, <1>16, ConcatProperties
<1>21. owed[s][d] = h \o (a \o (D \o U))
  <2> DEFINE w == D \o U
  <2>1. h \in Seq(Flits) /\ w \in Seq(Flits)
    BY <1>18, <1>20
  <2> HIDE DEF w
  <2>2. Cat(Cat(h, a), w) = Cat(h, Cat(a, w))
    BY <1>16, <2>1, CatAssociative
  <2>3. QED
    BY <1>9, <1>18, <2>2 DEF Cat, w
<1>22. owed'[s][d] = (a \o (D \o U)) \o N
  <2>1. p \in Seq(Flits) /\ r \in Seq(Flits)
    BY <1>13
  <2>2. Cat(Cat(a, p), Cat(Cat(r, U), N)) = Cat(Cat(a, Cat(Cat(p, r), U)), N)
    BY <1>2, <1>10, <1>16, <2>1, Brackets
  <2>3. QED
    BY <1>9, <1>13, <1>17, <2>2 DEF Cat
<1>23. QED
  BY <1>18, <1>19, <1>20, <1>21, <1>22 DEF PairEdge, N-----------------------------------------------------------------------------
\* What the abstract queue of a pair does, in the words of PairwiseQueues, and
\* the two halves of PairEdge.
QueueStep(in, gone, q, q1) ==
    /\ gone # {} => q # <<>> /\ gone = {Head(q)}
    /\ LET rest == IF gone = {} THEN q ELSE Tail(q)
       IN  \/ in = {} /\ q1 = rest
           \/ \E f \in in : in = {f} /\ q1 = Append(rest, f)

Leaves(gone, h) == \/ gone = {} /\ h = <<>>
                   \/ \E f \in Flits : gone = {f} /\ h = <<f>>

Joins(in, q, q1) == \/ in = {} /\ q1 = q
                    \/ \E f \in in : in = {f} /\ q1 = Append(q, f)

\* What stands in front of q leaves, and the rest of the step is done to q.
LEMMA LeavesAndJoins ==
    ASSUME NEW h, NEW q \in Seq(Flits), NEW q1, NEW in, NEW gone,
           Leaves(gone, h), Joins(in, q, q1)
    PROVE  QueueStep(in, gone, h \o q, q1)
<1> DEFINE old == h \o q
           rest == IF gone = {} THEN old ELSE Tail(old)
<1>1. (gone # {} => old # <<>> /\ gone = {Head(old)}) /\ rest = q
  <2>1. CASE gone = {} /\ h = <<>>
    <3>1. old = q
      BY <2>1, ConcatEmptySeq
    <3>2. QED
      BY <2>1, <3>1
  <2>2. ASSUME NEW f \in Flits, gone = {f}, h = <<f>>
        PROVE  (gone # {} => old # <<>> /\ gone = {Head(old)}) /\ rest = q
    <3>1. old # <<>> /\ Head(old) = f /\ Tail(old) = q
      BY <2>2, InFront
    <3>2. QED
      BY <2>2, <3>1
  <2>3. QED
    BY <2>1, <2>2 DEF Leaves
<1> HIDE DEF old, rest
<1>2. QED
  BY <1>1 DEF QueueStep, Joins, old, rest

\* Every clock edge of the crossbar is a step of the pairwise queues.
LEMMA EdgeIsStep ==
    ASSUME QueueIInv, QueueIInv', NEW valid \in [Sources -> SUBSET Dests],
           NEW ready \in SUBSET Dests, Edge(valid, ready)
    PROVE  Pairs!Next
<1>1. \A s \in Sources : taken(s, valid) \subseteq Dests
  BY TakenHasCredit DEF withCredit
<1>2. \A s \in Sources : <<s, seq[s]>> \in Flits
  BY DEF Flits, QueueIInv, CreditIInv, CreditType
<1>3. accepted' \subseteq Pairs!Transfers
  <2>1. accepted' = UNION {{<<s, d, <<s, seq[s]>>>> : d \in taken(s, valid)} : s \in Sources}
    BY DEF Edge
  <2>2. QED
    BY <1>1, <1>2, <2>1 DEF Pairs!Transfers
<1>4. \A d \in Dests : handedOut(d, ready) \subseteq Flits
  <2> SUFFICES ASSUME NEW d \in Dests PROVE handedOut(d, ready) \subseteq Flits
    OBVIOUS
  <2>1. out[d] \in Seq(Flits)
    BY DEF QueueIInv, OutType
  <2>2. out[d] # <<>> => Head(out[d]) \in Flits
    BY <2>1, HeadTailProperties
  <2>3. reqs(d) # {} => chosen(d) \in Flits
    BY ChosenIs
  <2>4. QED
    BY <2>2, <2>3 DEF handedOut
<1>5. delivered' = UNION {{<<f[1], d, f>> : f \in handedOut(d, ready)} : d \in Dests}
  BY DEF Edge
<1>6. delivered' \subseteq Pairs!Transfers
  <2>1. \A f \in Flits : f[1] \in Sources
    BY DEF Flits
  <2>2. QED
    BY <1>4, <1>5, <2>1 DEF Pairs!Transfers
<1>7. ASSUME NEW s \in Sources, NEW d \in Dests
      PROVE  PairEdge(s, d, valid, ready)
  BY DirectPair, RelayedPair
<1>8. owed' \in [Sources -> [Dests -> Seq(Flits)]]
  <2>1. ASSUME NEW s \in Sources, NEW d \in Dests PROVE owed'[s][d] \in Seq(Flits)
    <3> DEFINE N == Joining(d \in taken(s, valid), <<s, seq[s]>>)
    <3>1. PICK q \in Seq(Flits) : owed'[s][d] = q \o N
      BY <1>7 DEF PairEdge
    <3>2. N \in Seq(Flits)
      BY <1>2 DEF Joining
    <3> HIDE DEF N
    <3>3. QED
      BY <3>1, <3>2, ConcatProperties
  <2> DEFINE R(s, d) == OfSource(s, out[d]) \o (data[s][d] \o UnderWay(s, d))
  <2>2. owed' = [s \in Sources |-> [d \in Dests |-> R(s, d)']]
    BY DEF owed
  <2>3. \A s \in Sources, d \in Dests : R(s, d)' = owed'[s][d]
    BY <2>2
  <2> HIDE DEF R
  <2>4. \A s \in Sources, d \in Dests : R(s, d)' \in Seq(Flits)
    BY <2>1, <2>3
  <2>5. QED
    BY <2>2, <2>4
<1>9. ASSUME NEW s \in Sources, NEW d \in Dests
      PROVE  LET in == {f \in Flits : <<s, d, f>> \in accepted'}
                 gone == {f \in Flits : <<s, d, f>> \in delivered'}
             IN  QueueStep(in, gone, owed[s][d], owed'[s][d])
  <2> DEFINE in == {f \in Flits : <<s, d, f>> \in accepted'}
             gone == {f \in Flits : <<s, d, f>> \in delivered'}
             n == <<s, seq[s]>>
             took == d \in taken(s, valid)
             q1 == owed'[s][d]
  <2>1. in = IF took THEN {n} ELSE {}
    <3>1. accepted' = UNION {{<<t, e, <<t, seq[t]>>>> : e \in taken(t, valid)} : t \in Sources}
      BY DEF Edge
    <3>2. \A f : <<s, d, f>> \in accepted' <=> took /\ f = n
      BY <3>1
    <3>3. QED
      BY <1>2, <3>2
  <2>2. gone = Out(s, d, ready)
    <3>1. \A f : <<s, d, f>> \in delivered' <=> f \in handedOut(d, ready) /\ f[1] = s
      BY <1>5
    <3>2. QED
      BY <1>4, <3>1 DEF Out
  <2>3. PICK h \in Seq(Flits), q \in Seq(Flits) :
            /\ owed[s][d] = h \o q
            /\ q1 = q \o Joining(took, n)
            /\ Leaves(gone, h)
    BY <1>7, <2>2 DEF PairEdge, Leaves
  <2>4. n \in Flits
    BY <1>2
  <2> HIDE DEF in, gone, q1, n, took
  <2>5. Joins(in, q, q1)
    <3>1. CASE took
      <4>1. q1 = q \o <<n>> /\ in = {n}
        BY <2>1, <2>3, <3>1 DEF Joining
      <4>2. Append(q, n) = q \o <<n>>
        BY <2>4, AppendIsConcat
      <4>3. QED
        BY <4>1, <4>2 DEF Joins
    <3>2. CASE ~took
      <4>1. q1 = q \o <<>> /\ in = {}
        BY <2>1, <2>3, <3>2 DEF Joining
      <4>2. q \o <<>> = q
        BY ConcatEmptySeq
      <4>3. QED
        BY <4>1, <4>2 DEF Joins
    <3>3. QED
      BY <3>1, <3>2
  <2>6. QueueStep(in, gone, h \o q, q1)
    BY <2>3, <2>5, LeavesAndJoins
  <2>7. QED
    BY <2>3, <2>6 DEF in, gone, q1
<1>10. QED
  BY <1>3, <1>6, <1>8, <1>9 DEF Pairs!Next, QueueStep

\* shirecache_xbar is a queue for every source and destination: for any number of
\* them, any FIFO depth, and whichever sources broadcast and destinations have an
\* output FIFO, it loses, repeats, misdirects and reorders nothing.
THEOREM ImplementsPairwiseQueues == Spec => IsPairwiseQueues
<1>1. Init => Pairs!Init
  <2> SUFFICES ASSUME Init PROVE Pairs!Init
    OBVIOUS
  <2>1. ASSUME NEW s \in Sources, NEW d \in Dests
        PROVE  OfSource(s, out[d]) \o (data[s][d] \o UnderWay(s, d)) = <<>>
    <3>1. out[d] = <<>> /\ data[s][d] = <<>> /\ UnderWay(s, d) = <<>>
      BY DEF Init, UnderWay
    <3>2. <<>> \in Seq(Flits) /\ Len(<<>>) <= 2
      OBVIOUS
    <3>3. OfSource(s, <<>>) = <<>>
      BY <3>2, SharesOfTwo
    <3>4. <<>> \o <<>> = <<>>
      BY <3>2, ConcatEmptySeq
    <3>5. QED
      BY <3>1, <3>3, <3>4
  <2>2. owed = [s \in Sources |-> [d \in Dests |-> <<>>]]
    BY <2>1 DEF owed
  <2>3. QED
    BY <2>2 DEF Init, Pairs!Init
<1>2. QueueIInv /\ QueueIInv' /\ [Next]_vars => [Pairs!Next]_(Pairs!vars)
  <2> SUFFICES ASSUME QueueIInv, QueueIInv', [Next]_vars PROVE [Pairs!Next]_(Pairs!vars)
    OBVIOUS
  <2>1. CASE Next
    BY <2>1, EdgeIsStep DEF Next
  <2>2. CASE UNCHANGED vars
    BY <2>2 DEF vars, Pairs!vars, owed, OfSource, UnderWay
  <2>3. QED
    BY <2>1, <2>2
<1>3. QED
  BY <1>1, <1>2, QueueInvariant, PTL DEF Spec, IsPairwiseQueues, Pairs!Spec
=============================================================================
