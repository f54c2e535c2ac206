----------------------------- MODULE PrimArbLru -----------------------------
(***************************************************************************)
(* prim_arb_lru: grants the least recently granted bidder.  A step is one  *)
(* clock edge with the bids and the stall that were present there.         *)
(***************************************************************************)
EXTENDS LruOrder

VARIABLES prio,
          grant,  \* grant_o as it was at the last edge
          lost    \* history: lost[i][j] grants went to j while i was bidding

lru_vars == <<prio, grant, lost>>

NoLosses == [i \in Clients |-> [j \in Clients |-> 0]]

LruInit == prio = {} /\ grant = {} /\ lost = NoLosses

Grant(bid, stall) == IF stall THEN {} ELSE Winners(prio, bid)

\* A client that stops bidding, or wins, starts waiting afresh.
\* Counting stops at 2, which is already once too often.
CountUp(n) == IF n < 2 THEN n + 1 ELSE n

CountLosses(bid, won) ==
    [i \in Clients |->
        IF i \in bid \ won
        THEN [j \in Clients |-> IF j \in won THEN CountUp(lost[i][j]) ELSE lost[i][j]]
        ELSE [j \in Clients |-> 0]]

\* Mutant: the winner keeps its rank.
PrioNextStuck(bid, won) == prio

\* The code loops over all clients; at most one of them is granted.
PrioNext(bid, won) ==
    IF won = {} THEN prio ELSE Demote(prio, CHOOSE i \in won : TRUE)

LruEdge(bid, stall) ==
    LET won == Grant(bid, stall)
    IN  /\ grant' = won
        /\ prio' = PrioNext(bid, won)
        /\ lost' = CountLosses(bid, won)

LruReset == prio' = {} /\ grant' = {} /\ lost' = NoLosses

LruNext == \/ \E bid \in SUBSET Clients, stall \in BOOLEAN : LruEdge(bid, stall)
           \/ LruReset

LruSpec == LruInit /\ [][LruNext]_lru_vars

-----------------------------------------------------------------------------
LruTypeOK == /\ prio \subseteq Triangle
             /\ grant \subseteq Clients

\* The matrix never contains a cycle, from which nobody would win.
PrioIsOrder == IsOrder(prio)

\* A client that keeps bidding is overtaken at most once by each other one:
\* it is granted after at most NumClients - 1 other grants.
OvertakenAtMostOnce == \A i, j \in Clients : lost[i][j] <= 1

\* Whenever somebody bids and there is no stall, exactly one bidder is
\* granted: the arbiter neither idles nor grants twice.
WorkConserving ==
    \A bid \in SUBSET Clients :
        bid # {} => \E i \in bid : Winners(prio, bid) = {i}
=============================================================================
