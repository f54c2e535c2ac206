----------------------------- MODULE ReqqAlloc -----------------------------
(***************************************************************************)
(* Allocation of the request queue of a shire cache bank: the two          *)
(* instances of shirecache_bank_reqq_alloc (L2 requests of the neighbour-  *)
(* hoods, L3 requests of the mesh), and the index operations of the cache  *)
(* maintenance machine, which stall the requests of a level.  The arbiters *)
(* over the free entries are PrimArbRr2, here by what that module shows of *)
(* them.  What happens to an entry between its allocation and its end is   *)
(* reduced to the waits that matter here: the second half of a pair, and,  *)
(* for L2, an answer of the L3 of the same bank.  A step is a clock edge.  *)
(* Left out: the stall of memory self test, the move of the border between *)
(* L2 and L3 entries by software.                                          *)
(***************************************************************************)
EXTENDS Naturals, FiniteSets, Sequences, Functions

CONSTANTS NumEntries,   \* entries of the queue
          L3Ids,        \* entries that esr_sc_num_l3_reqq_entries gives to L3
          Kinds,        \* Kinds[l]: the requests that come to a level
          WalkOps,      \* operations of the maintenance machine
          MaxIndices,   \* bound: index operations of a walk
          MaxWalks,     \* bound: walks
          MaxAborts     \* bound: aborts of a walk

Levels == {"L2", "L3"}
Entries == 0 .. NumEntries - 1
Allowed == [L2 |-> Entries \ L3Ids, L3 |-> L3Ids]
None == NumEntries
Ids == Entries \cup {None}

ASSUME ReqqAllocAssumption ==
    /\ NumEntries \in Nat
    /\ \A l \in Levels : Cardinality(Allowed[l]) >= 2
    /\ L3Ids \subseteq Entries
    /\ \A l \in Levels : Kinds[l] \subseteq {"plain", "pair", "bad"}
    /\ WalkOps \subseteq {"AllInv", "L2", "L3", "Scp", "CBInv"}
    /\ {MaxIndices, MaxWalks, MaxAborts} \subseteq Nat

VARIABLES entry,       \* the entries; those that are not valid are Free
          allocAd,     \* alloc_valid_ad and the id of the last allocation
          needed,      \* alloc_2nd_half_needed_ad
          cbSyncR1, inFlight,   \* of the L2 instance
          bankReq,     \* the request waiting at a level, or NoReq
          posted,      \* queue of L2 entries whose request has yet to reach the L3 port
          walk,        \* the maintenance machine: operation, indices left, offer
          aborted,     \* pipe_idx_cop_aborted
          walks, aborts,        \* count the walks and the aborts
          cbSyncWas,   \* history: the CB Sync was on offer at the edge before
          owed,        \* history: the write arounds when it came up
          withdrawn,   \* history: an abort has withdrawn a CB Sync
          leftover     \* history: index operations of aborted walks

vars == <<entry, allocAd, needed, cbSyncR1, inFlight, bankReq, posted, walk,
          aborted, walks, aborts, cbSyncWas, owed, withdrawn, leftover>>

Free == [src |-> "none"]
NoReq == [kind |-> "none", for |-> None]
NoWalk == [op |-> "none", left |-> 0, offer |-> "none"]

Init == /\ entry = [i \in Entries |-> Free]
        /\ allocAd = [l \in Levels |-> [valid |-> FALSE, id |-> None]]
        /\ needed = [l \in Levels |-> FALSE]
        /\ cbSyncR1 = FALSE /\ inFlight = {}
        /\ bankReq = [l \in Levels |-> NoReq] /\ posted = <<>>
        /\ walk = NoWalk /\ aborted = FALSE /\ walks = 0 /\ aborts = 0
        /\ cbSyncWas = FALSE /\ owed = {} /\ withdrawn = FALSE /\ leftover = {}

valid == {i \in Entries : entry[i] # Free}
From(src) == {i \in valid : entry[i].src = src}

-----------------------------------------------------------------------------
(* The stalls.                                                             *)

busy(l) == walk.op \in (CASE l = "L2" -> {"AllInv", "L2", "Scp"}
                          [] l = "L3" -> {"AllInv", "L3", "Scp"})

\* The level whose allocator takes the index operations.
indexLevel == IF busy("L3") /\ ~busy("L2") THEN "L3" ELSE "L2"

\* Mutant: an index operation does not wait for the requests of the other level.
waitingOnOne(l) == l = indexLevel /\ busy(l) /\ From(l) # {}

waitingOn(l) == busy(l) /\ From(l) # {}

possibleWriteArounds ==
    {i \in valid : \/ entry[i].src = "L2" /\ entry[i].half # "whole"
                   \/ entry[i].stage = "write"}

cbSync == walk.op = "CBInv" /\ walk.offer = "sync"
cbSyncRe == cbSync /\ ~cbSyncR1

\* Mutant: the Sync is accepted while the snapshot is being taken.
waitingOnSyncEarly == walk.offer = "sync" /\ (From("Fsm") # {} \/ (cbSync /\ inFlight # {}))

waitingOnSync ==
    /\ walk.offer = "sync"
    /\ From("Fsm") # {} \/ (cbSync /\ (cbSyncRe \/ inFlight # {}))

copReady(l, g) == /\ l = indexLevel /\ walk.offer # "none"
                  /\ ~aborted
                  /\ g[l] # <<>> /\ ~needed[l]
                  /\ ~waitingOnSync
                  /\ \A m \in Levels : ~waitingOn(m)

\* Mutant: a busy L3 is stalled whatever L2 has in flight.
stallBoth(l) == busy(l) /\ ~aborted

\* L3 goes on while L2 requests in flight may need it.
stall(l) == busy(l) /\ (l = "L3" => ~waitingOn("L2")) /\ ~aborted

takesBank(l, g) == /\ bankReq[l] # NoReq
                   /\ g[l] # <<>> /\ ~needed[l]
                   /\ ~stall(l)
                   /\ ~(walk.offer # "none" /\ l = indexLevel)

allocates(l, g) == takesBank(l, g) \/ copReady(l, g) \/ (needed[l] /\ g[l] # <<>>)

pairs(l, g) == Len(g[l]) = 2 /\ takesBank(l, g) /\ bankReq[l].kind = "pair"

\* Mutant: the half that waits is forgotten when the machine is at work.
neededNextLost(l, g) ==
    IF allocates(l, g)
    THEN takesBank(l, g) /\ ~pairs(l, g) /\ bankReq[l].kind = "pair" /\ walk = NoWalk
    ELSE needed[l]

neededNext(l, g) ==
    IF allocates(l, g)
    THEN takesBank(l, g) /\ ~pairs(l, g) /\ bankReq[l].kind = "pair"
    ELSE needed[l]

clocked(l) == bankReq[l] # NoReq \/ walk.offer # "none" \/ allocAd[l].valid \/ needed[l]

\* What prim_arb_rr2 may hold for a level: one free entry of its own, two, or,
\* for an edge, none.  None also stands for a data queue without room.
grants(l) ==
    LET free == Allowed[l] \ valid
    IN  IF ~needed[l] /\ bankReq[l] = NoReq /\ (walk.offer = "none" \/ l # indexLevel) THEN {<<>>}
        ELSE {<<>>} \cup {<<i>> : i \in free}
                    \cup {ij \in free \X free : ij[1] # ij[2]}

Grants == {[L2 |-> g2, L3 |-> g3] : g2 \in grants("L2"), g3 \in grants("L3")}

-----------------------------------------------------------------------------
(* The entries.                                                            *)

\* What the winner of an allocation becomes.
first(l, g) ==
    LET blank == [src |-> l, half |-> "whole", mate |-> None, stage |-> "go",
                  for |-> None, op |-> "none"]
    IN  IF needed[l] THEN [blank EXCEPT !.half = "second", !.mate = allocAd[l].id]
        ELSE IF copReady(l, g)
        THEN [blank EXCEPT !.src = "Fsm", !.op = IF walk.offer = "sync" THEN "Sync" ELSE walk.op]
        ELSE [blank EXCEPT !.for = bankReq[l].for,
                !.half = CASE bankReq[l].kind = "pair" -> "first"
                           [] bankReq[l].kind = "bad" -> "refused"
                           [] OTHER -> "whole",
                !.mate = IF pairs(l, g) THEN g[l][2] ELSE None,
                !.stage = IF bankReq[l].kind = "pair" /\ ~pairs(l, g) THEN "wait" ELSE "go"]

\* The first half of a pair takes whatever is allocated next to be the second.
entryNext(i, g, move) ==
    LET l == CHOOSE m \in Levels : i \in Allowed[m]
    IN  CASE allocates(l, g) /\ i = g[l][1] -> first(l, g)
          [] pairs(l, g) /\ i = g[l][2] ->
                [first(l, g) EXCEPT !.half = "second", !.mate = g[l][1], !.for = None]
          [] i = move.who ->
                IF move.does = "end" THEN Free ELSE [entry[i] EXCEPT !.stage = move.does]
          [] i \in valid /\ entry[i].stage = "wait" /\ allocates(l, g) ->
                [entry[i] EXCEPT !.stage = "go", !.mate = g[l][1]]
          [] OTHER -> entry[i]

\* L2 entries that wait for this bank's L3.
waitsForL3 ==
    (Range(posted) \cup {bankReq["L3"].for} \cup {entry[i].for : i \in From("L3")}) \ {None}

finishable == {i \in valid \ waitsForL3 : entry[i].stage # "wait"}

\* L2 entries that may go to the mesh, for a line or with a victim: once each.
\* Invalidations and scratchpad writes of the machine never do.
sendable == {i \in valid \cap Allowed["L2"] :
                /\ entry[i].stage = "go" /\ entry[i].half # "refused"
                /\ entry[i].src = "Fsm" => entry[i].op \in {"L2", "CBInv"}}

\* What the machine offers after this edge; only the coalescing buffer has
\* entries to skip.
walkNext(w, g) ==
    CASE w.offer = "none" \/ copReady(indexLevel, g) ->
            IF w.offer = "sync" THEN {NoWalk}
            ELSE IF w.left = 0 THEN {[w EXCEPT !.offer = "sync"]}
            ELSE {[w EXCEPT !.left = w.left - 1, !.offer = o] :
                    o \in {"index"} \cup (IF w.op = "CBInv" THEN {"none"} ELSE {})}
      [] OTHER -> {w}

Machine(g, abort) ==
    /\ abort => walk # NoWalk /\ aborts < MaxAborts
    /\ aborts' = aborts + (IF abort THEN 1 ELSE 0)
    /\ IF abort THEN walk' = NoWalk /\ UNCHANGED walks
       ELSE IF walk # NoWalk THEN walk' \in walkNext(walk, g) /\ UNCHANGED walks
       ELSE \/ UNCHANGED <<walk, walks>>
            \/ /\ walks < MaxWalks /\ ~aborted
               /\ walks' = walks + 1
               /\ walk' \in [op : WalkOps, left : 1 .. MaxIndices, offer : {"none"}]

\* What may wait at a level after this edge; the L3 port takes the requests of
\* this bank's own entries first.
arrivals(l, g) ==
    IF bankReq[l] # NoReq /\ ~takesBank(l, g) THEN {bankReq[l]}
    ELSE IF l = "L3" /\ posted # <<>> THEN {[kind |-> "plain", for |-> Head(posted)]}
    ELSE [kind : Kinds[l], for : {None}] \cup {NoReq}

\* What an entry may do at an edge (bound: one entry at each): end, or go to
\* the L3 of this bank for a line or with a victim.  An entry served by the L3
\* of another bank or by the memory needs nothing here, and just goes on.
Quiet == [does |-> "nothing", who |-> None]
moves == [does : {"end"}, who : finishable]
            \cup [does : {"read"}, who : {i \in sendable : entry[i].src # "Fsm"}]
            \cup [does : {"write"}, who : sendable]
            \cup {Quiet}

Edge(g, move, abort) ==
    /\ aborted' = abort
    /\ allocAd' = [l \in Levels |->
                     [valid |-> allocates(l, g),
                      id |-> IF allocates(l, g) /\ neededNext(l, g) THEN g[l][1]
                             ELSE IF needed[l] /\ ~allocates(l, g) THEN allocAd[l].id
                             ELSE None]]
    /\ entry' = [i \in Entries |-> entryNext(i, g, move)]
    /\ needed' = [l \in Levels |-> neededNext(l, g)]
    /\ cbSyncR1' = IF clocked("L2") THEN cbSync ELSE cbSyncR1
    /\ inFlight' = IF ~clocked("L2") \/ ~cbSync THEN inFlight
                   ELSE IF cbSyncRe THEN possibleWriteArounds ELSE inFlight \cap valid
    /\ Machine(g, abort)
    /\ \E r2 \in arrivals("L2", g), r3 \in arrivals("L3", g) :
          /\ bankReq' = [L2 |-> r2, L3 |-> r3]
          /\ posted' = (IF r3.for # None /\ r3 # bankReq["L3"] THEN Tail(posted) ELSE posted)
                         \o (IF move.does \in {"read", "write"} THEN <<move.who>> ELSE <<>>)
    /\ cbSyncWas' = cbSync
    /\ owed' = {i \in IF cbSync THEN (IF cbSyncWas THEN owed ELSE possibleWriteArounds) ELSE {} :
                   move # [does |-> "end", who |-> i]}
    /\ withdrawn' = (withdrawn \/ (abort /\ cbSync /\ ~copReady("L2", g)))
    /\ leftover' = IF abort THEN {i \in Entries : entry'[i].src = "Fsm"}
                   ELSE {i \in leftover : move # [does |-> "end", who |-> i]}

Next == \E g \in Grants, move \in moves, abort \in BOOLEAN : Edge(g, move, abort)

Spec == Init /\ [][Next]_vars

\* The clock ticks, every entry that waits for nothing ends, and grants and
\* room in a data queue come back as long as there are free entries.
FairSpec ==
    /\ Spec
    /\ WF_vars(Next)
    /\ \A i \in Entries :
          WF_vars(/\ i \in finishable
                  /\ \E g \in Grants, abort \in BOOLEAN :
                        Edge(g, [does |-> "end", who |-> i], abort))
    /\ \A l \in Levels :
          SF_vars(\E g \in Grants :
                    /\ allocates(l, g)
                    /\ \E move \in moves, abort \in BOOLEAN : Edge(g, move, abort))

-----------------------------------------------------------------------------
Entry == [src : {"L2", "L3", "Fsm"}, half : {"whole", "first", "second", "refused"},
          mate : Ids, stage : {"wait", "go", "read", "write"}, for : Ids,
          op : WalkOps \cup {"none", "Sync"}]

TypeOK ==
    /\ entry \in [Entries -> Entry \cup {Free}]
    /\ allocAd \in [Levels -> [valid : BOOLEAN, id : Ids]]
    /\ needed \in [Levels -> BOOLEAN] /\ {cbSyncR1, aborted} \subseteq BOOLEAN
    /\ inFlight \subseteq Entries /\ posted \in Seq(Allowed["L2"])
    /\ walk \in [op : WalkOps \cup {"none"}, left : 0 .. MaxIndices,
                 offer : {"none", "index", "sync"}]

\* The two halves of a pair name each other, be they allocated together or one
\* after the other with any traffic, stall or index operation in between.
HalvesMeet ==
    [][\A i \in Entries :
          /\ entry[i] = Free /\ entry'[i].src # "none" /\ entry'[i].half = "second" =>
                LET m == entry'[entry'[i].mate] IN m.half = "first" /\ m.mate = i
          /\ i \in valid /\ entry[i].stage = "wait" /\ entry'[i].stage # "wait" =>
                LET m == entry'[entry'[i].mate] IN m.half = "second" /\ m.mate = i]_vars

\* While an index operation of the walk under way is in the queue, no request
\* of a level the walk keeps busy is.
IndexOpsAlone ==
    \A i \in From("Fsm") \ leftover : \A l \in Levels :
        entry[i].op # "Sync" /\ busy(l) => From(l) = {}

\* The Sync of a coalescing buffer walk is taken when every write around that
\* was in the queue as the Sync came up has left it, provided no abort has
\* withdrawn such a Sync before.
SyncWaitsForWriteArounds ==
    \A g \in Grants : cbSync /\ copReady("L2", g) /\ ~withdrawn =>
        (IF cbSyncWas THEN owed ELSE possibleWriteArounds) = {}

\* L2 and L3 are not both stalled while L2 has something in flight that waits
\* for L3: the comment at lines 135 to 137.
NeverStallsBoth == stall("L2") /\ stall("L3") => waitsForL3 = {}

\* Every walk ends, unless operations of a walk aborted before still wait for L3.
WalkEnds == walk # NoWalk ~> walk = NoWalk \/ leftover \cap waitsForL3 # {}

\* A request is never left waiting for ever.
EveryRequestTaken ==
    \A l \in Levels :
        []<>(bankReq[l] = NoReq \/ allocAd[l].valid \/ leftover \cap waitsForL3 # {})
=============================================================================
