-------------------------- MODULE ReqqAllocProofs ---------------------------
(***************************************************************************)
(* Allocation in the request queue, for any number of entries, any border  *)
(* between L2 and L3 and any traffic: the two halves of a pair find each   *)
(* other, an index operation is alone at the levels its walk keeps busy,   *)
(* and the Sync of the coalescing buffer waits for the write arounds.      *)
(***************************************************************************)
EXTENDS ReqqAlloc, TLAPS

LevelOf(i) == IF i \in L3Ids THEN "L3" ELSE "L2"

Waiting(i) == i \in valid /\ entry[i].stage = "wait"

-----------------------------------------------------------------------------
(***************************************************************************)
(* The inductive invariant.                                                *)
(***************************************************************************)
PortsTyped == /\ bankReq \in [Levels -> [kind : {"none", "plain", "pair", "bad"}, for : Ids]]
              /\ cbSyncWas \in BOOLEAN /\ withdrawn \in BOOLEAN

\* An entry belongs to its side of the border.
OwnSide == \A i \in valid : entry[i].src = "Fsm" \/ entry[i].src = LevelOf(i)

\* A level needs a second half exactly while the first half waits for it, and
\* knows which entry that is.
HalfKnown ==
    /\ \A l \in Levels : needed[l] =>
          /\ allocAd[l].id \in Allowed[l] /\ Waiting(allocAd[l].id)
          /\ entry[allocAd[l].id].src = l
    /\ \A i \in Entries : Waiting(i) =>
          /\ needed[LevelOf(i)] /\ i = allocAd[LevelOf(i)].id
          /\ entry[i].half = "first"

\* An abort has ended its walk, and between walks only a Sync or what an abort
\* has left behind is in the queue.
WalkSettled ==
    /\ aborted => walk = NoWalk
    /\ walk.op = "none" => walk = NoWalk
    /\ walk = NoWalk => \A i \in From("Fsm") \ leftover : entry[i].op = "Sync"

\* While the CB Sync is on offer the allocator remembers what is owed, and it
\* gets a clock to forget it by.
SnapshotHeld ==
    /\ owed \subseteq valid
    /\ ~withdrawn => /\ cbSyncR1 = cbSyncWas
                     /\ cbSyncWas /\ ~cbSync => allocAd["L2"].valid
                     /\ cbSyncWas => owed \subseteq inFlight

AllocIInv == /\ TypeOK /\ PortsTyped /\ OwnSide
             /\ HalfKnown /\ WalkSettled /\ SnapshotHeld
             /\ IndexOpsAlone

-----------------------------------------------------------------------------
(***************************************************************************)
(* Entries, levels and grants.                                             *)
(***************************************************************************)
\* Each entry is on one side of the border.
LEMMA Border ==
    /\ NumEntries \in Nat /\ None \notin Entries /\ Entries \subseteq Ids /\ None \in Ids
    /\ \A l \in Levels : Allowed[l] \subseteq Entries
    /\ \A i \in Entries :
          /\ LevelOf(i) \in Levels
          /\ \A l \in Levels : i \in Allowed[l] <=> l = LevelOf(i)
          /\ (CHOOSE m \in Levels : i \in Allowed[m]) = LevelOf(i)
<1>1. NumEntries \in Nat /\ None \notin Entries /\ Entries \subseteq Ids /\ None \in Ids /\ L3Ids \subseteq Entries
  BY ReqqAllocAssumption DEF None, Entries, Ids
<1>2. Allowed["L2"] = Entries \ L3Ids /\ Allowed["L3"] = L3Ids
  BY DEF Allowed
<1>3. ASSUME NEW i \in Entries
      PROVE  /\ LevelOf(i) \in Levels
             /\ \A l \in Levels : i \in Allowed[l] <=> l = LevelOf(i)
  BY <1>2 DEF LevelOf, Levels
<1>4. ASSUME NEW i \in Entries
      PROVE  (CHOOSE m \in Levels : i \in Allowed[m]) = LevelOf(i)
  <2> DEFINE c == CHOOSE m \in Levels : i \in Allowed[m]
  <2>1. c \in Levels /\ i \in Allowed[c]
    BY <1>3
  <2>2. QED
    BY <1>3, <2>1
<1>5. QED
  BY <1>1, <1>2, <1>3, <1>4 DEF Levels

\* The valid entries are those with a source.
LEMMA ValidAre ==
    ASSUME TypeOK, NEW i \in Entries
    PROVE  /\ i \in valid => entry[i] \in Entry
           /\ i \notin valid => entry[i] = Free
<1>1. entry[i] \in Entry \cup {Free}
  BY DEF TypeOK
<1>2. QED
  BY <1>1 DEF valid

\* A free entry has no source.
LEMMA FreeHasNoSource ==
    /\ Free \notin Entry /\ Free.src = "none"
    /\ \A e \in Entry : e.src \in {"L2", "L3", "Fsm"}
<1>1. Free.src = "none" /\ \A e \in Entry : e.src \in {"L2", "L3", "Fsm"}
  BY DEF Free, Entry
<1>2. QED
  BY <1>1

\* A grant is a free entry of the level it is made to, or two.
LEMMA GrantsAre ==
    ASSUME NEW g \in Grants, NEW l \in Levels
    PROVE  \/ g[l] = <<>>
           \/ \E i \in Allowed[l] \ valid : g[l] = <<i>>
           \/ \E i, j \in Allowed[l] \ valid : i # j /\ g[l] = <<i, j>>
<1>1. g[l] \in grants(l)
  <2>1. PICK g2 \in grants("L2"), g3 \in grants("L3") : g = [L2 |-> g2, L3 |-> g3]
    BY DEF Grants
  <2>2. g["L2"] = g2 /\ g["L3"] = g3
    BY <2>1
  <2>3. QED
    BY <2>2 DEF Levels
<1> DEFINE free == Allowed[l] \ valid
<1>2. \/ g[l] = <<>>
      \/ \E i \in free : g[l] = <<i>>
      \/ g[l] \in free \X free /\ g[l][1] # g[l][2]
  BY <1>1 DEF grants
<1>3. QED
  BY <1>2

\* First and second of a grant, and how many there are.
LEMMA GrantedAre ==
    ASSUME NEW g \in Grants, NEW l \in Levels
    PROVE  /\ g[l] # <<>> => g[l][1] \in Allowed[l] \ valid
           /\ Len(g[l]) = 2 => /\ g[l][1] \in Allowed[l] \ valid /\ g[l][2] \in Allowed[l] \ valid
                               /\ g[l][1] # g[l][2]
<1>1. CASE g[l] = <<>>
  BY <1>1
<1>2. ASSUME NEW i \in Allowed[l] \ valid, g[l] = <<i>>
      PROVE  g[l][1] = i /\ Len(g[l]) = 1
  BY <1>2
<1>3. ASSUME NEW i \in Allowed[l] \ valid, NEW j \in Allowed[l] \ valid, i # j, g[l] = <<i, j>>
      PROVE  g[l][1] = i /\ g[l][2] = j
  BY <1>3
<1>4. QED
  BY <1>1, <1>2, <1>3, GrantsAre

\* One of the three ways to allocate, if any.
LEMMA OneAllocation ==
    ASSUME NEW g, NEW l \in Levels
    PROVE  /\ allocates(l, g) => g[l] # <<>>
           /\ takesBank(l, g) => bankReq[l] # NoReq /\ ~needed[l] /\ ~stall(l) /\ ~copReady(l, g)
           /\ copReady(l, g) => /\ ~needed[l] /\ l = indexLevel /\ walk.offer # "none" /\ ~aborted
                                /\ ~waitingOnSync /\ \A m \in Levels : ~waitingOn(m)
           /\ pairs(l, g) => takesBank(l, g) /\ Len(g[l]) = 2 /\ bankReq[l].kind = "pair"
           /\ neededNext(l, g) =>
                 \/ takesBank(l, g) /\ ~pairs(l, g) /\ bankReq[l].kind = "pair"
                 \/ needed[l] /\ ~allocates(l, g)
BY DEF allocates, takesBank, copReady, pairs, neededNext

\* What is written to the first entry of a grant.
LEMMA FirstIs ==
    ASSUME TypeOK, PortsTyped, NEW g \in Grants, NEW l \in Levels, allocates(l, g)
    PROVE  /\ first(l, g) \in Entry
           /\ needed[l] => /\ first(l, g).src = l /\ first(l, g).half = "second"
                           /\ first(l, g).mate = allocAd[l].id /\ first(l, g).stage = "go"
           /\ copReady(l, g) => /\ first(l, g).src = "Fsm" /\ first(l, g).half = "whole"
                                /\ first(l, g).stage = "go"
                                /\ first(l, g).op = IF walk.offer = "sync" THEN "Sync" ELSE walk.op
           /\ takesBank(l, g) =>
                 /\ first(l, g).src = l /\ first(l, g).half # "second"
                 /\ bankReq[l].kind = "pair" => first(l, g).half = "first"
                 /\ first(l, g).mate = IF pairs(l, g) THEN g[l][2] ELSE None
                 /\ first(l, g).stage = IF bankReq[l].kind = "pair" /\ ~pairs(l, g) THEN "wait" ELSE "go"
<1> DEFINE blank == [src |-> l, half |-> "whole", mate |-> None, stage |-> "go",
                     for |-> None, op |-> "none"]
<1>1. blank \in Entry
  BY Border DEF Entry, Levels
<1>2. CASE needed[l]
  <2>1. first(l, g) = [blank EXCEPT !.half = "second", !.mate = allocAd[l].id]
    BY <1>2 DEF first
  <2>2. allocAd[l].id \in Ids
    BY DEF TypeOK
  <2>3. ~copReady(l, g) /\ ~takesBank(l, g)
    BY <1>2, OneAllocation
  <2>4. QED
    BY <1>1, <2>1, <2>2, <2>3 DEF Entry
<1>3. CASE copReady(l, g)
  <2>1. ~needed[l] /\ ~takesBank(l, g)
    BY <1>3, OneAllocation
  <2>2. first(l, g) = [blank EXCEPT !.src = "Fsm", !.op = IF walk.offer = "sync" THEN "Sync" ELSE walk.op]
    BY <1>3, <2>1 DEF first
  <2>3. walk.op \in WalkOps \cup {"none"}
    BY DEF TypeOK
  <2>4. QED
    BY <1>1, <1>3, <2>1, <2>2, <2>3 DEF Entry
<1>4. CASE takesBank(l, g)
  <2>1. ~needed[l] /\ ~copReady(l, g)
    BY <1>4, OneAllocation
  <2>2. first(l, g) = [blank EXCEPT !.for = bankReq[l].for,
                         !.half = CASE bankReq[l].kind = "pair" -> "first"
                                    [] bankReq[l].kind = "bad" -> "refused"
                                    [] OTHER -> "whole",
                         !.mate = IF pairs(l, g) THEN g[l][2] ELSE None,
                         !.stage = IF bankReq[l].kind = "pair" /\ ~pairs(l, g) THEN "wait" ELSE "go"]
    BY <2>1 DEF first
  <2>3. bankReq[l].for \in Ids
    BY DEF PortsTyped
  <2>4. pairs(l, g) => g[l][2] \in Ids
    BY GrantedAre, OneAllocation, Border
  <2>5. (CASE bankReq[l].kind = "pair" -> "first"
           [] bankReq[l].kind = "bad" -> "refused"
           [] OTHER -> "whole") \in {"first", "refused", "whole"}
    OBVIOUS
  <2>6. bankReq[l].kind = "pair" => (CASE bankReq[l].kind = "pair" -> "first"
                                       [] bankReq[l].kind = "bad" -> "refused"
                                       [] OTHER -> "whole") = "first"
    OBVIOUS
  <2> DEFINE h == CASE bankReq[l].kind = "pair" -> "first"
                    [] bankReq[l].kind = "bad" -> "refused"
                    [] OTHER -> "whole"
             m == IF pairs(l, g) THEN g[l][2] ELSE None
             t == IF bankReq[l].kind = "pair" /\ ~pairs(l, g) THEN "wait" ELSE "go"
  <2>7. m \in Ids /\ t \in {"wait", "go"}
    BY <2>4, Border
  <2> HIDE DEF h, m, t
  <2>8. first(l, g) = [blank EXCEPT !.for = bankReq[l].for, !.half = h, !.mate = m, !.stage = t]
    BY <2>2 DEF h, m, t
  <2>9. h \in {"first", "refused", "whole"} /\ (bankReq[l].kind = "pair" => h = "first")
    BY <2>5, <2>6 DEF h
  <2>10. first(l, g) = [src |-> l, half |-> h, mate |-> m, stage |-> t,
                        for |-> bankReq[l].for, op |-> "none"]
    BY <2>8
  <2>11. first(l, g) \in Entry
    BY <2>3, <2>7, <2>9, <2>10 DEF Entry, Levels
  <2>12. QED
    BY <2>1, <2>9, <2>10, <2>11 DEF m, t
<1>5. QED
  BY <1>2, <1>3, <1>4 DEF allocates

\* Only an entry that does not wait for its other half moves.
LEMMA MovesAre ==
    ASSUME NEW move \in moves, NEW i \in Entries, i = move.who
    PROVE  /\ i \in valid /\ entry[i].stage # "wait"
           /\ move.does \in {"end", "read", "write"}
           /\ move.does # "end" => i \in Allowed["L2"]
           /\ move.does = "end" => move = [does |-> "end", who |-> i]
<1>1. finishable \subseteq {j \in valid : entry[j].stage # "wait"}
  BY DEF finishable
<1>2. sendable \subseteq {j \in valid \cap Allowed["L2"] : entry[j].stage # "wait"}
  BY DEF sendable
<1>3. CASE move \in [does : {"end"}, who : finishable]
  BY <1>1, <1>3
<1>4. CASE move \in [does : {"read"}, who : {j \in sendable : entry[j].src # "Fsm"}]
  BY <1>2, <1>4
<1>5. CASE move \in [does : {"write"}, who : sendable]
  BY <1>2, <1>5
<1>6. CASE move = Quiet
  BY <1>6, Border DEF Quiet
<1>7. QED
  BY <1>3, <1>4, <1>5, <1>6 DEF moves

\* The level of an entry is that of its side of the border.
EntryAt(l, i, g, move) ==
    CASE allocates(l, g) /\ i = g[l][1] -> first(l, g)
      [] pairs(l, g) /\ i = g[l][2] ->
            [first(l, g) EXCEPT !.half = "second", !.mate = g[l][1], !.for = None]
      [] i = move.who ->
            IF move.does = "end" THEN Free ELSE [entry[i] EXCEPT !.stage = move.does]
      [] i \in valid /\ entry[i].stage = "wait" /\ allocates(l, g) ->
            [entry[i] EXCEPT !.stage = "go", !.mate = g[l][1]]
      [] OTHER -> entry[i]

\* The next state of an entry is that of the one level that holds it.
LEMMA EntryNextIs ==
    ASSUME NEW g, NEW move, NEW i \in Entries
    PROVE  entryNext(i, g, move) = EntryAt(LevelOf(i), i, g, move)
<1>1. (CHOOSE m \in Levels : i \in Allowed[m]) = LevelOf(i)
  BY Border
<1>2. QED
  BY <1>1 DEF entryNext, EntryAt

\* What becomes of an entry that is valid.
LEMMA ValidAfter ==
    ASSUME TypeOK, PortsTyped, NEW g \in Grants, NEW move \in moves, NEW abort, Edge(g, move, abort),
           NEW i \in valid
    PROVE  \/ /\ entry'[i] = Free /\ ~Waiting(i)
              /\ move = [does |-> "end", who |-> i]
           \/ /\ entry'[i] \in Entry
              /\ entry'[i].src = entry[i].src /\ entry'[i].op = entry[i].op
              /\ entry'[i].half = entry[i].half
              /\ move # [does |-> "end", who |-> i]
              /\ Waiting(i) => IF allocates(LevelOf(i), g)
                               THEN /\ entry'[i].stage = "go"
                                    /\ entry'[i].mate = g[LevelOf(i)][1]
                               ELSE entry'[i] = entry[i]
              /\ ~Waiting(i) => entry'[i].stage # "wait"
<1> DEFINE l == LevelOf(i)
<1>1. i \in Entries /\ l \in Levels /\ (CHOOSE m \in Levels : i \in Allowed[m]) = l
  BY Border DEF valid
<1>2. entry'[i] = entryNext(i, g, move)
  BY <1>1 DEF Edge
<1>3. /\ ~(allocates(l, g) /\ i = g[l][1])
      /\ ~(pairs(l, g) /\ i = g[l][2])
  BY <1>1, GrantedAre, OneAllocation
<1> HIDE DEF l
<1>4. entryNext(i, g, move) =
         CASE i = move.who ->
                IF move.does = "end" THEN Free ELSE [entry[i] EXCEPT !.stage = move.does]
           [] i # move.who /\ entry[i].stage = "wait" /\ allocates(l, g) ->
                [entry[i] EXCEPT !.stage = "go", !.mate = g[l][1]]
           [] OTHER -> entry[i]
  <2>1. entryNext(i, g, move) = EntryAt(l, i, g, move)
    BY <1>1, EntryNextIs DEF l
  <2>2. i = move.who => entry[i].stage # "wait"
    BY <1>1, MovesAre
  <2>3. CASE i = move.who
    BY <1>3, <2>1, <2>2, <2>3 DEF EntryAt
  <2>4. CASE i # move.who /\ entry[i].stage = "wait" /\ allocates(l, g)
    BY <1>1, <1>3, <2>1, <2>4 DEF EntryAt
  <2>5. CASE i # move.who /\ ~(entry[i].stage = "wait" /\ allocates(l, g))
    BY <1>1, <1>3, <2>1, <2>5 DEF EntryAt
  <2>6. QED
    BY <2>3, <2>4, <2>5
<1>5. entry[i] \in Entry
  BY <1>1, ValidAre
<1>6. CASE i = move.who
  <2>1. ~Waiting(i) /\ move.does \in {"end", "read", "write"}
    BY <1>1, <1>6, MovesAre DEF Waiting
  <2>2. CASE move.does = "end"
    BY <1>1, <1>2, <1>4, <1>6, <2>1, <2>2, MovesAre
  <2>3. CASE move.does # "end"
    <3>1. entry'[i] = [entry[i] EXCEPT !.stage = move.does]
      BY <1>2, <1>4, <1>6, <2>3
    <3>2. move # [does |-> "end", who |-> i]
      BY <2>3
    <3>3. QED
      BY <1>5, <2>1, <2>3, <3>1, <3>2 DEF Entry
  <2>4. QED
    BY <2>2, <2>3
<1>7. CASE i # move.who
  <2>1. move # [does |-> "end", who |-> i]
    BY <1>7
  <2>2. CASE entry[i].stage = "wait" /\ allocates(l, g)
    <3>1. entry'[i] = [entry[i] EXCEPT !.stage = "go", !.mate = g[l][1]]
      BY <1>2, <1>4, <1>7, <2>2
    <3>2. g[l][1] \in Ids
      BY <1>1, <2>2, GrantedAre, OneAllocation, Border
    <3>3. QED
      BY <1>5, <2>1, <2>2, <3>1, <3>2 DEF Entry, Waiting, l
  <2>3. CASE ~(entry[i].stage = "wait" /\ allocates(l, g))
    <3>1. entry'[i] = entry[i]
      BY <1>2, <1>4, <1>7, <2>3
    <3>2. QED
      BY <1>5, <2>1, <2>3, <3>1 DEF Waiting, l
  <2>4. QED
    BY <2>2, <2>3
<1>8. QED
  BY <1>6, <1>7

\* What becomes of an entry that is free.
LEMMA FreeAfter ==
    ASSUME TypeOK, PortsTyped, NEW g \in Grants, NEW move \in moves, NEW abort, Edge(g, move, abort),
           NEW i \in Entries \ valid
    PROVE  \/ entry'[i] = Free
           \/ /\ allocates(LevelOf(i), g) /\ i = g[LevelOf(i)][1]
              /\ entry'[i] = first(LevelOf(i), g)
           \/ /\ pairs(LevelOf(i), g) /\ i = g[LevelOf(i)][2]
              /\ entry'[i] = [first(LevelOf(i), g) EXCEPT !.half = "second",
                                 !.mate = g[LevelOf(i)][1], !.for = None]
<1> DEFINE l == LevelOf(i)
<1>1. l \in Levels
  BY Border
<1>2. entry'[i] = EntryAt(l, i, g, move)
  BY EntryNextIs DEF Edge
<1>3. i # move.who
  BY MovesAre
<1>4. entry[i] = Free
  BY ValidAre
<1> HIDE DEF l
<1>5. CASE allocates(l, g) /\ i = g[l][1]
  <2>1. ~(pairs(l, g) /\ i = g[l][2])
    BY <1>1, <1>5, GrantedAre, OneAllocation
  <2>2. entry'[i] = first(l, g)
    BY <1>2, <1>3, <1>5, <2>1 DEF EntryAt
  <2>3. QED
    BY <1>5, <2>2 DEF l
<1>6. CASE ~(allocates(l, g) /\ i = g[l][1]) /\ pairs(l, g) /\ i = g[l][2]
  <2>1. entry'[i] = [first(l, g) EXCEPT !.half = "second", !.mate = g[l][1], !.for = None]
    BY <1>2, <1>3, <1>6 DEF EntryAt
  <2>2. QED
    BY <1>6, <2>1 DEF l
<1>7. CASE ~(allocates(l, g) /\ i = g[l][1]) /\ ~(pairs(l, g) /\ i = g[l][2])
  BY <1>2, <1>3, <1>4, <1>7 DEF EntryAt
<1>8. QED
  BY <1>5, <1>6, <1>7

\* What an allocation leaves in the entries it is granted.
LEMMA GrantedAfter ==
    ASSUME TypeOK, PortsTyped, NEW g \in Grants, NEW move \in moves, NEW abort, Edge(g, move, abort),
           NEW l \in Levels, allocates(l, g)
    PROVE  /\ g[l][1] \in Entries \ valid /\ LevelOf(g[l][1]) = l
           /\ entry'[g[l][1]] = first(l, g)
           /\ pairs(l, g) => /\ g[l][2] \in Entries \ valid /\ LevelOf(g[l][2]) = l
                             /\ g[l][2] # g[l][1]
                             /\ entry'[g[l][2]] = [first(l, g) EXCEPT !.half = "second",
                                                     !.mate = g[l][1], !.for = None]
<1>1. /\ g[l][1] \in Allowed[l] \ valid
      /\ pairs(l, g) => g[l][2] \in Allowed[l] \ valid /\ g[l][2] # g[l][1]
  BY GrantedAre, OneAllocation
<1>2. /\ g[l][1] \in Entries /\ LevelOf(g[l][1]) = l
      /\ pairs(l, g) => g[l][2] \in Entries /\ LevelOf(g[l][2]) = l
  BY <1>1, Border
<1>3. \A i \in Entries : entry'[i] = EntryAt(LevelOf(i), i, g, move)
  BY EntryNextIs DEF Edge
<1>4. entry'[g[l][1]] = first(l, g)
  <2>1. g[l][1] # move.who
    BY <1>1, <1>2, MovesAre
  <2>2. QED
    BY <1>1, <1>2, <1>3, <2>1 DEF EntryAt
<1>5. ASSUME pairs(l, g)
      PROVE  entry'[g[l][2]] = [first(l, g) EXCEPT !.half = "second", !.mate = g[l][1], !.for = None]
  <2>1. g[l][2] # move.who
    BY <1>1, <1>2, <1>5, MovesAre
  <2>2. QED
    BY <1>1, <1>2, <1>3, <1>5, <2>1 DEF EntryAt
<1>6. QED
  BY <1>1, <1>2, <1>4, <1>5

\* What the machine does: it keeps to its operation until an abort or the
\* taking of its Sync ends the walk.
LEMMA WalkAfter ==
    ASSUME TypeOK, WalkSettled, NEW g, NEW abort \in BOOLEAN, Machine(g, abort)
    PROVE  /\ walk' \in [op : WalkOps \cup {"none"}, left : 0 .. MaxIndices,
                         offer : {"none", "index", "sync"}]
           /\ abort => walk' = NoWalk /\ walk # NoWalk
           /\ walk'.op = "none" => walk' = NoWalk
           /\ walk # NoWalk /\ walk' # NoWalk => walk'.op = walk.op
           /\ walk # NoWalk /\ walk' = NoWalk /\ ~abort =>
                 walk.offer = "sync" /\ copReady(indexLevel, g)
           /\ walk.offer = "sync" /\ ~copReady(indexLevel, g) /\ ~abort => walk' = walk
<1> DEFINE Typed == [op : WalkOps \cup {"none"}, left : 0 .. MaxIndices,
                     offer : {"none", "index", "sync"}]
<1>1. walk \in Typed /\ MaxIndices \in Nat /\ "none" \notin WalkOps /\ NoWalk \in Typed
  BY ReqqAllocAssumption DEF TypeOK, NoWalk
<1>2. (walk.op = "none" => walk = NoWalk) /\ NoWalk.op = "none" /\ NoWalk.offer = "none"
  BY DEF WalkSettled, NoWalk
<1>3. CASE abort
  BY <1>1, <1>3 DEF Machine
<1>4. CASE ~abort /\ walk # NoWalk
  <2>1. walk' \in walkNext(walk, g)
    BY <1>4 DEF Machine
  <2>2. CASE ~(walk.offer = "none" \/ copReady(indexLevel, g))
    <3>1. walk' = walk
      BY <2>1, <2>2 DEF walkNext
    <3>2. QED
      BY <1>1, <1>2, <1>4, <3>1
  <2>3. CASE walk.offer = "sync" /\ copReady(indexLevel, g)
    <3>1. walk' = NoWalk
      BY <2>1, <2>3 DEF walkNext
    <3>2. QED
      BY <1>1, <1>4, <2>3, <3>1
  <2>4. CASE walk.offer # "sync" /\ (walk.offer = "none" \/ copReady(indexLevel, g)) /\ walk.left = 0
    <3>1. walk' = [walk EXCEPT !.offer = "sync"]
      BY <2>1, <2>4 DEF walkNext
    <3>2. walk' \in Typed /\ walk'.op = walk.op /\ walk'.op # "none"
      BY <1>1, <1>2, <1>4, <3>1
    <3>3. QED
      BY <1>2, <1>4, <2>4, <3>2
  <2>5. CASE walk.offer # "sync" /\ (walk.offer = "none" \/ copReady(indexLevel, g)) /\ walk.left # 0
    <3>1. \E o \in {"index", "none"} : walk' = [walk EXCEPT !.left = walk.left - 1, !.offer = o]
      BY <2>1, <2>5 DEF walkNext
    <3>2. walk.left - 1 \in 0 .. MaxIndices
      BY <1>1, <2>5
    <3>3. walk' \in Typed /\ walk'.op = walk.op /\ walk'.op # "none"
      BY <1>1, <1>2, <1>4, <3>1, <3>2
    <3>4. QED
      BY <1>2, <1>4, <2>5, <3>3
  <2>6. QED
    BY <2>2, <2>3, <2>4, <2>5
<1>5. CASE ~abort /\ walk = NoWalk
  <2>1. walk' = walk \/ walk' \in [op : WalkOps, left : 1 .. MaxIndices, offer : {"none"}]
    BY <1>5 DEF Machine
  <2>2. [op : WalkOps, left : 1 .. MaxIndices, offer : {"none"}] \subseteq Typed
    OBVIOUS
  <2>3. walk' \in Typed /\ (walk'.op = "none" => walk' = NoWalk)
    BY <1>1, <1>2, <1>5, <2>1, <2>2
  <2>4. QED
    BY <1>2, <1>5, <2>3
<1>6. QED
  BY <1>3, <1>4, <1>5

-----------------------------------------------------------------------------
(***************************************************************************)
(* Every edge keeps the invariant.                                         *)
(***************************************************************************)
LEMMA EntriesTyped ==
    ASSUME TypeOK, PortsTyped, NEW g \in Grants, NEW move \in moves, NEW abort, Edge(g, move, abort)
    PROVE  entry' \in [Entries -> Entry \cup {Free}]
<1>1. entry' = [i \in Entries |-> entryNext(i, g, move)]
  BY DEF Edge
<1>2. ASSUME NEW i \in Entries
      PROVE  entry'[i] \in Entry \cup {Free}
  <2>1. CASE i \in valid
    BY <2>1, ValidAfter
  <2>2. CASE i \notin valid
    <3> DEFINE l == LevelOf(i)
    <3>1. l \in Levels
      BY Border
    <3> HIDE DEF l
    <3>2. CASE entry'[i] = Free
      BY <3>2
    <3>3. CASE allocates(l, g) /\ entry'[i] = first(l, g)
      BY <3>1, <3>3, FirstIs
    <3>4. CASE pairs(l, g) /\ entry'[i] = [first(l, g) EXCEPT !.half = "second", !.mate = g[l][1], !.for = None]
      <4>1. first(l, g) \in Entry
        BY <3>1, <3>4, FirstIs, OneAllocation DEF allocates
      <4>2. g[l][1] \in Ids /\ None \in Ids
        BY <3>1, <3>4, GrantedAre, OneAllocation, Border
      <4>3. QED
        BY <3>4, <4>1, <4>2 DEF Entry
    <3>5. QED
      BY <2>2, <3>2, <3>3, <3>4, FreeAfter DEF l
  <2>3. QED
    BY <2>1, <2>2
<1>3. QED
  BY <1>1, <1>2

\* A queue stays one when its head leaves and others join it.
LEMMA QueueTypes ==
    ASSUME NEW S, NEW p \in Seq(S)
    PROVE  /\ p # <<>> => Tail(p) \in Seq(S)
           /\ <<>> \in Seq(S) /\ \A x \in S : <<x>> \in Seq(S)
           /\ \A q \in Seq(S) : p \o q \in Seq(S)
OBVIOUS

\* An edge keeps the types of the entries and of the ports.
LEMMA AllocTypesKeep ==
    ASSUME AllocIInv, NEW g \in Grants, NEW move \in moves, NEW abort \in BOOLEAN, Edge(g, move, abort)
    PROVE  TypeOK' /\ PortsTyped'
<1> USE DEF AllocIInv
<1>1. entry' \in [Entries -> Entry \cup {Free}]
  BY EntriesTyped
<1>2. allocAd' \in [Levels -> [valid : BOOLEAN, id : Ids]]
  <2>1. \A l \in Levels : allocates(l, g) \in BOOLEAN
    BY DEF allocates, takesBank, copReady, TypeOK
  <2>2. \A l \in Levels : (IF allocates(l, g) /\ neededNext(l, g) THEN g[l][1]
                          ELSE IF needed[l] /\ ~allocates(l, g) THEN allocAd[l].id
                          ELSE None) \in Ids
    <3>1. \A l \in Levels : allocAd[l].id \in Ids
      BY DEF TypeOK
    <3>2. ASSUME NEW l \in Levels, allocates(l, g)
          PROVE  g[l][1] \in Ids
      BY <3>2, GrantedAre, OneAllocation, Border
    <3>3. QED
      BY <3>1, <3>2, Border
  <2>3. allocAd' = [l \in Levels |->
                     [valid |-> allocates(l, g),
                      id |-> IF allocates(l, g) /\ neededNext(l, g) THEN g[l][1]
                             ELSE IF needed[l] /\ ~allocates(l, g) THEN allocAd[l].id
                             ELSE None]]
    BY DEF Edge
  <2>4. QED
    BY <2>1, <2>2, <2>3
<1>3. needed' \in [Levels -> BOOLEAN]
  <2>1. ASSUME NEW l \in Levels
        PROVE  neededNext(l, g) \in BOOLEAN
    BY DEF neededNext, takesBank, TypeOK
  <2>2. QED
    BY <2>1 DEF Edge
<1>4. cbSyncR1' \in BOOLEAN /\ cbSyncWas' \in BOOLEAN /\ aborted' \in BOOLEAN /\ withdrawn' \in BOOLEAN
  BY DEF Edge, TypeOK, cbSync
<1>5. inFlight' \subseteq Entries
  BY DEF Edge, TypeOK, possibleWriteArounds, valid
<1>6. walk' \in [op : WalkOps \cup {"none"}, left : 0 .. MaxIndices, offer : {"none", "index", "sync"}]
  BY WalkAfter DEF Edge
<1>7. PICK r2 \in arrivals("L2", g), r3 \in arrivals("L3", g) :
          /\ bankReq' = [L2 |-> r2, L3 |-> r3]
          /\ posted' = (IF r3.for # None /\ r3 # bankReq["L3"] THEN Tail(posted) ELSE posted)
                         \o (IF move.does \in {"read", "write"} THEN <<move.who>> ELSE <<>>)
  BY DEF Edge
<1> DEFINE Request == [kind : {"none", "plain", "pair", "bad"}, for : Ids]
<1>8. posted \in Seq(Allowed["L2"])
  BY DEF TypeOK
<1>9. ASSUME NEW l \in Levels, NEW r \in arrivals(l, g)
      PROVE  /\ r \in Request
             /\ l = "L3" /\ posted = <<>> => r.for = None \/ r = bankReq[l]
  <2>1. bankReq[l] \in Request
    BY DEF PortsTyped
  <2>2. CASE bankReq[l] # NoReq /\ ~takesBank(l, g)
    BY <2>1, <2>2 DEF arrivals
  <2>3. CASE ~(bankReq[l] # NoReq /\ ~takesBank(l, g)) /\ l = "L3" /\ posted # <<>>
    <3>1. Head(posted) \in Ids
      BY <1>8, <2>3, Border DEF Levels
    <3>2. r = [kind |-> "plain", for |-> Head(posted)]
      BY <2>3 DEF arrivals
    <3>3. QED
      BY <2>3, <3>1, <3>2
  <2>4. CASE ~(bankReq[l] # NoReq /\ ~takesBank(l, g)) /\ ~(l = "L3" /\ posted # <<>>)
    <3>1. r \in [kind : Kinds[l], for : {None}] \cup {NoReq}
      BY <2>4 DEF arrivals
    <3>2. Kinds[l] \subseteq {"plain", "pair", "bad"}
      BY ReqqAllocAssumption
    <3>3. QED
      BY <3>1, <3>2, Border DEF NoReq
  <2>5. QED
    BY <2>2, <2>3, <2>4
<1>10. bankReq' \in [Levels -> Request]
  <2>1. "L2" \in Levels /\ "L3" \in Levels
    BY DEF Levels
  <2>2. r2 \in Request /\ r3 \in Request
    BY <1>9, <2>1
  <2>3. QED
    BY <1>7, <2>2 DEF Levels
<1>11. posted' \in Seq(Allowed["L2"])
  <2>1. (IF r3.for # None /\ r3 # bankReq["L3"] THEN Tail(posted) ELSE posted) \in Seq(Allowed["L2"])
    <3>1. "L3" \in Levels
      BY DEF Levels
    <3>2. r3.for # None /\ r3 # bankReq["L3"] => posted # <<>>
      BY <1>9, <3>1
    <3>3. CASE r3.for # None /\ r3 # bankReq["L3"]
      <4>1. Tail(posted) \in Seq(Allowed["L2"])
        BY <1>8, <3>2, <3>3, QueueTypes
      <4>2. QED
        BY <3>3, <4>1
    <3>4. QED
      BY <1>8, <3>3
  <2>2. (IF move.does \in {"read", "write"} THEN <<move.who>> ELSE <<>>) \in Seq(Allowed["L2"])
    <3>1. move.does \in {"read", "write"} => move.who \in Allowed["L2"]
      BY DEF moves, sendable, Quiet
    <3>2. <<>> \in Seq(Allowed["L2"]) /\ \A x \in Allowed["L2"] : <<x>> \in Seq(Allowed["L2"])
      BY <1>8, QueueTypes
    <3>3. CASE move.does \in {"read", "write"}
      <4>1. <<move.who>> \in Seq(Allowed["L2"])
        BY <3>1, <3>2, <3>3
      <4>2. QED
        BY <3>3, <4>1
    <3>4. QED
      BY <3>2, <3>3
  <2>3. QED
    BY <1>7, <2>1, <2>2, QueueTypes
<1>12. QED
  BY <1>1, <1>2, <1>3, <1>4, <1>5, <1>6, <1>10, <1>11 DEF TypeOK, PortsTyped

\* The source of what is written to a free entry: the level, unless it is an
\* index operation.
LEMMA NewEntryIs ==
    ASSUME TypeOK, PortsTyped, NEW g \in Grants, NEW move \in moves, NEW abort, Edge(g, move, abort),
           NEW i \in Entries \ valid, entry'[i] # Free
    PROVE  LET l == LevelOf(i)
           IN  /\ l \in Levels /\ allocates(l, g)
               /\ \/ /\ copReady(l, g) /\ entry'[i].src = "Fsm"
                     /\ entry'[i].half = "whole" /\ entry'[i].stage = "go"
                     /\ entry'[i].op = IF walk.offer = "sync" THEN "Sync" ELSE walk.op
                  \/ /\ entry'[i].src = l
                     /\ needed[l] \/ takesBank(l, g)
                     /\ entry'[i].stage = "wait" =>
                           /\ takesBank(l, g) /\ bankReq[l].kind = "pair" /\ ~pairs(l, g)
                           /\ i = g[l][1] /\ entry'[i].half = "first"
                     /\ entry'[i].half = "second" =>
                           \/ needed[l] /\ i = g[l][1] /\ entry'[i].mate = allocAd[l].id
                           \/ pairs(l, g) /\ i = g[l][2] /\ entry'[i].mate = g[l][1]
<1> DEFINE l == LevelOf(i)
<1>1. l \in Levels
  BY Border
<1>2. \/ allocates(l, g) /\ i = g[l][1] /\ entry'[i] = first(l, g)
      \/ /\ pairs(l, g) /\ i = g[l][2]
         /\ entry'[i] = [first(l, g) EXCEPT !.half = "second", !.mate = g[l][1], !.for = None]
  BY FreeAfter
<1> HIDE DEF l
<1>3. CASE allocates(l, g) /\ i = g[l][1] /\ entry'[i] = first(l, g)
  <2>1. CASE needed[l]
    BY <1>1, <1>3, <2>1, FirstIs DEF l
  <2>2. CASE copReady(l, g)
    BY <1>1, <1>3, <2>2, FirstIs DEF l
  <2>3. CASE takesBank(l, g)
    <3>1. /\ entry'[i].src = l /\ entry'[i].half # "second"
          /\ bankReq[l].kind = "pair" => entry'[i].half = "first"
          /\ entry'[i].stage = IF bankReq[l].kind = "pair" /\ ~pairs(l, g) THEN "wait" ELSE "go"
      BY <1>1, <1>3, <2>3, FirstIs
    <3>2. QED
      BY <1>1, <1>3, <2>3, <3>1 DEF l
  <2>4. QED
    BY <1>3, <2>1, <2>2, <2>3 DEF allocates
<1>4. CASE /\ pairs(l, g) /\ i = g[l][2]
           /\ entry'[i] = [first(l, g) EXCEPT !.half = "second", !.mate = g[l][1], !.for = None]
  <2>1. takesBank(l, g) /\ allocates(l, g) /\ bankReq[l].kind = "pair"
    BY <1>1, <1>4, OneAllocation DEF allocates
  <2>2. first(l, g) \in Entry /\ first(l, g).src = l /\ first(l, g).stage = "go"
    BY <1>1, <1>4, <2>1, FirstIs
  <2>3. /\ entry'[i].src = l /\ entry'[i].stage = "go" /\ entry'[i].half = "second"
        /\ entry'[i].mate = g[l][1]
    BY <1>4, <2>2 DEF Entry
  <2>4. QED
    BY <1>1, <1>4, <2>1, <2>3 DEF l
<1>5. QED
  BY <1>2, <1>3, <1>4 DEF l

\* An edge keeps every entry on its side of the border.
LEMMA OwnSideKeeps ==
    ASSUME AllocIInv, NEW g \in Grants, NEW move \in moves, NEW abort \in BOOLEAN, Edge(g, move, abort)
    PROVE  OwnSide'
<1> SUFFICES ASSUME NEW i \in Entries, entry'[i] # Free
             PROVE  entry'[i].src = "Fsm" \/ entry'[i].src = LevelOf(i)
  BY DEF OwnSide, valid, LevelOf
<1>1. CASE i \in valid
  BY <1>1, ValidAfter DEF AllocIInv, OwnSide
<1>2. CASE i \notin valid
  BY <1>2, NewEntryIs DEF AllocIInv
<1>3. QED
  BY <1>1, <1>2

\* An edge keeps a level and the first half that waits in it in agreement.
LEMMA HalfKeeps ==
    ASSUME AllocIInv, NEW g \in Grants, NEW move \in moves, NEW abort \in BOOLEAN, Edge(g, move, abort)
    PROVE  HalfKnown'
<1> USE DEF AllocIInv
<1>1. \A l \in Levels : /\ needed'[l] = neededNext(l, g)
                        /\ allocAd'[l].id = IF allocates(l, g) /\ neededNext(l, g) THEN g[l][1]
                                            ELSE IF needed[l] /\ ~allocates(l, g) THEN allocAd[l].id
                                            ELSE None
  BY DEF Edge
<1>2. ASSUME NEW l \in Levels, neededNext(l, g)
      PROVE  LET w == allocAd'[l].id
             IN  w \in Allowed[l] /\ entry'[w] # Free /\ entry'[w].stage = "wait" /\ entry'[w].src = l
  <2>1. CASE takesBank(l, g) /\ ~pairs(l, g) /\ bankReq[l].kind = "pair"
    <3>1. allocates(l, g)
      BY <2>1 DEF allocates
    <3>2. allocAd'[l].id = g[l][1]
      BY <1>1, <1>2, <3>1
    <3>3. entry'[g[l][1]] = first(l, g) /\ g[l][1] \in Entries /\ LevelOf(g[l][1]) = l
      BY <3>1, GrantedAfter
    <3>4. first(l, g) # Free /\ first(l, g).stage = "wait" /\ first(l, g).src = l
      BY <2>1, <3>1, FirstIs, FreeHasNoSource
    <3>5. QED
      BY <3>2, <3>3, <3>4, Border
  <2>2. CASE needed[l] /\ ~allocates(l, g)
    <3>1. allocAd'[l].id = allocAd[l].id
      BY <1>1, <2>2
    <3>2. /\ allocAd[l].id \in Allowed[l] /\ Waiting(allocAd[l].id)
          /\ entry[allocAd[l].id].src = l
      BY <2>2 DEF HalfKnown
    <3>3. allocAd[l].id \in Entries /\ LevelOf(allocAd[l].id) = l
      BY <3>2, Border
    <3>4. entry'[allocAd[l].id] = entry[allocAd[l].id]
      BY <2>2, <3>2, <3>3, ValidAfter DEF Waiting
    <3>5. QED
      BY <3>1, <3>2, <3>4 DEF Waiting, valid
  <2>3. QED
    BY <1>2, <2>1, <2>2, OneAllocation
<1>3. ASSUME NEW i \in Entries, entry'[i] # Free, entry'[i].stage = "wait"
      PROVE  /\ neededNext(LevelOf(i), g) /\ i = allocAd'[LevelOf(i)].id
             /\ entry'[i].half = "first"
  <2> DEFINE l == LevelOf(i)
  <2>1. l \in Levels
    BY Border
  <2>2. CASE i \in valid
    <3>1. Waiting(i)
      BY <1>3, <2>2, ValidAfter
    <3>2. ~allocates(l, g) /\ entry'[i] = entry[i]
      BY <1>3, <2>2, <3>1, ValidAfter
    <3>3. needed[l] /\ i = allocAd[l].id /\ entry[i].half = "first"
      BY <3>1 DEF HalfKnown
    <3>4. neededNext(l, g)
      BY <3>2, <3>3 DEF neededNext
    <3>5. QED
      BY <1>1, <2>1, <3>2, <3>3, <3>4
  <2>3. CASE i \notin valid
    <3>1. /\ allocates(l, g) /\ takesBank(l, g) /\ bankReq[l].kind = "pair" /\ ~pairs(l, g)
          /\ i = g[l][1] /\ entry'[i].half = "first"
      BY <1>3, <2>3, NewEntryIs
    <3>2. neededNext(l, g)
      BY <3>1 DEF neededNext
    <3>3. QED
      BY <1>1, <2>1, <3>1, <3>2
  <2>4. QED
    BY <2>2, <2>3
<1>4. QED
  <2>1. ASSUME NEW l \in Levels, needed'[l]
        PROVE  /\ allocAd'[l].id \in Allowed[l] /\ Waiting(allocAd[l].id)'
               /\ entry'[allocAd'[l].id].src = l
    <3>1. LET w == allocAd'[l].id
          IN  w \in Allowed[l] /\ entry'[w] # Free /\ entry'[w].stage = "wait" /\ entry'[w].src = l
      BY <1>1, <1>2, <2>1
    <3>2. allocAd'[l].id \in Entries
      BY <3>1, Border
    <3>3. QED
      BY <3>1, <3>2 DEF Waiting, valid
  <2>2. ASSUME NEW i \in Entries, Waiting(i)'
        PROVE  /\ needed'[LevelOf(i)] /\ i = allocAd'[LevelOf(i)].id
               /\ entry'[i].half = "first"
    <3>1. entry'[i] # Free /\ entry'[i].stage = "wait" /\ LevelOf(i) \in Levels
      BY <2>2, Border DEF Waiting, valid
    <3>2. QED
      BY <1>1, <1>3, <3>1
  <2>3. QED
    BY <2>1, <2>2 DEF HalfKnown, LevelOf

\* An edge keeps a walk that has settled so.
LEMMA SettledKeeps ==
    ASSUME AllocIInv, NEW g \in Grants, NEW move \in moves, NEW abort \in BOOLEAN, Edge(g, move, abort)
    PROVE  WalkSettled'
<1> USE DEF AllocIInv
<1>1. /\ aborted' = abort /\ Machine(g, abort)
      /\ leftover' = IF abort THEN {i \in Entries : entry'[i].src = "Fsm"}
                     ELSE {i \in leftover : move # [does |-> "end", who |-> i]}
  BY DEF Edge
<1>2. ASSUME walk' = NoWalk, NEW i \in Entries, entry'[i] # Free, entry'[i].src = "Fsm", i \notin leftover'
      PROVE  entry'[i].op = "Sync"
  <2>1. ~abort
    BY <1>1, <1>2
  <2>2. walk = NoWalk \/ (walk.offer = "sync" /\ copReady(indexLevel, g))
    BY <1>1, <1>2, <2>1, WalkAfter
  <2>3. CASE i \in valid
    <3>1. entry[i].src = "Fsm" /\ entry'[i].op = entry[i].op /\ i \notin leftover
      BY <1>1, <1>2, <2>1, <2>3, ValidAfter
    <3>2. i \in From("Fsm")
      BY <2>3, <3>1 DEF From
    <3>3. walk = NoWalk
      BY <2>2, <3>2, OneAllocation DEF copReady, waitingOnSync
    <3>4. QED
      BY <3>1, <3>2, <3>3 DEF WalkSettled
  <2>4. CASE i \notin valid
    <3>1. LevelOf(i) \in Levels
      BY Border
    <3>2. copReady(LevelOf(i), g) /\ entry'[i].op = IF walk.offer = "sync" THEN "Sync" ELSE walk.op
      BY <1>2, <2>4, <3>1, NewEntryIs DEF Levels
    <3>3. walk # NoWalk
      BY <3>1, <3>2, OneAllocation DEF NoWalk
    <3>4. QED
      BY <2>2, <3>2, <3>3
  <2>5. QED
    BY <2>3, <2>4
<1>3. abort => walk' = NoWalk
  BY <1>1, WalkAfter
<1>4. walk'.op = "none" => walk' = NoWalk
  BY <1>1, WalkAfter
<1>5. QED
  BY <1>1, <1>2, <1>3, <1>4 DEF WalkSettled, From, valid

\* Once an index operation is in the queue its levels let nothing in.
LEMMA AloneKeeps ==
    ASSUME AllocIInv, NEW g \in Grants, NEW move \in moves, NEW abort \in BOOLEAN, Edge(g, move, abort)
    PROVE  IndexOpsAlone'
<1> USE DEF AllocIInv
<1>1. /\ Machine(g, abort)
      /\ leftover' = IF abort THEN {i \in Entries : entry'[i].src = "Fsm"}
                     ELSE {i \in leftover : move # [does |-> "end", who |-> i]}
  BY DEF Edge
<1>2. SUFFICES ASSUME NEW i \in Entries, entry'[i] # Free, entry'[i].src = "Fsm", i \notin leftover',
                      entry'[i].op # "Sync", NEW l \in Levels, busy(l)',
                      NEW j \in Entries, entry'[j] # Free, entry'[j].src = l
               PROVE  FALSE
  BY DEF IndexOpsAlone, From, valid
<1>3. walk' # NoWalk
  BY <1>2 DEF busy, NoWalk, Levels
<1>4. ~abort
  BY <1>1, <1>3, WalkAfter
<1>5. walk # NoWalk /\ \A m \in Levels : busy(m) => From(m) = {}
  <2>1. CASE i \in valid
    <3>1. entry[i].src = "Fsm" /\ entry'[i].op = entry[i].op /\ i \notin leftover
      BY <1>1, <1>2, <1>4, <2>1, ValidAfter
    <3>2. i \in From("Fsm") \ leftover
      BY <2>1, <3>1 DEF From
    <3>3. QED
      BY <1>2, <3>1, <3>2 DEF IndexOpsAlone, WalkSettled
  <2>2. CASE i \notin valid
    <3>1. LevelOf(i) \in Levels
      BY Border
    <3>2. copReady(LevelOf(i), g)
      BY <1>2, <2>2, <3>1, NewEntryIs DEF Levels
    <3>3. walk.offer # "none" /\ \A m \in Levels : ~waitingOn(m)
      BY <3>1, <3>2, OneAllocation
    <3>4. QED
      BY <3>3 DEF NoWalk, waitingOn
  <2>3. QED
    BY <2>1, <2>2
<1>6. busy(l)
  <2>1. walk'.op = walk.op
    BY <1>1, <1>3, <1>5, WalkAfter
  <2>2. QED
    BY <1>2, <2>1 DEF busy, Levels
<1>7. j \notin valid
  BY <1>2, <1>5, <1>6, ValidAfter DEF From
<1>8. LevelOf(j) = l /\ (needed[l] \/ takesBank(l, g))
  <2>1. LevelOf(j) \in Levels
    BY Border
  <2>2. QED
    BY <1>2, <1>7, <2>1, NewEntryIs DEF Levels
<1>9. ~needed[l]
  BY <1>5, <1>6 DEF HalfKnown, Waiting, From
<1>10. stall(l)
  <2>1. ~aborted
    BY <1>5 DEF WalkSettled
  <2>2. ~waitingOn("L2")
    BY <1>5 DEF waitingOn, Levels
  <2>3. QED
    BY <1>6, <2>1, <2>2 DEF stall
<1>11. QED
  BY <1>8, <1>9, <1>10, OneAllocation

\* An edge keeps the snapshot a sync waits for.
LEMMA SnapshotKeeps ==
    ASSUME AllocIInv, NEW g \in Grants, NEW move \in moves, NEW abort \in BOOLEAN, Edge(g, move, abort)
    PROVE  SnapshotHeld'
<1> USE DEF AllocIInv
<1>1. /\ Machine(g, abort) /\ cbSyncWas' = cbSync
      /\ cbSyncR1' = IF clocked("L2") THEN cbSync ELSE cbSyncR1
      /\ inFlight' = IF ~clocked("L2") \/ ~cbSync THEN inFlight
                     ELSE IF cbSyncRe THEN possibleWriteArounds ELSE inFlight \cap valid
      /\ owed' = {i \in IF cbSync THEN (IF cbSyncWas THEN owed ELSE possibleWriteArounds) ELSE {} :
                     move # [does |-> "end", who |-> i]}
      /\ withdrawn' = (withdrawn \/ (abort /\ cbSync /\ ~copReady("L2", g)))
  BY DEF Edge
<1>2. allocAd'["L2"].valid = allocates("L2", g)
  BY DEF Edge, Levels
<1>3. owed \subseteq valid /\ possibleWriteArounds \subseteq valid
  BY DEF SnapshotHeld, possibleWriteArounds
<1>4. owed' \subseteq valid'
  <2>1. SUFFICES ASSUME NEW i \in owed'
                 PROVE  i \in valid'
    OBVIOUS
  <2>2. i \in valid /\ move # [does |-> "end", who |-> i]
    BY <1>1, <1>3
  <2>3. entry'[i] \in Entry
    BY <2>2, ValidAfter
  <2>4. QED
    BY <2>2, <2>3, FreeHasNoSource DEF valid
<1>5. cbSync => clocked("L2")
  BY DEF cbSync, clocked
<1>6. ASSUME ~withdrawn'
      PROVE  /\ cbSyncR1' = cbSyncWas'
             /\ cbSyncWas' /\ ~cbSync' => allocAd'["L2"].valid
             /\ cbSyncWas' => owed' \subseteq inFlight'
  <2>1. /\ ~(abort /\ cbSync /\ ~copReady("L2", g))
        /\ cbSyncR1 = cbSyncWas
        /\ cbSyncWas /\ ~cbSync => allocAd["L2"].valid
        /\ cbSyncWas => owed \subseteq inFlight
        /\ cbSyncWas \in BOOLEAN
    BY <1>1, <1>6 DEF SnapshotHeld, PortsTyped
  <2>2. cbSyncR1' = cbSyncWas'
    <3>1. CASE clocked("L2")
      BY <1>1, <3>1
    <3>2. CASE ~clocked("L2")
      <4>1. ~allocAd["L2"].valid /\ cbSync = FALSE
        BY <1>5, <3>2 DEF clocked, cbSync
      <4>2. cbSyncWas = FALSE
        BY <2>1, <4>1
      <4>3. QED
        BY <1>1, <2>1, <3>2, <4>1, <4>2
    <3>3. QED
      BY <3>1, <3>2
  <2>3. ASSUME cbSync, ~cbSync'
        PROVE  allocates("L2", g)
    <3>1. walk.op = "CBInv" /\ walk.offer = "sync" /\ indexLevel = "L2"
      BY <2>3 DEF cbSync, indexLevel, busy
    <3>2. walk' # walk
      BY <2>3 DEF cbSync
    <3>3. copReady("L2", g)
      BY <1>1, <2>1, <2>3, <3>1, <3>2, WalkAfter
    <3>4. QED
      BY <3>3 DEF allocates
  <2>4. ASSUME cbSync
        PROVE  owed' \subseteq inFlight'
    <3>1. clocked("L2")
      BY <1>5, <2>4
    <3>2. CASE cbSyncRe
      <4>1. ~cbSyncWas
        BY <2>1, <3>2 DEF cbSyncRe
      <4>2. inFlight' = possibleWriteArounds
        BY <1>1, <2>4, <3>1, <3>2
      <4>3. QED
        BY <1>1, <2>4, <4>1, <4>2
    <3>3. CASE ~cbSyncRe
      <4>1. cbSyncWas
        BY <2>1, <2>4, <3>3 DEF cbSyncRe
      <4>2. inFlight' = inFlight \cap valid
        BY <1>1, <2>4, <3>1, <3>3
      <4>3. QED
        BY <1>1, <1>3, <2>1, <2>4, <4>1, <4>2
    <3>4. QED
      BY <3>2, <3>3
  <2>5. QED
    BY <1>1, <1>2, <2>2, <2>3, <2>4
<1>7. QED
  BY <1>4, <1>6 DEF SnapshotHeld

-----------------------------------------------------------------------------
(***************************************************************************)
(* The invariant holds.                                                    *)
(***************************************************************************)
LEMMA AllocInitially == Init => AllocIInv
<1> SUFFICES ASSUME Init
             PROVE  AllocIInv
  OBVIOUS
<1>1. valid = {} /\ \A s : From(s) = {}
  BY DEF Init, valid, From
<1>2. TypeOK
  <2>1. entry \in [Entries -> Entry \cup {Free}]
    BY DEF Init
  <2>2. /\ allocAd \in [Levels -> [valid : BOOLEAN, id : Ids]]
        /\ needed \in [Levels -> BOOLEAN] /\ {cbSyncR1, aborted} \subseteq BOOLEAN
        /\ inFlight \subseteq Entries
    BY Border DEF Init
  <2>3. posted \in Seq(Allowed["L2"])
    BY DEF Init
  <2>4. walk \in [op : WalkOps \cup {"none"}, left : 0 .. MaxIndices, offer : {"none", "index", "sync"}]
    BY ReqqAllocAssumption DEF Init, NoWalk
  <2>5. QED
    BY <2>1, <2>2, <2>3, <2>4 DEF TypeOK
<1>3. PortsTyped
  BY Border DEF Init, PortsTyped, NoReq
<1>4. OwnSide /\ IndexOpsAlone
  BY <1>1 DEF OwnSide, IndexOpsAlone
<1>5. HalfKnown
  BY <1>1 DEF Init, HalfKnown, Waiting
<1>6. WalkSettled
  BY <1>1 DEF Init, WalkSettled
<1>7. SnapshotHeld
  BY <1>1 DEF Init, SnapshotHeld
<1>8. QED
  BY <1>2, <1>3, <1>4, <1>5, <1>6, <1>7 DEF AllocIInv

\* The invariant reads nothing but the variables.
LEMMA AllocStutters == AllocIInv /\ UNCHANGED vars => AllocIInv'
<1> SUFFICES ASSUME AllocIInv, UNCHANGED vars
             PROVE  AllocIInv'
  OBVIOUS
<1> USE DEF vars, AllocIInv
<1>1. valid' = valid
  BY DEF valid
<1>2. \A s : From(s)' = From(s)
  BY <1>1 DEF From
<1>3. TypeOK' /\ PortsTyped'
  BY DEF TypeOK, PortsTyped
<1>4. OwnSide' /\ HalfKnown'
  BY <1>1 DEF OwnSide, HalfKnown, Waiting, LevelOf
<1>5. WalkSettled' /\ SnapshotHeld'
  BY <1>1, <1>2 DEF WalkSettled, SnapshotHeld, cbSync
<1>6. IndexOpsAlone'
  BY <1>2 DEF IndexOpsAlone, busy
<1>7. QED
  BY <1>3, <1>4, <1>5, <1>6

\* The state of the allocators, whatever is granted, ends, arrives or is
\* aborted.
THEOREM AllocInvariant == Spec => []AllocIInv
<1>1. AllocIInv /\ [Next]_vars => AllocIInv'
  <2> SUFFICES ASSUME AllocIInv, [Next]_vars
               PROVE  AllocIInv'
    OBVIOUS
  <2>1. ASSUME NEW g \in Grants, NEW move \in moves, NEW abort \in BOOLEAN, Edge(g, move, abort)
        PROVE  AllocIInv'
    BY <2>1, AllocTypesKeep, OwnSideKeeps, HalfKeeps, SettledKeeps, AloneKeeps, SnapshotKeeps
       DEF AllocIInv
  <2>2. CASE UNCHANGED vars
    BY <2>2, AllocStutters
  <2>3. QED
    BY <2>1, <2>2 DEF Next
<1>2. QED
  BY <1>1, AllocInitially, PTL DEF Spec

-----------------------------------------------------------------------------
(***************************************************************************)
(* What it means for the queue.                                            *)
(***************************************************************************)

\* Entries, grants, ports and the walk stay what they are declared to be: no
\* request is lost to an id outside the queue.
THEOREM AllocTypeCorrect == Spec => []TypeOK
<1>1. AllocIInv => TypeOK
  BY DEF AllocIInv
<1>2. QED
  BY <1>1, AllocInvariant, PTL

\* No request of a level that a walk keeps busy shares the queue with an index
\* operation of that walk, although L3 is let go on while L2 may need it.
THEOREM IndexOpsAlwaysAlone == Spec => []IndexOpsAlone
<1>1. AllocIInv => IndexOpsAlone
  BY DEF AllocIInv
<1>2. QED
  BY <1>1, AllocInvariant, PTL

\* The Sync of a coalescing buffer walk is never taken while a write around
\* that was in the queue when it came up is still there.
THEOREM SyncAlwaysWaits == Spec => []SyncWaitsForWriteArounds
<1>1. AllocIInv => SyncWaitsForWriteArounds
  <2> SUFFICES ASSUME AllocIInv, NEW g \in Grants, cbSync, copReady("L2", g), ~withdrawn
               PROVE  (IF cbSyncWas THEN owed ELSE possibleWriteArounds) = {}
    BY DEF SyncWaitsForWriteArounds
  <2>1. cbSyncR1 /\ inFlight = {}
    BY OneAllocation DEF cbSync, waitingOnSync, cbSyncRe, Levels
  <2>2. cbSyncR1 = cbSyncWas /\ (cbSyncWas => owed \subseteq inFlight)
    BY DEF AllocIInv, SnapshotHeld
  <2>3. QED
    BY <2>1, <2>2
<1>2. QED
  BY <1>1, AllocInvariant, PTL

\* The halves of a pair name each other whether they are allocated at one edge
\* or at two, whatever is allocated, stalled or ended in between.
THEOREM HalvesAlwaysMeet == Spec => HalvesMeet
<1> DEFINE Met(i) ==
       /\ entry[i] = Free /\ entry'[i].src # "none" /\ entry'[i].half = "second" =>
             LET m == entry'[entry'[i].mate] IN m.half = "first" /\ m.mate = i
       /\ i \in valid /\ entry[i].stage = "wait" /\ entry'[i].stage # "wait" =>
             LET m == entry'[entry'[i].mate] IN m.half = "second" /\ m.mate = i
<1>1. AllocIInv /\ [Next]_vars => [\A i \in Entries : Met(i)]_vars
  <2> SUFFICES ASSUME AllocIInv, Next, NEW i \in Entries
               PROVE  Met(i)
    OBVIOUS
  <2> USE DEF AllocIInv
  <2>1. PICK g \in Grants, move \in moves, abort \in BOOLEAN : Edge(g, move, abort)
    BY DEF Next
  <2> DEFINE l == LevelOf(i)
             w == allocAd[l].id
  <2>2. l \in Levels
    BY Border
  \* The second half that a level needs is allocated.
  <2>3. ASSUME needed[l], allocates(l, g)
        PROVE  /\ Waiting(w) /\ w \in Entries /\ LevelOf(w) = l
               /\ entry'[w].half = "first" /\ entry'[w].mate = g[l][1]
               /\ entry'[w].stage = "go"
               /\ entry'[g[l][1]].half = "second" /\ entry'[g[l][1]].mate = w
    <3>1. w \in Allowed[l] /\ Waiting(w)
      BY <2>2, <2>3 DEF HalfKnown
    <3>2. w \in Entries /\ LevelOf(w) = l /\ w \in valid
      BY <2>2, <3>1, Border DEF Waiting
    <3>3. entry[w].half = "first"
      BY <3>1, <3>2 DEF HalfKnown
    <3>4. /\ entry'[w].half = entry[w].half /\ entry'[w].mate = g[l][1]
          /\ entry'[w].stage = "go"
      BY <2>1, <2>3, <3>1, <3>2, ValidAfter
    <3>5. entry'[g[l][1]] = first(l, g)
      BY <2>1, <2>2, <2>3, GrantedAfter
    <3>6. first(l, g).half = "second" /\ first(l, g).mate = w
      BY <2>2, <2>3, FirstIs
    <3>7. QED
      BY <3>1, <3>2, <3>3, <3>4, <3>5, <3>6
  <2>4. ASSUME entry[i] = Free, entry'[i].src # "none", entry'[i].half = "second"
        PROVE  entry'[entry'[i].mate].half = "first" /\ entry'[entry'[i].mate].mate = i
    <3>1. i \notin valid /\ entry'[i] # Free
      BY <2>4, FreeHasNoSource DEF valid
    <3>2. /\ allocates(l, g)
          /\ \/ needed[l] /\ i = g[l][1] /\ entry'[i].mate = allocAd[l].id
             \/ pairs(l, g) /\ i = g[l][2] /\ entry'[i].mate = g[l][1]
      <4>1. /\ allocates(l, g)
            /\ \/ copReady(l, g) /\ entry'[i].half = "whole"
               \/ entry'[i].half = "second" =>
                     \/ needed[l] /\ i = g[l][1] /\ entry'[i].mate = allocAd[l].id
                     \/ pairs(l, g) /\ i = g[l][2] /\ entry'[i].mate = g[l][1]
        BY <2>1, <3>1, NewEntryIs
      <4>2. QED
        BY <2>4, <4>1
    <3>3. CASE needed[l] /\ i = g[l][1] /\ entry'[i].mate = allocAd[l].id
      BY <2>3, <3>2, <3>3
    <3>4. CASE pairs(l, g) /\ i = g[l][2] /\ entry'[i].mate = g[l][1]
      <4>1. entry'[g[l][1]] = first(l, g)
        BY <2>1, <2>2, <3>2, GrantedAfter
      <4>2. takesBank(l, g) /\ bankReq[l].kind = "pair"
        BY <2>2, <3>4, OneAllocation
      <4>3. first(l, g).half = "first" /\ first(l, g).mate = g[l][2]
        BY <2>2, <3>2, <3>4, <4>2, FirstIs
      <4>4. QED
        BY <3>4, <4>1, <4>3
    <3>5. QED
      BY <3>2, <3>3, <3>4
  <2>5. ASSUME i \in valid, entry[i].stage = "wait", entry'[i].stage # "wait"
        PROVE  entry'[entry'[i].mate].half = "second" /\ entry'[entry'[i].mate].mate = i
    <3>1. needed[l] /\ i = w
      BY <2>5 DEF HalfKnown, Waiting
    <3>2. allocates(l, g)
      BY <2>1, <2>5, ValidAfter DEF Waiting
    <3>3. QED
      BY <2>3, <3>1, <3>2
  <2>6. QED
    BY <2>4, <2>5
<1>2. QED
  BY <1>1, AllocInvariant, PTL DEF Spec, HalvesMeet
=============================================================================
