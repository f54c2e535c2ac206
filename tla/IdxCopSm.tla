------------------------------ MODULE IdxCopSm ------------------------------
(***************************************************************************)
(* shirecache_pipe_idx_cop_sm: the state machine that walks the cache for  *)
(* the maintenance operations software starts through an ESR, and for the  *)
(* invalidation of everything after a cold reset.  Its D0 stage counts     *)
(* sets, ways and sub banks; D1 holds the request offered to the request   *)
(* queue; a Sync closes every walk.  The debug quadword counter and the    *)
(* debug data registers are left out.  A step is one clock edge.           *)
(***************************************************************************)
EXTENDS Naturals, FiniteSets

CONSTANTS Sets, Ways, SubBanks,  \* numbers of each
          SetModulus,            \* 2^SetCountSize, the width of the set counter
          CbufSize, CbInvCount,  \* entries of the coalescing buffer, and steps of its walk
          ResetCount,            \* what the reset counter starts from
          Base, Size,            \* first set and number of sets of "L2", "L3" and "Scp"
          MaxResets              \* bound: resets after the first

Levels == {"L2", "L3", "Scp"}

ASSUME IdxCopSmAssumption ==
    /\ {Sets, Ways, SubBanks, SetModulus, CbufSize, CbInvCount} \subseteq Nat \ {0}
    /\ Sets < SetModulus /\ CbInvCount < SetModulus /\ CbufSize <= CbInvCount
    /\ ResetCount \in Nat /\ ResetCount > 1
    /\ Base \in [Levels -> Nat] /\ Size \in [Levels -> Nat]
    /\ \A r \in Levels : Base[r] + Size[r] <= Sets
    /\ MaxResets \in Nat

\* The Inv, Flush and Evict walks of a level are alike to this machine.
Ops == {"AllInv", "L2", "L3", "Scp", "CBInv", "Dbg"}
States == {"Reset", "AllInv", "Idle", "Active", "CbInv", "Dbg", "Sync"}
Indices == (0 .. SetModulus - 1) \X (0 .. Ways - 1) \X (0 .. SubBanks - 1)

VARIABLES state, resetCount, coldSave,
          esrOp,              \* the opcode field of the control ESR
          start, abort,       \* the delayed pulses: [pre1, q] and [pre1, q, d1]
          d0,                 \* the index counters
          compare, op,        \* end of the walk and operation, latched at the start
          d1,                 \* the request: [valid, op, index]
          l2Busy, l3Busy,
          cbuf,               \* the valid entries of the coalescing buffer
          taken,              \* history: the indices taken since the start
          owed,               \* history: what the walk must take
          resets,             \* counts the resets
          uncleaned           \* history: a cold reset still awaits its invalidation

vars == <<state, resetCount, coldSave, esrOp, start, abort, d0, compare, op, d1,
          l2Busy, l3Busy, cbuf, taken, owed, resets, uncleaned>>

NoPulse == [pre1 |-> FALSE, q |-> FALSE]
NoAbort == [pre1 |-> FALSE, q |-> FALSE, d1 |-> FALSE]

Init == /\ state = "Reset" /\ resetCount = ResetCount /\ coldSave = TRUE
        /\ esrOp = "AllInv" /\ start = NoPulse /\ abort = NoAbort
        /\ d0 = <<0, 0, 0>> /\ compare = 0 /\ op = "AllInv"
        /\ d1 = [valid |-> FALSE, op |-> "AllInv", index |-> <<0, 0, 0>>]
        /\ l2Busy = TRUE /\ l3Busy = TRUE
        /\ cbuf = {}
        /\ taken = {} /\ owed = {} /\ resets = 0 /\ uncleaned = TRUE

-----------------------------------------------------------------------------
\* A write of the control ESR, or none.
Writes == [op : Ops, go : BOOLEAN, abort : BOOLEAN]
NoWrite == [op |-> "AllInv", go |-> FALSE, abort |-> FALSE]

powerUp == state = "Reset" /\ resetCount = 1

load == ~abort.q /\ (powerUp \/ (state = "Idle" /\ start.q))

opNext == IF powerUp THEN "AllInv" ELSE esrOp

\* The first set of the walk that is starting, and how many it visits.
span == CASE opNext \in DOMAIN Size -> [base |-> Base[opNext], size |-> Size[opNext]]
          [] opNext = "AllInv" -> [base |-> 0, size |-> Sets]
          [] opNext = "Dbg" -> [base |-> 0, size |-> 1]
          [] OTHER -> [base |-> 0, size |-> CbInvCount]

\* D0 moves on when D1 is empty or taken.
advance(ready) == /\ state \in {"AllInv", "Active", "CbInv", "Dbg", "Sync"}
                  /\ ~d1.valid \/ ready

lastWay == d0[2] = Ways - 1
lastSbb == d0[3] = SubBanks - 1

\* Mutant: the walk over everything waits for its last way, and has none.
stepIndexAllWays ==
    << (d0[1] + (IF state = "CbInv" \/ (lastWay /\ lastSbb) THEN 1 ELSE 0)) % SetModulus,
       IF state \notin {"AllInv", "CbInv"} /\ lastSbb THEN (d0[2] + 1) % Ways ELSE d0[2],
       IF state # "CbInv" THEN (d0[3] + 1) % SubBanks ELSE d0[3] >>

stepIndex ==
    << (d0[1] + (IF \/ state = "CbInv"
                    \/ (lastWay \/ state = "AllInv") /\ lastSbb THEN 1 ELSE 0)) % SetModulus,
       IF state \notin {"AllInv", "CbInv"} /\ lastSbb THEN (d0[2] + 1) % Ways ELSE d0[2],
       IF state # "CbInv" THEN (d0[3] + 1) % SubBanks ELSE d0[3] >>

\* Mutant: does not wait for D1 to move on.
lastTakenEarly(ready) == stepIndex[1] = compare \/ state = "Dbg"

lastTaken(ready) == advance(ready) /\ (stepIndex[1] = compare \/ state = "Dbg")

syncTaken(ready) == d1.valid /\ d1.op = "Sync" /\ ready

stateNext(ready, mbistOn) ==
    CASE state = "Reset" ->
            IF abort.q \/ mbistOn \/ (resetCount = 2 /\ ~coldSave) THEN "Idle"
            ELSE IF powerUp THEN "AllInv" ELSE "Reset"
      [] state \in {"AllInv", "Active", "CbInv"} ->
            IF abort.q THEN "Idle" ELSE IF lastTaken(ready) THEN "Sync" ELSE state
      [] state = "Idle" -> IF ~load THEN "Idle"
                             ELSE CASE esrOp = "CBInv" -> "CbInv"
                                    [] esrOp \in {"AllInv", "Dbg"} -> esrOp
                                    [] OTHER -> "Active"
      [] state = "Dbg" -> IF abort.q \/ lastTaken(ready) THEN "Idle" ELSE "Dbg"
      [] state = "Sync" -> IF abort.q \/ syncTaken(ready) THEN "Idle" ELSE "Sync"

goesIdle(ready, mbistOn) == state # "Idle" /\ stateNext(ready, mbistOn) = "Idle"

\* What D0 passes on: every index of a walk, but only the valid entries of
\* the coalescing buffer.
d0Valid == state = "CbInv" => d0[1] < CbufSize /\ d0[1] \in cbuf

d1Next(ready, mbistOn) ==
    LET passed == IF advance(ready)
                  THEN [d1 EXCEPT !.op = IF state = "Sync" THEN "Sync" ELSE op,
                                  !.index = d0]
                  ELSE d1
    IN  [passed EXCEPT !.valid =
            /\ ~abort.q
            /\ IF advance(ready)
               THEN d0Valid /\ (~goesIdle(ready, mbistOn) \/ state = "Dbg")
               ELSE d1.valid /\ ~ready]

\* Mutant: the busy flags fall with the last index, before the Sync.
busyNextEarly(busy, ops, ready, mbistOn) ==
    IF load THEN opNext \in ops
    ELSE IF lastTaken(ready) \/ goesIdle(ready, mbistOn) THEN FALSE ELSE busy

busyNext(busy, ops, ready, mbistOn) ==
    IF load THEN opNext \in ops
    ELSE IF goesIdle(ready, mbistOn) THEN FALSE ELSE busy

\* Mutant: the flag is cleared whenever the machine leaves reset.
coldSaveNextLost == coldSave /\ state # "Reset"

coldSaveNext == /\ coldSave
                /\ ~(state = "Reset" /\ resetCount = 2)
                /\ ~abort.q

region(o) == CASE o = "AllInv" -> (0 .. Sets - 1) \X {0} \X (0 .. SubBanks - 1)
               [] o \in DOMAIN Size ->
                    (Base[o] .. Base[o] + Size[o] - 1) \X (0 .. Ways - 1) \X (0 .. SubBanks - 1)
               [] OTHER -> {}

Tick(wr, ready, mbistOn) ==
    /\ state' = stateNext(ready, mbistOn)
    /\ resetCount' = IF resetCount > 0 THEN resetCount - 1 ELSE 0
    /\ coldSave' = coldSaveNext
    /\ esrOp' = IF wr = NoWrite THEN esrOp ELSE wr.op
    /\ start' = [pre1 |-> wr.go /\ (wr.op \in DOMAIN Size => Size[wr.op] > 0),
                  q |-> start.pre1]
    /\ abort' = [pre1 |-> wr.abort \/ (mbistOn /\ state \in {"Reset", "AllInv"}),
                  q |-> abort.pre1, d1 |-> abort.q]
    /\ d0' = IF load THEN <<span.base, 0, 0>> ELSE IF advance(ready) THEN stepIndex ELSE d0
    /\ compare' = IF load THEN (span.base + span.size) % SetModulus ELSE compare
    /\ op' = IF load THEN opNext ELSE op
    /\ d1' = d1Next(ready, mbistOn)
    /\ l2Busy' = busyNext(l2Busy, {"AllInv", "L2", "Scp"}, ready, mbistOn)
    /\ l3Busy' = busyNext(l3Busy, {"AllInv", "L3", "Scp"}, ready, mbistOn)
    /\ taken' = IF load THEN {}
                ELSE IF d1.valid /\ ready /\ d1.op \notin {"Sync", "Dbg"} THEN taken \cup {d1.index}
                ELSE taken
    /\ uncleaned' = /\ uncleaned
                    /\ ~abort.q
                    /\ ~(state = "Reset" /\ mbistOn)
                    /\ ~(op = "AllInv" /\ syncTaken(ready) /\ taken = region("AllInv"))

\* The coalescing buffer gains and loses entries on its own; the walk owes
\* those that are valid throughout.
Buffer == /\ cbuf' \in SUBSET (0 .. CbufSize - 1)
          /\ owed' = IF load THEN IF opNext = "CBInv" THEN cbuf' \X {0} \X {0}
                                  ELSE region(opNext)
                     ELSE IF op = "CBInv" THEN owed \cap (cbuf' \X {0} \X {0}) ELSE owed

\* The ESR is a multicycle path: no write comes while a pulse is under way.
\* req_ready answers a valid request only.
Edge(wr, ready, mbistOn) ==
    /\ wr # NoWrite => start = NoPulse /\ abort = NoAbort
    /\ ready => d1.valid
    /\ Tick(wr, ready, mbistOn)
    /\ Buffer
    /\ UNCHANGED resets

\* A reset leaves the registers of the walk alone, a warm one the cold reset
\* flag too.
Reset(cold) ==
    /\ resets < MaxResets
    /\ resets' = resets + 1
    /\ state' = "Reset" /\ resetCount' = ResetCount
    /\ coldSave' = (coldSave \/ cold)
    /\ start' = NoPulse /\ abort' = NoAbort
    /\ d1' = [d1 EXCEPT !.valid = FALSE]
    /\ l2Busy' = TRUE /\ l3Busy' = TRUE
    \* A warm reset that finds the flag consumed cuts the walk for good.
    /\ uncleaned' = (cold \/ (uncleaned /\ coldSave))
    /\ UNCHANGED <<esrOp, d0, compare, op, cbuf, taken, owed>>

Next == \/ \E wr \in Writes, ready, mbistOn \in BOOLEAN : Edge(wr, ready, mbistOn)
        \/ \E cold \in BOOLEAN : Reset(cold)

Spec == Init /\ [][Next]_vars

\* The clock keeps ticking and the request queue takes what it is offered.
FairSpec == /\ Spec
            /\ WF_vars(\E wr \in Writes, ready, mbistOn \in BOOLEAN :
                          Edge(wr, ready, mbistOn))
            /\ WF_vars(\E wr \in Writes, mbistOn \in BOOLEAN : Edge(wr, TRUE, mbistOn))

-----------------------------------------------------------------------------
TypeOK == /\ state \in States
          /\ resetCount \in 0 .. ResetCount
          /\ {coldSave, l2Busy, l3Busy, uncleaned} \subseteq BOOLEAN
          /\ esrOp \in Ops /\ op \in Ops
          /\ d0 \in Indices /\ compare \in 0 .. SetModulus - 1
          /\ d1 \in [valid : BOOLEAN, op : Ops \cup {"Sync"}, index : Indices]
          /\ taken \subseteq Indices

\* The Sync that closes a walk is offered when all of it has been taken:
\* every index of the region, or every entry of the coalescing buffer that
\* was valid all along, and nothing outside.
SyncClosesTheWalk ==
    d1.valid /\ d1.op = "Sync" /\ ~abort.q =>
        /\ owed \subseteq taken
        /\ op # "CBInv" => taken = owed

\* No index is offered again once it has been taken, however the ready wire
\* behaves.
NoIndexTwice == d1.valid /\ d1.op \notin {"Sync", "Dbg"} => d1.index \notin taken

\* While requests of a walk over a level are on offer, that level is busy and
\* its other traffic held off; the assertions at the end of the file.
BusyCoversTheWalk ==
    /\ (d1.valid /\ d1.op # "Dbg") \/ state \in {"AllInv", "Active", "Sync"} =>
          /\ op \in {"AllInv", "L2", "Scp"} => l2Busy
          /\ op \in {"AllInv", "L3", "Scp"} => l3Busy

\* After a cold reset the machine does not become idle before everything has
\* been invalidated, unless software or MBIST aborted it; warm resets before
\* the walk begins do not make it forget.
ColdResetInvalidates == state = "Idle" => ~uncleaned

\* Every walk ends.
WalkEnds == state # "Idle" ~> state = "Idle"
=============================================================================
