--------------------------- MODULE IdxCopSmProofs ---------------------------
(***************************************************************************)
(* The maintenance walks for any number of sets, ways and sub banks, any   *)
(* partition of the sets and any coalescing buffer.  The invariant says    *)
(* where a walk is: what has been taken and what is on offer are together  *)
(* the indices that come before D0.                                        *)
(***************************************************************************)
EXTENDS IdxCopSm, TLAPS

\* The walks over sets, ways and sub banks, and their first and last places.
Walks == Levels \cup {"AllInv"}

First(o) == IF o = "AllInv" THEN 0 ELSE Base[o]
Limit(o) == IF o = "AllInv" THEN Sets ELSE Base[o] + Size[o]
LastWay(o) == IF o = "AllInv" THEN 0 ELSE Ways - 1

Precedes(x, y) == \/ x[1] < y[1]
                  \/ x[1] = y[1] /\ x[2] < y[2]
                  \/ x[1] = y[1] /\ x[2] = y[2] /\ x[3] < y[3]

Before(o, d) == {x \in region(o) : Precedes(x, d)}

\* The index on offer, and all that have been offered.
pending == IF d1.valid /\ d1.op \notin {"Sync", "Dbg"} THEN {d1.index} ELSE {}
offered == taken \cup pending

-----------------------------------------------------------------------------
(***************************************************************************)
(* The inductive invariant.                                                *)
(***************************************************************************)
Pulses == /\ start \in [pre1 : BOOLEAN, q : BOOLEAN]
          /\ abort \in [pre1 : BOOLEAN, q : BOOLEAN, d1 : BOOLEAN]
          /\ cbuf \subseteq 0 .. CbufSize - 1
          \* A level without sets is not started.
          /\ start.pre1 \/ start.q => (esrOp \in Levels => Size[esrOp] > 0)

OpMatches == /\ state = "AllInv" => op = "AllInv"
             /\ state = "Active" => op \in Levels
             /\ state = "CbInv" => op = "CBInv"
             /\ state = "Dbg" => op = "Dbg"
             /\ state = "Sync" => op # "Dbg"

RequestMatches ==
    d1.valid => /\ state # "Reset"
                /\ \/ d1.op = "Dbg"
                   \/ d1.op = op /\ state \in {"AllInv", "Active", "CbInv", "Sync"}
                   \/ d1.op = "Sync" /\ state = "Sync"

LevelsWalked == state \in {"AllInv", "Active"} =>
    /\ d0 \in region(op) /\ compare = Limit(op)
    /\ owed = region(op)
    /\ offered = Before(op, d0)

BufferWalked == state = "CbInv" =>
    /\ d0 \in (0 .. CbInvCount - 1) \X {0} \X {0} /\ compare = CbInvCount
    /\ owed \subseteq cbuf \X {0} \X {0}
    /\ \A x \in owed : x[1] < d0[1] => x \in offered
    /\ \A x \in offered : x[1] < d0[1]

AllOffered == state = "Sync" =>
    /\ owed \subseteq offered
    /\ op # "CBInv" => offered = owed /\ owed = region(op)

BusyHeld == state \in {"AllInv", "Active", "Sync"} =>
    /\ op \in {"AllInv", "L2", "Scp"} => l2Busy
    /\ op \in {"AllInv", "L3", "Scp"} => l3Busy

\* Until the invalidation has begun the flag, or the last cycle of the reset
\* counter, remembers that it is owed.
InvalidationOwed ==
    /\ state = "Reset" => resetCount > 0
    /\ uncleaned => \/ state = "Reset" /\ (resetCount > 1 => coldSave)
                    \/ state \in {"AllInv", "Sync"} /\ op = "AllInv"

IdxIInv == /\ TypeOK /\ Pulses /\ OpMatches /\ RequestMatches
           /\ LevelsWalked /\ BufferWalked /\ AllOffered
           /\ taken \cap pending = {}
           /\ BusyHeld /\ InvalidationOwed

-----------------------------------------------------------------------------
(***************************************************************************)
(* The order of the indices.                                               *)
(***************************************************************************)
LEMMA Numbers ==
    /\ Sets \in Nat \ {0} /\ Ways \in Nat \ {0} /\ SubBanks \in Nat \ {0}
    /\ SetModulus \in Nat \ {0} /\ CbufSize \in Nat \ {0} /\ CbInvCount \in Nat \ {0}
    /\ ResetCount \in Nat /\ ResetCount > 1
    /\ Sets < SetModulus /\ CbInvCount < SetModulus /\ CbufSize <= CbInvCount
BY IdxCopSmAssumption

\* The indices a walk offers are a box: sets below its limit, ways and sub-banks.
LEMMA Spans ==
    ASSUME NEW o \in Walks
    PROVE  /\ First(o) \in Nat /\ Limit(o) \in Nat /\ First(o) <= Limit(o)
           /\ Limit(o) <= Sets /\ LastWay(o) \in Nat /\ LastWay(o) < Ways
           /\ region(o) = (First(o) .. Limit(o) - 1) \X (0 .. LastWay(o)) \X (0 .. SubBanks - 1)
<1>1. CASE o = "AllInv"
  <2>1. 0 .. 0 = {0}
    OBVIOUS
  <2>2. First(o) = 0 /\ Limit(o) = Sets /\ LastWay(o) = 0
    BY <1>1 DEF First, Limit, LastWay
  <2>3. region(o) = (0 .. Sets - 1) \X {0} \X (0 .. SubBanks - 1)
    <3>1. o \notin DOMAIN Size
      BY <1>1, IdxCopSmAssumption DEF Levels
    <3>2. QED
      BY <1>1, <3>1 DEF region
  <2>4. region(o) = (First(o) .. Limit(o) - 1) \X (0 .. LastWay(o)) \X (0 .. SubBanks - 1)
    BY <2>1, <2>2, <2>3
  <2>5. QED
    BY <2>2, <2>4, Numbers
<1>2. CASE o \in Levels
  <2>1. Base[o] \in Nat /\ Size[o] \in Nat /\ Base[o] + Size[o] <= Sets /\ o \in DOMAIN Size
    BY <1>2, IdxCopSmAssumption
  <2>2. o # "AllInv"
    BY <1>2 DEF Levels
  <2>3. QED
    BY <2>1, <2>2, Numbers DEF First, Limit, LastWay, region
<1>3. QED
  BY <1>1, <1>2 DEF Walks

\* The index that follows d.
Onto(o, d) ==
    << IF d[2] = LastWay(o) /\ d[3] = SubBanks - 1 THEN d[1] + 1 ELSE d[1],
       IF d[3] = SubBanks - 1 THEN IF d[2] = LastWay(o) THEN 0 ELSE d[2] + 1 ELSE d[2],
       IF d[3] = SubBanks - 1 THEN 0 ELSE d[3] + 1 >>

\* Between d and the index that follows it there is none.
LEMMA OntoFollows ==
    ASSUME NEW o \in Walks, NEW d \in region(o)
    PROVE  /\ \A x \in region(o) : Precedes(x, Onto(o, d)) <=> Precedes(x, d) \/ x = d
           /\ Onto(o, d)[1] # Limit(o) => Onto(o, d) \in region(o)
           /\ Onto(o, d)[1] = Limit(o) => \A x \in region(o) : Precedes(x, Onto(o, d))
<1> DEFINE w == LastWay(o)
           b == SubBanks - 1
           l == Limit(o)
<1>1. /\ w \in Nat /\ b \in Nat /\ l \in Nat /\ First(o) \in Nat
      /\ region(o) = (First(o) .. l - 1) \X (0 .. w) \X (0 .. b)
  BY Spans, Numbers
<1>2. PICK p \in First(o) .. l - 1, q \in 0 .. w, r \in 0 .. b : d = <<p, q, r>>
  BY <1>1
<1>3. Onto(o, d) = << IF q = w /\ r = b THEN p + 1 ELSE p,
                      IF r = b THEN IF q = w THEN 0 ELSE q + 1 ELSE q,
                      IF r = b THEN 0 ELSE r + 1 >>
  BY <1>2 DEF Onto
<1> HIDE DEF w, b, l
<1>4. ASSUME NEW x \in region(o)
      PROVE  /\ Precedes(x, Onto(o, d)) <=> Precedes(x, d) \/ x = d
             /\ Onto(o, d)[1] = l => Precedes(x, Onto(o, d))
  <2>1. PICK i \in First(o) .. l - 1, j \in 0 .. w, k \in 0 .. b : x = <<i, j, k>>
    BY <1>1
  <2>2. x = d <=> i = p /\ j = q /\ k = r
    BY <1>2, <2>1
  <2>3. Precedes(x, d) <=> i < p \/ (i = p /\ j < q) \/ (i = p /\ j = q /\ k < r)
    BY <1>2, <2>1 DEF Precedes
  <2>4. CASE r # b
    <3>1. Onto(o, d) = <<p, q, r + 1>>
      BY <1>3, <2>4
    <3>2. Precedes(x, Onto(o, d)) <=> i < p \/ (i = p /\ j < q) \/ (i = p /\ j = q /\ k < r + 1)
      BY <2>1, <3>1 DEF Precedes
    <3>3. QED
      BY <1>1, <2>2, <2>3, <3>1, <3>2
  <2>5. CASE r = b /\ q # w
    <3>1. Onto(o, d) = <<p, q + 1, 0>>
      BY <1>3, <2>5
    <3>2. Precedes(x, Onto(o, d)) <=> i < p \/ (i = p /\ j < q + 1) \/ (i = p /\ j = q + 1 /\ k < 0)
      BY <2>1, <3>1 DEF Precedes
    <3>3. QED
      BY <1>1, <2>2, <2>3, <2>5, <3>1, <3>2
  <2>6. CASE r = b /\ q = w
    <3>1. Onto(o, d) = <<p + 1, 0, 0>>
      BY <1>3, <2>6
    <3>2. Precedes(x, Onto(o, d)) <=> i < p + 1 \/ (i = p + 1 /\ j < 0) \/ (i = p + 1 /\ j = 0 /\ k < 0)
      BY <2>1, <3>1 DEF Precedes
    <3>3. QED
      BY <1>1, <2>2, <2>3, <2>6, <3>1, <3>2
  <2>7. QED
    BY <2>4, <2>5, <2>6
<1>5. Onto(o, d)[1] # l => Onto(o, d) \in region(o)
  <2>1. CASE r # b
    BY <1>1, <1>3, <2>1
  <2>2. CASE r = b /\ q # w
    BY <1>1, <1>3, <2>2
  <2>3. CASE r = b /\ q = w
    <3>1. Onto(o, d) = <<p + 1, 0, 0>>
      BY <1>3, <2>3
    <3>2. p + 1 # l => p + 1 \in First(o) .. l - 1
      BY <1>1
    <3>3. 0 \in 0 .. w /\ 0 \in 0 .. b
      BY <1>1
    <3>4. QED
      BY <1>1, <3>1, <3>2, <3>3
  <2>4. QED
    BY <2>1, <2>2, <2>3
<1>6. QED
  BY <1>4, <1>5 DEF l

\* A walk begins with nothing before it, and what comes before D0 grows by the
\* index that D0 passes on.
LEMMA BeforeGrows ==
    ASSUME NEW o \in Walks
    PROVE  /\ First(o) < Limit(o) =>
                 <<First(o), 0, 0>> \in region(o) /\ Before(o, <<First(o), 0, 0>>) = {}
           /\ \A d \in region(o) :
                 /\ d \notin Before(o, d)
                 /\ IF Onto(o, d)[1] = Limit(o) THEN Before(o, d) \cup {d} = region(o)
                    ELSE /\ Onto(o, d) \in region(o)
                         /\ Before(o, Onto(o, d)) = Before(o, d) \cup {d}
<1>1. ASSUME First(o) < Limit(o)
      PROVE  <<First(o), 0, 0>> \in region(o) /\ Before(o, <<First(o), 0, 0>>) = {}
  <2>1. \A x \in region(o) : x[1] \in Nat /\ x[1] >= First(o) /\ x[2] \in Nat /\ x[3] \in Nat
    BY Spans
  <2>2. \A x \in region(o) : ~Precedes(x, <<First(o), 0, 0>>)
    BY <2>1, Spans DEF Precedes
  <2>3. First(o) \in First(o) .. Limit(o) - 1 /\ 0 \in 0 .. LastWay(o) /\ 0 \in 0 .. SubBanks - 1
    BY <1>1, Spans, Numbers
  <2>4. QED
    BY <2>2, <2>3, Spans DEF Before
<1>2. ASSUME NEW d \in region(o)
      PROVE  /\ d \notin Before(o, d)
             /\ IF Onto(o, d)[1] = Limit(o) THEN Before(o, d) \cup {d} = region(o)
                ELSE /\ Onto(o, d) \in region(o)
                     /\ Before(o, Onto(o, d)) = Before(o, d) \cup {d}
  <2>1. d[1] \in Nat /\ d[2] \in Nat /\ d[3] \in Nat
    BY Spans
  <2>2. d \notin Before(o, d)
    BY <2>1 DEF Before, Precedes
  <2>3. QED
    BY <2>2, OntoFollows DEF Before
<1>3. QED
  BY <1>1, <1>2

\* That is how D0 counts.
LEMMA Wraps ==
    ASSUME NEW n \in Nat \ {0}, NEW k \in 0 .. n - 1
    PROVE  /\ k % n = k
           /\ (k + 1) % n = IF k = n - 1 THEN 0 ELSE k + 1
<1>1. n % n = 0 /\ \A i \in 0 .. n - 1 : i % n = i
  OBVIOUS
<1>2. QED
  BY <1>1

\* Where the machine steps to from D0 is the lexical successor in the walk.
LEMMA StepIs ==
    ASSUME state \in {"AllInv", "Active"}, OpMatches, d0 \in region(op)
    PROVE  op \in Walks /\ stepIndex = Onto(op, d0)
<1>1. op \in Walks /\ (state = "AllInv" <=> op = "AllInv")
  BY DEF OpMatches, Walks, Levels
<1>2. PICK p \in First(op) .. Limit(op) - 1, q \in 0 .. LastWay(op), r \in 0 .. SubBanks - 1 : d0 = <<p, q, r>>
  BY <1>1, Spans
<1>3. /\ p \in 0 .. SetModulus - 1 /\ p + 1 \in 0 .. SetModulus - 1
      /\ q \in 0 .. Ways - 1 /\ r \in 0 .. SubBanks - 1
  BY <1>1, Spans, Numbers
<1>4. /\ p % SetModulus = p /\ (p + 1) % SetModulus = p + 1
      /\ (q + 1) % Ways = IF q = Ways - 1 THEN 0 ELSE q + 1
      /\ (r + 1) % SubBanks = IF r = SubBanks - 1 THEN 0 ELSE r + 1
  BY <1>3, Wraps, Numbers
<1>5. CASE state = "AllInv"
  <2>1. q = 0 /\ LastWay(op) = 0
    BY <1>1, <1>2, <1>5 DEF LastWay
  <2>2. stepIndex = << (p + IF r = SubBanks - 1 THEN 1 ELSE 0) % SetModulus, q, (r + 1) % SubBanks >>
    BY <1>2, <1>5 DEF stepIndex, lastSbb
  <2>3. Onto(op, d0) = << IF r = SubBanks - 1 THEN p + 1 ELSE p, 0, IF r = SubBanks - 1 THEN 0 ELSE r + 1 >>
    BY <1>2, <2>1 DEF Onto
  <2>4. QED
    BY <1>1, <1>3, <1>4, <2>1, <2>2, <2>3
<1>6. CASE state = "Active"
  <2>1. LastWay(op) = Ways - 1
    BY <1>1, <1>6 DEF LastWay
  <2>2. stepIndex = << (p + IF q = Ways - 1 /\ r = SubBanks - 1 THEN 1 ELSE 0) % SetModulus,
                       IF r = SubBanks - 1 THEN (q + 1) % Ways ELSE q, (r + 1) % SubBanks >>
    BY <1>2, <1>6 DEF stepIndex, lastSbb, lastWay
  <2>3. Onto(op, d0) = << IF q = Ways - 1 /\ r = SubBanks - 1 THEN p + 1 ELSE p,
                          IF r = SubBanks - 1 THEN IF q = Ways - 1 THEN 0 ELSE q + 1 ELSE q,
                          IF r = SubBanks - 1 THEN 0 ELSE r + 1 >>
    BY <1>2, <2>1 DEF Onto
  <2>4. QED
    BY <1>1, <1>3, <1>4, <2>2, <2>3
<1>7. QED
  BY <1>5, <1>6

-----------------------------------------------------------------------------
(***************************************************************************)
(* What an edge does, state by state.                                      *)
(***************************************************************************)
LEMMA Facts ==
    ASSUME IdxIInv
    PROVE  /\ state \in States /\ resetCount \in 0 .. ResetCount
           /\ coldSave \in BOOLEAN /\ l2Busy \in BOOLEAN /\ l3Busy \in BOOLEAN
           /\ uncleaned \in BOOLEAN
           /\ esrOp \in Ops /\ op \in Ops
           /\ d0 \in Indices /\ compare \in 0 .. SetModulus - 1
           /\ d1 \in [valid : BOOLEAN, op : Ops \cup {"Sync"}, index : Indices]
           /\ taken \subseteq Indices
           /\ DOMAIN Size = Levels
BY IdxCopSmAssumption DEF IdxIInv, TypeOK

\* Where the machine goes: to a walk only at a load, to the Sync only from the
\* end of a walk, and an abort ends everything.
StartState(o) == CASE o = "CBInv" -> "CbInv"
                   [] o \in {"AllInv", "Dbg"} -> o
                   [] OTHER -> "Active"

\* The states an edge leads to, and when it loads an operation.
LEMMA WhereTo ==
    ASSUME IdxIInv, NEW ready, NEW mbistOn
    PROVE  LET next == stateNext(ready, mbistOn)
           IN  /\ next \in States
               /\ load => /\ state \in {"Reset", "Idle"} /\ ~abort.q
                          /\ opNext \in Ops
                          /\ state = "Reset" => opNext = "AllInv"
                          /\ next = StartState(opNext) \/ (state = "Reset" /\ next = "Idle")
               /\ ~load => \/ next = state
                           \/ next = "Idle"
                           \/ /\ state \in {"AllInv", "Active", "CbInv"} /\ next = "Sync"
                              /\ lastTaken(ready) /\ ~abort.q
               /\ abort.q => next = "Idle"
               /\ state \in {"AllInv", "Active", "CbInv"} /\ ~abort.q =>
                     next = IF lastTaken(ready) THEN "Sync" ELSE state
               /\ state = "Sync" => next = IF abort.q \/ syncTaken(ready) THEN "Idle" ELSE "Sync"
               /\ state = "Reset" =>
                     next = IF abort.q \/ mbistOn \/ (resetCount = 2 /\ ~coldSave) THEN "Idle"
                            ELSE IF resetCount = 1 THEN "AllInv" ELSE "Reset"
<1>1. state \in States /\ esrOp \in Ops
  BY Facts
<1>2. CASE state = "Reset"
  BY <1>1, <1>2 DEF stateNext, load, powerUp, opNext, StartState, States, Ops
<1>3. CASE state \in {"AllInv", "Active", "CbInv"}
  BY <1>1, <1>3 DEF stateNext, load, powerUp, States, Ops
<1>4. CASE state = "Idle"
  BY <1>1, <1>4 DEF stateNext, load, powerUp, opNext, StartState, States, Ops
<1>5. CASE state = "Dbg"
  BY <1>1, <1>5 DEF stateNext, load, powerUp, States, Ops
<1>6. CASE state = "Sync"
  BY <1>1, <1>6 DEF stateNext, load, powerUp, States, Ops
<1>7. QED
  BY <1>1, <1>2, <1>3, <1>4, <1>5, <1>6 DEF States

\* What D1 holds afterwards.
LEMMA D1Is ==
    ASSUME IdxIInv, NEW ready, NEW mbistOn
    PROVE  LET d == d1Next(ready, mbistOn)
           IN  /\ d \in [valid : BOOLEAN, op : Ops \cup {"Sync"}, index : Indices]
               /\ abort.q => ~d.valid
               /\ advance(ready) =>
                     /\ d.op = IF state = "Sync" THEN "Sync" ELSE op
                     /\ d.index = d0
                     /\ d.valid <=> ~abort.q /\ d0Valid /\ (~goesIdle(ready, mbistOn) \/ state = "Dbg")
               /\ ~advance(ready) =>
                     /\ d.op = d1.op /\ d.index = d1.index
                     /\ d.valid <=> ~abort.q /\ d1.valid /\ ~ready
<1>1. /\ d1 \in [valid : BOOLEAN, op : Ops \cup {"Sync"}, index : Indices]
      /\ d0 \in Indices /\ op \in Ops
  BY Facts
<1>2. CASE advance(ready)
  BY <1>1, <1>2 DEF d1Next
<1>3. CASE ~advance(ready)
  BY <1>1, <1>3 DEF d1Next
<1>4. QED
  BY <1>2, <1>3

\* Where a walk starts and ends.
LEMMA SpanIs ==
    ASSUME IdxIInv, opNext \in Ops
    PROVE  /\ span.base \in 0 .. SetModulus - 1 /\ span.size \in Nat
           /\ opNext \in Walks => /\ span.base = First(opNext)
                                  /\ (span.base + span.size) % SetModulus = Limit(opNext)
           /\ opNext = "CBInv" => /\ span.base = 0
                                  /\ (span.base + span.size) % SetModulus = CbInvCount
<1>1. DOMAIN Size = Levels
  BY Facts
<1>2. CASE opNext \in Levels
  <2>1. opNext \in DOMAIN Size /\ opNext # "AllInv" /\ opNext # "Dbg" /\ opNext # "CBInv" /\ opNext \in Walks
    BY <1>1, <1>2 DEF Levels, Walks
  <2>2. span.base = Base[opNext] /\ span.size = Size[opNext]
    BY <2>1 DEF span
  <2>3. /\ Base[opNext] \in Nat /\ Size[opNext] \in Nat
        /\ First(opNext) = Base[opNext] /\ Limit(opNext) = Base[opNext] + Size[opNext]
    BY <1>2, <2>1, IdxCopSmAssumption DEF First, Limit
  <2>4. Limit(opNext) \in 0 .. SetModulus - 1 /\ First(opNext) \in 0 .. SetModulus - 1
    BY <2>1, Spans, Numbers
  <2>5. Limit(opNext) % SetModulus = Limit(opNext)
    BY <2>4, Wraps, Numbers
  <2>6. QED
    BY <2>1, <2>2, <2>3, <2>4, <2>5
<1>3. CASE opNext = "AllInv"
  <2>1. opNext \notin DOMAIN Size
    BY <1>1, <1>3 DEF Levels
  <2>2. span.base = 0 /\ span.size = Sets
    BY <1>3, <2>1 DEF span
  <2>3. First(opNext) = 0 /\ Limit(opNext) = Sets
    BY <1>3 DEF First, Limit
  <2>4. Sets \in 0 .. SetModulus - 1 /\ 0 \in 0 .. SetModulus - 1 /\ 0 + Sets = Sets
    BY Numbers
  <2>5. Sets % SetModulus = Sets
    BY <2>4, Wraps, Numbers
  <2>6. QED
    BY <1>3, <2>2, <2>3, <2>4, <2>5, Numbers
<1>4. CASE opNext = "CBInv"
  <2>1. opNext \notin DOMAIN Size /\ opNext \notin Walks
    BY <1>1, <1>4 DEF Levels, Walks
  <2>2. span.base = 0 /\ span.size = CbInvCount
    BY <1>4, <2>1 DEF span
  <2>4. CbInvCount \in 0 .. SetModulus - 1 /\ 0 \in 0 .. SetModulus - 1 /\ 0 + CbInvCount = CbInvCount
    BY Numbers
  <2>5. CbInvCount % SetModulus = CbInvCount
    BY <2>4, Wraps, Numbers
  <2>6. QED
    BY <1>4, <2>1, <2>2, <2>4, <2>5, Numbers
<1>5. CASE opNext = "Dbg"
  <2>1. opNext \notin DOMAIN Size /\ opNext \notin Walks
    BY <1>1, <1>5 DEF Levels, Walks
  <2>2. span.base = 0 /\ span.size = 1
    BY <1>5, <2>1 DEF span
  <2>3. QED
    BY <1>5, <2>1, <2>2, Numbers
<1>6. QED
  BY <1>2, <1>3, <1>4, <1>5 DEF Ops, Levels

\* An edge keeps the types and the pulses.
LEMMA TypesKeep ==
    ASSUME IdxIInv, NEW wr \in Writes, NEW ready, NEW mbistOn, Edge(wr, ready, mbistOn)
    PROVE  TypeOK' /\ Pulses'
<1> USE DEF Edge
<1>1. state' \in States
  BY WhereTo DEF Tick
<1>2. resetCount' \in 0 .. ResetCount
  BY Facts, Numbers DEF Tick
<1>3. coldSave' \in BOOLEAN /\ uncleaned' \in BOOLEAN
  BY DEF Tick, coldSaveNext
<1>4. l2Busy' \in BOOLEAN /\ l3Busy' \in BOOLEAN
  <2>1. CASE load
    <3>1. /\ l2Busy' = (opNext \in {"AllInv", "L2", "Scp"})
          /\ l3Busy' = (opNext \in {"AllInv", "L3", "Scp"})
      BY <2>1 DEF Tick, busyNext
    <3>2. QED
      BY <3>1
  <2>2. CASE ~load
    <3>1. l2Busy' \in {FALSE, l2Busy} /\ l3Busy' \in {FALSE, l3Busy}
      BY <2>2 DEF Tick, busyNext
    <3>2. QED
      BY <3>1, Facts
  <2>3. QED
    BY <2>1, <2>2
<1>5. opNext \in Ops
  BY Facts DEF opNext, Ops
<1>6. esrOp' \in Ops /\ op' \in Ops
  BY <1>5, Facts DEF Tick, Writes
<1>7. d0' \in Indices
  <2>1. <<span.base, 0, 0>> \in Indices
    BY <1>5, SpanIs, Numbers DEF Indices
  <2>2. stepIndex \in Indices
    <3>1. PICK p \in 0 .. SetModulus - 1, q \in 0 .. Ways - 1, r \in 0 .. SubBanks - 1 : d0 = <<p, q, r>>
      BY Facts DEF Indices
    <3>2. \A n \in Nat \ {0} : \A k \in Nat : k % n \in 0 .. n - 1
      OBVIOUS
    <3> DEFINE inc == IF \/ state = "CbInv"
                         \/ (lastWay \/ state = "AllInv") /\ lastSbb THEN 1 ELSE 0
    <3>3. inc \in {0, 1}
      OBVIOUS
    <3>4. stepIndex = << (p + inc) % SetModulus,
                         IF state \notin {"AllInv", "CbInv"} /\ lastSbb THEN (q + 1) % Ways ELSE q,
                         IF state # "CbInv" THEN (r + 1) % SubBanks ELSE r >>
      BY <3>1 DEF stepIndex
    <3> HIDE DEF inc
    <3>5. p + inc \in Nat /\ q + 1 \in Nat /\ r + 1 \in Nat
      BY <3>3
    <3>6. /\ (p + inc) % SetModulus \in 0 .. SetModulus - 1
          /\ (q + 1) % Ways \in 0 .. Ways - 1
          /\ (r + 1) % SubBanks \in 0 .. SubBanks - 1
      BY <3>2, <3>5, Numbers
    <3>7. QED
      BY <3>4, <3>6 DEF Indices
  <2>3. QED
    BY <2>1, <2>2, Facts DEF Tick
<1>8. compare' \in 0 .. SetModulus - 1
  <2>1. \A n \in Nat \ {0} : \A k \in Nat : k % n \in 0 .. n - 1
    OBVIOUS
  <2>2. span.base + span.size \in Nat
    BY <1>5, SpanIs
  <2>3. (span.base + span.size) % SetModulus \in 0 .. SetModulus - 1
    BY <2>1, <2>2, Numbers
  <2>4. QED
    BY <2>3, Facts DEF Tick
<1>9. d1' \in [valid : BOOLEAN, op : Ops \cup {"Sync"}, index : Indices]
  BY D1Is DEF Tick
<1>10. taken' \subseteq Indices
  BY Facts DEF Tick
<1>11. TypeOK'
  BY <1>1, <1>2, <1>3, <1>4, <1>6, <1>7, <1>8, <1>9, <1>10 DEF TypeOK
<1>12. /\ start' \in [pre1 : BOOLEAN, q : BOOLEAN]
       /\ abort' \in [pre1 : BOOLEAN, q : BOOLEAN, d1 : BOOLEAN]
       /\ cbuf' \subseteq 0 .. CbufSize - 1
  BY DEF Tick, Buffer, IdxIInv, Pulses
<1>13. start'.pre1 \/ start'.q => (esrOp' \in Levels => Size[esrOp'] > 0)
  <2>1. start' = [pre1 |-> wr.go /\ (wr.op \in DOMAIN Size => Size[wr.op] > 0), q |-> start.pre1]
    BY DEF Tick
  <2>2. CASE wr = NoWrite
    <3>1. ~wr.go /\ esrOp' = esrOp
      BY <2>2 DEF NoWrite, Tick
    <3>2. QED
      BY <2>1, <3>1 DEF IdxIInv, Pulses
  <2>3. CASE wr # NoWrite
    <3>1. ~start.pre1 /\ esrOp' = wr.op
      BY <2>3 DEF NoPulse, Tick
    <3>2. QED
      BY <2>1, <3>1, Facts
  <2>4. QED
    BY <2>2, <2>3
<1>14. QED
  BY <1>11, <1>12, <1>13 DEF Pulses
\* An edge keeps state, operation and request in agreement.
LEMMA MatchesKeep ==
    ASSUME IdxIInv, NEW wr \in Writes, NEW ready, NEW mbistOn, Edge(wr, ready, mbistOn)
    PROVE  OpMatches' /\ RequestMatches'
<1>1. /\ state' = stateNext(ready, mbistOn)
      /\ d1' = d1Next(ready, mbistOn)
      /\ op' = IF load THEN opNext ELSE op
  BY DEF Edge, Tick
<1>2. OpMatches /\ RequestMatches
  BY DEF IdxIInv
<1>3. OpMatches'
  <2>1. CASE load
    <3>1. /\ state' = StartState(opNext) \/ state' = "Idle"
          /\ opNext \in Ops /\ op' = opNext
      BY <1>1, <2>1, WhereTo
    <3>2. QED
      BY <3>1 DEF StartState, OpMatches, Ops, Levels
  <2>2. CASE ~load
    <3>1. /\ op' = op
          /\ \/ state' = state
             \/ state' = "Idle"
             \/ state \in {"AllInv", "Active", "CbInv"} /\ state' = "Sync"
      BY <1>1, <2>2, WhereTo
    <3>2. QED
      BY <1>2, <3>1 DEF OpMatches, Levels
  <2>3. QED
    BY <2>1, <2>2
<1>4. ASSUME d1'.valid
      PROVE  /\ state' # "Reset"
             /\ \/ d1'.op = "Dbg"
                \/ d1'.op = op' /\ state' \in {"AllInv", "Active", "CbInv", "Sync"}
                \/ d1'.op = "Sync" /\ state' = "Sync"
  <2>1. ~abort.q
    BY <1>1, <1>4, D1Is
  <2>2. CASE advance(ready)
    <3>1. /\ state \in {"AllInv", "Active", "CbInv", "Dbg", "Sync"} /\ ~load /\ op' = op
      BY <1>1, <2>2, WhereTo DEF advance
    <3>2. /\ d1'.op = IF state = "Sync" THEN "Sync" ELSE op
          /\ ~goesIdle(ready, mbistOn) \/ state = "Dbg"
      BY <1>1, <1>4, <2>2, D1Is
    <3>3. state' = "Idle" => state = "Dbg"
      BY <1>1, <3>1, <3>2 DEF goesIdle
    <3>4. \/ state' = state
          \/ state' = "Idle"
          \/ state \in {"AllInv", "Active", "CbInv"} /\ state' = "Sync"
      BY <1>1, <3>1, WhereTo
    <3>5. QED
      BY <1>2, <3>1, <3>2, <3>3, <3>4 DEF OpMatches
  <2>3. CASE ~advance(ready)
    <3>1. d1'.op = d1.op /\ d1.valid /\ ~ready
      BY <1>1, <1>4, <2>3, D1Is
    <3>2. /\ state # "Reset"
          /\ \/ d1.op = "Dbg"
             \/ d1.op = op /\ state \in {"AllInv", "Active", "CbInv", "Sync"}
             \/ d1.op = "Sync" /\ state = "Sync"
      BY <1>2, <3>1 DEF RequestMatches
    <3>3. state' # "Reset"
      <4>1. CASE load
        BY <1>1, <3>2, <4>1, WhereTo DEF StartState, Ops
      <4>2. CASE ~load
        BY <1>1, <3>2, <4>2, WhereTo
      <4>3. QED
        BY <4>1, <4>2
    <3>4. state \in {"AllInv", "Active", "CbInv", "Sync"} =>
             /\ op' = op /\ state' \in {"AllInv", "Active", "CbInv", "Sync"}
             /\ state = "Sync" => state' = "Sync"
      BY <1>1, <2>1, <3>1, WhereTo DEF syncTaken
    <3>5. QED
      BY <3>1, <3>2, <3>3, <3>4
  <2>4. QED
    BY <2>2, <2>3
<1>5. QED
  BY <1>3, <1>4 DEF RequestMatches

\* What is taken and what is on offer after an edge.
LEMMA OfferedIs ==
    ASSUME IdxIInv, NEW wr \in Writes, NEW ready, NEW mbistOn, Edge(wr, ready, mbistOn)
    PROVE  /\ load => taken' = {} /\ pending' = {}
           /\ abort.q => pending' = {}
           /\ state \in {"Reset", "Idle", "Dbg"} => pending' = {}
           /\ state \in {"AllInv", "Active", "CbInv", "Sync"} /\ ~abort.q =>
                 IF advance(ready)
                 THEN /\ taken' = offered
                      /\ state = "Sync" => pending' = {}
                      /\ state # "Sync" =>
                            pending' = IF d0Valid /\ state' # "Idle" THEN {d0} ELSE {}
                 ELSE taken' = taken /\ pending' = pending
<1>1. /\ state' = stateNext(ready, mbistOn)
      /\ d1' = d1Next(ready, mbistOn)
      /\ taken' = IF load THEN {}
                  ELSE IF d1.valid /\ ready /\ d1.op \notin {"Sync", "Dbg"} THEN taken \cup {d1.index}
                  ELSE taken
  BY DEF Edge, Tick
<1>2. OpMatches /\ RequestMatches /\ op \in Ops
  BY Facts DEF IdxIInv
<1>3. abort.q => pending' = {}
  BY <1>1, D1Is DEF pending
<1>4. state \in {"Reset", "Idle", "Dbg"} => pending' = {}
  <2>1. ASSUME state \in {"Reset", "Idle", "Dbg"}, d1'.valid
        PROVE  d1'.op = "Dbg"
    <3>1. CASE advance(ready)
      BY <1>1, <1>2, <2>1, <3>1, D1Is DEF advance, OpMatches
    <3>2. CASE ~advance(ready)
      BY <1>1, <1>2, <2>1, <3>2, D1Is DEF RequestMatches
    <3>3. QED
      BY <3>1, <3>2
  <2>2. QED
    BY <2>1 DEF pending
<1>5. load => state \in {"Reset", "Idle"}
  BY WhereTo
<1>6. ASSUME state \in {"AllInv", "Active", "CbInv", "Sync"}, ~abort.q
      PROVE  IF advance(ready)
             THEN /\ taken' = offered
                  /\ state = "Sync" => pending' = {}
                  /\ state # "Sync" =>
                        pending' = IF d0Valid /\ state' # "Idle" THEN {d0} ELSE {}
             ELSE taken' = taken /\ pending' = pending
  <2>1. ~load
    BY <1>5, <1>6
  <2>2. CASE advance(ready)
    <3>1. ~d1.valid \/ ready
      BY <2>2 DEF advance
    <3>2. taken' = offered
      BY <1>1, <2>1, <3>1 DEF offered, pending
    <3>3. /\ d1'.op = IF state = "Sync" THEN "Sync" ELSE op
          /\ d1'.index = d0
          /\ d1'.valid <=> d0Valid /\ ~goesIdle(ready, mbistOn)
      BY <1>1, <1>6, <2>2, D1Is
    <3>4. goesIdle(ready, mbistOn) <=> state' = "Idle"
      BY <1>1, <1>6 DEF goesIdle
    <3>5. state # "Sync" => op \notin {"Sync", "Dbg"}
      BY <1>2, <1>6 DEF OpMatches, Levels
    <3>6. QED
      BY <1>6, <2>2, <3>2, <3>3, <3>4, <3>5 DEF pending
  <2>3. CASE ~advance(ready)
    <3>1. d1.valid /\ ~ready
      BY <1>6, <2>3 DEF advance
    <3>2. taken' = taken
      BY <1>1, <2>1, <3>1
    <3>3. d1'.op = d1.op /\ d1'.index = d1.index /\ d1'.valid
      BY <1>1, <1>6, <2>3, <3>1, D1Is
    <3>4. QED
      BY <2>3, <3>1, <3>2, <3>3 DEF pending
  <2>4. QED
    BY <2>2, <2>3
<1>7. QED
  BY <1>1, <1>3, <1>4, <1>5, <1>6
\* An edge of a walk over sets keeps to the order of the indices.
LEMMA LevelsKeep ==
    ASSUME IdxIInv, NEW wr \in Writes, NEW ready, NEW mbistOn, Edge(wr, ready, mbistOn)
    PROVE  LevelsWalked'
<1>1. /\ state' = stateNext(ready, mbistOn)
      /\ d0' = IF load THEN <<span.base, 0, 0>> ELSE IF advance(ready) THEN stepIndex ELSE d0
      /\ compare' = IF load THEN (span.base + span.size) % SetModulus ELSE compare
      /\ op' = IF load THEN opNext ELSE op
      /\ owed' = IF load THEN IF opNext = "CBInv" THEN cbuf' \X {0} \X {0} ELSE region(opNext)
                 ELSE IF op = "CBInv" THEN owed \cap (cbuf' \X {0} \X {0}) ELSE owed
  BY DEF Edge, Tick, Buffer
<1>2. OpMatches /\ LevelsWalked /\ Pulses
  BY DEF IdxIInv
<1>3. SUFFICES ASSUME state' \in {"AllInv", "Active"}
               PROVE  /\ d0' \in region(op') /\ compare' = Limit(op')
                      /\ owed' = region(op')
                      /\ offered' = Before(op', d0')
  BY DEF LevelsWalked, Before
<1>4. CASE load
  <2>1. /\ opNext \in Ops /\ op' = opNext
        /\ state' = StartState(opNext)
        /\ state = "Reset" => opNext = "AllInv"
    BY <1>1, <1>3, <1>4, WhereTo
  <2>2. opNext \in Walks /\ opNext # "CBInv"
    BY <1>3, <2>1 DEF StartState, Ops, Walks, Levels
  <2>3. First(opNext) < Limit(opNext)
    <3>1. CASE opNext = "AllInv"
      BY <3>1, Numbers DEF First, Limit
    <3>2. CASE opNext # "AllInv"
      <4>1. opNext = esrOp /\ start.q
        BY <1>4, <2>1, <3>2 DEF opNext, load, powerUp
      <4>2. opNext \in Levels /\ Size[opNext] > 0
        BY <1>2, <2>2, <3>2, <4>1 DEF Pulses, Walks
      <4>3. Base[opNext] \in Nat /\ Size[opNext] \in Nat
        BY <4>2, IdxCopSmAssumption
      <4>4. QED
        BY <3>2, <4>2, <4>3 DEF First, Limit
    <3>3. QED
      BY <3>1, <3>2
  <2>4. /\ d0' = <<First(opNext), 0, 0>> /\ compare' = Limit(opNext)
        /\ owed' = region(opNext)
    BY <1>1, <1>4, <2>1, <2>2, SpanIs
  <2>5. offered' = {}
    BY <1>4, OfferedIs DEF offered
  <2>6. QED
    BY <2>1, <2>2, <2>3, <2>4, <2>5, BeforeGrows
<1>5. CASE ~load
  <2>1. /\ state' = state /\ ~abort.q /\ ~lastTaken(ready)
        /\ op' = op /\ compare' = compare
    BY <1>1, <1>3, <1>5, WhereTo
  <2>2. /\ state \in {"AllInv", "Active"} /\ op # "CBInv"
        /\ d0 \in region(op) /\ compare = Limit(op) /\ owed = region(op)
        /\ offered = Before(op, d0)
    BY <1>2, <1>3, <2>1 DEF LevelsWalked, OpMatches, Levels
  <2>3. owed' = region(op)
    BY <1>1, <1>5, <2>2
  <2>4. op \in Walks /\ stepIndex = Onto(op, d0)
    BY <1>2, <2>2, StepIs
  <2>5. CASE advance(ready)
    <3>1. d0' = Onto(op, d0) /\ Onto(op, d0)[1] # Limit(op)
      BY <1>1, <1>5, <2>1, <2>2, <2>4, <2>5 DEF lastTaken
    <3>2. taken' = offered /\ pending' = {d0}
      <4>1. d0Valid /\ state' # "Idle" /\ state # "Sync"
        BY <2>1, <2>2 DEF d0Valid
      <4>2. QED
        BY <2>1, <2>2, <2>5, <4>1, OfferedIs
    <3>3. QED
      BY <2>1, <2>2, <2>3, <2>4, <3>1, <3>2, BeforeGrows DEF offered
  <2>6. CASE ~advance(ready)
    <3>1. d0' = d0
      BY <1>1, <1>5, <2>6
    <3>2. taken' = taken /\ pending' = pending
      BY <2>1, <2>2, <2>6, OfferedIs
    <3>3. QED
      BY <2>1, <2>2, <2>3, <3>1, <3>2 DEF offered
  <2>7. QED
    BY <2>5, <2>6
<1>6. QED
  BY <1>4, <1>5

\* An index of the coalescing buffer is one of its entries.
LEMMA Entries ==
    ASSUME NEW S, NEW x \in S \X {0} \X {0}
    PROVE  x[1] \in S /\ x = <<x[1], 0, 0>>
OBVIOUS

\* D0 in the walk over the coalescing buffer.
LEMMA BufferStepIs ==
    ASSUME state = "CbInv", NEW k \in 0 .. CbInvCount - 1, d0 = <<k, 0, 0>>
    PROVE  stepIndex = <<k + 1, 0, 0>> /\ (d0Valid <=> k < CbufSize /\ k \in cbuf)
<1>1. k + 1 \in 0 .. SetModulus - 1
  BY Numbers
<1>2. (k + 1) % SetModulus = k + 1
  BY <1>1, Wraps, Numbers
<1>3. QED
  BY <1>2 DEF stepIndex, d0Valid

\* An edge of a walk over the coalescing buffer misses no entry that stays.
LEMMA BufferKeeps ==
    ASSUME IdxIInv, NEW wr \in Writes, NEW ready, NEW mbistOn, Edge(wr, ready, mbistOn)
    PROVE  BufferWalked'
<1>1. /\ state' = stateNext(ready, mbistOn)
      /\ d0' = IF load THEN <<span.base, 0, 0>> ELSE IF advance(ready) THEN stepIndex ELSE d0
      /\ compare' = IF load THEN (span.base + span.size) % SetModulus ELSE compare
      /\ op' = IF load THEN opNext ELSE op
      /\ owed' = IF load THEN IF opNext = "CBInv" THEN cbuf' \X {0} \X {0} ELSE region(opNext)
                 ELSE IF op = "CBInv" THEN owed \cap (cbuf' \X {0} \X {0}) ELSE owed
      /\ cbuf' \subseteq 0 .. CbufSize - 1
  BY DEF Edge, Tick, Buffer
<1>2. OpMatches /\ BufferWalked /\ Pulses
  BY DEF IdxIInv
<1>3. SUFFICES ASSUME state' = "CbInv"
               PROVE  /\ d0' \in (0 .. CbInvCount - 1) \X {0} \X {0} /\ compare' = CbInvCount
                      /\ owed' \subseteq cbuf' \X {0} \X {0}
                      /\ \A x \in owed' : x[1] < d0'[1] => x \in offered'
                      /\ \A x \in offered' : x[1] < d0'[1]
  BY DEF BufferWalked
<1>4. CASE load
  <2>1. opNext = "CBInv" /\ opNext \in Ops
    BY <1>1, <1>3, <1>4, WhereTo DEF StartState, Ops
  <2>2. /\ d0' = <<0, 0, 0>> /\ compare' = CbInvCount
        /\ owed' = cbuf' \X {0} \X {0}
    BY <1>1, <1>4, <2>1, SpanIs
  <2>3. offered' = {}
    BY <1>4, OfferedIs DEF offered
  <2>4. \A x \in owed' : x[1] \in 0 .. CbufSize - 1
    BY <1>1, <2>2
  <2>5. \A x \in owed' : ~(x[1] < d0'[1])
    BY <2>2, <2>4
  <2>6. 0 \in 0 .. CbInvCount - 1
    BY Numbers
  <2>7. QED
    BY <2>2, <2>3, <2>5, <2>6
<1>5. CASE ~load
  <2>1. /\ state = "CbInv" /\ ~abort.q /\ ~lastTaken(ready)
        /\ op = "CBInv" /\ compare' = compare
    BY <1>1, <1>2, <1>3, <1>5, WhereTo DEF OpMatches
  <2>2. /\ d0 \in (0 .. CbInvCount - 1) \X {0} \X {0} /\ compare = CbInvCount
        /\ owed \subseteq cbuf \X {0} \X {0}
        /\ \A x \in owed : x[1] < d0[1] => x \in offered
        /\ \A x \in offered : x[1] < d0[1]
    BY <1>2, <2>1 DEF BufferWalked
  <2>3. owed' \subseteq owed /\ owed' \subseteq cbuf' \X {0} \X {0}
    BY <1>1, <1>5, <2>1
  <2>4. CASE advance(ready)
    <3>1. PICK k \in 0 .. CbInvCount - 1 : d0 = <<k, 0, 0>>
      BY <2>2
    <3>2. stepIndex = <<k + 1, 0, 0>> /\ (d0Valid <=> k < CbufSize /\ k \in cbuf)
      BY <2>1, <3>1, BufferStepIs
    <3>3. d0' = <<k + 1, 0, 0>> /\ k + 1 # CbInvCount
      BY <1>1, <1>5, <2>1, <2>2, <2>4, <3>2 DEF lastTaken
    <3>4. taken' = offered /\ pending' = IF d0Valid THEN {d0} ELSE {}
      BY <1>3, <2>1, <2>4, OfferedIs
    <3>5. \A x \in offered : x[1] < k
      BY <2>2, <3>1
    <3>6. \A x \in offered' : x[1] < k \/ x[1] = k
      BY <3>1, <3>4, <3>5 DEF offered
    <3>7. \A x \in offered' : x[1] < k + 1
      <4>1. \A x \in offered : x \in Indices
        BY Facts DEF offered, pending
      <4>2. \A x \in offered' : x \in Indices
        BY <3>4, <4>1, Facts DEF offered
      <4>3. \A x \in offered' : x[1] \in Nat
        BY <4>2 DEF Indices
      <4>4. QED
        BY <3>6, <4>3
    <3>8. ASSUME NEW x \in owed', x[1] < k + 1
          PROVE  x \in offered'
      <4>1. PICK e \in cbuf : x = <<e, 0, 0>> /\ e \in 0 .. CbufSize - 1 /\ x \in owed
        <5>1. x \in owed /\ x \in cbuf \X {0} \X {0}
          BY <2>2, <2>3
        <5>2. cbuf \subseteq 0 .. CbufSize - 1
          BY <1>2 DEF Pulses
        <5>3. x[1] \in cbuf /\ x = <<x[1], 0, 0>>
          BY <5>1, Entries
        <5>4. QED
          BY <5>1, <5>2, <5>3
      <4>2. CASE e < k
        BY <2>2, <3>1, <3>4, <4>1, <4>2 DEF offered
      <4>3. CASE e = k
        <5>1. k < CbufSize /\ k \in cbuf
          BY <4>1, <4>3, Numbers
        <5>2. QED
          BY <3>1, <3>2, <3>4, <4>1, <4>3, <5>1 DEF offered
      <4>4. QED
        BY <3>8, <4>1, <4>2, <4>3
    <3>9. k + 1 \in 0 .. CbInvCount - 1
      BY <3>3, Numbers
    <3>10. QED
      BY <2>1, <2>2, <2>3, <3>3, <3>7, <3>8, <3>9
  <2>5. CASE ~advance(ready)
    <3>1. d0' = d0
      BY <1>1, <1>5, <2>5
    <3>2. taken' = taken /\ pending' = pending
      BY <2>1, <2>5, OfferedIs
    <3>3. offered' = offered
      BY <3>2 DEF offered
    <3>4. QED
      BY <2>1, <2>2, <2>3, <3>1, <3>3
  <2>6. QED
    BY <2>4, <2>5
<1>6. QED
  BY <1>4, <1>5

\* The last index of a walk completes what is owed.
LEMMA SyncKeeps ==
    ASSUME IdxIInv, NEW wr \in Writes, NEW ready, NEW mbistOn, Edge(wr, ready, mbistOn)
    PROVE  AllOffered'
<1>1. /\ state' = stateNext(ready, mbistOn)
      /\ op' = IF load THEN opNext ELSE op
      /\ owed' = IF load THEN IF opNext = "CBInv" THEN cbuf' \X {0} \X {0} ELSE region(opNext)
                 ELSE IF op = "CBInv" THEN owed \cap (cbuf' \X {0} \X {0}) ELSE owed
  BY DEF Edge, Tick, Buffer
<1>2. OpMatches /\ LevelsWalked /\ BufferWalked /\ AllOffered /\ Pulses
  BY DEF IdxIInv
<1>3. SUFFICES ASSUME state' = "Sync"
               PROVE  /\ owed' \subseteq offered'
                      /\ op' # "CBInv" => offered' = owed' /\ owed' = region(op')
  BY DEF AllOffered
<1>4. /\ ~load /\ ~abort.q /\ op' = op
      /\ \/ state = "Sync"
         \/ state \in {"AllInv", "Active", "CbInv"} /\ lastTaken(ready)
  BY <1>1, <1>3, WhereTo DEF StartState, Ops
<1>5. owed' = IF op = "CBInv" THEN owed \cap (cbuf' \X {0} \X {0}) ELSE owed
  BY <1>1, <1>4
<1>6. CASE state = "Sync"
  <2>1. offered' = offered
    BY <1>4, <1>6, OfferedIs DEF offered
  <2>2. QED
    BY <1>2, <1>4, <1>5, <1>6, <2>1 DEF AllOffered
<1>7. CASE state \in {"AllInv", "Active"} /\ lastTaken(ready)
  <2>1. /\ op # "CBInv" /\ d0 \in region(op) /\ compare = Limit(op) /\ owed = region(op)
        /\ offered = Before(op, d0)
    BY <1>2, <1>7 DEF LevelsWalked, OpMatches, Levels
  <2>2. op \in Walks /\ stepIndex = Onto(op, d0)
    BY <1>2, <1>7, <2>1, StepIs
  <2>3. advance(ready) /\ Onto(op, d0)[1] = Limit(op)
    BY <1>7, <2>1, <2>2 DEF lastTaken
  <2>4. d0Valid
    BY <1>7 DEF d0Valid
  <2>5. offered' = offered \cup {d0}
    BY <1>3, <1>4, <1>7, <2>3, <2>4, OfferedIs DEF offered
  <2>6. offered' = region(op)
    BY <2>1, <2>2, <2>3, <2>5, BeforeGrows
  <2>7. QED
    BY <1>4, <1>5, <2>1, <2>6
<1>8. CASE state = "CbInv" /\ lastTaken(ready)
  <2>1. op = "CBInv" /\ owed' \subseteq owed
    BY <1>2, <1>5, <1>8 DEF OpMatches
  <2>2. /\ d0 \in (0 .. CbInvCount - 1) \X {0} \X {0} /\ compare = CbInvCount
        /\ owed \subseteq cbuf \X {0} \X {0}
        /\ \A x \in owed : x[1] < d0[1] => x \in offered
    BY <1>2, <1>8 DEF BufferWalked
  <2>3. PICK k \in 0 .. CbInvCount - 1 : d0 = <<k, 0, 0>>
    BY <2>2
  <2>4. stepIndex = <<k + 1, 0, 0>> /\ (d0Valid <=> k < CbufSize /\ k \in cbuf)
    BY <1>8, <2>3, BufferStepIs
  <2>5. advance(ready) /\ k + 1 = CbInvCount
    BY <1>8, <2>2, <2>4 DEF lastTaken
  <2>6. taken' = offered /\ pending' = IF d0Valid THEN {d0} ELSE {}
    BY <1>3, <1>4, <1>8, <2>5, OfferedIs
  <2>7. ASSUME NEW x \in owed'
        PROVE  x \in offered'
    <3>1. PICK e \in cbuf : x = <<e, 0, 0>> /\ e \in 0 .. CbufSize - 1 /\ x \in owed
      <4>1. x \in owed /\ x \in cbuf \X {0} \X {0}
        BY <2>1, <2>2
      <4>2. cbuf \subseteq 0 .. CbufSize - 1
        BY <1>2 DEF Pulses
      <4>3. x[1] \in cbuf /\ x = <<x[1], 0, 0>>
        BY <4>1, Entries
      <4>4. QED
        BY <4>1, <4>2, <4>3
    <3>2. e < k \/ e = k
      BY <2>5, <3>1, Numbers
    <3>3. CASE e < k
      BY <2>2, <2>3, <2>6, <3>1, <3>3 DEF offered
    <3>4. CASE e = k
      <4>1. k < CbufSize /\ k \in cbuf
        BY <3>1, <3>4, Numbers
      <4>2. QED
        BY <2>3, <2>4, <2>6, <3>1, <3>4, <4>1 DEF offered
    <3>5. QED
      BY <3>2, <3>3, <3>4
  <2>8. QED
    BY <1>4, <2>1, <2>7
<1>9. QED
  BY <1>4, <1>6, <1>7, <1>8

\* What is offered has not been offered before.
LEMMA NewIndexOffered ==
    ASSUME IdxIInv, NEW wr \in Writes, NEW ready, NEW mbistOn, Edge(wr, ready, mbistOn)
    PROVE  taken' \cap pending' = {}
<1>1. OpMatches /\ LevelsWalked /\ BufferWalked /\ taken \cap pending = {}
  BY DEF IdxIInv
<1>2. CASE state \in {"Reset", "Idle", "Dbg"} \/ abort.q
  BY <1>2, OfferedIs
<1>3. CASE state = "Sync" /\ ~abort.q
  BY <1>1, <1>3, OfferedIs
<1>4. CASE state \in {"AllInv", "Active"} /\ ~abort.q
  <2>1. op \in Walks /\ d0 \in region(op) /\ offered = Before(op, d0)
    BY <1>1, <1>4, StepIs DEF LevelsWalked
  <2>2. d0 \notin offered
    BY <2>1, BeforeGrows
  <2>3. QED
    BY <1>1, <1>4, <2>2, OfferedIs
<1>5. CASE state = "CbInv" /\ ~abort.q
  <2>1. /\ d0 \in (0 .. CbInvCount - 1) \X {0} \X {0}
        /\ \A x \in offered : x[1] < d0[1]
    BY <1>1, <1>5 DEF BufferWalked
  <2>2. ~(d0[1] < d0[1])
    BY <2>1
  <2>3. d0 \notin offered
    BY <2>1, <2>2
  <2>4. QED
    BY <1>1, <1>5, <2>3, OfferedIs
<1>6. QED
  BY <1>2, <1>3, <1>4, <1>5, Facts DEF States
\* A level stays busy for as long as its walk has something on offer.
LEMMA BusyKeeps ==
    ASSUME IdxIInv, NEW wr \in Writes, NEW ready, NEW mbistOn, Edge(wr, ready, mbistOn)
    PROVE  BusyHeld'
<1>1. /\ state' = stateNext(ready, mbistOn)
      /\ op' = IF load THEN opNext ELSE op
      /\ l2Busy' = busyNext(l2Busy, {"AllInv", "L2", "Scp"}, ready, mbistOn)
      /\ l3Busy' = busyNext(l3Busy, {"AllInv", "L3", "Scp"}, ready, mbistOn)
  BY DEF Edge, Tick
<1>2. OpMatches /\ BusyHeld
  BY DEF IdxIInv
<1>3. CASE load
  BY <1>1, <1>3 DEF BusyHeld, busyNext
<1>4. CASE ~load
  <2>1. SUFFICES ASSUME state' \in {"AllInv", "Active", "Sync"}
                 PROVE  /\ op' \in {"AllInv", "L2", "Scp"} => l2Busy'
                        /\ op' \in {"AllInv", "L3", "Scp"} => l3Busy'
    BY DEF BusyHeld
  <2>2. /\ op' = op
        /\ state' = state \/ state \in {"AllInv", "Active", "CbInv"}
    BY <1>1, <1>4, <2>1, WhereTo
  <2>3. ~goesIdle(ready, mbistOn)
    BY <1>1, <2>1 DEF goesIdle
  <2>4. (l2Busy' <=> l2Busy) /\ (l3Busy' <=> l3Busy)
    BY <1>1, <1>4, <2>3 DEF busyNext
  <2>5. QED
    BY <1>2, <2>1, <2>2, <2>4 DEF BusyHeld, OpMatches
<1>5. QED
  BY <1>3, <1>4

\* The invalidation that a cold reset owes is not forgotten.
LEMMA OwedKeeps ==
    ASSUME IdxIInv, NEW wr \in Writes, NEW ready, NEW mbistOn, Edge(wr, ready, mbistOn)
    PROVE  InvalidationOwed'
<1>1. /\ state' = stateNext(ready, mbistOn)
      /\ resetCount' = IF resetCount > 0 THEN resetCount - 1 ELSE 0
      /\ coldSave' = coldSaveNext
      /\ op' = IF load THEN opNext ELSE op
      /\ uncleaned' = /\ uncleaned
                      /\ ~abort.q
                      /\ ~(state = "Reset" /\ mbistOn)
                      /\ ~(op = "AllInv" /\ syncTaken(ready) /\ taken = region("AllInv"))
  BY DEF Edge, Tick
<1>2. OpMatches /\ AllOffered /\ InvalidationOwed /\ resetCount \in Nat
  BY Facts, Numbers DEF IdxIInv
<1>3. state' = "Reset" => resetCount' > 0
  <2>1. SUFFICES ASSUME state' = "Reset"
                 PROVE  resetCount' > 0
    OBVIOUS
  <2>2. state = "Reset"
    BY <1>1, <2>1, WhereTo DEF StartState, Ops
  <2>3. resetCount # 1
    BY <1>1, <2>1, <2>2, WhereTo
  <2>4. resetCount > 0
    BY <1>2, <2>2 DEF InvalidationOwed
  <2>5. QED
    BY <1>1, <1>2, <2>3, <2>4
<1>4. ASSUME uncleaned'
      PROVE  \/ state' = "Reset" /\ (resetCount' > 1 => coldSave')
             \/ state' \in {"AllInv", "Sync"} /\ op' = "AllInv"
  <2>1. /\ uncleaned /\ ~abort.q /\ ~(state = "Reset" /\ mbistOn)
        /\ ~(op = "AllInv" /\ syncTaken(ready) /\ taken = region("AllInv"))
    BY <1>1, <1>4
  <2>2. \/ state = "Reset" /\ (resetCount > 1 => coldSave)
        \/ state \in {"AllInv", "Sync"} /\ op = "AllInv"
    BY <1>2, <2>1 DEF InvalidationOwed
  <2>3. CASE state = "Reset" /\ (resetCount > 1 => coldSave)
    <3>1. state' = IF resetCount = 1 THEN "AllInv" ELSE "Reset"
      BY <1>1, <2>1, <2>3, WhereTo
    <3>2. CASE resetCount = 1
      <4>1. load /\ opNext = "AllInv"
        BY <2>1, <2>3, <3>2 DEF load, powerUp, opNext
      <4>2. QED
        BY <1>1, <3>1, <3>2, <4>1
    <3>3. CASE resetCount # 1
      <4>1. ASSUME resetCount' > 1
            PROVE  coldSave'
        <5>1. resetCount > 2
          BY <1>1, <1>2, <4>1
        <5>2. coldSave /\ resetCount # 2
          BY <1>2, <2>3, <5>1
        <5>3. QED
          BY <1>1, <2>1, <5>2 DEF coldSaveNext
      <4>2. QED
        BY <3>1, <3>3, <4>1
    <3>4. QED
      BY <3>2, <3>3
  <2>4. CASE state \in {"AllInv", "Sync"} /\ op = "AllInv"
    <3>1. ~load
      BY <2>4, WhereTo
    <3>2. ~(state = "Sync" /\ syncTaken(ready))
      <4>1. SUFFICES ASSUME state = "Sync", syncTaken(ready)
                     PROVE  taken = region("AllInv")
        BY <2>1, <2>4
      <4>2. offered = region("AllInv")
        BY <1>2, <2>4, <4>1 DEF AllOffered
      <4>3. pending = {}
        BY <4>1 DEF pending, syncTaken
      <4>4. QED
        BY <4>2, <4>3 DEF offered
    <3>3. state' \in {"AllInv", "Sync"}
      BY <1>1, <2>1, <2>4, <3>2, WhereTo
    <3>4. QED
      BY <1>1, <2>4, <3>1, <3>3
  <2>5. QED
    BY <2>2, <2>3, <2>4
<1>5. QED
  BY <1>3, <1>4 DEF InvalidationOwed

-----------------------------------------------------------------------------
(***************************************************************************)
(* The invariant holds.                                                    *)
(***************************************************************************)
LEMMA InitIdx == Init => IdxIInv
<1> SUFFICES ASSUME Init
             PROVE  IdxIInv
  OBVIOUS
<1>1. TypeOK
  <2>1. <<0, 0, 0>> \in Indices
    BY Numbers DEF Indices
  <2>2. ResetCount \in 0 .. ResetCount /\ 0 \in 0 .. SetModulus - 1
    BY Numbers
  <2>3. QED
    BY <2>1, <2>2 DEF Init, TypeOK, States, Ops
<1>2. Pulses
  BY DEF Init, Pulses, NoPulse, NoAbort
<1>3. pending = {}
  BY DEF Init, pending
<1>4. QED
  BY <1>1, <1>2, <1>3, Numbers
     DEF Init, IdxIInv, OpMatches, RequestMatches, LevelsWalked, BufferWalked, AllOffered,
         BusyHeld, InvalidationOwed

\* A reset, cold or warm, establishes the invariant again.
LEMMA ResetIdx ==
    ASSUME IdxIInv, NEW cold \in BOOLEAN, Reset(cold)
    PROVE  IdxIInv'
<1> USE DEF Reset
<1>1. TypeOK'
  <2>1. ResetCount \in 0 .. ResetCount
    BY Numbers
  <2>2. coldSave' \in BOOLEAN /\ uncleaned' \in BOOLEAN
    OBVIOUS
  <2>3. QED
    BY <2>1, <2>2, Facts DEF TypeOK, States
<1>2. Pulses'
  BY DEF IdxIInv, Pulses, NoPulse, NoAbort
<1>3. ~d1'.valid /\ state' = "Reset"
  BY Facts
<1>4. pending' = {}
  BY <1>3 DEF pending
<1>5. InvalidationOwed'
  BY <1>3, Numbers DEF InvalidationOwed
<1>6. QED
  BY <1>1, <1>2, <1>3, <1>4, <1>5
     DEF IdxIInv, OpMatches, RequestMatches, LevelsWalked, BufferWalked, AllOffered, BusyHeld

\* The invariant reads nothing but the variables.
LEMMA StutterIdx == IdxIInv /\ UNCHANGED vars => IdxIInv'
<1> SUFFICES ASSUME IdxIInv, UNCHANGED vars
             PROVE  IdxIInv'
  OBVIOUS
<1> USE DEF vars
<1>1. TypeOK' /\ Pulses' /\ OpMatches' /\ RequestMatches'
  BY DEF IdxIInv, TypeOK, Pulses, OpMatches, RequestMatches
<1>2. pending' = pending /\ offered' = offered
  BY DEF pending, offered
<1>3. LevelsWalked' /\ BufferWalked' /\ AllOffered'
  BY <1>2 DEF IdxIInv, LevelsWalked, BufferWalked, AllOffered, Before
<1>4. BusyHeld' /\ InvalidationOwed'
  BY DEF IdxIInv, BusyHeld, InvalidationOwed
<1>5. taken' \cap pending' = {}
  BY <1>2 DEF IdxIInv
<1>6. QED
  BY <1>1, <1>3, <1>4, <1>5 DEF IdxIInv

\* Where a walk is, whatever the request queue, software, MBIST and the resets
\* do.
THEOREM IdxInvariant == Spec => []IdxIInv
<1>1. Init => IdxIInv
  BY InitIdx
<1>2. IdxIInv /\ [Next]_vars => IdxIInv'
  <2> SUFFICES ASSUME IdxIInv, [Next]_vars
               PROVE  IdxIInv'
    OBVIOUS
  <2>1. ASSUME NEW wr \in Writes, NEW ready \in BOOLEAN, NEW mbistOn \in BOOLEAN,
               Edge(wr, ready, mbistOn)
        PROVE  IdxIInv'
    BY <2>1, TypesKeep, MatchesKeep, LevelsKeep, BufferKeeps, SyncKeeps, NewIndexOffered,
       BusyKeeps, OwedKeeps DEF IdxIInv
  <2>2. ASSUME NEW cold \in BOOLEAN, Reset(cold)
        PROVE  IdxIInv'
    BY <2>2, ResetIdx
  <2>3. CASE UNCHANGED vars
    BY <2>3, StutterIdx
  <2>4. QED
    BY <2>1, <2>2, <2>3 DEF Next
<1>3. QED
  BY <1>1, <1>2, PTL DEF Spec

-----------------------------------------------------------------------------
(***************************************************************************)
(* What it means for the caches.                                           *)
(***************************************************************************)

\* The registers hold what they are declared for: the counters of D0 stay
\* within the cache although they are stepped modulo their widths.
THEOREM TypeCorrect == Spec => []TypeOK
<1>1. IdxIInv => TypeOK
  BY DEF IdxIInv
<1>2. QED
  BY <1>1, IdxInvariant, PTL

\* The Sync is not offered before the whole region, or every entry of the
\* coalescing buffer that stayed valid, has been taken, for any geometry.
THEOREM AlwaysSyncClosesTheWalk == Spec => []SyncClosesTheWalk
<1>1. IdxIInv => SyncClosesTheWalk
  <2> SUFFICES ASSUME IdxIInv, d1.valid, d1.op = "Sync", ~abort.q
               PROVE  owed \subseteq taken /\ (op # "CBInv" => taken = owed)
    BY DEF SyncClosesTheWalk
  <2>1. state = "Sync"
    BY Facts DEF IdxIInv, RequestMatches, Ops
  <2>2. offered = taken
    BY DEF offered, pending
  <2>3. QED
    BY <2>1, <2>2 DEF IdxIInv, AllOffered
<1>2. QED
  BY <1>1, IdxInvariant, PTL

\* No index of a walk is offered a second time once it has been taken.
THEOREM AlwaysNoIndexTwice == Spec => []NoIndexTwice
<1>1. IdxIInv => NoIndexTwice
  BY DEF IdxIInv, NoIndexTwice, pending
<1>2. QED
  BY <1>1, IdxInvariant, PTL

\* The levels of a walk are busy until its Sync has been taken.
THEOREM AlwaysBusyCoversTheWalk == Spec => []BusyCoversTheWalk
<1>1. IdxIInv => BusyCoversTheWalk
  BY Facts DEF IdxIInv, BusyCoversTheWalk, RequestMatches, BusyHeld, OpMatches
<1>2. QED
  BY <1>1, IdxInvariant, PTL

\* A machine that is idle has done the invalidation that a cold reset owes,
\* or has been told not to.
THEOREM AlwaysColdResetInvalidates == Spec => []ColdResetInvalidates
<1>1. IdxIInv => ColdResetInvalidates
  BY DEF IdxIInv, ColdResetInvalidates, InvalidationOwed
<1>2. QED
  BY <1>1, IdxInvariant, PTL
=============================================================================
