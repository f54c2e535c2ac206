------------------------- MODULE PrimitivesProofs --------------------------
(***************************************************************************)
(* Proofs about the primitives with state, for every value of their        *)
(* parameters: prim_fifo_reg of any depth, prim_arb_lru for any number of  *)
(* clients and prim_arb_rr2 for any number of entries.                     *)
(***************************************************************************)
EXTENDS PrimFifoReg, PrimArbLru, PrimArbRr2, ArbitrationProofs

(***************************************************************************)
(* prim_fifo_reg.  The occupancy is named by its one-hot bit: FifoIInv     *)
(* says there is an i with level = {i}, and relates the pointers to it.    *)
(***************************************************************************)
Stored(i) == IF i = 0 THEN 0 ELSE i - 1

PointersAt(i) == /\ wptr \in 0 .. MemDepth - 1
                 /\ rptr \in 0 .. MemDepth - 1
                 /\ \/ wptr = rptr + Stored(i)
                    \/ wptr = rptr + Stored(i) - MemDepth

FifoIInv ==
        /\ port \in Pins
        /\ mem \in [0 .. MemDepth - 1 -> Data]
        /\ rdata \in Data
        /\ \E i \in 0 .. Depth : level = {i} /\ PointersAt(i)

(* The shifts move the one by exactly one place.                           *)
LEMMA ShiftsMoveTheOne ==
    ASSUME NEW i \in 0 .. Depth, level = {i}
    PROVE  /\ i < Depth => ShiftLeft = {i + 1}
           /\ i > 0 => ShiftRight = {i - 1}
BY DepthAssumption DEF ShiftLeft, ShiftRight

Wrap(p, m) == IF p = m - 1 THEN 0 ELSE p + 1

(* Two pointers into m words that advance with x and y stay as far apart   *)
(* as the count s + x - y says.                                            *)
LEMMA WrapKeepsDistance ==
    ASSUME NEW m \in Nat, NEW a \in 0 .. m - 1, NEW b \in 0 .. m - 1,
           NEW s \in 0 .. m, NEW x \in {0, 1}, NEW y \in {0, 1},
           s + x - y \in 0 .. m,
           a = b + s \/ a = b + s - m
    PROVE  LET a1 == IF x = 1 THEN Wrap(a, m) ELSE a
               b1 == IF y = 1 THEN Wrap(b, m) ELSE b
           IN  a1 = b1 + (s + x - y) \/ a1 = b1 + (s + x - y) - m
<1>1. CASE x = 1 /\ y = 1
  BY <1>1 DEF Wrap
<1>2. CASE x = 1 /\ y = 0
  BY <1>2 DEF Wrap
<1>3. CASE x = 0
  BY <1>3 DEF Wrap
<1> QED BY <1>1, <1>2, <1>3

\* The fifo starts empty.
LEMMA FifoInitially == FifoInit => FifoIInv
<1> SUFFICES ASSUME FifoInit PROVE FifoIInv
  OBVIOUS
<1>1. PointersAt(0)
  BY DepthAssumption DEF FifoInit, PointersAt, Stored, MemDepth
<1> QED BY <1>1, DepthAssumption DEF FifoInit, FifoIInv

\* An edge keeps the pointers as far apart as the occupancy says.
LEMMA FifoEdgeKeeps ==
    ASSUME FifoIInv, NEW push \in BOOLEAN, NEW pop \in BOOLEAN, NEW d \in Data,
           ClockN(push, d, pop),
           port' = [push |-> push, wdata |-> d, pop |-> pop]
    PROVE  FifoIInv'
<1>1. PICK i \in 0 .. Depth : level = {i} /\ PointersAt(i)
  BY DEF FifoIInv
<1> DEFINE taken == push /\ i # Depth
           given == pop /\ i # 0
           n == IF taken = given THEN i ELSE IF taken THEN i + 1 ELSE i - 1
<1>2. /\ Depth \in Nat /\ Depth >= 2
      /\ MemDepth \in Nat /\ MemDepth = Depth - 1
  BY DepthAssumption DEF MemDepth
<1>3. /\ valid <=> i # 0
      /\ memValid <=> i > 1
      /\ full <=> i = Depth
  BY <1>1, <1>2 DEF valid, memValid, full
<1>4. n \in 0 .. Depth /\ level' = {n}
  <2>1. level' = IF taken = given THEN level
                 ELSE IF taken THEN ShiftLeft ELSE ShiftRight
    BY <1>3 DEF ClockN, LevelNext
  <2> QED BY <1>1, <1>2, <2>1, ShiftsMoveTheOne
<1>5. /\ incWptr(push, pop) <=> push /\ i # Depth /\ (i > 1 \/ (i = 1 /\ ~pop))
      /\ incRptr(pop) <=> pop /\ i > 1
  BY <1>1, <1>2, <1>3 DEF incWptr, incRptr
<1>6. PointersAt(n)'
  <2> DEFINE w == incWptr(push, pop)
             r == incRptr(pop)
  <2>1. /\ wptr' = IF w THEN Bump(wptr) ELSE wptr
        /\ rptr' = IF r THEN Bump(rptr) ELSE rptr
    BY DEF ClockN
  <2>2. w <=> push /\ i # Depth /\ (i > 1 \/ (i = 1 /\ ~pop))
    BY <1>5
  <2>3. r <=> pop /\ i > 1
    BY <1>5
  <2>4. /\ wptr \in 0 .. MemDepth - 1
        /\ rptr \in 0 .. MemDepth - 1
        /\ wptr = rptr + Stored(i) \/ wptr = rptr + Stored(i) - MemDepth
    BY <1>1, <1>2 DEF PointersAt
  <2>5. /\ wptr' \in 0 .. MemDepth - 1
        /\ rptr' \in 0 .. MemDepth - 1
    BY <1>2, <2>1, <2>4 DEF Bump
  <2> HIDE DEF w, r
  <2>6. \E x, y \in {0, 1} :
           /\ w <=> x = 1
           /\ r <=> y = 1
           /\ Stored(n) = Stored(i) + x - y
    BY <1>2, <2>2, <2>3 DEF Stored
  <2>7. Stored(i) \in 0 .. MemDepth /\ Stored(n) \in 0 .. MemDepth
    BY <1>2, <1>4 DEF Stored
  <2>8. wptr' = rptr' + Stored(n) \/ wptr' = rptr' + Stored(n) - MemDepth
    <3> HIDE DEF n
    <3>1. PICK x \in {0, 1}, y \in {0, 1} :
             /\ w <=> x = 1
             /\ r <=> y = 1
             /\ Stored(n) = Stored(i) + x - y
      BY <2>6
    <3>2. /\ wptr' = IF x = 1 THEN Wrap(wptr, MemDepth) ELSE wptr
          /\ rptr' = IF y = 1 THEN Wrap(rptr, MemDepth) ELSE rptr
      BY <2>1, <3>1 DEF Bump, Wrap
    <3> QED BY <1>2, <2>4, <2>7, <3>1, <3>2, WrapKeepsDistance
  <2> QED BY <1>2, <2>5, <2>8 DEF PointersAt, MemDepth
<1>7. mem' \in [0 .. MemDepth - 1 -> Data]
  BY DEF ClockN, FifoIInv
<1>8. rdata' \in Data
  <2>1. incRptr(pop) => mem[rptr] \in Data
    BY <1>1, <1>2, <1>5 DEF FifoIInv, PointersAt
  <2> QED BY <2>1 DEF ClockN, FifoIInv
<1>9. port' \in Pins
  BY DEF Pins
<1> QED BY <1>4, <1>6, <1>7, <1>8, <1>9, <1>2 DEF FifoIInv

\* A reset empties the fifo.
LEMMA FifoResetKeeps == FifoIInv /\ FifoReset => FifoIInv'
<1> SUFFICES ASSUME FifoIInv, FifoReset PROVE FifoIInv'
  OBVIOUS
<1>1. PointersAt(0)'
  BY DepthAssumption DEF FifoReset, PointersAt, Stored, MemDepth
<1> QED BY <1>1, DepthAssumption DEF FifoReset, FifoIInv

\* Every step keeps the invariant of the fifo.
LEMMA FifoSteps == FifoIInv /\ [FifoNext]_fifo_vars => FifoIInv'
<1> SUFFICES ASSUME FifoIInv, [FifoNext]_fifo_vars PROVE FifoIInv'
  OBVIOUS
<1>1. ASSUME NEW push \in BOOLEAN, NEW pop \in BOOLEAN, NEW d \in Data,
             ClockN(push, d, pop),
             port' = [push |-> push, wdata |-> d, pop |-> pop]
      PROVE  FifoIInv'
  BY <1>1, FifoEdgeKeeps
<1>2. CASE FifoReset
  BY <1>2, FifoResetKeeps
<1>3. CASE UNCHANGED fifo_vars
  BY <1>3 DEF fifo_vars, FifoIInv, PointersAt
<1> QED BY <1>1, <1>2, <1>3 DEF FifoNext

\* Occupancy and pointers agree in every reachable state.
THEOREM FifoInvariant == FifoSpec => []FifoIInv
BY FifoInitially, FifoSteps, PTL DEF FifoSpec

(* Whatever the user pushes and pops, level has exactly one bit set.       *)
THEOREM AlwaysOneHot == FifoSpec => []LevelIsOneHot
<1>1. FifoIInv => LevelIsOneHot
  BY DEF FifoIInv, LevelIsOneHot
<1> QED BY <1>1, FifoInvariant, PTL

(* The two pointers are always as far apart as level says, modulo the size *)
(* of the memory: what is read next is the oldest value that is stored.    *)
THEOREM AlwaysPointersMatchLevel == FifoSpec => []PointersMatchLevel
<1>1. FifoIInv => PointersMatchLevel
  <2> SUFFICES ASSUME FifoIInv PROVE PointersMatchLevel
    OBVIOUS
  <2>1. PICK i \in 0 .. Depth : level = {i} /\ PointersAt(i)
    BY DEF FifoIInv
  <2>2. Count = i
    BY <2>1 DEF Count
  <2> QED BY <2>1, <2>2 DEF PointersMatchLevel, PointersAt, Stored, InMem
<1> QED BY <1>1, FifoInvariant, PTL

(* Every variable stays in its type.                                       *)
THEOREM FifoTypeCorrect == FifoSpec => []FifoTypeOK
<1>1. FifoIInv => FifoTypeOK
  BY DepthAssumption DEF FifoIInv, FifoTypeOK, PointersAt, MemDepth
<1> QED BY <1>1, FifoInvariant, PTL

-----------------------------------------------------------------------------
(* The word k places behind pointer a, in a memory of m words.             *)
Slot(a, k, m) == IF a + k < m THEN a + k ELSE a + k - m

(* Different distances below m are different words.                        *)
LEMMA SlotsDiffer ==
    ASSUME NEW m \in Nat, NEW a \in 0 .. m - 1, NEW k \in 0 .. m - 1, NEW l \in 0 .. m - 1
    PROVE  /\ Slot(a, k, m) \in 0 .. m - 1
           /\ Slot(a, k, m) = Slot(a, l, m) => k = l
BY DEF Slot

(* A pointer that has advanced finds every word one place nearer.          *)
LEMMA SlotAdvances ==
    ASSUME NEW m \in Nat, NEW a \in 0 .. m - 1, NEW k \in Nat, k + 1 \in 0 .. m - 1
    PROVE  Slot(Wrap(a, m), k, m) = Slot(a, k + 1, m)
BY DEF Slot, Wrap

(* Sequences with the same elements are the same.                          *)
LEMMA SameElements ==
    ASSUME NEW S, NEW s \in Seq(S), NEW t \in Seq(S), Len(s) = Len(t),
           \A k \in 1 .. Len(s) : s[k] = t[k]
    PROVE  s = t
OBVIOUS

(* One edge of the abstract queue, element by element: y values leave it   *)
(* at the front and x join it at the end.                                  *)
LEMMA AfterElements ==
    ASSUME NEW S, NEW q \in Seq(S), NEW push, NEW pop, NEW d \in S,
           NEW x \in {0, 1}, NEW y \in {0, 1},
           x = 1 <=> push /\ Len(q) < Depth,
           y = 1 <=> pop /\ Len(q) > 0
    PROVE  LET after == Fifo!After(q, Depth, push, d, pop)
           IN  /\ after \in Seq(S)
               /\ Len(after) = Len(q) - y + x
               /\ \A k \in 1 .. Len(q) - y : after[k] = q[k + y]
               /\ x = 1 => after[Len(q) - y + 1] = d
<1> DEFINE rest == IF y = 1 THEN Tail(q) ELSE q
<1>1. rest \in Seq(S) /\ Len(rest) = Len(q) - y /\ \A k \in 1 .. Len(q) - y : rest[k] = q[k + y]
  <2>1. CASE y = 1
    BY <2>1
  <2>2. CASE y = 0
    BY <2>2
  <2>3. QED
    BY <2>1, <2>2
<1>2. Fifo!After(q, Depth, push, d, pop) = IF x = 1 THEN Append(rest, d) ELSE rest
  <2>1. q # <<>> <=> Len(q) > 0
    OBVIOUS
  <2>2. Fifo!Room(q, Depth, pop) <=> Len(q) < Depth
    BY DepthAssumption DEF Fifo!Room
  <2>3. QED
    BY <2>1, <2>2 DEF Fifo!After
<1> HIDE DEF rest
<1>3. CASE x = 1
  <2>1. /\ Append(rest, d) \in Seq(S) /\ Len(Append(rest, d)) = Len(rest) + 1
        /\ \A k \in 1 .. Len(rest) : Append(rest, d)[k] = rest[k]
        /\ Append(rest, d)[Len(rest) + 1] = d
    BY <1>1
  <2>2. QED
    BY <1>1, <1>2, <1>3, <2>1
<1>4. CASE x = 0
  BY <1>1, <1>2, <1>4
<1>5. QED
  BY <1>3, <1>4

(* The queue of the implementation, when level is {i}.                     *)
LooksLike ==
    \A i \in 0 .. Depth : level = {i} =>
        /\ Contents \in Seq(Data)
        /\ Len(Contents) = i
        /\ i > 0 => Contents[1] = rdata
        /\ \A k \in 2 .. i : Contents[k] = mem[Slot(rptr, k - 2, MemDepth)]

(* It looks so under the invariant: with i values, the oldest in rdata.    *)
LEMMA ContentsAre ==
    ASSUME FifoIInv, NEW i \in 0 .. Depth, level = {i}
    PROVE  /\ Count = i
           /\ Contents \in Seq(Data)
           /\ Len(Contents) = i
           /\ i > 0 => Contents[1] = rdata
           /\ \A k \in 2 .. i : Contents[k] = mem[Slot(rptr, k - 2, MemDepth)]
<1>1. Count = i
  BY DEF Count
<1>2. MemDepth \in Nat /\ MemDepth = Depth - 1 /\ Depth \in Nat /\ rptr \in 0 .. MemDepth - 1
  BY DepthAssumption DEF MemDepth, FifoIInv, PointersAt
<1>3. ASSUME NEW k \in 2 .. i
      PROVE  MemAt(k - 2) = mem[Slot(rptr, k - 2, MemDepth)] /\ MemAt(k - 2) \in Data
  <2>1. k - 2 \in 0 .. MemDepth - 1
    BY <1>2
  <2>2. Slot(rptr, k - 2, MemDepth) \in 0 .. MemDepth - 1
    BY <1>2, <2>1, SlotsDiffer
  <2>3. MemAt(k - 2) = mem[Slot(rptr, k - 2, MemDepth)]
    BY DEF MemAt, Slot
  <2>4. QED
    BY <2>2, <2>3 DEF FifoIInv
<1>4. Contents = [k \in 1 .. i |-> IF k = 1 THEN rdata ELSE MemAt(k - 2)]
  BY <1>1 DEF Contents
<1>5. \A k \in 1 .. i : (IF k = 1 THEN rdata ELSE MemAt(k - 2)) \in Data
  BY <1>3 DEF FifoIInv
<1>6. Contents \in [1 .. i -> Data]
  BY <1>4, <1>5
<1>7. Contents \in Seq(Data) /\ Len(Contents) = i
  BY <1>2, <1>6
<1>8. QED
  BY <1>1, <1>3, <1>4, <1>7

(* The same for whatever i there is.                                       *)
LEMMA ContentsAlways == FifoIInv => LooksLike
BY ContentsAre DEF LooksLike

(* The same after a step.                                                  *)
LEMMA ContentsThen == FifoIInv' => LooksLike'
BY ContentsAlways, PTL

(* A clock edge of the implementation is an edge of the queue.             *)
LEMMA ClockIsAfter ==
    ASSUME FifoIInv, FifoIInv', NEW push \in BOOLEAN, NEW pop \in BOOLEAN, NEW d \in Data,
           ClockN(push, d, pop)
    PROVE  Contents' = Fifo!After(Contents, Depth, push, d, pop)
<1>1. PICK i \in 0 .. Depth : level = {i} /\ PointersAt(i)
  BY DEF FifoIInv
<1>2. PICK n \in 0 .. Depth : level' = {n}
  BY DEF FifoIInv
<1>3. PICK x \in {0, 1}, y \in {0, 1} : (x = 1 <=> push /\ i < Depth) /\ (y = 1 <=> pop /\ i > 0)
  <2>1. (\E x \in {0, 1} : x = 1 <=> push /\ i < Depth) /\ (\E y \in {0, 1} : y = 1 <=> pop /\ i > 0)
    OBVIOUS
  <2>2. QED
    BY <2>1
<1>4. /\ Depth \in Nat /\ Depth >= 2
      /\ MemDepth \in Nat /\ MemDepth = Depth - 1
      /\ wptr \in 0 .. MemDepth - 1 /\ rptr \in 0 .. MemDepth - 1
  BY <1>1, DepthAssumption DEF MemDepth, PointersAt
<1>5. /\ valid <=> i # 0
      /\ memValid <=> i > 1
      /\ full <=> i = Depth
  BY <1>1, <1>4 DEF valid, memValid, full
<1>6. n = i + x - y
  <2>1. level' = IF x = y THEN {i} ELSE IF x = 1 THEN ShiftLeft ELSE ShiftRight
    <3>1. (push /\ ~full <=> x = 1) /\ (pop /\ valid <=> y = 1)
      BY <1>3, <1>4, <1>5
    <3>2. QED
      BY <1>1, <3>1 DEF ClockN, LevelNext
  <2>2. (x = 1 => ShiftLeft = {i + 1}) /\ (y = 1 => ShiftRight = {i - 1})
    BY <1>1, <1>3, ShiftsMoveTheOne
  <2>3. CASE x = y
    BY <1>2, <2>1, <2>3
  <2>4. CASE x = 1 /\ y = 0
    <3>1. {n} = {i + 1}
      BY <1>2, <2>1, <2>2, <2>4
    <3>2. n = i + 1
      BY <3>1
    <3>3. QED
      BY <2>4, <3>2
  <2>5. CASE x = 0 /\ y = 1
    <3>1. {n} = {i - 1}
      BY <1>2, <2>1, <2>2, <2>5
    <3>2. n = i - 1
      BY <3>1
    <3>3. QED
      BY <2>5, <3>2
  <2>6. QED
    BY <2>3, <2>4, <2>5
<1> DEFINE q == Contents
           after == Fifo!After(q, Depth, push, d, pop)
<1>7. /\ q \in Seq(Data) /\ Len(q) = i
      /\ i > 0 => q[1] = rdata
      /\ \A k \in 2 .. i : q[k] = mem[Slot(rptr, k - 2, MemDepth)]
  BY <1>1, ContentsAre
<1>8. /\ q' \in Seq(Data) /\ Len(q') = n
      /\ n > 0 => q'[1] = rdata'
      /\ \A k \in 2 .. n : q'[k] = mem'[Slot(rptr', k - 2, MemDepth)]
  BY <1>2, ContentsThen DEF LooksLike
<1>9. /\ after \in Seq(Data) /\ Len(after) = n
      /\ \A k \in 1 .. i - y : after[k] = q[k + y]
      /\ x = 1 => after[i - y + 1] = d
  <2> HIDE DEF q
  <2>1. (x = 1 <=> push /\ Len(q) < Depth) /\ (y = 1 <=> pop /\ Len(q) > 0)
    BY <1>3, <1>7
  <2>2. /\ after \in Seq(Data) /\ Len(after) = Len(q) - y + x
        /\ \A k \in 1 .. Len(q) - y : after[k] = q[k + y]
        /\ x = 1 => after[Len(q) - y + 1] = d
    <3>1. q \in Seq(Data)
      BY <1>7
    <3>2. QED
      BY <2>1, <3>1, AfterElements DEF after
  <2>3. Len(q) - y + x = n
    BY <1>6, <1>7
  <2>4. QED
    BY <1>7, <2>2, <2>3
<1> HIDE DEF q, after
<1>10. ASSUME n > 0
       PROVE  q'[1] = after[1]
  <2>1. q'[1] = rdata'
    BY <1>8, <1>10
  <2>2. CASE i = 0 \/ (i = 1 /\ y = 1)
    <3>1. x = 1 /\ i - y + 1 = 1
      BY <1>3, <1>6, <1>10, <2>2
    <3>2. bypass(push, pop)
      BY <1>3, <1>5, <2>2, <3>1 DEF bypass
    <3>3. rdata' = d
      BY <3>2 DEF ClockN
    <3>4. QED
      BY <1>9, <2>1, <3>1, <3>3
  <2>3. CASE i > 1 /\ y = 1
    <3>1. rdata' = mem[rptr]
      BY <1>3, <1>5, <2>3 DEF ClockN, bypass, incRptr
    <3>2. 1 \in 1 .. i - y /\ 2 \in 2 .. i /\ 1 + y = 2
      BY <2>3
    <3>3. Slot(rptr, 2 - 2, MemDepth) = rptr
      BY <1>4 DEF Slot
    <3>4. after[1] = q[2] /\ q[2] = mem[rptr]
      BY <1>7, <1>9, <3>2, <3>3
    <3>5. QED
      BY <2>1, <3>1, <3>4
  <2>4. CASE i > 0 /\ y = 0
    <3>1. rdata' = rdata
      BY <1>3, <1>5, <2>4 DEF ClockN, bypass, incRptr
    <3>2. 1 \in 1 .. i - y /\ 1 + y = 1
      BY <2>4
    <3>3. after[1] = q[1] /\ q[1] = rdata
      BY <1>7, <1>9, <2>4, <3>2
    <3>4. QED
      BY <2>1, <3>1, <3>3
  <2>5. QED
    BY <2>2, <2>3, <2>4
<1>11. ASSUME NEW k \in 2 .. n
       PROVE  q'[k] = after[k]
  <2>1. i > 0 /\ (y = 1 => i > 1) /\ k + y \in 2 .. i + 1 /\ (k + y = i + 1 => x = 1)
    BY <1>3, <1>6, <1>11
  <2>2. incWptr(push, pop) <=> x = 1
    <3>1. x = 1 => memValid \/ (valid /\ ~pop)
      BY <1>3, <1>5, <2>1
    <3>2. QED
      BY <1>3, <1>4, <1>5, <2>1, <3>1 DEF incWptr
  <2>3. incRptr(pop) <=> y = 1
    BY <1>3, <1>5, <2>1 DEF incRptr
  <2>4. mem' = IF x = 1 THEN [mem EXCEPT ![wptr] = d] ELSE mem
    BY <2>2 DEF ClockN
  <2>5. k + y - 2 \in Nat /\ (k + y - 2 \in 0 .. MemDepth - 1 \/ k + y - 2 = MemDepth)
    BY <1>4, <2>1
  <2>6. k + y - 2 \in 0 .. MemDepth - 1
    BY <1>3, <1>4, <2>1
  <2>7. Slot(rptr', k - 2, MemDepth) = Slot(rptr, k + y - 2, MemDepth)
    <3>1. CASE y = 1
      <4>1. rptr' = Wrap(rptr, MemDepth)
        BY <2>3, <3>1 DEF ClockN, Bump, Wrap
      <4>2. k - 2 \in Nat /\ k - 2 + 1 = k + y - 2
        BY <3>1
      <4>3. QED
        BY <1>4, <2>6, <4>1, <4>2, SlotAdvances
    <3>2. CASE y = 0
      <4>1. rptr' = rptr
        BY <2>3, <3>2 DEF ClockN
      <4>2. k - 2 = k + y - 2
        BY <3>2
      <4>3. QED
        BY <4>1, <4>2
    <3>3. QED
      BY <3>1, <3>2
  <2> DEFINE slot == Slot(rptr, k + y - 2, MemDepth)
  <2>8. q'[k] = mem'[slot]
    BY <1>8, <2>7
  <2>9. slot \in 0 .. MemDepth - 1
    BY <1>4, <2>6, SlotsDiffer
  <2>10. x = 1 => wptr = Slot(rptr, i - 1, MemDepth) /\ i - 1 \in 0 .. MemDepth - 1
    BY <1>1, <1>3, <1>4, <2>1 DEF PointersAt, Stored, Slot
  <2>11. x = 1 => (slot = wptr <=> k + y = i + 1)
    <3> SUFFICES ASSUME x = 1 PROVE slot = wptr <=> k + y = i + 1
      OBVIOUS
    <3>1. slot = wptr => k + y - 2 = i - 1
      BY <1>4, <2>6, <2>10, SlotsDiffer
    <3>2. k + y = i + 1 <=> k + y - 2 = i - 1
      OBVIOUS
    <3>3. QED
      BY <2>10, <3>1, <3>2
  <2>12. mem \in [0 .. MemDepth - 1 -> Data]
    BY DEF FifoIInv
  <2> HIDE DEF slot
  <2>13. CASE k + y = i + 1
    <3>1. x = 1 /\ mem'[slot] = d
      BY <2>1, <2>4, <2>9, <2>11, <2>12, <2>13
    <3>2. i - y + 1 = k
      BY <2>13
    <3>3. QED
      BY <1>9, <2>8, <3>1, <3>2
  <2>14. CASE k + y # i + 1
    <3>1. mem'[slot] = mem[slot]
      BY <2>4, <2>9, <2>11, <2>12, <2>14
    <3>2. k \in 1 .. i - y /\ k + y \in 2 .. i
      BY <2>1, <2>14
    <3>3. after[k] = q[k + y] /\ q[k + y] = mem[Slot(rptr, k + y - 2, MemDepth)]
      BY <1>7, <1>9, <3>2
    <3>4. QED
      BY <2>8, <3>1, <3>3 DEF slot
  <2>15. QED
    BY <2>13, <2>14
<1>12. \A k \in 1 .. n : q'[k] = after[k]
  BY <1>10, <1>11
<1>13. q' = after
  BY <1>8, <1>9, <1>12, SameElements
<1>14. QED
  BY <1>13 DEF q, after

(* Every step of the implementation is one of the queue, or leaves it be.  *)
LEMMA StepIsStep ==
    ASSUME FifoIInv, FifoIInv', [FifoNext]_fifo_vars
    PROVE  [Fifo!Next]_(Fifo!vars)
<1>1. ASSUME NEW push \in BOOLEAN, NEW pop \in BOOLEAN, NEW d \in Data,
             ClockN(push, d, pop), port' = [push |-> push, wdata |-> d, pop |-> pop]
      PROVE  Fifo!Edge
  <2> DEFINE p == [push |-> push, wdata |-> d, pop |-> pop]
  <2>1. p \in Fifo!Pins /\ port' = p
    BY <1>1 DEF Fifo!Pins
  <2>2. Contents' = Fifo!After(Contents, Depth, p.push, p.wdata, p.pop)
    BY <1>1, ClockIsAfter
  <2> HIDE DEF p
  <2>3. QED
    BY <2>1, <2>2 DEF Fifo!Edge
<1>2. CASE FifoReset
  <2>1. level' = {0} /\ port' = port
    BY <1>2 DEF FifoReset
  <2>2. Contents' \in Seq(Data) /\ Len(Contents') = 0
    BY <2>1, ContentsThen, DepthAssumption DEF LooksLike
  <2>3. Contents' = <<>>
    BY <2>2
  <2>4. QED
    BY <2>1, <2>3 DEF Fifo!Next, Fifo!Reset
<1>3. CASE UNCHANGED fifo_vars
  BY <1>3 DEF fifo_vars, Fifo!vars, Contents, Count, MemAt
<1>4. QED
  BY <1>1, <1>2, <1>3 DEF FifoNext, Fifo!Next

(* prim_fifo_reg, with its one-hot level, its wrapping pointers and its    *)
(* bypass, is a FIFO: for every Depth and set of values it implements      *)
(* BoundedFifo, which loses, invents and reorders nothing.                 *)
THEOREM ImplementsBoundedFifo == FifoSpec => IsBoundedFifo
<1>1. FifoInit => Fifo!Init
  <2> SUFFICES ASSUME FifoInit PROVE Fifo!Init
    OBVIOUS
  <2>1. Contents \in Seq(Data) /\ Len(Contents) = 0
    BY FifoInitially, ContentsAlways, DepthAssumption DEF LooksLike, FifoInit
  <2>2. Contents = <<>>
    BY <2>1
  <2>3. QED
    BY <2>2 DEF FifoInit, Fifo!Init, Fifo!Pins, Pins
<1>2. FifoIInv /\ FifoIInv' /\ [FifoNext]_fifo_vars => [Fifo!Next]_(Fifo!vars)
  BY StepIsStep
<1>3. QED
  BY <1>1, <1>2, FifoInvariant, PTL DEF FifoSpec, IsBoundedFifo, Fifo!Spec

-----------------------------------------------------------------------------
(***************************************************************************)
(* prim_arb_lru                                                            *)
(***************************************************************************)
\* A client that has been overtaken by j outranks j until it is granted.
LruIInv ==
        /\ LruTypeOK
        /\ PrioIsOrder
        /\ lost \in [Clients -> [Clients -> {0, 1}]]
        /\ \A i \in Clients : lost[i][i] = 0
        /\ \A i, j \in Clients : lost[i][j] = 1 => Outranks(prio, i, j)

\* The cleared matrix is an order, and nobody has been overtaken.
LEMMA LruInitially == ASSUME prio = {}, grant = {}, lost = NoLosses PROVE LruIInv
<1>1. IsOrder({})
  BY NumClientsAssumption DEF IsOrder, Outranks, Clients
<1> QED BY <1>1 DEF LruIInv, LruTypeOK, PrioIsOrder, NoLosses

\* An edge demotes its winner, which no other bidder then ranks below.
LEMMA LruEdgeKeeps ==
    ASSUME LruIInv, NEW bid \in SUBSET Clients, NEW stall \in BOOLEAN,
           LruEdge(bid, stall)
    PROVE  LruIInv'
<1> DEFINE won == Grant(bid, stall)
<1>1. won \subseteq bid
  BY DEF Grant, Winners
<1>2. CASE won = {}
  <2>1. prio' = prio /\ grant' = {}
    BY <1>2 DEF LruEdge, PrioNext
  <2>2. \A i, j \in Clients : lost'[i][j] = IF i \in bid THEN lost[i][j] ELSE 0
    BY <1>2 DEF LruEdge, CountLosses, LruIInv
  <2>3. lost' \in [Clients -> [Clients -> {0, 1}]]
    BY <1>2 DEF LruEdge, CountLosses, LruIInv
  <2> QED BY <2>1, <2>2, <2>3 DEF LruIInv, LruTypeOK, PrioIsOrder
<1>3. ASSUME NEW w \in Clients, won = {w}
      PROVE  LruIInv'
  <2>1. w \in bid /\ \A i \in bid \ {w} : Outranks(prio, w, i)
    BY <1>3 DEF Grant, Winners
  <2>2. prio' = Demote(prio, w) /\ grant' = {w}
    BY <1>3 DEF LruEdge, PrioNext
  <2>3. prio' \in SUBSET Triangle /\ IsOrder(prio')
    BY <2>2, DemoteType, DemoteKeepsOrder DEF LruIInv, LruTypeOK, PrioIsOrder
  <2>4. \A i \in bid \ {w} : lost[i][w] = 0
    BY <2>1, <1>1, OutranksTotal DEF LruIInv
  <2>5. \A i, j \in Clients :
           lost'[i][j] = IF i \notin bid \/ i = w THEN 0
                         ELSE IF j = w THEN 1 ELSE lost[i][j]
    BY <1>3, <2>4 DEF LruEdge, CountLosses, CountUp, LruIInv
  <2>6. lost' \in [Clients -> [Clients -> {0, 1}]]
    BY <2>5 DEF LruEdge, CountLosses, LruIInv
  <2>7. \A i, j \in Clients : lost'[i][j] = 1 => Outranks(prio', i, j)
    <3> SUFFICES ASSUME NEW i \in Clients, NEW j \in Clients, lost'[i][j] = 1
                 PROVE  Outranks(prio', i, j)
      OBVIOUS
    <3>1. i # w /\ i \in bid
      BY <2>5
    <3>2. j = w \/ lost[i][j] = 1
      BY <2>5, <3>1
    <3>3. i # j
      BY <3>1, <3>2 DEF LruIInv
    <3>4. j = w \/ Outranks(prio, i, j)
      BY <3>2 DEF LruIInv
    <3> QED BY <2>2, <3>1, <3>3, <3>4, DemoteOutranks DEF LruIInv, LruTypeOK
  <2>8. \A i \in Clients : lost'[i][i] = 0
    BY <2>5 DEF LruIInv
  <2> QED BY <1>1, <2>2, <2>3, <2>6, <2>7, <2>8 DEF LruIInv, LruTypeOK, PrioIsOrder
<1>4. won = {} \/ \E w \in Clients : won = {w}
  <2>1. \A i, j \in won : i = j
    BY AtMostOneWinner DEF Grant
  <2> QED BY <1>1, <2>1
<1> QED BY <1>2, <1>3, <1>4

\* Every step keeps the invariant of the arbiter.
LEMMA LruSteps == LruIInv /\ [LruNext]_lru_vars => LruIInv'
<1> SUFFICES ASSUME LruIInv, [LruNext]_lru_vars PROVE LruIInv'
  OBVIOUS
<1>1. ASSUME NEW bid \in SUBSET Clients, NEW stall \in BOOLEAN, LruEdge(bid, stall)
      PROVE  LruIInv'
  BY <1>1, LruEdgeKeeps
<1>2. CASE LruReset
  <2>1. IsOrder({})
    BY NumClientsAssumption DEF IsOrder, Outranks, Clients
  <2> QED BY <1>2, <2>1 DEF LruReset, LruIInv, LruTypeOK, PrioIsOrder, NoLosses
<1>3. CASE UNCHANGED lru_vars
  BY <1>3 DEF lru_vars, LruIInv, LruTypeOK, PrioIsOrder
<1> QED BY <1>1, <1>2, <1>3 DEF LruNext

\* Whoever has been overtaken outranks the one that did it.
THEOREM LruInvariant == LruSpec => []LruIInv
<1>1. LruInit => LruIInv
  BY LruInitially DEF LruInit
<1> QED BY <1>1, LruSteps, PTL DEF LruSpec

\* The priority matrix is a total order for any number of clients.
THEOREM AlwaysAnOrder == LruSpec => []PrioIsOrder
<1>1. LruIInv => PrioIsOrder
  BY DEF LruIInv
<1> QED BY <1>1, LruInvariant, PTL

\* Every non-empty set of bids has exactly one winner, in every reachable
\* state.
THEOREM AlwaysOneWinner == LruSpec => []WorkConserving
<1>1. LruIInv => WorkConserving
  <2> SUFFICES ASSUME LruIInv, NEW bid \in SUBSET Clients, bid # {}
               PROVE  \E i \in bid : Winners(prio, bid) = {i}
    BY DEF WorkConserving
  <2>1. Winners(prio, bid) # {}
    BY SomeWinner DEF LruIInv, PrioIsOrder
  <2>2. Winners(prio, bid) \subseteq bid
    BY DEF Winners
  <2>3. \A i, j \in Winners(prio, bid) : i = j
    BY AtMostOneWinner
  <2> QED BY <2>1, <2>2, <2>3
<1> QED BY <1>1, LruInvariant, PTL

\* No client is overtaken twice by another one while it keeps bidding.
THEOREM NeverOvertakenTwice == LruSpec => []OvertakenAtMostOnce
<1>1. LruIInv => OvertakenAtMostOnce
  BY DEF LruIInv, OvertakenAtMostOnce
<1> QED BY <1>1, LruInvariant, PTL

-----------------------------------------------------------------------------
(***************************************************************************)
(* prim_arb_rr2                                                            *)
(***************************************************************************)
\* The fixed priorities at either end.
LEMMA Ends ==
    ASSUME NEW s \in SUBSET Requesters, s # {}
    PROVE  (\E i \in s : Lowest(s) = {i}) /\ (\E i \in s : Highest(s) = {i})
<1>1. PICK i \in s : Minimum(s, i)
  BY LeastExists
<1>2. PICK k \in s : \A j \in s : j <= k
  BY GreatestExists
<1>3. \A a, b \in s : a <= b /\ b <= a => a = b
  BY NumReqsAssumption DEF Requesters
<1>4. Lowest(s) = {i}
  BY <1>1, <1>3 DEF Lowest, Minimum
<1>5. Highest(s) = {k}
  BY <1>2, <1>3 DEF Highest
<1> QED
  BY <1>4, <1>5

Rr2IInv == Rr2TypeOK /\ GrantsFree

\* The arbiter starts without grants.
LEMMA Rr2Initially == Rr2Init => Rr2IInv
  BY DEF Rr2Init, Rr2IInv, Rr2TypeOK, GrantsFree

\* What the registers would load at an edge.
LEMMA Loads ==
    ASSUME Rr2IInv
    PROVE  /\ Candidates \subseteq Requesters \ inUse
           /\ Primary # {} => \E i \in Candidates : Primary = {i}
           /\ Highest(Candidates) # Primary \/ Lowest(Candidates) # Primary =>
                (\E i \in Candidates : Secondary = {i}) /\ Secondary # Primary
           /\ Primary \subseteq Requesters /\ Secondary \subseteq Requesters
<1>1. Candidates \in SUBSET Requesters /\ Candidates \subseteq Requesters \ inUse
  BY DEF Candidates
<1>2. mask \in SUBSET Requesters
  BY DEF Rr2IInv, Rr2TypeOK
<1>3. CASE Candidates = {}
  <2>1. Primary = {} /\ Highest(Candidates) = {} /\ Lowest(Candidates) = {}
    BY <1>1, <1>2, <1>3, OneGrant DEF Primary, Highest, Lowest
  <2> QED
    BY <1>1, <2>1 DEF Secondary
<1>4. CASE Candidates # {}
  <2>1. \E i \in Candidates : Primary = {i}
    BY <1>1, <1>2, <1>4, OneGrant DEF Primary
  <2>2. (\E i \in Candidates : Lowest(Candidates) = {i})
        /\ (\E i \in Candidates : Highest(Candidates) = {i})
    BY <1>1, <1>4, Ends
  <2>3. \E i \in Candidates : Secondary = {i}
    BY <2>2 DEF Secondary
  <2> QED
    BY <1>1, <2>1, <2>2, <2>3 DEF Secondary
<1> QED
  BY <1>3, <1>4

\* An edge of the clock keeps the grants free, whatever is allocated at it.
LEMMA Rr2EdgeKeeps ==
    ASSUME Rr2IInv, NEW ended \in SUBSET inUse, NEW alloc \in BOOLEAN, NEW paired \in BOOLEAN,
           Rr2Edge(alloc, paired, ended)
    PROVE  Rr2IInv'
<1>1. inUse' \subseteq Requesters
  BY DEF Rr2Edge, Rr2IInv, Rr2TypeOK, GrantsFree
<1>2. mask' \subseteq Requesters
  BY MaskIsMask DEF Rr2Edge, Clock, Rr2IInv, Rr2TypeOK
<1>3. CASE Registers(alloc)
  <2>1. /\ v' = (Primary # {}) /\ g' = Primary
        /\ v2' = (Highest(Candidates) # Primary \/ Lowest(Candidates) # Primary)
        /\ g2' = Secondary
    BY <1>3 DEF Rr2Edge, Clock
  <2>2. Candidates \cap inUse' = {}
    BY DEF Rr2Edge, Candidates
  <2>3. Rr2TypeOK'
    BY <1>1, <1>2, <2>1, Loads DEF Rr2TypeOK
  <2>4. GrantsFree'
    BY <2>1, <2>2, Loads DEF GrantsFree
  <2> QED
    BY <2>3, <2>4 DEF Rr2IInv
<1>4. CASE ~Registers(alloc)
  <2>1. ~alloc /\ UNCHANGED <<v, g, v2, g2>>
    BY <1>4 DEF Rr2Edge, Clock, Registers
  <2>2. inUse' \subseteq inUse
    BY <2>1 DEF Rr2Edge
  <2> QED
    BY <1>1, <1>2, <2>1, <2>2 DEF Rr2IInv, Rr2TypeOK, GrantsFree
<1> QED
  BY <1>3, <1>4

\* Every step keeps the grants free.
LEMMA Rr2Steps == Rr2IInv /\ [Rr2Next]_rr2_vars => Rr2IInv'
<1> SUFFICES ASSUME Rr2IInv, [Rr2Next]_rr2_vars PROVE Rr2IInv'
  OBVIOUS
<1>1. ASSUME NEW ended \in SUBSET inUse, NEW alloc \in BOOLEAN, NEW paired \in BOOLEAN,
             Rr2Edge(alloc, paired, ended)
      PROVE  Rr2IInv'
  BY <1>1, Rr2EdgeKeeps
<1>2. ASSUME NEW ended \in SUBSET inUse, Gated(ended)
      PROVE  Rr2IInv'
  BY <1>2 DEF Gated, Rr2IInv, Rr2TypeOK, GrantsFree
<1>3. CASE UNCHANGED rr2_vars
  BY <1>3 DEF rr2_vars, Rr2IInv, Rr2TypeOK, GrantsFree
<1> QED
  BY <1>1, <1>2, <1>3 DEF Rr2Next

\* The grants held in reserve are always free and distinct entries, for any
\* number of entries: an allocation never lands on a live one.
THEOREM AlwaysFree == Rr2Spec => []GrantsFree
<1>1. Rr2IInv => GrantsFree
  BY DEF Rr2IInv
<1> QED
  BY <1>1, Rr2Initially, Rr2Steps, PTL DEF Rr2Spec

\* The registers of the arbiter always have their types.
THEOREM Rr2TypeCorrect == Rr2Spec => []Rr2TypeOK
<1>1. Rr2IInv => Rr2TypeOK
  BY DEF Rr2IInv
<1> QED
  BY <1>1, Rr2Initially, Rr2Steps, PTL DEF Rr2Spec
=============================================================================
