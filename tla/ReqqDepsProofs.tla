--------------------------- MODULE ReqqDepsProofs ---------------------------
(***************************************************************************)
(* The lists of the request queue, for any number of entries, lines and    *)
(* quads: of the requests for a line one at most is at the mesh, a request *)
(* that still has to go through the pipeline is behind the tail of its     *)
(* line, every wait ends, a read returns what the last write before it     *)
(* left, and a clean-up leaves that in memory.                             *)
(*                                                                         *)
(* What these rest on is how far each entry is (InPipeline to LetGo), and  *)
(* that the requests for a line have places: each waits for the one before *)
(* it, those at the mesh come first, and head, mesh tail and tail mark the *)
(* first that may still go in, the last that left and the last of all      *)
(* (Ordered to Heads).  The places are no registers: a request is given    *)
(* its place when it is allocated, and a victim when it is spliced in.     *)
(* For the data there is besides what each line holds, which is no         *)
(* register either: what the writes left that have come to the tags (Order *)
(* to Storage).                                                            *)
(***************************************************************************)
EXTENDS ReqqDeps, WellFoundedInduction, TLAPS

\* What an entry, a way and their quads hold.
Ops == PipeOps \union MeshOps \union {"Initial", "Hit", "Done"}
Words == [Quads -> Int]
EntryType ==
  [valid : BOOLEAN, kind : Kinds \union {None}, op : Ops, line : Lines \union {None},
   mask : SUBSET Quads, due : Words, data : Words, dep : Entries \union {Entry0, None},
   tail : BOOLEAN, meshTail : BOOLEAN, head : BOOLEAN, inMesh : BOOLEAN, setting : BOOLEAN,
   dont : BOOLEAN, inflight : BOOLEAN, pipeReady : BOOLEAN, meshReady : BOOLEAN]
WayType == [line : Lines \union {None}, dirty : SUBSET Quads, data : Words]

\* The registers are in their types, and those of a free entry are reset.
Typed ==
  /\ entry \in [Entries -> EntryType]
  /\ \A i \in Entries : ~entry[i].valid => entry[i] = Freed
  /\ \A i \in Entries : entry[i].valid => entry[i].kind \in Kinds /\ entry[i].line \in Lines
  /\ \A i \in Entries : entry[i].dep # i
  /\ pipe \in [1..Latency -> Entries \union {None}]
  /\ \A j, k \in 1..Latency : pipe[j] = pipe[k] /\ pipe[j] # None => j = k
  /\ granted \in Entries \union {None} /\ atMesh \subseteq Entries
  /\ way \in WayType /\ (way.line = None => way.dirty = {})
  /\ memory \in [Lines -> Words] /\ written \in [Lines -> Words]
  /\ accepted \in 0..MaxRequests

-----------------------------------------------------------------------------
(* How far an entry is.                                                    *)

\* An entry in the pipeline has a request for it, and from the second clock on one
\* that writes data has let go; a clock ago nothing was picked before a victim.
InPipeline ==
  /\ \A k \in 1..Latency : pipe[k] # None =>
       LET i == pipe[k]
       IN  /\ entry[i].valid /\ entry[i].op \in PipeOps
           /\ k = 1 => entry[i].dep = None
           /\ k > 1 => entry[i].inflight /\ (writesData(i) => clears(i))
  /\ pipe[1] # None /\ tagged # None => ~writesData(tagged)

\* An entry at the mesh waits for nobody.
AtTheMesh ==
  /\ granted # None => granted \in atMesh
  /\ \A i \in atMesh : /\ entry[i].valid /\ entry[i].op \in MeshOps /\ entry[i].inMesh
                       /\ entry[i].dep = None /\ (i # granted => entry[i].inflight)

\* What is ready waits for nobody and is not under way.
ReadyIs ==
  \A i \in Entries :
    /\ entry[i].pipeReady => /\ entry[i].valid /\ entry[i].op \in PipeOps
                             /\ entry[i].dep = None /\ ~entry[i].inflight
    /\ entry[i].meshReady => /\ entry[i].valid /\ entry[i].op \in MeshOps /\ entry[i].inMesh
                             /\ entry[i].dep = None /\ ~entry[i].inflight

\* Who has let go: a write that was picked, a fill that was picked, what is done.
LetGo ==
  \A i \in Entries : entry[i].valid =>
    /\ entry[i].op \in MeshOps \union {"Initial"} => ~entry[i].setting /\ ~entry[i].dont
    /\ entry[i].op = "First" /\ (entry[i].setting \/ entry[i].dont) => entry[i].kind = "Write"
    /\ entry[i].op \in {"Initial", "First"} => ~entry[i].inMesh
    /\ entry[i].op \in {"MeshRead", "Fill"} => entry[i].kind = "Read"
    /\ entry[i].op = "Fill" => entry[i].inMesh
    /\ entry[i].dont => entry[i].dep = None

-----------------------------------------------------------------------------
(* The lists.                                                              *)

\* Two requests of one list, both in front of the mesh, or both at it.
Listed(i, j)  == dependable(i) /\ dependable(j) /\ entry[i].line = entry[j].line
InFront(i, j) == Listed(i, j) /\ ~entry[i].inMesh /\ ~entry[j].inMesh
InMesh(i, j)  == Listed(i, j) /\ entry[i].inMesh /\ entry[j].inMesh

\* A request waits for one that is in its list, or for one that lets go now.
Waits(i)   == entry[i].dep \in Entries /\ dependable(entry[i].dep)
WaitsNoMore(i) == entry[i].dep \in Entries /\ clears(entry[i].dep)

\* Who is waited for holds the line that is waited for.
DepsInList == \A i \in Entries : entry[i].valid /\ entry[i].dep \in Entries =>
                 LET j == entry[i].dep
                 IN  entry[j].valid /\ ~entry[j].dont /\ entry[j].line = entry[i].line

\* A request is next behind the one it waits for, and who waits for none is first.
Ordered(pos) ==
  /\ \A i, j \in Entries : Listed(i, j) /\ pos[i] = pos[j] => i = j
  /\ \A i, j \in Entries : Listed(i, j) /\ ~Waits(i) => pos[i] <= pos[j]
  /\ \A i, j \in Entries : Listed(i, j) /\ entry[i].dep = j =>
        /\ pos[j] < pos[i]
        /\ \A k \in Entries : Listed(i, k) => pos[k] <= pos[j] \/ pos[k] >= pos[i]
\* The tail is the last of the list, and all others are waited for.
Tails(pos) ==
  /\ \A i, j \in Entries : Listed(i, j) /\ entry[i].tail => pos[j] <= pos[i]
  /\ \A i \in Entries : dependable(i) => \E t \in Entries : Listed(i, t) /\ entry[t].tail
  /\ \A i \in Entries : dependable(i) /\ ~entry[i].tail =>
        \E j \in Entries : Listed(i, j) /\ entry[j].dep = i
\* Those at the mesh are the front of the list, up to the mesh tail.
MeshParts(pos) ==
  /\ \A i, j \in Entries : Listed(i, j) /\ entry[i].inMesh /\ ~entry[j].inMesh => pos[i] < pos[j]
  /\ \A i \in Entries : dependable(i) /\ entry[i].meshTail => entry[i].inMesh
  /\ \A i, j \in Entries : InMesh(i, j) /\ entry[i].meshTail => pos[j] <= pos[i]
  /\ \A i \in Entries : dependable(i) /\ entry[i].inMesh =>
        \E t \in Entries : Listed(i, t) /\ entry[t].meshTail
\* The head is the first of the others, and those in the pipeline are the first too.
Heads(pos) ==
  /\ \A i, j \in Entries : InFront(i, j) /\ entry[i].head => pos[i] <= pos[j]
  /\ \A i \in Entries : dependable(i) /\ ~entry[i].inMesh =>
        \E h \in Entries : InFront(i, h) /\ (entry[h].head \/ WaitsNoMore(h))
  /\ \A k \in 1..Latency, j \in Entries :
        pipe[k] # None /\ InFront(pipe[k], j) => pos[pipe[k]] <= pos[j]

-----------------------------------------------------------------------------
(* One clock.                                                              *)

\* What is allocated in a clock: nothing, or a request for a free entry.
Arrives(i, new) ==
  \/ i = None /\ new = Freed
  \/ /\ i \in Free
     /\ \E kind \in Kinds, l \in Lines, mask \in SUBSET Quads, due \in Words :
           new = fresh(kind, l, mask, due)

\* What comes and goes in a clock is what Registers chooses from.
Clock(i, new, p, m, r, d, done) ==
  /\ Arrives(i, new)
  /\ p \in Pickable \union {None} /\ m \in Grantable \union {None}
  /\ r \in Answerable \union {None} /\ d \in Reading \union {None} /\ done \in SUBSET Finishable
  /\ Edge(i, new, p, m, r, d, done)

\* The history and the count of requests stay in their types.
Counts == written' \in [Lines -> Words] /\ accepted' \in 0..MaxRequests

\* What the history records of the request that is allocated, and what the request
\* is to return or to leave behind.
Records(i, new) ==
  IF i \in Free
  THEN /\ written' = IF new.kind = "Write" THEN [written EXCEPT ![new.line] = new.due] ELSE written
       /\ new.kind = "Write" => new.mask \in Masks
       /\ \A q \in Quads :
             new.due[q] = IF new.kind = "Write" /\ q \in new.mask THEN written[new.line][q] + 1
                          ELSE written[new.line][q]
  ELSE written' = written

\* A request as it is allocated.
LEMMA FreshIs ==
    ASSUME NEW kind, NEW l, NEW mask, NEW due
    PROVE  LET n == fresh(kind, l, mask, due)
           IN  /\ n.valid /\ n.kind = kind /\ n.line = l /\ n.op = "Initial" /\ n.dep = depOf(l)
               /\ n.tail /\ ~n.meshTail /\ n.head = headOf(l) /\ ~n.inMesh
               /\ n.mask = mask /\ n.due = due
               /\ ~n.setting /\ ~n.dont /\ ~n.inflight /\ ~n.pipeReady /\ ~n.meshReady
BY DEF fresh, Freed

\* Every step is a clock.
LEMMA Clocks ==
    ASSUME Typed, Next
    PROVE  /\ Counts
           /\ \E i, new, p, m, r, d, done : Clock(i, new, p, m, r, d, done) /\ Records(i, new)
<1>1. ASSUME NEW i, NEW new, Registers(i, new), Arrives(i, new), Records(i, new)
      PROVE  \E p, m, r, d, done : Clock(i, new, p, m, r, d, done) /\ Records(i, new)
  BY <1>1 DEF Registers, Clock
<1>2. CASE Idle
  <2>1. Arrives(None, Freed)
    BY DEF Arrives
  <2>2. Counts
    BY <1>2 DEF Idle, Counts, Typed
  <2>3. Records(None, Freed)
    BY <1>2, DepsAssumption DEF Idle, Free, Records
  <2>4. QED
    BY <1>1, <1>2, <2>1, <2>2, <2>3 DEF Idle
<1>3. ASSUME NEW l \in Lines, NEW kind \in Kinds \ {"Write"}, Request(l, kind)
      PROVE  Counts /\ \E i, new, p, m, r, d, done : Clock(i, new, p, m, r, d, done) /\ Records(i, new)
  <2>1. PICK i \in Free : Registers(i, fresh(kind, l, {}, written[l]))
    BY <1>3 DEF Request
  <2>2. Arrives(i, fresh(kind, l, {}, written[l]))
    <3>1. written[l] \in Words /\ {} \in SUBSET Quads /\ kind \in Kinds
      BY DEF Typed
    <3>2. QED
      BY <3>1 DEF Arrives
  <2>3. Counts
    BY <1>3, DepsAssumption DEF Request, Counts, Typed
  <2>4. Records(i, fresh(kind, l, {}, written[l]))
    <3>1. written' = written /\ kind # "Write"
      BY <1>3 DEF Request
    <3>2. QED
      BY <3>1, FreshIs DEF Records
  <2>5. QED
    BY <1>1, <2>1, <2>2, <2>3, <2>4
<1>4. ASSUME NEW l \in Lines, NEW mask \in Masks, Write(l, mask)
      PROVE  Counts /\ \E i, new, p, m, r, d, done : Clock(i, new, p, m, r, d, done) /\ Records(i, new)
  <2> DEFINE due == [q \in Quads |-> IF q \in mask THEN written[l][q] + 1 ELSE written[l][q]]
  <2>1. PICK i \in Free : Registers(i, fresh("Write", l, mask, due))
    BY <1>4 DEF Write
  <2>2. due \in Words
    BY DEF Typed, Words
  <2>3. written' = [written EXCEPT ![l] = due] /\ accepted < MaxRequests /\ accepted' = accepted + 1
    BY <1>4 DEF Write
  <2>4. \A q \in Quads : due[q] = IF q \in mask THEN written[l][q] + 1 ELSE written[l][q]
    OBVIOUS
  <2> HIDE DEF due
  <2>5. Records(i, fresh("Write", l, mask, due))
    <3> DEFINE new == fresh("Write", l, mask, due)
    <3>1. new.kind = "Write" /\ new.line = l /\ new.mask = mask /\ new.due = due
      BY FreshIs
    <3> HIDE DEF new
    <3>2. Records(i, new)
      BY <2>1, <2>3, <2>4, <3>1 DEF Records
    <3>3. QED
      BY <3>2 DEF new
  <2>6. Arrives(i, fresh("Write", l, mask, due))
    <3>1. mask \in SUBSET Quads /\ "Write" \in Kinds
      BY DepsAssumption DEF Kinds
    <3>2. QED
      BY <2>2, <3>1 DEF Arrives
  <2>7. Counts
    BY <2>2, <2>3, DepsAssumption DEF Counts, Typed
  <2>8. QED
    BY <1>1, <2>1, <2>6, <2>7, <2>5
<1>5. QED
  BY <1>2, <1>3, <1>4 DEF Next

\* A free entry has no register set.
LEMMA FreedTyped == Freed \in EntryType
<1>1. Junk \in Words
  BY DEF Junk, Words
<1>2. QED
  BY <1>1 DEF Freed, EntryType, Ops

\* The registers of an entry that stays, one by one.
LEMMA Stays ==
    ASSUME Typed, NEW i, NEW new, NEW p, NEW m, NEW r, NEW d, NEW done,
           Clock(i, new, p, m, r, d, done),
           NEW j \in Entries, entry[j].valid, j \notin done
    PROVE  /\ entry'[j].valid
           /\ entry'[j].kind = entry[j].kind
           /\ entry'[j].op = nextOp(j, r, d)
           /\ entry'[j].line = IF moves(j) THEN way.line ELSE entry[j].line
           /\ entry'[j].mask = IF isVictim(j) THEN way.dirty ELSE entry[j].mask
           /\ entry'[j].due = entry[j].due
           /\ entry'[j].data = dataNext(j, r)
           /\ entry'[j].dep = depNext(j)
           /\ entry'[j].tail <=> tailNext(j, new.line)
           /\ entry'[j].meshTail <=> meshTailNext(j)
           /\ entry'[j].head <=> headNext(j)
           /\ entry'[j].inMesh <=> (entry[j].inMesh \/ isVictim(j) \/ j \in upgrading)
           /\ entry'[j].setting <=> (setsDont(j, r) \/ (entry[j].setting /\ ~moves(j)))
           /\ entry'[j].dont <=> (~moves(j) /\ (entry[j].dont \/ (entry[j].setting /\ entry[j].dep = None)))
           /\ entry'[j].inflight <=> (picked(j) \/ (entry[j].inflight /\ nextOp(j, r, d) = entry[j].op))
           /\ entry'[j].pipeReady <=> (/\ entry[j].op \in PipeOps /\ entry[j].dep = None
                                     /\ ~entry[j].inflight /\ ~picked(j) /\ j \notin sameAsVictim)
           /\ entry'[j].meshReady <=> (/\ entry[j].op \in MeshOps /\ entry[j].dep = None
                                     /\ ~entry[j].inflight /\ ~picked(j) /\ j \notin insertAhead)
<1>1. entry'[j] = entryNext(j, r, d, new.line)
  <2>1. j # i
    BY DepsAssumption DEF Clock, Arrives, Free
  <2>2. QED
    BY <2>1 DEF Clock, Edge
<1>2. entry[j] \in EntryType
  BY DEF Typed
<1> DEFINE op == nextOp(j, r, d)
           line == IF moves(j) THEN way.line ELSE entry[j].line
           mask == IF isVictim(j) THEN way.dirty ELSE entry[j].mask
           data == dataNext(j, r)
           dep == depNext(j)
           tail == tailNext(j, new.line)
           meshTail == meshTailNext(j)
           head == headNext(j)
           inMesh == entry[j].inMesh \/ isVictim(j) \/ j \in upgrading
           setting == setsDont(j, r) \/ (entry[j].setting /\ ~moves(j))
           dont == ~moves(j) /\ (entry[j].dont \/ (entry[j].setting /\ entry[j].dep = None))
           inflight == picked(j) \/ (entry[j].inflight /\ op = entry[j].op)
           mayGo == entry[j].dep = None /\ ~entry[j].inflight /\ ~picked(j)
           pipeReady == entry[j].op \in PipeOps /\ mayGo /\ j \notin sameAsVictim
           meshReady == entry[j].op \in MeshOps /\ mayGo /\ j \notin insertAhead
<1>3. entry'[j] = [entry[j] EXCEPT !.op = op, !.line = line, !.mask = mask, !.data = data, !.dep = dep,
                     !.tail = tail, !.meshTail = meshTail, !.head = head, !.inMesh = inMesh,
                     !.setting = setting, !.dont = dont, !.inflight = inflight,
                     !.pipeReady = pipeReady, !.meshReady = meshReady]
  BY <1>1 DEF entryNext
<1> DEFINE e == entry[j]  f == entry'[j]
<1>4. f = [valid |-> e.valid, kind |-> e.kind, op |-> op, line |-> line, mask |-> mask,
           due |-> e.due, data |-> data, dep |-> dep, tail |-> tail, meshTail |-> meshTail,
           head |-> head, inMesh |-> inMesh, setting |-> setting, dont |-> dont,
           inflight |-> inflight, pipeReady |-> pipeReady, meshReady |-> meshReady]
  <2> HIDE DEF op, line, mask, data, dep, tail, meshTail, head, inMesh, setting, dont, inflight,
               mayGo, pipeReady, meshReady, e, f
  <2>1. e \in EntryType
    BY <1>2 DEF e
  <2>2. f = [e EXCEPT !.op = op, !.line = line, !.mask = mask, !.data = data, !.dep = dep,
                     !.tail = tail, !.meshTail = meshTail, !.head = head, !.inMesh = inMesh,
                     !.setting = setting, !.dont = dont, !.inflight = inflight,
                     !.pipeReady = pipeReady, !.meshReady = meshReady]
    BY <1>3 DEF e, f
  <2>3. QED
    BY <2>1, <2>2 DEF EntryType
<1> HIDE DEF op, line, mask, data, dep, tail, meshTail, head, inMesh, setting, dont, inflight, mayGo,
             pipeReady, meshReady
<1>5. /\ entry'[j].valid = entry[j].valid /\ entry'[j].kind = entry[j].kind
      /\ entry'[j].due = entry[j].due
      /\ entry'[j].op = op /\ entry'[j].line = line /\ entry'[j].mask = mask
      /\ entry'[j].data = data /\ entry'[j].dep = dep /\ entry'[j].tail = tail
      /\ entry'[j].meshTail = meshTail /\ entry'[j].head = head /\ entry'[j].inMesh = inMesh
      /\ entry'[j].setting = setting /\ entry'[j].dont = dont /\ entry'[j].inflight = inflight
      /\ entry'[j].pipeReady = pipeReady /\ entry'[j].meshReady = meshReady
  BY <1>4
<1>6. QED
  BY <1>5 DEF op, line, mask, data, dep, tail, meshTail, head, inMesh, setting, dont, inflight, mayGo,
              pipeReady, meshReady

\* The phases of all entries.
Phases == InPipeline /\ AtTheMesh /\ ReadyIs /\ LetGo

\* What becomes of an entry: it stays, it takes the request, or it is free.
LEMMA Fate ==
    ASSUME Typed, NEW i, NEW new, NEW p, NEW m, NEW r, NEW d, NEW done,
           Clock(i, new, p, m, r, d, done), NEW j \in Entries
    PROVE  \/ entry[j].valid /\ j \notin done
           \/ /\ j = i /\ ~entry[j].valid /\ entry'[j] = new
              /\ \E kind \in Kinds, l \in Lines, mask \in SUBSET Quads, due \in Words :
                    new = fresh(kind, l, mask, due)
           \/ /\ j # i /\ entry'[j] = Freed /\ ~entry'[j].valid
              /\ ~entry[j].valid \/ (j \in Finishable /\ j \in done)
<1>1. CASE j = i
  <2>1. i \in Free /\ entry'[i] = new
    BY <1>1, DepsAssumption DEF Clock, Arrives, Edge
  <2>2. QED
    BY <1>1, <2>1, DepsAssumption DEF Clock, Arrives, Free
<1>2. CASE j # i /\ (~entry[j].valid \/ j \in done)
  <2>1. entry'[j] = Freed
    BY <1>2 DEF Clock, Edge
  <2>2. QED
    BY <1>2, <2>1 DEF Freed, Clock
<1>3. QED
  BY <1>1, <1>2

\* The entry whose tag response is here was picked, and is past the first clock.
LEMMA TaggedIs ==
    ASSUME PipeTiming, Typed, Phases, tagged # None
    PROVE  /\ tagged \in Entries /\ entry[tagged].valid /\ entry[tagged].op \in PipeOps
           /\ entry[tagged].inflight /\ pipe[1] # tagged
           /\ writesData(tagged) => clears(tagged)
           /\ tagged # granted /\ tagged \notin atMesh
<1>1. Latency \in 1..Latency /\ 1 \in 1..Latency /\ Latency > 1 /\ Latency # 1
  BY DepsAssumption DEF PipeTiming, Timely
<1>2. tagged \in Entries
  BY <1>1 DEF Typed, tagged
<1>3. /\ entry[tagged].valid /\ entry[tagged].op \in PipeOps /\ entry[tagged].inflight
      /\ writesData(tagged) => clears(tagged)
  BY <1>1 DEF Phases, InPipeline, tagged
<1>4. pipe[1] # tagged
  BY <1>1 DEF Typed, tagged
<1>5. tagged \notin atMesh /\ tagged # granted
  BY <1>3 DEF Phases, AtTheMesh, PipeOps, MeshOps
<1>6. QED
  BY <1>2, <1>3, <1>4, <1>5

\* A victim of its own hit is still in its list; one of a miss has let go.
LEMMA VictimIs ==
    ASSUME PipeTiming, Typed, Phases, tagVictim
    PROVE  /\ tagged \in Entries /\ tagged # None /\ entry[tagged].valid
           /\ selfVictim => /\ entry[tagged].op = "First" /\ entry[tagged].kind # "Write"
                            /\ ~entry[tagged].setting /\ ~entry[tagged].dont /\ ~entry[tagged].inMesh
                            /\ dependable(tagged) /\ entry[tagged].line = way.line
           /\ ~selfVictim => /\ writesData(tagged) /\ clears(tagged) /\ ~dependable(tagged)
                             /\ entry[tagged].dep = None /\ moves(tagged)
                             /\ entry[tagged].line # way.line
<1>1. tagged \in Entries /\ tagged # None /\ entry[tagged].valid
  BY TaggedIs DEF tagVictim
<1>2. entry[tagged].op \in PipeOps /\ (writesData(tagged) => clears(tagged))
  BY <1>1, TaggedIs
<1>3. ASSUME selfVictim
      PROVE  /\ entry[tagged].op = "First" /\ entry[tagged].kind # "Write"
             /\ ~entry[tagged].setting /\ ~entry[tagged].dont /\ ~entry[tagged].inMesh
             /\ dependable(tagged) /\ entry[tagged].line = way.line
  <2>1. tagHit /\ ~fill /\ entry[tagged].kind \in {"Read", "Evict", "Flush"}
    BY <1>3 DEF selfVictim, tagVictim
  <2>2. entry[tagged].op = "First"
    BY <1>2, <2>1 DEF PipeOps, fill
  <2>3. ~entry[tagged].setting /\ ~entry[tagged].dont /\ ~entry[tagged].inMesh
    BY <1>1, <2>1, <2>2 DEF Phases, LetGo
  <2>4. QED
    BY <1>1, <2>1, <2>2, <2>3 DEF dependable, clears, tagHit
<1>4. ASSUME ~selfVictim
      PROVE  /\ writesData(tagged) /\ clears(tagged) /\ ~dependable(tagged)
             /\ entry[tagged].dep = None /\ moves(tagged) /\ entry[tagged].line # way.line
  <2>1. ~tagHit /\ writesData(tagged)
    BY <1>4 DEF selfVictim, tagVictim, writesData, fill
  <2>2. clears(tagged)
    BY <1>2, <2>1
  <2>3. QED
    BY <1>1, <2>1, <2>2 DEF dependable, clears, moves, isVictim, tagHit
<1>5. QED
  BY <1>1, <1>3, <1>4

\* The next operation of an entry, the alternatives of nextOp excluding each other.
LEMMA NextOpIs ==
    ASSUME PipeTiming, Typed, Phases, NEW r \in Answerable \union {None}, NEW d \in Reading \union {None},
           NEW j \in Entries, entry[j].valid
    PROVE  /\ entry[j].op = "Initial" => nextOp(j, r, d) = "First"
           /\ j = tagged => /\ entry[j].op \in PipeOps /\ j # d /\ j # r
                            /\ nextOp(j, r, d) =
                                  IF tagVictim
                                  THEN IF fill \/ entry[j].kind = "Write" THEN "MeshVictim" ELSE "MeshWrite"
                                  ELSE IF fill \/ entry[j].kind # "Read" THEN "Done"
                                       ELSE IF tagHit THEN "Hit" ELSE "MeshRead"
           /\ j = d => entry[j].op = "Hit" /\ nextOp(j, r, d) = "Done"
           /\ j = r => /\ entry[j].op \in MeshOps /\ entry[j].inMesh /\ entry[j].dep = None
                       /\ nextOp(j, r, d) =
                             IF entry[j].op = "MeshRead" THEN "Fill"
                             ELSE IF entry[j].op = "MeshWrite" /\ entry[j].kind = "Read" THEN "MeshRead"
                             ELSE "Done"
           /\ entry[j].op # "Initial" /\ j # tagged /\ j # d /\ j # r => nextOp(j, r, d) = entry[j].op
<1>1. j = tagged => entry[j].op \in PipeOps
  BY TaggedIs, DepsAssumption
<1>2. j = d => entry[j].op = "Hit"
  BY DepsAssumption DEF Reading
<1>3. j = r => entry[j].op \in MeshOps /\ entry[j].inMesh /\ entry[j].dep = None
  BY DepsAssumption DEF Answerable, Phases, AtTheMesh
<1>4. CASE entry[j].op = "Initial"
  BY <1>1, <1>2, <1>3, <1>4 DEF nextOp, PipeOps, MeshOps
<1>5. CASE j = tagged
  BY <1>1, <1>2, <1>3, <1>5 DEF nextOp, PipeOps, MeshOps
<1>6. CASE j = d
  BY <1>1, <1>2, <1>3, <1>6 DEF nextOp, PipeOps, MeshOps
<1>7. CASE j = r
  BY <1>1, <1>2, <1>3, <1>7 DEF nextOp, PipeOps, MeshOps
<1>8. CASE entry[j].op # "Initial" /\ j # tagged /\ j # d /\ j # r
  BY <1>8 DEF nextOp
<1>9. QED
  BY <1>1, <1>2, <1>3, <1>4, <1>5, <1>6, <1>7, <1>8

\* The lists with their places, and all of the invariant for these places.
Lists(pos) == DepsInList /\ Ordered(pos) /\ Tails(pos) /\ MeshParts(pos) /\ Heads(pos)
State(pos) == Typed /\ Phases /\ PendsBehindTail /\ Lists(pos)

\* A request that a victim is spliced in front of: the victim comes with a miss,
\* and no request is in the first clock of the pipeline.
LEMMA SplicedIs ==
    ASSUME PipeTiming, NEW pos \in [Entries -> Nat], State(pos), NEW j \in insertAhead
    PROVE  /\ j \in Entries /\ j # tagged /\ dependable(j) /\ ~entry[j].inMesh
           /\ entry[j].line = way.line
           /\ tagVictim /\ ~selfVictim /\ pipe[1] = None /\ writesData(tagged)
           /\ \A x \in nonMesh : pos[j] <= pos[x]
<1>1. /\ j \in nonMesh /\ j \in Entries /\ j # tagged /\ dependable(j) /\ ~entry[j].inMesh
      /\ entry[j].line = way.line /\ tagVictim
  BY DEF insertAhead, nonMesh, sameAsVictim
<1>2. ASSUME NEW x \in Entries, InFront(j, x)
      PROVE  pos[j] <= pos[x]
  <2>1. CASE entry[j].head
    BY <1>1, <1>2, <2>1 DEF State, Lists, Heads
  <2>2. CASE entry[j].dep \in Entries /\ clears(entry[j].dep)
    <3>1. ~Waits(j)
      BY <2>2 DEF Waits, dependable
    <3>2. QED
      BY <1>1, <1>2, <3>1 DEF State, Lists, Ordered, InFront
  <2>3. QED
    BY <2>1, <2>2 DEF insertAhead
<1>3. ~selfVictim
  <2>1. SUFFICES ASSUME selfVictim PROVE FALSE
    OBVIOUS
  <2>2. tagged \in Entries /\ InFront(j, tagged) /\ InFront(tagged, j) /\ tagged # None
    BY <1>1, <2>1, VictimIs DEF State, InFront, Listed
  <2>3. pos[tagged] <= pos[j]
    <3>1. Latency \in 1..Latency
      BY DepsAssumption
    <3>2. QED
      BY <1>1, <2>2, <3>1 DEF State, Lists, Heads, tagged
  <2>4. pos[j] = pos[tagged]
    BY <1>1, <1>2, <2>2, <2>3
  <2>5. QED
    BY <1>1, <2>2, <2>4 DEF State, Lists, Ordered, InFront
<1>4. pipe[1] = None /\ writesData(tagged)
  BY <1>1, <1>3, VictimIs DEF State, Phases, InPipeline
<1>5. ASSUME NEW x \in nonMesh PROVE x \in Entries /\ InFront(j, x)
  BY <1>1, <1>5 DEF nonMesh, sameAsVictim, InFront, Listed
<1>6. QED
  BY <1>1, <1>2, <1>3, <1>4, <1>5

\* The dependency of an entry that waits for nobody and is neither victim nor
\* spliced stays that way.
LEMMA StaysFree ==
    ASSUME NEW j \in Entries, entry[j].dep = None, j # tagged \/ ~tagVictim, j \notin insertAhead
    PROVE  depNext(j) = None
BY DepsAssumption DEF depNext, depCleared, isVictim

\* What becomes ready in a clock waits for nobody.
LEMMA ReadyKept ==
    ASSUME PipeTiming, NEW pos \in [Entries -> Nat], State(pos),
           NEW i, NEW new, NEW p, NEW m, NEW r, NEW d, NEW done,
           Clock(i, new, p, m, r, d, done)
    PROVE  ReadyIs'
<1>0. Typed /\ Phases /\ r \in Answerable \union {None} /\ d \in Reading \union {None}
  BY DEF State, Clock
<1> SUFFICES ASSUME NEW j \in Entries
             PROVE  /\ entry'[j].pipeReady => /\ entry'[j].valid /\ entry'[j].op \in PipeOps
                                              /\ entry'[j].dep = None /\ ~entry'[j].inflight
                    /\ entry'[j].meshReady =>
                            /\ entry'[j].valid /\ entry'[j].op \in MeshOps /\ entry'[j].inMesh
                            /\ entry'[j].dep = None /\ ~entry'[j].inflight
  BY DEF ReadyIs
<1>1. CASE entry'[j] = Freed
  BY <1>1 DEF Freed
<1>2. CASE entry'[j] = new /\ \E kind \in Kinds, l \in Lines, mask \in SUBSET Quads, due \in Words :
                                new = fresh(kind, l, mask, due)
  BY <1>2, FreshIs
<1>3. CASE entry[j].valid /\ j \notin done
  <2>1. ASSUME entry'[j].pipeReady
        PROVE  entry'[j].op \in PipeOps /\ entry'[j].dep = None /\ ~entry'[j].inflight
    <3>1. /\ entry[j].op \in PipeOps /\ entry[j].dep = None /\ ~entry[j].inflight /\ ~picked(j)
          /\ j \notin sameAsVictim
      BY <1>0, <1>3, <2>1, Stays
    <3>2. j # tagged
      BY <1>0, <3>1, TaggedIs, DepsAssumption
    <3>3. nextOp(j, r, d) = entry[j].op
      BY <1>0, <1>3, <3>1, <3>2, NextOpIs DEF PipeOps, MeshOps
    <3>4. depNext(j) = None
      BY <3>1, <3>2, StaysFree DEF insertAhead, nonMesh
    <3>5. QED
      BY <1>0, <1>3, <3>1, <3>3, <3>4, Stays
  <2>2. ASSUME entry'[j].meshReady
        PROVE  /\ entry'[j].op \in MeshOps /\ entry'[j].inMesh
               /\ entry'[j].dep = None /\ ~entry'[j].inflight
    <3>1. /\ entry[j].op \in MeshOps /\ entry[j].dep = None /\ ~entry[j].inflight /\ ~picked(j)
          /\ j \notin insertAhead
      BY <1>0, <1>3, <2>2, Stays
    <3>2. j # tagged /\ j # r
      BY <1>0, <3>1, TaggedIs, DepsAssumption DEF Phases, AtTheMesh, Answerable
    <3>3. nextOp(j, r, d) = entry[j].op
      BY <1>0, <1>3, <3>1, <3>2, NextOpIs DEF PipeOps, MeshOps
    <3>4. depNext(j) = None
      BY <3>1, <3>2, StaysFree
    <3>5. entry[j].inMesh \/ j \in upgrading
      BY <1>3, <3>1 DEF upgrading
    <3>6. QED
      BY <1>0, <1>3, <3>1, <3>3, <3>4, <3>5, Stays
  <2>3. QED
    BY <1>0, <1>3, <2>1, <2>2, Stays
<1>4. QED
  BY <1>0, <1>1, <1>2, <1>3, Fate

\* What is at the mesh stays as it is until the answer.
LEMMA AtTheMeshKept ==
    ASSUME PipeTiming, NEW pos \in [Entries -> Nat], State(pos),
           NEW i, NEW new, NEW p, NEW m, NEW r, NEW d, NEW done,
           Clock(i, new, p, m, r, d, done)
    PROVE  AtTheMesh' /\ atMesh' \subseteq Entries /\ granted' \in Entries \union {None}
<1>0. Typed /\ Phases /\ r \in Answerable \union {None} /\ d \in Reading \union {None}
  BY DEF State, Clock
<1>1. granted' = m /\ atMesh' = (atMesh \ {r}) \union ({m} \ {None}) /\ m \in Grantable \union {None}
  BY DEF Clock, Edge
<1>2. ASSUME NEW j \in atMesh'
      PROVE  /\ j \in Entries /\ j # r /\ j # tagged /\ entry[j].valid /\ entry[j].op \in MeshOps
             /\ entry[j].inMesh /\ entry[j].dep = None
             /\ j # m /\ j # granted => entry[j].inflight
  <2>1. CASE j = m
    <3>1. j \in Entries /\ entry[j].meshReady
      BY <1>0, <1>1, <1>2, <2>1, DepsAssumption DEF Grantable, Typed
    <3>2. /\ entry[j].valid /\ entry[j].op \in MeshOps /\ entry[j].inMesh
          /\ entry[j].dep = None /\ ~entry[j].inflight
      BY <1>0, <3>1 DEF Phases, ReadyIs
    <3>3. j # tagged /\ j # r
      BY <1>0, <3>1, <3>2, TaggedIs, DepsAssumption DEF Phases, AtTheMesh, Answerable
    <3>4. QED
      BY <2>1, <3>1, <3>2, <3>3
  <2>2. CASE j # m
    <3>1. j \in atMesh /\ j # r
      BY <1>1, <1>2, <2>2
    <3>2. j \in Entries /\ j # tagged
      BY <1>0, <3>1, TaggedIs, DepsAssumption DEF Typed
    <3>3. QED
      BY <1>0, <3>1, <3>2 DEF Phases, AtTheMesh
  <2>3. QED
    BY <2>1, <2>2
<1>3. ASSUME NEW j \in atMesh'
      PROVE  /\ entry'[j].valid /\ entry'[j].op \in MeshOps /\ entry'[j].inMesh
             /\ entry'[j].dep = None /\ (j # granted' => entry'[j].inflight)
  <2>1. j \notin done
    BY <1>2 DEF Clock, Finishable, finishable, MeshOps
  <2>2. nextOp(j, r, d) = entry[j].op
    BY <1>0, <1>2, NextOpIs DEF MeshOps
  <2>3. depNext(j) = None
    <3>1. j \notin insertAhead
      BY <1>2, SplicedIs
    <3>2. QED
      BY <1>2, <3>1, StaysFree
  <2>4. QED
    BY <1>0, <1>1, <1>2, <2>1, <2>2, <2>3, Stays DEF picked
<1>4. QED
  BY <1>1, <1>2, <1>3 DEF AtTheMesh, Grantable

\* What is in the pipeline goes on to its tag response, one entry for each clock.
LEMMA InPipelineKept ==
    ASSUME PipeTiming, NEW pos \in [Entries -> Nat], State(pos),
           NEW i, NEW new, NEW p, NEW m, NEW r, NEW d, NEW done,
           Clock(i, new, p, m, r, d, done)
    PROVE  /\ InPipeline'
           /\ pipe' \in [1..Latency -> Entries \union {None}]
           /\ (\A j, k \in 1..Latency : pipe[j] = pipe[k] /\ pipe[j] # None => j = k)'
<1>0. /\ Typed /\ Phases /\ r \in Answerable \union {None} /\ d \in Reading \union {None}
      /\ p \in Pickable \union {None} /\ Latency \in Nat /\ Latency > 2
  BY DepsAssumption DEF State, Clock, PipeTiming, Timely
<1>1. pipe' = [k \in 1..Latency |-> IF k = 1 THEN p ELSE pipe[k - 1]]
  BY DEF Clock, Edge
<1>2. ASSUME p # None
      PROVE  /\ p \in Entries /\ entry[p].valid /\ entry[p].op \in PipeOps /\ entry[p].dep = None
             /\ ~entry[p].inflight /\ (tagged # None => ~writesData(tagged))
             /\ \A k \in 1..Latency : pipe[k] # p
             /\ pipe[Latency - 1] # None => ~writesData(pipe[Latency - 1])
  <2>1. p \in Entries /\ entry[p].pipeReady /\ \A k \in 1..Latency : ~occupied(k)
    BY <1>0, <1>2 DEF Pickable
  <2>2. /\ entry[p].valid /\ entry[p].op \in PipeOps /\ entry[p].dep = None /\ ~entry[p].inflight
    BY <1>0, <2>1 DEF Phases, ReadyIs
  <2>3. pipe[1] = None /\ (tagged # None => ~writesData(tagged))
    BY <1>0, <2>1 DEF occupied, PipeTiming, Timely, tagged
  <2>4. pipe[Latency - 1] # None => ~writesData(pipe[Latency - 1])
    <3>1. Latency - 1 \in 1..Latency
      BY <1>0
    <3>2. QED
      BY <2>1, <3>1 DEF occupied, PipeTiming, Timely
  <2>5. ASSUME NEW k \in 1..Latency PROVE pipe[k] # p
    BY <1>0, <1>2, <2>2, <2>3 DEF Phases, InPipeline
  <2>6. QED
    BY <2>1, <2>2, <2>3, <2>4, <2>5
<1>3. ASSUME NEW j \in Entries, entry[j].valid, entry[j].op \in PipeOps, j # tagged
      PROVE  /\ entry'[j].valid /\ entry'[j].op = entry[j].op /\ entry'[j].kind = entry[j].kind
             /\ j \notin insertAhead /\ entry[j].dep = None => entry'[j].dep = None
             /\ picked(j) \/ entry[j].inflight => entry'[j].inflight
             /\ setsDont(j, r) \/ entry[j].setting => entry'[j].setting
             /\ entry[j].dont => entry'[j].dont
  <2>1. j \notin done
    BY <1>3 DEF Clock, Finishable, finishable, PipeOps
  <2>2. nextOp(j, r, d) = entry[j].op
    BY <1>0, <1>3, NextOpIs DEF PipeOps, MeshOps
  <2>3. ~moves(j)
    BY <1>3 DEF moves, isVictim
  <2>4. QED
    BY <1>0, <1>3, <2>1, <2>2, <2>3, Stays, StaysFree
<1>4. ASSUME NEW k \in 1..Latency, pipe'[k] # None
      PROVE  LET j == pipe[k]
             IN (/\ j \in Entries /\ entry[j].valid /\ entry[j].op \in PipeOps
                 /\ k = 1 => entry[j].dep = None
                 /\ k > 1 => entry[j].inflight /\ (writesData(j) => clears(j)))'
  <2> DEFINE j == pipe'[k]
  <2>1. CASE k = 1
    <3>1. j = p /\ p # None
      BY <1>1, <1>4, <2>1
    <3>2. p # tagged
      <4>1. Latency \in 1..Latency
        BY <1>0
      <4>2. QED
        BY <1>2, <3>1, <4>1 DEF tagged
    <3>3. p \notin insertAhead
      BY <1>2, <3>1, SplicedIs DEF tagVictim
    <3>4. QED
      BY <1>2, <1>3, <2>1, <3>1, <3>2, <3>3
  <2>2. CASE k > 1
    <3>1. k - 1 \in 1..Latency /\ j = pipe[k - 1] /\ k - 1 # Latency
      BY <1>0, <1>1, <2>2
    <3>2. j \in Entries /\ j # tagged
      <4>1. Latency \in 1..Latency
        BY <1>0
      <4>2. QED
        BY <1>0, <1>4, <3>1, <4>1, DepsAssumption DEF Typed, tagged
    <3>3. /\ entry[j].valid /\ entry[j].op \in PipeOps
          /\ k - 1 = 1 => entry[j].dep = None
          /\ k - 1 > 1 => entry[j].inflight /\ (writesData(j) => clears(j))
      BY <1>0, <1>4, <3>1 DEF Phases, InPipeline
    <3>4. /\ entry'[j].valid /\ entry'[j].op = entry[j].op /\ entry'[j].kind = entry[j].kind
          /\ picked(j) \/ entry[j].inflight => entry'[j].inflight
          /\ setsDont(j, r) \/ entry[j].setting => entry'[j].setting
          /\ entry[j].dont => entry'[j].dont
          /\ j \notin insertAhead /\ entry[j].dep = None => entry'[j].dep = None
      BY <1>3, <3>2, <3>3
    <3>5. CASE k - 1 = 1
      <4>1. pipe[1] = j /\ picked(j) /\ entry[j].dep = None
        BY <3>1, <3>3, <3>5 DEF picked
      <4>2. j \notin insertAhead
        BY <1>4, <4>1, SplicedIs
      <4>3. writesData(j) => setsDont(j, r)
        BY <1>0, <3>2, <3>3, <4>1 DEF writesData, setsDont, Phases, LetGo
      <4>4. QED
        BY <2>2, <3>2, <3>3, <3>4, <4>1, <4>2, <4>3 DEF writesData, clears
    <3>6. CASE k - 1 > 1
      <4>1. writesData(j) => j \notin insertAhead
        BY <3>3, <3>6, SplicedIs DEF dependable
      <4>2. QED
        BY <2>2, <3>2, <3>3, <3>4, <3>6, <4>1 DEF writesData, clears
    <3>7. QED
      BY <2>2, <3>5, <3>6
  <2>3. QED
    BY <1>0, <2>1, <2>2
<1>5. ASSUME pipe'[1] # None, tagged' # None PROVE ~writesData(tagged)'
  <2>1. p # None /\ tagged' = pipe[Latency - 1] /\ Latency - 1 \in 1..Latency /\ Latency - 1 # Latency
    BY <1>0, <1>1, <1>5 DEF tagged
  <2>2. pipe[Latency - 1] \in Entries /\ ~writesData(pipe[Latency - 1])
    BY <1>0, <1>2, <1>5, <2>1 DEF Typed
  <2>3. /\ entry[pipe[Latency - 1]].valid /\ entry[pipe[Latency - 1]].op \in PipeOps
        /\ pipe[Latency - 1] # tagged
    <3>1. Latency \in 1..Latency
      BY <1>0
    <3>2. QED
      BY <1>0, <1>5, <2>1, <3>1 DEF Phases, InPipeline, Typed, tagged
  <2>4. /\ entry'[pipe[Latency - 1]].op = entry[pipe[Latency - 1]].op
        /\ entry'[pipe[Latency - 1]].kind = entry[pipe[Latency - 1]].kind
    BY <1>3, <2>2, <2>3
  <2>5. QED
    BY <2>1, <2>2, <2>4 DEF writesData
<1>6. pipe' \in [1..Latency -> Entries \union {None}]
  <2>1. ASSUME NEW k \in 1..Latency PROVE (IF k = 1 THEN p ELSE pipe[k - 1]) \in Entries \union {None}
    <3>1. p \in Entries \union {None}
      BY <1>2
    <3>2. pipe \in [1..Latency -> Entries \union {None}]
      BY <1>0 DEF Typed
    <3>3. k # 1 => k - 1 \in 1..Latency
      BY <1>0
    <3>4. QED
      BY <3>1, <3>2, <3>3
  <2>2. QED
    BY <1>1, <2>1
<1>7. ASSUME NEW j \in 1..Latency, NEW k \in 1..Latency, pipe'[j] = pipe'[k], pipe'[j] # None
      PROVE  j = k
  <2>1. CASE j = 1 \/ k = 1
    <3>1. ASSUME NEW x \in 1..Latency, x # 1 PROVE pipe'[x] # p \/ p = None
      BY <1>0, <1>1, <1>2, <3>1
    <3>2. pipe'[1] = p
      BY <1>0, <1>1
    <3>3. QED
      BY <1>7, <2>1, <3>1, <3>2
  <2>2. CASE j # 1 /\ k # 1
    <3>1. j - 1 \in 1..Latency /\ k - 1 \in 1..Latency /\ pipe[j - 1] = pipe[k - 1] /\ pipe[j - 1] # None
      BY <1>0, <1>1, <1>7, <2>2
    <3>2. QED
      BY <1>0, <3>1 DEF Typed
  <2>3. QED
    BY <2>1, <2>2
<1>8. QED
  BY <1>4, <1>5, <1>6, <1>7 DEF InPipeline

\* An entry lets go of its line no earlier than its phase allows.
LEMMA LetGoKept ==
    ASSUME PipeTiming, NEW pos \in [Entries -> Nat], State(pos),
           NEW i, NEW new, NEW p, NEW m, NEW r, NEW d, NEW done,
           Clock(i, new, p, m, r, d, done)
    PROVE  LetGo'
<1>0. Typed /\ Phases /\ r \in Answerable \union {None} /\ d \in Reading \union {None}
  BY DEF State, Clock
<1> DEFINE Kept(j) ==
      /\ entry[j].op \in MeshOps \union {"Initial"} => ~entry[j].setting /\ ~entry[j].dont
      /\ entry[j].op = "First" /\ (entry[j].setting \/ entry[j].dont) => entry[j].kind = "Write"
      /\ entry[j].op \in {"Initial", "First"} => ~entry[j].inMesh
      /\ entry[j].op \in {"MeshRead", "Fill"} => entry[j].kind = "Read"
      /\ entry[j].op = "Fill" => entry[j].inMesh
      /\ entry[j].dont => entry[j].dep = None
<1> SUFFICES ASSUME NEW j \in Entries, entry'[j].valid PROVE Kept(j)'
  BY DEF LetGo
<1>1. CASE entry'[j] = Freed
  BY <1>1 DEF Freed
<1>2. CASE entry'[j] = new /\ \E kind \in Kinds, l \in Lines, mask \in SUBSET Quads, due \in Words :
                                new = fresh(kind, l, mask, due)
  BY <1>2, FreshIs DEF MeshOps
<1>3. CASE entry[j].valid /\ j \notin done
  <2>1. Kept(j)
    BY <1>0, <1>3 DEF Phases, LetGo
  <2>2. /\ entry'[j].op = nextOp(j, r, d) /\ entry'[j].kind = entry[j].kind
        /\ entry'[j].dep = depNext(j)
        /\ entry'[j].inMesh <=> (entry[j].inMesh \/ isVictim(j) \/ j \in upgrading)
        /\ entry'[j].setting <=> (setsDont(j, r) \/ (entry[j].setting /\ ~moves(j)))
        /\ entry'[j].dont <=> (~moves(j) /\ (entry[j].dont \/ (entry[j].setting /\ entry[j].dep = None)))
    BY <1>0, <1>3, Stays
  <2>3. pipe[1] = j => entry[j].op \in PipeOps
    <3>1. 1 \in 1..Latency
      BY DepsAssumption
    <3>2. QED
      BY <1>0, <3>1, DepsAssumption DEF Phases, InPipeline
  <2>4. entry'[j].dont => entry'[j].dep = None
    <3>1. SUFFICES ASSUME entry'[j].dont PROVE depNext(j) = None
      BY <2>2
    <3>2. entry[j].dep = None /\ (entry[j].setting \/ entry[j].dont) /\ ~moves(j)
      BY <2>1, <2>2, <3>1
    <3>3. j # tagged \/ ~tagVictim
      BY <1>0, <3>2, VictimIs
    <3>4. j \notin insertAhead
      BY <3>2, SplicedIs DEF dependable, clears
    <3>5. QED
      BY <3>2, <3>3, <3>4, StaysFree
  <2>5. CASE j = tagged /\ tagVictim
    <3>1. entry'[j].op = IF fill \/ entry[j].kind = "Write" THEN "MeshVictim" ELSE "MeshWrite"
      BY <1>0, <1>3, <2>2, <2>5, NextOpIs
    <3>2. entry[j].op \in PipeOps /\ j # r /\ pipe[1] # j
      BY <1>0, <1>3, <2>5, NextOpIs, TaggedIs, DepsAssumption
    <3>3. ~setsDont(j, r)
      BY <2>5, <3>2 DEF setsDont, PipeOps
    <3>4. ~entry'[j].setting /\ ~entry'[j].dont
      BY <1>0, <2>2, <2>5, <3>3, VictimIs
    <3>5. QED
      BY <2>2, <2>4, <3>1, <3>4
  <2>6. CASE j = tagged /\ ~tagVictim
    <3>1. entry'[j].op = IF fill \/ entry[j].kind # "Read" THEN "Done"
                         ELSE IF tagHit THEN "Hit" ELSE "MeshRead"
      BY <1>0, <1>3, <2>2, <2>6, NextOpIs
    <3>2. entry[j].op \in PipeOps /\ j # r /\ pipe[1] # j
      BY <1>0, <1>3, <2>6, NextOpIs, TaggedIs, DepsAssumption
    <3>3. CASE entry'[j].op = "MeshRead"
      <4>1. entry[j].op = "First" /\ entry[j].kind = "Read" /\ ~tagHit
        BY <2>6, <3>1, <3>2, <3>3 DEF PipeOps, fill
      <4>2. ~setsDont(j, r)
        BY <3>2, <4>1 DEF setsDont
      <4>3. QED
        BY <2>1, <2>2, <2>4, <3>3, <4>1, <4>2
    <3>4. CASE entry'[j].op # "MeshRead"
      BY <2>4, <3>1, <3>4 DEF MeshOps
    <3>5. QED
      BY <3>3, <3>4
  <2>7. CASE j = r
    <3>1. /\ entry[j].op \in MeshOps /\ entry[j].inMesh
          /\ entry'[j].op = IF entry[j].op = "MeshRead" THEN "Fill"
                            ELSE IF entry[j].op = "MeshWrite" /\ entry[j].kind = "Read" THEN "MeshRead"
                            ELSE "Done"
      BY <1>0, <1>3, <2>2, <2>7, NextOpIs
    <3>2. CASE entry'[j].op = "MeshRead"
      <4>1. entry[j].op = "MeshWrite" /\ entry[j].kind = "Read"
        BY <3>1, <3>2
      <4>2. j # tagged
        BY <1>0, <3>1, TaggedIs, DepsAssumption DEF PipeOps, MeshOps
      <4>3. ~setsDont(j, r)
        BY <4>1, <4>2 DEF setsDont
      <4>4. QED
        BY <2>1, <2>2, <2>4, <3>2, <4>1, <4>3 DEF MeshOps
    <3>3. CASE entry'[j].op # "MeshRead"
      BY <2>1, <2>2, <2>4, <3>1, <3>3 DEF MeshOps
    <3>4. QED
      BY <3>2, <3>3
  <2>8. CASE j = d
    <3>1. entry'[j].op = "Done"
      BY <1>0, <1>3, <2>2, <2>8, NextOpIs
    <3>2. QED
      BY <2>4, <3>1 DEF MeshOps
  <2>9. CASE entry[j].op = "Initial"
    <3>1. entry'[j].op = "First" /\ j # tagged /\ j # r
      BY <1>0, <1>3, <2>2, <2>9, NextOpIs DEF PipeOps, MeshOps
    <3>2. ~isVictim(j) /\ j \notin upgrading
      BY <2>9, <3>1 DEF isVictim, upgrading, MeshOps
    <3>3. ~setsDont(j, r)
      BY <2>3, <2>9, <3>1 DEF setsDont, PipeOps
    <3>4. QED
      BY <2>1, <2>2, <2>4, <2>9, <3>1, <3>2, <3>3 DEF MeshOps
  <2>10. CASE entry[j].op # "Initial" /\ j # tagged /\ j # r /\ j # d
    <3>1. entry'[j].op = entry[j].op /\ ~moves(j) /\ ~isVictim(j)
      BY <1>0, <1>3, <2>2, <2>10, NextOpIs DEF moves, isVictim
    <3>2. entry[j].op \in MeshOps => ~setsDont(j, r)
      BY <2>3, <2>10 DEF setsDont, PipeOps, MeshOps
    <3>3. entry[j].op = "First" /\ setsDont(j, r) => entry[j].kind = "Write"
      BY <2>10 DEF setsDont
    <3>4. entry[j].op = "First" => j \notin upgrading
      BY DEF upgrading, MeshOps
    <3>5. QED
      BY <2>1, <2>2, <2>4, <2>10, <3>1, <3>2, <3>3, <3>4
  <2>11. QED
    BY <2>5, <2>6, <2>7, <2>8, <2>9, <2>10
<1>4. QED
  BY <1>0, <1>1, <1>2, <1>3, Fate

-----------------------------------------------------------------------------
\* A victim that comes with a miss leaves its list for that of the other line.
Mover == tagVictim /\ ~selfVictim

\* The entry whose tag response is here sets nothing but on a hit of a read.
LEMMA VictimSets ==
    ASSUME PipeTiming, Typed, Phases, tagVictim,
           NEW r \in Answerable \union {None}, NEW d \in Reading \union {None}
    PROVE  ~setsDont(tagged, r)
<1>1. entry[tagged].op \in PipeOps /\ pipe[1] # tagged /\ tagged \in Entries /\ tagged # None
  BY TaggedIs DEF tagVictim
<1>2. tagged # r
  BY <1>1, TaggedIs DEF Answerable, tagVictim
<1>3. QED
  BY <1>1, <1>2 DEF setsDont, PipeOps

\* Who is in a list after the clock: who was in it before, the victim of a miss,
\* and the request allocated. Only who waited for nobody may leave.
LEMMA WhoIsListed ==
    ASSUME PipeTiming, NEW pos \in [Entries -> Nat], State(pos),
           NEW i, NEW new, NEW p, NEW m, NEW r, NEW d, NEW done,
           Clock(i, new, p, m, r, d, done), NEW j \in Entries
    PROVE  /\ dependable(j)' =>
                 \/ dependable(j) /\ entry[j].valid /\ j \notin done /\ ~moves(j) /\ j # i
                 \/ Mover /\ j = tagged /\ entry[j].valid /\ j \notin done /\ j # i
                 \/ j = i /\ i \in Free
           /\ dependable(j) /\ ~dependable(j)' => ~Waits(j) /\ clears(j)'
           /\ Mover /\ j = tagged => dependable(j)'
           /\ j = i /\ i \in Free => dependable(j)'
<1>0. /\ Typed /\ Phases /\ r \in Answerable \union {None} /\ d \in Reading \union {None}
      /\ i = None \/ i \in Free
  BY DEF State, Clock, Arrives
<1>1. CASE entry'[j] = Freed /\ (~entry[j].valid \/ (j \in Finishable /\ j \in done)) /\ j # i
  <2>1. ~dependable(j)' /\ ~dependable(j)
    BY <1>1 DEF Freed, dependable, Finishable, finishable
  <2>2. ~(Mover /\ j = tagged)
    BY <1>0, <1>1, TaggedIs DEF Mover, tagVictim, Finishable, finishable, PipeOps
  <2>3. QED
    BY <1>1, <2>1, <2>2
<1>2. CASE /\ j = i /\ ~entry[j].valid /\ entry'[j] = new
           /\ \E kind \in Kinds, l \in Lines, mask \in SUBSET Quads, due \in Words :
                 new = fresh(kind, l, mask, due)
  <2>1. dependable(j)' /\ ~dependable(j) /\ i \in Free
    BY <1>2, FreshIs DEF dependable, clears, Free
  <2>2. QED
    BY <1>2, <2>1
<1>3. CASE entry[j].valid /\ j \notin done
  <2>1. j # i
    BY <1>0, <1>3, DepsAssumption DEF Free
  <2>2. /\ entry'[j].valid /\ entry'[j].dep = depNext(j)
        /\ entry'[j].setting <=> (setsDont(j, r) \/ (entry[j].setting /\ ~moves(j)))
        /\ entry'[j].dont <=> (~moves(j) /\ (entry[j].dont \/ (entry[j].setting /\ entry[j].dep = None)))
    BY <1>0, <1>3, Stays
  <2>3. CASE Mover /\ j = tagged
    <3>1. moves(j) /\ ~dependable(j) /\ ~setsDont(j, r)
      BY <1>0, <2>3, VictimIs, VictimSets DEF Mover
    <3>2. dependable(j)'
      BY <2>2, <3>1 DEF dependable, clears
    <3>3. QED
      BY <1>3, <2>1, <2>3, <3>1, <3>2
  <2>4. CASE ~(Mover /\ j = tagged)
    <3>1. ~moves(j)
      BY <2>4 DEF moves, isVictim, Mover, selfVictim
    <3>2. ~dependable(j) => ~dependable(j)'
      BY <1>3, <2>2, <3>1 DEF dependable, clears
    <3>3. ASSUME dependable(j), ~dependable(j)' PROVE ~Waits(j) /\ clears(j)'
      <4>1. ~entry'[j].dont /\ clears(j)'
        BY <1>3, <2>2, <3>1, <3>3 DEF dependable, clears
      <4>2. depNext(j) = None /\ (setsDont(j, r) \/ entry[j].setting)
        BY <2>2, <4>1 DEF clears
      <4>3. ~isVictim(j)
        <5>1. SUFFICES ASSUME tagVictim, j = tagged, selfVictim PROVE FALSE
          BY <2>4 DEF isVictim, Mover
        <5>2. QED
          BY <1>0, <4>2, <5>1, VictimIs, VictimSets
      <4>4. j \notin insertAhead
        BY <4>2, <4>3, SplicedIs, VictimIs, <1>0, DepsAssumption DEF depNext
      <4>5. depCleared(j) \/ entry[j].dep = None
        BY <4>2, <4>3, <4>4 DEF depNext
      <4>6. QED
        BY <4>1, <4>5, DepsAssumption DEF depCleared, Waits, dependable
    <3>4. QED
      BY <1>3, <2>1, <2>4, <3>1, <3>2, <3>3
  <2>5. QED
    BY <2>3, <2>4
<1>4. QED
  BY <1>0, <1>1, <1>2, <1>3, Fate

\* Whoever is in a list before the clock is still there as an entry.
LEMMA MemberStays ==
    ASSUME PipeTiming, Typed, Phases,
           NEW i, NEW new, NEW p, NEW m, NEW r, NEW d, NEW done,
           Clock(i, new, p, m, r, d, done), NEW j \in Entries, dependable(j)
    PROVE  /\ entry[j].valid /\ j \notin done /\ j # i /\ ~moves(j)
           /\ entry'[j].valid /\ ~entry'[j].dont /\ entry'[j].line = entry[j].line
<1>1. entry[j].valid /\ j \notin done /\ j # i
  BY DepsAssumption DEF dependable, Clock, Arrives, Free, Finishable, finishable
<1>2. ~moves(j)
  BY VictimIs DEF moves, isVictim, selfVictim
<1>3. QED
  BY <1>1, <1>2, Stays DEF dependable, clears

\* The request a victim is spliced in front of stays in its list, behind the victim.
LEMMA SplicedStays ==
    ASSUME PipeTiming, NEW pos \in [Entries -> Nat], State(pos),
           NEW i, NEW new, NEW p, NEW m, NEW r, NEW d, NEW done,
           Clock(i, new, p, m, r, d, done), NEW j \in insertAhead
    PROVE  dependable(j)' /\ entry'[j].dep = tagged
<1>1. j \in Entries /\ j # tagged /\ dependable(j) /\ tagVictim
  BY SplicedIs
<1>2. tagged \in Entries /\ tagged # None
  BY <1>1, VictimIs DEF State
<1>3. depNext(j) = tagged
  BY <1>1 DEF depNext, isVictim
<1>4. entry'[j].valid /\ ~entry'[j].dont /\ entry'[j].dep = depNext(j)
  BY <1>1, MemberStays, Stays DEF State
<1>5. QED
  BY <1>2, <1>3, <1>4 DEF dependable, clears

\* A victim waits for the last of its line at the mesh, if there are any.
LEMMA VictimDepIs ==
    ASSUME PipeTiming, NEW pos \in [Entries -> Nat], State(pos), tagVictim
    PROVE  /\ victimDep = None => \A x \in Entries : dependable(x) /\ entry[x].line = way.line => ~entry[x].inMesh
           /\ victimDep # None =>
                 /\ victimDep \in meshTails
                 /\ \A x \in Entries : dependable(x) /\ entry[x].line = way.line /\ entry[x].inMesh
                                        => pos[x] <= pos[victimDep]
           /\ \A x \in meshTails : /\ x \in Entries /\ dependable(x) /\ entry[x].inMesh /\ entry[x].meshTail
                                    /\ entry[x].line = way.line /\ x # tagged
<1>1. ASSUME NEW x \in meshTails
      PROVE  /\ x \in Entries /\ dependable(x) /\ entry[x].inMesh /\ entry[x].meshTail
             /\ entry[x].line = way.line /\ x # tagged
  BY <1>1 DEF meshTails, sameAsVictim, State, Lists, MeshParts
<1>2. ASSUME NEW x \in Entries, dependable(x), entry[x].line = way.line, entry[x].inMesh
      PROVE  meshTails # {}
  <2>1. PICK t \in Entries : Listed(x, t) /\ entry[t].meshTail
    BY <1>2 DEF State, Lists, MeshParts
  <2>2. entry[t].inMesh
    BY <2>1 DEF State, Lists, MeshParts, Listed
  <2>3. t # tagged
    BY <2>1, <2>2, VictimIs DEF State, Listed
  <2>4. QED
    BY <1>2, <2>1, <2>3 DEF meshTails, sameAsVictim, Listed, dependable
<1>3. meshTails # {} => victimDep \in meshTails
  BY DEF victimDep
<1>4. meshTails = {} => victimDep = None
  BY DEF victimDep
<1>5. ASSUME NEW x \in Entries, dependable(x), entry[x].line = way.line, entry[x].inMesh,
             NEW t \in meshTails
      PROVE  pos[x] <= pos[t]
  BY <1>1, <1>5 DEF State, Lists, MeshParts, InMesh, Listed
<1>6. meshTails # {} => victimDep # None
  BY <1>1, <1>3, DepsAssumption
<1>7. ASSUME victimDep # None
      PROVE  /\ victimDep \in meshTails
             /\ \A x \in Entries : dependable(x) /\ entry[x].line = way.line /\ entry[x].inMesh
                                    => pos[x] <= pos[victimDep]
  <2>1. victimDep \in meshTails
    BY <1>3, <1>4, <1>7
  <2>2. QED
    BY <1>5, <2>1
<1>8. ASSUME victimDep = None, NEW x \in Entries, dependable(x), entry[x].line = way.line
      PROVE  ~entry[x].inMesh
  BY <1>2, <1>6, <1>8
<1>9. QED
  BY <1>1, <1>7, <1>8

\* When a victim comes with a miss, the first of its line that are not at the
\* mesh is the one it is spliced in front of.
LEMMA FrontIs ==
    ASSUME PipeTiming, NEW pos \in [Entries -> Nat], State(pos), Mover, NEW x \in nonMesh
    PROVE  \E h \in insertAhead : pos[h] <= pos[x]
<1>1. x \in Entries /\ dependable(x) /\ ~entry[x].inMesh /\ entry[x].line = way.line
  BY DEF nonMesh, sameAsVictim
<1>2. PICK h \in Entries : InFront(x, h) /\ (entry[h].head \/ WaitsNoMore(h))
  BY <1>1 DEF State, Lists, Heads
<1>3. h # tagged
  BY <1>2, VictimIs DEF State, Mover, InFront, Listed
<1>4. h \in insertAhead
  BY <1>1, <1>2, <1>3 DEF insertAhead, nonMesh, sameAsVictim, InFront, Listed, WaitsNoMore, Mover, dependable
<1>5. QED
  BY <1>4, SplicedIs

\* A victim is spliced in front of one request at most.
LEMMA FrontIsOne ==
    ASSUME PipeTiming, NEW pos \in [Entries -> Nat], State(pos),
           NEW h \in insertAhead, NEW g \in insertAhead
    PROVE  h = g
<1>1. h \in nonMesh /\ g \in nonMesh
  BY DEF insertAhead
<1>2. h \in Entries /\ g \in Entries /\ Listed(h, g) /\ pos[h] <= pos[g] /\ pos[g] <= pos[h]
  BY <1>1, SplicedIs DEF Listed
<1>3. QED
  BY <1>2 DEF State, Lists, Ordered

\* A victim of its own hit is the first of its line that is not at the mesh.
LEMMA SelfIsFront ==
    ASSUME PipeTiming, NEW pos \in [Entries -> Nat], State(pos), selfVictim,
           NEW x \in Entries, dependable(x), entry[x].line = way.line, ~entry[x].inMesh
    PROVE  pos[tagged] <= pos[x]
<1>1. tagVictim
  BY DEF selfVictim
<1>2. tagged \in Entries /\ tagged # None /\ InFront(tagged, x)
  BY <1>1, VictimIs DEF State, InFront, Listed
<1>3. Latency \in 1..Latency
  BY DepsAssumption
<1>4. QED
  BY <1>2, <1>3 DEF State, Lists, Heads, tagged

\* Who moves up to the mesh is the first of its line.
LEMMA UpgradedIs ==
    ASSUME PipeTiming, NEW pos \in [Entries -> Nat], State(pos), NEW x \in upgraded
    PROVE  /\ x \in Entries /\ dependable(x) /\ ~entry[x].inMesh
           /\ \A y \in Entries : InFront(x, y) => pos[x] <= pos[y]
           /\ x \in upgrading => \A y \in Entries : Listed(x, y) => pos[x] <= pos[y] /\ ~entry[y].inMesh
           /\ x \notin upgrading => selfVictim /\ x = tagged
<1>1. CASE x \in upgrading
  <2>1. x \in Entries /\ entry[x].valid /\ entry[x].dep = None /\ ~entry[x].inMesh /\ entry[x].op \in MeshOps
    BY <1>1 DEF upgrading
  <2>2. dependable(x) /\ ~Waits(x)
    BY <2>1, DepsAssumption DEF State, Phases, LetGo, dependable, clears, Waits
  <2>3. \A y \in Entries : Listed(x, y) => pos[x] <= pos[y]
    BY <2>1, <2>2 DEF State, Lists, Ordered
  <2>4. ASSUME NEW y \in Entries, Listed(x, y), entry[y].inMesh PROVE FALSE
    <3>1. pos[y] < pos[x]
      BY <2>1, <2>4 DEF State, Lists, MeshParts, Listed
    <3>2. QED
      BY <2>1, <2>3, <2>4, <3>1
  <2>5. QED
    BY <1>1, <2>1, <2>2, <2>3, <2>4 DEF InFront
<1>2. CASE x \notin upgrading
  <2>1. selfVictim /\ x = tagged
    BY <1>2 DEF upgraded
  <2>2. x \in Entries /\ dependable(x) /\ ~entry[x].inMesh /\ entry[x].line = way.line
    BY <2>1, VictimIs DEF State, selfVictim
  <2>3. ASSUME NEW y \in Entries, InFront(x, y) PROVE pos[x] <= pos[y]
    BY <2>1, <2>2, <2>3, SelfIsFront DEF InFront, Listed
  <2>4. QED
    BY <1>2, <2>1, <2>2, <2>3
<1>3. QED
  BY <1>1, <1>2

\* What a request comes to wait for: nobody, the victim of this clock, or the tail
\* of its list.
LEMMA DepOfIs ==
    ASSUME PipeTiming, NEW pos \in [Entries -> Nat], State(pos), NEW l \in Lines
    PROVE  \/ /\ depOf(l) = None
              /\ \A x \in Entries : ~(dependable(x) /\ entry[x].line = l)
              /\ ~matchVictim(l)
           \/ /\ depOf(l) = tagged /\ Mover /\ way.line = l
              /\ \A x \in Entries : dependable(x) /\ entry[x].line = l => entry[x].inMesh
           \/ /\ depOf(l) \in Entries /\ dependable(depOf(l)) /\ entry[depOf(l)].line = l
              /\ entry[depOf(l)].tail
              /\ \A x \in Entries : dependable(x) /\ entry[x].line = l => pos[x] <= pos[depOf(l)]
              /\ matchVictim(l) => ~entry[depOf(l)].inMesh
<1> DEFINE inFront == {x \in matching(l) : ~entry[x].inMesh}
<1>1. \A x : x \in matching(l) <=> x \in Entries /\ dependable(x) /\ entry[x].line = l
  BY DEF matching
<1>2. CASE matching(l) = {} /\ ~matchVictim(l)
  BY <1>1, <1>2 DEF depOf
<1>3. CASE ~(matching(l) = {} /\ ~matchVictim(l)) /\ inFront = {} /\ matchVictim(l)
  <2>1. depOf(l) = tagged
    BY <1>3 DEF depOf
  <2>2. Mover /\ way.line = l
    BY <1>1, <1>3, VictimIs DEF matchVictim, Mover, State
  <2>3. QED
    BY <1>1, <1>3, <2>1, <2>2
<1>4. CASE ~(matching(l) = {} /\ ~matchVictim(l)) /\ ~(inFront = {} /\ matchVictim(l))
  <2>1. PICK x \in matching(l) : matchVictim(l) => ~entry[x].inMesh
    BY <1>4
  <2>2. PICK t \in Entries : Listed(x, t) /\ entry[t].tail
    BY <1>1, <2>1 DEF State, Lists, Tails
  <2>3. tails(l) # {}
    BY <1>1, <2>1, <2>2 DEF tails, Listed
  <2>4. depOf(l) \in tails(l)
    <3>1. depOf(l) = CHOOSE y \in tails(l) : TRUE
      BY <1>4, <2>3 DEF depOf
    <3>2. QED
      BY <2>3, <3>1
  <2> DEFINE z == depOf(l)
  <2> HIDE DEF z
  <2>5. z \in Entries /\ dependable(z) /\ entry[z].line = l /\ entry[z].tail
    BY <1>1, <2>4 DEF tails, z
  <2>6. ASSUME NEW y \in Entries, dependable(y), entry[y].line = l PROVE pos[y] <= pos[z]
    BY <2>5, <2>6 DEF State, Lists, Tails, Listed
  <2>7. ASSUME matchVictim(l), entry[z].inMesh PROVE FALSE
    <3>1. x \in Entries /\ Listed(z, x) /\ ~entry[x].inMesh
      BY <1>1, <2>1, <2>5, <2>7 DEF Listed
    <3>2. pos[z] < pos[x]
      BY <2>5, <2>7, <3>1 DEF State, Lists, MeshParts
    <3>3. QED
      BY <2>5, <2>6, <3>1, <3>2 DEF Listed
  <2>8. QED
    BY <2>5, <2>6, <2>7 DEF z
<1>5. QED
  BY <1>2, <1>3, <1>4

-----------------------------------------------------------------------------
(* What the clock makes of the lists.                                      *)

\* An entry that is in its list before and after the clock.
Member(j) == dependable(j) /\ dependable(j)'

\* A victim of its own hit keeps its place: it is behind the last of its line that
\* is at the mesh already, and nobody moves up to the mesh in front of it.
LEMMA SelfKeepsDep ==
    ASSUME PipeTiming, NEW pos \in [Entries -> Nat], State(pos), selfVictim
    PROVE  victimDep = IF Waits(tagged) THEN entry[tagged].dep ELSE None
<1>1. /\ tagVictim /\ tagged \in Entries /\ tagged # None /\ dependable(tagged)
      /\ entry[tagged].valid /\ entry[tagged].line = way.line /\ ~entry[tagged].inMesh
  BY VictimIs DEF selfVictim, State
<1>2. CASE Waits(tagged)
  <2> DEFINE t == entry[tagged].dep
  <2>1. t \in Entries /\ Listed(tagged, t) /\ entry[t].line = way.line
    BY <1>1, <1>2 DEF Waits, Listed, State, Lists, DepsInList
  <2>2. pos[t] < pos[tagged] /\ \A k \in Entries : Listed(tagged, k) => pos[k] <= pos[t] \/ pos[k] >= pos[tagged]
    BY <1>1, <2>1 DEF State, Lists, Ordered
  <2>3. entry[t].inMesh
    <3>1. SUFFICES ASSUME ~entry[t].inMesh PROVE FALSE
      OBVIOUS
    <3>2. pos[tagged] <= pos[t]
      BY <2>1, <3>1, SelfIsFront DEF Listed
    <3>3. QED
      BY <1>1, <2>1, <2>2, <3>2
  <2>4. victimDep # None
    <3>1. victimDep = None => ~entry[t].inMesh
      BY <1>1, <2>1, VictimDepIs DEF Listed
    <3>2. QED
      BY <2>3, <3>1
  <2>5. /\ victimDep \in Entries /\ Listed(tagged, victimDep) /\ entry[victimDep].inMesh
        /\ Listed(victimDep, t) /\ pos[t] <= pos[victimDep]
    BY <1>1, <2>1, <2>3, <2>4, VictimDepIs DEF Listed
  <2>6. pos[victimDep] < pos[tagged]
    BY <1>1, <2>5 DEF State, Lists, MeshParts, Listed
  <2>7. pos[victimDep] = pos[t]
    BY <1>1, <2>1, <2>2, <2>5, <2>6
  <2>8. victimDep = t
    BY <2>1, <2>5, <2>7 DEF State, Lists, Ordered
  <2>9. QED
    BY <1>2, <2>8
<1>3. CASE ~Waits(tagged)
  <2>1. SUFFICES ASSUME victimDep # None PROVE FALSE
    BY <1>3
  <2>2. victimDep \in Entries /\ Listed(tagged, victimDep) /\ entry[victimDep].inMesh
    BY <1>1, <2>1, VictimDepIs DEF Listed
  <2>3. pos[victimDep] < pos[tagged]
    BY <1>1, <2>2 DEF State, Lists, MeshParts, Listed
  <2>4. pos[tagged] <= pos[victimDep]
    BY <1>1, <1>3, <2>2 DEF State, Lists, Ordered
  <2>5. QED
    BY <1>1, <2>2, <2>3, <2>4
<1>4. QED
  BY <1>2, <1>3

\* A victim of its own hit is the tail of its list when nobody else of its line is
\* short of the mesh.
LEMMA SelfKeepsTail ==
    ASSUME PipeTiming, NEW pos \in [Entries -> Nat], State(pos), selfVictim
    PROVE  /\ entry[tagged].tail <=> nonMesh = {}
           /\ \A l \in Lines : depOf(l) = tagged => way.line = l
           /\ entry[tagged].tail => depOf(way.line) = tagged
<1>1. /\ tagVictim /\ tagged \in Entries /\ tagged # None /\ dependable(tagged)
      /\ entry[tagged].valid /\ entry[tagged].line = way.line /\ ~entry[tagged].inMesh
      /\ way.line \in Lines
  <2>1. /\ tagVictim /\ tagged \in Entries /\ tagged # None /\ dependable(tagged)
        /\ entry[tagged].valid /\ entry[tagged].line = way.line /\ ~entry[tagged].inMesh
    BY VictimIs DEF selfVictim, State
  <2>2. QED
    BY <2>1 DEF State, Typed
<1>2. ASSUME entry[tagged].tail, NEW x \in nonMesh PROVE FALSE
  <2>1. x \in Entries /\ x # tagged /\ dependable(x) /\ ~entry[x].inMesh /\ entry[x].line = way.line
    BY DEF nonMesh, sameAsVictim
  <2>2. pos[tagged] <= pos[x] /\ pos[x] <= pos[tagged] /\ Listed(tagged, x)
    BY <1>1, <1>2, <2>1, SelfIsFront DEF State, Lists, Tails, Listed
  <2>3. QED
    BY <1>1, <2>1, <2>2 DEF State, Lists, Ordered
<1>3. ASSUME nonMesh = {} PROVE entry[tagged].tail
  <2>1. PICK t \in Entries : Listed(tagged, t) /\ entry[t].tail
    BY <1>1 DEF State, Lists, Tails
  <2>2. pos[tagged] <= pos[t]
    BY <1>1, <2>1 DEF State, Lists, Tails, Listed
  <2>3. ~entry[t].inMesh
    <3>1. entry[t].inMesh => pos[t] < pos[tagged]
      BY <1>1, <2>1 DEF State, Lists, MeshParts, Listed
    <3>2. QED
      BY <1>1, <2>2, <3>1
  <2>4. t = tagged
    BY <1>1, <1>3, <2>1, <2>3 DEF nonMesh, sameAsVictim, Listed, dependable
  <2>5. QED
    BY <2>1, <2>4
<1>4. ASSUME NEW l \in Lines, depOf(l) = tagged PROVE way.line = l
  BY <1>1, <1>4, DepOfIs
<1>5. ASSUME entry[tagged].tail PROVE depOf(way.line) = tagged
  <2> DEFINE z == depOf(way.line)
  <2>1. z \in Entries /\ Listed(tagged, z) /\ entry[z].tail /\ pos[tagged] <= pos[z]
    <3>1. ~Mover /\ dependable(tagged) /\ entry[tagged].line = way.line
      BY <1>1 DEF Mover
    <3>2. QED
      BY <1>1, <3>1, DepOfIs DEF Listed
  <2>2. pos[z] <= pos[tagged]
    BY <1>1, <1>5, <2>1 DEF State, Lists, Tails
  <2>3. z = tagged
    BY <1>1, <2>1, <2>2 DEF State, Lists, Ordered
  <2>4. QED
    BY <2>3
<1>6. QED
  BY <1>2, <1>3, <1>4, <1>5

\* Nobody of the line of a victim moves up in the clock when the victim hits itself.
LEMMA SelfAlone ==
    ASSUME PipeTiming, NEW pos \in [Entries -> Nat], State(pos), selfVictim
    PROVE  upgrading \intersect sameAsVictim = {}
<1>1. /\ tagVictim /\ tagged \in Entries /\ tagged # None /\ dependable(tagged)
      /\ entry[tagged].line = way.line /\ ~entry[tagged].inMesh
  BY VictimIs DEF selfVictim, State
<1>2. ASSUME NEW u \in upgrading, u \in sameAsVictim PROVE FALSE
  <2>1. u \in upgraded /\ u # tagged /\ entry[u].line = way.line
    BY <1>2 DEF upgraded, sameAsVictim
  <2>2. u \in Entries /\ dependable(u) /\ ~entry[u].inMesh
    BY <2>1, UpgradedIs
  <2>3. pos[u] <= pos[tagged] /\ pos[tagged] <= pos[u] /\ Listed(u, tagged)
    BY <1>1, <2>1, <2>2, UpgradedIs, SelfIsFront DEF InFront, Listed
  <2>4. QED
    BY <1>1, <2>1, <2>2, <2>3 DEF State, Lists, Ordered
<1>3. QED
  BY <1>2

\* Who moves up to the mesh stays in its list.
LEMMA UpgradedStays ==
    ASSUME PipeTiming, NEW pos \in [Entries -> Nat], State(pos),
           NEW i, NEW new, NEW p, NEW m, NEW r, NEW d, NEW done,
           Clock(i, new, p, m, r, d, done), NEW x \in upgraded
    PROVE  Member(x)
<1>0. /\ Typed /\ Phases /\ r \in Answerable \union {None} /\ d \in Reading \union {None}
  BY DEF State, Clock
<1>1. x \in Entries /\ dependable(x) /\ ~entry[x].inMesh
  BY UpgradedIs
<1>2. /\ entry[x].valid /\ x \notin done /\ ~moves(x) /\ entry'[x].valid /\ ~entry'[x].dont
      /\ entry'[x].setting <=> (setsDont(x, r) \/ (entry[x].setting /\ ~moves(x)))
  BY <1>0, <1>1, MemberStays, Stays
<1>3. ~setsDont(x, r) /\ ~entry[x].setting
  <2>1. CASE x \in upgrading
    <3>1. entry[x].op \in MeshOps
      BY <2>1 DEF upgrading
    <3>2. ~entry[x].setting
      BY <1>0, <1>1, <1>2, <3>1 DEF Phases, LetGo
    <3>3. x # tagged /\ pipe[1] # x
      <4>1. 1 \in 1..Latency
        BY DepsAssumption
      <4>2. QED
        BY <1>0, <1>1, <3>1, <4>1, TaggedIs, DepsAssumption DEF Phases, InPipeline, PipeOps, MeshOps
    <3>4. x # r
      BY <1>0, <1>1, DepsAssumption DEF Answerable, Phases, AtTheMesh
    <3>5. QED
      BY <3>1, <3>2, <3>3, <3>4 DEF setsDont, MeshOps
  <2>2. CASE x \notin upgrading
    <3>1. selfVictim /\ x = tagged /\ tagVictim
      BY <2>2, UpgradedIs DEF selfVictim
    <3>2. QED
      BY <1>0, <3>1, VictimSets, VictimIs
  <2>3. QED
    BY <2>1, <2>2
<1>4. QED
  BY <1>1, <1>2, <1>3 DEF Member, dependable, clears

\* What the registers that hold the lists become: for an entry that is and stays in
\* a list, the victim of its own hit included, ...
LEMMA MemberIs ==
    ASSUME PipeTiming, NEW pos \in [Entries -> Nat], State(pos),
           NEW i, NEW new, NEW p, NEW m, NEW r, NEW d, NEW done,
           Clock(i, new, p, m, r, d, done), NEW x \in Entries, Member(x)
    PROVE  /\ x # i /\ ~(Mover /\ x = tagged)
           /\ entry'[x].line = entry[x].line
           /\ entry'[x].dep = IF x \in insertAhead THEN tagged
                              ELSE IF Waits(x) THEN entry[x].dep ELSE None
           /\ entry'[x].tail <=> (/\ entry[x].tail /\ x \notin meshTails
                                  /\ ~(i \in Free /\ depOf(new.line) = x))
           /\ entry'[x].meshTail <=> (x \in upgraded \/ (entry[x].meshTail /\ x \notin meshTails))
           /\ entry'[x].inMesh <=> (entry[x].inMesh \/ x \in upgraded)
           /\ ~entry'[x].inMesh => (entry'[x].head <=> (WaitsNoMore(x) \/ entry[x].dep \in upgraded \/ entry[x].head))
<1>0. Typed /\ Phases /\ Arrives(i, new)
  BY DEF State, Clock
<1>1. /\ x # i /\ entry[x].valid /\ x \notin done /\ ~moves(x) /\ dependable(x)
      /\ entry'[x].line = entry[x].line
  BY <1>0, MemberStays DEF Member
<1>2. /\ entry'[x].dep = depNext(x)
      /\ entry'[x].tail <=> tailNext(x, new.line)
      /\ entry'[x].meshTail <=> meshTailNext(x)
      /\ entry'[x].head <=> headNext(x)
      /\ entry'[x].inMesh <=> (entry[x].inMesh \/ isVictim(x) \/ x \in upgrading)
  BY <1>0, <1>1, Stays
<1>3. ~(Mover /\ x = tagged)
  BY <1>0, <1>1, VictimIs DEF Mover
<1>4. isVictim(x) <=> (selfVictim /\ x = tagged)
  BY <1>3 DEF isVictim, Mover, selfVictim
<1>5. /\ i \in Free <=> new.line # None
      /\ i \in Free => new.line \in Lines
  <2>1. CASE i = None /\ new = Freed
    BY <2>1, DepsAssumption DEF Freed, Free
  <2>2. ASSUME NEW kind \in Kinds, NEW l \in Lines, NEW mask \in SUBSET Quads, NEW due \in Words,
               new = fresh(kind, l, mask, due), i \in Free
        PROVE  (i \in Free <=> new.line # None) /\ new.line \in Lines
    BY <2>2, FreshIs, DepsAssumption
  <2>3. QED
    BY <1>0, <2>1, <2>2 DEF Arrives
<1>6. entry'[x].dep = IF x \in insertAhead THEN tagged ELSE IF Waits(x) THEN entry[x].dep ELSE None
  <2>1. CASE selfVictim /\ x = tagged
    <3>1. entry'[x].dep = victimDep /\ x \notin insertAhead
      BY <1>2, <1>4, <2>1, SplicedIs DEF depNext
    <3>2. QED
      BY <2>1, <3>1, SelfKeepsDep
  <2>2. CASE ~(selfVictim /\ x = tagged)
    <3>1. entry'[x].dep = IF x \in insertAhead THEN tagged ELSE IF depCleared(x) THEN None ELSE entry[x].dep
      BY <1>2, <1>4, <2>2 DEF depNext
    <3>2. entry[x].dep \in Entries => (Waits(x) <=> ~depCleared(x))
      BY <1>1 DEF Waits, depCleared, dependable, State, Lists, DepsInList
    <3>3. entry[x].dep \in Entries \union {None}
      BY <1>0 DEF Typed, EntryType, State, PendsBehindTail
    <3>4. QED
      BY <3>1, <3>2, <3>3 DEF Waits, depCleared
  <2>3. QED
    BY <2>1, <2>2
<1>7. entry'[x].tail <=> entry[x].tail /\ x \notin meshTails /\ ~(i \in Free /\ depOf(new.line) = x)
  <2>1. CASE selfVictim /\ x = tagged
    <3>1. entry'[x].tail <=> (nonMesh = {} /\ ~(i \in Free /\ matchVictim(new.line)))
      BY <1>2, <1>4, <1>5, <2>1 DEF tailNext
    <3>2. x \notin meshTails
      BY <2>1 DEF meshTails, sameAsVictim
    <3>3. ASSUME i \in Free, entry[x].tail PROVE matchVictim(new.line) <=> depOf(new.line) = x
      <4>1. matchVictim(new.line) <=> way.line = new.line
        BY <2>1 DEF matchVictim, selfVictim
      <4>2. QED
        BY <1>5, <2>1, <3>3, <4>1, SelfKeepsTail
    <3>4. QED
      BY <2>1, <3>1, <3>2, <3>3, SelfKeepsTail
  <2>2. CASE ~(selfVictim /\ x = tagged)
    BY <1>2, <1>4, <1>5, <2>2 DEF tailNext
  <2>3. QED
    BY <2>1, <2>2
<1>8. entry'[x].meshTail <=> x \in upgraded \/ (entry[x].meshTail /\ x \notin meshTails)
  BY <1>2, <1>4, SelfAlone DEF meshTailNext, upgraded
<1>9. entry'[x].inMesh <=> entry[x].inMesh \/ x \in upgraded
  BY <1>2, <1>4 DEF upgraded
<1>10. ASSUME ~entry'[x].inMesh
       PROVE  entry'[x].head <=> WaitsNoMore(x) \/ entry[x].dep \in upgraded \/ entry[x].head
  BY <1>2, <1>4, <1>9, <1>10 DEF headNext, depCleared, WaitsNoMore, upgraded
<1>11. QED
  BY <1>1, <1>3, <1>6, <1>7, <1>8, <1>9, <1>10

\* ... for a victim that comes with a miss, ...
LEMMA MoverIs ==
    ASSUME PipeTiming, NEW pos \in [Entries -> Nat], State(pos), Mover,
           NEW i, NEW new, NEW p, NEW m, NEW r, NEW d, NEW done,
           Clock(i, new, p, m, r, d, done), NEW t, t = tagged
    PROVE  /\ t \in Entries /\ t # i /\ ~dependable(t) /\ dependable(t)'
           /\ entry'[t].line = way.line /\ entry'[t].dep = victimDep
           /\ entry'[t].tail <=> (nonMesh = {} /\ ~(i \in Free /\ new.line = way.line))
           /\ entry'[t].meshTail <=> upgrading \intersect sameAsVictim = {}
           /\ entry'[t].inMesh
<1>0. Typed /\ Phases /\ Arrives(i, new)
  BY DEF State, Clock
<1>1. t \in Entries /\ t # None /\ entry[t].valid /\ moves(t) /\ ~dependable(t)
  BY <1>0, VictimIs DEF Mover
<1>2. dependable(t)' /\ t \notin done /\ t # i
  <2>1. dependable(t)'
    BY <1>1, WhoIsListed
  <2>2. dependable(t)' => \/ dependable(t)
                          \/ (t \notin done /\ t # i)
                          \/ (t = i /\ i \in Free)
    BY <1>1, WhoIsListed
  <2>3. QED
    BY <1>1, <2>1, <2>2 DEF Free
<1>3. isVictim(t)
  BY <1>1 DEF moves
<1>4. i \in Free <=> new.line # None
  <2>1. CASE i = None /\ new = Freed
    BY <2>1, DepsAssumption DEF Freed, Free
  <2>2. ASSUME NEW kind \in Kinds, NEW l \in Lines, NEW mask \in SUBSET Quads, NEW due \in Words,
               new = fresh(kind, l, mask, due), i \in Free
        PROVE  i \in Free <=> new.line # None
    BY <2>2, FreshIs, DepsAssumption
  <2>3. QED
    BY <1>0, <2>1, <2>2 DEF Arrives
<1>5. /\ entry'[t].line = way.line /\ entry'[t].dep = victimDep
      /\ entry'[t].tail <=> tailNext(t, new.line)
      /\ entry'[t].meshTail <=> upgrading \intersect sameAsVictim = {}
      /\ entry'[t].inMesh
  BY <1>0, <1>1, <1>2, <1>3, Stays DEF depNext, meshTailNext
<1>6. tailNext(t, new.line) <=> nonMesh = {} /\ ~(i \in Free /\ new.line = way.line)
  BY <1>3, <1>4 DEF tailNext, matchVictim, isVictim
<1>7. QED
  BY <1>1, <1>2, <1>5, <1>6

\* ... and for the request allocated.
LEMMA NewIs ==
    ASSUME PipeTiming, NEW pos \in [Entries -> Nat], State(pos),
           NEW i, NEW new, NEW p, NEW m, NEW r, NEW d, NEW done,
           Clock(i, new, p, m, r, d, done), i \in Free
    PROVE  /\ i \in Entries /\ ~dependable(i) /\ ~entry[i].valid /\ dependable(i)'
           /\ new.line \in Lines
           /\ entry'[i].line = new.line /\ entry'[i].dep = depOf(new.line)
           /\ entry'[i].tail /\ ~entry'[i].meshTail /\ ~entry'[i].inMesh
           /\ entry'[i].head <=> headOf(new.line)
<1>1. i \in Entries /\ ~entry[i].valid /\ entry'[i] = new /\ dependable(i)'
  <2>1. i \in Entries /\ ~entry[i].valid
    BY DEF Free
  <2>2. entry'[i] = new
    BY <2>1 DEF Clock, Edge
  <2>3. dependable(i)'
    BY <2>1, WhoIsListed
  <2>4. QED
    BY <2>1, <2>2, <2>3
<1>2. PICK kind \in Kinds, l \in Lines, mask \in SUBSET Quads, due \in Words : new = fresh(kind, l, mask, due)
  BY DepsAssumption DEF Clock, Arrives, Free
<1>3. new.line = l /\ new.dep = depOf(l) /\ new.tail /\ ~new.meshTail /\ ~new.inMesh /\ new.head = headOf(l)
  BY <1>2, FreshIs
<1>4. headOf(l) \in BOOLEAN
  BY DEF headOf
<1>5. QED
  BY <1>1, <1>2, <1>3, <1>4 DEF dependable

-----------------------------------------------------------------------------
(* The places after the clock.  The victim of a miss goes in behind those  *)
(* at the mesh, which moves the others of the line back by one; a request  *)
(* goes in behind the last of its line.                                    *)

\* The places keep their order, and the two that come are where they belong.
Places(pos, posn, i, new) ==
  /\ \A x, y \in Entries : Member(x) /\ Member(y) /\ Listed(x, y) /\ pos[x] < pos[y] => posn[x] < posn[y]
  /\ Mover => /\ \A x \in Entries : Member(x) /\ entry[x].line = way.line =>
                   /\ entry[x].inMesh => posn[x] < posn[tagged]
                   /\ ~entry[x].inMesh => posn[tagged] < posn[x]
              /\ victimDep # None => posn[tagged] = posn[victimDep] + 1
  /\ i \in Free =>
       /\ \A x \in Entries : x # i /\ dependable(x)' /\ entry'[x].line = new.line => posn[x] < posn[i]
       /\ depOf(new.line) # None => posn[i] = posn[depOf(new.line)] + 1

\* There are such places: those of the line of the victim move back by one.
LEMMA PlacesExist ==
    ASSUME PipeTiming, NEW pos \in [Entries -> Nat], State(pos),
           NEW i, NEW new, NEW p, NEW m, NEW r, NEW d, NEW done,
           Clock(i, new, p, m, r, d, done)
    PROVE  \E posn \in [Entries -> Nat] : Places(pos, posn, i, new)
<1> DEFINE mid == [x \in Entries |->
                     IF Mover /\ x = tagged THEN IF victimDep = None THEN 0 ELSE pos[victimDep] + 1
                     ELSE IF Mover /\ x \in nonMesh THEN pos[x] + 1 ELSE pos[x]]
           last == IF depOf(new.line) = None THEN 0 ELSE mid[depOf(new.line)] + 1
           posn == [x \in Entries |-> IF x = i THEN last ELSE mid[x]]
<1>1. victimDep # None /\ Mover => /\ victimDep \in Entries /\ victimDep # tagged /\ victimDep \notin nonMesh
                                   /\ dependable(victimDep) /\ entry[victimDep].line = way.line
                                   /\ victimDep # i
  BY VictimDepIs, DepsAssumption DEF Mover, nonMesh, Clock, Arrives, Free, dependable
<1>2. Mover => tagged \in Entries /\ ~dependable(tagged) /\ entry[tagged].valid /\ tagged # i
  BY VictimIs, DepsAssumption DEF Mover, State, Clock, Arrives, Free
<1>3. i \in Free => /\ i \in Entries /\ new.line \in Lines /\ ~dependable(i)
                    /\ depOf(new.line) # None => depOf(new.line) \in Entries /\ depOf(new.line) # i
  <2>1. SUFFICES ASSUME i \in Free
                 PROVE  /\ i \in Entries /\ new.line \in Lines /\ ~dependable(i)
                        /\ depOf(new.line) # None => depOf(new.line) \in Entries /\ depOf(new.line) # i
    OBVIOUS
  <2>2. i \in Entries /\ new.line \in Lines /\ ~dependable(i)
    BY <2>1, NewIs
  <2>3. QED
    BY <1>2, <2>2, DepOfIs
<1>4. mid \in [Entries -> Nat]
  <2>1. victimDep # None /\ Mover => pos[victimDep] + 1 \in Nat
    BY <1>1
  <2>2. ASSUME NEW x \in Entries PROVE pos[x] \in Nat /\ pos[x] + 1 \in Nat
    OBVIOUS
  <2>3. QED
    BY <2>1, <2>2
<1>5. /\ Mover => /\ mid[tagged] = IF victimDep = None THEN 0 ELSE pos[victimDep] + 1
                  /\ victimDep # None => mid[victimDep] = pos[victimDep]
      /\ \A x \in Entries : dependable(x) => mid[x] = IF Mover /\ x \in nonMesh THEN pos[x] + 1 ELSE pos[x]
  BY <1>1, <1>2
<1> HIDE DEF mid
<1>6. posn \in [Entries -> Nat]
  <2>1. i \in Free => last \in Nat
    BY <1>3, <1>4
  <2>2. i \in Entries => i \in Free
    BY DepsAssumption DEF Clock, Arrives
  <2>3. QED
    BY <1>4, <2>1, <2>2
<1>7. /\ \A x \in Entries : x # i => posn[x] = mid[x]
      /\ i \in Free => posn[i] = last
  BY <1>3
<1> HIDE DEF posn
\* Along a list places only grow.
<1>8. ASSUME NEW x \in Entries, NEW y \in Entries, Listed(x, y), pos[x] <= pos[y]
      PROVE  mid[x] <= mid[y] /\ (pos[x] < pos[y] => mid[x] < mid[y])
  <2>1. ASSUME Mover, x \in nonMesh PROVE y \in nonMesh
    <3>1. entry[y].inMesh => pos[y] < pos[x]
      BY <1>8, <2>1 DEF nonMesh, State, Lists, MeshParts, Listed
    <3>2. ~entry[y].inMesh
      BY <1>8, <3>1
    <3>3. QED
      BY <1>2, <1>8, <2>1, <3>2 DEF nonMesh, sameAsVictim, Listed, dependable
  <2>2. /\ mid[x] = IF Mover /\ x \in nonMesh THEN pos[x] + 1 ELSE pos[x]
        /\ mid[y] = IF Mover /\ y \in nonMesh THEN pos[y] + 1 ELSE pos[y]
    BY <1>5, <1>8 DEF Listed
  <2>3. QED
    BY <1>8, <2>1, <2>2
<1>9. ASSUME Mover, NEW x \in Entries, dependable(x), entry[x].line = way.line
      PROVE  /\ entry[x].inMesh => mid[x] < mid[tagged]
             /\ ~entry[x].inMesh => mid[tagged] < mid[x]
  <2>1. x \in nonMesh <=> ~entry[x].inMesh
    BY <1>2, <1>9 DEF nonMesh, sameAsVictim, dependable, Mover
  <2>2. CASE entry[x].inMesh
    <3>1. victimDep # None /\ pos[x] <= pos[victimDep]
      BY <1>9, <2>2, VictimDepIs DEF Mover
    <3>2. QED
      BY <1>1, <1>5, <1>9, <2>1, <2>2, <3>1
  <2>3. CASE ~entry[x].inMesh
    <3>1. victimDep # None => pos[victimDep] < pos[x]
      <4>1. SUFFICES ASSUME victimDep # None PROVE pos[victimDep] < pos[x]
        OBVIOUS
      <4>2. victimDep \in Entries /\ Listed(victimDep, x) /\ entry[victimDep].inMesh
        BY <1>1, <1>9, <4>1, VictimDepIs DEF Mover, Listed
      <4>3. QED
        BY <2>3, <4>2 DEF State, Lists, MeshParts
    <3>2. mid[x] = pos[x] + 1 /\ mid[tagged] = IF victimDep = None THEN 0 ELSE pos[victimDep] + 1
      BY <1>5, <1>9, <2>1, <2>3
    <3>3. QED
      BY <1>1, <1>9, <2>3, <3>1, <3>2
  <2>4. QED
    BY <2>2, <2>3
<1>10. ASSUME i \in Free, NEW x \in Entries, x # i, dependable(x)', entry'[x].line = new.line
       PROVE  mid[x] < last
  <2> DEFINE z == depOf(new.line)
  <2>1. \/ Member(x) /\ dependable(x) /\ entry[x].line = new.line
        \/ Mover /\ x = tagged /\ way.line = new.line
    <3>1. dependable(x) \/ (Mover /\ x = tagged)
      BY <1>10, WhoIsListed
    <3>2. CASE dependable(x)
      <4>1. Member(x)
        BY <1>10, <3>2 DEF Member
      <4>2. QED
        BY <1>10, <3>2, <4>1, MemberIs
    <3>3. CASE Mover /\ x = tagged
      BY <1>10, <3>3, MoverIs
    <3>4. QED
      BY <3>1, <3>2, <3>3
  <2>2. z # None => last = mid[z] + 1
    OBVIOUS
  <2>3. CASE z = None
    <3>1. \A y \in Entries : ~(dependable(y) /\ entry[y].line = new.line)
      BY <1>2, <1>3, <1>10, <2>3, DepOfIs, DepsAssumption
    <3>2. ~matchVictim(new.line)
      BY <1>2, <1>3, <1>10, <2>3, DepOfIs, DepsAssumption
    <3>3. QED
      BY <2>1, <3>1, <3>2 DEF matchVictim, Mover
  <2>4. CASE z = tagged /\ Mover /\ way.line = new.line
             /\ \A y \in Entries : dependable(y) /\ entry[y].line = new.line => entry[y].inMesh
    <3>1. mid[x] <= mid[z]
      BY <1>2, <1>4, <1>9, <2>1, <2>4
    <3>2. QED
      BY <1>2, <1>3, <1>4, <1>10, <2>2, <2>4, <3>1, DepsAssumption
  <2>5. CASE /\ z \in Entries /\ dependable(z) /\ entry[z].line = new.line
             /\ \A y \in Entries : dependable(y) /\ entry[y].line = new.line => pos[y] <= pos[z]
             /\ matchVictim(new.line) => ~entry[z].inMesh
    <3>1. mid[x] <= mid[z]
      <4>1. CASE dependable(x) /\ entry[x].line = new.line
        BY <1>8, <2>5, <4>1 DEF Listed
      <4>2. CASE Mover /\ x = tagged /\ way.line = new.line
        BY <1>2, <1>4, <1>9, <2>5, <4>2 DEF matchVictim, Mover
      <4>3. QED
        BY <2>1, <4>1, <4>2
    <3>2. QED
      BY <1>4, <2>2, <2>5, <3>1, DepsAssumption
  <2>6. QED
    BY <1>3, <1>10, <2>3, <2>4, <2>5, DepOfIs
<1>11. Places(pos, posn, i, new)
  <2>1. ASSUME NEW x \in Entries, NEW y \in Entries, Member(x), Member(y), Listed(x, y), pos[x] < pos[y]
        PROVE  posn[x] < posn[y]
    <3>1. x # i /\ y # i
      BY <1>3, <2>1, DepsAssumption DEF Member, Clock, Arrives
    <3>2. QED
      BY <1>7, <1>8, <2>1, <3>1
  <2>2. ASSUME Mover, NEW x \in Entries, Member(x), entry[x].line = way.line
        PROVE  /\ entry[x].inMesh => posn[x] < posn[tagged]
               /\ ~entry[x].inMesh => posn[tagged] < posn[x]
    <3>1. x # i
      BY <2>2, MemberIs
    <3>2. QED
      BY <1>2, <1>7, <1>9, <2>2, <3>1 DEF Member
  <2>3. ASSUME Mover, victimDep # None PROVE posn[tagged] = posn[victimDep] + 1
    BY <1>1, <1>2, <1>5, <1>7, <2>3
  <2>4. ASSUME i \in Free, NEW x \in Entries, x # i, dependable(x)', entry'[x].line = new.line
        PROVE  posn[x] < posn[i]
    BY <1>7, <1>10, <2>4
  <2>5. ASSUME i \in Free, depOf(new.line) # None PROVE posn[i] = posn[depOf(new.line)] + 1
    BY <1>3, <1>7, <2>5
  <2> HIDE DEF last
  <2>6. QED
    BY <2>1, <2>2, <2>3, <2>4, <2>5 DEF Places
<1>12. QED
  BY <1>6, <1>11

\* Two entries of one list after the clock, and how their places compare.
PairIs(pos, posn, i, new, x, y) ==
  \/ x = y
  \/ /\ Member(x) /\ Member(y) /\ Listed(x, y) /\ pos[x] # pos[y]
     /\ pos[x] < pos[y] <=> posn[x] < posn[y]
     /\ pos[y] < pos[x] <=> posn[y] < posn[x]
  \/ /\ Mover /\ x = tagged /\ Member(y) /\ entry[y].line = way.line
     /\ IF entry[y].inMesh THEN posn[y] < posn[x] ELSE posn[x] < posn[y]
  \/ /\ Mover /\ y = tagged /\ Member(x) /\ entry[x].line = way.line
     /\ IF entry[x].inMesh THEN posn[x] < posn[y] ELSE posn[y] < posn[x]
  \/ i \in Free /\ x = i /\ y # i /\ entry'[y].line = new.line /\ posn[y] < posn[x]
  \/ i \in Free /\ y = i /\ x # i /\ entry'[x].line = new.line /\ posn[x] < posn[y]

\* Two of a list after the clock are a pair of one of these kinds.
LEMMA Pairs ==
    ASSUME PipeTiming, NEW pos \in [Entries -> Nat], State(pos),
           NEW i, NEW new, NEW p, NEW m, NEW r, NEW d, NEW done,
           Clock(i, new, p, m, r, d, done),
           NEW posn \in [Entries -> Nat], Places(pos, posn, i, new),
           NEW x \in Entries, NEW y \in Entries, Listed(x, y)'
    PROVE  PairIs(pos, posn, i, new, x, y)
<1> DEFINE Who(z) == \/ Member(z) /\ z # i /\ ~(Mover /\ z = tagged) /\ entry'[z].line = entry[z].line
                     \/ Mover /\ z = tagged /\ z # i /\ entry'[z].line = way.line
                     \/ i \in Free /\ z = i /\ entry'[z].line = new.line
<1>1. ASSUME NEW z \in Entries, dependable(z)' PROVE Who(z)
  <2>1. CASE dependable(z)
    <3>1. Member(z)
      BY <1>1, <2>1 DEF Member
    <3>2. QED
      BY <3>1, MemberIs
  <2>2. CASE Mover /\ z = tagged
    BY <2>2, MoverIs
  <2>3. CASE i \in Free /\ z = i
    BY <2>3, NewIs
  <2>4. QED
    BY <1>1, <2>1, <2>2, <2>3, WhoIsListed
<1>2. /\ dependable(x)' /\ dependable(y)' /\ entry'[x].line = entry'[y].line
  BY DEF Listed
<1>3. Who(x) /\ Who(y)
  BY <1>1, <1>2
<1>4. CASE Member(x) /\ Member(y) /\ entry[x].line = entry[y].line /\ x # y
  <2>1. Listed(x, y) /\ Listed(y, x)
    BY <1>4 DEF Member, Listed
  <2>2. pos[x] # pos[y]
    BY <1>4, <2>1 DEF State, Lists, Ordered
  <2>3. /\ pos[x] < pos[y] => posn[x] < posn[y]
        /\ pos[y] < pos[x] => posn[y] < posn[x]
    BY <1>4, <2>1 DEF Places
  <2>4. QED
    BY <1>4, <2>1, <2>2, <2>3 DEF PairIs
<1>5. CASE Mover /\ x = tagged /\ Member(y) /\ entry[y].line = way.line
  BY <1>5 DEF Places, PairIs
<1>6. CASE Mover /\ y = tagged /\ Member(x) /\ entry[x].line = way.line
  BY <1>6 DEF Places, PairIs
<1>7. CASE i \in Free /\ x = i /\ y # i /\ entry'[y].line = new.line
  BY <1>2, <1>7 DEF Places, PairIs
<1>8. CASE i \in Free /\ y = i /\ x # i /\ entry'[x].line = new.line
  BY <1>2, <1>8 DEF Places, PairIs
<1>9. QED
  <2>1. CASE x = y
    BY <2>1 DEF PairIs
  <2>2. QED
    BY <1>2, <1>3, <1>4, <1>5, <1>6, <1>7, <1>8, <2>1

\* An entry that leaves its list, and does not wait, was the first of it.
LEMMA Leaves ==
    ASSUME PipeTiming, NEW pos \in [Entries -> Nat], State(pos),
           NEW i, NEW new, NEW p, NEW m, NEW r, NEW d, NEW done,
           Clock(i, new, p, m, r, d, done), NEW x \in Entries, dependable(x), ~dependable(x)'
    PROVE  /\ ~Waits(x) /\ clears(x)' /\ x \notin insertAhead /\ x \notin upgraded
           /\ \A y \in Entries : Listed(x, y) => pos[x] <= pos[y]
<1>1. ~Waits(x) /\ clears(x)'
  BY WhoIsListed
<1>2. \A y \in Entries : Listed(x, y) => pos[x] <= pos[y]
  BY <1>1 DEF State, Lists, Ordered
<1>3. x \notin insertAhead
  BY SplicedStays
<1>4. x \notin upgraded
  BY UpgradedStays DEF Member
<1>5. QED
  BY <1>1, <1>2, <1>3, <1>4

\* When the victim of a miss comes into the line, it is spliced in front of the
\* first that is not at the mesh, who stays, and behind the last that is.
LEMMA Spliced ==
    ASSUME PipeTiming, NEW pos \in [Entries -> Nat], State(pos), Mover,
           NEW i, NEW new, NEW p, NEW m, NEW r, NEW d, NEW done,
           Clock(i, new, p, m, r, d, done),
           NEW x \in Entries, dependable(x), entry[x].line = way.line, ~entry[x].inMesh
    PROVE  /\ x \in nonMesh
           /\ \E h \in insertAhead : /\ h \in Entries /\ Member(h) /\ Listed(h, x) /\ ~entry[h].inMesh
                                     /\ pos[h] <= pos[x]
                                     /\ entry[h].line = way.line /\ entry'[h].dep = tagged
           /\ dependable(x)'
<1>1. x \in nonMesh
  BY VictimIs DEF nonMesh, sameAsVictim, dependable, Mover, State
<1>2. PICK h \in insertAhead : pos[h] <= pos[x]
  BY <1>1, FrontIs
<1>3. h \in Entries /\ dependable(h) /\ ~entry[h].inMesh /\ entry[h].line = way.line /\ Listed(h, x)
  BY SplicedIs DEF Listed
<1>4. Member(h) /\ entry'[h].dep = tagged
  BY <1>3, SplicedStays DEF Member
<1>5. dependable(x)'
  <2>1. SUFFICES ASSUME ~dependable(x)' PROVE FALSE
    OBVIOUS
  <2>2. pos[x] <= pos[h] /\ Listed(x, h)
    BY <1>3, <2>1, Leaves DEF Listed
  <2>3. x = h
    BY <1>2, <1>3, <2>2 DEF State, Lists, Ordered
  <2>4. QED
    BY <1>4, <2>1, <2>3 DEF Member
<1>6. QED
  BY <1>1, <1>2, <1>3, <1>4, <1>5

-----------------------------------------------------------------------------
(* The clock keeps the lists.                                              *)

\* Who has nobody to wait for is the first of the list, and who waits is behind
\* the one it waits for.
LEMMA OrderedKept ==
    ASSUME PipeTiming, NEW pos \in [Entries -> Nat], State(pos),
           NEW i, NEW new, NEW p, NEW m, NEW r, NEW d, NEW done,
           Clock(i, new, p, m, r, d, done),
           NEW posn \in [Entries -> Nat], Places(pos, posn, i, new)
    PROVE  Ordered(posn)'
<1>0. /\ Mover => tagged \in Entries /\ tagged # None /\ victimDep # tagged
      /\ i \in Free => i \in Entries
  BY VictimIs, VictimDepIs DEF Mover, State, Free
<1>p. ASSUME NEW x \in Entries, NEW y \in Entries, Listed(x, y)' PROVE PairIs(pos, posn, i, new, x, y)
  BY <1>p, Pairs
<1>1. ASSUME NEW x \in Entries, NEW y \in Entries, Listed(x, y)', posn[x] = posn[y] PROVE x = y
  <2>1. posn[x] \in Nat /\ posn[y] \in Nat
    OBVIOUS
  <2>2. QED
    BY <1>1, <2>1, <1>p DEF PairIs
<1>2. ASSUME NEW x \in Entries, NEW y \in Entries, Listed(x, y)', ~Waits(x)' PROVE posn[x] <= posn[y]
  <2>1. SUFFICES ASSUME x # y, posn[y] < posn[x] PROVE FALSE
    OBVIOUS
  <2>2. ASSUME NEW w \in Entries, entry'[x].dep = w PROVE ~dependable(w)'
    BY <1>2, <2>2 DEF Waits, dependable, clears
  <2>3. CASE Member(x)
    <3>1. /\ entry'[x].dep = IF x \in insertAhead THEN tagged ELSE IF Waits(x) THEN entry[x].dep ELSE None
          /\ x # i
      BY <2>3, MemberIs
    <3>2. x \notin insertAhead
      <4>1. SUFFICES ASSUME x \in insertAhead, NEW t, t = tagged PROVE FALSE
        OBVIOUS
      <4>2. Mover
        BY <4>1, SplicedIs DEF Mover
      <4>3. dependable(t)' /\ t \in Entries
        BY <4>1, <4>2, MoverIs
      <4>4. entry'[x].dep = t
        BY <3>1, <4>1
      <4>5. QED
        BY <2>2, <4>3, <4>4
    <3>3. \A k \in Entries : Member(k) /\ Listed(x, k) => pos[x] <= pos[k]
      <4>1. CASE ~Waits(x)
        BY <2>3, <4>1 DEF State, Lists, Ordered
      <4>2. CASE Waits(x)
        <5> DEFINE z == entry[x].dep
        <5>1. PICK w \in Entries : w = z
          BY <4>2 DEF Waits
        <5>2. Listed(x, w) /\ dependable(w) /\ entry'[x].dep = w
          BY <2>3, <3>1, <3>2, <4>2, <5>1 DEF Waits, Listed, Member, State, Lists, DepsInList, dependable
        <5>3. ~dependable(w)'
          BY <2>2, <5>1, <5>2
        <5>4. \A k \in Entries : Listed(w, k) => pos[w] <= pos[k]
          BY <5>2, <5>3, Leaves
        <5>5. ASSUME NEW k \in Entries, Member(k), Listed(x, k) PROVE pos[x] <= pos[k]
          <6>1. pos[w] <= pos[k] /\ k # w /\ Listed(w, k)
            BY <5>2, <5>3, <5>4, <5>5 DEF Listed, Member
          <6>2. pos[w] # pos[k]
            BY <6>1 DEF State, Lists, Ordered
          <6>3. pos[k] <= pos[w] \/ pos[k] >= pos[x]
            BY <5>1, <5>2, <5>5 DEF State, Lists, Ordered
          <6>4. QED
            BY <6>1, <6>2, <6>3
        <5>6. QED
          BY <5>5
      <4>3. QED
        BY <4>1, <4>2
    <3>4. CASE Member(y) /\ Listed(x, y) /\ pos[y] < pos[x]
      BY <3>3, <3>4
    <3>5. CASE Mover /\ y = tagged /\ entry[x].line = way.line /\ ~entry[x].inMesh
      <4>1. dependable(x)
        BY <2>3 DEF Member
      <4>2. PICK h \in insertAhead : h \in Entries /\ Member(h) /\ Listed(h, x) /\ pos[h] <= pos[x]
        BY <3>5, <4>1, Spliced
      <4>3. pos[x] <= pos[h]
        BY <3>3, <4>2 DEF Listed
      <4>4. x = h
        BY <4>2, <4>3 DEF State, Lists, Ordered
      <4>5. QED
        BY <3>2, <4>2, <4>4
    <3>6. ~(Mover /\ x = tagged)
      BY <2>3, MemberIs
    <3>7. QED
      BY <1>2, <2>1, <3>1, <3>4, <3>5, <3>6, <1>p DEF PairIs
  <2>4. CASE Mover /\ x = tagged
    <3>1. entry'[x].dep = victimDep /\ x # i
      BY <2>4, MoverIs
    <3>2. Member(y) /\ entry[y].line = way.line /\ entry[y].inMesh
      <4>1. ~dependable(x)
        BY <2>4, MoverIs
      <4>2. QED
        BY <1>2, <2>1, <2>4, <3>1, <4>1, <1>p DEF Member, PairIs
    <3>3. PICK v \in Entries : v = victimDep
      BY <2>4, <3>2, VictimDepIs DEF Mover, Member
    <3>4. dependable(v) /\ entry[v].line = way.line /\ ~dependable(v)' /\ pos[y] <= pos[v]
      BY <2>2, <2>4, <3>1, <3>2, <3>3, VictimDepIs, DepsAssumption DEF Mover, Member
    <3>5. Listed(v, y) /\ v # y
      BY <3>2, <3>4 DEF Listed, Member
    <3>6. pos[v] <= pos[y]
      BY <3>4, <3>5, Leaves
    <3>7. QED
      BY <3>4, <3>5, <3>6 DEF State, Lists, Ordered
  <2>5. CASE i \in Free /\ x = i
    <3>1. entry'[x].dep = depOf(new.line) /\ ~dependable(x) /\ new.line \in Lines
      BY <2>5, NewIs
    <3>2. entry'[y].line = new.line
      BY <1>2, <2>5, NewIs DEF Listed
    <3>3. CASE Mover /\ y = tagged
      <4>1. way.line = new.line /\ matchVictim(new.line)
        BY <3>2, <3>3, MoverIs DEF matchVictim, Mover
      <4>2. CASE depOf(new.line) = tagged
        <5>1. dependable(y)' /\ y \in Entries
          BY <3>3, MoverIs
        <5>2. QED
          BY <2>2, <3>1, <3>3, <4>2, <5>1
      <4>3. CASE depOf(new.line) # tagged
        <5>1. PICK z \in Entries : z = depOf(new.line)
          BY <3>1, <4>1, <4>3, DepOfIs
        <5>2. dependable(z) /\ entry[z].line = new.line /\ ~entry[z].inMesh
          BY <3>1, <4>1, <4>3, <5>1, DepOfIs, DepsAssumption
        <5>3. dependable(z)'
          BY <3>3, <4>1, <5>2, Spliced
        <5>4. QED
          BY <2>2, <3>1, <5>1, <5>3
      <4>4. QED
        BY <4>2, <4>3
    <3>4. CASE Member(y)
      <4>1. entry[y].line = new.line /\ dependable(y)
        BY <3>2, <3>4, MemberIs DEF Member
      <4>2. PICK z \in Entries : z = depOf(new.line)
        BY <1>0, <3>1, <4>1, DepOfIs
      <4>3. CASE Mover /\ z = tagged
        <5>1. dependable(z)'
          BY <4>3, MoverIs
        <5>2. QED
          BY <2>2, <3>1, <4>2, <5>1
      <4>4. CASE dependable(z) /\ entry[z].line = new.line /\ pos[y] <= pos[z]
        <5>1. ~dependable(z)' /\ Listed(z, y) /\ z # y
          BY <2>2, <3>1, <3>4, <4>1, <4>2, <4>4 DEF Listed, Member
        <5>2. pos[z] <= pos[y]
          BY <4>4, <5>1, Leaves
        <5>3. QED
          BY <4>4, <5>1, <5>2 DEF State, Lists, Ordered
      <4>5. QED
        BY <3>1, <4>1, <4>2, <4>3, <4>4, DepOfIs, DepsAssumption
    <3>5. QED
      <4>1. dependable(y)' /\ y # i
        BY <1>2, <2>1, <2>5 DEF Listed
      <4>2. QED
        BY <2>5, <3>3, <3>4, <4>1, WhoIsListed DEF Member
  <2>6. dependable(x)' /\ dependable(y)'
    BY <1>2 DEF Listed
  <2>7. QED
    BY <2>3, <2>4, <2>5, <2>6, WhoIsListed DEF Member
<1>3. ASSUME NEW x \in Entries, NEW y \in Entries, Listed(x, y)', entry'[x].dep = y
      PROVE  /\ posn[y] < posn[x]
             /\ \A k \in Entries : Listed(x, k)' => posn[k] <= posn[y] \/ posn[k] >= posn[x]
  <2>1. dependable(x)'
    BY <1>3 DEF Listed
  <2>2. CASE i \in Free /\ x = i
    <3>1. /\ depOf(new.line) = y /\ depOf(new.line) # None /\ new.line \in Lines
          /\ entry'[x].line = new.line
      BY <1>3, <2>2, NewIs, DepsAssumption
    <3>2. posn[x] = posn[y] + 1
      BY <2>2, <3>1 DEF Places
    <3>3. ASSUME NEW k \in Entries, Listed(x, k)' PROVE posn[k] <= posn[y] \/ posn[k] >= posn[x]
      <4>1. posn[k] \in Nat /\ posn[y] \in Nat
        OBVIOUS
      <4>2. QED
        BY <3>2, <4>1
    <3>4. QED
      BY <3>2, <3>3
  <2>3. CASE Mover /\ x = tagged
    <3>1. victimDep = y /\ victimDep # None
      BY <1>3, <2>3, MoverIs, DepsAssumption
    <3>2. posn[x] = posn[y] + 1
      BY <2>3, <3>1 DEF Places
    <3>3. ASSUME NEW k \in Entries, Listed(x, k)' PROVE posn[k] <= posn[y] \/ posn[k] >= posn[x]
      <4>1. posn[k] \in Nat /\ posn[y] \in Nat
        OBVIOUS
      <4>2. QED
        BY <3>2, <4>1
    <3>4. QED
      BY <3>2, <3>3
  <2>4. CASE Member(x)
    <3>1. /\ entry'[x].dep = IF x \in insertAhead THEN tagged ELSE IF Waits(x) THEN entry[x].dep ELSE None
          /\ x # i /\ ~(Mover /\ x = tagged) /\ dependable(x)
      BY <2>4, MemberIs DEF Member
    <3>2. CASE x \in insertAhead
      <4>1. /\ y = tagged /\ Mover /\ entry[x].line = way.line /\ ~entry[x].inMesh
            /\ \A k \in nonMesh : pos[x] <= pos[k]
        BY <1>3, <3>1, <3>2, SplicedIs DEF Mover
      <4>2. posn[y] < posn[x]
        BY <2>4, <4>1 DEF Places
    \* Those at the mesh are in front of the victim, the others not in front of this one.
      <4>3. ASSUME NEW k \in Entries, Listed(x, k)' PROVE posn[k] <= posn[y] \/ posn[k] >= posn[x]
        <5>1. CASE Member(k) /\ Listed(x, k) /\ entry[k].inMesh
          <6>1. Member(k) /\ entry[k].line = way.line
            BY <4>1, <5>1 DEF Listed
          <6>2. posn[k] < posn[y]
            BY <4>1, <5>1, <6>1 DEF Places
          <6>3. QED
            BY <6>2
        <5>2. CASE Member(k) /\ Listed(x, k) /\ ~entry[k].inMesh
          <6>1. k \in nonMesh
            BY <4>1, <5>2, Spliced DEF Listed
          <6>2. pos[x] <= pos[k]
            BY <4>1, <6>1
          <6>3. QED
            BY <3>1, <4>1, <4>3, <6>2, <1>p DEF PairIs
        <5>3. ~(Member(k) /\ Listed(x, k)) => k = x \/ k = y \/ posn[x] < posn[k]
          BY <3>1, <4>1, <4>3, <1>p DEF PairIs
        <5>4. QED
          BY <5>1, <5>2, <5>3
      <4>4. QED
        BY <4>2, <4>3
    <3>3. CASE x \notin insertAhead
      <4>1. Waits(x) /\ entry[x].dep = y
        BY <1>3, <3>1, <3>3, DepsAssumption
      <4>2. dependable(y) /\ Member(y) /\ Listed(x, y)
        <5>1. dependable(y) /\ entry[y].line = entry[x].line
          BY <3>1, <4>1 DEF Waits, State, Lists, DepsInList, dependable
        <5>2. dependable(y)'
          BY <1>3 DEF Listed
        <5>3. QED
          BY <3>1, <5>1, <5>2 DEF Member, Listed
      <4>3. pos[y] < pos[x] /\ \A k \in Entries : Listed(x, k) => pos[k] <= pos[y] \/ pos[k] >= pos[x]
        BY <4>1, <4>2 DEF State, Lists, Ordered
      <4>4. posn[y] < posn[x]
        BY <2>4, <4>2, <4>3 DEF Places, Listed
      <4>5. ASSUME NEW k \in Entries, Listed(x, k)' PROVE posn[k] <= posn[y] \/ posn[k] >= posn[x]
        <5>1. CASE Member(k) /\ Listed(x, k)
          <6>1. Listed(y, k)
            BY <4>2, <5>1 DEF Listed
          <6>2. Listed(k, y) /\ Listed(k, x)
            BY <4>2, <5>1 DEF Listed
          <6>3. CASE pos[k] >= pos[x]
            <7>1. k = x \/ pos[x] < pos[k]
              BY <5>1, <6>2, <6>3 DEF State, Lists, Ordered
            <7>2. pos[x] < pos[k] => posn[x] < posn[k]
              BY <2>4, <5>1 DEF Places
            <7>3. QED
              BY <7>1, <7>2
          <6>4. CASE pos[k] <= pos[y]
            <7>1. k = y \/ pos[k] < pos[y]
              BY <4>2, <6>2, <6>4 DEF State, Lists, Ordered
            <7>2. pos[k] < pos[y] => posn[k] < posn[y]
              BY <4>2, <5>1, <6>2 DEF Places
            <7>3. QED
              BY <7>1, <7>2
          <6>5. QED
            BY <4>3, <5>1, <6>3, <6>4
        <5>2. CASE Mover /\ k = tagged /\ entry[x].line = way.line
          <6>1. entry[y].line = way.line
            BY <4>2, <5>2 DEF Listed
          <6>2. CASE entry[x].inMesh
            BY <2>4, <5>2, <6>2 DEF Places
          <6>3. CASE ~entry[y].inMesh
            BY <4>2, <5>2, <6>1, <6>3 DEF Places
          <6>4. CASE ~entry[x].inMesh /\ entry[y].inMesh
            <7>1. PICK h \in insertAhead : /\ h \in Entries /\ Listed(h, x) /\ pos[h] <= pos[x]
                                           /\ ~entry[h].inMesh
              BY <3>1, <5>2, <6>4, Spliced
            <7>2. Listed(x, h) /\ Listed(y, h)
              BY <4>2, <7>1 DEF Listed
            <7>3. pos[y] < pos[h]
              BY <6>4, <7>1, <7>2 DEF State, Lists, MeshParts
            <7>4. pos[h] >= pos[x]
              BY <4>3, <7>1, <7>2, <7>3
            <7>5. h = x
              BY <7>1, <7>4 DEF State, Lists, Ordered
            <7>6. QED
              BY <3>3, <7>1, <7>5
          <6>5. QED
            BY <6>2, <6>3, <6>4
        <5>3. CASE posn[x] < posn[k] \/ k = x
          BY <5>3
        <5>4. QED
          BY <3>1, <4>5, <5>1, <5>2, <5>3, <1>p DEF PairIs
      <4>6. QED
        BY <4>4, <4>5
    <3>4. QED
      BY <3>2, <3>3
  <2>5. QED
    BY <2>1, <2>2, <2>3, <2>4, WhoIsListed DEF Member
<1>4. QED
  BY <1>1, <1>2, <1>3 DEF Ordered

\* A list keeps one tail, and everybody else has somebody behind it.
LEMMA TailsKept ==
    ASSUME PipeTiming, NEW pos \in [Entries -> Nat], State(pos),
           NEW i, NEW new, NEW p, NEW m, NEW r, NEW d, NEW done,
           Clock(i, new, p, m, r, d, done),
           NEW posn \in [Entries -> Nat], Places(pos, posn, i, new)
    PROVE  Tails(posn)'
<1>0. /\ Mover => tagVictim /\ tagged \in Entries /\ ~dependable(tagged)
      /\ tagVictim => tagged \in Entries /\ tagged # None /\ (dependable(tagged) => ~entry[tagged].inMesh)
      /\ i \in Free => i \in Entries
  BY VictimIs DEF Mover, State, Free
<1>p. ASSUME NEW x \in Entries, NEW y \in Entries, Listed(x, y)' PROVE PairIs(pos, posn, i, new, x, y)
  BY <1>p, Pairs
\* The last of a line that is at the mesh down to its tail waits with the victim.
<1>t. ASSUME tagVictim, NEW x \in Entries, dependable(x), entry[x].line = way.line, entry[x].inMesh,
             \A k \in Entries : Listed(x, k) /\ entry[k].inMesh => pos[k] <= pos[x]
      PROVE  x \in meshTails /\ x = victimDep
  <2>1. PICK t \in Entries : Listed(x, t) /\ entry[t].meshTail
    BY <1>t DEF State, Lists, MeshParts
  <2>2. entry[t].inMesh /\ pos[x] <= pos[t]
    BY <1>t, <2>1 DEF State, Lists, MeshParts, InMesh, Listed
  <2>3. x = t
    BY <1>t, <2>1, <2>2 DEF State, Lists, Ordered
  <2>4. x # tagged
    BY <1>0, <1>t
  <2>5. x \in meshTails
    BY <1>t, <2>1, <2>3, <2>4 DEF meshTails, sameAsVictim, dependable
  <2>6. victimDep # None /\ pos[x] <= pos[victimDep]
    BY <1>t, VictimDepIs
  <2>7. victimDep \in Entries /\ Listed(x, victimDep) /\ entry[victimDep].inMesh
    BY <1>t, <2>6, VictimDepIs DEF Listed
  <2>8. QED
    BY <1>t, <2>5, <2>6, <2>7 DEF State, Lists, Ordered
<1>1. ASSUME NEW x \in Entries, NEW y \in Entries, Listed(x, y)', entry'[x].tail PROVE posn[y] <= posn[x]
  <2>1. SUFFICES ASSUME posn[x] < posn[y] PROVE FALSE
    OBVIOUS
  <2>2. dependable(x)' /\ entry'[x].line = entry'[y].line /\ x # y
    BY <1>1, <2>1 DEF Listed
  <2>3. CASE Member(x)
    <3>1. /\ x # i /\ ~(Mover /\ x = tagged) /\ dependable(x) /\ entry'[x].line = entry[x].line
          /\ entry[x].tail /\ x \notin meshTails /\ ~(i \in Free /\ depOf(new.line) = x)
      BY <1>1, <2>3, MemberIs DEF Member
    <3>2. \A k \in Entries : Listed(x, k) => pos[k] <= pos[x]
      BY <3>1 DEF State, Lists, Tails
    <3>3. tagVictim /\ entry[x].line = way.line => ~entry[x].inMesh
      BY <1>t, <3>1, <3>2
    <3>4. CASE Listed(x, y) /\ pos[x] < pos[y]
      BY <3>2, <3>4
    <3>5. CASE Mover /\ y = tagged /\ entry[x].line = way.line /\ entry[x].inMesh
      BY <1>0, <3>3, <3>5
    <3>6. CASE i \in Free /\ y = i
      <4>1. entry[x].line = new.line /\ new.line \in Lines
        BY <2>2, <3>1, <3>6, NewIs
      <4>2. CASE /\ depOf(new.line) = tagged /\ Mover /\ way.line = new.line
                 /\ \A k \in Entries : dependable(k) /\ entry[k].line = new.line => entry[k].inMesh
        BY <1>0, <3>1, <3>3, <4>1, <4>2
      <4>3. CASE /\ depOf(new.line) \in Entries /\ dependable(depOf(new.line))
                 /\ entry[depOf(new.line)].line = new.line
                 /\ \A k \in Entries : dependable(k) /\ entry[k].line = new.line => pos[k] <= pos[depOf(new.line)]
        <5>1. Listed(x, depOf(new.line)) /\ pos[x] <= pos[depOf(new.line)]
          BY <3>1, <4>1, <4>3 DEF Listed
        <5>2. pos[depOf(new.line)] <= pos[x]
          BY <3>2, <4>3, <5>1
        <5>3. QED
          BY <3>1, <3>6, <4>3, <5>1, <5>2 DEF State, Lists, Ordered
      <4>4. QED
        BY <3>1, <4>1, <4>2, <4>3, DepOfIs
    <3>7. QED
      BY <1>1, <2>1, <2>2, <3>1, <3>4, <3>5, <3>6, <1>p DEF PairIs
  <2>4. CASE Mover /\ x = tagged
    <3>1. nonMesh = {} /\ ~(i \in Free /\ new.line = way.line) /\ entry'[x].line = way.line /\ x # i
      BY <1>1, <2>4, MoverIs
    <3>2. CASE Member(y) /\ entry[y].line = way.line /\ ~entry[y].inMesh
      BY <2>4, <3>1, <3>2, Spliced DEF Member
    <3>3. CASE i \in Free /\ y = i
      BY <2>2, <3>1, <3>3, NewIs
    <3>4. ~Member(x)
      BY <1>0, <2>4 DEF Member
    <3>5. QED
      BY <1>1, <2>1, <2>2, <2>4, <3>1, <3>2, <3>3, <3>4, <1>p DEF PairIs
  <2>5. CASE i \in Free /\ x = i
    <3>1. y # i /\ entry'[y].line = new.line /\ dependable(y)'
      BY <1>1, <2>2, <2>5, NewIs DEF Listed
    <3>2. posn[y] < posn[x]
      BY <2>5, <3>1 DEF Places
    <3>3. QED
      BY <2>1, <3>2
  <2>6. QED
    BY <2>2, <2>3, <2>4, <2>5, WhoIsListed DEF Member
<1>2. ASSUME NEW x \in Entries, dependable(x)' PROVE \E t \in Entries : Listed(x, t)' /\ entry'[t].tail
  <2>1. CASE i \in Free /\ entry'[x].line = new.line
    <3>1. i \in Entries /\ dependable(i)' /\ entry'[i].line = new.line /\ entry'[i].tail
      BY <2>1, NewIs
    <3>2. QED
      BY <1>2, <2>1, <3>1 DEF Listed
  <2>2. CASE ~(i \in Free /\ entry'[x].line = new.line) /\ Mover /\ entry'[x].line = way.line
    <3>1. CASE nonMesh = {}
      <4>1. PICK t \in Entries : t = tagged
        BY <1>0, <2>2
      <4>2. dependable(t)' /\ entry'[t].line = way.line /\ entry'[t].tail
        BY <2>2, <3>1, <4>1, MoverIs
      <4>3. QED
        BY <1>2, <2>2, <4>2 DEF Listed
    <3>2. CASE nonMesh # {}
      <4>1. PICK y \in nonMesh : TRUE
        BY <3>2
      <4>2. y \in Entries /\ dependable(y) /\ ~entry[y].inMesh /\ entry[y].line = way.line
        BY DEF nonMesh, sameAsVictim
      <4>3. PICK t \in Entries : Listed(y, t) /\ entry[t].tail
        BY <4>2 DEF State, Lists, Tails
      <4>4. pos[y] <= pos[t]
        BY <4>2, <4>3 DEF State, Lists, Tails, Listed
      <4>5. ~entry[t].inMesh
        <5>1. entry[t].inMesh => pos[t] < pos[y]
          BY <4>2, <4>3 DEF State, Lists, MeshParts, Listed
        <5>2. QED
          BY <4>2, <4>4, <5>1
      <4>6. dependable(t)' /\ Member(t)
        BY <2>2, <4>2, <4>3, <4>5, Spliced DEF Listed, Member
      <4>7. t \notin meshTails
        BY <2>2, <4>5, VictimDepIs DEF Mover
      <4>8. /\ entry'[t].line = entry[t].line
            /\ entry'[t].tail <=> entry[t].tail /\ t \notin meshTails /\ ~(i \in Free /\ depOf(new.line) = t)
        BY <4>6, MemberIs
      <4>9. ~(i \in Free /\ depOf(new.line) = t)
        <5>1. SUFFICES ASSUME i \in Free, depOf(new.line) = t PROVE FALSE
          OBVIOUS
        <5>2. new.line \in Lines /\ t # tagged /\ t # None
          BY <1>0, <4>3, <5>1, NewIs, DepsAssumption, <2>2 DEF Listed
        <5>3. entry[t].line = new.line
          BY <5>1, <5>2, DepOfIs
        <5>4. QED
          BY <2>2, <4>2, <4>3, <5>1, <5>3 DEF Listed
      <4>10. QED
        BY <1>2, <2>2, <4>2, <4>3, <4>6, <4>7, <4>8, <4>9 DEF Listed
    <3>3. QED
      BY <3>1, <3>2
  <2>3. CASE ~(i \in Free /\ entry'[x].line = new.line) /\ ~(Mover /\ entry'[x].line = way.line)
    <3>1. Member(x) /\ dependable(x)
      <4>1. ~(i \in Free /\ x = i)
        BY <2>3, NewIs
      <4>2. ~(Mover /\ x = tagged)
        BY <2>3, MoverIs
      <4>3. QED
        BY <1>2, <4>1, <4>2, WhoIsListed DEF Member
    <3>2. entry'[x].line = entry[x].line
      BY <3>1, MemberIs
    <3>3. PICK t \in Entries : Listed(x, t) /\ entry[t].tail
      BY <3>1 DEF State, Lists, Tails
    <3>4. \A k \in Entries : Listed(x, k) => pos[k] <= pos[t]
      BY <3>3 DEF State, Lists, Tails, Listed
    <3>5. Member(t)
      <4>1. SUFFICES ASSUME ~dependable(t)' PROVE FALSE
        BY <3>3 DEF Member, Listed
      <4>2. pos[t] <= pos[x] /\ Listed(t, x)
        BY <3>3, <4>1, Leaves DEF Listed
      <4>3. x = t
        BY <3>1, <3>4, <4>2 DEF State, Lists, Ordered, Listed
      <4>4. QED
        BY <1>2, <4>1, <4>3
    <3>6. t \notin meshTails
      <4>1. SUFFICES ASSUME t \in meshTails PROVE FALSE
        OBVIOUS
      <4>2. tagVictim /\ entry[t].line = way.line /\ t # tagged
        BY <4>1 DEF meshTails, sameAsVictim
      <4>3. selfVictim /\ entry[t].inMesh
        BY <2>3, <3>2, <3>3, <4>1, <4>2, VictimDepIs DEF Mover, Listed
      <4>4. tagged \in Entries /\ Listed(t, tagged) /\ ~entry[tagged].inMesh /\ Listed(x, tagged)
        BY <3>3, <4>2, <4>3, VictimIs DEF State, Listed
      <4>5. pos[t] < pos[tagged]
        BY <4>3, <4>4 DEF State, Lists, MeshParts
      <4>6. QED
        BY <3>4, <4>4, <4>5
    <3>7. ~(i \in Free /\ depOf(new.line) = t)
      <4>1. SUFFICES ASSUME i \in Free, depOf(new.line) = t PROVE FALSE
        OBVIOUS
      <4>2. new.line \in Lines /\ t # None /\ dependable(t)
        BY <3>3, <4>1, NewIs, DepsAssumption DEF Listed
      <4>3. entry[t].line = new.line
        BY <1>0, <4>1, <4>2, DepOfIs
      <4>4. QED
        BY <2>3, <3>2, <3>3, <4>1, <4>3 DEF Listed
    <3>8. /\ entry'[t].line = entry[t].line
          /\ entry'[t].tail <=> entry[t].tail /\ t \notin meshTails /\ ~(i \in Free /\ depOf(new.line) = t)
      BY <3>5, MemberIs
    <3>9. QED
      BY <1>2, <3>2, <3>3, <3>5, <3>6, <3>7, <3>8 DEF Listed, Member
  <2>4. QED
    BY <2>1, <2>2, <2>3
<1>3. ASSUME NEW x \in Entries, dependable(x)', ~entry'[x].tail
      PROVE  \E y \in Entries : Listed(x, y)' /\ entry'[y].dep = x
  <2>1. CASE i \in Free /\ depOf(new.line) = x
    <3>1. /\ i \in Entries /\ dependable(i)' /\ entry'[i].line = new.line /\ entry'[i].dep = x
          /\ new.line \in Lines
      BY <2>1, NewIs
    <3>2. entry'[x].line = new.line
      <4>1. CASE x = tagged /\ Mover /\ way.line = new.line
        BY <4>1, MoverIs
      <4>2. CASE dependable(x) /\ entry[x].line = new.line
        BY <1>3, <4>2, MemberIs DEF Member
      <4>3. QED
        BY <2>1, <3>1, <4>1, <4>2, DepOfIs, DepsAssumption
    <3>3. QED
      BY <1>3, <3>1, <3>2 DEF Listed
  <2>2. CASE Mover /\ x = tagged
    <3>1. /\ entry'[x].line = way.line
          /\ nonMesh # {} \/ (i \in Free /\ new.line = way.line)
      BY <1>3, <2>2, MoverIs
    <3>2. CASE nonMesh # {}
      <4>1. PICK y \in nonMesh : TRUE
        BY <3>2
      <4>2. y \in Entries /\ dependable(y) /\ ~entry[y].inMesh /\ entry[y].line = way.line
        BY DEF nonMesh, sameAsVictim
      <4>3. PICK h \in insertAhead : /\ h \in Entries /\ Member(h) /\ entry[h].line = way.line
                                     /\ entry'[h].dep = tagged
        BY <2>2, <4>2, Spliced
      <4>4. entry'[h].line = way.line /\ dependable(h)' /\ entry'[h].dep = x
        BY <2>2, <4>3, MemberIs DEF Member
      <4>5. QED
        BY <1>3, <3>1, <4>3, <4>4 DEF Listed
    <3>3. CASE nonMesh = {} /\ i \in Free /\ new.line = way.line
      <4>1. new.line \in Lines /\ matchVictim(new.line)
        BY <1>0, <2>2, <3>3, NewIs DEF matchVictim
      <4>2. depOf(new.line) = x
        <5>1. ASSUME NEW z \in Entries, dependable(z), entry[z].line = new.line, ~entry[z].inMesh PROVE FALSE
          BY <2>2, <3>3, <5>1, Spliced
        <5>2. QED
          BY <2>2, <4>1, <5>1, DepOfIs
      <4>3. QED
        BY <2>1, <3>3, <4>2
    <3>4. QED
      BY <3>1, <3>2, <3>3
  <2>3. CASE Member(x) /\ ~(i \in Free /\ depOf(new.line) = x)
    <3>1. /\ dependable(x) /\ entry'[x].line = entry[x].line
          /\ ~entry[x].tail \/ x \in meshTails
      BY <1>3, <2>3, MemberIs DEF Member
    <3>2. CASE Mover /\ x = victimDep
      <4>1. PICK t \in Entries : t = tagged
        BY <1>0, <3>2
      <4>2. dependable(t)' /\ entry'[t].line = way.line /\ entry'[t].dep = x
        BY <3>2, <4>1, MoverIs
      <4>3. entry[x].line = way.line
        BY <1>0, <3>2, VictimDepIs, DepsAssumption
      <4>4. QED
        BY <1>3, <3>1, <4>2, <4>3 DEF Listed
    <3>3. CASE ~entry[x].tail
      <4>1. PICK y \in Entries : Listed(x, y) /\ entry[y].dep = x
        BY <3>1, <3>3 DEF State, Lists, Tails
      <4>2. Waits(y) /\ dependable(y)
        BY <4>1 DEF Waits, Listed
      <4>3. Member(y)
        BY <4>2, Leaves DEF Member
      <4>4. /\ entry'[y].line = entry[y].line
            /\ entry'[y].dep = IF y \in insertAhead THEN tagged ELSE IF Waits(y) THEN entry[y].dep ELSE None
        BY <4>3, MemberIs
      <4>5. CASE y \notin insertAhead
        BY <1>3, <3>1, <4>1, <4>2, <4>3, <4>4, <4>5 DEF Listed, Member
      <4>6. CASE y \in insertAhead
        <5>1. /\ Mover /\ tagVictim /\ entry[y].line = way.line /\ ~entry[y].inMesh
              /\ \A k \in nonMesh : pos[y] <= pos[k]
          BY <4>6, SplicedIs DEF Mover
        <5>2. Listed(y, x) /\ entry[x].line = way.line
          BY <4>1, <5>1 DEF Listed
        <5>3. pos[x] < pos[y] /\ \A k \in Entries : Listed(y, k) => pos[k] <= pos[x] \/ pos[k] >= pos[y]
          BY <4>1, <5>2 DEF State, Lists, Ordered
        <5>4. entry[x].inMesh
          <6>1. SUFFICES ASSUME ~entry[x].inMesh PROVE FALSE
            OBVIOUS
          <6>2. x \in nonMesh
            BY <3>1, <5>1, <5>2, <6>1, Spliced
          <6>3. QED
            BY <5>1, <5>3, <6>2
        <5>5. ASSUME NEW k \in Entries, Listed(x, k), entry[k].inMesh PROVE pos[k] <= pos[x]
          <6>1. Listed(y, k) /\ Listed(k, y)
            BY <4>1, <5>5 DEF Listed
          <6>2. pos[k] < pos[y]
            BY <5>1, <5>5, <6>1 DEF State, Lists, MeshParts
          <6>3. QED
            BY <5>3, <6>1, <6>2
        <5>6. x = victimDep
          BY <1>t, <3>1, <5>1, <5>2, <5>4, <5>5
        <5>7. QED
          BY <3>2, <5>1, <5>6
      <4>7. QED
        BY <4>5, <4>6
    <3>4. CASE entry[x].tail /\ x \in meshTails
      <4>1. tagVictim /\ entry[x].line = way.line /\ entry[x].inMesh
        BY <3>4, VictimDepIs DEF meshTails, sameAsVictim
      <4>2. \A k \in Entries : Listed(x, k) => pos[k] <= pos[x]
        BY <3>4 DEF State, Lists, Tails
      <4>3. x = victimDep
        BY <1>t, <3>1, <4>1, <4>2
      <4>4. Mover
        <5>1. SUFFICES ASSUME selfVictim PROVE FALSE
          BY <4>1 DEF Mover
        <5>2. tagged \in Entries /\ Listed(x, tagged) /\ ~entry[tagged].inMesh
          BY <3>1, <4>1, <5>1, VictimIs DEF State, Listed
        <5>3. pos[x] < pos[tagged]
          BY <4>1, <5>2 DEF State, Lists, MeshParts
        <5>4. QED
          BY <4>2, <5>2, <5>3
      <4>5. QED
        BY <3>2, <4>3, <4>4
    <3>5. QED
      BY <3>1, <3>3, <3>4
  <2>4. CASE i \in Free /\ x = i
    BY <1>3, <2>4, NewIs
  <2>5. QED
    BY <1>3, <2>1, <2>2, <2>3, <2>4, WhoIsListed DEF Member
<1>4. QED
  BY <1>1, <1>2, <1>3 DEF Tails

\* Those at or bound for the mesh stay in front, the last of them marked.
LEMMA MeshPartsKept ==
    ASSUME PipeTiming, NEW pos \in [Entries -> Nat], State(pos),
           NEW i, NEW new, NEW p, NEW m, NEW r, NEW d, NEW done,
           Clock(i, new, p, m, r, d, done),
           NEW posn \in [Entries -> Nat], Places(pos, posn, i, new)
    PROVE  MeshParts(posn)'
<1>0. /\ Mover => tagVictim /\ tagged \in Entries /\ ~dependable(tagged) /\ entry[tagged].line # way.line
      /\ i \in Free => i \in Entries
  BY VictimIs DEF Mover, State, Free
<1>p. ASSUME NEW x \in Entries, NEW y \in Entries, Listed(x, y)' PROVE PairIs(pos, posn, i, new, x, y)
  BY <1>p, Pairs
<1>w. ASSUME NEW x \in Entries, dependable(x)'
      PROVE  Member(x) \/ (Mover /\ x = tagged) \/ (i \in Free /\ x = i)
  BY <1>w, WhoIsListed DEF Member
\* At the mesh after the clock is who was, who moves up, and the victim of a miss.
<1>m. ASSUME NEW x \in Entries, Member(x)
      PROVE  /\ x # i /\ dependable(x) /\ ~(Mover /\ x = tagged) /\ entry'[x].line = entry[x].line
             /\ entry'[x].inMesh <=> (entry[x].inMesh \/ x \in upgraded)
             /\ entry'[x].meshTail <=> (x \in upgraded \/ (entry[x].meshTail /\ x \notin meshTails))
             /\ x \in upgraded => ~entry[x].inMesh
             /\ entry[x].meshTail => entry[x].inMesh
             /\ x \in upgraded => \A y \in Entries : InFront(x, y) => pos[x] <= pos[y]
  BY <1>m, MemberIs, UpgradedIs DEF Member, State, Lists, MeshParts
<1>1. ASSUME NEW x \in Entries, NEW y \in Entries, Listed(x, y)', entry'[x].inMesh, ~entry'[y].inMesh
      PROVE  posn[x] < posn[y]
  <2>1. dependable(x)' /\ dependable(y)' /\ x # y
    BY <1>1 DEF Listed
  <2>2. ~(i \in Free /\ x = i) /\ ~(Mover /\ y = tagged)
    BY <1>1, NewIs, MoverIs
  <2>3. CASE i \in Free /\ y = i
    BY <1>1, <2>1, <2>2, <2>3, <1>w, <1>m, <1>p, MoverIs DEF PairIs
  <2>4. CASE Mover /\ x = tagged /\ Member(y)
    <3>1. entry'[x].line = way.line /\ entry'[y].line = entry[y].line /\ ~entry[y].inMesh
      BY <1>1, <2>4, <1>m, MoverIs
    <3>2. entry[y].line = way.line
      BY <1>1, <3>1 DEF Listed
    <3>3. QED
      BY <2>4, <3>1, <3>2 DEF Places
  <2>5. CASE Member(x) /\ Member(y)
    <3>1. Listed(x, y) /\ ~entry[y].inMesh /\ y \notin upgraded
      BY <1>1, <2>1, <2>5, <1>m DEF Listed
    <3>2. pos[x] < pos[y]
      <4>1. CASE entry[x].inMesh
        BY <3>1, <4>1 DEF State, Lists, MeshParts
      <4>2. CASE x \in upgraded
        <5>1. pos[x] <= pos[y]
          BY <2>5, <3>1, <4>2, <1>m DEF InFront
        <5>2. pos[x] # pos[y]
          BY <2>1, <3>1 DEF State, Lists, Ordered
        <5>3. QED
          BY <5>1, <5>2
      <4>3. QED
        BY <1>1, <2>5, <4>1, <4>2, <1>m
    <3>3. QED
      BY <2>5, <3>1, <3>2 DEF Places
  <2>6. QED
    BY <2>1, <2>2, <2>3, <2>4, <2>5, <1>w
<1>2. ASSUME NEW x \in Entries, dependable(x)', entry'[x].meshTail PROVE entry'[x].inMesh
  BY <1>2, <1>w, <1>m, MoverIs, NewIs
<1>3. ASSUME NEW x \in Entries, NEW y \in Entries, InMesh(x, y)', entry'[x].meshTail
      PROVE  posn[y] <= posn[x]
  <2>1. /\ dependable(x)' /\ dependable(y)' /\ Listed(x, y)' /\ entry'[x].inMesh /\ entry'[y].inMesh
        /\ entry'[x].line = entry'[y].line
    BY <1>3 DEF InMesh, Listed
  <2>2. ~(i \in Free /\ x = i) /\ ~(i \in Free /\ y = i)
    BY <2>1, NewIs
  <2>3. SUFFICES ASSUME x # y, posn[x] < posn[y] PROVE FALSE
    OBVIOUS
  <2>4. CASE Mover /\ x = tagged
    <3>1. Member(y) /\ entry[y].line = way.line /\ upgrading \intersect sameAsVictim = {}
      BY <1>3, <2>1, <2>2, <2>3, <2>4, <1>w, <1>m, MoverIs
    <3>2. ~entry[y].inMesh
      BY <2>3, <2>4, <3>1 DEF Places
    <3>3. y \in upgrading
      BY <2>1, <2>4, <3>1, <3>2, <1>m DEF upgraded, Mover
    <3>4. y \in sameAsVictim
      BY <1>0, <2>3, <2>4, <3>1, <1>m DEF sameAsVictim, dependable
    <3>5. QED
      BY <3>1, <3>3, <3>4
  <2>5. CASE Mover /\ y = tagged
    <3>1. Member(x) /\ entry[x].line = way.line
      BY <1>3, <2>1, <2>2, <2>3, <2>5, <1>w, <1>m, MoverIs
    <3>2. entry[x].inMesh
      BY <2>3, <2>5, <3>1 DEF Places
    <3>3. entry[x].meshTail /\ x \notin meshTails
      BY <1>3, <3>1, <3>2, <1>m
    <3>4. x \in meshTails
      BY <1>0, <2>3, <2>5, <3>1, <3>3, <1>m DEF meshTails, sameAsVictim, dependable
    <3>5. QED
      BY <3>3, <3>4
  <2>6. CASE Member(x) /\ Member(y)
    <3>1. Listed(x, y) /\ Listed(y, x)
      BY <2>1, <2>6, <1>m DEF Listed
    <3>2. pos[x] < pos[y]
      <4>1. pos[x] # pos[y]
        BY <2>3, <3>1 DEF State, Lists, Ordered
      <4>2. pos[y] < pos[x] => posn[y] < posn[x]
        BY <2>6, <3>1 DEF Places
      <4>3. QED
        BY <2>3, <4>1, <4>2
    <3>3. CASE x \in upgraded
      <4>1. ~entry[x].inMesh /\ \A z \in Entries : InFront(x, z) => pos[x] <= pos[z]
        BY <2>6, <3>3, <1>m
      <4>2. ~entry[y].inMesh
        <5>1. entry[y].inMesh => pos[y] < pos[x]
          BY <3>1, <4>1 DEF State, Lists, MeshParts
        <5>2. QED
          BY <3>2, <5>1
      <4>3. y \in upgraded
        BY <2>1, <2>6, <4>2, <1>m
      <4>4. pos[y] <= pos[x]
        BY <2>6, <3>1, <4>1, <4>2, <4>3, <1>m DEF InFront
      <4>5. QED
        BY <3>2, <4>4
    <3>4. CASE x \notin upgraded
      <4>1. entry[x].meshTail /\ x \notin meshTails /\ entry[x].inMesh
        BY <1>3, <2>6, <3>4, <1>m
      <4>2. ~entry[y].inMesh
        <5>1. entry[y].inMesh => pos[y] <= pos[x]
          BY <3>1, <4>1 DEF State, Lists, MeshParts, InMesh
        <5>2. QED
          BY <3>2, <5>1
      <4>3. y \in upgraded
        BY <2>1, <2>6, <4>2, <1>m
      <4>4. y \notin upgrading
        BY <3>1, <4>1, <4>3, UpgradedIs
      <4>5. selfVictim /\ y = tagged /\ entry[x].line = way.line /\ x # tagged /\ tagVictim
        BY <2>3, <3>1, <4>3, <4>4, UpgradedIs, VictimIs DEF selfVictim, Listed, State
      <4>6. x \in meshTails
        BY <2>6, <4>1, <4>5, <1>m DEF meshTails, sameAsVictim, dependable
      <4>7. QED
        BY <4>1, <4>6
    <3>5. QED
      BY <3>3, <3>4
  <2>7. QED
    BY <2>1, <2>2, <2>3, <2>4, <2>5, <2>6, <1>w
<1>4. ASSUME NEW x \in Entries, dependable(x)', entry'[x].inMesh
      PROVE  \E t \in Entries : Listed(x, t)' /\ entry'[t].meshTail
  <2>1. CASE Mover /\ entry'[x].line = way.line
    <3>1. CASE upgrading \intersect sameAsVictim = {}
      <4>1. PICK t \in Entries : t = tagged
        BY <1>0, <2>1
      <4>2. dependable(t)' /\ entry'[t].line = way.line /\ entry'[t].meshTail
        BY <2>1, <3>1, <4>1, MoverIs
      <4>3. QED
        BY <1>4, <2>1, <4>2 DEF Listed
    <3>2. CASE upgrading \intersect sameAsVictim # {}
      <4>1. PICK t \in upgrading : t \in sameAsVictim
        BY <3>2
      <4>2. t \in upgraded /\ t \in Entries /\ entry[t].line = way.line
        BY <4>1 DEF upgraded, sameAsVictim
      <4>3. Member(t)
        BY <4>2, UpgradedStays
      <4>4. entry'[t].meshTail /\ entry'[t].line = way.line /\ dependable(t)'
        BY <4>2, <4>3, <1>m DEF Member
      <4>5. QED
        BY <1>4, <2>1, <4>2, <4>4 DEF Listed
    <3>3. QED
      BY <3>1, <3>2
  <2>2. CASE Member(x) /\ ~(Mover /\ entry'[x].line = way.line)
    <3>1. CASE x \in upgraded
      <4>1. Listed(x, x)'
        BY <1>4 DEF Listed
      <4>2. QED
        BY <2>2, <3>1, <4>1, <1>m
    <3>2. CASE x \notin upgraded
      <4>1. dependable(x) /\ entry[x].inMesh /\ entry'[x].line = entry[x].line
        BY <1>4, <2>2, <3>2, <1>m
      <4>2. PICK t \in Entries : Listed(x, t) /\ entry[t].meshTail
        BY <4>1 DEF State, Lists, MeshParts
      <4>3. entry[t].inMesh /\ pos[x] <= pos[t]
        BY <4>1, <4>2 DEF State, Lists, MeshParts, InMesh, Listed
      <4>4. Member(t)
        <5>1. SUFFICES ASSUME ~dependable(t)' PROVE FALSE
          BY <4>2 DEF Member, Listed
        <5>2. pos[t] <= pos[x]
          BY <4>2, <5>1, Leaves DEF Listed
        <5>3. x = t
          BY <4>2, <4>3, <5>2 DEF State, Lists, Ordered
        <5>4. QED
          BY <1>4, <5>1, <5>3
      <4>5. CASE t \notin meshTails
        <5>1. entry'[t].meshTail /\ entry'[t].line = entry[t].line
          BY <4>2, <4>4, <4>5, <1>m
        <5>2. QED
          BY <1>4, <4>1, <4>2, <4>4, <5>1 DEF Listed, Member
      <4>6. CASE t \in meshTails
        <5>1. tagVictim /\ entry[t].line = way.line
          BY <4>6 DEF meshTails, sameAsVictim
        <5>2. selfVictim
          BY <2>2, <4>1, <4>2, <5>1 DEF Mover, Listed
        <5>3. PICK s \in Entries : s = tagged
          BY <5>1, VictimIs DEF State
        <5>4. entry[s].line = way.line /\ s \in upgraded
          BY <5>1, <5>2, <5>3, VictimIs DEF State, upgraded
        <5>5. Member(s)
          BY <5>4, UpgradedStays
        <5>6. entry'[s].meshTail /\ entry'[s].line = way.line
          BY <5>4, <5>5, <1>m
        <5>7. QED
          BY <1>4, <4>1, <4>2, <5>1, <5>5, <5>6 DEF Listed, Member
      <4>7. QED
        BY <4>5, <4>6
    <3>3. QED
      BY <3>1, <3>2
  <2>3. CASE Mover /\ x = tagged
    BY <2>1, <2>3, MoverIs
  <2>4. CASE i \in Free /\ x = i
    BY <1>4, <2>4, NewIs
  <2>5. QED
    BY <1>4, <2>1, <2>2, <2>3, <2>4, <1>w
<1>5. QED
  BY <1>1, <1>2, <1>3, <1>4 DEF MeshParts

\* The first that is not at the mesh is marked, or about to be, and is the only one
\* on its way through the pipeline.
LEMMA HeadsKept ==
    ASSUME PipeTiming, NEW pos \in [Entries -> Nat], State(pos),
           NEW i, NEW new, NEW p, NEW m, NEW r, NEW d, NEW done,
           Clock(i, new, p, m, r, d, done),
           NEW posn \in [Entries -> Nat], Places(pos, posn, i, new)
    PROVE  Heads(posn)'
<1>w. ASSUME NEW x \in Entries, dependable(x)'
      PROVE  Member(x) \/ (Mover /\ x = tagged) \/ (i \in Free /\ x = i)
  BY <1>w, WhoIsListed DEF Member
\* Who is not at the mesh after the clock was not there before.
<1>f. ASSUME NEW x \in Entries, Member(x)
      PROVE  /\ x # i /\ dependable(x) /\ entry'[x].line = entry[x].line
             /\ entry'[x].inMesh <=> (entry[x].inMesh \/ x \in upgraded)
             /\ ~entry'[x].inMesh =>
                  (entry'[x].head <=> (WaitsNoMore(x) \/ entry[x].dep \in upgraded \/ entry[x].head))
  BY <1>f, MemberIs DEF Member
<1>n. ASSUME NEW x \in Entries, dependable(x)', ~entry'[x].inMesh
      PROVE  Member(x) \/ (i \in Free /\ x = i)
  BY <1>n, <1>w, MoverIs
\* The order of two old entries that are not at the mesh.
<1>o. ASSUME NEW x \in Entries, NEW y \in Entries, Member(x), Member(y), Listed(x, y), pos[x] <= pos[y]
      PROVE  posn[x] <= posn[y]
  <2>1. CASE pos[x] = pos[y]
    <3>1. x = y
      BY <1>o, <2>1 DEF State, Lists, Ordered
    <3>2. QED
      BY <3>1
  <2>2. CASE pos[x] < pos[y]
    <3>1. posn[x] < posn[y]
      BY <1>o, <2>2 DEF Places
    <3>2. QED
      BY <3>1
  <2>3. QED
    BY <1>o, <2>1, <2>2
\* An old entry and the request allocated.
<1>a. ASSUME NEW x \in Entries, i \in Free, Listed(x, i)' PROVE posn[x] <= posn[i]
  <2>1. CASE x = i
    BY <1>a, <2>1
  <2>2. CASE x # i
    <3>1. dependable(x)' /\ entry'[x].line = new.line /\ i \in Entries
      BY <1>a, NewIs DEF Listed
    <3>2. posn[x] < posn[i]
      BY <1>a, <2>2, <3>1 DEF Places
    <3>3. QED
      BY <3>1, <3>2
  <2>3. QED
    BY <2>1, <2>2
<1>1. ASSUME NEW x \in Entries, NEW y \in Entries, InFront(x, y)', entry'[x].head
      PROVE  posn[x] <= posn[y]
  <2>1. /\ dependable(x)' /\ dependable(y)' /\ Listed(x, y)' /\ ~entry'[x].inMesh /\ ~entry'[y].inMesh
        /\ entry'[x].line = entry'[y].line
    BY <1>1 DEF InFront, Listed
  <2>2. CASE i \in Free /\ y = i
    BY <2>1, <2>2, <1>a
  <2>3. CASE i \in Free /\ x = i /\ Member(y)
    <3>1. entry[y].line = new.line /\ headOf(new.line) /\ dependable(y) /\ ~entry[y].inMesh /\ y \notin upgraded
      BY <1>1, <2>1, <2>3, <1>f, NewIs
    <3>2. QED
      BY <3>1 DEF headOf, matching
  <2>4. CASE Member(x) /\ Member(y)
    <3>1. /\ Listed(x, y) /\ ~entry[x].inMesh /\ ~entry[y].inMesh /\ y \notin upgraded
          /\ WaitsNoMore(x) \/ entry[x].dep \in upgraded \/ entry[x].head
      BY <1>1, <2>1, <2>4, <1>f DEF Listed
    <3>2. pos[x] <= pos[y]
      <4>1. CASE entry[x].head
        BY <3>1, <4>1 DEF State, Lists, Heads, InFront
      <4>2. CASE WaitsNoMore(x)
        <5>1. ~Waits(x)
          BY <4>2 DEF WaitsNoMore, Waits, dependable
        <5>2. QED
          BY <3>1, <5>1 DEF State, Lists, Ordered
      <4>3. CASE entry[x].dep \in upgraded
        <5>1. PICK u \in upgraded : u = entry[x].dep
          BY <4>3
        <5>2. u \in Entries /\ dependable(u) /\ ~entry[u].inMesh
          BY <5>1, UpgradedIs
        <5>3. Listed(x, u) /\ InFront(u, y)
          BY <2>4, <3>1, <5>1, <5>2, <1>f DEF State, Lists, DepsInList, Listed, InFront, dependable
        <5>4. pos[u] <= pos[y]
          BY <5>3, UpgradedIs
        <5>5. pos[y] <= pos[u] \/ pos[y] >= pos[x]
          BY <3>1, <5>1, <5>2, <5>3 DEF State, Lists, Ordered
        <5>6. pos[y] = pos[u] => y = u
          BY <5>2, <5>3 DEF State, Lists, Ordered, InFront
        <5>7. pos[u] # pos[y]
          BY <3>1, <5>6
        <5>8. QED
          BY <5>2, <5>4, <5>5, <5>7
      <4>4. QED
        BY <3>1, <4>1, <4>2, <4>3
    <3>3. QED
      BY <2>4, <3>1, <3>2, <1>o
  <2>5. CASE x = y
    BY <2>5
  <2>6. QED
    BY <2>1, <2>2, <2>3, <2>4, <2>5, <1>n
\* Among the old entries of a line one is the first and marked, or its successor takes over.
<1>2. ASSUME NEW x \in Entries, Member(x), ~entry'[x].inMesh
      PROVE  \E h \in Entries : Member(h) /\ InFront(x, h)' /\ (entry'[h].head \/ WaitsNoMore(h)')
  <2>1. dependable(x) /\ ~entry[x].inMesh /\ x \notin upgraded /\ dependable(x)' /\ entry'[x].line = entry[x].line
    BY <1>2, <1>f DEF Member
  <2>2. PICK h \in Entries : InFront(x, h) /\ (entry[h].head \/ WaitsNoMore(h))
    BY <2>1 DEF State, Lists, Heads
  <2>3. \A y \in Entries : InFront(h, y) => pos[h] <= pos[y]
    <3>1. CASE entry[h].head
      BY <3>1 DEF State, Lists, Heads
    <3>2. CASE WaitsNoMore(h)
      <4>1. ~Waits(h)
        BY <3>2 DEF WaitsNoMore, Waits, dependable
      <4>2. QED
        BY <4>1 DEF State, Lists, Ordered, InFront
    <3>3. QED
      BY <2>2, <3>1, <3>2
  <2>4. CASE h \notin upgraded /\ dependable(h)'
    <3>1. Member(h)
      BY <2>2, <2>4 DEF Member, InFront, Listed
    <3>2. ~entry'[h].inMesh /\ entry'[h].line = entry[h].line /\ entry'[h].head
      BY <2>2, <2>4, <3>1, <1>f DEF InFront
    <3>3. InFront(x, h)'
      BY <1>2, <2>1, <2>2, <2>4, <3>2 DEF InFront, Listed
    <3>4. QED
      BY <3>1, <3>2, <3>3
  <2>5. CASE h \in upgraded \/ ~dependable(h)'
    <3>1. h # x /\ Listed(h, x) /\ ~entry[h].inMesh /\ dependable(h)
      BY <2>1, <2>2, <2>5 DEF InFront, Listed
    <3>2. pos[h] <= pos[x] /\ pos[h] # pos[x]
      BY <2>1, <2>3, <3>1 DEF InFront, State, Lists, Ordered
    <3>3. ~entry[h].tail
      <4>1. entry[h].tail => pos[x] <= pos[h]
        BY <3>1 DEF State, Lists, Tails
      <4>2. QED
        BY <3>2, <4>1
    <3>4. PICK g \in Entries : Listed(h, g) /\ entry[g].dep = h
      BY <3>1, <3>3 DEF State, Lists, Tails
    <3>5. Listed(g, h) /\ Waits(g)
      BY <3>4 DEF Listed, Waits
    <3>6. pos[h] < pos[g]
      BY <3>4, <3>5 DEF State, Lists, Ordered
    <3>7. ~entry[g].inMesh
      <4>1. entry[g].inMesh => pos[g] < pos[h]
        BY <3>1, <3>5 DEF State, Lists, MeshParts
      <4>2. QED
        BY <3>6, <4>1
    <3>8. g \notin upgraded
      <4>1. g \in upgraded => pos[g] <= pos[h]
        BY <3>1, <3>5, <3>7, UpgradedIs DEF InFront
      <4>2. QED
        BY <3>6, <4>1
    <3>9. Member(g)
      BY <3>4, <3>5, Leaves DEF Member, Listed
    <3>10. ~entry'[g].inMesh /\ entry'[g].line = entry[g].line
      BY <3>7, <3>8, <3>9, <1>f
    <3>11. InFront(x, g)'
      BY <1>2, <2>1, <3>1, <3>4, <3>9, <3>10 DEF InFront, Listed, Member
    <3>12. CASE h \in upgraded
      <4>1. entry'[g].head
        BY <3>4, <3>9, <3>10, <3>12, <1>f
      <4>2. QED
        BY <3>9, <3>11, <4>1
    <3>13. CASE ~dependable(h)'
      <4>1. g \notin insertAhead
        <5>1. SUFFICES ASSUME g \in insertAhead PROVE FALSE
          OBVIOUS
        <5>2. Mover /\ entry[g].line = way.line /\ \A k \in nonMesh : pos[g] <= pos[k]
          BY <5>1, SplicedIs DEF Mover
        <5>3. entry[h].line = way.line
          BY <3>4, <5>2 DEF Listed
        <5>4. h \in nonMesh
          BY <3>1, <5>2, <5>3, Spliced
        <5>5. QED
          BY <3>6, <5>2, <5>4
      <4>2. entry'[g].dep = h
        <5>1. entry'[g].dep = IF g \in insertAhead THEN tagged ELSE IF Waits(g) THEN entry[g].dep ELSE None
          BY <3>9, MemberIs
        <5>2. QED
          BY <3>4, <3>5, <4>1, <5>1
      <4>3. clears(h)'
        BY <3>1, <3>13, Leaves
      <4>4. WaitsNoMore(g)'
        BY <4>2, <4>3 DEF WaitsNoMore, clears
      <4>5. QED
        BY <3>9, <3>11, <4>4
    <3>14. QED
      BY <2>5, <3>12, <3>13
  <2>6. QED
    BY <2>4, <2>5
<1>3. ASSUME NEW x \in Entries, dependable(x)', ~entry'[x].inMesh
      PROVE  \E h \in Entries : InFront(x, h)' /\ (entry'[h].head \/ WaitsNoMore(h)')
  <2>1. CASE Member(x)
    BY <1>2, <1>3, <2>1
  <2>2. CASE i \in Free /\ x = i
    <3>1. /\ entry'[x].line = new.line /\ new.line \in Lines /\ entry'[x].dep = depOf(new.line)
          /\ entry'[x].head <=> headOf(new.line)
      BY <2>2, NewIs
    <3>2. InFront(x, x)'
      BY <1>3 DEF InFront, Listed
    <3>3. CASE headOf(new.line)
      BY <3>1, <3>2, <3>3
    <3>4. ASSUME NEW y \in Entries, Member(y), ~entry'[y].inMesh, entry[y].line = new.line
          PROVE  \E h \in Entries : InFront(x, h)' /\ (entry'[h].head \/ WaitsNoMore(h)')
      <4>1. PICK h \in Entries : InFront(y, h)' /\ (entry'[h].head \/ WaitsNoMore(h)')
        BY <1>2, <3>4
      <4>2. entry'[y].line = new.line
        BY <3>4, <1>f
      <4>3. InFront(x, h)'
        BY <1>3, <3>1, <4>1, <4>2 DEF InFront, Listed
      <4>4. QED
        BY <4>1, <4>3
    <3>5. CASE ~headOf(new.line)
      <4>1. PICK k \in Entries : dependable(k) /\ entry[k].line = new.line /\ ~entry[k].inMesh /\ k \notin upgraded
        BY <3>5 DEF headOf, matching
      <4>2. CASE Member(k)
        <5>1. ~entry'[k].inMesh
          BY <4>1, <4>2, <1>f
        <5>2. QED
          BY <3>4, <4>1, <4>2, <5>1
      <4>3. CASE ~dependable(k)' /\ ~entry[k].tail
        <5>1. PICK g \in Entries : Listed(k, g) /\ entry[g].dep = k
          BY <4>1, <4>3 DEF State, Lists, Tails
        <5>2. Waits(g) /\ Listed(g, k)
          BY <5>1 DEF Waits, Listed
        <5>3. Member(g)
          BY <5>2, Leaves DEF Member, Listed
        <5>4. pos[k] < pos[g]
          BY <5>1, <5>2 DEF State, Lists, Ordered
        <5>5. ~entry[g].inMesh
          <6>1. entry[g].inMesh => pos[g] < pos[k]
            BY <4>1, <5>2 DEF State, Lists, MeshParts
          <6>2. QED
            BY <5>4, <6>1
        <5>6. g \notin upgraded
          <6>1. g \in upgraded => pos[g] <= pos[k]
            BY <4>1, <5>2, <5>5, UpgradedIs DEF InFront
          <6>2. QED
            BY <5>4, <6>1
        <5>7. ~entry'[g].inMesh /\ entry[g].line = new.line
          BY <4>1, <5>1, <5>3, <5>5, <5>6, <1>f DEF Listed
        <5>8. QED
          BY <3>4, <5>3, <5>7
      <4>4. CASE ~dependable(k)' /\ entry[k].tail
        <5> DEFINE z == depOf(new.line)
        <5>1. PICK w \in Entries : w = z /\ dependable(w) /\ entry[w].line = new.line /\ pos[k] <= pos[w]
          BY <3>1, <4>1, DepOfIs, DepsAssumption
        <5>2. pos[w] <= pos[k] /\ Listed(k, w)
          BY <4>1, <4>4, <5>1 DEF State, Lists, Tails, Listed
        <5>3. w = k
          BY <5>1, <5>2 DEF State, Lists, Ordered
        <5>4. clears(k)'
          BY <4>1, <4>4, Leaves
        <5>5. entry'[x].dep = k
          BY <3>1, <5>1, <5>3
        <5>6. WaitsNoMore(x)'
          BY <5>4, <5>5 DEF WaitsNoMore, clears
        <5>7. QED
          BY <3>2, <5>6
      <4>5. QED
        BY <4>1, <4>2, <4>3, <4>4 DEF Member
    <3>6. QED
      BY <3>3, <3>5
  <2>3. QED
    BY <1>3, <2>1, <2>2, <1>n
<1>4. ASSUME NEW k \in 1..Latency, NEW j \in Entries, pipe'[k] # None, InFront(pipe[k], j)'
      PROVE  posn[pipe'[k]] <= posn[j]
  <2>1. pipe'[k] = (IF k = 1 THEN p ELSE pipe[k - 1]) /\ p \in Pickable \union {None}
    BY DEF Clock, Edge
  <2>2. PICK x : x = pipe'[k]
    OBVIOUS
  <2>3. x \in Entries /\ entry[x].valid
    <3>1. CASE k = 1
      BY <1>4, <2>1, <2>2, <3>1 DEF Pickable, State, Phases, ReadyIs
    <3>2. CASE k # 1
      <4>1. k - 1 \in 1..Latency /\ x = pipe[k - 1] /\ x # None
        BY <1>4, <2>1, <2>2, <3>2, DepsAssumption
      <4>2. QED
        BY <4>1 DEF State, Typed, Phases, InPipeline
    <3>3. QED
      BY <3>1, <3>2
  <2>4. InFront(x, j)'
    BY <1>4, <2>2 DEF InFront, Listed, dependable, clears
  <2>5. /\ dependable(x)' /\ dependable(j)' /\ ~entry'[x].inMesh /\ ~entry'[j].inMesh
        /\ entry'[x].line = entry'[j].line /\ Listed(x, j)'
    BY <2>4 DEF InFront, Listed
  <2>6. Member(x)
    BY <2>3, <2>5, <1>n DEF Free
  <2>7. CASE i \in Free /\ j = i
    BY <2>2, <2>3, <2>5, <2>7, <1>a
  <2>8. CASE Member(j)
    <3>1. InFront(x, j) /\ Listed(x, j)
      BY <2>3, <2>5, <2>6, <2>8, <1>f DEF InFront, Listed
    <3>2. pos[x] <= pos[j]
      <4>1. CASE k = 1
        <5>1. entry[x].dep = None
          BY <1>4, <2>1, <2>2, <4>1 DEF Pickable, State, Phases, ReadyIs
        <5>2. ~Waits(x)
          BY <5>1, DepsAssumption DEF Waits
        <5>3. QED
          BY <2>3, <3>1, <5>2 DEF State, Lists, Ordered
      <4>2. CASE k # 1
        <5>1. k - 1 \in 1..Latency /\ x = pipe[k - 1] /\ x # None
          BY <1>4, <2>1, <2>2, <4>2, DepsAssumption
        <5>2. QED
          BY <3>1, <5>1 DEF State, Lists, Heads
      <4>3. QED
        BY <4>1, <4>2
    <3>3. QED
      BY <2>2, <2>3, <2>6, <2>8, <3>1, <3>2, <1>o
  <2>9. QED
    BY <2>5, <2>7, <2>8, <1>n
<1>5. QED
  BY <1>1, <1>3, <1>4 DEF Heads

\* Whoever an entry waits for is an entry of the same line that has not let go.
LEMMA DepsInListKept ==
    ASSUME PipeTiming, NEW pos \in [Entries -> Nat], State(pos),
           NEW i, NEW new, NEW p, NEW m, NEW r, NEW d, NEW done,
           Clock(i, new, p, m, r, d, done)
    PROVE  DepsInList' /\ PendsBehindTail' /\ \A x \in Entries : entry'[x].dep # x
<1>0. Typed /\ Phases
  BY DEF State
\* The victim, those it waits for, and all others in a list are there after the clock.
<1>1. ASSUME NEW y \in Entries, dependable(y)
      PROVE  entry'[y].valid /\ ~entry'[y].dont /\ entry'[y].line = entry[y].line /\ y # i
  BY <1>0, <1>1, MemberStays
<1>2. ASSUME Mover, NEW y, y = tagged
      PROVE  y \in Entries /\ entry'[y].valid /\ ~entry'[y].dont /\ entry'[y].line = way.line /\ y # i
  BY <1>2, MoverIs DEF dependable
<1>3. ASSUME NEW x \in Entries, entry'[x].valid
      PROVE  /\ entry'[x].dep \in Entries =>
                  /\ entry'[entry'[x].dep].valid /\ ~entry'[entry'[x].dep].dont
                  /\ entry'[entry'[x].dep].line = entry'[x].line
             /\ entry'[x].dep # Entry0 /\ entry'[x].dep # x
  <2>1. CASE x = i /\ i \in Free
    <3>1. entry'[x].dep = depOf(new.line) /\ entry'[x].line = new.line /\ new.line \in Lines
      BY <2>1, NewIs
    <3>2. CASE depOf(new.line) = None
      BY <3>1, <3>2, DepsAssumption
    <3>3. CASE depOf(new.line) = tagged /\ Mover /\ way.line = new.line
      <4>1. PICK y : y = tagged
        OBVIOUS
      <4>2. y \in Entries /\ entry'[y].valid /\ ~entry'[y].dont /\ entry'[y].line = way.line /\ y # i
        BY <1>2, <3>3, <4>1
      <4>3. QED
        BY <2>1, <3>1, <3>3, <4>1, <4>2, DepsAssumption
    <3>4. CASE depOf(new.line) \in Entries /\ dependable(depOf(new.line)) /\ entry[depOf(new.line)].line = new.line
      <4>1. PICK y \in Entries : y = depOf(new.line)
        BY <3>4
      <4>2. entry'[y].valid /\ ~entry'[y].dont /\ entry'[y].line = new.line /\ y # i
        BY <1>1, <3>4, <4>1
      <4>3. QED
        BY <2>1, <3>1, <4>1, <4>2, DepsAssumption
    <3>5. QED
      BY <3>1, <3>2, <3>3, <3>4, DepOfIs
  <2>2. CASE entry[x].valid /\ x \notin done
    <3>1. entry'[x].dep = depNext(x) /\ entry'[x].line = IF moves(x) THEN way.line ELSE entry[x].line
      BY <1>0, <2>2, Stays
    <3>2. CASE isVictim(x)
      <4>1. entry'[x].dep = victimDep /\ x = tagged /\ tagVictim
        BY <3>1, <3>2 DEF depNext, isVictim
      <4>2. entry'[x].line = way.line
        BY <1>0, <3>1, <3>2, <4>1, VictimIs DEF moves, selfVictim
      <4>3. CASE victimDep = None
        BY <4>1, <4>3, DepsAssumption
      <4>4. CASE victimDep # None
        <5>1. PICK y \in Entries : y = victimDep /\ dependable(y) /\ entry[y].line = way.line /\ y # tagged
          BY <4>1, <4>4, VictimDepIs
        <5>2. QED
          BY <1>1, <4>1, <4>2, <5>1, DepsAssumption
      <4>5. QED
        BY <4>3, <4>4
    <3>3. CASE ~isVictim(x) /\ x \in insertAhead
      <4>1. entry'[x].dep = tagged /\ Mover /\ x # tagged /\ entry[x].line = way.line
        BY <3>1, <3>3, SplicedIs DEF depNext, Mover
      <4>2. entry'[x].line = way.line
        BY <3>1, <3>3, <4>1 DEF moves
      <4>3. PICK y : y = tagged
        OBVIOUS
      <4>4. y \in Entries /\ entry'[y].valid /\ ~entry'[y].dont /\ entry'[y].line = way.line
        BY <1>2, <4>1, <4>3
      <4>5. QED
        BY <4>1, <4>2, <4>3, <4>4, DepsAssumption
    <3>4. CASE ~isVictim(x) /\ x \notin insertAhead
      <4>1. /\ entry'[x].dep = IF depCleared(x) THEN None ELSE entry[x].dep
            /\ entry'[x].line = entry[x].line
        BY <3>1, <3>4 DEF depNext, moves
      <4>2. CASE depCleared(x)
        BY <4>1, <4>2, DepsAssumption
      <4>3. CASE ~depCleared(x)
        <5>1. entry'[x].dep = entry[x].dep /\ entry[x].dep # Entry0 /\ entry[x].dep # x
          BY <1>0, <4>1, <4>3 DEF Typed, State, PendsBehindTail
        <5>2. ASSUME NEW y \in Entries, y = entry[x].dep
              PROVE  entry'[y].valid /\ ~entry'[y].dont /\ entry'[y].line = entry'[x].line
          <6>1. dependable(y) /\ entry[y].line = entry[x].line
            BY <2>2, <4>3, <5>2 DEF depCleared, dependable, State, Lists, DepsInList
          <6>2. QED
            BY <1>1, <4>1, <6>1
        <5>3. QED
          BY <5>1, <5>2
      <4>4. QED
        BY <4>2, <4>3
    <3>5. QED
      BY <3>2, <3>3, <3>4
  <2>3. CASE ~entry'[x].valid
    BY <1>3, <2>3
  <2>4. QED
    BY <1>0, <2>1, <2>2, <2>3, Fate DEF Free
<1>4. ASSUME NEW x \in Entries, ~entry'[x].valid PROVE entry'[x].dep = None
  <2>1. CASE entry[x].valid /\ x \notin done
    BY <1>0, <1>4, <2>1, Stays
  <2>2. CASE ~entry[x].valid /\ x = i
    BY <1>4, <2>2, NewIs DEF Free, dependable
  <2>3. CASE entry'[x] = Freed
    BY <2>3 DEF Freed
  <2>4. QED
    BY <1>0, <2>1, <2>2, <2>3, Fate
<1>5. QED
  BY <1>3, <1>4, DepsAssumption DEF DepsInList, PendsBehindTail

-----------------------------------------------------------------------------
(* The types.                                                              *)

\* Two quadwords are merged word by word.
LEMMA OverlayTyped ==
    ASSUME NEW old \in Words, NEW new \in Words, NEW mask
    PROVE  Overlay(old, new, mask) \in Words
BY DEF Overlay, Words

\* The data an entry takes over, and the registers of an entry that stays.
LEMMA StaysTyped ==
    ASSUME PipeTiming, NEW pos \in [Entries -> Nat], State(pos),
           NEW i, NEW new, NEW p, NEW m, NEW r, NEW d, NEW done,
           Clock(i, new, p, m, r, d, done),
           NEW j \in Entries, entry[j].valid, j \notin done
    PROVE  entry'[j] \in EntryType /\ entry'[j].kind \in Kinds /\ entry'[j].line \in Lines
<1>0. /\ Typed /\ Phases /\ r \in Answerable \union {None} /\ d \in Reading \union {None}
      /\ i = None \/ i \in Free
  BY DEF State, Clock, Arrives
<1>1. entry'[j] = entryNext(j, r, d, new.line)
  <2>1. j # i
    BY <1>0, DepsAssumption DEF Free
  <2>2. QED
    BY <2>1 DEF Clock, Edge
<1>2. entry[j] \in EntryType /\ entry[j].line \in Lines /\ entry[j].kind \in Kinds
  BY <1>0 DEF Typed
<1>3. /\ tagVictim => tagged \in Entries /\ entry[tagged].valid /\ way.line \in Lines
      /\ way.data \in Words /\ way.dirty \in SUBSET Quads
  <2>1. tagVictim => way.line # None
    BY <1>0, DepsAssumption, TaggedIs DEF Typed, tagVictim, tagHit
  <2>2. QED
    BY <1>0, <2>1, VictimIs DEF Typed, WayType
<1>4. nextOp(j, r, d) \in Ops
  <2>1. entry[j].op \in Ops
    BY <1>2 DEF EntryType
  <2>2. QED
    BY <1>0, <2>1, NextOpIs DEF Ops, PipeOps, MeshOps
<1>5. dataNext(j, r) \in Words
  <2>1. Junk \in Words /\ entry[j].data \in Words /\ memory[entry[j].line] \in Words
    BY <1>0, <1>2 DEF Junk, Words, EntryType, Typed
  <2>2. QED
    BY <1>3, <2>1 DEF dataNext
<1>6. depNext(j) \in Entries \union {Entry0, None}
  <2>1. tagVictim => victimDep \in Entries \union {None}
    BY VictimDepIs
  <2>2. j \in insertAhead => tagged \in Entries
    BY <1>3, SplicedIs
  <2>3. entry[j].dep \in Entries \union {Entry0, None}
    BY <1>2 DEF EntryType
  <2>4. QED
    BY <2>1, <2>2, <2>3 DEF depNext, isVictim
<1> DEFINE e == entry[j]
           op == nextOp(j, r, d)
           line == IF moves(j) THEN way.line ELSE e.line
           mask == IF isVictim(j) THEN way.dirty ELSE e.mask
           data == dataNext(j, r)
           dep == depNext(j)
           tail == tailNext(j, new.line)
           meshTail == meshTailNext(j)
           head == headNext(j)
           inMesh == e.inMesh \/ isVictim(j) \/ j \in upgrading
           setting == setsDont(j, r) \/ (e.setting /\ ~moves(j))
           dont == ~moves(j) /\ (e.dont \/ (e.setting /\ e.dep = None))
           inflight == picked(j) \/ (e.inflight /\ op = e.op)
           mayGo == e.dep = None /\ ~e.inflight /\ ~picked(j)
           pipeReady == e.op \in PipeOps /\ mayGo /\ j \notin sameAsVictim
           meshReady == e.op \in MeshOps /\ mayGo /\ j \notin insertAhead
<1>7. /\ tail \in BOOLEAN /\ meshTail \in BOOLEAN /\ head \in BOOLEAN /\ inMesh \in BOOLEAN
      /\ setting \in BOOLEAN /\ dont \in BOOLEAN /\ inflight \in BOOLEAN
      /\ pipeReady \in BOOLEAN /\ meshReady \in BOOLEAN
  BY DEF tailNext, meshTailNext, headNext
<1>8. line \in Lines /\ mask \in SUBSET Quads
  BY <1>2, <1>3 DEF moves, isVictim, EntryType
<1>9. entry'[j] = [e EXCEPT !.op = op, !.line = line, !.mask = mask, !.data = data, !.dep = dep,
                     !.tail = tail, !.meshTail = meshTail, !.head = head, !.inMesh = inMesh,
                     !.setting = setting, !.dont = dont, !.inflight = inflight,
                     !.pipeReady = pipeReady, !.meshReady = meshReady]
  BY <1>1 DEF entryNext
<1>10. op \in Ops /\ data \in Words /\ dep \in Entries \union {Entry0, None} /\ e \in EntryType /\ e.kind \in Kinds
  BY <1>2, <1>4, <1>5, <1>6
<1> HIDE DEF op, line, mask, data, dep, tail, meshTail, head, inMesh, setting, dont, inflight, mayGo,
             pipeReady, meshReady, e
<1> DEFINE f == entry'[j]
<1>11. f = [valid |-> e.valid, kind |-> e.kind, op |-> op, line |-> line, mask |-> mask,
            due |-> e.due, data |-> data, dep |-> dep, tail |-> tail, meshTail |-> meshTail,
            head |-> head, inMesh |-> inMesh, setting |-> setting, dont |-> dont,
            inflight |-> inflight, pipeReady |-> pipeReady, meshReady |-> meshReady]
  <2> HIDE DEF f
  <2>1. f = [e EXCEPT !.op = op, !.line = line, !.mask = mask, !.data = data, !.dep = dep,
                     !.tail = tail, !.meshTail = meshTail, !.head = head, !.inMesh = inMesh,
                     !.setting = setting, !.dont = dont, !.inflight = inflight,
                     !.pipeReady = pipeReady, !.meshReady = meshReady]
    BY <1>9 DEF f
  <2>2. QED
    BY <1>10, <2>1 DEF EntryType
<1>12. e.valid \in BOOLEAN /\ e.due \in Words /\ e.kind \in Kinds \union {None} /\ line \in Lines \union {None}
  BY <1>8, <1>10 DEF EntryType
<1> HIDE DEF f
<1>13. f \in EntryType
  BY <1>7, <1>8, <1>10, <1>11, <1>12 DEF EntryType
<1>14. f.kind \in Kinds /\ f.line \in Lines
  BY <1>8, <1>10, <1>11
<1>15. QED
  BY <1>13, <1>14 DEF f

\* The way after the clock.
LEMMA WayTyped ==
    ASSUME PipeTiming, Typed, Phases
    PROVE  wayAfter \in WayType /\ (wayAfter.line = None => wayAfter.dirty = {})
<1>1. way \in WayType /\ (way.line = None => way.dirty = {}) /\ Invalid \in WayType /\ Invalid.dirty = {}
  <2>1. Junk \in Words
    BY DEF Junk, Words
  <2>2. QED
    BY <2>1 DEF Typed, WayType, Invalid
<1>2. CASE tagged = None
  BY <1>1, <1>2 DEF wayAfter
<1>3. CASE tagged # None
  <2> DEFINE e == entry[tagged]
  <2>1. e \in EntryType /\ e.line \in Lines /\ e.kind \in Kinds /\ e.line # None
    BY <1>3, TaggedIs, DepsAssumption DEF Typed
  <2>2. tagHit => way.line \in Lines /\ way.line # None
    BY <2>1 DEF tagHit
  <2>3. /\ e.data \in Words /\ e.due \in Words /\ e.mask \in SUBSET Quads /\ Junk \in Words
        /\ way.data \in Words /\ way.dirty \in SUBSET Quads
    BY <1>1, <2>1 DEF EntryType, WayType, Junk, Words
  <2>4. Overlay(way.data, e.due, e.mask) \in Words /\ Overlay(Junk, e.due, e.mask) \in Words
    BY <2>3, OverlayTyped
  <2>5. wayAfter = CASE fill -> [line |-> e.line, dirty |-> IF tagHit THEN way.dirty ELSE {}, data |-> e.data]
        [] ~fill /\ e.kind = "Write" ->
             IF tagHit
             THEN [way EXCEPT !.dirty = IF way.dirty = {} THEN Quads ELSE way.dirty \union e.mask,
                              !.data = Overlay(way.data, e.due, e.mask)]
             ELSE [line |-> e.line, dirty |-> e.mask, data |-> Overlay(Junk, e.due, e.mask)]
        [] ~fill /\ e.kind = "Read" -> IF tagHit /\ partial THEN Invalid ELSE way
        [] ~fill /\ e.kind = "Evict" -> IF tagHit THEN Invalid ELSE way
        [] ~fill /\ e.kind = "Flush" -> IF tagHit /\ partial THEN Invalid
                                        ELSE IF tagHit THEN [way EXCEPT !.dirty = {}] ELSE way
    BY <1>3 DEF wayAfter
  <2> HIDE DEF e
  <2>6. CASE fill
    <3>1. wayAfter = [line |-> e.line, dirty |-> IF tagHit THEN way.dirty ELSE {}, data |-> e.data]
      BY <2>5, <2>6
    <3>2. QED
      BY <2>1, <2>3, <3>1 DEF WayType
  <2>7. CASE ~fill /\ e.kind = "Write"
    <3>1. wayAfter = IF tagHit
             THEN [way EXCEPT !.dirty = IF way.dirty = {} THEN Quads ELSE way.dirty \union e.mask,
                              !.data = Overlay(way.data, e.due, e.mask)]
             ELSE [line |-> e.line, dirty |-> e.mask, data |-> Overlay(Junk, e.due, e.mask)]
      BY <2>5, <2>7
    <3>2. QED
      BY <1>1, <2>1, <2>2, <2>3, <2>4, <3>1 DEF WayType
  <2>8. CASE ~fill /\ e.kind = "Read"
    <3>1. wayAfter = IF tagHit /\ partial THEN Invalid ELSE way
      BY <2>5, <2>8
    <3>2. QED
      BY <1>1, <3>1
  <2>9. CASE ~fill /\ e.kind = "Evict"
    <3>1. wayAfter = IF tagHit THEN Invalid ELSE way
      BY <2>5, <2>9
    <3>2. QED
      BY <1>1, <3>1
  <2>10. CASE ~fill /\ e.kind = "Flush"
    <3>1. wayAfter = IF tagHit /\ partial THEN Invalid
                     ELSE IF tagHit THEN [way EXCEPT !.dirty = {}] ELSE way
      BY <2>5, <2>10
    <3>2. QED
      BY <1>1, <3>1 DEF WayType
  <2>11. QED
    BY <2>1, <2>6, <2>7, <2>8, <2>9, <2>10 DEF Kinds
<1>4. QED
  BY <1>2, <1>3

\* The clock keeps every register in its type.
LEMMA TypedKept ==
    ASSUME PipeTiming, NEW pos \in [Entries -> Nat], State(pos), Counts,
           NEW i, NEW new, NEW p, NEW m, NEW r, NEW d, NEW done,
           Clock(i, new, p, m, r, d, done)
    PROVE  Typed'
<1>0. Typed /\ Phases /\ r \in Answerable \union {None}
  BY DEF State, Clock
<1>1. ASSUME NEW j \in Entries
      PROVE  /\ entry'[j] \in EntryType
             /\ ~entry'[j].valid => entry'[j] = Freed
             /\ entry'[j].valid => entry'[j].kind \in Kinds /\ entry'[j].line \in Lines
  <2>1. CASE entry[j].valid /\ j \notin done
    BY <1>0, <2>1, Stays, StaysTyped
  <2>2. CASE entry'[j] = Freed
    BY <2>2, FreedTyped DEF Freed
  <2>3. CASE /\ j = i /\ ~entry[j].valid /\ entry'[j] = new
             /\ \E kind \in Kinds, l \in Lines, mask \in SUBSET Quads, due \in Words :
                   new = fresh(kind, l, mask, due)
    <3>1. PICK kind \in Kinds, l \in Lines, mask \in SUBSET Quads, due \in Words :
             new = fresh(kind, l, mask, due)
      BY <2>3
    <3>2. depOf(l) \in Entries \union {Entry0, None}
      BY <1>0, VictimIs, DepOfIs DEF Mover
    <3>3. headOf(l) \in BOOLEAN
      BY DEF headOf
    <3> DEFINE dep == depOf(l)  head == headOf(l)
    <3>4. new = [Freed EXCEPT !.valid = TRUE, !.kind = kind, !.op = "Initial",
                !.line = l, !.mask = mask, !.due = due,
                !.dep = dep, !.tail = TRUE, !.head = head,
                !.setting = FALSE, !.dont = FALSE]
      BY <3>1 DEF fresh
    <3>5. dep \in Entries \union {Entry0, None} /\ head \in BOOLEAN
      BY <3>2, <3>3
    <3> HIDE DEF dep, head
    <3>6. Freed \in EntryType /\ "Initial" \in Ops
      BY FreedTyped DEF Ops
    <3>7. new \in EntryType /\ new.kind = kind /\ new.line = l /\ new.valid
      BY <3>4, <3>5, <3>6 DEF EntryType
    <3>8. QED
      BY <2>3, <3>7
  <2>4. QED
    BY <1>0, <2>1, <2>2, <2>3, Fate
<1>2. entry' \in [Entries -> EntryType]
  <2>1. entry' = [j \in Entries |-> entry'[j]]
    BY DEF Clock, Edge
  <2>2. QED
    BY <1>1, <2>1
<1>3. way' \in WayType /\ (way'.line = None => way'.dirty = {})
  BY <1>0, WayTyped DEF Clock, Edge
<1>4. memory' \in [Lines -> Words]
  <2>1. ASSUME r # None PROVE entry[r].line \in Lines /\ entry[r].data \in Words
    BY <1>0, <2>1 DEF Typed, Answerable, Phases, AtTheMesh, EntryType
  <2>2. ASSUME r # None PROVE Overlay(memory[entry[r].line], entry[r].data, entry[r].mask) \in Words
    BY <1>0, <2>1, <2>2, OverlayTyped DEF Typed
  <2>3. memory' = IF r # None /\ entry[r].op \in {"MeshWrite", "MeshVictim"}
               THEN [memory EXCEPT ![entry[r].line] = Overlay(@, entry[r].data, entry[r].mask)]
               ELSE memory
    BY DEF Clock, Edge
  <2>4. QED
    BY <1>0, <2>1, <2>2, <2>3 DEF Typed
<1>5. QED
  BY <1>1, <1>2, <1>3, <1>4, InPipelineKept, AtTheMeshKept, DepsInListKept DEF Typed, Counts

-----------------------------------------------------------------------------
(* The invariant, and what follows from it.                                *)

\* The requests can be placed so that the registers describe their lists.
DepsIInv == \E pos \in [Entries -> Nat] : State(pos)

\* An empty queue has no lists.
LEMMA InitDeps == Init => DepsIInv
<1> SUFFICES ASSUME Init PROVE DepsIInv
  OBVIOUS
<1> DEFINE pos == [i \in Entries |-> 0]
<1>1. \A i \in Entries : entry[i] = Freed /\ ~dependable(i) /\ ~entry[i].valid /\ entry[i].dep = None
  BY DEF Init, Freed, dependable
<1>2. Typed
  <2>1. entry \in [Entries -> EntryType]
    BY FreedTyped DEF Init
  <2>2. [q \in Quads |-> 0] \in Words
    BY DEF Words
  <2>3. Invalid \in WayType /\ Invalid.dirty = {}
    BY DEF Invalid, WayType, Junk, Words
  <2>4. QED
    BY <1>1, <2>1, <2>2, <2>3, DepsAssumption DEF Init, Typed
<1>3. Phases
  <2>1. pipe = [k \in 1..Latency |-> None] /\ granted = None /\ atMesh = {} /\ tagged = None
    BY DepsAssumption DEF Init, tagged
  <2>2. \A i \in Entries : ~entry[i].pipeReady /\ ~entry[i].meshReady
    BY <1>1 DEF Freed
  <2>3. QED
    BY <1>1, <2>1, <2>2 DEF Phases, InPipeline, AtTheMesh, ReadyIs, LetGo
<1>4. PendsBehindTail
  BY <1>1, DepsAssumption DEF PendsBehindTail
<1>5. Lists(pos)
  <2>1. \A k \in 1..Latency : pipe[k] = None
    BY DEF Init
  <2>2. QED
    BY <1>1, <2>1 DEF Lists, DepsInList, Ordered, Tails, MeshParts, Heads, Listed, InFront, InMesh
<1>6. pos \in [Entries -> Nat]
  OBVIOUS
<1>7. QED
  BY <1>2, <1>3, <1>4, <1>5, <1>6 DEF DepsIInv, State

\* Every clock keeps the lists in order, ...
LEMMA StateKept ==
    ASSUME PipeTiming, NEW pos \in [Entries -> Nat], State(pos), Counts,
           NEW i, NEW new, NEW p, NEW m, NEW r, NEW d, NEW done,
           Clock(i, new, p, m, r, d, done),
           NEW posn \in [Entries -> Nat], Places(pos, posn, i, new)
    PROVE  State(posn)'
<1>1. Typed'
  BY TypedKept
<1>2. Phases'
  BY InPipelineKept, AtTheMeshKept, ReadyKept, LetGoKept DEF Phases
<1>3. DepsInList' /\ PendsBehindTail'
  BY DepsInListKept
<1>4. Ordered(posn)' /\ Tails(posn)' /\ MeshParts(posn)' /\ Heads(posn)'
  BY OrderedKept, TailsKept, MeshPartsKept, HeadsKept
<1>5. QED
  BY <1>1, <1>2, <1>3, <1>4 DEF State, Lists

\* ... and nothing else touches them.
LEMMA StateStays ==
    ASSUME NEW pos \in [Entries -> Nat], State(pos), UNCHANGED vars
    PROVE  State(pos)'
<1>1. Typed' /\ Phases' /\ PendsBehindTail'
  BY DEF vars, State, Typed, Phases, InPipeline, AtTheMesh, ReadyIs, LetGo, PendsBehindTail,
         tagged, writesData, clears
<1>2. DepsInList' /\ Ordered(pos)'
  BY DEF vars, State, Lists, DepsInList, Ordered, Listed, Waits, dependable, clears
<1>3. Tails(pos)' /\ MeshParts(pos)'
  BY DEF vars, State, Lists, Tails, MeshParts, InMesh, Listed, dependable, clears
<1>4. Heads(pos)'
  BY DEF vars, State, Lists, Heads, InFront, Listed, WaitsNoMore, dependable, clears
<1>5. QED
  BY <1>1, <1>2, <1>3, <1>4 DEF State, Lists

\* The invariant is kept.
LEMMA NextDeps == PipeTiming /\ DepsIInv /\ [Next]_vars => DepsIInv'
<1> SUFFICES ASSUME PipeTiming, DepsIInv, [Next]_vars PROVE DepsIInv'
  OBVIOUS
<1>1. PICK pos \in [Entries -> Nat] : State(pos)
  BY DEF DepsIInv
<1>2. CASE Next
  <2>1. Counts /\ \E i, new, p, m, r, d, done : Clock(i, new, p, m, r, d, done)
    BY <1>1, <1>2, Clocks DEF State
  <2>2. PICK i, new, p, m, r, d, done : Clock(i, new, p, m, r, d, done)
    BY <2>1
  <2>3. PICK posn \in [Entries -> Nat] : Places(pos, posn, i, new)
    BY <1>1, <2>2, PlacesExist
  <2>4. State(posn)'
    BY <1>1, <2>1, <2>2, <2>3, StateKept
  <2>5. QED
    BY <2>4 DEF DepsIInv
<1>3. CASE UNCHANGED vars
  <2>1. State(pos)'
    BY <1>1, <1>3, StateStays
  <2>2. QED
    BY <2>1 DEF DepsIInv
<1>4. QED
  BY <1>2, <1>3

\* The mesh never has two requests of one line, for every number of entries and
\* lines and every timing of the pipeline that the lists can rest on.
THEOREM OneAlwaysAtMesh ==
    ASSUME PipeTiming
    PROVE  Spec => []OneAtMesh
<1>1. DepsIInv => OneAtMesh
  <2> SUFFICES ASSUME NEW pos \in [Entries -> Nat], State(pos), NEW i \in atMesh, NEW j \in atMesh,
                      entry[i].line = entry[j].line
               PROVE  i = j
    BY DEF DepsIInv, OneAtMesh
  <2>1. ASSUME NEW k \in atMesh PROVE k \in Entries /\ dependable(k) /\ ~Waits(k)
    BY DepsAssumption DEF State, Typed, Phases, AtTheMesh, LetGo, dependable, clears, Waits
  <2>2. Listed(i, j) /\ Listed(j, i)
    BY <2>1 DEF Listed
  <2>3. i \in Entries /\ j \in Entries /\ pos[i] <= pos[j] /\ pos[j] <= pos[i]
    BY <2>1, <2>2 DEF State, Lists, Ordered
  <2>4. QED
    BY <2>2, <2>3 DEF State, Lists, Ordered
<1>2. DepsIInv /\ [Next]_vars => DepsIInv'
  BY NextDeps
<1>3. QED
  BY <1>1, <1>2, InitDeps, PTL DEF Spec

\* Nobody ever waits for entry 0, which is what the queue would make of a line whose
\* list has lost its tail.
THEOREM AlwaysBehindTail ==
    ASSUME PipeTiming
    PROVE  Spec => []PendsBehindTail
<1>1. DepsIInv => PendsBehindTail
  BY DEF DepsIInv, State
<1>2. DepsIInv /\ [Next]_vars => DepsIInv'
  BY NextDeps
<1>3. QED
  BY <1>1, <1>2, InitDeps, PTL DEF Spec

\* No requests ever wait for one another in a circle, or for an entry that is free.
THEOREM WaitsAlwaysEnd ==
    ASSUME PipeTiming
    PROVE  Spec => []WaitsEnd
<1>1. ASSUME NEW pos \in [Entries -> Nat], State(pos), NEW i \in Entries, entry[i].dep \in Entries
      PROVE  /\ entry[entry[i].dep].valid /\ dependable(i)
             /\ dependable(entry[i].dep) => pos[entry[i].dep] < pos[i]
  <2>1. entry[i].valid /\ Typed /\ Phases
    BY <1>1, DepsAssumption DEF State, Typed, Freed
  <2>2. dependable(i)
    BY <1>1, <2>1, DepsAssumption DEF Phases, LetGo, dependable, clears
  <2>3. entry[entry[i].dep].valid /\ entry[entry[i].dep].line = entry[i].line
    BY <1>1, <2>1 DEF State, Lists, DepsInList
  <2>4. dependable(entry[i].dep) => pos[entry[i].dep] < pos[i]
    BY <1>1, <2>2, <2>3 DEF State, Lists, Ordered, Listed
  <2>5. QED
    BY <2>2, <2>3, <2>4
<1>2. ASSUME NEW pos \in [Entries -> Nat], State(pos),
             NEW some \in SUBSET {i \in Entries : entry[i].dep \in Entries}, some # {}
      PROVE  \E i \in some : entry[i].dep \notin some
  <2> DEFINE less == OpToRel(<, Nat)
             places == {pos[i] : i \in some}
  <2>1. places \subseteq Nat /\ places # {}
    BY <1>2
  <2>2. IsWellFoundedOn(less, Nat)
    BY NatLessThanWellFounded
  <2>3. \A x, y \in Nat : x < y <=> <<x, y>> \in less
    BY DEF OpToRel
  <2> HIDE DEF less, places
  <2>4. PICK x \in places : \A y \in places : <<y, x>> \notin less
    BY <2>1, <2>2, WFMin
  <2>5. PICK i \in some : pos[i] = x
    BY DEF places
  <2>6. i \in Entries /\ entry[i].dep \in Entries
    BY <1>2
  <2>7. ASSUME entry[i].dep \in some PROVE FALSE
    <3>1. dependable(entry[i].dep)
      BY <1>1, <1>2, <2>7
    <3>2. pos[entry[i].dep] < x /\ pos[entry[i].dep] \in places
      BY <1>1, <1>2, <2>5, <2>6, <2>7, <3>1 DEF places
    <3>3. QED
      BY <2>1, <2>3, <2>4, <3>2
  <2>8. QED
    BY <2>7
<1>3. DepsIInv => WaitsEnd
  BY <1>1, <1>2 DEF DepsIInv, WaitsEnd
<1>4. DepsIInv /\ [Next]_vars => DepsIInv'
  BY NextDeps
<1>5. QED
  BY <1>3, <1>4, InitDeps, PTL DEF Spec

\* Every register keeps its type.
THEOREM DepsTypesHold ==
    ASSUME PipeTiming
    PROVE  Spec => []TypeOK
<1>1. DepsIInv => TypeOK
  <2>1. SUFFICES ASSUME Typed PROVE TypeOK
    BY DEF DepsIInv, State
  <2>2. ASSUME NEW i \in Entries
        PROVE  LET e == entry[i]
               IN  /\ {e.valid, e.tail, e.meshTail, e.head, e.inMesh, e.setting, e.dont, e.inflight,
                       e.pipeReady, e.meshReady} \subseteq BOOLEAN
                   /\ e.valid => e.kind \in Kinds /\ e.line \in Lines
                   /\ e.op \in PipeOps \union MeshOps \union {"Initial", "Hit", "Done"}
                   /\ e.mask \subseteq Quads /\ e.due \in [Quads -> Int] /\ e.data \in [Quads -> Int]
                   /\ e.dep \in (Entries \ {i}) \union {Entry0, None}
    <3>1. entry[i] \in EntryType /\ entry[i].dep # i
      BY <2>1 DEF Typed
    <3>2. entry[i].valid => entry[i].kind \in Kinds /\ entry[i].line \in Lines
      BY <2>1 DEF Typed
    <3>3. QED
      BY <3>1, <3>2 DEF EntryType, Ops, Words
  <2>3. QED
    BY <2>1, <2>2 DEF TypeOK, Typed, WayType, Words
<1>2. DepsIInv /\ [Next]_vars => DepsIInv'
  BY NextDeps
<1>3. QED
  BY <1>1, <1>2, InitDeps, PTL DEF Spec

-----------------------------------------------------------------------------
(* The data.  A line holds what the writes to it left that the tags have   *)
(* seen: c is what each line holds, no register of the design.             *)

pending(i)  == entry[i].valid /\ entry[i].op \in {"Initial", "First"}
cleanUp(i)  == entry[i].kind \in {"Evict", "Flush"}
inPipe(i)   == \E k \in 1..Latency : pipe[k] = i
\* On its way to memory.
writeBack(v, l) == entry[v].valid /\ entry[v].op \in {"MeshWrite", "MeshVictim"} /\ entry[v].line = l
\* Has seen the tags, and its line must not change before it is done with it.
settled(i) == /\ entry[i].valid
              /\ \/ entry[i].op = "Fill"
                 \/ dependable(i) /\ entry[i].op \in {"MeshWrite", "MeshRead"}
                 \/ dependable(i) /\ entry[i].op = "Done" /\ cleanUp(i)

\* How far each kind of request is when it lets go.
Going ==
  \A i \in Entries : entry[i].valid =>
    /\ entry[i].op \in PipeOps /\ (entry[i].setting \/ entry[i].dont) =>
          \E k \in 2..Latency : pipe[k] = i
    /\ entry[i].op \in {"MeshWrite", "MeshVictim"} => entry[i].inMesh
    /\ entry[i].op \in {"MeshVictim", "Hit"} => ~cleanUp(i)
    /\ cleanUp(i) /\ (entry[i].setting \/ entry[i].dont) => entry[i].dep = None

\* Who has seen the tags and is still in its list is the first in front of the mesh.
Fronts(pos) ==
  \A i, j \in Entries : InFront(i, j) /\ entry[i].op \notin {"Initial", "First"} => pos[i] <= pos[j]

\* Of two for a line in the pipeline, one that has let go is ahead.
LetGoAhead ==
  \A k, n \in 1..Latency, i, j \in Entries :
    /\ pipe[n] = i /\ pipe[k] = j /\ entry[i].line = entry[j].line
    /\ entry[i].op = "First" /\ entry[j].op = "First" /\ dependable(i) /\ ~dependable(j)
    => n < k

\* Of a line one at most is settled, ...
OneSettled == \A i, j \in Entries : settled(i) /\ settled(j) /\ entry[i].line = entry[j].line => i = j
\* ... nobody comes to the tags for its line before it does ...
NoneComes ==
  \A i, j \in Entries, k \in 1..Latency :
    settled(i) /\ pipe[k] = j /\ j # i /\ entry[j].line = entry[i].line =>
       \E n \in (k + 1)..Latency : pipe[n] = i
\* ... the way has nothing of it that memory has not ...
CleanWay == \A i \in Entries : settled(i) /\ way.line = entry[i].line => way.dirty = {}
\* ... and what is on its way to memory gets there first.
BackFirst(pos) ==
  \A i, v \in Entries : settled(i) /\ writeBack(v, entry[i].line) /\ v # i =>
     dependable(i) /\ pos[v] < pos[i]
Settles(pos) == OneSettled /\ NoneComes /\ CleanWay /\ BackFirst(pos)

Order(pos) == Going /\ Fronts(pos) /\ LetGoAhead /\ Settles(pos)

-----------------------------------------------------------------------------
\* Who is picked waits for nobody, and is the first of its line.
LEMMA PickedIs ==
    ASSUME PipeTiming, NEW pos \in [Entries -> Nat], State(pos), Going, NEW j \in Pickable
    PROVE  /\ j \in Entries /\ j # None /\ entry[j].valid /\ entry[j].op \in PipeOps
           /\ entry[j].dep = None /\ ~entry[j].inflight /\ dependable(j)
           /\ pipe[1] = None /\ ~inPipe(j)
           /\ \A y \in Entries : Listed(j, y) => pos[j] <= pos[y]
<1>1. /\ \A k \in 1..Latency : ~occupied(k)
      /\ j \in Entries /\ entry[j].pipeReady /\ j # None
  BY DepsAssumption DEF Pickable
<1>2. entry[j].valid /\ entry[j].op \in PipeOps /\ entry[j].dep = None /\ ~entry[j].inflight
  BY <1>1 DEF State, Phases, ReadyIs
<1>3. pipe[1] = None
  BY <1>1, DepsAssumption DEF PipeTiming, Timely, occupied
<1>4. ~inPipe(j)
  <2>1. SUFFICES ASSUME NEW k \in 1..Latency, pipe[k] = j PROVE FALSE
    BY DEF inPipe
  <2>2. k > 1
    BY <1>1, <1>3, <2>1, DepsAssumption
  <2>3. QED
    BY <1>1, <1>2, <2>1, <2>2 DEF State, Phases, InPipeline
<1>5. dependable(j)
  <2>1. ~entry[j].setting /\ ~entry[j].dont
    BY <1>1, <1>2, <1>4, DepsAssumption DEF Going, inPipe
  <2>2. QED
    BY <1>2, <2>1 DEF dependable, clears
<1>6. \A y \in Entries : Listed(j, y) => pos[j] <= pos[y]
  <2>1. ~Waits(j)
    BY <1>2, DepsAssumption DEF Waits
  <2>2. QED
    BY <1>1, <2>1 DEF State, Lists, Ordered
<1>7. QED
  BY <1>1, <1>2, <1>3, <1>4, <1>5, <1>6

\* Nobody that is still in its list is settled in front of one that is picked.
LEMMA PickedAlone ==
    ASSUME PipeTiming, NEW pos \in [Entries -> Nat], State(pos), Order(pos), NEW j \in Pickable,
           NEW x \in Entries, settled(x), entry[x].line = entry[j].line
    PROVE  x = j \/ ~dependable(x)
<1> SUFFICES ASSUME dependable(x) PROVE x = j
  OBVIOUS
<1>1. /\ j \in Entries /\ dependable(j) /\ entry[j].valid /\ entry[j].op \in PipeOps
      /\ \A y \in Entries : Listed(j, y) => pos[j] <= pos[y]
  BY PickedIs DEF Order
<1>2. Listed(j, x) /\ Listed(x, j) /\ pos[j] <= pos[x]
  BY <1>1 DEF Listed
<1>3. CASE entry[j].op = "Fill"
  BY <1>1, <1>3 DEF Order, Settles, OneSettled, settled
<1>4. CASE entry[j].op = "First"
  <2>1. ~entry[j].inMesh
    BY <1>1, <1>4 DEF State, Phases, LetGo
  <2>2. CASE entry[x].inMesh
    <3>1. pos[x] < pos[j]
      BY <1>1, <1>2, <2>1, <2>2 DEF State, Lists, MeshParts
    <3>2. QED
      BY <1>1, <1>2, <3>1
  <2>3. CASE ~entry[x].inMesh
    <3>1. InFront(x, j) /\ entry[x].op \notin {"Initial", "First"}
      BY <1>2, <2>1, <2>3 DEF InFront, settled
    <3>2. pos[x] <= pos[j]
      BY <1>1, <3>1 DEF Order, Fronts
    <3>3. pos[x] = pos[j]
      BY <1>1, <1>2, <3>2
    <3>4. QED
      BY <1>1, <1>2, <3>3 DEF State, Lists, Ordered
  <2>4. QED
    BY <2>2, <2>3
<1>5. QED
  BY <1>1, <1>3, <1>4 DEF PipeOps

\* Whose tag response is here comes first of its line.
LEMMA TaggedFirst ==
    ASSUME PipeTiming, NEW pos \in [Entries -> Nat], State(pos), Order(pos), tagged # None,
           NEW t, t = tagged
    PROVE  /\ t \in Entries /\ entry[t].valid /\ entry[t].op \in PipeOps /\ pipe[Latency] = t
           /\ \A x \in Entries : settled(x) /\ entry[x].line = entry[t].line => x = t
           /\ ~fill /\ entry[t].kind # "Write" => dependable(t) /\ ~entry[t].inMesh
           /\ ~fill /\ entry[t].kind # "Write" =>
                 \A y \in Entries : inPipe(y) /\ y # t => entry[y].line # entry[t].line
<1>1. /\ t \in Entries /\ entry[t].valid /\ entry[t].op \in PipeOps /\ pipe[Latency] = t
      /\ Latency \in 1..Latency /\ t # None
  BY TaggedIs, DepsAssumption DEF tagged, State
<1>2. \A x \in Entries : settled(x) /\ entry[x].line = entry[t].line => x = t
  BY <1>1, DepsAssumption DEF Order, Settles, NoneComes
<1>3. ASSUME ~fill, entry[t].kind # "Write"
      PROVE  /\ dependable(t) /\ ~entry[t].inMesh
             /\ \A y \in Entries : inPipe(y) /\ y # t => entry[y].line # entry[t].line
  <2>1. entry[t].op = "First"
    BY <1>1, <1>3 DEF fill, PipeOps
  <2>2. ~entry[t].setting /\ ~entry[t].dont /\ ~entry[t].inMesh
    BY <1>1, <1>3, <2>1 DEF State, Phases, LetGo
  <2>3. dependable(t)
    BY <1>1, <2>2 DEF dependable, clears
  <2>4. ASSUME NEW y \in Entries, NEW k \in 1..Latency, pipe[k] = y, y # t, entry[y].line = entry[t].line
        PROVE  FALSE
    <3>1. entry[y].valid /\ entry[y].op \in PipeOps /\ y # None
      BY <2>4, DepsAssumption DEF State, Phases, InPipeline
    <3>2. entry[y].op = "First"
      BY <1>2, <2>4, <3>1 DEF settled, PipeOps
    <3>3. ~entry[y].inMesh
      BY <3>1, <3>2 DEF State, Phases, LetGo
    <3>4. dependable(y)
      <4>1. ~(Latency < k)
        BY DepsAssumption
      <4>2. QED
        BY <1>1, <2>1, <2>3, <2>4, <3>2, <4>1 DEF Order, LetGoAhead
    <3>5. InFront(t, y) /\ InFront(y, t)
      BY <2>2, <2>3, <2>4, <3>3, <3>4 DEF InFront, Listed
    <3>6. pos[t] <= pos[y] /\ pos[y] <= pos[t]
      BY <1>1, <2>4, <3>1, <3>5 DEF State, Lists, Heads
    <3>7. pos[t] = pos[y]
      BY <1>1, <3>6
    <3>8. QED
      BY <1>1, <2>4, <3>5, <3>7 DEF State, Lists, Ordered, InFront
  <2>5. QED
    BY <2>2, <2>3, <2>4 DEF inPipe
<1>4. QED
  BY <1>1, <1>2, <1>3

\* What an entry that stays does next, and what it was before.
LEMMA OpWas ==
    ASSUME PipeTiming, NEW pos \in [Entries -> Nat], State(pos),
           NEW i, NEW new, NEW p, NEW m, NEW r, NEW d, NEW done,
           Clock(i, new, p, m, r, d, done), NEW x \in Entries, entry[x].valid, x \notin done
    PROVE  /\ entry'[x].op # "Initial"
           /\ x = tagged => entry[x].op \in PipeOps /\ entry'[x].op \notin PipeOps
           /\ x # tagged /\ entry[x].op \in PipeOps => entry'[x].op = entry[x].op
           /\ entry[x].op = "Initial" => entry'[x].op = "First"
           /\ entry[x].op \in MeshOps /\ x # r => entry'[x].op = entry[x].op
           /\ entry[x].op \in MeshOps /\ x = r =>
                 entry'[x].op = IF entry[x].op = "MeshRead" THEN "Fill"
                                ELSE IF entry[x].op = "MeshWrite" /\ entry[x].kind = "Read" THEN "MeshRead"
                                ELSE "Done"
           /\ entry[x].op = "Hit" => entry'[x].op \in {"Hit", "Done"}
           /\ entry[x].op = "Done" => entry'[x].op = "Done"
           /\ x = r => entry[x].op \in MeshOps /\ entry[x].inMesh /\ entry[x].dep = None
<1>1. Typed /\ Phases /\ r \in Answerable \union {None} /\ d \in Reading \union {None}
  BY DEF State, Clock
<1>2. entry'[x].op = nextOp(x, r, d)
  BY <1>1, Stays
<1>3. /\ entry[x].op = "Initial" => nextOp(x, r, d) = "First"
      /\ x = tagged => /\ entry[x].op \in PipeOps /\ x # d /\ x # r
                       /\ nextOp(x, r, d) =
                             IF tagVictim
                             THEN IF fill \/ entry[x].kind = "Write" THEN "MeshVictim" ELSE "MeshWrite"
                             ELSE IF fill \/ entry[x].kind # "Read" THEN "Done"
                                  ELSE IF tagHit THEN "Hit" ELSE "MeshRead"
      /\ x = d => entry[x].op = "Hit" /\ nextOp(x, r, d) = "Done"
      /\ x = r => /\ entry[x].op \in MeshOps /\ entry[x].inMesh /\ entry[x].dep = None
                  /\ nextOp(x, r, d) =
                        IF entry[x].op = "MeshRead" THEN "Fill"
                        ELSE IF entry[x].op = "MeshWrite" /\ entry[x].kind = "Read" THEN "MeshRead"
                        ELSE "Done"
      /\ entry[x].op # "Initial" /\ x # tagged /\ x # d /\ x # r => nextOp(x, r, d) = entry[x].op
  BY <1>1, NextOpIs
<1>4. QED
  BY <1>2, <1>3 DEF PipeOps, MeshOps

\* The requests in the pipeline move on by one place.
LEMMA PipeIs ==
    ASSUME PipeTiming, NEW pos \in [Entries -> Nat], State(pos),
           NEW i, NEW new, NEW p, NEW m, NEW r, NEW d, NEW done,
           Clock(i, new, p, m, r, d, done)
    PROVE  /\ Latency \in Nat /\ Latency > 2
           /\ pipe'[1] = p
           /\ \A k \in 1..Latency : k < Latency => k + 1 \in 2..Latency /\ pipe'[k + 1] = pipe[k]
           /\ \A k \in 2..Latency : k - 1 \in 1..Latency /\ k - 1 < Latency /\ pipe'[k] = pipe[k - 1]
           /\ pipe[Latency] = tagged
           /\ p = None \/ p \in Pickable
BY DepsAssumption DEF PipeTiming, Timely, Clock, Edge, tagged

\* How far requests are when they let go stays that way.
LEMMA GoingKept ==
    ASSUME PipeTiming, NEW pos \in [Entries -> Nat], State(pos), Order(pos),
           NEW i, NEW new, NEW p, NEW m, NEW r, NEW d, NEW done,
           Clock(i, new, p, m, r, d, done)
    PROVE  Going'
<1>0. Typed /\ Phases /\ r \in Answerable \union {None} /\ d \in Reading \union {None} /\ Going
  BY DEF State, Clock, Order
<1> SUFFICES ASSUME NEW x \in Entries, entry'[x].valid
             PROVE  /\ entry'[x].op \in PipeOps /\ (entry'[x].setting \/ entry'[x].dont) =>
                          \E k \in 2..Latency : pipe'[k] = x
                    /\ entry'[x].op \in {"MeshWrite", "MeshVictim"} => entry'[x].inMesh
                    /\ entry'[x].op \in {"MeshVictim", "Hit"} => entry'[x].kind \notin {"Evict", "Flush"}
                    /\ entry'[x].kind \in {"Evict", "Flush"} /\ (entry'[x].setting \/ entry'[x].dont) =>
                          entry'[x].dep = None
  BY DEF Going, cleanUp
<1>1. CASE entry'[x] = new /\ \E kind \in Kinds, l \in Lines, mask \in SUBSET Quads, due \in Words :
                                new = fresh(kind, l, mask, due)
  <2>1. entry'[x].op = "Initial" /\ ~entry'[x].setting /\ ~entry'[x].dont
    BY <1>1, FreshIs
  <2>2. QED
    BY <2>1 DEF PipeOps
<1>2. CASE entry[x].valid /\ x \notin done
  <2>1. /\ entry'[x].kind = entry[x].kind /\ entry'[x].dep = depNext(x) /\ entry'[x].op = nextOp(x, r, d)
        /\ entry'[x].inMesh <=> (entry[x].inMesh \/ isVictim(x) \/ x \in upgrading)
        /\ entry'[x].setting <=> (setsDont(x, r) \/ (entry[x].setting /\ ~moves(x)))
        /\ entry'[x].dont <=> (~moves(x) /\ (entry[x].dont \/ (entry[x].setting /\ entry[x].dep = None)))
    BY <1>0, <1>2, Stays
  <2>2. /\ entry[x].op \in PipeOps /\ (entry[x].setting \/ entry[x].dont) =>
             \E k \in 2..Latency : pipe[k] = x
        /\ entry[x].op \in {"MeshWrite", "MeshVictim"} => entry[x].inMesh
        /\ entry[x].op \in {"MeshVictim", "Hit"} => ~cleanUp(x)
        /\ cleanUp(x) /\ (entry[x].setting \/ entry[x].dont) => entry[x].dep = None
    BY <1>0, <1>2 DEF Going
  <2>3. /\ entry[x].op \in MeshOps \union {"Initial"} => ~entry[x].setting /\ ~entry[x].dont
        /\ entry[x].op \in {"MeshRead", "Fill"} => entry[x].kind = "Read"
        /\ entry[x].op \in PipeOps \union MeshOps \union {"Initial", "Hit", "Done"}
    BY <1>0, <1>2 DEF Phases, LetGo, Typed, EntryType, Ops
  <2>4. ASSUME entry'[x].op \in PipeOps, entry'[x].setting \/ entry'[x].dont
        PROVE  \E k \in 2..Latency : pipe'[k] = x
    <3>1. setsDont(x, r) \/ entry[x].setting \/ entry[x].dont
      BY <2>1, <2>4
    <3>2. x # tagged /\ entry[x].op \notin {"Hit", "Done"}
      BY <1>2, <2>4, OpWas DEF PipeOps
    <3>3. CASE entry[x].op \in PipeOps /\ (entry[x].setting \/ entry[x].dont)
      <4>1. PICK k \in 2..Latency : pipe[k] = x
        BY <2>2, <3>3
      <4>2. k # Latency
        BY <3>2, <4>1 DEF tagged
      <4>3. k \in 1..Latency /\ k < Latency
        BY <4>2, DepsAssumption
      <4>4. QED
        BY <4>1, <4>3, PipeIs
    <3>4. CASE setsDont(x, r)
      <4>1. x = r => entry[x].op \in MeshOps
        BY <1>2, OpWas
      <4>2. CASE pipe[1] = x
        BY <4>2, PipeIs
      <4>3. CASE pipe[1] # x
        <5>1. x = r /\ (cleanUp(x) \/ entry[x].op = "MeshVictim")
          BY <3>2, <3>4, <4>3 DEF setsDont, cleanUp
        <5>2. entry'[x].op = "Done"
          BY <1>2, <2>3, <4>1, <5>1, OpWas DEF cleanUp, MeshOps
        <5>3. QED
          BY <2>4, <5>2 DEF PipeOps
      <4>4. QED
        BY <4>2, <4>3
    <3>5. QED
      BY <2>3, <3>1, <3>2, <3>3, <3>4, <1>2, <2>4, OpWas
  <2>5. ASSUME entry'[x].op \in {"MeshWrite", "MeshVictim"} PROVE entry'[x].inMesh
    <3>1. CASE x = tagged
      BY <1>0, <1>2, <2>1, <2>5, <3>1, NextOpIs DEF isVictim
    <3>2. CASE x # tagged
      BY <1>2, <2>1, <2>2, <2>3, <2>5, <3>2, OpWas DEF PipeOps, MeshOps
    <3>3. QED
      BY <3>1, <3>2
  <2>6. ASSUME entry'[x].op \in {"MeshVictim", "Hit"} PROVE entry[x].kind \notin {"Evict", "Flush"}
    <3>1. CASE x = tagged
      BY <1>0, <1>2, <2>1, <2>3, <2>6, <3>1, NextOpIs DEF fill
    <3>2. CASE x # tagged
      BY <1>2, <2>2, <2>3, <2>6, <3>2, OpWas DEF PipeOps, MeshOps, cleanUp
    <3>3. QED
      BY <3>1, <3>2
  <2>7. ASSUME entry[x].kind \in {"Evict", "Flush"}, entry'[x].setting \/ entry'[x].dont
        PROVE  entry'[x].dep = None
    <3>1. setsDont(x, r) \/ entry[x].setting \/ entry[x].dont
      BY <2>1, <2>7
    <3>2. entry[x].dep = None
      BY <2>2, <2>7, <3>1 DEF setsDont, cleanUp
    <3>3. x # tagged \/ ~tagVictim
      <4>1. SUFFICES ASSUME x = tagged, tagVictim PROVE FALSE
        OBVIOUS
      <4>2. ~setsDont(x, r)
        BY <1>0, <4>1, VictimSets
      <4>3. CASE selfVictim
        BY <1>0, <3>1, <4>1, <4>2, <4>3, VictimIs
      <4>4. CASE ~selfVictim
        <5>1. writesData(x)
          BY <1>0, <4>1, <4>4, VictimIs
        <5>2. QED
          BY <2>3, <2>7, <5>1 DEF writesData
      <4>5. QED
        BY <4>3, <4>4
    <3>4. x \notin insertAhead
      <4>1. SUFFICES ASSUME x \in insertAhead PROVE FALSE
        OBVIOUS
      <4>2. /\ dependable(x) /\ ~entry[x].inMesh /\ entry[x].line = way.line /\ x # tagged
            /\ tagVictim /\ ~selfVictim /\ pipe[1] = None
        BY <4>1, SplicedIs
      <4>3. ~entry[x].setting /\ ~entry[x].dont
        BY <3>2, <4>2 DEF dependable, clears
      <4>4. entry[x].op = "Done"
        <5>1. x # r
          BY <1>2, <4>2, OpWas
        <5>2. x # None
          BY DepsAssumption
        <5>3. QED
          BY <2>7, <3>1, <4>2, <4>3, <5>1, <5>2 DEF setsDont
      <4>5. settled(x)
        BY <1>2, <2>7, <4>2, <4>4 DEF settled, cleanUp
      <4>6. way.dirty = {}
        BY <4>2, <4>5 DEF Order, Settles, CleanWay
      <4>7. QED
        BY <4>2, <4>6 DEF selfVictim, tagVictim
    <3>5. QED
      BY <2>1, <3>2, <3>3, <3>4, StaysFree
  <2>8. QED
    BY <2>1, <2>4, <2>5, <2>6, <2>7
<1>3. QED
  BY <1>0, <1>1, <1>2, Fate

\* Who is settled was so a clock ago, or its tag response was here.
LEMMA SettledWas ==
    ASSUME PipeTiming, NEW pos \in [Entries -> Nat], State(pos), Order(pos),
           NEW i, NEW new, NEW p, NEW m, NEW r, NEW d, NEW done,
           Clock(i, new, p, m, r, d, done), NEW x \in Entries, settled(x)'
    PROVE  /\ entry[x].valid /\ x \notin done /\ x # i /\ ~moves(x)
           /\ entry'[x].line = entry[x].line /\ entry'[x].kind = entry[x].kind
           /\ entry'[x].due = entry[x].due
           /\ \/ settled(x) /\ x # tagged
              \/ /\ x = tagged /\ tagged # None /\ ~fill /\ entry[x].kind # "Write" /\ dependable(x)
                 /\ entry'[x].op # "Hit"
<1>0. Typed /\ Phases /\ r \in Answerable \union {None} /\ d \in Reading \union {None}
  BY DEF State, Clock
<1>1. /\ entry'[x].valid
      /\ \/ entry'[x].op = "Fill"
         \/ dependable(x)' /\ entry'[x].op \in {"MeshWrite", "MeshRead"}
         \/ dependable(x)' /\ entry'[x].op = "Done" /\ entry'[x].kind \in {"Evict", "Flush"}
  BY DEF settled, cleanUp
<1>2. entry[x].valid /\ x \notin done
  <2>1. ~(\E kind \in Kinds, l \in Lines, mask \in SUBSET Quads, due \in Words :
             entry'[x] = fresh(kind, l, mask, due))
    BY <1>1, FreshIs
  <2>2. QED
    BY <1>0, <1>1, <2>1, Fate
<1>3. /\ entry'[x].kind = entry[x].kind /\ entry'[x].due = entry[x].due
      /\ entry'[x].line = IF moves(x) THEN way.line ELSE entry[x].line
      /\ entry'[x].op = nextOp(x, r, d)
  BY <1>0, <1>2, Stays
<1>4. x # i
  BY <1>2, DepsAssumption DEF Clock, Arrives, Free
<1>5. /\ entry[x].op \in MeshOps => ~entry[x].setting /\ ~entry[x].dont
      /\ entry[x].op \in {"MeshRead", "Fill"} => entry[x].kind = "Read"
      /\ entry[x].op \in {"MeshVictim", "Hit"} => ~cleanUp(x)
      /\ entry[x].op \in PipeOps \union MeshOps \union {"Initial", "Hit", "Done"}
  BY <1>0, <1>2 DEF Phases, LetGo, Typed, EntryType, Ops, Order, Going
<1>6. entry[x].op \in MeshOps => dependable(x)
  BY <1>2, <1>5 DEF dependable, clears
<1>7. moves(x) => entry'[x].op = "MeshVictim"
  <2>1. SUFFICES ASSUME moves(x) PROVE entry'[x].op = "MeshVictim"
    OBVIOUS
  <2>2. x = tagged /\ tagVictim /\ (fill \/ entry[x].kind = "Write")
    BY <2>1 DEF moves, isVictim, tagVictim
  <2>3. QED
    BY <1>0, <1>2, <1>3, <2>2, NextOpIs
<1>8. ~moves(x)
  BY <1>1, <1>7
<1>9. CASE entry'[x].op = "Fill"
  <2>1. x # tagged /\ entry[x].op \in {"Fill", "MeshRead"}
    BY <1>2, <1>5, <1>9, OpWas DEF PipeOps, MeshOps
  <2>2. settled(x)
    BY <1>2, <1>6, <2>1 DEF settled, MeshOps
  <2>3. QED
    BY <1>2, <1>3, <1>4, <1>8, <2>1, <2>2
<1>10. CASE entry'[x].op # "Fill"
  <2>1. dependable(x)' /\ (entry'[x].op \in {"MeshWrite", "MeshRead"} \/ (entry'[x].op = "Done" /\ cleanUp(x)))
    BY <1>1, <1>3, <1>10 DEF cleanUp
  <2>2. dependable(x)
    <3>1. ~(Mover /\ x = tagged)
      <4>1. SUFFICES ASSUME Mover, x = tagged PROVE FALSE
        OBVIOUS
      <4>2. moves(x)
        BY <1>0, <4>1, VictimIs DEF Mover
      <4>3. QED
        BY <1>8, <4>2
    <3>2. QED
      BY <1>4, <2>1, <3>1, WhoIsListed
  <2>3. CASE x = tagged
    <3>1. x # None /\ tagged # None
      BY <2>3, DepsAssumption
    <3>2. ~fill /\ entry[x].kind # "Write"
      BY <1>0, <1>2, <1>3, <1>5, <2>1, <2>3, NextOpIs DEF fill, cleanUp
    <3>3. QED
      BY <1>2, <1>3, <1>4, <1>8, <2>1, <2>2, <2>3, <3>1, <3>2
  <2>4. CASE x # tagged
    <3>1. \/ entry[x].op \in {"MeshWrite", "MeshRead"}
          \/ entry[x].op = "Done" /\ cleanUp(x)
      BY <1>2, <1>5, <2>1, <2>4, OpWas DEF PipeOps, MeshOps
    <3>2. settled(x)
      BY <1>2, <2>2, <3>1 DEF settled
    <3>3. QED
      BY <1>2, <1>3, <1>4, <1>8, <2>4, <3>2
  <2>5. QED
    BY <2>3, <2>4
<1>11. QED
  BY <1>9, <1>10

\* Two in the pipeline that have still to see the tags and are still in the list of
\* one line are one.
LEMMA OneInPipe ==
    ASSUME NEW pos \in [Entries -> Nat], State(pos), NEW x \in Entries, NEW y \in Entries,
           inPipe(x), inPipe(y), Listed(x, y), entry[x].op = "First", entry[y].op = "First"
    PROVE  x = y
<1>1. InFront(x, y) /\ InFront(y, x)
  BY DEF State, Phases, LetGo, InFront, Listed, dependable
<1>2. pos[x] <= pos[y] /\ pos[y] <= pos[x]
  BY <1>1, DepsAssumption DEF State, Lists, Heads, inPipe
<1>3. pos[x] = pos[y]
  BY <1>2
<1>4. QED
  BY <1>1, <1>3 DEF State, Lists, Ordered, InFront

\* Who is in the pipeline after a clock was there or is picked.
LEMMA PipeWas ==
    ASSUME PipeTiming, NEW pos \in [Entries -> Nat], State(pos), Order(pos),
           NEW i, NEW new, NEW p, NEW m, NEW r, NEW d, NEW done,
           Clock(i, new, p, m, r, d, done), NEW y \in Entries, NEW k \in 1..Latency, pipe'[k] = y
    PROVE  /\ entry[y].valid /\ y \notin done /\ y # i /\ y # tagged /\ ~moves(y)
           /\ entry[y].op \in PipeOps /\ entry'[y].op = entry[y].op
           /\ entry'[y].line = entry[y].line /\ entry'[y].kind = entry[y].kind
           /\ entry'[y].due = entry[y].due
           /\ \/ k = 1 /\ y = p /\ y \in Pickable
              \/ k \in 2..Latency /\ k - 1 \in 1..Latency /\ pipe[k - 1] = y
<1>0. Typed /\ Phases
  BY DEF State
<1>1. \/ k = 1 /\ y = p /\ y \in Pickable
      \/ k \in 2..Latency /\ k - 1 \in 1..Latency /\ k - 1 < Latency /\ pipe[k - 1] = y
  <2>1. k = 1 \/ k \in 2..Latency
    OBVIOUS
  <2>2. y # None
    BY DepsAssumption
  <2>3. QED
    BY <2>1, <2>2, PipeIs
<1>2. y # None
  BY DepsAssumption
<1>3. entry[y].valid /\ entry[y].op \in PipeOps /\ y # tagged
  <2>1. CASE k = 1 /\ y = p /\ y \in Pickable
    <3>1. entry[y].valid /\ entry[y].op \in PipeOps /\ ~inPipe(y)
      BY <2>1, PickedIs DEF Order
    <3>2. QED
      BY <3>1, DepsAssumption DEF inPipe, tagged
  <2>2. CASE k \in 2..Latency /\ k - 1 \in 1..Latency /\ k - 1 < Latency /\ pipe[k - 1] = y
    <3>1. y # tagged
      BY <1>0, <1>2, <2>2, DepsAssumption DEF Typed, tagged
    <3>2. QED
      BY <1>0, <1>2, <2>2, <3>1 DEF Phases, InPipeline
  <2>3. QED
    BY <1>1, <2>1, <2>2
<1>4. y \notin done /\ y # i /\ ~moves(y)
  BY <1>3, DepsAssumption DEF Clock, Finishable, finishable, PipeOps, Arrives, Free, moves, isVictim
<1>5. /\ entry'[y].op = entry[y].op /\ entry'[y].line = entry[y].line
      /\ entry'[y].kind = entry[y].kind /\ entry'[y].due = entry[y].due
  BY <1>0, <1>3, <1>4, Stays, OpWas
<1>6. QED
  BY <1>1, <1>3, <1>4, <1>5

\* The first in front of the mesh stays the first.
LEMMA FrontsKept ==
    ASSUME PipeTiming, NEW pos \in [Entries -> Nat], State(pos), Order(pos),
           NEW i, NEW new, NEW p, NEW m, NEW r, NEW d, NEW done,
           Clock(i, new, p, m, r, d, done),
           NEW posn \in [Entries -> Nat], Places(pos, posn, i, new)
    PROVE  Fronts(posn)'
<1>0. Typed /\ Phases
  BY DEF State
<1> SUFFICES ASSUME NEW x \in Entries, NEW y \in Entries, InFront(x, y)',
                    entry'[x].op \notin {"Initial", "First"}
             PROVE  posn[x] <= posn[y]
  BY DEF Fronts
<1>1. Listed(x, y)' /\ ~entry'[x].inMesh /\ ~entry'[y].inMesh
  BY DEF InFront
<1>2. PairIs(pos, posn, i, new, x, y)
  BY <1>1, Pairs
<1>3. CASE Member(x) /\ Member(y) /\ Listed(x, y) /\ pos[x] # pos[y] /\ (pos[y] < pos[x] <=> posn[y] < posn[x])
  <2>1. /\ entry[x].valid /\ x \notin done /\ ~entry[x].inMesh
        /\ entry[y].valid /\ y \notin done /\ ~entry[y].inMesh
    BY <1>0, <1>1, <1>3, MemberStays, MemberIs DEF Member
  <2>2. InFront(x, y)
    BY <1>3, <2>1 DEF InFront
  <2>3. pos[x] <= pos[y]
    <3>1. CASE entry[x].op \notin {"Initial", "First"}
      BY <2>2, <3>1 DEF Order, Fronts
    <3>2. CASE entry[x].op \in {"Initial", "First"}
      <4>1. x = tagged /\ x # None /\ Latency \in 1..Latency
        BY <2>1, <3>2, OpWas, DepsAssumption DEF PipeOps
      <4>2. QED
        BY <2>2, <4>1 DEF State, Lists, Heads, tagged
    <3>3. QED
      BY <3>1, <3>2
  <2>4. QED
    BY <1>3, <2>3
<1>4. ~(Mover /\ x = tagged) /\ ~(Mover /\ y = tagged)
  BY <1>1, MoverIs
<1>5. i \in Free => entry'[i].op = "Initial"
  BY <1>0, FreshIs, DepsAssumption DEF Clock, Arrives, Edge, Free
<1>6. QED
  BY <1>2, <1>3, <1>4, <1>5 DEF PairIs

\* Who has let go stays ahead in the pipeline.
LEMMA LetGoAheadKept ==
    ASSUME PipeTiming, NEW pos \in [Entries -> Nat], State(pos), Order(pos),
           NEW i, NEW new, NEW p, NEW m, NEW r, NEW d, NEW done,
           Clock(i, new, p, m, r, d, done)
    PROVE  LetGoAhead'
<1> SUFFICES ASSUME NEW k \in 1..Latency, NEW n \in 1..Latency, NEW x \in Entries, NEW y \in Entries,
                    pipe'[n] = x, pipe'[k] = y, entry'[x].line = entry'[y].line,
                    entry'[x].op = "First", entry'[y].op = "First", dependable(x)', ~dependable(y)'
             PROVE  n < k
  BY DEF LetGoAhead
<1>1. /\ entry[x].valid /\ entry[x].op = "First" /\ entry'[x].line = entry[x].line /\ x # i /\ x # tagged
      /\ n = 1 \/ (n \in 2..Latency /\ n - 1 \in 1..Latency /\ pipe[n - 1] = x)
  BY PipeWas
<1>2. /\ entry[y].valid /\ entry[y].op = "First" /\ entry'[y].line = entry[y].line /\ y \notin done
      /\ (k = 1 /\ y = p /\ y \in Pickable) \/ (k \in 2..Latency /\ k - 1 \in 1..Latency /\ pipe[k - 1] = y)
  BY PipeWas
<1>3. k # 1
  <2>1. SUFFICES ASSUME k = 1 PROVE FALSE
    OBVIOUS
  <2>2. entry'[y].valid /\ entry'[y].op \in PipeOps
    BY <1>2, Stays DEF State, PipeOps
  <2>3. entry'[y].setting \/ entry'[y].dont
    BY <2>2 DEF dependable, clears
  <2>4. PICK l \in 2..Latency : pipe'[l] = y
    BY <2>2, <2>3, GoingKept DEF Going
  <2>5. (\A h, l1 \in 1..Latency : pipe[h] = pipe[l1] /\ pipe[h] # None => h = l1)'
    BY InPipelineKept
  <2>6. l \in 1..Latency /\ l # 1 /\ y # None
    BY DepsAssumption
  <2>7. QED
    BY <2>1, <2>4, <2>5, <2>6
<1>4. CASE n = 1
  BY <1>3, <1>4
<1>5. CASE n # 1
  <2>1. dependable(x)
    <3>1. ~(Mover /\ x = tagged)
      BY <1>1
    <3>2. QED
      BY <1>1, <3>1, WhoIsListed
  <2>2. ~dependable(y)
    <3>1. SUFFICES ASSUME dependable(y) PROVE FALSE
      OBVIOUS
    <3>2. Listed(x, y) /\ inPipe(x) /\ inPipe(y)
      BY <1>1, <1>2, <1>3, <1>5, <2>1, <3>1 DEF Listed, inPipe
    <3>3. x = y
      BY <1>1, <1>2, <3>2, OneInPipe
    <3>4. QED
      BY <3>3
  <2>3. n - 1 < k - 1
    BY <1>1, <1>2, <1>3, <1>5, <2>1, <2>2 DEF Order, LetGoAhead
  <2>4. QED
    BY <1>1, <1>2, <2>3
<1>6. QED
  BY <1>4, <1>5

\* Of a line one at most stays settled.
LEMMA OneSettledKept ==
    ASSUME PipeTiming, NEW pos \in [Entries -> Nat], State(pos), Order(pos),
           NEW i, NEW new, NEW p, NEW m, NEW r, NEW d, NEW done,
           Clock(i, new, p, m, r, d, done)
    PROVE  OneSettled'
<1> SUFFICES ASSUME NEW x \in Entries, NEW y \in Entries, settled(x)', settled(y)',
                    entry'[x].line = entry'[y].line
             PROVE  x = y
  BY DEF OneSettled
<1>1. ASSUME NEW z \in {x, y}
      PROVE  entry'[z].line = entry[z].line /\ ((settled(z) /\ z # tagged) \/ (z = tagged /\ tagged # None))
  <2>1. z \in Entries /\ settled(z)'
    BY <1>1
  <2>2. QED
    BY <2>1, SettledWas
<1>2. CASE settled(x) /\ settled(y)
  BY <1>1, <1>2 DEF Order, Settles, OneSettled
<1>3. CASE x = tagged /\ tagged # None
  BY <1>1, <1>3, TaggedFirst
<1>4. CASE y = tagged /\ tagged # None
  BY <1>1, <1>4, TaggedFirst
<1>5. QED
  BY <1>1, <1>2, <1>3, <1>4

\* Nobody comes to the tags for the line of one that is settled before it does.
LEMMA NoneComesKept ==
    ASSUME PipeTiming, NEW pos \in [Entries -> Nat], State(pos), Order(pos),
           NEW i, NEW new, NEW p, NEW m, NEW r, NEW d, NEW done,
           Clock(i, new, p, m, r, d, done)
    PROVE  NoneComes'
<1> SUFFICES ASSUME NEW x \in Entries, NEW y \in Entries, NEW k \in 1..Latency, settled(x)',
                    pipe'[k] = y, y # x, entry'[y].line = entry'[x].line
             PROVE  \E n \in (k + 1)..Latency : pipe'[n] = x
  BY DEF NoneComes
<1>1. /\ entry[x].valid /\ entry'[x].line = entry[x].line
      /\ \/ settled(x) /\ x # tagged
         \/ x = tagged /\ tagged # None /\ ~fill /\ entry[x].kind # "Write" /\ dependable(x)
  BY SettledWas
<1>2. /\ entry[y].valid /\ entry'[y].line = entry[y].line /\ entry[y].op \in PipeOps
      /\ (k = 1 /\ y = p /\ y \in Pickable) \/ (k \in 2..Latency /\ k - 1 \in 1..Latency /\ pipe[k - 1] = y)
  BY PipeWas
<1>3. CASE k \in 2..Latency /\ k - 1 \in 1..Latency /\ pipe[k - 1] = y
  <2>1. settled(x) /\ x # tagged
    BY <1>1, <1>2, <1>3, TaggedFirst DEF inPipe
  <2>2. PICK n \in ((k - 1) + 1)..Latency : pipe[n] = x
    BY <1>1, <1>2, <1>3, <2>1 DEF Order, Settles, NoneComes
  <2>3. n # Latency
    BY <2>1, <2>2 DEF tagged
  <2>4. n \in 1..Latency /\ n < Latency /\ n + 1 \in (k + 1)..Latency
    BY <1>3, <2>2, <2>3, DepsAssumption
  <2>5. QED
    BY <2>2, <2>4, PipeIs
<1>4. CASE k = 1 /\ y = p /\ y \in Pickable
  <2>1. dependable(y) /\ (\A z \in Entries : Listed(y, z) => pos[y] <= pos[z])
    BY <1>4, PickedIs DEF Order
  <2>2. CASE settled(x) /\ x # tagged
    <3>1. ~dependable(x)
      BY <1>1, <1>2, <1>4, <2>2, PickedAlone
    <3>2. entry[x].op = "Fill" /\ (entry[x].setting \/ entry[x].dont)
      BY <2>2, <3>1 DEF settled, dependable, clears
    <3>3. PICK n \in 2..Latency : pipe[n] = x
      BY <1>1, <3>2 DEF Order, Going, PipeOps
    <3>4. n # Latency
      BY <2>2, <3>3 DEF tagged
    <3>5. n \in 1..Latency /\ n < Latency /\ n + 1 \in (k + 1)..Latency
      BY <1>4, <3>3, <3>4, DepsAssumption
    <3>6. QED
      BY <3>3, <3>5, PipeIs
  <2>3. CASE x = tagged /\ tagged # None /\ ~fill /\ entry[x].kind # "Write" /\ dependable(x)
    <3>1. /\ entry[x].op \in PipeOps /\ ~entry[x].inMesh /\ pipe[Latency] = x /\ Latency \in 1..Latency
          /\ \A z \in Entries : settled(z) /\ entry[z].line = entry[x].line => z = x
      BY <2>3, TaggedFirst, DepsAssumption
    <3>2. entry[y].op = "First"
      BY <1>1, <1>2, <3>1 DEF settled, PipeOps
    <3>3. ~entry[y].inMesh
      BY <1>2, <3>2 DEF State, Phases, LetGo
    <3>4. InFront(x, y) /\ Listed(y, x) /\ x # None
      BY <1>1, <1>2, <2>1, <2>3, <3>1, <3>3, DepsAssumption DEF InFront, Listed
    <3>5. pos[x] <= pos[y] /\ pos[y] <= pos[x]
      BY <2>1, <3>1, <3>4 DEF State, Lists, Heads
    <3>6. pos[x] = pos[y]
      BY <3>5
    <3>7. QED
      BY <3>4, <3>6 DEF State, Lists, Ordered
  <2>4. QED
    BY <1>1, <2>2, <2>3
<1>5. QED
  BY <1>2, <1>3, <1>4

\* The line of the way after a clock: that of the tag response, or what it was.
LEMMA WayIs ==
    ASSUME PipeTiming, NEW pos \in [Entries -> Nat], State(pos),
           NEW i, NEW new, NEW p, NEW m, NEW r, NEW d, NEW done,
           Clock(i, new, p, m, r, d, done), NEW t, t = tagged
    PROVE  /\ tagged = None => way' = way
           /\ tagged # None /\ fill =>
                 way' = [line |-> entry[t].line, dirty |-> IF tagHit THEN way.dirty ELSE {}, data |-> entry[t].data]
           /\ tagged # None /\ ~fill /\ entry[t].kind = "Write" =>
                 way' = IF tagHit
                        THEN [line |-> way.line,
                              dirty |-> IF way.dirty = {} THEN Quads ELSE way.dirty \union entry[t].mask,
                              data |-> Overlay(way.data, entry[t].due, entry[t].mask)]
                        ELSE [line |-> entry[t].line, dirty |-> entry[t].mask,
                              data |-> Overlay(Junk, entry[t].due, entry[t].mask)]
           /\ tagged # None /\ ~fill /\ entry[t].kind = "Read" => way' = IF tagHit /\ partial THEN Invalid ELSE way
           /\ tagged # None /\ ~fill /\ entry[t].kind = "Evict" => way' = IF tagHit THEN Invalid ELSE way
           /\ tagged # None /\ ~fill /\ entry[t].kind = "Flush" =>
                 way' = IF tagHit /\ partial THEN Invalid
                        ELSE IF tagHit THEN [line |-> way.line, dirty |-> {}, data |-> way.data] ELSE way
           /\ tagged # None => entry[t].kind \in {"Read", "Write", "Evict", "Flush"}
<1>1. way' = wayAfter
  BY DEF Clock, Edge
<1>2. way \in [line : Lines \union {None}, dirty : SUBSET Quads, data : Words]
  BY DEF State, Typed, WayType
<1>3. tagged # None => entry[t].kind \in {"Read", "Write", "Evict", "Flush"}
  BY TaggedIs DEF State, Typed, Kinds
<1>4. tagged # None /\ fill =>
         wayAfter = [line |-> entry[t].line, dirty |-> IF tagHit THEN way.dirty ELSE {}, data |-> entry[t].data]
  BY DEF wayAfter
<1>5. tagged # None /\ ~fill /\ entry[t].kind = "Write" =>
         wayAfter = IF tagHit
                    THEN [line |-> way.line,
                          dirty |-> IF way.dirty = {} THEN Quads ELSE way.dirty \union entry[t].mask,
                          data |-> Overlay(way.data, entry[t].due, entry[t].mask)]
                    ELSE [line |-> entry[t].line, dirty |-> entry[t].mask,
                          data |-> Overlay(Junk, entry[t].due, entry[t].mask)]
  <2> DEFINE dirty == IF way.dirty = {} THEN Quads ELSE way.dirty \union entry[t].mask
             data == Overlay(way.data, entry[t].due, entry[t].mask)
             other == [line |-> entry[t].line, dirty |-> entry[t].mask,
                       data |-> Overlay(Junk, entry[t].due, entry[t].mask)]
  <2>1. tagged # None /\ ~fill /\ entry[t].kind = "Write" =>
           wayAfter = IF tagHit THEN [way EXCEPT !.dirty = dirty, !.data = data] ELSE other
    BY DEF wayAfter
  <2>2. ASSUME NEW f, f = [way EXCEPT !.dirty = dirty, !.data = data]
        PROVE  f = [line |-> way.line, dirty |-> dirty, data |-> data]
    <3> HIDE DEF dirty, data
    <3>1. QED
      BY <1>2, <2>2
  <2>3. QED
    BY <2>1, <2>2
<1>6. tagged # None /\ ~fill /\ entry[t].kind = "Read" =>
         wayAfter = IF tagHit /\ partial THEN Invalid ELSE way
  BY DEF wayAfter
<1>7. tagged # None /\ ~fill /\ entry[t].kind = "Evict" => wayAfter = IF tagHit THEN Invalid ELSE way
  BY DEF wayAfter
<1>8. tagged # None /\ ~fill /\ entry[t].kind = "Flush" =>
         wayAfter = IF tagHit /\ partial THEN Invalid
                    ELSE IF tagHit THEN [line |-> way.line, dirty |-> {}, data |-> way.data] ELSE way
  BY <1>2 DEF wayAfter
<1>9. tagged = None => wayAfter = way
  BY DEF wayAfter
<1>10. QED
  BY <1>1, <1>3, <1>4, <1>5, <1>6, <1>7, <1>8, <1>9

\* The way has nothing of a line that is settled that memory has not.
LEMMA CleanWayKept ==
    ASSUME PipeTiming, NEW pos \in [Entries -> Nat], State(pos), Order(pos),
           NEW i, NEW new, NEW p, NEW m, NEW r, NEW d, NEW done,
           Clock(i, new, p, m, r, d, done)
    PROVE  CleanWay'
<1> SUFFICES ASSUME NEW x \in Entries, settled(x)', way'.line = entry'[x].line
             PROVE  way'.dirty = {}
  BY DEF CleanWay
<1>1. /\ entry[x].valid /\ x \notin done /\ entry'[x].line = entry[x].line
      /\ \/ settled(x) /\ x # tagged
         \/ /\ x = tagged /\ tagged # None /\ ~fill /\ entry[x].kind # "Write" /\ dependable(x)
            /\ entry'[x].op # "Hit"
  BY SettledWas
<1>2. entry[x].line \in Lines /\ entry[x].line # None
  BY <1>1, DepsAssumption DEF State, Typed
<1>3. Invalid.line = None /\ Invalid.dirty = {}
  BY DEF Invalid
<1>4. CASE settled(x) /\ x # tagged
  <2>1. way.line = entry[x].line => way.dirty = {}
    BY <1>4 DEF Order, Settles, CleanWay
  <2>2. tagged # None => entry[tagged].line # entry[x].line
    BY <1>4, TaggedFirst
  <2>3. tagHit => way.line = entry[tagged].line /\ tagged # None
    BY DEF tagHit
  <2>4. tagged # None => entry[tagged].kind \in {"Read", "Write", "Evict", "Flush"}
    BY WayIs
  <2>5. CASE tagged = None
    BY <1>1, <2>1, <2>5, WayIs
  <2>6. CASE tagged # None /\ (fill \/ entry[tagged].kind = "Write")
    <3>1. way'.line = entry[tagged].line
      BY <2>3, <2>6, WayIs
    <3>2. QED
      BY <1>1, <2>2, <2>6, <3>1
  <2>7. CASE tagged # None /\ ~fill /\ entry[tagged].kind # "Write"
    <3>1. way'.line = None \/ way'.dirty = {} \/ way' = way
      BY <1>3, <2>4, <2>7, WayIs
    <3>2. QED
      BY <1>1, <1>2, <2>1, <3>1
  <2>8. QED
    BY <2>5, <2>6, <2>7
<1>5. CASE /\ x = tagged /\ tagged # None /\ ~fill /\ entry[x].kind # "Write" /\ dependable(x)
           /\ entry'[x].op # "Hit"
  <2>1. entry[x].kind \in {"Read", "Evict", "Flush"}
    BY <1>5, WayIs
  <2>2. tagHit <=> way.line = entry[x].line
    BY <1>5 DEF tagHit
  <2>3. CASE ~tagHit
    <3>1. way' = way
      BY <1>5, <2>1, <2>3, WayIs
    <3>2. QED
      BY <1>1, <2>2, <2>3, <3>1
  <2>4. CASE tagHit /\ entry[x].kind = "Read"
    <3>1. partial
      <4>1. SUFFICES ASSUME ~partial PROVE FALSE
        OBVIOUS
      <4>2. ~tagVictim
        BY <1>5, <2>4, <4>1 DEF tagVictim
      <4>3. Typed /\ Phases /\ r \in Answerable \union {None} /\ d \in Reading \union {None}
        BY DEF State, Clock
      <4>4. nextOp(x, r, d) = "Hit"
        BY <1>1, <1>5, <2>4, <4>2, <4>3, NextOpIs
      <4>5. entry'[x].op = nextOp(x, r, d)
        BY <1>1, <4>3, Stays
      <4>6. QED
        BY <1>5, <4>4, <4>5
    <3>2. QED
      BY <1>3, <1>5, <2>4, <3>1, WayIs
  <2>5. CASE tagHit /\ entry[x].kind \in {"Evict", "Flush"}
    BY <1>3, <1>5, <2>5, WayIs
  <2>6. QED
    BY <2>1, <2>3, <2>4, <2>5
<1>6. QED
  BY <1>1, <1>4, <1>5

\* What is on its way to memory is in its list, and at the mesh.
LEMMA WriteBackIs ==
    ASSUME PipeTiming, NEW pos \in [Entries -> Nat], State(pos), Going,
           NEW v \in Entries, NEW l, writeBack(v, l)
    PROVE  dependable(v) /\ entry[v].inMesh /\ entry[v].op \in MeshOps /\ entry[v].line = l /\ v # tagged
<1>1. entry[v].valid /\ entry[v].op \in {"MeshWrite", "MeshVictim"} /\ entry[v].line = l
  BY DEF writeBack
<1>2. ~entry[v].setting /\ ~entry[v].dont /\ entry[v].inMesh
  BY <1>1 DEF State, Phases, LetGo, MeshOps, Going
<1>3. dependable(v)
  BY <1>1, <1>2 DEF dependable, clears
<1>4. v # tagged
  BY <1>1, TaggedIs, DepsAssumption DEF State, PipeOps
<1>5. QED
  BY <1>1, <1>2, <1>3, <1>4 DEF MeshOps

\* What is on its way to memory was so a clock ago, or is the victim of this one.
LEMMA WriteBackWas ==
    ASSUME PipeTiming, NEW pos \in [Entries -> Nat], State(pos), Order(pos),
           NEW i, NEW new, NEW p, NEW m, NEW r, NEW d, NEW done,
           Clock(i, new, p, m, r, d, done), NEW v \in Entries, NEW l, writeBack(v, l)'
    PROVE  /\ entry[v].valid /\ v # i /\ v \notin done /\ dependable(v)'
           /\ \/ /\ writeBack(v, l) /\ v # r /\ v # tagged /\ Member(v)
                 /\ entry'[v].mask = entry[v].mask /\ entry'[v].data = entry[v].data
              \/ /\ v = tagged /\ tagVictim /\ way.line = l /\ way.dirty # {}
                 /\ entry'[v].mask = way.dirty /\ entry'[v].data = way.data
<1>0. Typed /\ Phases /\ r \in Answerable \union {None} /\ d \in Reading \union {None} /\ Going
  BY DEF State, Clock, Order
<1>1. entry'[v].valid /\ entry'[v].op \in {"MeshWrite", "MeshVictim"} /\ entry'[v].line = l
  BY DEF writeBack
<1>2. entry[v].valid /\ v \notin done
  <2>1. ~(\E kind \in Kinds, ll \in Lines, mask \in SUBSET Quads, due \in Words :
             entry'[v] = fresh(kind, ll, mask, due))
    BY <1>1, FreshIs
  <2>2. QED
    BY <1>0, <1>1, <2>1, Fate
<1>3. v # i
  BY <1>2, DepsAssumption DEF Clock, Arrives, Free
<1>4. /\ entry'[v].op = nextOp(v, r, d)
      /\ entry'[v].line = IF moves(v) THEN way.line ELSE entry[v].line
      /\ entry'[v].mask = IF isVictim(v) THEN way.dirty ELSE entry[v].mask
      /\ entry'[v].data = dataNext(v, r)
  BY <1>0, <1>2, Stays
<1>5. dependable(v)'
  <2>1. ~entry'[v].setting /\ ~entry'[v].dont
    BY <1>1, LetGoKept DEF LetGo, MeshOps
  <2>2. QED
    BY <1>1, <2>1 DEF dependable, clears
<1>6. CASE v = tagged
  <2>1. tagVictim
    BY <1>0, <1>1, <1>2, <1>4, <1>6, NextOpIs
  <2>2. way.dirty # {}
    BY <2>1 DEF tagVictim, partial
  <2>3. isVictim(v)
    BY <1>6, <2>1 DEF isVictim
  <2>4. way.line = l
    BY <1>1, <1>4, <1>6, <2>1, <2>3 DEF moves, tagHit
  <2>5. entry'[v].data = way.data
    BY <1>4, <2>3 DEF dataNext
  <2>6. QED
    BY <1>2, <1>3, <1>4, <1>5, <1>6, <2>1, <2>2, <2>3, <2>4, <2>5
<1>7. CASE v # tagged
  <2>1. entry[v].op \in {"MeshWrite", "MeshVictim"} /\ v # r
    <3>1. entry[v].op \in PipeOps \union MeshOps \union {"Initial", "Hit", "Done"}
      BY <1>0 DEF Typed, EntryType, Ops
    <3>2. QED
      BY <1>1, <1>2, <1>7, <3>1, OpWas DEF PipeOps, MeshOps
  <2>2. ~isVictim(v) /\ ~moves(v)
    BY <1>7 DEF isVictim, moves
  <2>3. entry'[v].data = entry[v].data
    BY <1>4, <1>7, <2>1, <2>2 DEF dataNext
  <2>4. writeBack(v, l)
    BY <1>1, <1>2, <1>4, <2>1, <2>2 DEF writeBack
  <2>5. Member(v)
    BY <1>0, <1>5, <2>4, WriteBackIs DEF Member
  <2>6. QED
    BY <1>2, <1>3, <1>4, <1>5, <1>7, <2>1, <2>2, <2>3, <2>4, <2>5
<1>8. QED
  BY <1>6, <1>7

\* It stays so until the answer of the mesh.
LEMMA WriteBackStays ==
    ASSUME PipeTiming, NEW pos \in [Entries -> Nat], State(pos), Order(pos),
           NEW i, NEW new, NEW p, NEW m, NEW r, NEW d, NEW done,
           Clock(i, new, p, m, r, d, done), NEW v \in Entries, NEW l, writeBack(v, l), v # r
    PROVE  /\ writeBack(v, l)' /\ Member(v)
           /\ entry'[v].mask = entry[v].mask /\ entry'[v].data = entry[v].data
<1>1. /\ entry[v].valid /\ entry[v].op \in {"MeshWrite", "MeshVictim"} /\ entry[v].line = l
      /\ v # tagged /\ entry[v].op \in MeshOps
  BY WriteBackIs DEF writeBack, Order
<1>2. v \notin done
  BY <1>1 DEF Clock, Finishable, finishable
<1>3. entry'[v].valid /\ entry'[v].op = entry[v].op /\ entry'[v].line = entry[v].line
  BY <1>1, <1>2, Stays, OpWas DEF State, moves, isVictim
<1>4. writeBack(v, l)'
  BY <1>1, <1>3 DEF writeBack
<1>5. QED
  BY <1>1, <1>4, WriteBackWas

\* What is on its way to memory gets there before one of its line that is settled.
LEMMA BackFirstKept ==
    ASSUME PipeTiming, NEW pos \in [Entries -> Nat], State(pos), Order(pos),
           NEW i, NEW new, NEW p, NEW m, NEW r, NEW d, NEW done,
           Clock(i, new, p, m, r, d, done),
           NEW posn \in [Entries -> Nat], Places(pos, posn, i, new)
    PROVE  BackFirst(posn)'
<1> SUFFICES ASSUME NEW x \in Entries, NEW v \in Entries, settled(x)', writeBack(v, entry[x].line)', v # x
             PROVE  dependable(x)' /\ posn[v] < posn[x]
  BY DEF BackFirst
<1>1. /\ entry[x].valid /\ entry'[x].line = entry[x].line
      /\ \/ settled(x) /\ x # tagged
         \/ x = tagged /\ tagged # None /\ ~fill /\ entry[x].kind # "Write" /\ dependable(x)
  BY SettledWas
<1> DEFINE l == entry[x].line
<1>2. writeBack(v, l)'
  OBVIOUS
<1>3. \/ writeBack(v, entry'[x].line) /\ v # r /\ v # tagged /\ Member(v)
      \/ v = tagged /\ tagVictim /\ way.line = entry'[x].line /\ way.dirty # {}
  <2>1. ASSUME NEW k, k = entry'[x].line, writeBack(v, k)'
        PROVE  \/ writeBack(v, k) /\ v # r /\ v # tagged /\ Member(v)
               \/ v = tagged /\ tagVictim /\ way.line = k /\ way.dirty # {}
    BY <2>1, WriteBackWas
  <2>2. ASSUME NEW k, k = entry'[x].line PROVE writeBack(v, k)'
    BY <1>2, <2>2 DEF writeBack
  <2>3. QED
    BY <2>1, <2>2
<1>4. writeBack(v, entry[x].line) /\ Member(v)
  <2>1. SUFFICES ASSUME v = tagged, way.line = entry[x].line, way.dirty # {} PROVE FALSE
    BY <1>1, <1>3
  <2>2. settled(x)
    BY <1>1, <2>1
  <2>3. QED
    BY <2>1, <2>2 DEF Order, Settles, CleanWay
<1>5. dependable(v) /\ entry[v].inMesh /\ entry[v].line = entry[x].line
  BY <1>4, WriteBackIs DEF Order
<1>6. dependable(x) /\ pos[v] < pos[x]
  <2>1. CASE settled(x) /\ x # tagged
    BY <1>4, <2>1 DEF Order, Settles, BackFirst
  <2>2. CASE x = tagged /\ tagged # None /\ ~fill /\ entry[x].kind # "Write" /\ dependable(x)
    <3>1. ~entry[x].inMesh
      BY <2>2, TaggedFirst
    <3>2. Listed(v, x)
      BY <1>5, <2>2 DEF Listed
    <3>3. QED
      BY <1>5, <2>2, <3>1, <3>2 DEF State, Lists, MeshParts
  <2>3. QED
    BY <1>1, <2>1, <2>2
<1>7. Listed(v, x) /\ Listed(x, v)
  BY <1>5, <1>6 DEF Listed
<1>8. dependable(x)'
  <2>1. SUFFICES ASSUME ~dependable(x)' PROVE FALSE
    OBVIOUS
  <2>2. pos[x] <= pos[v]
    BY <1>6, <1>7, <2>1, Leaves
  <2>3. QED
    BY <1>6, <2>2
<1>9. posn[v] < posn[x]
  BY <1>4, <1>6, <1>7, <1>8 DEF Places, Member
<1>10. QED
  BY <1>8, <1>9

\* The order of the requests for a line is kept.
LEMMA OrderKept ==
    ASSUME PipeTiming, NEW pos \in [Entries -> Nat], State(pos), Order(pos),
           NEW i, NEW new, NEW p, NEW m, NEW r, NEW d, NEW done,
           Clock(i, new, p, m, r, d, done),
           NEW posn \in [Entries -> Nat], Places(pos, posn, i, new)
    PROVE  Order(posn)'
<1>1. Going' /\ LetGoAhead' /\ OneSettled' /\ NoneComes' /\ CleanWay'
  BY GoingKept, LetGoAheadKept, OneSettledKept, NoneComesKept, CleanWayKept
<1>2. Fronts(posn)' /\ BackFirst(posn)'
  BY FrontsKept, BackFirstKept
<1>3. QED
  BY <1>1, <1>2 DEF Order, Settles

-----------------------------------------------------------------------------
(* What each request is to return, and what its line holds.                *)

\* i comes to the tags before j.
Ahead(pos, i, j) ==
  \/ \E k \in 1..Latency : pipe[k] = i /\ \A n \in k..Latency : pipe[n] # j
  \/ ~inPipe(i) /\ ~inPipe(j) /\ pos[i] < pos[j]
\* i writes quad q.
puts(i, q) == entry[i].kind = "Write" /\ q \in entry[i].mask

\* What a request finds is between what its line holds and the last write accepted, ...
Between(c) ==
  \A i \in Entries, q \in Quads : pending(i) =>
    /\ c[entry[i].line][q] <= entry[i].due[q] /\ entry[i].due[q] <= written[entry[i].line][q]
    /\ puts(i, q) => c[entry[i].line][q] < entry[i].due[q]
\* ... who comes first finds less ...
Ascending(pos) ==
  \A i, j \in Entries, q \in Quads :
    pending(i) /\ pending(j) /\ entry[i].line = entry[j].line /\ Ahead(pos, i, j) =>
      /\ entry[i].due[q] <= entry[j].due[q]
      /\ puts(j, q) => entry[i].due[q] < entry[j].due[q]
\* ... and what the line is still to hold is in requests that have to see the tags.
Left(c) ==
  \A l \in Lines, q \in Quads :
    /\ c[l][q] <= written[l][q]
    /\ \A n \in Int : c[l][q] < n /\ n <= written[l][q] =>
          \E i \in Entries : pending(i) /\ puts(i, q) /\ entry[i].line = l /\ entry[i].due[q] = n
\* Who is settled found what its line holds.
Found(c) == \A i \in Entries : settled(i) => entry[i].due = c[entry[i].line]
\* A write has one of the quadword enables that writes come with.
Masked == \A i \in Entries : pending(i) /\ entry[i].kind = "Write" => entry[i].mask \in Masks
Content(pos, c) ==
  c \in [Lines -> Words] /\ Between(c) /\ Ascending(pos) /\ Left(c) /\ Found(c) /\ Masked

\* What the lines hold after the tag response of this clock.
Seen(c) == IF tagged # None /\ ~fill THEN [c EXCEPT ![entry[tagged].line] = entry[tagged].due] ELSE c

\* The numbers that are compared.
LEMMA Numbers ==
    ASSUME Typed, NEW c \in [Lines -> Words], NEW q \in Quads
    PROVE  /\ \A x \in Entries : entry[x].due[q] \in Int /\ entry[x].data[q] \in Int
           /\ \A l \in Lines : c[l][q] \in Int /\ written[l][q] \in Int /\ memory[l][q] \in Int
           /\ way.data[q] \in Int
           /\ \A x \in Entries : entry[x].valid => entry[x].line \in Lines
<1>1. \A x \in Entries : entry[x] \in EntryType
  BY DEF Typed
<1>2. ASSUME NEW x \in Entries PROVE entry[x].due \in Words /\ entry[x].data \in Words
  BY <1>1 DEF EntryType
<1>3. ASSUME NEW w \in Words PROVE w[q] \in Int
  BY DEF Words
<1>4. way.data \in Words
  BY DEF Typed, WayType
<1>5. ASSUME NEW l \in Lines PROVE c[l] \in Words /\ written[l] \in Words /\ memory[l] \in Words
  BY DEF Typed
<1>6. QED
  BY <1>2, <1>3, <1>4, <1>5 DEF Typed

\* Whose tag response is here finds what its line holds.
LEMMA TaggedDue ==
    ASSUME PipeTiming, NEW pos \in [Entries -> Nat], State(pos), Order(pos), NEW c, Content(pos, c),
           tagged # None, ~fill, NEW t, t = tagged
    PROVE  /\ t \in Entries /\ pending(t) /\ entry[t].line \in Lines /\ entry[t].due \in Words
           /\ \A q \in Quads : /\ ~puts(t, q) => entry[t].due[q] = c[entry[t].line][q]
                               /\ c[entry[t].line][q] <= entry[t].due[q]
                               /\ entry[t].due[q] <= written[entry[t].line][q]
           /\ \A j \in Entries, q \in Quads : pending(j) /\ entry[j].line = entry[t].line /\ j # t =>
                 /\ entry[t].due[q] <= entry[j].due[q]
                 /\ puts(j, q) => entry[t].due[q] < entry[j].due[q]
<1>1. /\ t \in Entries /\ entry[t].valid /\ entry[t].op = "First" /\ pipe[Latency] = t
      /\ Latency \in 1..Latency
  BY TaggedFirst, DepsAssumption DEF fill, PipeOps
<1>2. pending(t) /\ entry[t].line \in Lines /\ entry[t].due \in Words
  BY <1>1 DEF pending, State, Typed, EntryType
<1>3. \A j \in Entries : j # t => Ahead(pos, t, j)
  BY <1>1 DEF Ahead
<1>4. \A j \in Entries, q \in Quads : pending(j) /\ entry[j].line = entry[t].line /\ j # t =>
         /\ entry[t].due[q] <= entry[j].due[q]
         /\ puts(j, q) => entry[t].due[q] < entry[j].due[q]
  BY <1>1, <1>2, <1>3 DEF Content, Ascending
<1>5. ASSUME NEW q \in Quads
      PROVE  /\ ~puts(t, q) => entry[t].due[q] = c[entry[t].line][q]
             /\ c[entry[t].line][q] <= entry[t].due[q]
             /\ entry[t].due[q] <= written[entry[t].line][q]
  <2> DEFINE a == c[entry[t].line][q]  b == entry[t].due[q]
  <2>1. a <= b /\ b <= written[entry[t].line][q]
    BY <1>1, <1>2 DEF Content, Between
  <2>2. a \in Int /\ b \in Int /\ written[entry[t].line][q] \in Int
    BY <1>1, <1>2, Numbers DEF State, Content
  <2>3. ASSUME ~puts(t, q), a < b PROVE FALSE
    <3>1. a + 1 \in Int /\ a < a + 1 /\ a + 1 <= written[entry[t].line][q]
      BY <2>1, <2>2, <2>3
    <3>2. PICK j \in Entries : /\ pending(j) /\ puts(j, q) /\ entry[j].line = entry[t].line
                               /\ entry[j].due[q] = a + 1
      BY <1>2, <3>1 DEF Content, Left
    <3>3. b < a + 1
      BY <1>4, <2>3, <3>2
    <3>4. QED
      BY <2>2, <2>3, <3>3
  <2>4. QED
    BY <2>1, <2>2, <2>3
<1>6. QED
  BY <1>1, <1>2, <1>4, <1>5

\* What the lines hold after a clock.
LEMMA SeenIs ==
    ASSUME PipeTiming, NEW pos \in [Entries -> Nat], State(pos), Order(pos), NEW c, Content(pos, c),
           NEW cn, cn = Seen(c), NEW t, t = tagged
    PROVE  /\ cn \in [Lines -> Words]
           /\ \A l \in Lines : IF tagged # None /\ ~fill /\ l = entry[t].line THEN cn[l] = entry[t].due
                               ELSE cn[l] = c[l]
           /\ \A l \in Lines, q \in Quads : c[l][q] <= cn[l][q] /\ cn[l][q] <= written[l][q]
<1>1. c \in [Lines -> Words]
  BY DEF Content
<1>2. CASE tagged # None /\ ~fill
  <2>1. cn = [c EXCEPT ![entry[t].line] = entry[t].due]
    BY <1>2 DEF Seen
  <2>2. entry[t].line \in Lines /\ entry[t].due \in Words
    BY <1>2, TaggedDue
  <2>3. /\ cn \in [Lines -> Words]
        /\ \A l \in Lines : IF l = entry[t].line THEN cn[l] = entry[t].due ELSE cn[l] = c[l]
    BY <1>1, <2>1, <2>2
  <2>4. ASSUME NEW l \in Lines, NEW q \in Quads
        PROVE  c[l][q] <= cn[l][q] /\ cn[l][q] <= written[l][q]
    <3>1. CASE l = entry[t].line
      BY <1>2, <2>3, <3>1, TaggedDue
    <3>2. CASE l # entry[t].line
      <4>1. cn[l][q] = c[l][q] /\ c[l][q] \in Int
        BY <1>1, <2>3, <3>2, Numbers DEF State
      <4>2. QED
        BY <4>1 DEF Content, Left
    <3>3. QED
      BY <3>1, <3>2
  <2>5. QED
    BY <1>2, <2>3, <2>4
<1>3. CASE ~(tagged # None /\ ~fill)
  <2>1. cn = c
    BY <1>3 DEF Seen
  <2>2. ASSUME NEW l \in Lines, NEW q \in Quads
        PROVE  c[l][q] <= cn[l][q] /\ cn[l][q] <= written[l][q]
    <3>1. c[l][q] \in Int
      BY <1>1, Numbers DEF State
    <3>2. QED
      BY <2>1, <3>1 DEF Content, Left
  <2>3. QED
    BY <1>1, <1>3, <2>1, <2>2
<1>4. QED
  BY <1>2, <1>3

\* The request allocated finds the last write accepted.
LEMMA NewDue ==
    ASSUME Typed, NEW i, NEW new, NEW p, NEW m, NEW r, NEW d, NEW done,
           Clock(i, new, p, m, r, d, done), Records(i, new), Counts
    PROVE  /\ \A l \in Lines, q \in Quads : written[l][q] <= written'[l][q]
           /\ i \in Free =>
                 /\ i \in Entries /\ ~entry[i].valid /\ entry'[i] = new /\ entry'[i].line \in Lines
                 /\ entry'[i].kind = "Write" => entry'[i].mask \in Masks
                 /\ entry'[i].op = "Initial" /\ entry'[i].valid
                 /\ \A q \in Quads :
                       /\ entry'[i].due[q] = IF entry'[i].kind = "Write" /\ q \in entry'[i].mask
                                             THEN written[entry'[i].line][q] + 1
                                             ELSE written[entry'[i].line][q]
                       /\ entry'[i].due[q] <= written'[entry'[i].line][q]
           /\ \A l \in Lines, q \in Quads : written'[l][q] # written[l][q] =>
                 /\ i \in Free /\ entry'[i].line = l /\ entry'[i].kind = "Write" /\ q \in entry'[i].mask
                 /\ written'[l][q] = written[l][q] + 1
<1>1. ASSUME NEW l \in Lines, NEW q \in Quads PROVE written[l][q] \in Int
  BY <1>1 DEF Typed, Words
<1>2. CASE i \notin Free
  BY <1>1, <1>2 DEF Records
<1>3. CASE i \in Free
  <2>1. i \in Entries /\ ~entry[i].valid /\ entry'[i] = new
    BY <1>3 DEF Clock, Edge, Free
  <2>2. PICK kind \in Kinds, l \in Lines, mask \in SUBSET Quads, due \in Words : new = fresh(kind, l, mask, due)
    BY <1>3, DepsAssumption DEF Clock, Arrives, Free
  <2>3. /\ new.kind = kind /\ new.line = l /\ new.mask = mask /\ new.due = due /\ new.op = "Initial" /\ new.valid
    BY <2>2, FreshIs
  <2>4. /\ written' = IF kind = "Write" THEN [written EXCEPT ![l] = due] ELSE written
        /\ \A q \in Quads : due[q] = IF kind = "Write" /\ q \in mask THEN written[l][q] + 1 ELSE written[l][q]
    BY <1>3, <2>3 DEF Records
  <2>5. kind = "Write" => mask \in Masks
    BY <1>3, <2>3 DEF Records
  <2>6. written \in [Lines -> Words]
    BY DEF Typed
  <2>7. \A ll \in Lines : written'[ll] = IF ll = l /\ kind = "Write" THEN due ELSE written[ll]
    BY <2>4, <2>6
  <2>8. QED
    BY <1>1, <1>3, <2>1, <2>3, <2>4, <2>7, <2>5
<1>4. QED
  BY <1>2, <1>3

\* Who has still to see the tags had so a clock ago, or is the request allocated.
LEMMA PendingWas ==
    ASSUME PipeTiming, NEW pos \in [Entries -> Nat], State(pos),
           NEW i, NEW new, NEW p, NEW m, NEW r, NEW d, NEW done,
           Clock(i, new, p, m, r, d, done), NEW x \in Entries, pending(x)'
    PROVE  \/ x = i /\ i \in Free
           \/ /\ pending(x) /\ x # tagged /\ x # i /\ x \notin done /\ ~moves(x)
              /\ entry'[x].line = entry[x].line /\ entry'[x].kind = entry[x].kind
              /\ entry'[x].mask = entry[x].mask /\ entry'[x].due = entry[x].due
<1>0. Typed /\ Phases
  BY DEF State
<1>1. entry'[x].valid /\ entry'[x].op \in {"Initial", "First"}
  BY DEF pending
<1>2. CASE entry[x].valid /\ x \notin done
  <2>1. x # i
    BY <1>2, DepsAssumption DEF Clock, Arrives, Free
  <2>2. entry[x].op \in {"Initial", "First"} /\ x # tagged
    <3>1. entry[x].op \in PipeOps \union MeshOps \union {"Initial", "Hit", "Done"}
      BY <1>0 DEF Typed, EntryType, Ops
    <3>2. QED
      BY <1>1, <1>2, <3>1, OpWas DEF PipeOps, MeshOps
  <2>3. ~isVictim(x) /\ ~moves(x)
    BY <2>2 DEF isVictim, moves
  <2>4. QED
    BY <1>0, <1>2, <2>1, <2>2, <2>3, Stays DEF pending
<1>3. CASE ~(entry[x].valid /\ x \notin done)
  BY <1>0, <1>1, <1>3, Fate DEF Free
<1>4. QED
  BY <1>2, <1>3

\* Who has still to see the tags has so until its tag response is here.
LEMMA PendingStays ==
    ASSUME PipeTiming, NEW pos \in [Entries -> Nat], State(pos),
           NEW i, NEW new, NEW p, NEW m, NEW r, NEW d, NEW done,
           Clock(i, new, p, m, r, d, done), NEW x \in Entries, pending(x), x # tagged
    PROVE  /\ pending(x)'
           /\ entry'[x].line = entry[x].line /\ entry'[x].kind = entry[x].kind
           /\ entry'[x].mask = entry[x].mask /\ entry'[x].due = entry[x].due
<1>0. Typed /\ Phases
  BY DEF State
<1>1. entry[x].valid /\ x \notin done
  BY DEF pending, Clock, Finishable, finishable
<1>2. entry'[x].op \in {"Initial", "First"}
  BY <1>1, OpWas DEF pending, PipeOps
<1>3. ~isVictim(x) /\ ~moves(x)
  BY DEF isVictim, moves
<1>4. QED
  BY <1>0, <1>1, <1>2, <1>3, Stays DEF pending

\* Of two requests of a line, who comes to the tags first did so a clock ago; the
\* request allocated comes last.
LEMMA AheadWas ==
    ASSUME PipeTiming, NEW pos \in [Entries -> Nat], State(pos), Order(pos),
           NEW i, NEW new, NEW p, NEW m, NEW r, NEW d, NEW done,
           Clock(i, new, p, m, r, d, done),
           NEW posn \in [Entries -> Nat], Places(pos, posn, i, new),
           NEW x \in Entries, NEW y \in Entries, pending(x)', pending(y)',
           entry'[x].line = entry'[y].line, Ahead(posn, x, y)'
    PROVE  (y = i /\ x # y /\ i \in Free) \/ (pending(x) /\ pending(y) /\ Ahead(pos, x, y))
<1>0. Typed /\ Phases
  BY DEF State
<1>1. /\ (x = i /\ i \in Free) \/ (pending(x) /\ x # tagged /\ x # i /\ entry'[x].line = entry[x].line)
      /\ (y = i /\ i \in Free) \/ (pending(y) /\ y # tagged /\ y # i /\ entry'[y].line = entry[y].line)
  BY PendingWas
<1>2. \/ \E k \in 1..Latency : pipe'[k] = x /\ \A n \in k..Latency : pipe'[n] # y
      \/ ~inPipe(x)' /\ ~inPipe(y)' /\ posn[x] < posn[y]
  BY DEF Ahead
<1>3. ASSUME NEW z \in {x, y}, pending(z), z # tagged, z # i, ~inPipe(z)'
      PROVE  dependable(z) /\ dependable(z)' /\ ~inPipe(z)
  <2>1. pending(z)' /\ z \in Entries
    BY <1>3
  <2>2. ~inPipe(z)
    <3>1. SUFFICES ASSUME NEW k \in 1..Latency, pipe[k] = z PROVE FALSE
      BY DEF inPipe
    <3>2. k # Latency
      BY <1>3, <3>1 DEF tagged
    <3>3. k < Latency /\ k + 1 \in 1..Latency
      BY <3>2, DepsAssumption
    <3>4. QED
      BY <1>3, <3>1, <3>3, PipeIs DEF inPipe
  <2>3. dependable(z)
    <3>1. entry[z].valid /\ (entry[z].op = "Initial" => ~entry[z].setting /\ ~entry[z].dont)
      BY <1>0, <1>3, <2>1 DEF pending, Phases, LetGo
    <3>2. ~entry[z].setting /\ ~entry[z].dont
      BY <1>3, <2>1, <2>2, <3>1, DepsAssumption DEF Order, Going, inPipe, pending, PipeOps
    <3>3. QED
      BY <3>1, <3>2 DEF dependable, clears
  <2>4. dependable(z)'
    <3>1. entry'[z].valid /\ (entry'[z].op = "Initial" => ~entry'[z].setting /\ ~entry'[z].dont)
      BY <2>1, LetGoKept DEF pending, LetGo
    <3>2. ~(\E k \in 2..Latency : pipe'[k] = z)
      BY <1>3, DepsAssumption DEF inPipe
    <3>3. ~entry'[z].setting /\ ~entry'[z].dont
      BY <2>1, <3>1, <3>2, GoingKept DEF Going, pending, PipeOps
    <3>4. QED
      BY <3>1, <3>3 DEF dependable, clears
  <2>5. QED
    BY <2>2, <2>3, <2>4
<1>4. ASSUME NEW k \in 1..Latency, pipe'[k] = x, \A n \in k..Latency : pipe'[n] # y
      PROVE  (y = i /\ x # y /\ i \in Free) \/ (pending(x) /\ pending(y) /\ Ahead(pos, x, y))
  <2>1. /\ x # i /\ x # y /\ pending(x)
        /\ \/ k = 1 /\ x = p /\ x \in Pickable
           \/ k \in 2..Latency /\ k - 1 \in 1..Latency /\ pipe[k - 1] = x
    <3>1. k \in k..Latency
      OBVIOUS
    <3>2. QED
      BY <1>1, <1>4, <3>1, PipeWas
  <2>2. CASE y = i /\ i \in Free
    BY <2>1, <2>2
  <2>3. CASE pending(y) /\ y # tagged /\ y # i
    <3>1. CASE k \in 2..Latency /\ k - 1 \in 1..Latency /\ pipe[k - 1] = x
      <4>1. SUFFICES ASSUME NEW n \in (k - 1)..Latency, pipe[n] = y PROVE FALSE
        BY <2>1, <2>3, <3>1 DEF Ahead
      <4>2. n # Latency
        BY <2>3, <4>1 DEF tagged
      <4>3. n \in 1..Latency /\ n < Latency /\ n + 1 \in k..Latency
        BY <3>1, <4>2, DepsAssumption
      <4>4. QED
        BY <1>4, <4>1, <4>3, PipeIs
    <3>2. CASE k = 1 /\ x = p /\ x \in Pickable
      <4>1. /\ dependable(x) /\ ~inPipe(x)
            /\ \A z \in Entries : Listed(x, z) => pos[x] <= pos[z]
        BY <3>2, PickedIs DEF Order
      <4>2. ~inPipe(y)'
        BY <1>4, <3>2 DEF inPipe
      <4>3. dependable(y) /\ ~inPipe(y)
        BY <1>3, <2>3, <4>2
      <4>4. Listed(x, y) /\ pos[x] <= pos[y]
        BY <1>1, <2>1, <2>3, <4>1, <4>3 DEF Listed
      <4>5. pos[x] # pos[y]
        BY <2>1, <4>4 DEF State, Lists, Ordered
      <4>6. pos[x] < pos[y]
        BY <4>4, <4>5
      <4>7. QED
        BY <2>1, <2>3, <4>1, <4>3, <4>6 DEF Ahead
    <3>3. QED
      BY <2>1, <3>1, <3>2
  <2>4. QED
    BY <1>1, <2>2, <2>3
<1>5. ASSUME ~inPipe(x)', ~inPipe(y)', posn[x] < posn[y]
      PROVE  (y = i /\ x # y /\ i \in Free) \/ (pending(x) /\ pending(y) /\ Ahead(pos, x, y))
  <2>1. x # y
    BY <1>5
  <2>2. CASE y = i /\ i \in Free
    BY <2>1, <2>2
  <2>3. CASE pending(y) /\ y # tagged /\ y # i
    <3>1. dependable(y) /\ dependable(y)' /\ ~inPipe(y)
      BY <1>3, <1>5, <2>3
    <3>2. CASE x = i /\ i \in Free
      <4>1. entry'[i].line = new.line
        BY <3>2, NewIs
      <4>2. posn[y] < posn[i]
        BY <2>3, <3>1, <3>2, <4>1 DEF Places
      <4>3. QED
        BY <1>5, <3>2, <4>2
    <3>3. CASE pending(x) /\ x # tagged /\ x # i
      <4>1. dependable(x) /\ dependable(x)' /\ ~inPipe(x)
        BY <1>3, <1>5, <3>3
      <4>2. Member(x) /\ Member(y) /\ Listed(x, y) /\ Listed(y, x)
        BY <1>1, <2>3, <3>1, <3>3, <4>1 DEF Member, Listed
      <4>3. ~(pos[y] < pos[x])
        BY <1>5, <4>2 DEF Places
      <4>4. pos[x] # pos[y]
        BY <2>1, <4>2 DEF State, Lists, Ordered
      <4>5. pos[x] < pos[y]
        BY <4>3, <4>4
      <4>6. QED
        BY <2>3, <3>1, <3>3, <4>1, <4>5 DEF Ahead
    <3>4. QED
      BY <1>1, <3>2, <3>3
  <2>4. QED
    BY <1>1, <2>2, <2>3
<1>6. QED
  BY <1>2, <1>4, <1>5

\* What a request finds stays between what its line holds and the last write accepted.
LEMMA BetweenKept ==
    ASSUME PipeTiming, NEW pos \in [Entries -> Nat], State(pos), Order(pos), NEW c, Content(pos, c),
           NEW i, NEW new, NEW p, NEW m, NEW r, NEW d, NEW done,
           Clock(i, new, p, m, r, d, done), Records(i, new), Counts, NEW cn, cn = Seen(c)
    PROVE  Between(cn)'
<1>0. Typed /\ c \in [Lines -> Words]
  BY DEF State, Content
<1> SUFFICES ASSUME NEW x \in Entries, NEW q \in Quads, pending(x)'
             PROVE  /\ cn[entry'[x].line][q] <= entry'[x].due[q]
                    /\ entry'[x].due[q] <= written'[entry'[x].line][q]
                    /\ entry'[x].kind = "Write" /\ q \in entry'[x].mask =>
                          cn[entry'[x].line][q] < entry'[x].due[q]
  BY DEF Between, puts
<1>1. CASE x = i /\ i \in Free
  <2> DEFINE l == entry'[x].line
  <2>1. l \in Lines /\ entry'[x].due[q] <= written'[l][q]
        /\ entry'[x].due[q] = IF entry'[x].kind = "Write" /\ q \in entry'[x].mask
                              THEN written[l][q] + 1 ELSE written[l][q]
    BY <1>0, <1>1, NewDue
  <2>2. cn[l][q] <= written[l][q] /\ cn[l][q] \in Int /\ written[l][q] \in Int
    <3>1. cn \in [Lines -> Words] /\ cn[l][q] <= written[l][q]
      BY <2>1, SeenIs
    <3>2. QED
      BY <1>0, <2>1, <3>1, Numbers
  <2>3. QED
    BY <2>1, <2>2
<1>2. CASE /\ pending(x) /\ x # tagged
           /\ entry'[x].line = entry[x].line /\ entry'[x].kind = entry[x].kind
           /\ entry'[x].mask = entry[x].mask /\ entry'[x].due = entry[x].due
  <2> DEFINE l == entry[x].line  b == entry[x].due[q]
  <2>1. l \in Lines /\ b \in Int /\ c[l][q] \in Int /\ written[l][q] \in Int
    BY <1>0, <1>2, Numbers DEF pending
  <2>2. /\ c[l][q] <= b /\ b <= written[l][q]
        /\ puts(x, q) => c[l][q] < b
    BY <1>2 DEF Content, Between
  <2>3. written[l][q] <= written'[l][q] /\ written'[l][q] \in Int
    <3>1. written' \in [Lines -> [Quads -> Int]]
      BY DEF Counts, Words
    <3>2. QED
      BY <1>0, <2>1, <3>1, NewDue
  <2>4. CASE tagged # None /\ ~fill /\ l = entry[tagged].line
    <3>1. cn[l] = entry[tagged].due
      BY <2>1, <2>4, SeenIs
    <3>2. /\ entry[tagged].due[q] <= b
          /\ puts(x, q) => entry[tagged].due[q] < b
      BY <1>2, <2>4, TaggedDue
    <3>3. QED
      BY <1>2, <2>1, <2>2, <2>3, <3>1, <3>2 DEF puts
  <2>5. CASE ~(tagged # None /\ ~fill /\ l = entry[tagged].line)
    <3>1. cn[l] = c[l]
      BY <2>1, <2>5, SeenIs
    <3>2. QED
      BY <1>2, <2>1, <2>2, <2>3, <3>1 DEF puts
  <2>6. QED
    BY <2>4, <2>5
<1>3. QED
  BY <1>1, <1>2, PendingWas

\* Who comes first keeps finding less.
LEMMA AscendingKept ==
    ASSUME PipeTiming, NEW pos \in [Entries -> Nat], State(pos), Order(pos), NEW c, Content(pos, c),
           NEW i, NEW new, NEW p, NEW m, NEW r, NEW d, NEW done,
           Clock(i, new, p, m, r, d, done), Records(i, new), Counts,
           NEW posn \in [Entries -> Nat], Places(pos, posn, i, new)
    PROVE  Ascending(posn)'
<1>0. Typed /\ c \in [Lines -> Words]
  BY DEF State, Content
<1> SUFFICES ASSUME NEW x \in Entries, NEW y \in Entries, NEW q \in Quads, pending(x)', pending(y)',
                    entry'[x].line = entry'[y].line, Ahead(posn, x, y)'
             PROVE  /\ entry'[x].due[q] <= entry'[y].due[q]
                    /\ entry'[y].kind = "Write" /\ q \in entry'[y].mask => entry'[x].due[q] < entry'[y].due[q]
  BY DEF Ascending, puts
<1>1. (y = i /\ x # y /\ i \in Free) \/ (pending(x) /\ pending(y) /\ Ahead(pos, x, y))
  BY AheadWas
<1>2. /\ pending(x) /\ entry'[x].line = entry[x].line /\ entry'[x].due = entry[x].due
      /\ entry[x].due[q] \in Int
  <2>1. ~(x = i /\ i \in Free)
    BY <1>1 DEF Free, pending
  <2>2. QED
    BY <1>0, <2>1, Numbers, PendingWas
<1>3. CASE y = i /\ i \in Free
  <2> DEFINE l == entry[x].line
  <2>1. /\ entry'[y].line = l /\ l \in Lines
        /\ entry'[y].due[q] = IF entry'[y].kind = "Write" /\ q \in entry'[y].mask
                              THEN written[l][q] + 1 ELSE written[l][q]
    <3>1. /\ entry'[y].line \in Lines
          /\ entry'[y].due[q] = IF entry'[y].kind = "Write" /\ q \in entry'[y].mask
                                THEN written[entry'[y].line][q] + 1 ELSE written[entry'[y].line][q]
      BY <1>0, <1>3, NewDue
    <3>2. entry'[y].line = l
      BY <1>2
    <3>3. QED
      BY <3>1, <3>2
  <2>2. entry[x].due[q] <= written[l][q] /\ written[l][q] \in Int
    BY <1>0, <1>2, <2>1, Numbers DEF Content, Between
  <2>3. QED
    BY <1>2, <2>1, <2>2
<1>4. CASE pending(x) /\ pending(y) /\ Ahead(pos, x, y)
  <2>1. /\ entry'[y].line = entry[y].line /\ entry'[y].kind = entry[y].kind
        /\ entry'[y].mask = entry[y].mask /\ entry'[y].due = entry[y].due
    <3>1. ~(y = i /\ i \in Free)
      BY <1>4 DEF Free, pending
    <3>2. QED
      BY <3>1, PendingWas
  <2>2. /\ entry[x].due[q] <= entry[y].due[q]
        /\ puts(y, q) => entry[x].due[q] < entry[y].due[q]
    BY <1>2, <1>4, <2>1 DEF Content, Ascending
  <2>3. QED
    BY <1>2, <2>1, <2>2 DEF puts
<1>5. QED
  BY <1>1, <1>3, <1>4

\* What the lines are still to hold stays in the requests that have to see the tags.
LEMMA LeftKept ==
    ASSUME PipeTiming, NEW pos \in [Entries -> Nat], State(pos), Order(pos), NEW c, Content(pos, c),
           NEW i, NEW new, NEW p, NEW m, NEW r, NEW d, NEW done,
           Clock(i, new, p, m, r, d, done), Records(i, new), Counts, NEW cn, cn = Seen(c)
    PROVE  Left(cn)'
<1>0. Typed /\ c \in [Lines -> Words]
  BY DEF State, Content
<1> SUFFICES ASSUME NEW l \in Lines, NEW q \in Quads
             PROVE  /\ cn[l][q] <= written'[l][q]
                    /\ \A n \in Int : cn[l][q] < n /\ n <= written'[l][q] =>
                          \E x \in Entries : /\ pending(x)' /\ entry'[x].kind = "Write" /\ q \in entry'[x].mask
                                             /\ entry'[x].line = l /\ entry'[x].due[q] = n
  BY DEF Left, puts
<1>1. /\ cn \in [Lines -> Words] /\ c[l][q] <= cn[l][q] /\ cn[l][q] <= written[l][q]
      /\ tagged # None /\ ~fill /\ l = entry[tagged].line => cn[l] = entry[tagged].due
  BY SeenIs
<1>2. c[l][q] \in Int /\ cn[l][q] \in Int /\ written[l][q] \in Int
  BY <1>0, <1>1, Numbers
<1>3. written[l][q] <= written'[l][q] /\ written'[l][q] \in Int
  <2>1. written' \in [Lines -> [Quads -> Int]]
    BY DEF Counts, Words
  <2>2. QED
    BY <1>0, <2>1, NewDue
<1>4. ASSUME NEW n \in Int, cn[l][q] < n, n <= written'[l][q]
      PROVE  \E x \in Entries : /\ pending(x)' /\ entry'[x].kind = "Write" /\ q \in entry'[x].mask
                                /\ entry'[x].line = l /\ entry'[x].due[q] = n
  <2>1. CASE n <= written[l][q]
    <3>1. c[l][q] < n
      BY <1>1, <1>2, <1>4
    <3>2. PICK x \in Entries : pending(x) /\ puts(x, q) /\ entry[x].line = l /\ entry[x].due[q] = n
      BY <2>1, <3>1 DEF Content, Left
    <3>3. x # tagged
      <4>1. SUFFICES ASSUME x = tagged PROVE FALSE
        OBVIOUS
      <4>2. tagged # None /\ ~fill
        BY <3>2, <4>1, DepsAssumption DEF pending, fill
      <4>3. QED
        BY <1>1, <1>2, <1>4, <3>2, <4>1, <4>2
    <3>4. QED
      BY <3>2, <3>3, PendingStays DEF puts
  <2>2. CASE written[l][q] < n
    <3>1. written'[l][q] # written[l][q]
      BY <1>2, <1>3, <1>4, <2>2
    <3>2. /\ i \in Free /\ entry'[i].line = l /\ entry'[i].kind = "Write" /\ q \in entry'[i].mask
          /\ written'[l][q] = written[l][q] + 1
      BY <1>0, <3>1, NewDue
    <3>3. n = written[l][q] + 1
      BY <1>2, <1>4, <2>2, <3>2
    <3>4. /\ i \in Entries /\ entry'[i].op = "Initial" /\ entry'[i].valid
          /\ entry'[i].due[q] = written[l][q] + 1
      BY <1>0, <3>2, NewDue
    <3>5. QED
      BY <3>2, <3>3, <3>4 DEF pending
  <2>3. QED
    BY <1>2, <1>4, <2>1, <2>2
<1>5. QED
  BY <1>1, <1>2, <1>3, <1>4

\* Who is settled found what its line holds, and its line goes on to hold it.
LEMMA FoundKept ==
    ASSUME PipeTiming, NEW pos \in [Entries -> Nat], State(pos), Order(pos), NEW c, Content(pos, c),
           NEW i, NEW new, NEW p, NEW m, NEW r, NEW d, NEW done,
           Clock(i, new, p, m, r, d, done), NEW cn, cn = Seen(c)
    PROVE  Found(cn)'
<1> SUFFICES ASSUME NEW x \in Entries, settled(x)' PROVE entry'[x].due = cn[entry'[x].line]
  BY DEF Found
<1>1. /\ entry[x].valid /\ entry'[x].line = entry[x].line /\ entry'[x].due = entry[x].due
      /\ \/ settled(x) /\ x # tagged
         \/ x = tagged /\ tagged # None /\ ~fill
  BY SettledWas
<1>2. entry[x].line \in Lines
  BY <1>1 DEF State, Typed
<1>3. CASE settled(x) /\ x # tagged
  <2>1. tagged # None => entry[tagged].line # entry[x].line
    BY <1>3, TaggedFirst
  <2>2. cn[entry[x].line] = c[entry[x].line]
    BY <1>2, <2>1, SeenIs
  <2>3. QED
    BY <1>1, <1>3, <2>2 DEF Content, Found
<1>4. CASE x = tagged /\ tagged # None /\ ~fill
  BY <1>1, <1>2, <1>4, SeenIs
<1>5. QED
  BY <1>1, <1>3, <1>4

\* What the lines hold is kept.
LEMMA ContentKept ==
    ASSUME PipeTiming, NEW pos \in [Entries -> Nat], State(pos), Order(pos), NEW c, Content(pos, c),
           NEW i, NEW new, NEW p, NEW m, NEW r, NEW d, NEW done,
           Clock(i, new, p, m, r, d, done), Records(i, new), Counts,
           NEW posn \in [Entries -> Nat], Places(pos, posn, i, new), NEW cn, cn = Seen(c)
    PROVE  Content(posn, cn)'
<1>1. cn \in [Lines -> Words]
  BY SeenIs
<1>2. Between(cn)' /\ Left(cn)'
  BY BetweenKept, LeftKept
<1>3. Ascending(posn)'
  BY AscendingKept
<1>4. Found(cn)'
  BY FoundKept
<1>5. Masked'
  <2>1. SUFFICES ASSUME NEW x \in Entries, pending(x)', entry'[x].kind = "Write" PROVE entry'[x].mask \in Masks
    BY DEF Masked
  <2>2. CASE x = i /\ i \in Free
    BY <2>1, <2>2, NewDue DEF State
  <2>3. CASE ~(x = i /\ i \in Free)
    BY <2>1, <2>3, PendingWas DEF Content, Masked
  <2>4. QED
    BY <2>2, <2>3
<1>6. QED
  BY <1>1, <1>2, <1>3, <1>4, <1>5 DEF Content

-----------------------------------------------------------------------------
(* Where the data of a line is: what is dirty in the way is there, what is *)
(* not is in the last that took it away, or in memory.                     *)

WayHolds(c) ==
  \A q \in Quads : way.line # None /\ (way.dirty = {} \/ q \in way.dirty) => way.data[q] = c[way.line][q]
\* v is on its way to memory with quad q of line l.
carries(v, l, q) == writeBack(v, l) /\ q \in entry[v].mask
lastOf(pos, v, l, q) == carries(v, l, q) /\ \A w \in Entries : carries(w, l, q) => pos[w] <= pos[v]
StoreHolds(pos, c) ==
  \A l \in Lines, q \in Quads : ~(way.line = l /\ q \in way.dirty) =>
    /\ \A v \in Entries : lastOf(pos, v, l, q) => entry[v].data[q] = c[l][q]
    /\ (\A v \in Entries : ~carries(v, l, q)) => memory[l][q] = c[l][q]
\* A fill brings what the line holds, and a read that hit has what it was to return.
FillHolds(c) == \A i \in Entries : entry[i].valid /\ entry[i].op = "Fill" => entry[i].data = c[entry[i].line]
HitHolds == \A i \in Entries : entry[i].valid /\ entry[i].op = "Hit" => entry[i].data = entry[i].due
\* An evict or a flush that has let go left nothing behind that memory lacks.
CleanHolds(c) ==
  \A i \in Entries, q \in Quads :
    entry[i].valid /\ entry[i].op = "Done" /\ cleanUp(i) /\ ~dependable(i) =>
      /\ entry[i].due[q] <= memory[entry[i].line][q] /\ entry[i].due[q] <= c[entry[i].line][q]
      /\ \A v \in Entries : carries(v, entry[i].line, q) => entry[i].due[q] <= entry[v].data[q]
Storage(pos, c) == WayHolds(c) /\ StoreHolds(pos, c) /\ FillHolds(c) /\ HitHolds /\ CleanHolds(c)

\* But for a write that is tagged, the lines hold what they held.
LEMMA SeenSame ==
    ASSUME PipeTiming, NEW pos \in [Entries -> Nat], State(pos), Order(pos), NEW c, Content(pos, c),
           NEW cn, cn = Seen(c), NEW l \in Lines, NEW q \in Quads,
           tagged = None \/ fill \/ entry[tagged].line # l \/ ~puts(tagged, q)
    PROVE  cn[l][q] = c[l][q]
<1>1. CASE tagged # None /\ ~fill /\ l = entry[tagged].line
  <2>1. cn[l] = entry[tagged].due
    BY <1>1, SeenIs
  <2>2. entry[tagged].due[q] = c[l][q]
    BY <1>1, TaggedDue
  <2>3. QED
    BY <2>1, <2>2
<1>2. CASE ~(tagged # None /\ ~fill /\ l = entry[tagged].line)
  BY <1>2, SeenIs
<1>3. QED
  BY <1>1, <1>2

\* What the way has is what its line holds.
LEMMA WayHoldsKept ==
    ASSUME PipeTiming, NEW pos \in [Entries -> Nat], State(pos), Order(pos),
           NEW c, Content(pos, c), Storage(pos, c),
           NEW i, NEW new, NEW p, NEW m, NEW r, NEW d, NEW done,
           Clock(i, new, p, m, r, d, done), NEW cn, cn = Seen(c)
    PROVE  WayHolds(cn)'
<1> SUFFICES ASSUME NEW q \in Quads, way'.line # None, way'.dirty = {} \/ q \in way'.dirty
             PROVE  way'.data[q] = cn[way'.line][q]
  BY DEF WayHolds
<1>0. Typed /\ WayHolds(c) /\ FillHolds(c) /\ Invalid.line = None
  BY DEF State, Storage, Invalid
<1>1. way.line \in Lines \union {None} /\ way.dirty \subseteq Quads
  BY <1>0 DEF Typed, WayType
<1>2. CASE way' = way
  <2>1. way.line \in Lines /\ way.data[q] = c[way.line][q]
    BY <1>0, <1>1, <1>2 DEF WayHolds
  <2>2. tagged = None \/ fill \/ entry[tagged].line # way.line \/ ~puts(tagged, q)
    <3>1. SUFFICES ASSUME tagged # None, ~fill, entry[tagged].line = way.line, puts(tagged, q) PROVE FALSE
      OBVIOUS
    <3>2. tagHit /\ entry[tagged].kind = "Write"
      BY <3>1 DEF tagHit, puts
    <3>3. /\ way'.dirty = IF way.dirty = {} THEN Quads ELSE way.dirty \union entry[tagged].mask
          /\ way'.data = Overlay(way.data, entry[tagged].due, entry[tagged].mask)
      BY <3>1, <3>2, WayIs
    <3>4. way.data[q] = entry[tagged].due[q]
      BY <1>2, <3>1, <3>3 DEF Overlay, puts
    <3>5. c[way.line][q] < entry[tagged].due[q]
      BY <3>1, TaggedDue DEF Content, Between
    <3>6. c[way.line][q] \in Int
      BY <1>0, <2>1, Numbers DEF Content
    <3>7. QED
      BY <2>1, <3>4, <3>5, <3>6
  <2>3. QED
    BY <1>2, <2>1, <2>2, SeenSame
<1>3. CASE tagged # None /\ fill
  <2>1. /\ way'.line = entry[tagged].line /\ way'.data = entry[tagged].data
    BY <1>3, WayIs
  <2>2. tagged \in Entries /\ entry[tagged].valid /\ entry[tagged].line \in Lines
    BY <1>3, TaggedFirst DEF State, Typed
  <2>3. entry[tagged].data = c[entry[tagged].line]
    BY <1>0, <1>3, <2>2 DEF FillHolds, fill
  <2>4. cn[entry[tagged].line] = c[entry[tagged].line]
    BY <1>3, <2>2, SeenIs
  <2>5. QED
    BY <2>1, <2>3, <2>4
<1>4. CASE tagged # None /\ ~fill /\ entry[tagged].kind = "Write"
  <2> DEFINE e == entry[tagged]
  <2>1. /\ tagged \in Entries /\ pending(tagged) /\ e.line \in Lines
        /\ ~puts(tagged, q) => e.due[q] = c[e.line][q]
    BY <1>4, TaggedDue
  <2>2. cn[e.line] = e.due
    BY <1>4, <2>1, SeenIs
  <2>3. CASE tagHit
    <3>1. /\ way.line = e.line /\ way'.line = e.line
          /\ way'.dirty = IF way.dirty = {} THEN Quads ELSE way.dirty \union e.mask
          /\ way'.data = Overlay(way.data, e.due, e.mask)
      BY <1>4, <2>3, WayIs DEF tagHit
    <3>2. way'.data[q] = IF q \in e.mask THEN e.due[q] ELSE way.data[q]
      BY <3>1 DEF Overlay
    <3>3. CASE q \in e.mask
      BY <2>2, <3>1, <3>2, <3>3
    <3>4. CASE q \notin e.mask
      <4>1. way.dirty = {} \/ q \in way.dirty
        BY <3>1, <3>4
      <4>2. way.data[q] = c[e.line][q]
        BY <1>0, <2>1, <3>1, <4>1, DepsAssumption DEF WayHolds
      <4>3. QED
        BY <2>1, <2>2, <3>1, <3>2, <3>4, <4>2 DEF puts
    <3>5. QED
      BY <3>3, <3>4
  <2>4. CASE ~tagHit
    <3>1. way'.line = e.line /\ way'.dirty = e.mask /\ way'.data = Overlay(Junk, e.due, e.mask)
      BY <1>4, <2>4, WayIs
    <3>2. e.mask # {}
      BY <1>4, <2>1, DepsAssumption DEF Content, Masked
    <3>3. q \in e.mask
      BY <3>1, <3>2
    <3>4. way'.data[q] = e.due[q]
      BY <3>1, <3>3 DEF Overlay
    <3>5. QED
      BY <2>2, <3>1, <3>4
  <2>5. QED
    BY <2>3, <2>4
<1>5. CASE tagged # None /\ ~fill /\ entry[tagged].kind = "Flush" /\ tagHit /\ ~partial /\ way' # way
  <2>1. way'.line = way.line /\ way'.data = way.data
    BY <1>5, WayIs
  <2>2. way.dirty = {} \/ q \in way.dirty
    BY <1>5 DEF partial
  <2>3. way.line \in Lines /\ way.data[q] = c[way.line][q]
    BY <1>0, <1>1, <2>1, <2>2 DEF WayHolds
  <2>4. ~puts(tagged, q)
    BY <1>5 DEF puts
  <2>5. QED
    BY <2>1, <2>3, <2>4, SeenSame
<1>6. way' = way \/ way' = Invalid \/ (tagged # None /\ (fill \/ entry[tagged].kind = "Write"))
      \/ (tagged # None /\ ~fill /\ entry[tagged].kind = "Flush" /\ tagHit /\ ~partial)
  <2>1. tagged # None => entry[tagged].kind \in {"Read", "Write", "Evict", "Flush"}
    BY WayIs
  <2>2. CASE tagged = None
    BY <2>2, WayIs
  <2>3. CASE tagged # None /\ ~fill /\ entry[tagged].kind = "Read"
    BY <2>3, WayIs
  <2>4. CASE tagged # None /\ ~fill /\ entry[tagged].kind = "Evict"
    BY <2>4, WayIs
  <2>5. CASE tagged # None /\ ~fill /\ entry[tagged].kind = "Flush"
    BY <2>5, WayIs
  <2>6. QED
    BY <2>1, <2>2, <2>3, <2>4, <2>5
<1>7. QED
  BY <1>0, <1>2, <1>3, <1>4, <1>5, <1>6

\* What is dirty in the way stays so until a victim takes it away.
LEMMA DirtyStays ==
    ASSUME PipeTiming, NEW pos \in [Entries -> Nat], State(pos),
           NEW i, NEW new, NEW p, NEW m, NEW r, NEW d, NEW done,
           Clock(i, new, p, m, r, d, done), NEW q \in way.dirty, ~tagVictim
    PROVE  way'.line = way.line /\ q \in way'.dirty
<1>1. tagged # None => entry[tagged].kind \in {"Read", "Write", "Evict", "Flush"}
  BY WayIs
<1>2. way.dirty # {}
  OBVIOUS
<1>3. CASE tagged = None
  BY <1>3, WayIs
<1>4. CASE tagged # None /\ tagHit
  <2>1. way.line = entry[tagged].line
    BY <1>4 DEF tagHit
  <2>2. CASE fill
    BY <1>4, <2>1, <2>2, WayIs
  <2>3. CASE ~fill /\ entry[tagged].kind = "Write"
    BY <1>2, <1>4, <2>3, WayIs
  <2>4. CASE ~fill /\ entry[tagged].kind = "Read"
    <3>1. ~partial
      BY <1>4, <2>4 DEF tagVictim
    <3>2. QED
      BY <1>4, <2>4, <3>1, WayIs
  <2>5. ~(~fill /\ entry[tagged].kind \in {"Evict", "Flush"})
    BY <1>2, <1>4 DEF tagVictim
  <2>6. QED
    BY <1>1, <1>4, <2>2, <2>3, <2>4, <2>5
<1>5. CASE tagged # None /\ ~tagHit
  <2>1. ~fill /\ entry[tagged].kind # "Write"
    BY <1>2, <1>5 DEF tagVictim
  <2>2. way' = way
    <3>1. CASE entry[tagged].kind = "Read"
      BY <1>5, <2>1, <3>1, WayIs
    <3>2. CASE entry[tagged].kind = "Evict"
      BY <1>5, <2>1, <3>2, WayIs
    <3>3. CASE entry[tagged].kind = "Flush"
      BY <1>5, <2>1, <3>3, WayIs
    <3>4. QED
      BY <1>1, <1>5, <2>1, <3>1, <3>2, <3>3
  <2>3. QED
    BY <2>2
<1>6. QED
  BY <1>3, <1>4, <1>5

\* What the mesh takes to memory.
LEMMA MemoryIs ==
    ASSUME PipeTiming, NEW pos \in [Entries -> Nat], State(pos),
           NEW i, NEW new, NEW p, NEW m, NEW r, NEW d, NEW done,
           Clock(i, new, p, m, r, d, done), NEW l \in Lines, NEW q \in Quads
    PROVE  /\ r # None => r \in Entries /\ entry[r].valid /\ entry[r].dep = None
           /\ memory'[l][q] = IF r # None /\ carries(r, l, q) THEN entry[r].data[q] ELSE memory[l][q]
<1>1. r # None => r \in Entries /\ entry[r].valid /\ entry[r].dep = None
  BY DEF Clock, Answerable, State, Phases, AtTheMesh, Typed
<1>2. memory' = IF r # None /\ entry[r].op \in {"MeshWrite", "MeshVictim"}
                THEN [memory EXCEPT ![entry[r].line] = Overlay(@, entry[r].data, entry[r].mask)]
                ELSE memory
  BY DEF Clock, Edge
<1>3. memory \in [Lines -> Words]
  BY DEF State, Typed
<1>4. CASE r # None /\ entry[r].op \in {"MeshWrite", "MeshVictim"}
  <2>1. memory'[l] = IF entry[r].line = l THEN Overlay(memory[l], entry[r].data, entry[r].mask) ELSE memory[l]
    BY <1>2, <1>3, <1>4
  <2>2. Overlay(memory[l], entry[r].data, entry[r].mask)[q] =
           IF q \in entry[r].mask THEN entry[r].data[q] ELSE memory[l][q]
    BY DEF Overlay
  <2>3. QED
    BY <1>1, <1>4, <2>1, <2>2 DEF carries, writeBack
<1>5. CASE ~(r # None /\ entry[r].op \in {"MeshWrite", "MeshVictim"})
  BY <1>1, <1>2, <1>5 DEF carries, writeBack
<1>6. QED
  BY <1>4, <1>5

\* A write that is tagged leaves its quads dirty in the way.
LEMMA PutIsDirty ==
    ASSUME PipeTiming, NEW pos \in [Entries -> Nat], State(pos), Order(pos), NEW c, Content(pos, c),
           NEW i, NEW new, NEW p, NEW m, NEW r, NEW d, NEW done,
           Clock(i, new, p, m, r, d, done), NEW cn, cn = Seen(c), NEW l \in Lines, NEW q \in Quads,
           ~(way'.line = l /\ q \in way'.dirty)
    PROVE  cn[l][q] = c[l][q]
<1> SUFFICES ASSUME tagged # None, ~fill, entry[tagged].line = l, puts(tagged, q) PROVE FALSE
  BY SeenSame
<1>1. entry[tagged].kind = "Write" /\ q \in entry[tagged].mask
  BY DEF puts
<1>2. way'.line = l
  BY <1>1, WayIs DEF tagHit
<1>3. q \in way'.dirty
  BY <1>1, WayIs
<1>4. QED
  BY <1>2, <1>3

\* A victim is the last of its line that takes data to memory.
LEMMA VictimIsLast ==
    ASSUME PipeTiming, NEW pos \in [Entries -> Nat], State(pos), Order(pos),
           NEW i, NEW new, NEW p, NEW m, NEW r, NEW d, NEW done,
           Clock(i, new, p, m, r, d, done),
           NEW posn \in [Entries -> Nat], Places(pos, posn, i, new),
           NEW t, t = tagged, tagVictim, NEW l, l = way.line
    PROVE  /\ t \in Entries /\ writeBack(t, l)' /\ entry'[t].mask = way.dirty /\ entry'[t].data = way.data
           /\ \A v \in Entries : writeBack(v, l) /\ v # r => posn[v] < posn[t]
<1>0. Typed /\ Phases /\ r \in Answerable \union {None} /\ d \in Reading \union {None} /\ Going
  BY DEF State, Clock, Order
<1>1. t \in Entries /\ entry[t].valid /\ tagged # None /\ entry[t].op \in PipeOps
  BY <1>0, VictimIs, TaggedIs
<1>2. t \notin done
  BY <1>1 DEF Clock, Finishable, finishable, PipeOps
<1>3. /\ entry'[t].valid /\ entry'[t].op = nextOp(t, r, d)
      /\ entry'[t].line = IF moves(t) THEN way.line ELSE entry[t].line
      /\ entry'[t].mask = IF isVictim(t) THEN way.dirty ELSE entry[t].mask
      /\ entry'[t].data = dataNext(t, r)
  BY <1>0, <1>1, <1>2, Stays
<1>4. isVictim(t) /\ (moves(t) \/ entry[t].line = way.line)
  BY <1>1 DEF isVictim, moves, tagHit
<1>5. nextOp(t, r, d) \in {"MeshVictim", "MeshWrite"}
  <2>1. t = tagged =>
           nextOp(t, r, d) = IF tagVictim
                             THEN IF fill \/ entry[t].kind = "Write" THEN "MeshVictim" ELSE "MeshWrite"
                             ELSE IF fill \/ entry[t].kind # "Read" THEN "Done"
                                  ELSE IF tagHit THEN "Hit" ELSE "MeshRead"
    BY <1>0, <1>1, NextOpIs
  <2>2. QED
    BY <2>1
<1>6. entry'[t].line = way.line /\ entry'[t].mask = way.dirty /\ entry'[t].data = way.data
  BY <1>3, <1>4 DEF dataNext
<1>7. writeBack(t, l)'
  BY <1>3, <1>5, <1>6 DEF writeBack
<1>8. ASSUME NEW v \in Entries, writeBack(v, l), v # r
      PROVE  posn[v] < posn[t]
  <2>1. Member(v) /\ dependable(v) /\ entry[v].inMesh /\ entry[v].line = way.line
    BY <1>0, <1>8, WriteBackIs, WriteBackStays
  <2>2. CASE Mover
    BY <2>1, <2>2 DEF Places
  <2>3. CASE selfVictim
    <3>1. dependable(t) /\ ~entry[t].inMesh /\ entry[t].line = way.line
      BY <1>0, <2>3, VictimIs
    <3>2. Listed(v, t)
      BY <2>1, <3>1 DEF Listed
    <3>3. pos[v] < pos[t]
      BY <1>1, <2>1, <3>1, <3>2 DEF State, Lists, MeshParts
    <3>4. Member(t)
      BY <2>3, UpgradedStays DEF upgraded
    <3>5. QED
      BY <1>1, <2>1, <3>2, <3>3, <3>4 DEF Places
  <2>4. QED
    BY <2>2, <2>3 DEF Mover
<1>9. QED
  BY <1>1, <1>6, <1>7, <1>8

\* What takes a quad to memory did so a clock ago, or is the victim of this one ...
LEMMA CarriesWas ==
    ASSUME PipeTiming, NEW pos \in [Entries -> Nat], State(pos), Order(pos),
           NEW i, NEW new, NEW p, NEW m, NEW r, NEW d, NEW done,
           Clock(i, new, p, m, r, d, done),
           NEW v \in Entries, NEW l \in Lines, NEW q \in Quads, carries(v, l, q)'
    PROVE  \/ /\ carries(v, l, q) /\ v # r /\ Member(v) /\ entry'[v].data = entry[v].data
           \/ /\ v = tagged /\ tagVictim /\ way.line = l /\ q \in way.dirty
              /\ entry'[v].data = way.data
<1>1. writeBack(v, l)' /\ q \in entry'[v].mask
  BY DEF carries
<1>2. \/ /\ writeBack(v, l) /\ v # r /\ v # tagged /\ Member(v)
         /\ entry'[v].mask = entry[v].mask /\ entry'[v].data = entry[v].data
      \/ /\ v = tagged /\ tagVictim /\ way.line = l /\ way.dirty # {}
         /\ entry'[v].mask = way.dirty /\ entry'[v].data = way.data
  BY <1>1, WriteBackWas
<1>3. QED
  BY <1>1, <1>2 DEF carries

\* ... and goes on to do so until the mesh answers.
LEMMA CarriesStays ==
    ASSUME PipeTiming, NEW pos \in [Entries -> Nat], State(pos), Order(pos),
           NEW i, NEW new, NEW p, NEW m, NEW r, NEW d, NEW done,
           Clock(i, new, p, m, r, d, done),
           NEW v \in Entries, NEW l \in Lines, NEW q \in Quads, carries(v, l, q)
    PROVE  /\ dependable(v) /\ entry[v].line = l
           /\ v # r => carries(v, l, q)' /\ Member(v)
<1>1. writeBack(v, l) /\ q \in entry[v].mask
  BY DEF carries
<1>2. dependable(v) /\ entry[v].line = l
  BY <1>1, WriteBackIs DEF Order
<1>3. ASSUME v # r PROVE carries(v, l, q)' /\ Member(v)
  <2>1. writeBack(v, l)' /\ Member(v) /\ entry'[v].mask = entry[v].mask
    BY <1>1, <1>3, WriteBackStays
  <2>2. QED
    BY <1>1, <2>1 DEF carries
<1>4. QED
  BY <1>2, <1>3

\* What is not dirty in the way stays in the last that took it away, or in memory.
LEMMA StoreHoldsKept ==
    ASSUME PipeTiming, NEW pos \in [Entries -> Nat], State(pos), Order(pos),
           NEW c, Content(pos, c), Storage(pos, c),
           NEW i, NEW new, NEW p, NEW m, NEW r, NEW d, NEW done,
           Clock(i, new, p, m, r, d, done),
           NEW posn \in [Entries -> Nat], Places(pos, posn, i, new), NEW cn, cn = Seen(c)
    PROVE  StoreHolds(posn, cn)'
<1> SUFFICES ASSUME NEW l \in Lines, NEW q \in Quads, ~(way'.line = l /\ q \in way'.dirty)
             PROVE  /\ \A v \in Entries : lastOf(posn, v, l, q)' => entry'[v].data[q] = cn[l][q]
                    /\ (\A v \in Entries : ~carries(v, l, q)') => memory'[l][q] = cn[l][q]
  BY DEF StoreHolds
<1>1. cn[l][q] = c[l][q]
  BY PutIsDirty
<1>2. StoreHolds(pos, c) /\ WayHolds(c) /\ l # None
  BY DepsAssumption DEF Storage
<1>3. ASSUME NEW v \in Entries, lastOf(posn, v, l, q)'
      PROVE  carries(v, l, q)' /\ \A w \in Entries : carries(w, l, q)' => posn[w] <= posn[v]
  BY <1>3 DEF lastOf
<1>4. CASE tagVictim /\ way.line = l /\ q \in way.dirty
  <2>1. ASSUME NEW t, t = tagged
        PROVE  /\ t \in Entries /\ carries(t, l, q)' /\ entry'[t].data[q] = c[l][q]
               /\ \A v \in Entries : writeBack(v, l) /\ v # r => posn[v] < posn[t]
    <3>1. /\ t \in Entries /\ writeBack(t, l)' /\ entry'[t].mask = way.dirty /\ entry'[t].data = way.data
          /\ \A v \in Entries : writeBack(v, l) /\ v # r => posn[v] < posn[t]
      BY <1>4, <2>1, VictimIsLast
    <3>2. way.data[q] = c[l][q]
      BY <1>2, <1>4 DEF WayHolds
    <3>3. QED
      BY <1>4, <3>1, <3>2 DEF carries
  <2>2. PICK t : t = tagged
    OBVIOUS
  <2>3. ASSUME NEW v \in Entries, lastOf(posn, v, l, q)' PROVE v = t
    <3>1. posn[t] <= posn[v] /\ carries(v, l, q)'
      BY <1>3, <2>1, <2>2, <2>3
    <3>2. (carries(v, l, q) /\ v # r) \/ v = tagged
      BY <3>1, CarriesWas
    <3>3. CASE carries(v, l, q) /\ v # r
      <4>1. posn[v] < posn[t] /\ t \in Entries
        BY <2>1, <2>2, <3>3 DEF carries
      <4>2. QED
        BY <3>1, <4>1
    <3>4. QED
      BY <2>2, <3>2, <3>3
  <2>4. QED
    BY <1>1, <2>1, <2>2, <2>3
<1>5. CASE ~(tagVictim /\ way.line = l /\ q \in way.dirty)
  <2>1. ~(way.line = l /\ q \in way.dirty)
    <3>1. SUFFICES ASSUME way.line = l, q \in way.dirty, ~tagVictim PROVE FALSE
      BY <1>5
    <3>2. way'.line = way.line /\ q \in way'.dirty
      BY <3>1, DirtyStays
    <3>3. QED
      BY <3>1, <3>2
  <2>2. /\ \A v \in Entries : lastOf(pos, v, l, q) => entry[v].data[q] = c[l][q]
        /\ (\A v \in Entries : ~carries(v, l, q)) => memory[l][q] = c[l][q]
    BY <1>2, <2>1 DEF StoreHolds
  <2>3. ASSUME NEW v \in Entries, lastOf(posn, v, l, q)'
        PROVE  entry'[v].data[q] = c[l][q]
    <3>1. carries(v, l, q) /\ v # r /\ Member(v) /\ entry'[v].data = entry[v].data
      BY <1>3, <1>5, <2>3, CarriesWas
    <3>2. ASSUME NEW w \in Entries, carries(w, l, q) PROVE pos[w] <= pos[v]
      <4>1. Listed(w, v) /\ Listed(v, w)
        BY <3>1, <3>2, CarriesStays DEF Listed
      <4>2. CASE w = r
        <5>1. ~Waits(w)
          BY <4>2, MemoryIs, DepsAssumption DEF Waits
        <5>2. QED
          BY <4>1, <5>1 DEF State, Lists, Ordered
      <4>3. CASE w # r
        <5>1. carries(w, l, q)' /\ Member(w)
          BY <3>2, <4>3, CarriesStays
        <5>2. posn[w] <= posn[v]
          BY <1>3, <2>3, <5>1
        <5>3. pos[v] < pos[w] => posn[v] < posn[w]
          BY <3>1, <4>1, <5>1 DEF Places
        <5>4. QED
          BY <5>2, <5>3
      <4>4. QED
        BY <4>2, <4>3
    <3>3. lastOf(pos, v, l, q)
      BY <3>1, <3>2 DEF lastOf
    <3>4. QED
      BY <2>2, <3>1, <3>3
  <2>4. ASSUME \A v \in Entries : ~carries(v, l, q)'
        PROVE  memory'[l][q] = c[l][q]
    <3>1. \A v \in Entries : carries(v, l, q) => v = r
      BY <2>4, CarriesStays
    <3>2. CASE r # None /\ carries(r, l, q)
      <4>1. r \in Entries /\ memory'[l][q] = entry[r].data[q]
        BY <3>2, MemoryIs
      <4>2. lastOf(pos, r, l, q)
        BY <3>1, <3>2, <4>1 DEF lastOf
      <4>3. QED
        BY <2>2, <4>1, <4>2
    <3>3. CASE ~(r # None /\ carries(r, l, q))
      <4>1. memory'[l][q] = memory[l][q]
        BY <3>3, MemoryIs
      <4>2. \A v \in Entries : ~carries(v, l, q)
        BY <3>1, <3>3, DepsAssumption
      <4>3. QED
        BY <2>2, <4>1, <4>2
    <3>4. QED
      BY <3>2, <3>3
  <2>5. QED
    BY <1>1, <2>3, <2>4
<1>6. QED
  BY <1>4, <1>5

\* When a request that is settled waits for nobody, memory has what its line holds,
\* or it takes it there itself.
LEMMA SettledSees ==
    ASSUME PipeTiming, NEW pos \in [Entries -> Nat], State(pos), Order(pos),
           NEW c, Storage(pos, c),
           NEW x \in Entries, settled(x), dependable(x), ~Waits(x), NEW l, l = entry[x].line, NEW q \in Quads
    PROVE  /\ l \in Lines
           /\ \A v \in Entries : carries(v, l, q) => v = x
           /\ carries(x, l, q) => entry[x].data[q] = c[l][q]
           /\ ~carries(x, l, q) => memory[l][q] = c[l][q]
<1>1. l \in Lines
  BY DEF State, Typed, settled
<1>2. ASSUME NEW v \in Entries, carries(v, l, q) PROVE v = x
  <2>1. SUFFICES ASSUME v # x PROVE FALSE
    OBVIOUS
  <2>2. writeBack(v, entry[x].line)
    BY <1>2 DEF carries
  <2>3. pos[v] < pos[x]
    BY <2>1, <2>2 DEF Order, Settles, BackFirst
  <2>4. dependable(v) /\ entry[v].line = entry[x].line
    BY <2>2, WriteBackIs DEF Order
  <2>5. pos[x] <= pos[v]
    BY <2>4 DEF State, Lists, Ordered, Listed
  <2>6. QED
    BY <2>3, <2>5
<1>3. ~(way.line = l /\ q \in way.dirty)
  BY DEF Order, Settles, CleanWay
<1>4. carries(x, l, q) => lastOf(pos, x, l, q)
  BY <1>2 DEF lastOf
<1>5. ~carries(x, l, q) => \A v \in Entries : ~carries(v, l, q)
  BY <1>2
<1>6. QED
  BY <1>1, <1>2, <1>3, <1>4, <1>5 DEF Storage, StoreHolds

\* A fill brings what its line holds.
LEMMA FillHoldsKept ==
    ASSUME PipeTiming, NEW pos \in [Entries -> Nat], State(pos), Order(pos),
           NEW c, Content(pos, c), Storage(pos, c),
           NEW i, NEW new, NEW p, NEW m, NEW r, NEW d, NEW done,
           Clock(i, new, p, m, r, d, done), NEW cn, cn = Seen(c)
    PROVE  FillHolds(cn)'
<1>0. Typed /\ Phases /\ r \in Answerable \union {None}
  BY DEF State, Clock
<1> SUFFICES ASSUME NEW x \in Entries, entry'[x].valid, entry'[x].op = "Fill"
             PROVE  entry'[x].data = cn[entry'[x].line]
  BY DEF FillHolds
<1>1. settled(x)'
  BY DEF settled
<1>2. /\ entry[x].valid /\ x \notin done /\ entry'[x].line = entry[x].line
      /\ (settled(x) /\ x # tagged) \/ (x = tagged /\ tagged # None)
  BY <1>1, SettledWas
<1>3. x # tagged
  BY <1>2, OpWas DEF PipeOps
<1>4. settled(x) /\ ((entry[x].op = "Fill" /\ x # r) \/ (entry[x].op = "MeshRead" /\ x = r))
  <2>1. entry[x].op \in PipeOps \union MeshOps \union {"Initial", "Hit", "Done"}
    BY <1>0 DEF Typed, EntryType, Ops
  <2>2. QED
    BY <1>2, <1>3, <2>1, OpWas DEF PipeOps, MeshOps
<1>5. entry[x].line \in Lines
  BY <1>0, <1>2 DEF Typed
<1>6. cn[entry[x].line] = c[entry[x].line]
  <2>1. tagged # None => entry[tagged].line # entry[x].line
    BY <1>3, <1>4, TaggedFirst
  <2>2. QED
    BY <1>5, <2>1, SeenIs
<1>7. entry'[x].data = dataNext(x, r)
  BY <1>0, <1>2, Stays
<1>8. CASE entry[x].op = "Fill" /\ x # r
  <2>1. dataNext(x, r) = entry[x].data
    BY <1>3, <1>8 DEF dataNext, isVictim
  <2>2. QED
    BY <1>2, <1>6, <1>7, <1>8, <2>1 DEF Storage, FillHolds
<1>9. CASE entry[x].op = "MeshRead" /\ x = r
  <2>1. dataNext(x, r) = memory[entry[x].line]
    BY <1>3, <1>9 DEF dataNext, isVictim
  <2>2. dependable(x) /\ ~Waits(x)
    <3>1. ~entry[x].setting /\ ~entry[x].dont
      BY <1>0, <1>2, <1>9 DEF Phases, LetGo, MeshOps
    <3>2. entry[x].dep = None
      BY <1>2, <1>9, OpWas
    <3>3. QED
      BY <1>2, <3>1, <3>2, DepsAssumption DEF dependable, clears, Waits
  <2>3. ASSUME NEW q \in Quads PROVE memory[entry[x].line][q] = c[entry[x].line][q]
    <3>1. ~carries(x, entry[x].line, q)
      BY <1>9 DEF carries, writeBack
    <3>2. QED
      BY <1>4, <2>2, <3>1, SettledSees
  <2>4. memory[entry[x].line] \in Words /\ c[entry[x].line] \in Words
    BY <1>0, <1>5 DEF Typed, Content
  <2>5. memory[entry[x].line] = c[entry[x].line]
    BY <2>3, <2>4 DEF Words
  <2>6. QED
    BY <1>2, <1>6, <1>7, <2>1, <2>5
<1>10. QED
  BY <1>4, <1>8, <1>9

\* A read that hits has what it is to return.
LEMMA HitHoldsKept ==
    ASSUME PipeTiming, NEW pos \in [Entries -> Nat], State(pos), Order(pos),
           NEW c, Content(pos, c), Storage(pos, c),
           NEW i, NEW new, NEW p, NEW m, NEW r, NEW d, NEW done,
           Clock(i, new, p, m, r, d, done)
    PROVE  HitHolds'
<1>0. Typed /\ Phases /\ r \in Answerable \union {None} /\ d \in Reading \union {None}
  BY DEF State, Clock
<1> SUFFICES ASSUME NEW x \in Entries, entry'[x].valid, entry'[x].op = "Hit"
             PROVE  entry'[x].data = entry'[x].due
  BY DEF HitHolds
<1>1. entry[x].valid /\ x \notin done
  <2>1. ~(\E kind \in Kinds, l \in Lines, mask \in SUBSET Quads, due \in Words :
             entry'[x] = fresh(kind, l, mask, due))
    BY FreshIs
  <2>2. QED
    BY <1>0, <2>1, Fate
<1>2. /\ entry'[x].op = nextOp(x, r, d) /\ entry'[x].due = entry[x].due
      /\ entry'[x].data = dataNext(x, r)
  BY <1>0, <1>1, Stays
<1>3. CASE x # tagged
  <2>1. entry[x].op = "Hit" /\ x # r
    <3>1. entry[x].op \in PipeOps \union MeshOps \union {"Initial", "Hit", "Done"}
      BY <1>0 DEF Typed, EntryType, Ops
    <3>2. QED
      BY <1>1, <1>3, <3>1, OpWas DEF PipeOps, MeshOps
  <2>2. dataNext(x, r) = entry[x].data
    BY <1>3, <2>1 DEF dataNext, isVictim
  <2>3. QED
    BY <1>1, <1>2, <2>1, <2>2 DEF Storage, HitHolds
<1>4. CASE x = tagged
  <2>1. x = tagged =>
           nextOp(x, r, d) = IF tagVictim
                             THEN IF fill \/ entry[x].kind = "Write" THEN "MeshVictim" ELSE "MeshWrite"
                             ELSE IF fill \/ entry[x].kind # "Read" THEN "Done"
                                  ELSE IF tagHit THEN "Hit" ELSE "MeshRead"
    BY <1>0, <1>1, NextOpIs
  <2>2. ~tagVictim /\ ~fill /\ entry[x].kind = "Read" /\ tagHit
    BY <1>2, <1>4, <2>1
  <2>3. tagged # None /\ way.line = entry[x].line /\ way.dirty \in {{}, Quads}
    BY <1>4, <2>2 DEF tagHit, tagVictim, partial
  <2>4. dataNext(x, r) = way.data
    BY <1>4, <2>2 DEF dataNext
  <2>5. /\ entry[x].line \in Lines /\ entry[x].due \in Words
        /\ \A q \in Quads : ~puts(x, q) => entry[x].due[q] = c[entry[x].line][q]
    BY <1>4, <2>2, <2>3, TaggedDue
  <2>6. ASSUME NEW q \in Quads PROVE way.data[q] = entry[x].due[q]
    <3>1. ~puts(x, q)
      BY <2>2 DEF puts
    <3>2. way.data[q] = c[way.line][q]
      BY <2>3, <2>5, DepsAssumption DEF Storage, WayHolds
    <3>3. QED
      BY <2>3, <2>5, <3>1, <3>2
  <2>7. way.data \in Words
    BY <1>0 DEF Typed, WayType
  <2>8. way.data = entry[x].due
    BY <2>5, <2>6, <2>7 DEF Words
  <2>9. QED
    BY <1>2, <2>4, <2>8
<1>5. QED
  BY <1>3, <1>4

\* An evict or a flush lets go when memory has what its line holds, and what takes
\* the line to memory later has no less.
LEMMA CleanHoldsKept ==
    ASSUME PipeTiming, NEW pos \in [Entries -> Nat], State(pos), Order(pos),
           NEW c, Content(pos, c), Storage(pos, c),
           NEW i, NEW new, NEW p, NEW m, NEW r, NEW d, NEW done,
           Clock(i, new, p, m, r, d, done), NEW cn, cn = Seen(c)
    PROVE  CleanHolds(cn)'
<1>0. /\ Typed /\ Phases /\ r \in Answerable \union {None} /\ d \in Reading \union {None}
      /\ c \in [Lines -> Words]
  BY DEF State, Clock, Content
<1> SUFFICES ASSUME NEW x \in Entries, NEW q \in Quads, entry'[x].valid, entry'[x].op = "Done",
                    entry'[x].kind \in {"Evict", "Flush"}, ~dependable(x)', NEW l, l = entry'[x].line
             PROVE  /\ entry'[x].due[q] <= memory'[l][q] /\ entry'[x].due[q] <= cn[l][q]
                    /\ \A v \in Entries : carries(v, l, q)' => entry'[x].due[q] <= entry'[v].data[q]
  <2>1. ASSUME NEW x \in Entries, NEW q \in Quads, entry'[x].valid, entry'[x].op = "Done",
               entry'[x].kind \in {"Evict", "Flush"}, ~dependable(x)'
        PROVE  /\ entry'[x].due[q] <= memory'[entry'[x].line][q] /\ entry'[x].due[q] <= cn[entry'[x].line][q]
               /\ \A v \in Entries : carries(v, entry[x].line, q)' => entry'[x].due[q] <= entry'[v].data[q]
    <3>1. ASSUME NEW l, l = entry'[x].line, NEW v \in Entries, carries(v, entry[x].line, q)'
          PROVE  carries(v, l, q)'
      BY <3>1 DEF carries, writeBack
    <3>2. QED
      BY <2>1, <3>1
  <2>2. QED
    BY <2>1 DEF CleanHolds, cleanUp
<1>1. entry[x].valid /\ x \notin done
  <2>1. ~(\E kind \in Kinds, ll \in Lines, mask \in SUBSET Quads, due \in Words :
             entry'[x] = fresh(kind, ll, mask, due))
    BY FreshIs
  <2>2. QED
    BY <1>0, <2>1, Fate
<1>2. /\ entry'[x].kind = entry[x].kind /\ entry'[x].due = entry[x].due
      /\ entry'[x].line = IF moves(x) THEN way.line ELSE entry[x].line
      /\ entry'[x].op = nextOp(x, r, d)
      /\ entry'[x].setting <=> (setsDont(x, r) \/ (entry[x].setting /\ ~moves(x)))
      /\ entry'[x].dont <=> (~moves(x) /\ (entry[x].dont \/ (entry[x].setting /\ entry[x].dep = None)))
  BY <1>0, <1>1, Stays
<1>3. ~moves(x) /\ cleanUp(x)
  <2>1. x = tagged =>
           nextOp(x, r, d) = IF tagVictim
                             THEN IF fill \/ entry[x].kind = "Write" THEN "MeshVictim" ELSE "MeshWrite"
                             ELSE IF fill \/ entry[x].kind # "Read" THEN "Done"
                                  ELSE IF tagHit THEN "Hit" ELSE "MeshRead"
    BY <1>0, <1>1, NextOpIs
  <2>2. QED
    BY <1>2, <2>1 DEF moves, isVictim, cleanUp
<1>4. l = entry[x].line /\ l \in Lines
  BY <1>0, <1>1, <1>2, <1>3 DEF Typed
<1>5. /\ entry[x].op \in PipeOps \union MeshOps \union {"Initial", "Hit", "Done"}
      /\ entry[x].op \in MeshOps => ~entry[x].setting /\ ~entry[x].dont
      /\ entry[x].op = "First" => ~entry[x].setting /\ ~entry[x].dont
      /\ entry[x].op \notin {"MeshRead", "Fill", "MeshVictim", "Hit"}
  BY <1>0, <1>1, <1>3 DEF Typed, EntryType, Ops, Phases, LetGo, Order, Going, cleanUp
<1>6. /\ c[l][q] <= cn[l][q] /\ c[l][q] \in Int /\ cn[l][q] \in Int
  <2>1. c[l][q] <= cn[l][q] /\ cn \in [Lines -> Words]
    BY <1>4, SeenIs
  <2>2. QED
    BY <1>0, <1>4, <2>1, Numbers
<1>7. /\ entry[x].due[q] \in Int /\ memory[l][q] \in Int
      /\ \A v \in Entries : entry[v].data[q] \in Int
  BY <1>0, <1>4, Numbers
<1>8. /\ r # None => r \in Entries /\ entry[r].valid /\ entry[r].dep = None
      /\ memory'[l][q] = IF r # None /\ carries(r, l, q) THEN entry[r].data[q] ELSE memory[l][q]
  BY <1>4, MemoryIs
<1>9. CASE entry[x].op = "Done" /\ ~dependable(x)
  <2>1. /\ entry[x].due[q] <= memory[l][q] /\ entry[x].due[q] <= c[l][q]
        /\ \A v \in Entries : carries(v, l, q) => entry[x].due[q] <= entry[v].data[q]
    BY <1>1, <1>3, <1>4, <1>9 DEF Storage, CleanHolds
  <2>2. ASSUME NEW v \in Entries, carries(v, l, q)' PROVE entry[x].due[q] <= entry'[v].data[q]
    <3>1. \/ carries(v, l, q) /\ entry'[v].data = entry[v].data
          \/ way.line = l /\ q \in way.dirty /\ entry'[v].data = way.data
      BY <1>4, <2>2, CarriesWas
    <3>2. CASE way.line = l /\ q \in way.dirty /\ entry'[v].data = way.data
      <4>1. way.data[q] = c[l][q]
        BY <1>4, <3>2, DepsAssumption DEF Storage, WayHolds
      <4>2. QED
        BY <2>1, <3>2, <4>1
    <3>3. QED
      BY <2>1, <3>1, <3>2
  <2>3. QED
    BY <1>2, <1>6, <1>7, <1>8, <2>1, <2>2
<1>10. CASE dependable(x)
  <2>1. ~Waits(x) /\ clears(x)'
    BY <1>10, Leaves
  <2>2. x # tagged
    <3>1. SUFFICES ASSUME x = tagged PROVE FALSE
      OBVIOUS
    <3>2. entry[x].op = "First"
      BY <1>1, <1>5, <3>1, OpWas DEF PipeOps
    <3>3. x # r
      BY <1>1, <3>2, OpWas DEF MeshOps
    <3>4. ~setsDont(x, r)
      BY <1>3, <3>2, <3>3 DEF setsDont, cleanUp
    <3>5. QED
      BY <1>2, <1>5, <2>1, <3>2, <3>4 DEF clears
  <2>3. settled(x) /\ (entry[x].op = "Done" \/ (entry[x].op = "MeshWrite" /\ x = r))
    <3>1. entry[x].op = "Done" \/ (entry[x].op = "MeshWrite" /\ x = r)
      BY <1>1, <1>5, <2>2, OpWas DEF PipeOps, MeshOps
    <3>2. QED
      BY <1>1, <1>3, <1>10, <3>1 DEF settled
  <2>4. entry[x].due = c[l]
    BY <1>4, <2>3 DEF Content, Found
  <2>5. /\ \A v \in Entries : carries(v, l, q) => v = x
        /\ carries(x, l, q) => entry[x].data[q] = c[l][q]
        /\ ~carries(x, l, q) => memory[l][q] = c[l][q]
    BY <1>4, <1>10, <2>1, <2>3, SettledSees
  <2>6. carries(x, l, q) => x = r
    BY <2>3 DEF carries, writeBack
  <2>7. memory'[l][q] = c[l][q]
    <3>1. CASE carries(x, l, q)
      <4>1. x = r /\ x # None
        BY <2>6, <3>1, DepsAssumption
      <4>2. QED
        BY <1>8, <2>5, <3>1, <4>1
    <3>2. CASE ~carries(x, l, q)
      <4>1. ~(r # None /\ carries(r, l, q))
        BY <1>8, <2>5, <3>2
      <4>2. QED
        BY <1>8, <2>5, <3>2, <4>1
    <3>3. QED
      BY <3>1, <3>2
  <2>8. ASSUME NEW v \in Entries, carries(v, l, q)' PROVE FALSE
    <3>1. \/ carries(v, l, q) /\ v # r
          \/ way.line = l /\ q \in way.dirty
      BY <1>4, <2>8, CarriesWas
    <3>2. way.line # l \/ way.dirty = {}
      BY <1>4, <2>3 DEF Order, Settles, CleanWay
    <3>3. QED
      BY <2>5, <2>6, <3>1, <3>2
  <2>9. QED
    BY <1>2, <1>6, <2>4, <2>7, <2>8
<1>11. CASE entry[x].op # "Done" /\ ~dependable(x)
  <2>1. entry[x].op \in MeshOps \union {"First"}
    BY <1>1, <1>5, <1>11, OpWas DEF PipeOps
  <2>2. QED
    BY <1>1, <1>5, <1>11, <2>1 DEF dependable, clears
<1>12. QED
  BY <1>9, <1>10, <1>11

\* Where the data of a line is stays as it is.
LEMMA StorageKept ==
    ASSUME PipeTiming, NEW pos \in [Entries -> Nat], State(pos), Order(pos),
           NEW c, Content(pos, c), Storage(pos, c),
           NEW i, NEW new, NEW p, NEW m, NEW r, NEW d, NEW done,
           Clock(i, new, p, m, r, d, done),
           NEW posn \in [Entries -> Nat], Places(pos, posn, i, new), NEW cn, cn = Seen(c)
    PROVE  Storage(posn, cn)'
<1>1. WayHolds(cn)' /\ FillHolds(cn)' /\ HitHolds' /\ CleanHolds(cn)'
  BY WayHoldsKept, FillHoldsKept, HitHoldsKept, CleanHoldsKept
<1>2. StoreHolds(posn, cn)'
  BY StoreHoldsKept
<1>3. QED
  BY <1>1, <1>2 DEF Storage

-----------------------------------------------------------------------------
(* The invariant of the data, and what follows from it.                    *)

\* The requests can be placed, and the lines said to hold something, so that the
\* registers describe their lists and the data is where it is looked for.
DataIInv == \E pos \in [Entries -> Nat], c \in [Lines -> Words] :
               State(pos) /\ Order(pos) /\ Content(pos, c) /\ Storage(pos, c)

\* At first all lines hold what memory has.
LEMMA InitData == Init => DataIInv
<1> SUFFICES ASSUME Init PROVE DataIInv
  OBVIOUS
<1>1. PICK pos \in [Entries -> Nat] : State(pos)
  BY InitDeps DEF DepsIInv
<1>2. /\ \A i \in Entries : ~entry[i].valid /\ ~dependable(i)
      /\ \A k \in 1..Latency : pipe[k] = None
      /\ way.line = None
  BY DEF Init, Freed, dependable, Invalid
<1>3. /\ \A i \in Entries : ~pending(i) /\ ~settled(i) /\ ~inPipe(i)
      /\ \A v \in Entries, l \in Lines : ~writeBack(v, l)
  BY <1>2, DepsAssumption DEF pending, settled, inPipe, writeBack
<1>4. Order(pos)
  <2>1. Going /\ Fronts(pos) /\ LetGoAhead
    BY <1>2, DepsAssumption DEF Going, Fronts, LetGoAhead, InFront, Listed
  <2>2. Settles(pos)
    BY <1>3 DEF Settles, OneSettled, NoneComes, CleanWay, BackFirst
  <2>3. QED
    BY <2>1, <2>2 DEF Order
<1>5. memory \in [Lines -> Words] /\ \A l \in Lines, q \in Quads : memory[l][q] = 0 /\ written[l][q] = 0
  BY <1>1 DEF Init, State, Typed
<1>6. Content(pos, memory)
  <2>1. Left(memory)
    BY <1>5 DEF Left
  <2>2. QED
    BY <1>3, <1>5, <2>1 DEF Content, Between, Ascending, Found, Masked
<1>7. Storage(pos, memory)
  <2>1. WayHolds(memory) /\ FillHolds(memory) /\ HitHolds /\ CleanHolds(memory)
    BY <1>2 DEF WayHolds, FillHolds, HitHolds, CleanHolds
  <2>2. StoreHolds(pos, memory)
    BY <1>3 DEF StoreHolds, lastOf, carries
  <2>3. QED
    BY <2>1, <2>2 DEF Storage
<1>8. QED
  BY <1>1, <1>4, <1>5, <1>6, <1>7 DEF DataIInv

\* Every clock keeps the data where it is looked for.
LEMMA NextData == PipeTiming /\ DataIInv /\ [Next]_vars => DataIInv'
<1> SUFFICES ASSUME PipeTiming, DataIInv, [Next]_vars PROVE DataIInv'
  OBVIOUS
<1>1. PICK pos \in [Entries -> Nat], c \in [Lines -> Words] :
         State(pos) /\ Order(pos) /\ Content(pos, c) /\ Storage(pos, c)
  BY DEF DataIInv
<1>2. CASE Next
  <2>1. Counts /\ \E i, new, p, m, r, d, done : Clock(i, new, p, m, r, d, done) /\ Records(i, new)
    BY <1>1, <1>2, Clocks DEF State
  <2>2. PICK i, new, p, m, r, d, done : Clock(i, new, p, m, r, d, done) /\ Records(i, new)
    BY <2>1
  <2>3. PICK posn \in [Entries -> Nat] : Places(pos, posn, i, new)
    BY <1>1, <2>2, PlacesExist
  <2>4. PICK cn : cn = Seen(c)
    OBVIOUS
  <2>5. State(posn)'
    BY <1>1, <2>1, <2>2, <2>3, StateKept
  <2>6. Order(posn)'
    BY <1>1, <2>2, <2>3, OrderKept
  <2>7. Content(posn, cn)'
    BY <1>1, <2>1, <2>2, <2>3, <2>4, ContentKept
  <2>8. Storage(posn, cn)'
    BY <1>1, <2>2, <2>3, <2>4, StorageKept
  <2>9. cn \in [Lines -> Words]
    BY <1>1, <2>2, <2>4, SeenIs
  <2>10. QED
    BY <2>5, <2>6, <2>7, <2>8, <2>9 DEF DataIInv
<1>3. CASE UNCHANGED vars
  <2>1. State(pos)'
    BY <1>1, <1>3, StateStays
  <2>2. Order(pos)'
    <3>1. Going' /\ Fronts(pos)'
      BY <1>1, <1>3 DEF vars, Order, Going, Fronts, InFront, Listed, dependable, clears, cleanUp
    <3>2. LetGoAhead'
      BY <1>1, <1>3 DEF vars, Order, LetGoAhead, dependable, clears
    <3>3. OneSettled' /\ NoneComes' /\ CleanWay'
      BY <1>1, <1>3 DEF vars, Order, Settles, OneSettled, NoneComes, CleanWay, settled, dependable, clears,
                        cleanUp
    <3>4. BackFirst(pos)'
      BY <1>1, <1>3 DEF vars, Order, Settles, BackFirst, writeBack, settled, dependable, clears, cleanUp
    <3>5. QED
      BY <3>1, <3>2, <3>3, <3>4 DEF Order, Settles
  <2>3. Content(pos, c)'
    <3>1. Between(c)' /\ Left(c)' /\ Masked'
      BY <1>1, <1>3 DEF vars, Content, Between, Left, Masked, pending, puts
    <3>2. Ascending(pos)'
      BY <1>1, <1>3 DEF vars, Content, Ascending, Ahead, inPipe, pending, puts
    <3>3. Found(c)'
      BY <1>1, <1>3 DEF vars, Content, Found, settled, dependable, clears, cleanUp
    <3>4. QED
      BY <1>1, <3>1, <3>2, <3>3 DEF Content
  <2>4. Storage(pos, c)'
    <3>1. WayHolds(c)' /\ FillHolds(c)' /\ HitHolds'
      BY <1>1, <1>3 DEF vars, Storage, WayHolds, FillHolds, HitHolds
    <3>2. StoreHolds(pos, c)'
      BY <1>1, <1>3 DEF vars, Storage, StoreHolds, lastOf, carries, writeBack
    <3>3. CleanHolds(c)'
      BY <1>1, <1>3 DEF vars, Storage, CleanHolds, carries, writeBack, dependable, clears, cleanUp
    <3>4. QED
      BY <3>1, <3>2, <3>3 DEF Storage
  <2>5. QED
    BY <2>1, <2>2, <2>3, <2>4 DEF DataIInv
<1>4. QED
  BY <1>2, <1>3

\* A read always returns what the last write accepted before it left, for every
\* number of entries, lines and quads and every timing of the pipeline that the lists
\* can rest on.
THEOREM ReadsAlwaysSeeLastWrite ==
    ASSUME PipeTiming
    PROVE  Spec => []ReadsSeeLastWrite
<1>1. DataIInv => ReadsSeeLastWrite
  BY DEF DataIInv, ReadsSeeLastWrite, Storage, FillHolds, HitHolds, Content, Found, settled
<1>2. DataIInv /\ [Next]_vars => DataIInv'
  BY NextData
<1>3. QED
  BY <1>1, <1>2, InitData, PTL DEF Spec

\* An evict or a flush that may leave the queue has left memory with every write
\* accepted before it, whatever victims carry of its line.
THEOREM CleanedAlwaysInMemory ==
    ASSUME PipeTiming
    PROVE  Spec => []CleanedInMemory
<1>1. DataIInv => CleanedInMemory
  <2>1. SUFFICES ASSUME NEW pos \in [Entries -> Nat], NEW c \in [Lines -> Words], State(pos), Storage(pos, c),
                        NEW i \in Finishable, entry[i].kind \in {"Evict", "Flush"}, NEW q \in Quads
                 PROVE  memory[entry[i].line][q] >= entry[i].due[q]
    BY DEF DataIInv, CleanedInMemory
  <2>2. i \in Entries /\ entry[i].valid /\ entry[i].op = "Done" /\ cleanUp(i) /\ ~dependable(i)
    BY <2>1 DEF Finishable, finishable, cleanUp, dependable
  <2>3. entry[i].due[q] <= memory[entry[i].line][q]
    BY <2>1, <2>2 DEF Storage, CleanHolds
  <2>4. entry[i].due[q] \in Int /\ memory[entry[i].line][q] \in Int
    BY <2>1, <2>2, Numbers DEF State
  <2>5. QED
    BY <2>3, <2>4
<1>2. DataIInv /\ [Next]_vars => DataIInv'
  BY NextData
<1>3. QED
  BY <1>1, <1>2, InitData, PTL DEF Spec

=============================================================================
