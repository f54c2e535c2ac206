------------------------------ MODULE ReqqDeps ------------------------------
(***************************************************************************)
(* The lists of dependencies of the request queue, for the L3 entries of a *)
(* bank.  Requests of one line form a list: entries at or bound for the    *)
(* mesh first ("meshll"), the others behind, and each waits for the one    *)
(* before it.  A request that evicts another line turns into that victim,  *)
(* takes the address of the victim and is spliced into the list of that    *)
(* line, between the two parts, while requests of that line may already be *)
(* on their way through the pipeline.                                      *)
(*                                                                         *)
(* One step is one clock.  Modelled: reads, writes, evicts and flushes,    *)
(* one way of one set, the pipeline from pick to tag response, the mesh.   *)
(* Left out: the operations that carry data with a clean-up, prefetches,   *)
(* partial writes, atomics, the read buffer, victims that bypass the queue *)
(* on their way to the mesh, the waits for the data buffer (data_ready,    *)
(* wait_for_dataq) and for the response to be sent, decode errors,         *)
(* esr_sc_reqq_no_link_list.                                               *)
(***************************************************************************)
EXTENDS Integers, Sequences, FiniteSets

CONSTANTS Entries,      \* the L3 entries of the request queue
          Entry0,       \* entry 0 of the queue, always an L2 entry
          Lines,        \* the lines that map to the set
          Quads,        \* the quadwords of a line
          Masks,        \* the quadword enables writes come with
          Latency,      \* clocks from a pick to its tag response
          Busy,         \* clocks after a pick when the sub-bank takes no other
          Bubble,       \* and those when it takes no other if the pick writes data
          MaxRequests,  \* bound on the requests of a behaviour
          None

\* A write has a quadword enabled: address and size of a store give one
\* (shirecache_bank_reqq_entry.sv:696), the write-back of a victim has the dirty ones.
\* With none the tags would take a line that was not fetched for a clean one
\* (shirecache_pipe_sub_bank.sv:1031, shirecache_bank_dataq.sv:161).
ASSUME DepsAssumption == Latency \in Nat \ {0} /\ Busy \union Bubble \subseteq 1..Latency
                         /\ Masks \subseteq (SUBSET Quads) \ {{}} /\ MaxRequests \in Nat
                         /\ Entry0 \notin Entries /\ None \notin Entries \union Lines \union {Entry0}

VARIABLES entry,     \* the registers of each entry
          pipe,      \* pipe[k]: who was picked k clocks ago; its last place is the tag response
          granted,   \* to_sys_mesh_req_picked_1hot
          atMesh,    \* requests the mesh owes a response
          way,       \* tag, quadword dirty bits and data of the way
          memory,    \* quadwords as memory has them
          written,   \* per line and quadword, the last write accepted
          accepted   \* requests accepted so far

vars == <<entry, pipe, granted, atMesh, way, memory, written, accepted>>

Kinds   == {"Read", "Write", "Evict", "Flush"}
PipeOps == {"First", "Fill"}                        \* L3Read, L3Write, L3Evict or L3Flush; L3Fill
MeshOps == {"MeshRead", "MeshWrite", "MeshVictim"}
Junk    == [q \in Quads |-> -1]
Invalid == [line |-> None, dirty |-> {}, data |-> Junk]
Freed   == [valid |-> FALSE, kind |-> None, op |-> "Done", line |-> None, mask |-> {}, due |-> Junk,
            data |-> Junk, dep |-> None, tail |-> FALSE, meshTail |-> FALSE, head |-> FALSE,
            inMesh |-> FALSE, setting |-> TRUE, dont |-> TRUE, inflight |-> FALSE,
            pipeReady |-> FALSE, meshReady |-> FALSE]

Init == /\ entry = [i \in Entries |-> Freed]
        /\ pipe = [k \in 1..Latency |-> None]
        /\ granted = None /\ atMesh = {}
        /\ way = Invalid
        /\ memory = [l \in Lines |-> [q \in Quads |-> 0]]
        /\ written = memory /\ accepted = 0

-----------------------------------------------------------------------------
(* The tag response of this clock                                          *)

tagged == pipe[Latency]
tagHit == tagged # None /\ way.line = entry[tagged].line
fill   == entry[tagged].op = "Fill"
partial == way.dirty \notin {{}, Quads}

tagVictim == /\ tagged # None
             /\ IF tagHit
                THEN /\ ~fill
                     /\ \/ entry[tagged].kind = "Read" /\ partial
                        \/ entry[tagged].kind \in {"Evict", "Flush"} /\ way.dirty # {}
                ELSE way.dirty # {} /\ (fill \/ entry[tagged].kind = "Write")
selfVictim  == tagVictim /\ tagHit
isVictim(i) == tagVictim /\ i = tagged
moves(i)    == isVictim(i) /\ ~tagHit        \* takes the address of the victim

Overlay(old, new, mask) == [q \in Quads |-> IF q \in mask THEN new[q] ELSE old[q]]

wayAfter ==
  IF tagged = None THEN way ELSE
  LET e == entry[tagged]
  IN  CASE fill -> [line |-> e.line, dirty |-> IF tagHit THEN way.dirty ELSE {}, data |-> e.data]
        [] ~fill /\ e.kind = "Write" ->
             IF tagHit
             THEN [way EXCEPT !.dirty = IF way.dirty = {} THEN Quads ELSE way.dirty \union e.mask,
                              !.data = Overlay(way.data, e.due, e.mask)]
             ELSE [line |-> e.line, dirty |-> e.mask, data |-> Overlay(Junk, e.due, e.mask)]
        [] ~fill /\ e.kind = "Read" -> IF tagHit /\ partial THEN Invalid ELSE way
        [] ~fill /\ e.kind = "Evict" -> IF tagHit THEN Invalid ELSE way
        [] ~fill /\ e.kind = "Flush" -> IF tagHit /\ partial THEN Invalid
                                        ELSE IF tagHit THEN [way EXCEPT !.dirty = {}] ELSE way

-----------------------------------------------------------------------------
(* The lists.  An entry is dependable until it needs nobody to wait for it *)
(* any more; from then on it clears the dependencies on it.                *)

clears(i)     == (entry[i].setting \/ entry[i].dont) /\ entry[i].dep = None
\* Mutant: a request may still be queued behind an entry that has let go.
dependableLate(i) == entry[i].valid /\ ~entry[i].dont
dependable(i) == entry[i].valid /\ ~entry[i].dont /\ ~clears(i)

upgrading == {i \in Entries : /\ entry[i].valid /\ entry[i].dep = None
                              /\ ~entry[i].inMesh /\ entry[i].op \in MeshOps}
upgraded  == upgrading \union (IF selfVictim THEN {tagged} ELSE {})

sameAsVictim == {i \in Entries \ {tagged} : tagVictim /\ entry[i].valid /\ entry[i].line = way.line}
\* Mutant: a victim does not see those of its line that are at the mesh already.
meshTailsNone == {}
meshTails    == {i \in sameAsVictim : dependable(i) /\ entry[i].meshTail}
nonMesh      == {i \in sameAsVictim : dependable(i) /\ ~entry[i].inMesh}
\* Mutant: the requests on their way through the pipeline do not wait for the victim.
insertAheadIdle == {i \in nonMesh : entry[i].head /\ ~entry[i].inflight}
insertAhead  == {i \in nonMesh : \/ entry[i].head
                                 \/ (entry[i].dep \in Entries /\ clears(entry[i].dep))}
victimDep    == IF meshTails = {} THEN None ELSE CHOOSE i \in meshTails : TRUE

\* What allocation makes of a request for a line.
matching(l)    == {i \in Entries : dependable(i) /\ entry[i].line = l}
matchVictim(l) == tagVictim /\ way.line = l
tails(l)       == {i \in matching(l) : entry[i].tail}
depOf(l) ==
  LET inFront == {i \in matching(l) : ~entry[i].inMesh}
  IN  IF matching(l) = {} /\ ~matchVictim(l) THEN None
      ELSE IF inFront = {} /\ matchVictim(l) THEN tagged
      ELSE IF tails(l) = {} THEN Entry0        \* the decoder of an empty one-hot gives 0
      ELSE CHOOSE i \in tails(l) : TRUE
headOf(l) == \A i \in matching(l) : entry[i].inMesh \/ i \in upgraded

-----------------------------------------------------------------------------
(* What one entry does at the edge.  "r" is the entry whose mesh response  *)
(* is here, "d" one whose read data is, "l" the line being allocated.      *)

picked(i) == pipe[1] = i \/ granted = i

nextOp(i, r, d) ==
  LET e == entry[i]
  IN  CASE e.op = "Initial" -> "First"
        [] i = tagged /\ tagVictim -> IF fill \/ e.kind = "Write" THEN "MeshVictim" ELSE "MeshWrite"
        [] i = tagged /\ ~tagVictim -> IF fill \/ e.kind # "Read" THEN "Done"
                                       ELSE IF tagHit THEN "Hit" ELSE "MeshRead"
        [] i = d -> "Done"
        [] i = r -> IF e.op = "MeshRead" THEN "Fill"
                    ELSE IF e.op = "MeshWrite" /\ e.kind = "Read" THEN "MeshRead" ELSE "Done"
        [] OTHER -> e.op

\* Mutant: a clean-up is done with its list as soon as it has missed.
setsDontEarly(i, r) ==
  entry[i].valid /\ (entry[i].op = "Done" \/ (entry[i].dep = None /\ (pipe[1] = i \/ i = r)))
setsDont(i, r) ==
  LET e == entry[i]
  IN  /\ e.valid /\ e.dep = None
      /\ \/ e.op = "Done"
         \/ e.kind = "Read" /\ i = tagged /\ tagHit /\ ~tagVictim
         \/ e.kind = "Read" /\ e.op = "Fill" /\ pipe[1] = i
         \/ e.kind = "Write" /\ pipe[1] = i
         \/ e.kind \in {"Evict", "Flush"} /\ i = r
         \/ e.op = "MeshVictim" /\ i = r

dataNext(i, r) ==
  LET e == entry[i]
  IN  IF isVictim(i) \/ (i = tagged /\ tagHit /\ ~fill /\ e.kind = "Read") THEN way.data
      ELSE IF i = r /\ e.op = "MeshRead" THEN memory[e.line]
      ELSE IF i = r \/ i = tagged THEN Junk ELSE e.data

depCleared(i) == entry[i].dep \in Entries /\ clears(entry[i].dep)
depNext(i) == IF isVictim(i) THEN victimDep
              ELSE IF i \in insertAhead THEN tagged
              ELSE IF depCleared(i) THEN None ELSE entry[i].dep
tailNext(i, l) == IF isVictim(i) THEN nonMesh = {} /\ ~(l # None /\ matchVictim(l))
                  ELSE entry[i].tail /\ i \notin meshTails /\ ~(l # None /\ depOf(l) = i)
meshTailNext(i) == IF isVictim(i) THEN upgrading \intersect sameAsVictim = {}
                   ELSE i \in upgrading \/ (entry[i].meshTail /\ i \notin meshTails)
headNext(i) == \/ depCleared(i) /\ ~entry[i].inMesh
               \/ entry[i].dep \in upgraded
               \/ entry[i].head /\ ~isVictim(i) /\ i \notin upgrading

entryNext(i, r, d, l) ==
  LET e  == entry[i]
      op == nextOp(i, r, d)
      mayGo == e.dep = None /\ ~e.inflight /\ ~picked(i)
  IN  [e EXCEPT !.op = op,
                !.line = IF moves(i) THEN way.line ELSE @,
                !.mask = IF isVictim(i) THEN way.dirty ELSE @,
                !.data = dataNext(i, r),
                !.dep = depNext(i), !.tail = tailNext(i, l), !.meshTail = meshTailNext(i),
                !.head = headNext(i), !.inMesh = @ \/ isVictim(i) \/ i \in upgrading,
                !.setting = setsDont(i, r) \/ (@ /\ ~moves(i)),
                !.dont = ~moves(i) /\ (@ \/ (e.setting /\ e.dep = None)),
                !.inflight = picked(i) \/ (@ /\ op = e.op),
                !.pipeReady = e.op \in PipeOps /\ mayGo /\ i \notin sameAsVictim,
                !.meshReady = e.op \in MeshOps /\ mayGo /\ i \notin insertAhead]

finishable(i) == entry[i].valid /\ entry[i].op = "Done" /\ clears(i)

fresh(kind, l, mask, due) ==
  [Freed EXCEPT !.valid = TRUE, !.kind = kind, !.op = "Initial",
                !.line = l, !.mask = mask, !.due = due,
                !.dep = depOf(l), !.tail = TRUE, !.head = headOf(l),
                !.setting = FALSE, !.dont = FALSE]

-----------------------------------------------------------------------------
(* One clock                                                               *)

writesData(i) == entry[i].op = "Fill" \/ entry[i].kind = "Write"
\* Mutant: a pick that writes data leaves no bubble behind it.
occupiedNoBubble(k) == pipe[k] # None /\ k \in Busy
occupied(k) == pipe[k] # None /\ (k \in Busy \/ (k \in Bubble /\ writesData(pipe[k])))
Pickable   == IF \E k \in 1..Latency : occupied(k) THEN {} ELSE {i \in Entries : entry[i].pipeReady}
Grantable  == {i \in Entries : entry[i].meshReady} \ {granted}
Answerable == atMesh \ {granted}
Reading    == {i \in Entries : entry[i].op = "Hit"}
Free       == {i \in Entries : ~entry[i].valid}
Finishable == {i \in Entries : finishable(i)}

\* The clock edge.  "new" is the request allocated, or None; it takes entry "i".
\* "p" is picked, "m" granted, and "done" are released.
Edge(i, new, p, m, r, d, done) ==
  /\ entry' = [j \in Entries |-> IF j = i THEN new
                                 ELSE IF ~entry[j].valid \/ j \in done THEN Freed
                                 ELSE entryNext(j, r, d, new.line)]
  /\ pipe' = [k \in 1..Latency |-> IF k = 1 THEN p ELSE pipe[k - 1]]
  /\ granted' = m
  /\ atMesh' = (atMesh \ {r}) \union ({m} \ {None})
  /\ way' = wayAfter
  /\ memory' = IF r # None /\ entry[r].op \in {"MeshWrite", "MeshVictim"}
               THEN [memory EXCEPT ![entry[r].line] = Overlay(@, entry[r].data, entry[r].mask)]
               ELSE memory

Registers(i, new) ==
  \E p \in Pickable \union {None}, m \in Grantable \union {None}, r \in Answerable \union {None},
     d \in Reading \union {None}, done \in SUBSET Finishable : Edge(i, new, p, m, r, d, done)

Idle == Registers(None, Freed) /\ UNCHANGED <<written, accepted>>

Request(l, kind) ==
  /\ accepted < MaxRequests /\ accepted' = accepted + 1
  /\ \E i \in Free : Registers(i, fresh(kind, l, {}, written[l]))
  /\ UNCHANGED written

Write(l, mask) ==
  LET due == [q \in Quads |-> IF q \in mask THEN written[l][q] + 1 ELSE written[l][q]]
  IN  /\ accepted < MaxRequests /\ accepted' = accepted + 1
      /\ \E i \in Free : Registers(i, fresh("Write", l, mask, due))
      /\ written' = [written EXCEPT ![l] = due]

Next == \/ Idle
        \/ \E l \in Lines : \/ \E kind \in Kinds \ {"Write"} : Request(l, kind)
                            \/ \E mask \in Masks : Write(l, mask)

Spec == Init /\ [][Next]_vars

\* The timing of the pipeline that the lists rest on: the sub-bank is busy in the
\* clock after a pick, and at least behind a pick that writes data in the one of its
\* tag response and in the one before.
Timely(latency, busy, bubble) ==
  latency > 2 /\ 1 \in busy /\ {latency - 1, latency} \subseteq busy \union bubble
PipeTiming == Timely(Latency, Busy, Bubble)

-----------------------------------------------------------------------------
(* Properties                                                              *)

\* Every register stays in its type; nobody waits for itself, and no entry is
\* in the pipeline twice.
TypeOK ==
  /\ \A i \in Entries :
       LET e == entry[i]
       IN  /\ {e.valid, e.tail, e.meshTail, e.head, e.inMesh, e.setting, e.dont, e.inflight,
               e.pipeReady, e.meshReady} \subseteq BOOLEAN
           /\ e.valid => e.kind \in Kinds /\ e.line \in Lines
           /\ e.op \in PipeOps \union MeshOps \union {"Initial", "Hit", "Done"}
           /\ e.mask \subseteq Quads /\ e.due \in [Quads -> Int] /\ e.data \in [Quads -> Int]
           /\ e.dep \in (Entries \ {i}) \union {Entry0, None}
  /\ pipe \in [1..Latency -> Entries \union {None}]
  /\ \A j, k \in 1..Latency : pipe[j] = pipe[k] /\ pipe[j] # None => j = k
  /\ granted \in Entries \union {None} /\ atMesh \subseteq Entries
  /\ way.line \in Lines \union {None} /\ way.dirty \subseteq Quads /\ way.data \in [Quads -> Int]
  /\ memory \in [Lines -> [Quads -> Int]] /\ written \in [Lines -> [Quads -> Int]]
  /\ accepted \in 0..MaxRequests

\* A read returns what the last write accepted before it left, wherever the line
\* was in between: in the way, in a victim on its way to memory, or in memory
\* (shirecache_bank_reqq.sv:1064-1120, shirecache_bank_reqq_entry.sv:2906-3014).
ReadsSeeLastWrite ==
  \A i \in Entries : entry[i].valid /\ entry[i].kind = "Read" /\ entry[i].op \in {"Hit", "Fill"}
                     => entry[i].data = entry[i].due

\* The mesh, which may reorder what it carries, never has two requests of one
\* line: a fill never races the write-back of its own line
\* (shirecache_bank_reqq_entry.sv:3575-3590).
OneAtMesh == \A i, j \in atMesh : entry[i].line = entry[j].line => i = j

\* Every wait ends: whoever is waited for is in the queue, and among any requests
\* that wait there is one that waits for none of them, so that no requests wait for
\* one another in a circle
\* (shirecache_bank_reqq_entry.sv:2939-2946, shirecache_bank_reqq_alloc.sv:811-846).
WaitsEnd ==
  LET waiting == {i \in Entries : entry[i].dep \in Entries}
  IN  /\ \A i \in waiting : entry[entry[i].dep].valid
      /\ \A some \in (SUBSET waiting) \ {{}} : \E i \in some : entry[i].dep \notin some

\* An evict or a flush leaves the queue only when memory has every write
\* accepted before it, those too that a victim took away just before it looked
\* (the comment at shirecache_bank_reqq_entry.sv:3096-3101).
CleanedInMemory ==
  \A i \in Finishable : entry[i].kind \in {"Evict", "Flush"} =>
     \A q \in Quads : memory[entry[i].line][q] >= entry[i].due[q]

\* A request that finds others of its line in the queue waits for their tail,
\* whoever was evicted or spliced in meanwhile ("An incoming request that matches
\* an in-flight request pends behind the tail of that request list",
\* shirecache_bank_reqq_alloc.sv:799-800).  It rests on the bubble that a pick
\* which writes data leaves behind it (shirecache_pipe.sv:537-582): no request is
\* picked in the clock when its line is evicted or in the one before.
PendsBehindTail == \A i \in Entries : entry[i].dep # Entry0
=============================================================================
