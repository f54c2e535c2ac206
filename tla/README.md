# TLA+ models of CORE-ET

CORE-ET is the SystemVerilog of a many-core accelerator: *minions* (two-thread
RISC-V cores with a vector and tensor unit) are grouped into *neighbourhoods*,
and neighbourhoods share the *shire cache*, which is L2, a slice of a
distributed L3 and scratchpad at once. Part of that SystemVerilog is not written
by hand: scripts generate register blocks, the core's CSR file and the tables of
the transcendental unit. This directory holds TLA+ models of the cache's control
logic and of the scripts with what they emit, TLC configurations that check them
on small instances, and proofs for every size.

The tests of the shire cache (`src/hw/ip/shirecache/dv`) drive one request or one
walk at a time and compare outputs cycle by cycle; what they hardly reach is what
several requests, walks and mesh answers do to each other. The scripts have no
tests: their output is compiled and simulated as part of larger designs, with
the tables as they happen to be.

- [Inventory](#inventory)
- [Modules and the code](#modules-and-the-code)
- [Conventions](#conventions)
- [Runs](#runs)
- [Fairness](#fairness)
- [Proofs](#proofs)
- [Disagreements between documents and the code](#disagreements-between-documents-and-the-code)
- [What is not modelled](#what-is-not-modelled)
- [Plan](#plan)

## Inventory

### How a request travels

    neighbourhoods --request xbar--> bank: reqq_alloc --> request queue --> pipe (tags, data)
          ^                                                    |   ^           |
          |                                                    v   |           v
          +---response xbar <-- rspmux <-- responses      mesh (L3 of any shire, memory)
                                                               |
                                    L3 requests of the mesh ---+--> reqq_alloc (L3 side)

    software --ESR--> idx_cop_sm --index operations and a Sync--> reqq_alloc

Neighbourhoods send requests through a crossbar to one of the banks of the
shire. A bank allocates an entry of its request queue; the entry steps through a
little program of its own (pick for the pipe, tag response, mesh request, fill,
response, release). An L2 miss goes over the mesh to the L3 of some shire, which
may be *this very bank*, whose L3 requests live in other entries of the same
queue. Cache maintenance is a state machine that walks sets and ways and feeds
index operations into the same queue.

### Components of the shire cache

| Component | State it keeps | Operations | What makes it hard | What makes it correct |
|---|---|---|---|---|
| `prim_fifo_reg` | one-hot level, two pointers, memory, output register | push, pop, reset | push and pop together at the limits; the bypass of the memory; users that push when full | it is a bounded queue |
| `prim_arb_lru`, `_2bid` | triangular priority matrix | bid, grant, demote | a cycle in the matrix leaves a set of bids with no winner | total order, one winner, bounded overtaking |
| `prim_arb_rr` | thermometer mask | request, grant | mask and grants must agree | the users' progress |
| `prim_arb_rr2` | mask, two grants held in reserve | load, allocate one or two, end | grants chosen many clocks before use, on a gated clock | the grants are free and distinct; one comes back |
| `shirecache_xbar` | per pair a credit FIFO and a data FIFO, a relay register, output relays | accept, relay, arbitrate, deliver | two FIFOs of one pair run one clock apart; a push that looks at no full flag | every pair is a lossless queue and drains |
| `shirecache_bank_rspmux` | a FIFO per port, the arbiter between them, crossbar credits | accept, reserve, send | one response may need room towards several ports at once | all or none; the oldest gets through |
| `shirecache_pipe_idx_cop_sm` | state, pulses, D0 counters, D1 request, busy flags, cold-reset flag | start, step, abort, reset | pipelined counter against an arbitrary ready; aborts and resets in any state | the Sync closes exactly the region; nothing is left behind |
| `shirecache_bank_reqq_alloc` (twice) | last allocation, half pairs, Sync snapshot | allocate, pair, stall, index operation | L2 waits for L3 of the same queue; stalls, pairs and gated clocks overlap | index operations run alone; halves meet; no deadlock |
| `shirecache_bank_reqq(_entry)` | per entry: opcode, address, dependency, tail, head, flags | allocate, pick, tag response, victim, mesh request and answer, release | a victim is spliced into the list of a line whose requests are already in the pipe | reads see the last write; every wait ends |
| `shirecache_pipe` rbuf, cbuf | read buffer, coalescing buffer | install, hit, squash, drain | installs in flight against evictions | never stale (planned) |
| `shirecache_bank_dataq`, mesh interface | data slots, AXI masters and slaves | fill, drain, handshake | answers out of order | data belongs to its request (planned) |

How they interact: the crossbars and the multiplexers hand over with
valid/ready; `rspmux` spends the credits of the response crossbar, so its
correctness is a statement about both; `idx_cop_sm` talks to `reqq_alloc` by
valid/ready and by busy flags that turn into stalls of the other traffic;
`reqq_alloc` reads the dependency state of every entry at allocation, and the
pipe's tag response rewrites it in the same clock; the mesh is answered out of
order by others.

### Scripts, and what they generate

| Component | State it keeps | Operations | What makes it hard | What makes it correct |
|---|---|---|---|---|
| `gen_esr.py`, `esr.csv` -> register block (`rbox_esr.sv`) | registers, hardware inputs, a captured word, write pulses | setup, access, reset of an APB transfer | two clocks per transfer, answers and pulses made of what was captured in the first | a read returns what the register holds; a pulse is up for one clock, at a register that was written |
| `gen_esr.py`, `csr.csv` -> sections of `intpipe_csr_file.sv` | a word per register and thread, enables, the access in WB | decode and read in MEM, write in WB, four resets | shadows with other field layouts, registers shared by threads, gated clocks, latches, replays, resets of different reach, accesses that need not wait for each other | every access is one step on the registers; read-only fields hold; no enable outlives its write |
| `extract_trans_rom.py`, `gen_trans_rom_sv.py`, `gen_trans_rom_cosim.py` | the vendor's tables, the files of two directories | extract, generate, compare; each stops at the first bad table | three readers infer widths and depths from what the first script left; runs fail half way | a generated module answers as its table; the files of a module agree |
| `embed.py`, targets `coverage-report` and `coverage-html` | page, backup, reports in two directories, checked-in reports | report, copy, back up or restore, embed, move | the page is rewritten in place, by make and by hand; each suite's reports are copied with its own fallback over what lies there; kills | the backup is pristine; the published page is today's with every report of today |
| `yosys_report.py`, `yosys.mk` | sources, netlist, log | synthesise, clean, report | the log is left by failed runs; three sections with the same lines | the report is the flattened design |

The sections `gen_esr.py` writes are included by `intpipe_csr_file.sv`, which gives them clocks,
resets and the access in MEM and WB; `intpipe_top.sv` decides which accesses may
follow each other. `gen_trans_rom_sv.py` and `gen_trans_rom_cosim.py` read the manifest and
the packed image that `extract_trans_rom.py` leaves. `embed.py` runs inside a recipe
of the top-level `Makefile`, after `coverage-report` has made the reports.

### The other components

`PROJECT.json` lists them all. The candidates with state machines of their own
are, in the order in which they would be worth modelling: the data cache's
replay queue and miss handler, its cache-operation units, tensor load and
reduce, the page table walker with the neighbourhood's shared path, the message
ports and barriers beside the CSR file, the two-thread frontend, the instruction
cache and the neighbourhood's registers. The vector unit and the rasteriser are
fixed arithmetic pipelines; the technology primitives are behavioural cells.

The hazards of this code, each at its line with the properties aimed at it, are
listed in `PROJECT.json` under `hazards`. Those with no property yet say why.

## Modules and the code

| Module | Models | Uses |
|---|---|---|
| `FifoOps` | one edge of a FIFO as an operator on a sequence | |
| `BoundedFifo` | abstract: what a FIFO promises | `FifoOps` |
| `PrimFifoReg` | `prim_fifo_reg.sv`, `gen_depth_n` | refines `BoundedFifo` |
| `LruOrder`, `PrimArbLru` | `prim_arb_lru.sv`: the matrix; the module | |
| `RoundRobin` | `prim_arb_rr.sv`: thermometer codes, mask, grants | |
| `PrimArbRr2` | `prim_arb_rr2.sv` under its only user's clock gate | `RoundRobin` |
| `PairwiseQueues` | abstract: what a crossbar promises | |
| `Xbar` | `shirecache_xbar.sv` as `shirecache_top.sv` configures it | `FifoOps`, `RoundRobin`; refines `PairwiseQueues` |
| `RspMux` | `shirecache_bank_rspmux.sv`, `prim_arb_lru_2bid.sv` and the credits it spends | `FifoOps`, `LruOrder`, `RoundRobin` |
| `IdxCopSm` | `shirecache_pipe_idx_cop_sm.sv` | |
| `ReqqAlloc` | both `shirecache_bank_reqq_alloc`, the walk, entries reduced to their waits | |
| `ReqqDeps` | `shirecache_bank_reqq(_entry).sv` for L3, with the pipe's timing | |
| `XsrTable` | `gen_esr.py`: the tables, their formats and filters, the predicates on a row | |
| `EsrBlock` | the block `generate_esr_sv` emits, as it behaves on the bus | `XsrTable` |
| `XsrTypes` | `gen_esr.py`: field types and the conversions between them | `XsrTable` |
| `CsrFile` | the sections emitted for `csr.csv` inside `intpipe_csr_file.sv` | `XsrTypes` |
| `TransPack` | `extract_trans_rom.py`: macros, table checks, packing by range and mask | |
| `TransRom` | the three ROM scripts and the files between them | `TransPack` |
| `EmbedPage` | `coverage-report`, `coverage-html` and `embed.py` | |
| `YosysReport` | `yosys.mk` and `yosys_report.py` | |
| `*Proofs` | proofs about the module of that name; `PrimitivesProofs` about the three `Prim` modules, `ScriptsProofs` about `EsrBlock`, `CsrFile`, `EmbedPage`, `TransRom` and `YosysReport` | |
| `MC*` | constants for TLC; `MCPrimitives`, `MCXbar`, `MCXsr` and `MCScripts` also choose at the start which machine, or which traffic, a behaviour is about | |

`PROJECT.json` maps every definition to the lines it stands for.

**Composition.** Modules compose by the interface one shows the other. `Xbar`
stands on `FifoOps`, which is what `PrimFifoReg` is shown to do (the queue with
the same acceptance rule); `RspMux` stands on `FifoOps`, `LruOrder` and the
credits of `Xbar` (a source of `SrcArb`, which is how the banks are attached);
`ReqqAlloc` uses of `PrimArbRr2` exactly what its run and its theorem
show: grants that are free, distinct and may be missing for an edge. Its walk is
`IdxCopSm` seen from the other side: an operation, indices, a Sync.

**PrimFifoReg.** `level` is the set of the bits of `level` that are 1; `port`
holds the pins sampled at an edge. `ClockN` is the one `always_ff` with all its
conditions, `FifoReset` the asynchronous reset, possible at any time. Nothing
restrains the user: it pushes full FIFOs and pops empty ones.

**Xbar.** A step is a clock edge: each source raises valid for any set of
destinations, each destination is ready or not. `credit` and `data` are the two
FIFOs of a pair, `relay` the register between them, `out` the output relay.
`accepted` and `delivered` record what an edge took in and handed out, and are
what the abstract specification sees. `RelayNext` keeps the data of a register
that is not enabled, as the code does.

**RspMux.** `bid1`, `priorityGrant`, `opportunisticGrant`, `reserved` are the
wires of the same names. A source keeps what it offers until it is taken.

**IdxCopSm.** `stateNext`, `stepIndex`, `d1Next`, `busyNext` are the next-state
wires. The control ESR is a multicycle path, so no write comes while a pulse is
on its way. History variables: `owed` and `taken` (what a walk must take and
has), `uncleaned` (a cold reset awaits its invalidation).

**ReqqAlloc.** An entry is `valid` with its source (`L2`, `L3`, `Fsm`), its half
of a pair, and a stage: `wait` (for its second half), `go`, or on its way
through the L3 of this bank (`read`, `write`). What an entry does in the pipe is
`ReqqDeps`' business; here it ends when it waits for nothing. The history
variables `cbSyncWas`, `owed`, `withdrawn`, `leftover` only serve properties.

**ReqqDeps.** One step is a clock: at most one allocation, one pick, one mesh
grant, one mesh answer, one read answered, any releases, and the tag response
of the pick `Latency` clocks ago. An entry's registers are those of
`shirecache_bank_reqq_entry` that the lists are made of; `due` is history, the
data a read must see. `tagVictim`, `sameAsVictim`, `insertAhead`, `meshTails`,
`depOf`, `headOf` are the matching of a victim and of a new request against the
entries (`shirecache_bank_reqq.sv` 1064-1120, `shirecache_bank_reqq_alloc.sv`
799-846). The tail is looked up with a one-hot decoder whose default is entry 0,
an L2 entry; that default is `Entry0`, which nobody may come to wait for
(`PendsBehindTail`). `Busy` and `Bubble` are the sub-bank's occupation
after a pick (`shirecache_pipe.sv` 537-590); they matter, see below.
Data are numbers of writes: `written` counts the writes accepted per quadword,
so that a stale read is a smaller number.

**XsrTable.** A table is a header and rows of cells; a cell is a string of the CSV.
`ParseCsv` keeps what `parse_csv` keeps: the format follows from the header, rows
without an address, of another module or not implemented are dropped.
`Register` gives every row the fields the generator works with, defaults included.

**EsrBlock.** One step is a clock of the bus: `Setup`, `Access`, `NoTransfer`,
`ResetBlock`. `s1_rdata_q`, `s1_wdata_q`, `s1_addr_valid_q`, `reg_q`, `out_en_q` are the
emitted registers. The master may hold a transfer, follow it at once with
another, or pause. A word is the set of its 1 bits, cut to the width of a register. Hardware
inputs (`ro_i`) may change in any clock.

**CsrFile.** One step is a clock: `Issue` brings an access into MEM, `NoIssue` none.
`Captured` is what MEM hands to WB, `reg_next` the emitted `always_comb` of the
writes, `latch_clk_en` the legality checks of `satp` and `matp`, `WriteSeq` the emitted
`always_ff` with the clock and the reset each row asked for. `MayFollow` is the
issue rule of the core: after a write of a thread that flushes, its next access waits
(`Flushes`); an access to a register of the safe list (`WriteSafe`) waits for nothing
else and may come in the next clock (`FollowsItself`), any other waits until the
thread has nothing in the pipeline; and the accesses to a register of `Bubbled` are preceded
by a bubble, whichever thread comes. A warm reset takes two clocks (`warm_edge`, then
`warm`), as its synchroniser does, and an access may be in MEM in the first. `caught`
and `lost` are history: the enables of a write that such a reset has caught, and the
registers rewritten through them.

**TransPack, TransRom.** Bit vectors are sets of 1 bits, macros and tables are
records, and the two ways the scripts take to the fields of a word (a range of
two macros, a mask of ones) are both there. A run is a job that writes one
file per step, in the order of the code; a check that fails ends it with what
has been written. `RomKilled` ends it anywhere; the file being written keeps
one of `CutLines` of its lines, and the last of them may be short of digits (`CutDigits`):
the reader takes any number of them (`WordOf`). `Outputs` are the lists of files that an extraction may
be asked for, in the order it writes them. What a tree may hold is assumed of the
constants, for the runs and for the proofs: `LegalTable`, a table whose literals fit
their widths; `LegalMacros`, when the macros parse, tables of 256 words at most and two
ranges that split a word where the widths in `MODULE_SPECS` have them. Both allow
tables and macros that the scripts refuse.

**EmbedPage.** A page is the version of its template and the reports in it, a report
the version of its data, one for each of two suites (`unit`, `cosim`) and each of
`Metrics`; `step` is the next line of the recipes or of the script. A report that cannot
be made is left out, a unit report that cannot be copied is passed over (`; true`), and
the cosimulation falls back to what is checked in; what lay beside the page stays
there. `missed` is history, the failures a run passed over. A kill leaves a copy or an
in-place write cut. What is not distinguished: a kill within the removal of reports by
`coverage-report`, which the next run repeats, or of `build` by `clean`.

**YosysReport.** A line of the log is a header, a count, the line that begins a list
of totals, or anything else. `HierarchyLine` and `ModuleLine` are the bodies of the
two loops, folded over the log. The log is what Yosys writes of a design as a
tree of modules, cut anywhere by a run that fails. `LegalDesign` says what a design is:
a top and its submodules, cells in natural numbers, one of the technologies that the
report tells apart.

## Conventions

- A step is a clock edge with the inputs sampled there. Bit vectors are the sets
  of their 1 bits. Names follow the source where TLA+ allows.
- A comment `Mutant:` precedes an operator that a plausible mistake would make of
  the definition below it; `PROJECT.json` says which property notices.
- Bounds are constants called `Max...`; the guards that apply them are the only
  ones that do not come from the code.
- Counting for history stops as soon as the property is decided (`CountUp` in
  `PrimArbLru`; sequence numbers modulo 2 in `Xbar`, enough because a pair is
  compared with a queue position by position).

## Runs

| Run | Asks | Bounds, and why they are enough |
|---|---|---|
| `primitives` | Is the register FIFO a bounded queue whatever is pushed and popped? Can the matrix get a cycle, or a client be overtaken twice? Are grants held in reserve still free when used, and does one come back? | Depth 4, so three words of memory and every wrap of both pointers; two values tell order apart. Four clients: cycles of three and four. Four entries: two granted, two candidates, so the filter, the wrap of the mask and the exhaustion of the free entries all happen. Proved for every size, except the progress. |
| `xbar` | Are credits exact, is each pair a queue, does every flit arrive, when two sources merge into a relayed destination and when one sends to both at once? | FIFOs of two, the least the design allows: a full FIFO, a flit in the relay and a credit on its way back at once. One source of either arbitration mode, one destination relayed, one not. The two kinds of traffic are not mixed in a behaviour. |
| `rspmux` | Does a broadcast go to all ports or none, does a reservation hold, does every FIFO move? | Port 0 sends broadcasts, port 1 a stream of single responses that compete with them; FIFOs of two, so one credit and two credits differ. |
| `idx_cop_sm` | Does a walk take exactly its region before its Sync, is a busy flag up all along, does nothing survive an abort, is a cold reset ever forgotten? | Two sets, ways and sub-banks: every counter carries into the next. L2 has set 0, L3 set 1 and the scratchpad is empty, so that a walk starts past the first set, one ends before the last, and one is never started. One reset at any edge, aborts without bound. |
| `reqq_alloc` | Do index operations run alone, do Syncs wait for write arounds, do halves meet? | Two entries per level, two walks of two kinds in a row, one index and one Sync each, one abort, pairs and refused requests. Two entries are the least that a pair needs, and they make every pair meet a full queue. |
| `reqq_alloc_live` | Do walks end and requests get in? | One walk over both levels, plain requests. |
| `reqq_alloc_stall` | Does the code do what the comment on stalling both levels says? No: see below. | One abort. |
| `reqq_deps` | Do lists keep their order while victims are spliced in? | Three entries and two lines that share one way: every miss of a dirty way makes a victim, and a third request can match the victim's line before or after it. Four requests. Two quadwords and a partial mask: partial lines exist. |
| `xsr` | Is every access to the generated registers one step on them; do enables, pulses and answers belong to their access; do read-only fields hold? | A bus of four bits and types of up to four fields: every pair of fields that a conversion can confuse, a register narrower than the bus, one of full width. Three CSR tables, so that shadow, shared, latched, trapped, replayed and unreset registers each meet two threads, every command and every reset; two operands without a bit in common. One register is safe, latched and replayable, so that writes of one thread follow each other in the next clock. Warm resets begin at any clock, with a write in MEM too. Two tables of a register block and two for which nothing is generated. |
| `xsr_pulse`, `xsr_zero` | Do pulses and zero fields do what the generated header and the table say? No: see below. | The block of `xsr`; a table with `mip` alone. |
| `scripts` | Does a module answer as its table, do the files of a module agree, is the backup pristine, has the published page all of today, is the report the design? | The ten ROM modules at their real widths with the ranges of the real macros; two trees that differ, one with bad tables, one with macros that cannot be resolved; `MaxRuns` 2 extractions and a cut after 0, 32 or 64 lines, the last of them whole or three digits short: no image, one that is a power of two less than its table, and one of every line whose last is short. `MaxVersions` 2 of the page, `MaxTests` 3 of the data: what is checked in, older tests and newer ones, in two suites. One of the `Metrics`: nothing the recipes do depends on another, the files of a metric are cut or copied by themselves, and two at once were checked apart with two versions of the data; the theorem is for any. Three designs: a single module, three levels with a module that occurs seven times, and the other technology; the log cut after any line. |

`CHECK_DEADLOCK FALSE` is set for the `reqq_alloc` runs, where the bounds on walks and
aborts and the gated clock end a behaviour, and for `scripts`, where the bounds on
runs and versions do; everywhere else TLC also checks that a clock
edge is always possible.

The modules state a `TypeOK` each (a prefix where one run has several modules). The
runs leave them to the proofs and to the properties, which say more: an invariant
that only restates types is not among them.

**A write that a warm reset catches.** The generator clears the enables of all
registers in the cold reset only, on a clock that runs for accesses (`clock_dec`), while
the access in WB is cleared by the warm reset too, and nothing keeps a write out of
MEM in the first clock of one (`intpipe_top.sv` 2248, `intpipe_csr_file.sv` 479 and 918-920). Its
enable then stays up with nothing in WB until the next access is in MEM, and the write
port keeps taking the results of whatever else is in WB (`wb_reg_wdata` has no reset,
2364). Registers on the WB clock stand still meanwhile. An always-on register
that the warm reset does not set (`scause`, `tensor_mask` and others of `csr.csv`, which have
no reset value) is rewritten with those results. The properties say exactly this much. `EnablesBelongToWb` admits no other enable without a write;
`CapturedIsCurrent` exempts one access, the first after the reset and only when it reads
the register rewritten as it reads; `AccessesAreAtomic` exempts the always-on register whose
enable it is. Software boots the core after a warm reset, and no document says what
the registers that survive it hold.

**Reports of two runs on one page.** `DashboardIsCurrent` does not say that everything on
the page is of today. `coverage-html` removes no report beside the page, and embed.py
takes every `*.info` that lies there: with the unit tests run today and those of the
cosimulation cleaned and none checked in, or a copy that failed, the page shows today's
unit tests next to an older cosimulation. The property says when: only where today
has no report, or the run was told of a failure and passed over it.

**The timing of `reqq_deps`.** `Latency` is 7: the clocks from a pick to its tag
response when `esr_sc_ram_delay` is 2. `Busy` is {1, 3, 5, 7} and `Bubble` {6}: the
clocks after a pick in which the sub-bank refuses another, and those in which it
refuses only behind a pick that writes data. With these, no request is picked in
the clock in which a fill or a write may take its line away, or in the one before.
The lists rest on that: with the bubble removed (mutant `occupiedNoBubble`) TLC
finds a list that loses its tail, and a request that comes to wait for entry 0.
The bubble's comment in the code speaks of the data RAM only. `PipeTiming` is all
that is needed of the three constants. It holds at the delays of 3 and 4 too, where
the tag response comes in the ninth clock (one clock more to capture, and at 3 one
more in `_tn`, `shirecache_pipe_sub_bank.sv` 1272; at 4 two to capture);
`MCReqqDeps` assumes so (`TimingHolds`), and the theorems cover all three. The run
itself has the delay of 2.

## Fairness

Every liveness property is checked under the fairness stated in its module.

- `Xbar`: the clock ticks (WF on `Next`), and a destination whose valid is up is
  ready at some edge. Consumers of the crossbars are queues that drain.
- `RspMux`: the clock ticks, and the crossbar drains a port it holds a flit for:
  what `xbar` shows as `EveryFlitArrives`.
- `IdxCopSm`: the clock ticks, and the queue takes an offered request at some
  edge (WF on an edge with ready). `ReqqAlloc` shows when that holds.
- `PrimArbRr2`: an ungated edge. A waiting request keeps the clock on
  (`clocked` in `ReqqAlloc`), so the gate cannot withhold a grant from it.
- `ReqqAlloc`: the clock ticks; an entry that waits for nothing ends; a level whose
  allocator could allocate again and again does (SF, as grants come and go with
  the entries and the room of the data queue). No fairness is assumed for walks,
  aborts or arrivals.

## Proofs

Eight modules of proofs, checked by TLAPS; each result holds for every value of
the constants. A run has the same property on an instance wherever `PROJECT.json`
names one. Every inductive invariant was checked by TLC, with the constants of the
run, before it was proved.

`ArbitrationProofs` holds the lemmas on the two arbitration schemes: demoting a
client keeps the matrix a strict total order, an order has one winner, a
round-robin grant is one of the requesters and there is one when somebody
requests. It is instantiated with the number of clients or requesters at hand by
the proofs of the primitives, the crossbar and the multiplexer.

| Theorem | Says | Argument |
|---|---|---|
| `AlwaysOneHot`, `AlwaysPointersMatchLevel` (`PrimitivesProofs`) | `level` has one bit set; the pointers are as far apart as `level` says | One inductive invariant, `FifoIInv`: level is {i} for some i, and the pointers are that many words apart, modulo the memory. The first alone is inductive; the second is not without it, since increments of the pointers are guarded by bits of `level`. Assumes Depth >= 2. |
| `ImplementsBoundedFifo` (`PrimitivesProofs`) | `prim_fifo_reg` refines `BoundedFifo` | The refinement mapping is `Contents`: the output register, then the memory from the read pointer. Every edge is compared with an edge of the queue element by element: `SlotsDiffer` says that words at different distances from a pointer differ, so a store disturbs none that is queued and appears at the place the distance gives it; `SlotAdvances`, that after a pop every word is one place nearer. The distance is the invariant above; the head is the four cases of the bypass. Assumes Depth >= 2. |
| `AlwaysAnOrder`, `AlwaysOneWinner`, `NeverOvertakenTwice` (`PrimitivesProofs`) | the matrix is a strict total order; every set of bids has one winner; nobody is overtaken twice by the same client | The invariant `LruIInv` adds to the order that whoever has been overtaken by a client outranks it. Demoting the winner keeps both. The winner exists because an order on numbers below `NumClients` has a least element of every non-empty set (well-founded minimum). |
| `AlwaysFree`, `Rr2TypeCorrect` (`PrimitivesProofs`) | reserved grants are distinct free entries; registers stay in their types | Both at once, from the lemmas on thermometer codes and on the two fixed priorities. |
| `CreditsAlwaysCountFlits`, `RelayNeverRefused` (`XbarProofs`) | the credit of a pair counts its flits in the data FIFO and the relay; the push of the relay, which looks at no full flag, always has room | The counting (`CreditIInv`) is inductive together with the types once two facts about the arbiters are known: a flit is only taken for a destination with credit, and only a FIFO with a flit in it is popped. Both follow from `GrantsRequested`, instantiated for the arbiters on either side. Then both FIFOs change by the same pushes and pops, and room for the flit in the relay is the counting with the credit at most the depth. Assumes FifoDepth >= 2 (`XbarAssumption`): with one entry a popped FIFO takes a flit its credit does not show. |
| `ImplementsPairwiseQueues` (`XbarProofs`) | the crossbar refines `PairwiseQueues` | The mapping puts a pair's flits in a row: those of its source in the output relay, then the data FIFO, then the relay register. The invariant `QueueIInv` adds to the one above that a flit carries the number of the source whose FIFO or relay it is in, so that the output relay, which mixes sources, can be taken apart again. A step appends what the source accepts, moves flits along inside the row, and takes off the front of one row what the destination consumes; each of the three pieces is treated by a lemma on sequences (`SharesOfTail`, `SharesOfMore`, `CatAssociative`). A pushed flit is never dropped because of `RelayNeverRefused`. |
| `AlwaysSentToAllOrNone`, `AlwaysReservationHolds`, `AlwaysOneReserver` (`RspMuxProofs`) | a response goes to all its ports in one clock or to none; what the oldest has reserved is not taken from it; one FIFO reserves at a time | The invariant `RspIInv` is small: types, and the matrix is an order. What the arguments need is that of any bidders one wins, so that the oldest is one FIFO; that a FIFO which sends has all its ports ready; and that a credit only goes down but for what is sent, which for a reserved port is nothing. |
| `AlwaysSyncClosesTheWalk`, `AlwaysNoIndexTwice`, `AlwaysBusyCoversTheWalk`, `AlwaysColdResetInvalidates`, `TypeCorrect` (`IdxCopSmProofs`) | a walk takes exactly its region before its Sync; no index twice; the levels are busy throughout; no cold reset is forgotten | The state holds a counter (D0), a request (D1) and no record of what was taken. `IdxIInv` says where a walk is: what has been taken and what is on offer are together the indices that come before D0 in the order of the counters (`LevelsWalked`, and `BufferWalked` for the coalescing buffer). That a step of the counters goes to the next index of the region and past no other is `OntoFollows`, for any number of sets, ways and sub-banks; the walk ends when nothing follows. An abort or a reset leaves the walk and the invariant asks nothing more of it. |
| `IndexOpsAlwaysAlone`, `SyncAlwaysWaits`, `HalvesAlwaysMeet`, `AllocTypeCorrect` (`ReqqAllocProofs`) | index operations run alone; Syncs wait for write arounds; halves name each other | None is inductive. `AllocIInv` adds that every entry is on its side of the border (`OwnSide`), that a level needs a second half exactly while the entry it last allocated waits for it (`HalfKnown`), that between walks only a Sync or leftovers of an abort are in the queue (`WalkSettled`), and that the snapshot a Sync waits for covers what it owes, with a clock of the gated domain to forget it by (`SnapshotHeld`). Nothing is assumed about the sizes; the two entries on either side of the border (`ReqqAllocAssumption`) are for progress. |
| `ReadsAlwaysSeeLastWrite`, `CleanedAlwaysInMemory` (`ReqqDepsProofs`) | a read returns what the last write accepted before it left; a clean-up leaves that in memory | See below. Under `PipeTiming`; a write has a quadword enabled (`DepsAssumption`): with none TLC finds a line that was not fetched and is read as a clean one. |
| `AlwaysBehindTail`, `WaitsAlwaysEnd`, `OneAlwaysAtMesh`, `DepsTypesHold` (`ReqqDepsProofs`) | a request still to go through the pipeline has the tail of its line in the queue; no requests wait in a circle or for a freed entry; of the requests for a line one at most is at the mesh | See below. Under `PipeTiming`, see above; nothing is assumed of the numbers of entries, lines and quads. |
| `AnswersAlwaysCurrent`, `PulseAlwaysLastsOneClock`, `WritesAlwaysAnnounced` (`ScriptsProofs`) | a read of a writable register is answered with what it holds; no pulse lasts two clocks; a write reaches its register whole, alone and announced | The invariant `EsrIInv` relates the captured word, the address on the bus and the registers while a transfer is between its phases: the word is what the addressed register read as at setup, and no register changes between a setup and its access, because a write happens in an access only. For the pulses it says that pulses are up only in the clock after an access. For writes it says that the captured word is the one on the bus, cut to the block; a register loses nothing by that cut because the block is as wide as its widest register, and among finitely many there is one (`WidestExists`). Assumes distinct addresses and names (`EsrBlockAssumption`): otherwise the emitted decode has two items for an address, or the block two ports of a name. |
| `EnablesAlwaysBelongToWb` (`ScriptsProofs`) | an enable is up only while its write is in WB, or is that of a write a warm reset has caught | `Compiles` (names and addresses of the emitted enum are distinct, which a build needs) makes an address decode to one register; the enables' gated clock runs whenever a write is in WB, so they are cleared when it leaves. The invariant adds `CaughtAlone`: while the enables of a caught write are up, they are all that are up, and nothing is in WB. |
| `CapturedAlwaysCurrent`, `AccessesAlwaysAtomic` (`ScriptsProofs`) | what an access captured in MEM is still in the register in WB; every access is one step on its register, whatever the other thread does | `AtomicIInv` adds to the above that the register in WB is one of the table (`WbNamed`), that a write there has its enable (`WritesEnabled`) and that what it builds on is current (`ReadIsCurrent`). Keeping the last one is the work: an access that writes is compared with one that reads, by copy of the register (own thread, other thread, shadow) and by whether the core lets it follow. For tables that observe `TableRules`: a register read from its storage has one, is not of the safe list (those of `csr.csv` all read as zero), and when threads share it has a bubble in front of its accesses; of `csr.csv` these are `satp`, `matp` and `menable_shadows` (`intpipe_top.sv` 781-783), while `excl_mode` is kept apart by its own state machine (2299-2309) and the registers written by hand are not in the model. `MCXsr` assumes the rules of its tables (`KnownRules`). |
| `ReadOnlyFieldsAlwaysHold` (`ScriptsProofs`) | no write, direct or through a shadow, changes a read-only field, but to its constant | The place of a field is a recursive sum of widths. `SumsExist` shows that there is a function with that recursion, `LsbIsSum` that `Lsb` is one, `LsbFalls` that it falls from field to field, so that fields do not overlap (`FieldsApart`). Then each write function is cut with the read-only bits: a direct write adds only constants to them, a merge through a shadow leaves them out, and what a read hides is none of them. Assumes `ShadowsMerge`, that a shadow of a register with fields has fields of its own (in `csr.csv` those of `mstatus`, `mie`, `mip` and `fcsr` have): without, its word would be written over the register; and that a type is a sequence of fields with widths (`XsrTypesAssumption`), which `ParseType` makes of every file. |
| `ImagesAlwaysAgree` (`ScriptsProofs`) | unless an extraction was killed or left out files, all files of a module are of one tree when none is running | The property says nothing while an extraction writes; `RomIInv` does: the module it is at has the files written so far from the tree being read, those still to be written are the rest of the list, no other module is touched (`AgreeSoFar`), and a list that does not have every kind of file ends `intact`. |
| `PackerKeeps` (`ScriptsProofs`) | words that are packed alike are the same | `concat` goes through its parts by a fold, which is shown to exist and to be the joining of one part after the other (`ConcatSteps`). A part that the width does not cut can be read from the result, whatever is before it (`LastPart`, `PartBeforeLast`); so can each coefficient at the place its packer gives it, in every band of the sine. Two coefficients make a word, since the ranges split it (`LegalMacros`). |
| `EmittedModulesAnswer` (`ScriptsProofs`) | a module emitted from all the lines of an image, or with the address width of its table, has the depth of its table and answers every 8-bit index with it, but for the last row when its line was cut | Whatever has been written was made from a table that could be read (`FilesMade`), and so was every module that is there, with as many words as the width it was given (`SvMade`): both inductive, with `RomIInv`. A table that can be read has a word of the right width at every address (`WordsOfTable`), a packed word is taken apart into the fields it was put together from (`DataOfPacked`; `AllAnswer` for every row and every cut), and no other word would have given them (`PackerKeeps`, `NoneIsLost`). |
| `ReportIsTheDesign` (`ScriptsProofs`) | the report on whole statistics is the flattened design; without statistics there is none | See below. Under `DesignsAssumption`: a design is a top with its submodules, and of a technology the report knows. |
| `BackupAlwaysPristine`, `DashboardAlwaysCurrent` (`ScriptsProofs`) | a whole backup has no data in it; a recipe about to publish has today's page with every report of today it could make and copy | The first rests on its strengthening `BackedUp`: a page with data in it is only ever beside a backup, and a page is backed up only where there is none; that the backup has no data is not inductive alone. The second rests on `RecipeSoFar`: what page, backup, memory and the reports hold at each step of a recipe. It starts from no reports (`ReportsMade`), copies each suite's over what lies there (`UnitCopied`, `CosimCopied`), and fills a fresh copy. For any set of metrics. |

**The lists of `ReqqDeps`.** The registers of the queue say who waits for whom, and
which entry is tail, mesh tail or head of its line, but not in which order the
requests for a line are. The invariant `DepsIInv` supplies it: there are places
`pos`, a number for each entry, such that the requests for a line have different
places, each waits for the one just before it (`Ordered`), the tail is the last and
everyone else is waited for (`Tails`), those at the mesh come first, up to the mesh
tail (`MeshParts`), and the head, or one whose wait is over in this clock, is the
first of the others, as is whoever is in the pipeline (`Heads`). None of this
survives a clock without the phases of the entries: who is in the pipeline or at
the mesh, who is ready for either, and who has let go of its line (`InPipeline`,
`AtTheMesh`, `ReadyIs`, `LetGo`).

The proof that a clock keeps it has three parts. Who is in a list afterwards, and
which registers it has, is stated once for members that stay (`MemberIs`), a victim
that comes in (`MoverIs`) and a new request (`NewIs`). `PlacesExist` gives the places
after the clock: the victim of a miss goes in behind those of its line that are at
the mesh, which moves the others back by one, and a new request goes in last.
`Pairs` then says how the places of any two of a list compare, and `OrderedKept`,
`TailsKept`, `MeshPartsKept` and `HeadsKept` treat one part each. The bubble enters in
`InPipelineKept`: no request is one clock into the pipeline when a fill or a write
makes a victim, so none is picked as the first of its line while the victim is put
in front of it. `WaitsAlwaysEnd` follows since a wait leads to a smaller place
(well-founded minimum).

**The data of `ReqqDeps`.** A read must see the writes accepted before it, of which
some may not have come to the tags, one may be in the way, some on their way to
memory, and of any line more than one at a time. `DataIInv` adds to the places `c`, what
each line holds: what the writes to it left that the tags have seen. It has three
parts beside the lists.

- `Order`, on who may touch a line. A request is *settled* when it has seen the tags
  and its line must not change before it is done with it: it fetches the line,
  cleans it up or brings it back. Of a line one at most is settled; nobody comes to
  the tags for its line before it does; the way has nothing dirty of it; and what is
  on its way to memory is in front of it in the list. That needs three facts on how
  requests let go: when each kind does (`Going`), that whoever has seen the tags and
  is still in its list is the first in front of the mesh (`Fronts`), and that in the
  pipeline one that has let go is ahead (`LetGoAhead`).
- `Content`, on numbers of writes. What a request is to find lies between `c` of its
  line and the last write accepted; who comes to the tags first finds less, strictly
  if the later one writes; and every number in between is that of a write which has
  still to see the tags (`Left`). So at its tag response a request finds exactly `c`, but
  for what it writes itself (`TaggedDue`), and then `c` becomes what it found (`Seen`).
- `Storage`, on places of data. What is dirty in the way, or all of it when clean, is `c`;
  a quad that is not dirty there is `c` in the last of the list that takes it to memory,
  and in memory if none does (`StoreHolds`). A victim is that last one
  (`VictimIsLast`), since it goes in behind those at the mesh. A settled request that
  waits for nobody has, by `Order`, none in front of it that takes its line to memory,
  so memory has `c` (`SettledSees`): a fill fetches what its read is to return, and a
  clean-up lets go only then. After that `CleanHolds` keeps memory from going back:
  what is taken there later is no older.

**The report of `YosysReport`.** The invariant is plain: the log is one of the design it
is said to be of, whole or cut, and what is printed is the answer to it
(`ReportInvariant`). The work is `AnswerIs`, what the two parsers make of a whole log of
any design.

- *The log.* `StatisticsOfOne` and `StatisticsOfSeveral` say which lines the statistics
  have: a block for every module, with no line of the hierarchy in it; then, of several
  modules, the hierarchy, a count for every module of its tree, and the totals of the
  flattened design. `ListedAs` is such a list of totals: its beginning, then every
  keyword and every cell once. In the log they stand behind the first line that begins
  statistics (`LogIs`).
- *The parsers.* Each is a fold over the lines. `ModuleSteps` and `HierarchySteps` show
  that it has a value and goes through them one by one, so that the state after a line
  is known from the one before. `HierarchyOfSeveral` follows it: nothing is counted in
  the blocks or in the tree, and past the first line of the totals every line counts
  (`CountedUp`), since no header follows. With one module there is no hierarchy and the
  parser of the block counts the same (`ModuleOfOne`).
- *The sums.* The summary adds up what was counted of a kind, the property the cells of
  the design. They are sums over equal sets of equal numbers (`SummaryIs`), and a sum
  over a finite set does not depend on how the cells are told apart otherwise
  (`SumsAgree`).

Where an argument is an induction (the widest of finitely many registers, the
recursion of `Lsb`, a fold over a list or a set), it is given as the well-founded
minimum of a set of counterexamples, since the provers cannot instantiate an induction
theorem. A fold of the community modules is a choice of a function that satisfies a
recursion; `FoldExists` shows for every finite set that there is one, and the same
minimum that any two agree (`FoldsAgree`).

Every safety invariant and every action property of the runs is proved. What stays with TLC:
liveness and everything under fairness; and that `SelectSeq` keeps a sequence, which is
behind `XsrTypesAssumption`.

## Disagreements between documents and the code

**Pulses.** The generator writes into every block "Write enable pulses (_en_o) are
asserted for one cycle after a write." (`gen_esr.py` 319, `rbox_esr.sv` 21). The
pulse it emits is the access phase, at the register's address, of a transfer
whose captured write data is not zero (line 412); it does not look at the
direction of the transfer. `xsr_pulse` shows the difference: the word captured by
a write stays, and the read that follows raises the pulse of the register it
reads; a write of zero raises none. What does hold is `WritesAnnounced` (a write
of a nonzero word is announced, and no pulse names another register than the one
accessed) and `PulseLastsOneClock`.

**Zero fields.** `csr_mip_t.csv` names three fields "UEIP - ZERO", "UTIP - ZERO", "USIP -
ZERO" and notes that user level interrupts are not implemented. The generator
recognises a zero field by the ending "-ZERO" (`gen_esr.py` 92-93); with the blanks
it makes an ordinary field, which `write_mip` fills from the written word
(`intpipe_csr_file_auto_type_conversions.svh` 339). `xsr_zero` writes ones and reads
them back.

**Stalling both levels.** `shirecache_bank_reqq_alloc.sv` 134-135 says: "Can't stall L3 if the L2 is also
being stalled and still has requests outstanding. Stalling both L2 and L3 while
L2 still has requests in flight would be a deadlock." The code counts as "L2 in
flight" the entries whose *source* is L2 (line 167). An index operation that an
aborted walk left in an L2 entry has another source. `reqq_alloc_stall` shows the
consequence: abort a walk while one of its operations has a victim on its way to
the L3 of the same bank, then start AllInv, and both levels are stalled while
that entry waits. `WalkEnds` and `EveryRequestTaken` therefore exempt leftovers of
an aborted walk that wait for L3, and are checked without aborts.

Some smaller things the models had to say, without a document to hold against
them. The edge detector of a coalescing-buffer Sync runs on a gated clock: an
abort that withdraws such a Sync can leave it set, and the next one takes no new
snapshot; `SyncWaitsForWriteArounds` exempts it through `withdrawn`. And the
cold-reset flag is consumed just before the power-up invalidation begins, so a
warm reset during that walk ends it for good; `ColdResetInvalidates` excuses it. A
ROM image that is cut within its last line has as many lines as it should, and
`gen_trans_rom_sv.py` (60-68) takes the shorter word: the emitted module is wrong in
its last row, which `ModulesAnswerTheirTables` admits for such an image and for no other. The
enable that a warm reset leaves up, and the older reports that stay on a page, are
described with the runs above.

## What is not modelled

- In the modules above: the data of requests and responses, tracing, error
  logging and debug accesses; the move of the border between L2 and L3 entries by
  software (no document says when it is allowed); the stall of memory self test in
  `ReqqAlloc`; the single-entry FIFO, which nothing instantiates.
- In the generated register file: the registers whose update is written by hand
  (counters, interrupts, traps), legalisation other than that of `satp` and `matp`, the
  sign extension of operands, and the `DEFINE_TO_PARAM` substitution of names in the
  emitted text. The text itself, of this and the other generators, is layout.
- In `TransRom` and `YosysReport`: command lines, the wording of messages, hexadecimal.
  The Yosys side of `YosysReport` is external: the log is what the parsers expect.
  Designs for ECP5, which `yosys_ecp5.mk` supports, are not among those of the run: the
  report takes their LUTs for Xilinx ones (`yosys_report.py` 139) and has no line for
  their flip-flops; nor are designs with neither LUTs nor flip-flops, for which it
  prints no summary.
- In `EmbedPage`: the coverage targets of `dv/rtlcosim`, from which the cosimulation
  reports come; the paths that `coverage-report` rewrites in them, `config.json` and the
  other files embed.py puts into the page, and the archive it can inject instead.
- In `ReqqDeps`: L2 operations, partial writes and atomics, prefetches, the read and
  coalescing buffers, victims that bypass the queue, the waits for the data
  queue, the order of the picks (any eligible entry may be picked, which includes
  what the arbiters do) and more than one way. The mesh is external: it answers
  each request once, in any order.
- Components with status `not_modelled` in `PROJECT.json`, with the reason.

## Plan

Done: the building blocks and their proofs, both crossbars, the response
multiplexer, the maintenance machine, allocation, the dependency lists of L3; the
scripts, the register block and the CSR file they generate.

1. `ReqqDeps` with L2: partial writes and atomics (paired entries), the coalescing
   buffer's victims, the read buffer with its squashing of installs
   (`ReqqDeps` + `Rbuf` composed); the yield between L2 and L3 picks.
2. Mesh side: data queue, mesh master and slave, bridge of L3 to memory; then the
   assumption of `ReqqDeps` on the mesh becomes a property of a module.
3. Data cache: `ReplayQueue` (wraps of ages, wake-ups lost by fills), miss handler,
   cache-operation units; `Reduce` between two minions.
4. Page table walker with the shared path; barrier and message registers beside
   `CsrFile`.
5. Proofs: `DepsIInv` with the entries of item 1 in the lists, paired ones included.

Composition planned: `ReqqAlloc` with `IdxCopSm` in place of its abstract walk,
once the proofs give the latter an abstract specification worth refining.
