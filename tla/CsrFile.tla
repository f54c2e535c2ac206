------------------------------ MODULE CsrFile ------------------------------
(***************************************************************************)
(* The registers gen_esr.py writes for csr.csv, as the emitted sections    *)
(* behave inside intpipe_csr_file.sv: an access is decoded and read in MEM *)
(* and writes its register at the end of WB, one clock later, through      *)
(* enables, clocks and resets the generator chooses per row. The core      *)
(* around it (intpipe_top.sv) issues at most one access a clock and keeps  *)
(* some of them apart.                                                     *)
(***************************************************************************)
EXTENDS XsrTypes, FiniteSets

CONSTANTS Defines,      \* the SystemVerilog defines of the build
          Threads,      \* CORE_NR_THREADS threads, from 0
          Legal,        \* register -> the words it accepts, where not every one
          Bubbled,      \* registers the core follows an access to with a bubble
          WriteSafe,    \* registers accessed without waiting for the pipeline to drain
          Replayable,   \* registers whose writes the core may have to replay
          Operands      \* the words an instruction brings to WB

ASSUME CsrFileAssumption ==
    /\ 0 \in Threads
    /\ Operands \subseteq SUBSET (0 .. BusWidth - 1)

VARIABLES csr_regs,     \* the registers of the build, in the order of the table
          resets,       \* the resets asserted in this clock
          wb,           \* the instruction in WB
          reg,          \* the storage, one word per copy of a register
          reg_en        \* the copies enabled for a write

\* History, of the writes a warm reset catches in MEM: what became of them depends
\* on it in no way.
VARIABLES caught,       \* the enables of such a write, while they are still up
          lost          \* the registers rewritten through them in the last clock

csr_vars == <<csr_regs, resets, wb, reg, reg_en, caught, lost>>

-----------------------------------------------------------------------------
(* The registers.                                                          *)

Word == 0 .. BusWidth - 1

\* Rows under a define the build does not set are compiled out.
Present(regs) == SelectSeq(regs, LAMBDA r : r.ifdef = "" \/ r.ifdef \in Defines)

\* The address enum of the package takes every name and every address once, and a
\* shadow names a register: a build where this fails does not compile.
Compiles(regs) ==
    /\ \A i, j \in DOMAIN regs :
            regs[i].name = regs[j].name \/ regs[i].address = regs[j].address => i = j
    /\ \A i \in DOMAIN regs : regs[i].shadow # "" => \E j \in DOMAIN regs : regs[j].name = regs[i].shadow

Regs == {csr_regs[i] : i \in DOMAIN csr_regs}
RegNamed(n) == CHOOSE r \in Regs : r.name = n

Copy(r, thread) == IF r.shared THEN 0 ELSE thread

\* Registers with an enable, and those with storage of their own.
HasEnable(r) == ~IsHwired(r) /\ ~IsRo(r)
Stored(r)    == Writeable(r) /\ ~IsManual(r) /\ r.shadow = ""

CopiesOf(r) == {<<r.name, Copy(r, t)>> : t \in Threads}
Cells   == UNION {CopiesOf(r) : r \in {q \in Regs : Stored(q)}}
Enables == UNION {CopiesOf(r) : r \in {q \in Regs : HasEnable(q)}}

HasFields(r) == IsTyped(r) /\ r.type \in DOMAIN Types
Converted(r) == HasFields(r) /\ HasReserved(Types[r.type])

\* reg_X of reg_X_pre: the reserved fields read as zero.
View(words, cell) ==
    LET r == RegNamed(cell[1])
    IN  IF Converted(r) THEN NonReserved(Types[r.type], words[cell]) ELSE words[cell]

\* Shadow and destination of different types are converted into each other.
Merges(r, dest) == HasFields(r) /\ HasFields(dest) /\ r.type # dest.type

\* The value a read of r by a thread returns.
ReadValue(words, r, thread) ==
    CASE r.rdata # ""  -> Literal[r.rdata]
      [] r.rdata = "" /\ r.shadow # "" ->
            LET dest == RegNamed(r.shadow)
                word == View(words, <<dest.name, Copy(dest, thread)>>)
            IN  IF Merges(r, dest) THEN ReadAs(Types[dest.type], Types[r.type], word) ELSE word
      [] OTHER -> View(words, <<r.name, Copy(r, thread)>>)

-----------------------------------------------------------------------------
(* Instructions and resets.                                                *)

NoAccess == [thread |-> 0, name |-> "none", cmd |-> "N", rdata |-> {},
             fault |-> FALSE, replay |-> FALSE, rs |-> {}]

\* A request in MEM. "allowed" is the privilege check, "trapped" the condition
\* of the trap_if cell; an address without a register is an access too.
Addresses == {r.address : r \in Regs} \cup {Unmapped}
Requests == [thread : Threads, address : Addresses, cmd : {"R", "W", "S", "C"},
             allowed : BOOLEAN, trapped : BOOLEAN]

Decoded(q) == {r \in Regs : r.address = q.address}
Traps(q, r) == r.trap_if # "" /\ q.trapped

\* id_csr_flush: after a write of any other register the thread waits, whatever
\* its next instruction is.
Flushes == wb.cmd # "R" /\ wb.name \notin WriteSafe

\* id_ctrl_stall_csr and the kills of MEM, for the thread of the access in WB: it
\* goes on to a safe register, unless that access flushes, faults or is replayed.
FollowsItself(q) ==
    /\ \E r \in Decoded(q) : r.name \in WriteSafe
    /\ ~Flushes /\ ~wb.fault /\ ~wb.replay

\* Mutant: a shared register needs no bubble.
MayFollowClose(q) == wb.cmd = "N" \/ q.thread # wb.thread \/ FollowsItself(q)

\* The access of either thread to a register of the list never comes right behind
\* another (id_csr_shared).
MayFollow(q) ==
    \/ wb.cmd = "N"
    \/ /\ q.thread # wb.thread \/ FollowsItself(q)
       /\ \A r \in Decoded(q) : r.name \notin Bubbled

ResetSignals(kind) ==
    CASE kind = "none" -> {}
      [] kind \in {"warm_edge", "warm"} -> {"w"}
      [] kind = "cold" -> {"c", "d", "w"}

ResetOf(r) ==
    CASE r.reset = "GLOBAL" -> "c" [] r.reset = "DEBUG" -> "d"
      [] r.reset = "NON-DEBUG" -> "w" [] OTHER -> "c"

HasReset(r) == r.resetVal \notin {"", "'x"}
InReset(r) == HasReset(r) /\ ResetOf(r) \in ResetSignals(resets)

-----------------------------------------------------------------------------
CsrTypeOK ==
    /\ resets \in {"none", "warm_edge", "warm", "cold"}
    /\ wb.thread \in Threads /\ wb.cmd \in {"N", "R", "W", "S", "C"}
    /\ wb.rdata \subseteq Word /\ wb.rs \subseteq Word
    /\ wb.fault \in BOOLEAN /\ wb.replay \in BOOLEAN
    /\ reg \in [Cells -> SUBSET Word]
    /\ \A r \in Regs : Stored(r) /\ r.type = "" =>
            \A c \in CopiesOf(r) : \A b \in reg[c] : b < PortWidth(r)
    /\ reg_en \subseteq Enables /\ caught \subseteq Enables /\ lost \subseteq Cells

\* A word a register can hold at power-up, when it has no reset value.
PowerUp(r) ==
    IF HasFields(r) THEN SUBSET (0 .. Size(Types[r.type]) - 1)
                    ELSE SUBSET (0 .. PortWidth(r) - 1)

CsrInit ==
    /\ \E t \in Tables :
            /\ Format(t) = "csr" /\ Generates(t, "")
            /\ csr_regs = Present(ParseCsv(t, ""))
            /\ Compiles(csr_regs)
    /\ resets = "cold"
    /\ wb = NoAccess
    /\ reg \in {f \in [Cells -> SUBSET Word] :
                    \A c \in Cells : LET r == RegNamed(c[1])
                                     IN  IF HasReset(r) THEN f[c] = Literal[r.resetVal]
                                                        ELSE f[c] \in PowerUp(r)}
    /\ reg_en = {} /\ caught = {} /\ lost = {}

-----------------------------------------------------------------------------
(* MEM: decode and read.                                                   *)

mem_wen(q) == q.allowed /\ q.cmd # "R"

reg_en_next(q) ==
    {<<r.name, Copy(r, q.thread)>> :
        r \in {p \in Decoded(q) : HasEnable(p) /\ mem_wen(q) /\ ~Traps(q, p)}}

Captured(q, rs, replay) ==
    [thread |-> q.thread,
     name   |-> IF Decoded(q) = {} THEN "none" ELSE (CHOOSE r \in Decoded(q) : TRUE).name,
     cmd    |-> q.cmd,
     rdata  |-> IF Decoded(q) = {} THEN {}
                ELSE ReadValue(reg, CHOOSE r \in Decoded(q) : TRUE, q.thread),
     fault  |-> \/ ~q.allowed \/ Decoded(q) = {}
                \/ \E r \in Decoded(q) : Traps(q, r) \/ (IsRo(r) /\ q.cmd # "R"),
     replay |-> replay,
     rs     |-> rs]

-----------------------------------------------------------------------------
(* WB: write.                                                              *)

wb_wdata ==
    CASE wb.cmd = "S" -> wb.rdata \cup wb.rs
      [] wb.cmd = "C" -> wb.rdata \ wb.rs
      [] OTHER -> wb.rs

CpuWbWen == wb.cmd \in {"W", "S", "C"}

\* What register r is written with, given the word on its write port.
WriteData(r, old, d) ==
    CASE Converted(r) -> WriteType(Types[r.type], old, d)
      [] HasFields(r) /\ ~Converted(r) -> d \cap (0 .. Size(Types[r.type]) - 1)
      [] OTHER -> d \cap (0 .. PortWidth(r) - 1)

\* What a write of d through shadow r makes of its destination: a shadow with
\* fields of its own is converted, then merged.
ShadowWrite(r, dest, old, d) ==
    LET own == IF HasFields(r) THEN WriteData(r, {}, d) ELSE d \cap (0 .. PortWidth(dest) - 1)
    IN  IF Merges(r, dest) THEN WriteAs(Types[dest.type], Types[r.type], old, own) ELSE own

\* The shadows through which copy c is written in this clock.
ShadowsOf(c) ==
    {r \in Regs : Writeable(r) /\ ~IsManual(r) /\ r.shadow = c[1] /\ <<r.name, c[2]>> \in reg_en}

\* Shadows are assigned first, so that a write of the register itself wins. The
\* data of a latched register is assigned in every clock, from wb_wdata_1p: that
\* is the word in WB whenever the instruction there is a write.
reg_next ==
    [c \in Cells |->
        LET r == RegNamed(c[1])
        IN  CASE r.latch -> WriteData(r, View(reg, c), wb_wdata)
              [] ~r.latch /\ c \in reg_en -> WriteData(r, View(reg, c), wb_wdata)
              [] ~r.latch /\ c \notin reg_en /\ ShadowsOf(c) # {} ->
                    ShadowWrite(CHOOSE s \in ShadowsOf(c) : TRUE, r, View(reg, c), wb_wdata)
              [] OTHER -> View(reg, c)]

\* satp and matp keep their value when the new one is not legal.
latch_clk_en ==
    {c \in Cells :
        /\ RegNamed(c[1]).latch
        /\ c \in reg_en \/ ShadowsOf(c) # {}
        /\ c[1] \in DOMAIN Legal => wb_wdata \in Legal[c[1]]}

\* Mutant: the write clock runs for an instruction that is replayed.
ClockWbAlways == wb.cmd # "N" \/ resets # "none"

clock_wb == (wb.cmd # "N" /\ ~wb.replay) \/ resets # "none"

\* Mutant: the clock of the enables runs for accesses in MEM only.
clock_decMem(valid) == valid \/ resets = "cold"

\* The enables move on a clock of their own, and only the cold reset clears them.
clock_dec(valid) == valid \/ CpuWbWen \/ resets = "cold"

WriteSeq ==
    reg' = [c \in Cells |->
        LET r == RegNamed(c[1])
        IN  CASE InReset(r) -> Literal[r.resetVal]
              [] ~InReset(r) /\ (r.aon \/ clock_wb) /\ (r.latch => c \in latch_clk_en) -> reg_next[c]
              [] OTHER -> reg[c]]

NextResets ==
    resets' \in CASE resets = "none" -> {"none", "warm_edge", "cold"}
                  [] resets = "warm_edge" -> {"warm"}
                  [] resets \in {"warm", "cold"} -> {"none"}

\* The register that is read and written under the name of r.
Holder(r) == IF r.shadow = "" THEN r.name ELSE r.shadow

\* The registers that take the result of every instruction: their clock never
\* stops, and an enable that has no write in WB is up.
Overwritten ==
    {c \in Cells : /\ RegNamed(c[1]).aon
                   /\ \E e \in caught : Holder(RegNamed(e[1])) = c[1] /\ e[2] = c[2]}

-----------------------------------------------------------------------------
\* A clock in which an access is in MEM, while the core runs or in the first
\* clock of a warm reset. The reset takes the access out of WB, but neither its
\* operand nor, when it is a write, its enable.
Issue ==
    /\ resets \in {"none", "warm_edge"}
    /\ \E q \in Requests, rs \in Operands \cup {{}}, replay \in BOOLEAN :
        /\ MayFollow(q)
        /\ q.cmd = "R" <=> rs = {}
        /\ q.trapped => \E r \in Decoded(q) : r.trap_if # ""
        /\ replay => \E r \in Decoded(q) : r.name \in Replayable
        /\ reg_en' = reg_en_next(q)
        /\ wb' = IF resets = "none" THEN Captured(q, rs, replay) ELSE [NoAccess EXCEPT !.rs = rs]
        /\ caught' = IF resets = "none" THEN {} ELSE reg_en_next(q)
    /\ lost' = Overwritten
    /\ WriteSeq /\ NextResets
    /\ UNCHANGED csr_regs

\* A clock without one. The result of another instruction is on the write port:
\* it is taken as zero, unless an enable is left for it.
NoIssue ==
    /\ caught' = IF resets = "cold" THEN {} ELSE caught
    /\ lost' = {}
    /\ \E rs \in {{}} \cup (IF caught' = {} THEN {} ELSE Operands) :
            wb' = [NoAccess EXCEPT !.rs = rs]
    /\ reg_en' = IF clock_dec(FALSE) THEN {} ELSE reg_en
    /\ WriteSeq /\ NextResets
    /\ UNCHANGED csr_regs

CsrNext == Issue \/ NoIssue

CsrSpec == CsrInit /\ [][CsrNext]_csr_vars

-----------------------------------------------------------------------------
(* Correctness.                                                            *)

\* The write in WB, and the copy it is for.
Writes == wb.cmd \in {"W", "S", "C"} /\ ~wb.fault /\ HasEnable(RegNamed(wb.name))
Target == <<wb.name, Copy(RegNamed(wb.name), wb.thread)>>

\* The copy that is read under the name of r.
Source(r, thread) == <<Holder(r), Copy(RegNamed(Holder(r)), thread)>>

\* An enable is up only while the write it was raised for is in WB: no register
\* is ever written by a later instruction, by none, or twice. The one exception
\* is a write that a warm reset catches in MEM: its enable, and no other, stays
\* up behind it, with nothing in WB, until the next access is in MEM.
EnablesBelongToWb ==
    reg_en # {} => \/ Writes /\ reg_en = {Target}
                   \/ wb.cmd = "N" /\ reg_en = caught

\* What an access captured in MEM is still the value of its register in WB,
\* whatever the other thread, or a close access of its own, wrote in between: a
\* set or a clear of bits builds on it, and the instruction returns it. (Not so
\* the first access after a warm reset, when it reads the register the reset
\* caught a write of, and the clock of that register never stops.)
CapturedIsCurrent ==
    wb.cmd # "N" /\ wb.name # "none" /\ ~wb.fault =>
        LET r == RegNamed(wb.name)
        IN  Source(r, wb.thread) \in lost \/ wb.rdata = ReadValue(reg, r, wb.thread)

\* What a table has to observe for the accesses to be steps of their own. A
\* register that is read from its storage has one, is followed by a bubble when
\* the threads share it, and is not safe to be accessed close behind a write; a
\* shadow is shared as its register is, written like it and never a name of a
\* latch; only latches refuse words; and what is replayed is not clocked without
\* regard to the replay.
TableRules(regs) ==
    \A i, j \in DOMAIN regs :
        LET r == regs[i]
            d == regs[j]
        IN  d.name = Holder(r) =>
                /\ r.name # ""
                /\ r.rdata = "" => /\ Stored(d) /\ (d.shared => r.name \in Bubbled)
                                   /\ r.name \notin WriteSafe
                /\ r.shadow # "" => r.shared = d.shared /\ ~d.latch
                /\ r.shadow # "" /\ HasEnable(r) => Writeable(r) /\ ~IsManual(r)
                /\ r.name \in DOMAIN Legal => r.latch
                /\ r.name \in Replayable => ~d.aon

\* A shadow of a register with fields has fields of its own, so that it is merged
\* into the register and never written over it.
ShadowsMerge(regs) ==
    \A i, j \in DOMAIN regs :
        regs[i].shadow = regs[j].name /\ Converted(regs[j]) => Merges(regs[i], regs[j])

\* The word the access in WB makes of the register as it is now.
NewWord ==
    LET old == ReadValue(reg, RegNamed(wb.name), wb.thread)
    IN  CASE wb.cmd = "W" -> wb.rs
          [] wb.cmd = "S" -> old \cup wb.rs
          [] wb.cmd = "C" -> old \ wb.rs

\* What copy c should read as after this clock.
Expected(c) ==
    LET r == RegNamed(wb.name)
        dest == RegNamed(c[1])
    IN  IF ~Writes \/ wb.replay \/ (c[1] \in DOMAIN Legal /\ NewWord \notin Legal[c[1]])
        THEN View(reg, c)
        ELSE CASE c = Target -> WriteData(dest, View(reg, c), NewWord)
               [] c # Target /\ r.shadow = c[1] /\ Target[2] = c[2] ->
                        ShadowWrite(r, dest, View(reg, c), NewWord)
               [] OTHER -> View(reg, c)

\* Every access is one step on the registers as they are when it leaves WB: its
\* own copy, or the fields its name shares with the register it shadows, take
\* the new word, and nothing else moves, of this thread or the other. A faulting
\* access, a replayed one and an illegal value change nothing, and an enable that
\* a warm reset has left up changes no register but the one it is for, and that
\* only when its clock never stops. (In the clocks of a reset the core that would
\* replay an access is being reset itself.)
AccessesAreAtomic ==
    [][resets = "none" /\ (Writes => Source(RegNamed(wb.name), wb.thread) \notin lost) =>
          \A c \in Cells \ Overwritten :
              View(reg', c) = View([reg EXCEPT ![c] = Expected(c)], c)]_csr_vars

\* A read-only field holds its value, or takes the constant its type gives it,
\* through whichever name the register is written: only a reset sets it.
ReadOnlyFieldsHold ==
    [][\A c \in Cells : LET r == RegNamed(c[1])
                            ro == BitsWhere(Types[r.type], IsReadOnly)
                        IN  Converted(r) /\ ~InReset(r) =>
                                reg'[c] \cap ro \in {reg[c] \cap ro, FixedBits(Types[r.type], reg[c])}]_csr_vars

\* A field whose name in csr_types says that it is zero reads as zero.
ZeroFieldsReadZero ==
    \A c \in Cells : LET r == RegNamed(c[1])
                     IN  HasFields(r) =>
                            \A i \in DOMAIN Types[r.type] :
                                Types[r.type][i].name.tail \in {"-ZERO", " - ZERO"} =>
                                    View(reg, c) \cap BitsOf(Types[r.type], i) = {}

=============================================================================
