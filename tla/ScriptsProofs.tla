---------------------------- MODULE ScriptsProofs ----------------------------
(***************************************************************************)
(* Proofs about what the scripts write.  Of the two register files of      *)
(* gen_esr.py, for every table: the APB block and the CSR file of the      *)
(* pipeline.  Of the coverage dashboard, for every number of versions: the *)
(* backup stays free of data, and a finished recipe leaves today's page.   *)
(* Of the ROM scripts, for every tree and selection of modules: the images *)
(* agree, and the emitted modules answer what their tables say.  Of the    *)
(* synthesis report, for every design: it is the flattened design.         *)
(***************************************************************************)
EXTENDS EsrBlock, CsrFile, EmbedPage, TransRom, YosysReport,
        FiniteSetTheorems, WellFoundedInduction, TLAPS

(***************************************************************************)
(* The register block.  What is answered is current, and an enable output  *)
(* lasts for one clock: both rest on the order of a transfer on the bus, a *)
(* setup clock before every access clock.                                  *)
(***************************************************************************)
\* The block is that of a table.
FromTable ==
    \E t \in Tables : Format(t) = "esr" /\ Generates(t, Mod) /\ port_regs = PortRegs(t)

\* The requests the master can drive.
OnBus == apb_req \in SetupRequests \cup {[q EXCEPT !.penable = TRUE] : q \in SetupRequests}
                                   \cup {Idle}

\* The enable outputs, and when one can be high: not in an access clock, since
\* an access clock follows a setup clock, which clears them.
EnablesAfterAccess ==
    /\ DOMAIN out_en_q = Names(rw_regs)
    /\ s1_access => \A n \in Names(rw_regs) : ~out_en_q[n]

\* What was captured for a write is the word on the bus, as far as the block is wide.
WriteCaptured ==
    s1_access /\ apb_req.pwrite => s1_wdata_q = Truncated(apb_req.pwdata, data_width)

EsrIInv ==
    FromTable /\ OnBus /\ EnablesAfterAccess /\ AnswersAreCurrent /\ WriteCaptured

-----------------------------------------------------------------------------
\* An address names one register of the block at most.
LEMMA OneRegister ==
    ASSUME FromTable, NEW r \in port_regs, NEW s \in port_regs, r.address = s.address
    PROVE  r = s
BY EsrBlockAssumption DEF FromTable

\* And so does a name.
LEMMA RegisterNamed ==
    ASSUME FromTable, NEW r \in rw_regs
    PROVE  /\ r.name \in Names(rw_regs)
           /\ (CHOOSE s \in rw_regs : s.name = r.name) = r
           /\ \A s \in rw_regs : s.name = r.name => s = r
<1>1. \A s \in rw_regs : s.name = r.name => s = r
  BY EsrBlockAssumption DEF FromTable, rw_regs
<1>2. QED
  BY <1>1 DEF Names

\* The width of a register is a number, its column being read or not.
LEMMA WidthIsNumber == \A r : PortWidth(r) \in Nat
BY XsrTableAssumption DEF PortWidth

\* Of finitely many registers one is the widest: a smallest set without one would
\* have one as soon as any register is taken out, and that or the one taken out
\* would be the widest of the set.
LEMMA WidestExists ==
    ASSUME NEW regs, IsFiniteSet(regs), regs # {}
    PROVE  \E r \in regs : \A s \in regs : PortWidth(s) <= PortWidth(r)
<1> DEFINE Without(T) == T # {} /\ ~\E r \in T : \A s \in T : PortWidth(s) <= PortWidth(r)
           less == OpToRel(<, Nat)
           sizes == {Cardinality(T) : T \in {U \in SUBSET regs : Without(U)}}
<1> SUFFICES ASSUME Without(regs) PROVE FALSE
  OBVIOUS
<1>1. \A T \in SUBSET regs : IsFiniteSet(T) /\ Cardinality(T) \in Nat
  BY FS_Subset, FS_CardinalityType
<1>2. sizes \subseteq Nat /\ Cardinality(regs) \in sizes
  BY <1>1
<1>3. PICK n \in sizes : \A m \in sizes : <<m, n>> \notin less
  BY <1>2, NatLessThanWellFounded, WFMin
<1>4. PICK T \in SUBSET regs : Without(T) /\ Cardinality(T) = n
  BY <1>3
<1>5. PICK x \in T : TRUE
  BY <1>4
<1>6. Cardinality(T \ {x}) = n - 1 /\ T \ {x} \in SUBSET regs
  BY <1>1, <1>4, <1>5, FS_RemoveElement
<1>7. ~Without(T \ {x})
  <2> SUFFICES ASSUME Without(T \ {x}) PROVE FALSE
    OBVIOUS
  <2>1. n - 1 \in sizes
    BY <1>6
  <2> HIDE DEF sizes, less
  <2>2. n \in Nat /\ n - 1 \in Nat /\ n - 1 < n
    BY <1>2, <1>3, <2>1
  <2>3. <<n - 1, n>> \in less
    BY <2>2 DEF less, OpToRel
  <2>4. QED
    BY <1>3, <2>1, <2>3
<1>8. CASE T \ {x} = {}
  <2>1. T = {x}
    BY <1>5, <1>8
  <2>2. PortWidth(x) <= PortWidth(x)
    BY WidthIsNumber
  <2>3. QED
    BY <1>4, <2>1, <2>2
<1>9. CASE T \ {x} # {}
  <2>1. PICK w \in T \ {x} : \A s \in T \ {x} : PortWidth(s) <= PortWidth(w)
    BY <1>7, <1>9
  <2>2. PICK u \in {w, x} : PortWidth(w) <= PortWidth(u) /\ PortWidth(x) <= PortWidth(u)
    BY WidthIsNumber
  <2>3. \A s \in T : PortWidth(s) <= PortWidth(u)
    BY <2>1, <2>2, WidthIsNumber
  <2>4. QED
    BY <1>4, <1>5, <2>2, <2>3
<1>10. QED
  BY <1>8, <1>9

\* No register is wider than the captured words, so that none of its bits is lost.
LEMMA NoneWider ==
    ASSUME FromTable, NEW r \in port_regs
    PROVE  PortWidth(r) \in Nat /\ data_width \in Nat /\ PortWidth(r) <= data_width
<1> DEFINE widths == {PortWidth(s) : s \in port_regs}
<1>1. IsFiniteSet(port_regs)
  BY EsrBlockAssumption DEF FromTable
<1>2. \E w \in widths : \A v \in widths : v <= w
  BY <1>1, WidestExists
<1>3. WidestOf(widths) \in widths /\ \A v \in widths : v <= WidestOf(widths)
  BY <1>2 DEF WidestOf
<1>4. data_width = WidestOf(widths)
  BY DEF data_width
<1>5. QED
  BY <1>3, <1>4, WidthIsNumber

\* Cutting a word to the block first takes nothing from a register.
LEMMA CutTwice ==
    ASSUME FromTable, NEW r \in port_regs, NEW word
    PROVE  Truncated(Truncated(word, data_width), PortWidth(r)) = Truncated(word, PortWidth(r))
<1>1. 0 .. PortWidth(r) - 1 \subseteq 0 .. data_width - 1
  BY NoneWider
<1>2. QED
  BY <1>1 DEF Truncated

\* What the case over the address reads is the register addressed.
LEMMA ReadsRegister ==
    ASSUME FromTable, NEW r \in rw_regs, Addressed(r)
    PROVE  s0_rdata = reg_q[r.name]
<1>1. r \in port_regs
  BY DEF rw_regs
<1>2. (CHOOSE s \in port_regs : Addressed(s)) = r
  <2> DEFINE c == CHOOSE s \in port_regs : Addressed(s)
  <2>1. c \in port_regs /\ Addressed(c)
    BY <1>1
  <2>2. QED
    BY <1>1, <2>1, OneRegister DEF Addressed
<1>3. Writeable(r)
  BY DEF rw_regs
<1>4. QED
  BY <1>1, <1>2, <1>3 DEF s0_rdata

\* A setup has no enable yet, the access it leads to has it, and an idle bus has
\* neither.
LEMMA EnableOfRequests ==
    /\ \A q \in SetupRequests : q.penable = FALSE /\ [q EXCEPT !.penable = TRUE].penable = TRUE
    /\ Idle.psel = FALSE /\ Idle.penable = FALSE
<1>1. ASSUME NEW q \in SetupRequests
      PROVE  q.penable = FALSE /\ [q EXCEPT !.penable = TRUE].penable = TRUE
  <2>1. q.penable \in {FALSE}
    BY DEF SetupRequests
  <2>2. [q EXCEPT !.penable = TRUE].penable = TRUE
    BY DEF SetupRequests
  <2>3. QED
    BY <2>1, <2>2
<1>2. QED
  BY <1>1 DEF Idle

\* Every step but a setup leads to a clock without an access, and a setup keeps
\* the address and the direction.
LEMMA NextRequests ==
    ASSUME OnBus, NextRequest
    PROVE  /\ OnBus'
           /\ s1_access' => s0_setup
           /\ s0_setup => /\ apb_req'.paddr = apb_req.paddr
                          /\ apb_req'.pwrite = apb_req.pwrite
                          /\ apb_req'.pwdata = apb_req.pwdata
<1>1. CASE s0_setup
  <2>1. apb_req \in SetupRequests
    BY <1>1, EnableOfRequests DEF OnBus, s0_setup
  <2>2. apb_req' = [apb_req EXCEPT !.penable = TRUE]
    BY <1>1 DEF NextRequest
  <2>3. QED
    BY <1>1, <2>1, <2>2 DEF OnBus, SetupRequests
<1>2. CASE ~s0_setup
  <2>1. apb_req' \in SetupRequests \cup {Idle}
    BY <1>2 DEF NextRequest
  <2>2. ~s1_access'
    BY <2>1, EnableOfRequests DEF s1_access
  <2>3. QED
    BY <1>2, <2>1, <2>2 DEF OnBus
<1>3. QED
  BY <1>1, <1>2

\* The block starts idle, with no enable up.
LEMMA EsrInitially == EsrInit => EsrIInv
<1> SUFFICES ASSUME EsrInit PROVE EsrIInv
  OBVIOUS
<1>1. ~s1_access
  BY DEF EsrInit, s1_access, Idle
<1>2. QED
  BY <1>1 DEF EsrInit, EsrIInv, FromTable, OnBus, EnablesAfterAccess, AnswersAreCurrent,
              WriteCaptured

\* The answer in an access clock, and the word it writes, were captured in the
\* setup clock before it.
LEMMA SetupCaptures ==
    ASSUME EsrIInv, Setup
    PROVE  AnswersAreCurrent' /\ WriteCaptured'
<1> USE DEF EsrIInv
<1>1. /\ apb_req'.paddr = apb_req.paddr /\ apb_req'.pwrite = apb_req.pwrite
      /\ apb_req'.pwdata = apb_req.pwdata
      /\ port_regs' = port_regs /\ reg_q' = reg_q
  BY NextRequests DEF Setup, Inputs
<1>2. rw_regs' = rw_regs
  BY <1>1 DEF rw_regs
<1>3. s1_addr_valid_q' <=> (\E r \in port_regs' : Addressed(r)')
  BY <1>1 DEF Setup, Addressed
<1>4. ASSUME NEW r \in rw_regs', Addressed(r)', ~apb_req'.pwrite
      PROVE  s1_rdata_q' = reg_q'[r.name]
  <2>1. r \in rw_regs /\ Addressed(r) /\ ~apb_req.pwrite
    BY <1>1, <1>2, <1>4 DEF Addressed
  <2>2. s0_rdata = reg_q[r.name]
    BY <2>1, ReadsRegister
  <2>3. QED
    BY <1>1, <2>1, <2>2 DEF Setup
<1>5. WriteCaptured'
  BY <1>1 DEF Setup, WriteCaptured, data_width, Truncated
<1>6. QED
  BY <1>3, <1>4, <1>5 DEF AnswersAreCurrent

\* Every clock keeps the invariant of the block.
LEMMA EsrSteps == EsrIInv /\ [EsrNext]_esr_vars => EsrIInv'
<1> SUFFICES ASSUME EsrIInv, [EsrNext]_esr_vars PROVE EsrIInv'
  OBVIOUS
<1> USE DEF EsrIInv
<1>1. CASE Setup
  <2>1. FromTable' /\ rw_regs' = rw_regs
    BY <1>1 DEF Setup, Inputs, FromTable, rw_regs
  <2>2. OnBus'
    BY <1>1, NextRequests DEF Setup, Inputs
  <2>3. EnablesAfterAccess'
    BY <1>1, <2>1 DEF Setup, NoEnable, EnablesAfterAccess
  <2>4. QED
    BY <1>1, <2>1, <2>2, <2>3, SetupCaptures
<1>2. CASE Access \/ NoTransfer
  <2>1. FromTable' /\ rw_regs' = rw_regs
    BY <1>2 DEF Access, NoTransfer, Inputs, FromTable, rw_regs
  <2>2. OnBus' /\ ~s1_access'
    BY <1>2, NextRequests DEF Access, NoTransfer, Inputs, s0_setup, s1_access
  <2>3. DOMAIN out_en_q' = Names(rw_regs)
    BY <1>2 DEF Access, NoTransfer, NoEnable
  <2>4. QED
    BY <2>1, <2>2, <2>3 DEF EnablesAfterAccess, AnswersAreCurrent, WriteCaptured
<1>3. CASE ResetBlock
  <2>1. FromTable' /\ rw_regs' = rw_regs
    BY <1>3 DEF ResetBlock, FromTable, rw_regs
  <2>2. OnBus' /\ ~s1_access'
    BY <1>3 DEF ResetBlock, OnBus, Idle, s1_access
  <2>3. DOMAIN out_en_q' = Names(rw_regs)
    BY <1>3 DEF ResetBlock, NoEnable
  <2>4. QED
    BY <2>1, <2>2, <2>3 DEF EnablesAfterAccess, AnswersAreCurrent, WriteCaptured
<1>4. CASE UNCHANGED esr_vars
  BY <1>4 DEF esr_vars, FromTable, OnBus, EnablesAfterAccess, AnswersAreCurrent, rw_regs,
              s1_access, Addressed, WriteCaptured, Truncated, data_width
<1>5. QED
  BY <1>1, <1>2, <1>3, <1>4 DEF EsrNext, Clock

\* The invariant of the block holds in every reachable state.
LEMMA EsrInvariant == EsrSpec => []EsrIInv
BY EsrInitially, EsrSteps, PTL DEF EsrSpec

-----------------------------------------------------------------------------
\* For every table, reset and sequence of transfers: an access clock answers a
\* read with the register as it is in that clock, and flags exactly the
\* addresses without a register.
THEOREM AnswersAlwaysCurrent == EsrSpec => []AnswersAreCurrent
<1>1. EsrIInv => AnswersAreCurrent
  BY DEF EsrIInv
<1>2. QED
  BY <1>1, EsrInvariant, PTL

\* No enable output is ever high for two clocks in a row, so that a consumer that
\* counts clocks never counts a transfer twice.
THEOREM PulseAlwaysLastsOneClock == EsrSpec => PulseLastsOneClock
<1>1. EsrIInv /\ [EsrNext]_esr_vars =>
          [\A r \in rw_regs : out_en_q[r.name] => ~out_en_q'[r.name]]_esr_vars
  <2> SUFFICES ASSUME EsrIInv, EsrNext, NEW r \in rw_regs, out_en_q[r.name]
               PROVE  ~out_en_q'[r.name]
    OBVIOUS
  <2>1. r.name \in Names(rw_regs)
    BY DEF Names
  <2>2. ~Access
    BY <2>1 DEF EsrIInv, EnablesAfterAccess, Access
  <2>3. out_en_q' = NoEnable
    BY <2>2 DEF EsrNext, Clock, Setup, NoTransfer, ResetBlock
  <2>4. QED
    BY <2>1, <2>3 DEF NoEnable
<1>2. QED
  BY <1>1, EsrInvariant, PTL DEF EsrSpec, PulseLastsOneClock

\* A write changes the register it addresses to the word on the bus, all the bits
\* the register has, announces it when there is a bit of the block in the word,
\* and moves or announces no other register.
THEOREM WritesAlwaysAnnounced == EsrSpec => WritesAnnounced
<1> DEFINE Announced ==
        \A r \in rw_regs :
            IF Addressed(r)
            THEN /\ reg_q'[r.name] = Truncated(apb_req.pwdata, PortWidth(r))
                 /\ Truncated(apb_req.pwdata, data_width) # {} => out_en_q'[r.name]
            ELSE reg_q'[r.name] = reg_q[r.name] /\ ~out_en_q'[r.name]
<1>1. ASSUME EsrIInv, Clock, s1_access, apb_req.pwrite PROVE Announced
  <2> SUFFICES ASSUME NEW r \in rw_regs
               PROVE  IF Addressed(r)
                      THEN /\ reg_q'[r.name] = Truncated(apb_req.pwdata, PortWidth(r))
                           /\ Truncated(apb_req.pwdata, data_width) # {} => out_en_q'[r.name]
                      ELSE reg_q'[r.name] = reg_q[r.name] /\ ~out_en_q'[r.name]
    OBVIOUS
  <2>1. Access /\ s1_wdata_q = Truncated(apb_req.pwdata, data_width)
    BY <1>1 DEF Clock, Setup, NoTransfer, s0_setup, s1_access, EsrIInv, WriteCaptured
  <2>2. /\ r.name \in Names(rw_regs)
        /\ (CHOOSE s \in rw_regs : s.name = r.name) = r
        /\ \A s \in rw_regs : s.name = r.name => s = r
    BY <1>1, RegisterNamed DEF EsrIInv
  <2>3. reg_q'[r.name] = IF Addressed(r) THEN Truncated(s1_wdata_q, PortWidth(r)) ELSE reg_q[r.name]
    BY <1>1, <2>1, <2>2 DEF Access, WriteEnabled
  <2>4. out_en_q'[r.name] <=> s1_wdata_q # {} /\ Addressed(r)
    BY <2>1, <2>2 DEF Access, PulseEnabled
  <2>5. Truncated(s1_wdata_q, PortWidth(r)) = Truncated(apb_req.pwdata, PortWidth(r))
    BY <1>1, <2>1, CutTwice DEF EsrIInv, rw_regs
  <2>6. QED
    BY <2>1, <2>3, <2>4, <2>5
<1>2. EsrIInv /\ [EsrNext]_esr_vars => [Clock /\ s1_access /\ apb_req.pwrite => Announced]_esr_vars
  BY <1>1
<1>3. QED
  BY <1>2, EsrInvariant, PTL DEF EsrSpec, WritesAnnounced

(***************************************************************************)
(* The CSR file, for every build and number of threads.  The enables move  *)
(* on a clock that is gated, and are cleared by a reset that is not the    *)
(* one of the pipeline, and still belong to the write in WB, or to one     *)
(* that a warm reset has caught in MEM.                                    *)
(***************************************************************************)
\* While the enables of a write that was caught are up, nothing is in WB, and they
\* are all that are up.
CaughtAlone == caught # {} => wb.cmd = "N" /\ reg_en = caught

CsrIInv == Compiles(csr_regs) /\ EnablesBelongToWb /\ CaughtAlone

-----------------------------------------------------------------------------
\* In a build that compiles, a name is that of one register and an address
\* decodes to one register at most.
LEMMA NamesAndAddresses ==
    ASSUME Compiles(csr_regs), NEW r \in Regs
    PROVE  /\ RegNamed(r.name) = r
           /\ \A s \in Regs : s.address = r.address => s = r
<1>1. ASSUME NEW s \in Regs, s.name = r.name \/ s.address = r.address
      PROVE  s = r
  BY <1>1 DEF Regs, Compiles
<1>2. RegNamed(r.name) = r
  <2> DEFINE c == CHOOSE s \in Regs : s.name = r.name
  <2>1. c \in Regs /\ c.name = r.name
    OBVIOUS
  <2>2. QED
    BY <1>1, <2>1 DEF RegNamed
<1>3. QED
  BY <1>1, <1>2

\* An access raises no enable but that of the register it decodes to, and only
\* when it is a write that is captured without a fault.
LEMMA RaisedForDecoded ==
    ASSUME Compiles(csr_regs), NEW q \in Requests, NEW rs, NEW replay, reg_en_next(q) # {}
    PROVE  \E p \in Regs :
              /\ Decoded(q) = {p} /\ HasEnable(p)
              /\ reg_en_next(q) = {<<p.name, Copy(p, q.thread)>>}
              /\ Captured(q, rs, replay).name = p.name
              /\ Captured(q, rs, replay).thread = q.thread
              /\ Captured(q, rs, replay).cmd \in {"W", "S", "C"}
              /\ ~Captured(q, rs, replay).fault
<1>1. PICK p \in Decoded(q) : HasEnable(p) /\ mem_wen(q) /\ ~Traps(q, p)
  BY DEF reg_en_next
<1>2. p \in Regs /\ Decoded(q) = {p}
  BY <1>1, NamesAndAddresses DEF Decoded
<1>3. reg_en_next(q) = {<<p.name, Copy(p, q.thread)>>}
  BY <1>1, <1>2 DEF reg_en_next
<1>4. (CHOOSE r \in Decoded(q) : TRUE) = p
  BY <1>2
<1>5. q.cmd \in {"W", "S", "C"} /\ q.allowed
  BY <1>1 DEF mem_wen, Requests
<1>6. ~IsRo(p)
  BY <1>1 DEF HasEnable
<1>7. ~(\/ ~q.allowed \/ Decoded(q) = {}
        \/ \E r \in Decoded(q) : Traps(q, r) \/ (IsRo(r) /\ q.cmd # "R"))
  BY <1>1, <1>2, <1>5, <1>6
<1>8. ~Captured(q, rs, replay).fault
  BY <1>7 DEF Captured
<1>9. /\ Captured(q, rs, replay).name = p.name
      /\ Captured(q, rs, replay).thread = q.thread
      /\ Captured(q, rs, replay).cmd = q.cmd
  BY <1>2, <1>4 DEF Captured
<1>10. QED
  BY <1>1, <1>2, <1>3, <1>5, <1>8, <1>9

\* An access raises enables only together with the write they are for, or as a
\* reset takes it away.
LEMMA IssueKeeps ==
    ASSUME CsrIInv, Issue
    PROVE  EnablesBelongToWb' /\ CaughtAlone'
<1>1. Compiles(csr_regs) /\ csr_regs' = csr_regs
  BY DEF CsrIInv, Issue
<1>2. PICK q \in Requests, rs \in Operands \cup {{}}, replay \in BOOLEAN :
          /\ reg_en' = reg_en_next(q)
          /\ wb' = IF resets = "none" THEN Captured(q, rs, replay) ELSE [NoAccess EXCEPT !.rs = rs]
          /\ caught' = IF resets = "none" THEN {} ELSE reg_en_next(q)
  BY DEF Issue
<1>3. CASE reg_en' = {}
  BY <1>2, <1>3 DEF EnablesBelongToWb, CaughtAlone
<1>4. CASE resets # "none"
  <2>1. wb'.cmd = "N" /\ reg_en' = caught'
    BY <1>2, <1>4 DEF NoAccess
  <2>2. QED
    BY <2>1 DEF EnablesBelongToWb, CaughtAlone
<1>5. CASE reg_en' # {} /\ resets = "none"
  <2>1. PICK p \in Regs :
            /\ Decoded(q) = {p} /\ HasEnable(p)
            /\ reg_en_next(q) = {<<p.name, Copy(p, q.thread)>>}
            /\ Captured(q, rs, replay).name = p.name
            /\ Captured(q, rs, replay).thread = q.thread
            /\ Captured(q, rs, replay).cmd \in {"W", "S", "C"}
            /\ ~Captured(q, rs, replay).fault
    BY <1>1, <1>2, <1>5, RaisedForDecoded
  <2>2. wb' = Captured(q, rs, replay) /\ caught' = {}
    BY <1>2, <1>5
  <2>3. Regs' = Regs /\ RegNamed(p.name)' = p
    BY <1>1, NamesAndAddresses DEF Regs, RegNamed
  <2>4. Writes'
    BY <2>1, <2>2, <2>3 DEF Writes
  <2>5. Target' = <<p.name, Copy(p, q.thread)>>
    BY <2>1, <2>2, <2>3 DEF Target
  <2>6. QED
    BY <1>2, <2>1, <2>2, <2>4, <2>5 DEF EnablesBelongToWb, CaughtAlone
<1>6. QED
  BY <1>3, <1>4, <1>5

\* A clock without an access clears the enables of the write in WB, which keeps
\* their clock on, and leaves those of a write that was caught.
LEMMA NoIssueKeeps ==
    ASSUME CsrIInv, NoIssue
    PROVE  EnablesBelongToWb' /\ CaughtAlone'
<1>1. wb'.cmd = "N"
  BY DEF NoIssue, NoAccess
<1>2. CASE clock_dec(FALSE)
  <2>1. reg_en' = {}
    BY <1>2 DEF NoIssue
  <2>2. caught' = {}
    BY <1>2 DEF NoIssue, clock_dec, CpuWbWen, CsrIInv, CaughtAlone
  <2>3. QED
    BY <2>1, <2>2 DEF EnablesBelongToWb, CaughtAlone
<1>3. CASE ~clock_dec(FALSE)
  <2>1. reg_en' = reg_en /\ caught' = caught
    BY <1>3 DEF NoIssue, clock_dec
  <2>2. ~Writes
    BY <1>3 DEF clock_dec, CpuWbWen, Writes
  <2>3. reg_en # {} => reg_en = caught
    BY <2>2 DEF CsrIInv, EnablesBelongToWb
  <2>4. caught # {} => reg_en = caught
    BY DEF CsrIInv, CaughtAlone
  <2>5. QED
    BY <1>1, <2>1, <2>3, <2>4 DEF EnablesBelongToWb, CaughtAlone
<1>4. QED
  BY <1>2, <1>3

\* The enables belong to the write in WB, or to one that was caught, in every
\* reachable state.
LEMMA CsrInvariant == CsrSpec => []CsrIInv
<1>1. CsrInit => CsrIInv
  BY DEF CsrInit, CsrIInv, EnablesBelongToWb, CaughtAlone
<1>2. CsrIInv /\ [CsrNext]_csr_vars => CsrIInv'
  <2> SUFFICES ASSUME CsrIInv, [CsrNext]_csr_vars PROVE CsrIInv'
    OBVIOUS
  <2>1. Compiles(csr_regs)'
    BY DEF CsrIInv, CsrNext, Issue, NoIssue, csr_vars
  <2>2. CASE Issue
    BY <2>1, <2>2, IssueKeeps DEF CsrIInv
  <2>3. CASE NoIssue
    BY <2>1, <2>3, NoIssueKeeps DEF CsrIInv
  <2>4. CASE UNCHANGED csr_vars
    BY <2>1, <2>4 DEF csr_vars, CsrIInv, EnablesBelongToWb, CaughtAlone, Writes, Target, RegNamed, Regs
  <2>5. QED
    BY <2>2, <2>3, <2>4 DEF CsrNext
<1>3. QED
  BY <1>1, <1>2, PTL DEF CsrSpec

\* A register is written by the instruction that raised its enable and by no
\* other, though the clock that would clear the enable is gated and the reset that
\* would clear it is not the one of the pipeline: the only enable that outlives
\* its write is that of a write a warm reset has caught in MEM.
THEOREM EnablesAlwaysBelongToWb == CsrSpec => []EnablesBelongToWb
<1>1. CsrIInv => EnablesBelongToWb
  BY DEF CsrIInv
<1>2. QED
  BY <1>1, CsrInvariant, PTL

-----------------------------------------------------------------------------
(***************************************************************************)
(* Accesses as steps of their own, for every table that observes the rules *)
(* of TableRules.                                                          *)
(***************************************************************************)
\* The register of the instruction in WB, unless it has faulted.
WbNamed == wb.cmd # "N" /\ ~wb.fault =>
               \E r \in Regs : r.name = wb.name /\ (wb.replay => r.name \in Replayable)

\* A write in WB has its enable.
WritesEnabled == Writes => reg_en = {Target}

\* What the access in WB has read is the content of a copy that was rewritten
\* as it was read.
ReadLost == Source(RegNamed(wb.name), wb.thread) \in lost

\* What was read in MEM is current in WB.
ReadIsCurrent == wb.cmd # "N" /\ ~wb.fault =>
                     ReadLost \/ wb.rdata = ReadValue(reg, RegNamed(wb.name), wb.thread)

\* The enables, the table and all that an access in WB is about.
AtomicIInv == /\ CsrIInv /\ TableRules(csr_regs)
              /\ DOMAIN reg = Cells
              /\ WbNamed /\ WritesEnabled /\ ReadIsCurrent

\* A word of register r without its reserved fields.
Masked(r, w) == IF Converted(r) THEN NonReserved(Types[r.type], w) ELSE w

\* Masking once is enough.
LEMMA MaskedOnce == \A r, w : Masked(r, Masked(r, w)) = Masked(r, w)
BY DEF Masked, NonReserved

\* The register of a cell, and its storage as it reads.
LEMMA CellIs ==
    ASSUME Compiles(csr_regs), NEW c \in Cells
    PROVE  \E d \in Regs, t \in Threads :
              /\ Stored(d) /\ c = <<d.name, Copy(d, t)>>
              /\ c[1] = d.name /\ c[2] = Copy(d, t) /\ RegNamed(c[1]) = d
<1>1. PICK d \in Regs, t \in Threads : Stored(d) /\ c = <<d.name, Copy(d, t)>>
  BY DEF Cells, CopiesOf
<1>2. c[1] = d.name /\ c[2] = Copy(d, t)
  BY <1>1
<1>3. RegNamed(d.name) = d
  BY NamesAndAddresses
<1>4. QED
  BY <1>1, <1>2, <1>3

\* What the rules say of a register and the one it is a name of.
LEMMA RulesOf ==
    ASSUME TableRules(csr_regs), NEW r \in Regs, NEW d \in Regs, d.name = Holder(r)
    PROVE  /\ r.name # ""
           /\ r.rdata = "" => /\ Stored(d) /\ (d.shared => r.name \in Bubbled)
                              /\ r.name \notin WriteSafe
           /\ r.shadow # "" => r.shared = d.shared /\ ~d.latch
           /\ r.shadow # "" /\ HasEnable(r) => Writeable(r) /\ ~IsManual(r)
           /\ r.name \in DOMAIN Legal => r.latch
           /\ r.name \in Replayable => ~d.aon
<1>1. PICK i \in DOMAIN csr_regs, j \in DOMAIN csr_regs : r = csr_regs[i] /\ d = csr_regs[j]
  BY DEF Regs
<1>2. QED
  BY <1>1 DEF TableRules

\* What a clock without a reset makes of a cell.
LEMMA ClockOfCell ==
    ASSUME resets = "none", WriteSeq, NEW c \in Cells
    PROVE  reg'[c] = IF /\ RegNamed(c[1]).aon \/ clock_wb
                        /\ RegNamed(c[1]).latch => c \in latch_clk_en
                     THEN reg_next[c] ELSE reg[c]
<1> DEFINE r == RegNamed(c[1])
<1>1. ~InReset(r)
  BY DEF InReset, ResetSignals
<1>2. reg'[c] = CASE InReset(r) -> Literal[r.resetVal]
                  [] ~InReset(r) /\ (r.aon \/ clock_wb) /\ (r.latch => c \in latch_clk_en) -> reg_next[c]
                  [] OTHER -> reg[c]
  BY DEF WriteSeq
<1> HIDE DEF r
<1>3. reg'[c] = IF (r.aon \/ clock_wb) /\ (r.latch => c \in latch_clk_en) THEN reg_next[c] ELSE reg[c]
  BY <1>1, <1>2
<1>4. QED
  BY <1>3 DEF r

\* What its input is, in the clock when it is written and when it is not.
LEMMA InputOfCell ==
    ASSUME NEW c \in Cells
    PROVE  /\ RegNamed(c[1]).latch \/ c \in reg_en =>
                 reg_next[c] = WriteData(RegNamed(c[1]), View(reg, c), wb_wdata)
           /\ ~RegNamed(c[1]).latch /\ c \notin reg_en /\ ShadowsOf(c) # {} =>
                 reg_next[c] = ShadowWrite(CHOOSE s \in ShadowsOf(c) : TRUE, RegNamed(c[1]),
                                           View(reg, c), wb_wdata)
           /\ ~RegNamed(c[1]).latch /\ c \notin reg_en /\ ShadowsOf(c) = {} =>
                 reg_next[c] = View(reg, c)
<1> DEFINE r == RegNamed(c[1])
           direct == WriteData(r, View(reg, c), wb_wdata)
           through == ShadowWrite(CHOOSE s \in ShadowsOf(c) : TRUE, r, View(reg, c), wb_wdata)
           old == View(reg, c)
           shadows == ShadowsOf(c)
<1>1. reg_next[c] = CASE r.latch -> direct
                      [] ~r.latch /\ c \in reg_en -> direct
                      [] ~r.latch /\ c \notin reg_en /\ shadows # {} -> through
                      [] OTHER -> old
  BY DEF reg_next
<1> HIDE DEF r, direct, through, old, shadows
<1>2. /\ r.latch => reg_next[c] = direct
      /\ ~r.latch /\ c \in reg_en => reg_next[c] = direct
      /\ ~r.latch /\ c \notin reg_en /\ shadows # {} => reg_next[c] = through
      /\ ~r.latch /\ c \notin reg_en /\ shadows = {} => reg_next[c] = old
  BY <1>1
<1>3. QED
  BY <1>2 DEF r, direct, through, old, shadows

\* A cell that no enable is up for reads as before.
LEMMA NotEnabled ==
    ASSUME resets = "none", WriteSeq, NEW c \in Cells, c \notin reg_en, ShadowsOf(c) = {}
    PROVE  View(reg', c) = View(reg, c)
<1> DEFINE r == RegNamed(c[1])
<1>1. \A words : View(words, c) = Masked(r, words[c])
  BY DEF View, Masked
<1>2. c \notin latch_clk_en
  BY DEF latch_clk_en
<1>3. reg'[c] = reg[c] \/ reg'[c] = View(reg, c)
  BY <1>2, ClockOfCell, InputOfCell
<1>4. QED
  BY <1>1, <1>3, MaskedOnce

\* A cell whose write is up belongs to the register in WB, or to the one that
\* register is a shadow of.
LEMMA EnabledIs ==
    ASSUME AtomicIInv, Writes
    PROVE  LET r == RegNamed(wb.name)
           IN  /\ r \in Regs /\ r.name = wb.name /\ HasEnable(r)
               /\ wb.replay => r.name \in Replayable
               /\ reg_en = {Target} /\ Target = <<r.name, Copy(r, wb.thread)>>
               /\ \A c : ShadowsOf(c) =
                      {s \in {r} : /\ Writeable(r) /\ ~IsManual(r) /\ r.shadow = c[1]
                                  /\ c[2] = Copy(r, wb.thread)}
               /\ ~ReadLost => wb_wdata = NewWord
<1>1. PICK r \in Regs : r.name = wb.name /\ (wb.replay => r.name \in Replayable)
  BY DEF AtomicIInv, WbNamed, Writes
<1>2. RegNamed(wb.name) = r
  BY <1>1, NamesAndAddresses DEF AtomicIInv, CsrIInv
<1>3. reg_en = {Target} /\ Target = <<r.name, Copy(r, wb.thread)>> /\ HasEnable(r)
  BY <1>1, <1>2 DEF AtomicIInv, WritesEnabled, Target, Writes
<1>4. ASSUME NEW s \in Regs, s.name = r.name PROVE s = r
  BY <1>4, NamesAndAddresses DEF AtomicIInv, CsrIInv
<1>5. ASSUME NEW c
      PROVE  ShadowsOf(c) = {s \in {r} : /\ Writeable(r) /\ ~IsManual(r) /\ r.shadow = c[1]
                                        /\ c[2] = Copy(r, wb.thread)}
  <2>1. \A s \in Regs : <<s.name, c[2]>> \in reg_en <=> s = r /\ c[2] = Copy(r, wb.thread)
    BY <1>3, <1>4
  <2>2. QED
    BY <2>1 DEF ShadowsOf
<1>6. ~ReadLost => wb_wdata = NewWord
  BY DEF AtomicIInv, ReadIsCurrent, Writes, wb_wdata, NewWord
<1>7. QED
  BY <1>1, <1>2, <1>3, <1>5, <1>6

\* What a write of its own name makes of a cell.
LEMMA WriteOfTarget ==
    ASSUME AtomicIInv, resets = "none", WriteSeq, Writes, ~ReadLost, NEW c \in Cells, c = Target
    PROVE  reg'[c] = Expected(c) \/ (reg'[c] = reg[c] /\ Expected(c) = View(reg, c))
<1>1. PICK d \in Regs : Stored(d) /\ c[1] = d.name /\ RegNamed(c[1]) = d
  BY CellIs DEF AtomicIInv, CsrIInv
<1>2. d = RegNamed(wb.name)
  BY <1>1, EnabledIs
<1>3. d.name = Holder(d)
  BY <1>1 DEF Stored, Holder
<1>4. /\ d.name \in DOMAIN Legal => d.latch
      /\ d.name \in Replayable => ~d.aon
  BY <1>3, RulesOf DEF AtomicIInv
<1>5. c \in reg_en /\ wb_wdata = NewWord /\ (wb.replay => d.name \in Replayable)
  BY <1>2, EnabledIs
<1>6. reg_next[c] = WriteData(d, View(reg, c), NewWord)
  BY <1>1, <1>5, InputOfCell
<1>7. reg'[c] = IF (d.aon \/ clock_wb) /\ (d.latch => c \in latch_clk_en) THEN reg_next[c] ELSE reg[c]
  BY <1>1, ClockOfCell
<1>8. CASE wb.replay
  <2>1. ~clock_wb /\ ~d.aon
    BY <1>4, <1>5, <1>8 DEF clock_wb
  <2>2. QED
    BY <1>7, <1>8, <2>1 DEF Expected
<1>9. CASE ~wb.replay /\ c[1] \in DOMAIN Legal /\ NewWord \notin Legal[c[1]]
  <2>1. d.latch /\ c \notin latch_clk_en
    BY <1>1, <1>4, <1>5, <1>9 DEF latch_clk_en
  <2>2. QED
    BY <1>7, <1>9, <2>1 DEF Expected
<1>10. CASE ~wb.replay /\ ~(c[1] \in DOMAIN Legal /\ NewWord \notin Legal[c[1]])
  <2>1. clock_wb
    BY <1>10 DEF clock_wb, Writes
  <2>2. d.latch => c \in latch_clk_en
    BY <1>1, <1>5, <1>10 DEF latch_clk_en
  <2>3. Expected(c) = WriteData(d, View(reg, c), NewWord)
    BY <1>1, <1>10 DEF Expected
  <2>4. QED
    BY <1>6, <1>7, <2>1, <2>2, <2>3
<1>11. QED
  BY <1>8, <1>9, <1>10

\* What a write through a shadow makes of a cell.
LEMMA WriteThroughShadow ==
    ASSUME AtomicIInv, resets = "none", WriteSeq, Writes, ~ReadLost, NEW c \in Cells, c # Target,
           RegNamed(wb.name).shadow = c[1], Target[2] = c[2]
    PROVE  reg'[c] = Expected(c) \/ (reg'[c] = reg[c] /\ Expected(c) = View(reg, c))
<1>1. PICK d \in Regs : Stored(d) /\ c[1] = d.name /\ RegNamed(c[1]) = d
  BY CellIs DEF AtomicIInv, CsrIInv
<1>2. PICK r \in Regs : /\ r = RegNamed(wb.name) /\ HasEnable(r) /\ reg_en = {Target}
                        /\ wb.replay => r.name \in Replayable
                        /\ Target[2] = Copy(r, wb.thread)
  BY EnabledIs
<1>3. d.name = Holder(d)
  BY <1>1 DEF Stored, Holder
<1>4. d.name # "" /\ (d.name \in DOMAIN Legal => d.latch)
  BY <1>3, RulesOf DEF AtomicIInv
<1>5. d.name = Holder(r) /\ r.shadow # ""
  BY <1>1, <1>2, <1>4 DEF Holder
<1>6. /\ ~d.latch /\ Writeable(r) /\ ~IsManual(r)
      /\ r.name \in Replayable => ~d.aon
  BY <1>2, <1>5, RulesOf DEF AtomicIInv
<1>7. ShadowsOf(c) = {r} /\ wb_wdata = NewWord
  BY <1>2, <1>6, EnabledIs
<1>8. c \notin reg_en
  BY <1>2
<1>9. reg_next[c] = ShadowWrite(r, d, View(reg, c), NewWord)
  <2>1. (CHOOSE s \in ShadowsOf(c) : TRUE) = r
    BY <1>7
  <2>2. QED
    BY <1>1, <1>6, <1>7, <1>8, <2>1, InputOfCell
<1>10. reg'[c] = IF d.aon \/ clock_wb THEN reg_next[c] ELSE reg[c]
  BY <1>1, <1>6, ClockOfCell
<1>11. CASE wb.replay
  <2>1. ~clock_wb /\ ~d.aon
    BY <1>2, <1>6, <1>11 DEF clock_wb
  <2>2. QED
    BY <1>10, <1>11, <2>1 DEF Expected
<1>12. CASE ~wb.replay
  <2>1. clock_wb
    BY <1>12 DEF clock_wb, Writes
  <2>2. c[1] \notin DOMAIN Legal
    BY <1>1, <1>4, <1>6
  <2>3. Expected(c) = ShadowWrite(r, d, View(reg, c), NewWord)
    BY <1>1, <1>2, <1>12, <2>2 DEF Expected
  <2>4. QED
    BY <1>9, <1>10, <2>1, <2>3
<1>13. QED
  BY <1>11, <1>12

\* Without a write in WB a cell reads as before: an enable that is left up is for
\* another, or for one whose clock stands still.
LEMMA LeftAlone ==
    ASSUME AtomicIInv, resets = "none", WriteSeq, ~Writes, NEW c \in Cells, c \notin Overwritten
    PROVE  View(reg', c) = View(reg, c)
<1>1. PICK d \in Regs : Stored(d) /\ c[1] = d.name /\ RegNamed(c[1]) = d
  BY CellIs DEF AtomicIInv, CsrIInv
<1>2. CASE reg_en = {}
  BY <1>2, NotEnabled DEF ShadowsOf
<1>3. CASE reg_en # {} /\ ~d.aon
  <2>1. ~clock_wb
    BY <1>3 DEF AtomicIInv, CsrIInv, EnablesBelongToWb, clock_wb
  <2>2. reg'[c] = reg[c]
    BY <1>1, <1>3, <2>1, ClockOfCell
  <2>3. QED
    BY <2>2 DEF View
<1>4. CASE reg_en # {} /\ d.aon
  <2>1. \A e \in reg_en : ~(Holder(RegNamed(e[1])) = c[1] /\ e[2] = c[2])
    BY <1>1, <1>4 DEF AtomicIInv, CsrIInv, EnablesBelongToWb, Overwritten
  <2>2. Holder(d) = d.name /\ d.name # ""
    <3>1. Holder(d) = d.name
      BY <1>1 DEF Stored, Holder
    <3>2. QED
      BY <3>1, RulesOf DEF AtomicIInv
  <2>3. c \notin reg_en
    BY <1>1, <2>1, <2>2
  <2>4. ASSUME NEW s \in ShadowsOf(c) PROVE FALSE
    <3>1. s \in Regs /\ s.shadow = c[1] /\ <<s.name, c[2]>> \in reg_en
      BY DEF ShadowsOf
    <3>2. RegNamed(s.name) = s
      BY <3>1, NamesAndAddresses DEF AtomicIInv, CsrIInv
    <3>3. Holder(s) = c[1]
      BY <1>1, <2>2, <3>1 DEF Holder
    <3>4. QED
      BY <2>1, <3>1, <3>2, <3>3
  <2>5. QED
    BY <2>3, <2>4, NotEnabled
<1>5. QED
  BY <1>2, <1>3, <1>4

\* A cell reads after a clock as the access in WB makes it, and the others as
\* before.
LEMMA ClockIsAtomic ==
    ASSUME AtomicIInv, resets = "none", WriteSeq, Writes => ~ReadLost,
           NEW c \in Cells, c \notin Overwritten
    PROVE  View(reg', c) = View([reg EXCEPT ![c] = Expected(c)], c)
<1> DEFINE r == RegNamed(c[1])
<1>1. \A words : View(words, c) = Masked(r, words[c])
  BY DEF View, Masked
<1>2. [reg EXCEPT ![c] = Expected(c)][c] = Expected(c)
  BY DEF AtomicIInv
<1>3. SUFFICES Masked(r, reg'[c]) = Masked(r, Expected(c))
  BY <1>1, <1>2
<1>4. CASE Writes /\ c = Target
  <2>1. reg'[c] = Expected(c) \/ (reg'[c] = reg[c] /\ Expected(c) = View(reg, c))
    BY <1>4, WriteOfTarget
  <2>2. QED
    BY <1>1, <2>1, MaskedOnce
<1>5. CASE Writes /\ c # Target /\ RegNamed(wb.name).shadow = c[1] /\ Target[2] = c[2]
  <2>1. reg'[c] = Expected(c) \/ (reg'[c] = reg[c] /\ Expected(c) = View(reg, c))
    BY <1>5, WriteThroughShadow
  <2>2. QED
    BY <1>1, <2>1, MaskedOnce
<1>6. CASE ~Writes \/ (c # Target /\ ~(RegNamed(wb.name).shadow = c[1] /\ Target[2] = c[2]))
  <2>1. CASE ~Writes
    <3>1. View(reg', c) = View(reg, c)
      BY <2>1, LeftAlone
    <3>2. Expected(c) = View(reg, c)
      BY <2>1 DEF Expected
    <3>3. QED
      BY <1>1, <3>1, <3>2, MaskedOnce
  <2>2. CASE Writes
    <3>1. c \notin reg_en /\ ShadowsOf(c) = {}
      BY <1>6, <2>2, EnabledIs
    <3>2. View(reg', c) = View(reg, c)
      BY <3>1, NotEnabled
    <3>3. Expected(c) = View(reg, c)
      BY <1>6, <2>2 DEF Expected
    <3>4. QED
      BY <1>1, <3>2, <3>3, MaskedOnce
  <2>3. QED
    BY <2>1, <2>2
<1>7. QED
  BY <1>4, <1>5, <1>6

-----------------------------------------------------------------------------
\* What a request reads in MEM, no write that is in WB at that time changes: the
\* threads have copies of their own, or the core keeps the two apart.
LEMMA NotInTheWay ==
    ASSUME AtomicIInv, resets = "none", WriteSeq, NEW q \in Requests, MayFollow(q),
           NEW p \in Regs, Decoded(q) = {p}, NEW d \in Regs, d.name = Holder(p), p.rdata = "",
           <<d.name, Copy(d, q.thread)>> \notin Overwritten
    PROVE  View(reg', <<d.name, Copy(d, q.thread)>>) = View(reg, <<d.name, Copy(d, q.thread)>>)
<1> DEFINE c == <<d.name, Copy(d, q.thread)>>
<1>1. q.thread \in Threads
  BY DEF Requests
<1>2. Stored(d) /\ (d.shared => p.name \in Bubbled) /\ p.name \notin WriteSafe
  BY RulesOf DEF AtomicIInv
<1>3. c \in Cells
  <2>1. c \in CopiesOf(d)
    BY <1>1 DEF CopiesOf
  <2>2. d \in {s \in Regs : Stored(s)}
    BY <1>2
  <2>3. QED
    BY <2>1, <2>2 DEF Cells
<1>4. CASE ~Writes
  BY <1>3, <1>4, LeftAlone
<1>5. CASE Writes
  <2>1. PICK r \in Regs : /\ r = RegNamed(wb.name) /\ reg_en = {Target}
                          /\ Target = <<r.name, Copy(r, wb.thread)>>
    BY <1>5, EnabledIs
  <2>2. q.thread # wb.thread /\ ~d.shared
    BY <1>2, <1>5 DEF MayFollow, FollowsItself, Writes
  <2>3. c[2] = q.thread
    BY <2>2 DEF Copy
  <2>4. ASSUME r.name = d.name \/ r.shadow = d.name, Copy(r, wb.thread) = q.thread PROVE FALSE
    <3>1. d.name # ""
      <4>1. d.name = Holder(d)
        BY <1>2 DEF Stored, Holder
      <4>2. QED
        BY <4>1, RulesOf DEF AtomicIInv
    <3>2. CASE r.name = d.name
      BY <2>2, <2>4, <3>2, NamesAndAddresses DEF AtomicIInv, CsrIInv, Copy
    <3>3. CASE r.shadow = d.name
      <4>1. d.name = Holder(r)
        BY <3>1, <3>3 DEF Holder
      <4>2. r.shared = d.shared
        BY <3>1, <3>3, <4>1, RulesOf DEF AtomicIInv
      <4>3. QED
        BY <2>2, <2>4, <4>2 DEF Copy
    <3>4. QED
      BY <2>4, <3>2, <3>3
  <2>5. c \notin reg_en
    BY <2>1, <2>3, <2>4
  <2>6. ShadowsOf(c) = {}
    BY <1>5, <2>1, <2>3, <2>4, EnabledIs
  <2>7. QED
    BY <1>3, <2>5, <2>6, NotEnabled
<1>6. QED
  BY <1>4, <1>5

\* A read depends on the cell of the register alone.
LEMMA ReadOfCell ==
    ASSUME Compiles(csr_regs), NEW p \in Regs, NEW thread, NEW words,
           \A d \in Regs : d.name = Holder(p) /\ p.rdata = "" =>
                View(words, <<d.name, Copy(d, thread)>>) = View(reg, <<d.name, Copy(d, thread)>>)
    PROVE  ReadValue(words, p, thread) = ReadValue(reg, p, thread)
<1>1. CASE p.rdata # ""
  BY <1>1 DEF ReadValue
<1>2. CASE p.rdata = "" /\ p.shadow = ""
  BY <1>2 DEF ReadValue, Holder
<1>3. CASE p.rdata = "" /\ p.shadow # ""
  <2>1. PICK d \in Regs : d.name = p.shadow
    BY <1>3 DEF Regs, Compiles
  <2>2. RegNamed(p.shadow) = d
    BY <2>1, NamesAndAddresses
  <2>3. d.name = Holder(p)
    BY <1>3, <2>1 DEF Holder
  <2>4. View(words, <<d.name, Copy(d, thread)>>) = View(reg, <<d.name, Copy(d, thread)>>)
    BY <1>3, <2>3
  <2>5. QED
    BY <1>3, <2>2, <2>4 DEF ReadValue
<1>4. QED
  BY <1>1, <1>2, <1>3

\* An access is captured with what its register reads as one clock later.
LEMMA IssueCaptures ==
    ASSUME AtomicIInv, Issue
    PROVE  WbNamed' /\ WritesEnabled' /\ ReadIsCurrent'
<1>1. PICK q \in Requests, rs \in Operands \cup {{}}, replay \in BOOLEAN :
          /\ MayFollow(q)
          /\ replay => \E r \in Decoded(q) : r.name \in Replayable
          /\ reg_en' = reg_en_next(q)
          /\ wb' = IF resets = "none" THEN Captured(q, rs, replay) ELSE [NoAccess EXCEPT !.rs = rs]
  BY DEF Issue
<1>2. csr_regs' = csr_regs /\ WriteSeq /\ lost' = Overwritten
  BY DEF Issue
<1>3. CASE wb'.cmd = "N" \/ wb'.fault
  BY <1>3 DEF WbNamed, WritesEnabled, ReadIsCurrent, Writes
<1>4. CASE wb'.cmd # "N" /\ ~wb'.fault
  <2>1. resets = "none" /\ wb' = Captured(q, rs, replay)
    BY <1>1, <1>4 DEF NoAccess
  <2>2. /\ q.allowed /\ Decoded(q) # {}
        /\ \A r \in Decoded(q) : ~Traps(q, r) /\ ~(IsRo(r) /\ q.cmd # "R")
    BY <1>4, <2>1 DEF Captured
  <2>3. PICK p \in Regs : Decoded(q) = {p}
    BY <2>2, NamesAndAddresses DEF Decoded, AtomicIInv, CsrIInv
  <2>4. (CHOOSE r \in Decoded(q) : TRUE) = p
    BY <2>3
  <2>5. /\ wb'.name = p.name /\ wb'.thread = q.thread /\ wb'.cmd = q.cmd /\ wb'.replay = replay
        /\ wb'.rdata = ReadValue(reg, p, q.thread)
    BY <2>1, <2>3, <2>4 DEF Captured
  <2>6. Regs' = Regs /\ RegNamed(p.name)' = p
    BY <1>2, NamesAndAddresses DEF Regs, RegNamed, AtomicIInv, CsrIInv
  <2>7. WbNamed'
    BY <1>1, <2>3, <2>5, <2>6 DEF WbNamed
  <2>8. WritesEnabled'
    <3>1. SUFFICES ASSUME Writes' PROVE reg_en' = {Target}'
      BY DEF WritesEnabled
    <3>2. HasEnable(p) /\ q.cmd # "R"
      BY <2>5, <2>6, <3>1 DEF Writes
    <3>3. reg_en_next(q) = {<<p.name, Copy(p, q.thread)>>}
      BY <2>2, <2>3, <3>2 DEF reg_en_next, mem_wen
    <3>4. Target' = <<p.name, Copy(p, q.thread)>>
      BY <2>5, <2>6 DEF Target
    <3>5. QED
      BY <1>1, <3>3, <3>4
  <2>9. ReadIsCurrent'
    <3> SUFFICES ASSUME ~ReadLost' PROVE ReadIsCurrent'
      BY DEF ReadIsCurrent
    <3>0. Source(p, q.thread) \notin Overwritten
      <4>1. \A n : RegNamed(n)' = RegNamed(n)
        BY <2>6 DEF RegNamed
      <4>2. Source(RegNamed(wb.name), wb.thread)' = Source(p, q.thread)
        BY <2>5, <2>6, <4>1 DEF Source
      <4>3. ReadLost' <=> Source(p, q.thread) \in Overwritten
        BY <1>2, <4>2 DEF ReadLost
      <4>4. QED
        BY <4>3
    <3>1. ASSUME NEW d \in Regs, d.name = Holder(p), p.rdata = ""
          PROVE  View(reg', <<d.name, Copy(d, q.thread)>>) = View(reg, <<d.name, Copy(d, q.thread)>>)
      <4>1. RegNamed(d.name) = d
        BY NamesAndAddresses DEF AtomicIInv, CsrIInv
      <4>2. <<d.name, Copy(d, q.thread)>> \notin Overwritten
        BY <3>0, <3>1, <4>1 DEF Source
      <4>3. QED
        BY <1>1, <1>2, <2>1, <2>3, <3>1, <4>2, NotInTheWay
    <3>2. ReadValue(reg', p, q.thread) = ReadValue(reg, p, q.thread)
      BY <3>1, ReadOfCell DEF AtomicIInv, CsrIInv
    <3>3. ReadValue(reg, p, q.thread)' = ReadValue(reg', p, q.thread)
      BY <1>2 DEF ReadValue, View, RegNamed, Regs
    <3>4. QED
      BY <2>5, <2>6, <3>2, <3>3 DEF ReadIsCurrent
  <2>10. QED
    BY <2>7, <2>8, <2>9
<1>5. QED
  BY <1>3, <1>4

\* In every reachable state of a table that observes the rules, the write in WB
\* has its enable and builds on what its register still holds.
LEMMA AtomicInvariant == CsrSpec /\ TableRules(csr_regs) => []AtomicIInv
<1>1. CsrInit /\ TableRules(csr_regs) => AtomicIInv
  <2> SUFFICES ASSUME CsrInit, TableRules(csr_regs) PROVE AtomicIInv
    OBVIOUS
  <2>1. CsrIInv
    BY DEF CsrInit, CsrIInv, EnablesBelongToWb, CaughtAlone
  <2>2. wb.cmd = "N"
    BY DEF CsrInit, NoAccess
  <2>3. DOMAIN reg = Cells
    <3>1. reg \in [Cells -> SUBSET Word]
      BY DEF CsrInit
    <3>2. QED
      BY <3>1
  <2>4. QED
    BY <2>1, <2>2, <2>3 DEF AtomicIInv, WbNamed, WritesEnabled, ReadIsCurrent, Writes
<1>2. AtomicIInv /\ CsrIInv' /\ [CsrNext]_csr_vars => AtomicIInv'
  <2> SUFFICES ASSUME AtomicIInv, CsrIInv', [CsrNext]_csr_vars PROVE AtomicIInv'
    OBVIOUS
  <2>1. csr_regs' = csr_regs
    BY DEF CsrNext, Issue, NoIssue, csr_vars
  <2>2. TableRules(csr_regs)'
    BY <2>1 DEF AtomicIInv
  <2>3. Cells' = Cells
    BY <2>1 DEF Cells, CopiesOf, Regs
  <2>4. (DOMAIN reg = Cells)'
    BY <2>3 DEF AtomicIInv, CsrNext, Issue, NoIssue, WriteSeq, csr_vars
  <2>5. WbNamed' /\ WritesEnabled' /\ ReadIsCurrent'
    <3>1. CASE Issue
      BY <3>1, IssueCaptures
    <3>2. CASE NoIssue
      BY <3>2 DEF NoIssue, NoAccess, WbNamed, WritesEnabled, ReadIsCurrent, Writes
    <3>3. CASE UNCHANGED csr_vars
      <4>1. WbNamed'
        BY <3>3 DEF AtomicIInv, csr_vars, WbNamed, Regs
      <4>2. WritesEnabled'
        BY <3>3 DEF AtomicIInv, csr_vars, WritesEnabled, Writes, Target, RegNamed, Regs
      <4>3. ReadIsCurrent'
        <5>1. wb' = wb /\ reg' = reg /\ (ReadLost' <=> ReadLost)
          BY <3>3 DEF csr_vars, ReadLost, Source, RegNamed, Regs
        <5>2. ReadValue(reg, RegNamed(wb.name), wb.thread)' = ReadValue(reg, RegNamed(wb.name), wb.thread)
          BY <2>1, <5>1 DEF ReadValue, View, RegNamed, Regs
        <5>3. QED
          BY <5>1, <5>2 DEF AtomicIInv, ReadIsCurrent
      <4>4. QED
        BY <4>1, <4>2, <4>3
    <3>4. QED
      BY <3>1, <3>2, <3>3 DEF CsrNext
  <2>6. QED
    BY <2>2, <2>4, <2>5 DEF AtomicIInv
<1>3. QED
  BY <1>1, <1>2, CsrInvariant, PTL DEF CsrSpec

\* What an access captured in MEM is what its register holds in WB, whatever was
\* done in between by the other threads or, close before it, by its own, in every
\* table that observes the rules: the core follows the registers the threads share
\* with a bubble, and the registers it lets a thread go on to are read as constants.
\* Warm resets begin at any time, and cost no more than the first access of an
\* always-on register whose write one has caught.
THEOREM CapturedAlwaysCurrent ==
    CsrSpec /\ TableRules(csr_regs) => []CapturedIsCurrent
<1>1. AtomicIInv => CapturedIsCurrent
  BY DEF AtomicIInv, ReadIsCurrent, ReadLost, CapturedIsCurrent
<1>2. QED
  BY <1>1, AtomicInvariant, PTL

\* Every access is one step on the registers as they are when it leaves WB, in
\* every table that observes the rules: it writes its own copy, or what its name
\* shares with the register it shadows, and nothing else moves, but for an
\* always-on register whose write a warm reset has caught.
THEOREM AccessesAlwaysAtomic ==
    CsrSpec /\ TableRules(csr_regs) => AccessesAreAtomic
<1>1. ASSUME AtomicIInv, [CsrNext]_csr_vars, resets = "none", Writes => ~ReadLost,
             NEW c \in Cells, c \notin Overwritten
      PROVE  View(reg', c) = View([reg EXCEPT ![c] = Expected(c)], c) \/ UNCHANGED csr_vars
  <2>1. CASE CsrNext
    <3>1. WriteSeq
      BY <2>1 DEF CsrNext, Issue, NoIssue
    <3>2. QED
      BY <1>1, <3>1, ClockIsAtomic
  <2>2. QED
    BY <1>1, <2>1
<1>2. AtomicIInv /\ [CsrNext]_csr_vars =>
          [resets = "none" /\ (Writes => Source(RegNamed(wb.name), wb.thread) \notin lost) =>
              \A c \in Cells \ Overwritten :
                  View(reg', c) = View([reg EXCEPT ![c] = Expected(c)], c)]_csr_vars
  BY <1>1 DEF ReadLost
<1>3. QED
  BY <1>2, AtomicInvariant, PTL DEF CsrSpec, AccessesAreAtomic

(***************************************************************************)
(* The read-only fields of the CSR file.  They hold their values because   *)
(* fields never overlap, which rests on what the recursive sum of their    *)
(* widths is, and because no write function touches them.                  *)
(***************************************************************************)
\* What the parser makes of a type file (XsrTypesAssumption).
FieldSeq(fields) ==
    /\ Len(fields) \in Nat /\ DOMAIN fields = 1 .. Len(fields)
    /\ \A i \in DOMAIN fields : fields[i].width \in Nat

\* What the sum of the widths above position i says of the one above i + 1.
LsbAt(fields, lsb, i) == IF i = Len(fields) THEN 0 ELSE lsb[i + 1] + fields[i + 1].width

\* There are sums of the widths of the last n fields, and so of all of them.
LEMMA SumsExist ==
    ASSUME NEW fields, FieldSeq(fields)
    PROVE  \E lsb \in [0 .. Len(fields) -> Nat] :
              lsb = [i \in 0 .. Len(fields) |-> LsbAt(fields, lsb, i)]
<1> DEFINE L == Len(fields)
           SumsOf(n, lsb) == \A i \in (L - n) .. L : lsb[i] = LsbAt(fields, lsb, i)
           none == {n \in 0 .. L : ~\E lsb \in [(L - n) .. L -> Nat] : SumsOf(n, lsb)}
           less == OpToRel(<, Nat)
<1>1. L \in Nat /\ none \subseteq Nat
  BY DEF FieldSeq
<1>2. ASSUME none # {} PROVE FALSE
  <2>1. PICK n \in none : \A m \in none : <<m, n>> \notin less
    <3> HIDE DEF none, less
    <3> QED BY <1>1, <1>2, NatLessThanWellFounded, WFMin DEF less
  <2>2. n \in 0 .. L /\ ~\E lsb \in [(L - n) .. L -> Nat] : SumsOf(n, lsb)
    BY <2>1
  <2>3. CASE n = 0
    <3>1. SumsOf(0, [i \in L .. L |-> 0])
      BY <1>1 DEF LsbAt
    <3>2. [i \in L .. L |-> 0] \in [(L - 0) .. L -> Nat]
      BY <1>1
    <3>3. QED
      BY <2>2, <2>3, <3>1, <3>2
  <2>4. CASE n # 0
    <3>1. n - 1 \in 0 .. L /\ n \in Nat /\ n - 1 \in Nat /\ n - 1 < n
      BY <1>1, <2>2, <2>4
    <3>2. n - 1 \notin none
      <4>1. <<n - 1, n>> \in less
        BY <3>1 DEF OpToRel
      <4> HIDE DEF none, less
      <4> QED BY <2>1, <4>1
    <3>3. PICK f \in [(L - (n - 1)) .. L -> Nat] : SumsOf(n - 1, f)
      BY <3>1, <3>2
    <3> DEFINE at == L - n
               first == f[at + 1] + fields[at + 1].width
               g == [i \in at .. L |-> IF i = at THEN first ELSE f[i]]
    <3>4. /\ at \in Nat /\ at + 1 \in 1 .. L /\ at # L /\ L - (n - 1) = at + 1
          /\ at .. L = {at} \cup (at + 1) .. L
      BY <1>1, <2>2, <2>4
    <3>5. f[at + 1] \in Nat /\ fields[at + 1].width \in Nat
      <4>1. at + 1 \in (L - (n - 1)) .. L
        BY <1>1, <3>4
      <4>2. f[at + 1] \in Nat
        BY <3>3, <4>1
      <4>3. QED
        BY <3>4, <4>2 DEF FieldSeq
    <3>6. g \in [at .. L -> Nat]
      BY <3>3, <3>4, <3>5
    <3>7. ASSUME NEW i \in at .. L PROVE g[i] = LsbAt(fields, g, i)
      <4>1. CASE i = at
        BY <1>1, <3>4, <4>1 DEF LsbAt
      <4>2. CASE i # at
        <5>1. i \in (at + 1) .. L /\ (i # L => i + 1 \in (at + 1) .. L) /\ i + 1 # at
          BY <1>1, <3>4, <4>2
        <5>2. f[i] = LsbAt(fields, f, i)
          BY <3>3, <3>4, <5>1
        <5>3. g[i] = f[i] /\ (i # L => g[i + 1] = f[i + 1])
          BY <3>4, <4>2, <5>1
        <5> HIDE DEF g, L
        <5>4. CASE i = Len(fields)
          BY <5>2, <5>3, <5>4 DEF LsbAt
        <5>5. CASE i # Len(fields)
          BY <5>2, <5>3, <5>5 DEF LsbAt, L
        <5>6. QED
          BY <5>4, <5>5
      <4>3. QED
        BY <4>1, <4>2
    <3>8. QED
      <4>1. SumsOf(n, g)
        BY <3>7
      <4> HIDE DEF g, SumsOf
      <4> QED BY <2>2, <3>6, <4>1
  <2>5. QED
    BY <2>3, <2>4
<1>3. PICK lsb \in [(L - L) .. L -> Nat] : SumsOf(L, lsb)
  <2>1. L \in 0 .. L /\ L \notin none
    BY <1>1, <1>2
  <2> HIDE DEF SumsOf
  <2>2. QED
    BY <2>1
<1>4. L - L = 0
  BY <1>1
<1>5. lsb \in [0 .. L -> Nat] /\ \A i \in 0 .. L : lsb[i] = LsbAt(fields, lsb, i)
  BY <1>3, <1>4
<1>6. QED
  BY <1>5

\* So Lsb is what its recursive definition says.
LEMMA LsbIsSum ==
    ASSUME NEW fields, FieldSeq(fields)
    PROVE  /\ \A i \in 0 .. Len(fields) : Lsb(fields)[i] = LsbAt(fields, Lsb(fields), i)
           /\ \A i \in 0 .. Len(fields) : Lsb(fields)[i] \in Nat
<1>1. PICK f \in [0 .. Len(fields) -> Nat] : f = [i \in 0 .. Len(fields) |-> LsbAt(fields, f, i)]
  BY SumsExist
<1>2. Lsb(fields) = [i \in 0 .. Len(fields) |-> LsbAt(fields, Lsb(fields), i)]
  BY <1>1 DEF Lsb, LsbAt
<1>3. \A i \in 0 .. Len(fields) : Lsb(fields)[i] = LsbAt(fields, Lsb(fields), i)
  BY <1>2
<1> DEFINE lsb == Lsb(fields)
           L == Len(fields)
           bad == {n \in 0 .. L : lsb[L - n] \notin Nat}
           less == OpToRel(<, Nat)
<1>4. L \in Nat /\ bad \subseteq Nat
  BY DEF FieldSeq
<1>5. ASSUME bad # {} PROVE FALSE
  <2>1. PICK n \in bad : \A m \in bad : <<m, n>> \notin less
    <3> HIDE DEF bad, less
    <3> QED BY <1>4, <1>5, NatLessThanWellFounded, WFMin DEF less
  <2>2. n \in 0 .. L /\ lsb[L - n] \notin Nat
    BY <2>1
  <2>3. n # 0
    BY <1>3, <1>4, <2>2 DEF LsbAt
  <2>4. n - 1 \in 0 .. L /\ n - 1 \in Nat /\ n \in Nat /\ n - 1 < n
    BY <1>4, <2>2, <2>3
  <2>5. n - 1 \notin bad
    <3>1. <<n - 1, n>> \in less
      BY <2>4 DEF OpToRel
    <3> HIDE DEF bad, less
    <3> QED BY <2>1, <3>1
  <2>6. lsb[L - (n - 1)] \in Nat
    BY <2>4, <2>5
  <2>7. L - n \in 0 .. L /\ L - n # L /\ L - (n - 1) = L - n + 1 /\ L - n + 1 \in 1 .. L
    BY <1>4, <2>2, <2>3
  <2>8. fields[L - n + 1].width \in Nat
    BY <2>7 DEF FieldSeq
  <2>9. lsb[L - n] = lsb[L - n + 1] + fields[L - n + 1].width
    BY <1>3, <2>7 DEF LsbAt
  <2>10. QED
    BY <2>2, <2>6, <2>7, <2>8, <2>9
<1>6. ASSUME NEW i \in 0 .. L PROVE lsb[i] \in Nat
  <2>1. L - i \in 0 .. L /\ L - (L - i) = i
    BY <1>4
  <2>2. QED
    BY <1>5, <2>1
<1>7. QED
  BY <1>3, <1>6

\* A field further to the right is further down.
LEMMA LsbFalls ==
    ASSUME NEW fields, FieldSeq(fields), NEW i \in 0 .. Len(fields), NEW j \in 0 .. Len(fields), i <= j
    PROVE  Lsb(fields)[j] <= Lsb(fields)[i]
<1> DEFINE lsb == Lsb(fields)
           L == Len(fields)
           bad == {k \in i .. L : lsb[i] < lsb[k]}
           less == OpToRel(<, Nat)
<1>1. L \in Nat /\ i \in Nat /\ bad \subseteq Nat /\ \A k \in i .. L : lsb[k] \in Nat
  BY LsbIsSum DEF FieldSeq
<1>2. ASSUME bad # {} PROVE FALSE
  <2>1. PICK k \in bad : \A m \in bad : <<m, k>> \notin less
    <3> HIDE DEF bad, less
    <3> QED BY <1>1, <1>2, NatLessThanWellFounded, WFMin DEF less
  <2>2. k \in i .. L /\ lsb[i] < lsb[k]
    BY <2>1
  <2>3. k # i
    BY <1>1, <2>2
  <2>4. k - 1 \in i .. L /\ k - 1 \in Nat /\ k \in Nat /\ k - 1 < k
    BY <1>1, <2>2, <2>3
  <2>5. k - 1 \notin bad
    <3>1. <<k - 1, k>> \in less
      BY <2>4 DEF OpToRel
    <3> HIDE DEF bad, less
    <3> QED BY <2>1, <3>1
  <2>6. ~(lsb[i] < lsb[k - 1])
    BY <2>4, <2>5
  <2>7. k - 1 \in 0 .. L /\ k - 1 # L /\ k - 1 + 1 = k /\ k \in 1 .. L
    BY <1>1, <2>2, <2>3
  <2>8. lsb[k - 1] = lsb[k] + fields[k].width /\ fields[k].width \in Nat
    BY <2>7, LsbIsSum DEF LsbAt, FieldSeq
  <2>9. lsb[i] \in Nat /\ lsb[k] \in Nat /\ lsb[k - 1] \in Nat
    BY <1>1, <2>2, <2>4
  <2>10. QED
    BY <2>2, <2>6, <2>8, <2>9
<1>3. j \in i .. L /\ i \in i .. L
  BY <1>1
<1>4. ~(lsb[i] < lsb[j]) /\ lsb[i] \in Nat /\ lsb[j] \in Nat
  BY <1>1, <1>2, <1>3
<1>5. QED
  BY <1>4

\* Different fields have no bit in common.
LEMMA FieldsApart ==
    ASSUME NEW fields, FieldSeq(fields), NEW i \in DOMAIN fields, NEW j \in DOMAIN fields, i # j
    PROVE  BitsOf(fields, i) \cap BitsOf(fields, j) = {}
<1>1. ASSUME NEW m \in DOMAIN fields, NEW n \in DOMAIN fields, m < n, NEW b \in BitsOf(fields, m),
             b \in BitsOf(fields, n)
      PROVE  FALSE
  <2>1. /\ m \in 0 .. Len(fields) /\ n - 1 \in 0 .. Len(fields) /\ n \in 0 .. Len(fields)
        /\ m <= n - 1 /\ n - 1 # Len(fields) /\ n - 1 + 1 = n
    BY <1>1 DEF FieldSeq
  <2>2. Lsb(fields)[n - 1] <= Lsb(fields)[m]
    BY <2>1, LsbFalls
  <2>3. Lsb(fields)[n - 1] = Lsb(fields)[n] + fields[n].width
    BY <2>1, LsbIsSum DEF LsbAt
  <2>4. Lsb(fields)[m] \in Nat /\ Lsb(fields)[n] \in Nat /\ fields[n].width \in Nat
    BY <2>1, LsbIsSum DEF FieldSeq
  <2>5. b < Lsb(fields)[n] + fields[n].width /\ Lsb(fields)[m] <= b /\ b \in Int
    BY <1>1, <2>4 DEF BitsOf
  <2>6. QED
    BY <2>2, <2>3, <2>4, <2>5
<1>2. i < j \/ j < i
  BY DEF FieldSeq
<1>3. QED
  BY <1>1, <1>2

\* Read-only fields have no bit in common with a field that is not.
LEMMA ReadOnlyApart ==
    ASSUME NEW fields, FieldSeq(fields), NEW i \in DOMAIN fields, ~IsReadOnly(fields[i])
    PROVE  BitsOf(fields, i) \cap BitsWhere(fields, IsReadOnly) = {}
<1>1. ASSUME NEW b \in BitsOf(fields, i), b \in BitsWhere(fields, IsReadOnly) PROVE FALSE
  <2>1. PICK j \in DOMAIN fields : IsReadOnly(fields[j]) /\ b \in BitsOf(fields, j)
    BY <1>1 DEF BitsWhere
  <2>2. QED
    BY <1>1, <2>1, FieldsApart
<1>2. QED
  BY <1>1

\* The reserved fields that a read hides are none of the read-only ones.
LEMMA HiddenAreNotReadOnly ==
    ASSUME NEW fields, FieldSeq(fields), NEW word
    PROVE  NonReserved(fields, word) \cap BitsWhere(fields, IsReadOnly)
              = word \cap BitsWhere(fields, IsReadOnly)
<1>1. ASSUME NEW b \in BitsWhere(fields, IsReserved), b \in BitsWhere(fields, IsReadOnly) PROVE FALSE
  <2>1. PICK i \in DOMAIN fields : IsReserved(fields[i]) /\ b \in BitsOf(fields, i)
    BY <1>1 DEF BitsWhere
  <2>2. ~IsReadOnly(fields[i])
    BY <2>1 DEF IsReserved, IsReadOnly
  <2>3. QED
    BY <1>1, <2>1, <2>2, ReadOnlyApart
<1>2. QED
  BY <1>1 DEF NonReserved

\* What the read-only fields are written with depends on their bits alone, and
\* lies in them.
LEMMA FixedAreReadOnly ==
    ASSUME NEW fields, FieldSeq(fields), NEW old, NEW word,
           old \cap BitsWhere(fields, IsReadOnly) = word \cap BitsWhere(fields, IsReadOnly)
    PROVE  /\ FixedBits(fields, old) = FixedBits(fields, word)
           /\ FixedBits(fields, old) \subseteq BitsWhere(fields, IsReadOnly)
<1> DEFINE ro == {j \in DOMAIN fields : IsReadOnly(fields[j])}
           part(w, i) == IF fields[i].ro_value # ""
                         THEN {Lsb(fields)[i] + b :
                                  b \in Literal[fields[i].ro_value] \cap (0 .. fields[i].width - 1)}
                         ELSE w \cap BitsOf(fields, i)
<1>1. \A i \in ro : BitsOf(fields, i) \subseteq BitsWhere(fields, IsReadOnly)
  BY DEF BitsWhere
<1>2. ASSUME NEW i \in ro PROVE part(old, i) = part(word, i) /\ part(old, i) \subseteq BitsOf(fields, i)
  <2>1. old \cap BitsOf(fields, i) = word \cap BitsOf(fields, i)
    BY <1>1
  <2>2. Lsb(fields)[i] \in Nat /\ fields[i].width \in Nat
    BY LsbIsSum DEF FieldSeq
  <2>3. \A b \in 0 .. fields[i].width - 1 : Lsb(fields)[i] + b \in BitsOf(fields, i)
    BY <2>2 DEF BitsOf
  <2>4. QED
    BY <2>1, <2>3
<1>3. FixedBits(fields, old) = UNION {part(old, i) : i \in ro}
  BY DEF FixedBits
<1>4. FixedBits(fields, word) = UNION {part(word, i) : i \in ro}
  BY DEF FixedBits
<1>5. QED
  <2> HIDE DEF part, ro
  <2>1. {part(old, i) : i \in ro} = {part(word, i) : i \in ro}
    BY <1>2
  <2>2. QED
    BY <1>1, <1>2, <1>3, <1>4, <2>1

\* A write of the register leaves the read-only fields what they were, or gives
\* them their constants.
LEMMA WriteTypeHolds ==
    ASSUME NEW fields, FieldSeq(fields), NEW old, NEW d
    PROVE  WriteType(fields, old, d) \cap BitsWhere(fields, IsReadOnly) = FixedBits(fields, old)
<1>1. ASSUME NEW b \in BitsWhere(fields, IsPlain), b \in BitsWhere(fields, IsReadOnly) PROVE FALSE
  <2>1. PICK i \in DOMAIN fields : IsPlain(fields[i]) /\ b \in BitsOf(fields, i)
    BY <1>1 DEF BitsWhere
  <2>2. ~IsReadOnly(fields[i])
    BY <2>1 DEF IsPlain, IsReadOnly
  <2>3. QED
    BY <1>1, <2>1, <2>2, ReadOnlyApart
<1>2. FixedBits(fields, old) \subseteq BitsWhere(fields, IsReadOnly)
  BY FixedAreReadOnly
<1>3. QED
  BY <1>1, <1>2 DEF WriteType

\* A write through a shadow leaves them what they were.
LEMMA WriteAsHolds ==
    ASSUME NEW dest, FieldSeq(dest), NEW shadow, NEW orig, NEW d
    PROVE  WriteAs(dest, shadow, orig, d) \cap BitsWhere(dest, IsReadOnly)
              = orig \cap BitsWhere(dest, IsReadOnly)
<1> DEFINE merged == {p \in Common(dest, shadow) : ~IsReadOnly(dest[p[1]])}
           gone == UNION {BitsOf(dest, p[1]) : p \in merged}
           come == UNION {Moved(dest, p[1], shadow, p[2], d) : p \in merged}
<1>1. ASSUME NEW p \in merged PROVE BitsOf(dest, p[1]) \cap BitsWhere(dest, IsReadOnly) = {}
  <2>1. p[1] \in DOMAIN dest /\ ~IsReadOnly(dest[p[1]])
    BY DEF Common
  <2>2. QED
    BY <2>1, ReadOnlyApart
<1>2. \A p \in merged : Moved(dest, p[1], shadow, p[2], d) \subseteq BitsOf(dest, p[1])
  BY DEF Moved
<1>3. WriteAs(dest, shadow, orig, d) = (orig \ gone) \cup come
  BY DEF WriteAs
<1>4. QED
  <2> HIDE DEF merged
  <2>1. gone \cap BitsWhere(dest, IsReadOnly) = {}
    BY <1>1
  <2>2. come \cap BitsWhere(dest, IsReadOnly) = {}
    BY <1>1, <1>2
  <2> HIDE DEF gone, come
  <2>3. QED
    BY <1>3, <2>1, <2>2

\* What is written next of a register with read-only fields holds them.
LEMMA NextHolds ==
    ASSUME ShadowsMerge(csr_regs), NEW c \in Cells, Converted(RegNamed(c[1]))
    PROVE  LET fields == Types[RegNamed(c[1]).type]
               ro == BitsWhere(fields, IsReadOnly)
           IN  reg_next[c] \cap ro \in {reg[c] \cap ro, FixedBits(fields, reg[c])}
<1> DEFINE r == RegNamed(c[1])
           fields == Types[r.type]
           ro == BitsWhere(fields, IsReadOnly)
<1>1. FieldSeq(fields) /\ HasFields(r)
  BY XsrTypesAssumption DEF Converted, HasFields, FieldSeq
<1>2. View(reg, c) = NonReserved(fields, reg[c])
  BY DEF View
<1>3. View(reg, c) \cap ro = reg[c] \cap ro
  BY <1>1, <1>2, HiddenAreNotReadOnly
<1>4. WriteData(r, View(reg, c), wb_wdata) \cap ro = FixedBits(fields, reg[c])
  <2>1. WriteData(r, View(reg, c), wb_wdata) = WriteType(fields, View(reg, c), wb_wdata)
    BY DEF WriteData
  <2>2. WriteType(fields, View(reg, c), wb_wdata) \cap ro = FixedBits(fields, View(reg, c))
    BY <1>1, WriteTypeHolds
  <2>3. FixedBits(fields, View(reg, c)) = FixedBits(fields, reg[c])
    BY <1>1, <1>3, FixedAreReadOnly
  <2>4. QED
    BY <2>1, <2>2, <2>3
<1>5. ASSUME NEW s \in ShadowsOf(c)
      PROVE  ShadowWrite(s, r, View(reg, c), wb_wdata) \cap ro = reg[c] \cap ro
  <2>1. PICK q \in Regs : c[1] = q.name
    BY DEF Cells, CopiesOf
  <2>2. r \in Regs /\ r.name = c[1]
    BY <2>1 DEF RegNamed
  <2>3. s \in Regs /\ s.shadow = r.name
    BY <2>2 DEF ShadowsOf
  <2>4. Merges(s, r)
    BY <2>2, <2>3 DEF ShadowsMerge, Regs
  <2> DEFINE own == IF HasFields(s) THEN WriteData(s, {}, wb_wdata)
                                    ELSE wb_wdata \cap (0 .. PortWidth(r) - 1)
  <2>5. ShadowWrite(s, r, View(reg, c), wb_wdata) = WriteAs(fields, Types[s.type], View(reg, c), own)
    BY <2>4 DEF ShadowWrite
  <2> HIDE DEF own
  <2>6. QED
    BY <1>1, <1>3, <2>5, WriteAsHolds
<1>6. \/ reg_next[c] = WriteData(r, View(reg, c), wb_wdata)
      \/ \E s \in ShadowsOf(c) : reg_next[c] = ShadowWrite(s, r, View(reg, c), wb_wdata)
      \/ reg_next[c] = View(reg, c)
  <2>1. CASE r.latch \/ c \in reg_en
    BY <2>1 DEF reg_next
  <2>2. CASE ~r.latch /\ c \notin reg_en /\ ShadowsOf(c) # {}
    BY <2>2 DEF reg_next
  <2>3. CASE ~r.latch /\ c \notin reg_en /\ ShadowsOf(c) = {}
    BY <2>3 DEF reg_next
  <2>4. QED
    BY <2>1, <2>2, <2>3
<1>7. QED
  <2> HIDE DEF r, fields, ro
  <2>1. reg_next[c] \cap ro \in {reg[c] \cap ro, FixedBits(fields, reg[c])}
    BY <1>3, <1>4, <1>5, <1>6
  <2>2. QED
    BY <2>1 DEF r, fields, ro

\* For every build, types and number of threads, in which a shadow has fields of
\* its own: but for a reset, no write, direct or through a shadow, changes a
\* read-only field, unless to the constant its type gives it.
THEOREM ReadOnlyFieldsAlwaysHold ==
    CsrSpec /\ ShadowsMerge(csr_regs) => ReadOnlyFieldsHold
<1> DEFINE Held == \A c \in Cells :
                LET r == RegNamed(c[1])
                    ro == BitsWhere(Types[r.type], IsReadOnly)
                IN  Converted(r) /\ ~InReset(r) =>
                        reg'[c] \cap ro \in {reg[c] \cap ro, FixedBits(Types[r.type], reg[c])}
<1>1. ASSUME ShadowsMerge(csr_regs), CsrNext PROVE Held
  <2> SUFFICES ASSUME NEW c \in Cells, Converted(RegNamed(c[1])), ~InReset(RegNamed(c[1]))
               PROVE  LET ro == BitsWhere(Types[RegNamed(c[1]).type], IsReadOnly)
                      IN  reg'[c] \cap ro \in {reg[c] \cap ro, FixedBits(Types[RegNamed(c[1]).type], reg[c])}
    OBVIOUS
  <2>1. WriteSeq
    BY <1>1 DEF CsrNext, Issue, NoIssue
  <2>2. reg'[c] = reg_next[c] \/ reg'[c] = reg[c]
    <3>1. CASE /\ RegNamed(c[1]).aon \/ clock_wb
               /\ RegNamed(c[1]).latch => c \in latch_clk_en
      BY <2>1, <3>1 DEF WriteSeq
    <3>2. CASE ~(/\ RegNamed(c[1]).aon \/ clock_wb
                 /\ RegNamed(c[1]).latch => c \in latch_clk_en)
      BY <2>1, <3>2 DEF WriteSeq
    <3>3. QED
      BY <3>1, <3>2
  <2>3. QED
    BY <1>1, <2>2, NextHolds
<1>2. ShadowsMerge(csr_regs) /\ [CsrNext]_csr_vars => [Held]_csr_vars /\ ShadowsMerge(csr_regs)'
  <2>1. [CsrNext]_csr_vars => csr_regs' = csr_regs
    BY DEF CsrNext, Issue, NoIssue, csr_vars
  <2>2. QED
    BY <1>1, <2>1
<1>3. QED
  BY <1>2, PTL DEF CsrSpec, ReadOnlyFieldsHold

(***************************************************************************)
(* The coverage dashboard.  What it promises rests on what the files hold  *)
(* at each step of a run.                                                  *)
(***************************************************************************)
\* A page without data.
Pristine(page) == page.is \in {"absent", "cut", "fresh"}

\* A page with data in it is only ever beside a backup.
BackedUp ==
    /\ Pristine(bak)
    /\ bak = NoPage => Pristine(dist)
    /\ step = "rm" => Pristine(dist)
    /\ step \in {"build", "write"} => bak # NoPage

\* The reports a recipe has made are of today, but for those it missed.
ReportsAreToday ==
    \A f \in Reports : reports[f] # Today(f) => f \in missed /\ reports[f] \in {0, CutReport}

\* Those of a suite are beside the page when they have been copied, but for those it
\* missed.
InfoIsToday(suites) ==
    \A f \in Reports : f[1] \in suites /\ f \notin missed /\ Today(f) # 0 => info[f] = Today(f)

\* How far a recipe is. It starts from a fresh copy and no backup, so what embed.py
\* makes of it is today's page with what lies beside it.
RecipeSoFar ==
    /\ step \in {"clear", "report", "cp", "rm", "unit", "cosim", "mv"} => made
    /\ made => mode = "inject"
    /\ step = "report" => reports = NoReports
    /\ made /\ step \notin {"idle", "clear", "report"} => ReportsAreToday
    /\ step = "cosim" => InfoIsToday({"unit"})
    /\ made /\ step \in {"backup", "build", "write", "mv"} => InfoIsToday(Suites)
    /\ step \in {"rm", "unit", "cosim"} => dist = Fresh(template)
    /\ step \in {"unit", "cosim"} => bak = NoPage
    /\ made /\ step = "backup" => dist = Fresh(template) /\ bak = NoPage
    /\ made /\ step = "build" => dist = Fresh(template)
    /\ made /\ step = "write" => content = Page("filled", template, info)
    /\ step = "mv" => dist = Page("filled", template, info)

-----------------------------------------------------------------------------
\* The pages a step can meet differ in their kind, and a page is what was put
\* into it.
LEMMA PageFields ==
    /\ NoPage.is = "absent" /\ CutPage.is = "cut"
    /\ \A v : Fresh(v).is = "fresh" /\ Fresh(v).version = v
    /\ \A k, v, d : /\ Page(k, v, d).is = k /\ Page(k, v, d).version = v
                    /\ Page(k, v, d).data = d
BY DEF NoPage, CutPage, Fresh, Page

\* What embed.py makes of a fresh page that it puts the data into.
LEMMA DataInserted ==
    ASSUME mode = "inject", NEW v
    PROVE  WithData(Fresh(v)) = Page("filled", v, info)
BY PageFields DEF WithData

-----------------------------------------------------------------------------
\* The backup is made of a page without data, or of none.
LEMMA BackedUpAlways == EmbedSpec => []BackedUp
<1>1. EmbedInit => BackedUp
  BY PageFields DEF EmbedInit, BackedUp, Pristine
<1>2. BackedUp /\ [EmbedNext]_embed_vars => BackedUp'
  <2> SUFFICES ASSUME BackedUp, [EmbedNext]_embed_vars PROVE BackedUp'
    OBVIOUS
  <2> USE DEF BackedUp, Pristine, Ends
  <2>1. CASE \/ EditTemplate \/ RunTests \/ CleanTests \/ UpdateCosimCoverage
             \/ StartMake \/ ClearReports \/ MakeReports \/ CopyUnit \/ CopyCosim
             \/ StartByHand
    <3>1. /\ dist' = dist /\ bak' = bak
          /\ step' = "rm" => step = "rm"
          /\ step' \in {"build", "write"} => step \in {"build", "write"}
      BY <2>1 DEF EditTemplate, RunTests, CleanTests, UpdateCosimCoverage, StartMake,
                  ClearReports, MakeReports, CopyUnit, CopyCosim, StartByHand
    <3>2. QED
      BY <3>1
  <2>2. CASE Clean
    BY <2>2, PageFields DEF Clean
  <2>3. CASE CopyTemplate
    BY <2>3, PageFields DEF CopyTemplate
  <2>4. CASE RemoveBackup
    BY <2>4, PageFields DEF RemoveBackup
  <2>5. CASE MoveDashboard
    BY <2>5, PageFields DEF MoveDashboard
  <2>6. CASE BackupOrRestore
    BY <2>6, PageFields DEF BackupOrRestore
  <2>7. CASE Build
    BY <2>7 DEF Build
  <2>8. CASE WritePage
    BY <2>8 DEF WritePage
  <2>9. CASE EmbedKilled
    BY <2>9, PageFields DEF EmbedKilled
  <2>10. CASE UNCHANGED embed_vars
    BY <2>10 DEF embed_vars
  <2>11. QED
    BY <2>1, <2>2, <2>3, <2>4, <2>5, <2>6, <2>7, <2>8, <2>9, <2>10 DEF EmbedNext
<1>3. QED
  BY <1>1, <1>2, PTL DEF EmbedSpec

\* However often the recipe and embed.py are run or killed, the backup has no
\* data in it: it is made while the page has none, and only of a page that is
\* there.
THEOREM BackupAlwaysPristine == EmbedSpec => []BackupIsPristine
<1>1. BackedUp => BackupIsPristine
  BY DEF BackedUp, Pristine, BackupIsPristine
<1>2. QED
  BY <1>1, BackedUpAlways, PTL

-----------------------------------------------------------------------------
\* A report that is made is of today, one that is not is noted.
LEMMA ReportsMade ==
    ASSUME reports = NoReports, reports' \in PartlyCopied([f \in Reports |-> Today(f)], reports),
           missed' = {f \in Reports : reports'[f] # Today(f)}, UNCHANGED test_vars
    PROVE  ReportsAreToday'
<1>1. \A f \in Reports : Today(f)' = Today(f) /\ NoReports[f] = 0
  BY DEF Today, test_vars, NoReports
<1>2. ASSUME NEW f \in Reports
      PROVE  reports'[f] \in {Today(f), 0, CutReport}
  BY <1>1 DEF PartlyCopied
<1>3. ASSUME NEW f \in Reports, reports'[f] # Today(f)'
      PROVE  f \in missed' /\ reports'[f] \in {0, CutReport}
  BY <1>1, <1>2, <1>3
<1>4. QED
  BY <1>3 DEF ReportsAreToday, CutReport

\* The unit reports are copied, or noted.
LEMMA UnitCopied ==
    ASSUME RecipeSoFar, CopyUnit
    PROVE  ReportsAreToday' /\ InfoIsToday({"unit"})'
<1>1. /\ ReportsAreToday
      /\ info' \in PartlyCopied(Of("unit", reports), info)
      /\ missed' = missed \cup {f \in Reports : f[1] = "unit" /\ reports[f] # 0 /\ info'[f] # reports[f]}
      /\ reports' = reports /\ UNCHANGED test_vars
  BY DEF CopyUnit, RecipeSoFar
<1>2. \A f \in Reports : Today(f)' = Today(f)
  BY <1>1 DEF Today, test_vars
<1>3. ReportsAreToday'
  BY <1>1, <1>2 DEF ReportsAreToday, CutReport
<1>4. ASSUME NEW f \in Reports, f[1] = "unit", f \notin missed', Today(f) # 0
      PROVE  info'[f] = Today(f)
  <2>1. reports[f] = Today(f)
    BY <1>1, <1>4 DEF ReportsAreToday
  <2>2. QED
    BY <1>1, <1>4, <2>1
<1>5. QED
  BY <1>2, <1>3, <1>4 DEF InfoIsToday

\* The cosimulation reports are copied: when one of today was made, those that were
\* made are, and not what is checked in.
LEMMA CosimCopied ==
    ASSUME RecipeSoFar, CopyCosim
    PROVE  ReportsAreToday' /\ InfoIsToday(Suites)'
<1>1. /\ ReportsAreToday /\ InfoIsToday({"unit"})
      /\ info' = Copied(CosimReports, info)
      /\ missed' = missed /\ reports' = reports /\ UNCHANGED test_vars
  BY DEF CopyCosim, RecipeSoFar, job_vars
<1>2. \A f \in Reports : Today(f)' = Today(f)
  BY <1>1 DEF Today, test_vars
<1>3. ReportsAreToday'
  BY <1>1, <1>2 DEF ReportsAreToday, CutReport
<1>4. ASSUME NEW f \in Reports, f \notin missed, Today(f) # 0
      PROVE  info'[f] = Today(f)
  <2>1. reports[f] = Today(f)
    BY <1>1, <1>4 DEF ReportsAreToday
  <2>2. info'[f] = IF CosimReports[f] # 0 THEN CosimReports[f] ELSE info[f]
    BY <1>1 DEF Copied
  <2>3. CASE f[1] = "unit"
    <3>1. CosimReports[f] = 0
      BY <2>3 DEF CosimReports, Of
    <3>2. QED
      BY <1>1, <1>4, <2>2, <2>3, <3>1 DEF InfoIsToday
  <2>4. CASE f[1] = "cosim"
    <3>1. Of("cosim", reports)[f] = reports[f]
      BY <2>4 DEF Of
    <3>2. Of("cosim", reports) # NoReports
      BY <1>4, <2>1, <3>1 DEF NoReports
    <3>3. CosimReports[f] = reports[f]
      BY <3>1, <3>2 DEF CosimReports
    <3>4. QED
      BY <1>4, <2>1, <2>2, <3>3
  <2>5. f[1] \in {"unit", "cosim"}
    BY DEF Reports, Suites
  <2>6. QED
    BY <2>3, <2>4, <2>5
<1>5. QED
  BY <1>1, <1>2, <1>3, <1>4 DEF InfoIsToday

\* What the reports are does not change as long as neither they nor the tests do.
LEMMA ReportsStay ==
    ASSUME UNCHANGED <<test_vars, reports, info, missed>>
    PROVE  /\ ReportsAreToday' = ReportsAreToday
           /\ \A suites : InfoIsToday(suites)' = InfoIsToday(suites)
<1>1. \A f \in Reports : Today(f)' = Today(f)
  BY DEF Today, test_vars
<1>2. QED
  BY <1>1 DEF ReportsAreToday, InfoIsToday, CutReport, test_vars

\* A recipe makes its page of today's copy and of reports that are as new as any.
LEMMA RecipeAlwaysSoFar == EmbedSpec => []RecipeSoFar
<1>1. EmbedInit => RecipeSoFar
  BY DEF EmbedInit, RecipeSoFar
<1>2. RecipeSoFar /\ [EmbedNext]_embed_vars => RecipeSoFar'
  <2> SUFFICES ASSUME RecipeSoFar, [EmbedNext]_embed_vars PROVE RecipeSoFar'
    OBVIOUS
  <2>1. CASE EditTemplate \/ RunTests \/ CleanTests \/ Clean \/ UpdateCosimCoverage
    <3>1. step = "idle" /\ step' = "idle" /\ made' = made /\ mode' = mode
      BY <2>1 DEF EditTemplate, RunTests, CleanTests, Clean, UpdateCosimCoverage, job_vars
    <3>2. QED
      BY <3>1 DEF RecipeSoFar
  <2>2. CASE StartMake \/ StartByHand
    BY <2>2 DEF StartMake, StartByHand, RecipeSoFar
  <2>3. CASE Ends
    BY <2>3 DEF Ends, RecipeSoFar
  <2>4. CASE ClearReports
    BY <2>4 DEF ClearReports, RecipeSoFar, NoReports, Reports, job_vars
  <2>5. CASE MakeReports /\ ~Ends
    <3>1. /\ step = "report" /\ step' = "cp" /\ made' = made /\ mode' = mode
          /\ reports' \in PartlyCopied([f \in Reports |-> Today(f)], reports)
          /\ missed' = {f \in Reports : reports'[f] # Today(f)}
          /\ UNCHANGED test_vars
      BY <2>5 DEF MakeReports
    <3>2. ReportsAreToday'
      BY <3>1, ReportsMade DEF RecipeSoFar
    <3>3. QED
      BY <3>1, <3>2 DEF RecipeSoFar
  <2>6. CASE CopyTemplate
    <3>1. UNCHANGED <<test_vars, reports, info, missed, made, mode>> /\ template' = template
      BY <2>6 DEF CopyTemplate, job_vars, test_vars
    <3>2. QED
      BY <2>6, <3>1, ReportsStay DEF CopyTemplate, RecipeSoFar, Fresh, Page, NoReports
  <2>7. CASE RemoveBackup
    <3>1. UNCHANGED <<test_vars, reports, info, missed, made, mode>> /\ template' = template
      BY <2>7 DEF RemoveBackup, job_vars, test_vars
    <3>2. QED
      BY <2>7, <3>1, ReportsStay DEF RemoveBackup, RecipeSoFar, Fresh, Page, NoReports, NoPage
  <2>8. CASE CopyUnit
    <3>1. /\ step = "unit" /\ step' = "cosim" /\ UNCHANGED <<dist, bak, made, mode, template>>
      BY <2>8 DEF CopyUnit, test_vars
    <3>2. ReportsAreToday' /\ InfoIsToday({"unit"})'
      BY <2>8, UnitCopied
    <3>3. QED
      BY <3>1, <3>2 DEF RecipeSoFar, Fresh, Page, NoReports, NoPage
  <2>9. CASE CopyCosim
    <3>1. /\ step = "cosim" /\ step' = "backup" /\ UNCHANGED <<dist, bak, made, mode, template>>
      BY <2>9 DEF CopyCosim, test_vars, job_vars
    <3>2. ReportsAreToday' /\ InfoIsToday(Suites)'
      BY <2>9, CosimCopied
    <3>3. QED
      BY <3>1, <3>2 DEF RecipeSoFar, Fresh, Page, NoReports, NoPage
  <2>10. CASE BackupOrRestore /\ ~Ends
    <3>1. /\ step = "backup" /\ step' = "build"
          /\ bak = NoPage => dist' = dist
          /\ UNCHANGED <<test_vars, reports, info, missed, made, mode>> /\ template' = template
      BY <2>10 DEF BackupOrRestore, job_vars, test_vars
    <3>2. QED
      BY <3>1, ReportsStay DEF RecipeSoFar, Fresh, Page, NoReports
  <2>11. CASE Build /\ ~Ends
    <3>1. /\ step = "build" /\ step' = "write" /\ content' = WithData(dist)
          /\ UNCHANGED <<test_vars, reports, info, missed, made, mode>> /\ template' = template
      BY <2>11 DEF Build, test_vars
    <3>2. made => content' = Page("filled", template, info)
      BY <3>1, DataInserted DEF RecipeSoFar
    <3>3. QED
      BY <3>1, <3>2, ReportsStay DEF RecipeSoFar, Page
  <2>12. CASE WritePage /\ ~Ends
    <3>1. /\ step = "write" /\ step' = "mv" /\ made /\ dist' = content
          /\ UNCHANGED <<test_vars, reports, info, missed, made, mode>> /\ template' = template
      BY <2>12 DEF WritePage, test_vars
    <3>2. QED
      BY <3>1, ReportsStay DEF RecipeSoFar, Page
  <2>13. CASE UNCHANGED embed_vars
    <3>1. /\ UNCHANGED <<test_vars, reports, info, missed, made, mode>>
          /\ UNCHANGED <<template, step, dist, bak, content>>
      BY <2>13 DEF embed_vars, job_vars, test_vars
    <3>2. QED
      BY <3>1, ReportsStay DEF RecipeSoFar, Fresh, Page, NoReports, NoPage
  <2>14. CASE MoveDashboard \/ EmbedKilled
    BY <2>3, <2>14 DEF MoveDashboard, EmbedKilled
  <2>15. QED
    BY <2>1, <2>2, <2>3, <2>4, <2>5, <2>6, <2>7, <2>8, <2>9, <2>10, <2>11, <2>12, <2>13, <2>14
       DEF EmbedNext
<1>3. QED
  BY <1>1, <1>2, PTL DEF EmbedSpec

\* A recipe that is about to publish its page has today's page with today's reports,
\* whatever the runs before it left behind, and the older ones only where today has
\* none.
THEOREM DashboardAlwaysCurrent == EmbedSpec => []DashboardIsCurrent
<1>1. RecipeSoFar => DashboardIsCurrent
  <2> SUFFICES ASSUME RecipeSoFar, step = "mv" PROVE DashboardIsCurrent
    BY DEF DashboardIsCurrent
  <2>1. dist = Page("filled", template, info) /\ ReportsAreToday /\ InfoIsToday(Suites)
    BY DEF RecipeSoFar
  <2>2. dist.is = "filled" /\ dist.version = template /\ dist.data = info
    BY <2>1, PageFields
  <2>3. \A f \in Reports : f[1] \in Suites
    BY DEF Reports
  <2>4. ASSUME NEW f \in Reports
        PROVE  dist.data[f] = IF Today(f) # 0 /\ f \notin missed THEN Today(f) ELSE info[f]
    BY <2>1, <2>2, <2>3 DEF InfoIsToday
  <2>5. QED
    BY <2>1, <2>2, <2>4 DEF ReportsAreToday, DashboardIsCurrent
<1>2. QED
  BY <1>1, RecipeAlwaysSoFar, PTL

(***************************************************************************)
(* What the proofs about the ROM scripts and the report keep needing: the  *)
(* least of some numbers, and folds over finite sets, which the community  *)
(* modules choose by an equation.                                          *)
(***************************************************************************)
\* A set of numbers that is not empty has a least one.
LEMMA LeastNumber ==
    ASSUME NEW T, T \subseteq Nat, T # {}
    PROVE  \E n \in T : \A m \in T : ~(m < n)
<1> DEFINE less == OpToRel(<, Nat)
<1>1. PICK n \in T : \A m \in T : <<m, n>> \notin less
  <2> HIDE DEF less
  <2> QED BY NatLessThanWellFounded, WFMin DEF less
<1>2. ASSUME NEW m \in T, m < n PROVE FALSE
  <2>1. <<m, n>> \in less
    BY <1>2 DEF OpToRel
  <2>2. QED
    BY <1>1, <2>1
<1>3. QED
  BY <1>2

\* A fold over the subsets of a finite set: the elements are picked in some order, and
\* each is joined to the fold of the others.
FoldOf(S, base, h, pick, f, s) ==
    f[s] = IF s = {} THEN base ELSE h[pick[s]][f[s \ {pick[s]}]]

\* There is such a fold, for every way to pick the elements.
LEMMA FoldExists ==
    ASSUME NEW S, IsFiniteSet(S), NEW V, NEW base \in V, NEW h \in [S -> [V -> V]],
           NEW pick, \A s \in SUBSET S : s # {} => pick[s] \in s
    PROVE  \E f \in [SUBSET S -> V] : \A s \in SUBSET S : FoldOf(S, base, h, pick, f, s)
<1> DEFINE Upto(n, f) == \A s \in SUBSET S : Cardinality(s) <= n => FoldOf(S, base, h, pick, f, s)
           none == {n \in 0 .. Cardinality(S) : ~\E f \in [SUBSET S -> V] : Upto(n, f)}
<1>1. \A s \in SUBSET S : IsFiniteSet(s) /\ Cardinality(s) \in Nat /\ Cardinality(s) <= Cardinality(S)
  BY FS_Subset, FS_CardinalityType
<1>2. \A s \in SUBSET S : s # {} =>
          /\ pick[s] \in S /\ s \ {pick[s]} \in SUBSET S
          /\ Cardinality(s) # 0 /\ Cardinality(s \ {pick[s]}) = Cardinality(s) - 1
  <2> TAKE s \in SUBSET S
  <2> HAVE s # {}
  <2>1. pick[s] \in s
    OBVIOUS
  <2>2. Cardinality(s \ {pick[s]}) = Cardinality(s) - 1
    BY <1>1, <2>1, FS_RemoveElement
  <2>3. Cardinality(s) # 0
    BY <1>1, FS_EmptySet
  <2>4. QED
    BY <2>1, <2>2, <2>3
<1>3. ASSUME none # {} PROVE FALSE
  <2>0. Cardinality(S) \in Nat /\ none \subseteq Nat
    BY <1>1
  <2>1. PICK n \in none : \A m \in none : ~(m < n)
    <3> HIDE DEF none
    <3> QED BY <1>3, <2>0, LeastNumber
  <2>2. n \in Nat /\ n <= Cardinality(S) /\ ~\E f \in [SUBSET S -> V] : Upto(n, f)
    <3>1. n \in 0 .. Cardinality(S) /\ ~\E f \in [SUBSET S -> V] : Upto(n, f)
      BY <2>1
    <3>2. n \in Nat /\ n <= Cardinality(S)
      <4> HIDE DEF none, Upto
      <4>1. \A c \in Nat : \A m \in 0 .. c : m \in Nat /\ m <= c
        OBVIOUS
      <4>2. QED
        BY <2>0, <3>1, <4>1
    <3>3. QED
      BY <3>1, <3>2
  <2>3. CASE n = 0
    <3> DEFINE f == [s \in SUBSET S |-> base]
    <3>1. f \in [SUBSET S -> V]
      OBVIOUS
    <3>2. ASSUME NEW s \in SUBSET S, Cardinality(s) <= 0 PROVE FoldOf(S, base, h, pick, f, s)
      <4>1. s = {}
        <5>1. Cardinality(s) \in Nat /\ (s # {} => Cardinality(s) # 0)
          BY <1>1, <1>2
        <5>2. QED
          BY <3>2, <5>1
      <4>2. QED
        BY <4>1 DEF FoldOf
    <3>3. QED
      BY <2>2, <2>3, <3>1, <3>2
  <2>4. CASE n # 0
    <3>1. n - 1 \in 0 .. Cardinality(S) /\ n - 1 < n
      BY <2>0, <2>2, <2>4
    <3>2. PICK f \in [SUBSET S -> V] : Upto(n - 1, f)
      BY <2>1, <3>1
    <3> DEFINE g == [s \in SUBSET S |->
                       IF Cardinality(s) = n THEN h[pick[s]][f[s \ {pick[s]}]] ELSE f[s]]
    <3>3. g \in [SUBSET S -> V]
      <4>1. ASSUME NEW s \in SUBSET S, Cardinality(s) = n
            PROVE  h[pick[s]][f[s \ {pick[s]}]] \in V
        <5>1. s # {}
          BY <2>4, <4>1, FS_EmptySet
        <5>2. pick[s] \in S /\ f[s \ {pick[s]}] \in V
          BY <1>2, <5>1
        <5>3. QED
          BY <5>2
      <4>2. QED
        BY <4>1
    <3>4. ASSUME NEW s \in SUBSET S, Cardinality(s) <= n
          PROVE  FoldOf(S, base, h, pick, g, s)
      <4>1. CASE s = {}
        <5>1. Cardinality(s) = 0
          BY <4>1, FS_EmptySet
        <5>2. FoldOf(S, base, h, pick, f, s)
          BY <2>2, <3>1, <3>2, <5>1
        <5>3. QED
          BY <2>4, <4>1, <5>1, <5>2 DEF FoldOf
      <4>2. CASE s # {}
        <5> DEFINE t == s \ {pick[s]}
        <5>1. t \in SUBSET S /\ Cardinality(t) = Cardinality(s) - 1 /\ Cardinality(s) \in Nat
          BY <1>1, <1>2, <4>2
        <5>2. Cardinality(t) # n
          BY <2>2, <3>4, <5>1
        <5>3. g[t] = f[t]
          BY <5>1, <5>2
        <5>4. CASE Cardinality(s) = n
          BY <4>2, <5>3, <5>4 DEF FoldOf
        <5>5. CASE Cardinality(s) # n
          <6>1. Cardinality(s) <= n - 1
            BY <2>2, <3>4, <5>1, <5>5
          <6>2. FoldOf(S, base, h, pick, f, s)
            BY <3>2, <6>1
          <6>3. g[s] = f[s]
            BY <5>5
          <6> HIDE DEF g
          <6>4. QED
            BY <4>2, <5>3, <6>2, <6>3 DEF FoldOf
        <5>6. QED
          BY <5>4, <5>5
      <4>3. QED
        BY <4>1, <4>2
    <3>5. Upto(n, g)
      <4> HIDE DEF g
      <4> QED BY <3>4
    <3> HIDE DEF g, Upto
    <3>6. QED
      BY <2>2, <3>3, <3>5
  <2>5. QED
    BY <2>3, <2>4
<1>4. PICK f \in [SUBSET S -> V] : Upto(Cardinality(S), f)
  <2>1. Cardinality(S) \in 0 .. Cardinality(S)
    BY <1>1
  <2>2. Cardinality(S) \notin none
    <3> HIDE DEF none
    <3> QED BY <1>3
  <2>3. QED
    BY <2>1, <2>2
<1>5. QED
  BY <1>1, <1>4

\* The greatest element of the numbers up to n.
LEMMA GreatestIs ==
    ASSUME NEW n \in Nat, NEW s \in SUBSET (1 .. n), s # {}
    PROVE  Max(s) \in s /\ (n \in s => Max(s) = n)
<1> DEFINE gaps == {n - i : i \in s}
<1>1. gaps \subseteq Nat /\ gaps # {}
  <2>1. \A i \in s : i \in 1 .. n
    OBVIOUS
  <2>2. \A i \in 1 .. n : n - i \in Nat
    OBVIOUS
  <2>3. \A i \in s : n - i \in Nat
    BY <2>1, <2>2
  <2>4. QED
    BY <2>3
<1>2. PICK g \in gaps : \A m \in gaps : ~(m < g)
  <2> HIDE DEF gaps
  <2> QED BY <1>1, LeastNumber
<1>3. PICK x \in s : g = n - x
  BY <1>2
<1>4. \A y \in s : x >= y
  <2> TAKE y \in s
  <2>1. ~(n - y < n - x)
    BY <1>2, <1>3
  <2>2. x \in Nat /\ y \in Nat
    OBVIOUS
  <2>3. QED
    BY <2>1, <2>2
<1>5. Max(s) \in s /\ \A y \in s : Max(s) >= y
  BY <1>4 DEF Max
<1>6. ASSUME n \in s PROVE Max(s) = n
  <2>1. Max(s) >= n /\ Max(s) \in 1 .. n
    BY <1>5, <1>6
  <2>2. QED
    BY <2>1
<1>7. QED
  BY <1>5, <1>6

\* The numbers up to k, without and with k.
LEMMA UpTo ==
    ASSUME NEW n \in Nat, NEW k \in 1 .. n
    PROVE  /\ 1 .. k \in SUBSET (1 .. n) /\ 1 .. k # {} /\ k \in 1 .. k
           /\ (1 .. k) \ {k} = 1 .. k - 1
           /\ k \in Nat /\ k - 1 \in 0 .. n
<1>1. k \in Nat /\ 1 <= k /\ k <= n
  OBVIOUS
<1>2. k \in 1 .. k /\ k - 1 \in 0 .. n
  BY <1>1
<1>3. 1 .. k \in SUBSET (1 .. n)
  BY <1>1
<1>4. (1 .. k) \ {k} = 1 .. k - 1
  BY <1>1
<1>5. QED
  BY <1>1, <1>2, <1>3, <1>4

\* The fold of the parts of a word, from the most significant on.
Joined(word, part) == Above(word, part[2]) \cup (part[1] \cap (0 .. part[2] - 1))

ConcatRun(n, parts, width, word) ==
    /\ word[0] = {}
    /\ \A k \in 1 .. n : word[k] = Joined(word[k - 1], parts[k])
    /\ Concat(parts, width) = word[n] \cap (0 .. width - 1)

\* The word of n parts is reached part by part.
LEMMA ConcatSteps ==
    ASSUME NEW n \in Nat, NEW parts, DOMAIN parts = 1 .. n, \A i \in 1 .. n : parts[i][2] \in Nat,
           NEW width
    PROVE  \E word : ConcatRun(n, parts, width, word)
<1> DEFINE V == SUBSET Nat
           h == [i \in 1 .. n |-> [word \in V |-> Joined(word, parts[i])]]
           pick == [s \in SUBSET (1 .. n) |-> Max(s)]
           Is(iter) == iter = [s \in SUBSET (1 .. n) |->
                                 IF s = {} THEN {} ELSE Joined(iter[s \ {Max(s)}], parts[Max(s)])]
           fold == CHOOSE iter : Is(iter)
<1>1. h \in [1 .. n -> [V -> V]]
  BY DEF Joined, Above
<1>2. \A s \in SUBSET (1 .. n) : s # {} => pick[s] \in s
  BY GreatestIs
<1>3. PICK f \in [SUBSET (1 .. n) -> V] :
          \A s \in SUBSET (1 .. n) : FoldOf(1 .. n, {}, h, pick, f, s)
  <2>1. IsFiniteSet(1 .. n)
    <3>1. 1 \in Int /\ n \in Int
      OBVIOUS
    <3>2. QED
      BY <3>1, FS_Interval
  <2>2. {} \in V
    OBVIOUS
  <2> HIDE DEF V, h, pick
  <2>3. QED
    BY <1>1, <1>2, <2>1, <2>2, FoldExists
<1>4. Is(f)
  <2>1. ASSUME NEW s \in SUBSET (1 .. n), s # {}
        PROVE  f[s] = Joined(f[s \ {Max(s)}], parts[Max(s)])
    <3>1. Max(s) \in 1 .. n /\ f[s \ {Max(s)}] \in V
      BY <1>2, <2>1
    <3>2. f[s] = h[Max(s)][f[s \ {Max(s)}]]
      BY <1>3, <2>1 DEF FoldOf
    <3>3. QED
      BY <3>1, <3>2
  <2>2. f[{}] = {}
    BY <1>3 DEF FoldOf
  <2>3. QED
    BY <2>1, <2>2
<1>5. Is(fold)
  <2> HIDE DEF Is
  <2> QED BY <1>4
<1>6. Concat(parts, width) = fold[1 .. n] \cap (0 .. width - 1)
  BY DEF Concat, FoldLeft, MapThenFoldSet, Joined
<1> DEFINE word == [k \in 0 .. n |-> fold[1 .. k]]
<1> HIDE DEF fold
<1>7. word[0] = {}
  BY <1>5
<1>8. ASSUME NEW k \in 1 .. n PROVE word[k] = Joined(word[k - 1], parts[k])
  <2>1. /\ 1 .. k \in SUBSET (1 .. n) /\ 1 .. k # {} /\ k \in 1 .. k /\ (1 .. k) \ {k} = 1 .. k - 1
        /\ k \in Nat /\ k - 1 \in 0 .. n
    BY UpTo
  <2>2. Max(1 .. k) = k
    BY <2>1, GreatestIs
  <2>3. fold[1 .. k] = Joined(fold[1 .. k - 1], parts[k])
    BY <1>5, <2>1, <2>2
  <2>4. QED
    BY <2>1, <2>3
<1>9. word[n] = fold[1 .. n]
  OBVIOUS
<1> HIDE DEF word
<1>10. QED
  BY <1>6, <1>7, <1>8, <1>9 DEF ConcatRun

(***************************************************************************)
(* The images of the transcendental ROMs. The files of a module agree but  *)
(* for the module an extraction is at, of which those written so far are   *)
(* of the tree it reads.                                                   *)
(***************************************************************************)
\* A job is a record with these fields, whatever it does.
JobFields == DOMAIN job = {"script", "tree", "todo", "writing", "kinds", "named", "given"}

\* A file that is there was made from a tree, by a run that could read the table.
Readable(tree, m) == tree \in DOMAIN Trees /\ m \in DOMAIN RawWords[tree]

\* The extraction that runs: what it was asked for, and that it writes files of the
\* first module it has left only, whose table it has read.
Extracting ==
    /\ job.script = "extract" =>
          /\ job.tree \in DOMAIN Trees /\ DefinesParse(Trees[job.tree].defines)
          /\ job.todo \in Seq(Modules) /\ job.writing \in Seq(AllKinds) /\ job.kinds \in Outputs
          /\ intact => ToSet(job.kinds) = AllKinds
    /\ job.writing # <<>> =>
          /\ job.script = "extract" /\ job.todo # <<>>
          /\ ModuleLoads(job.tree, Head(job.todo))

\* The files of a module agree at every time, but for those of the module an
\* extraction is writing: those that are written are of its tree.
AgreeSoFar ==
    intact => \A m \in Modules :
        IF job.writing # <<>> /\ m = Head(job.todo)
        THEN \A k \in AllKinds \ ToSet(job.writing) : files[m][k] = Whole(job.tree, m)
        ELSE \A k \in AllKinds : files[m][k] = files[m]["json"]

FilesAre == /\ DOMAIN files = Modules
            /\ \A m \in Modules : DOMAIN files[m] = AllKinds

RomIInv == JobFields /\ Extracting /\ FilesAre /\ AgreeSoFar

\* The first element of a sequence and the others.
LEMMA HeadAndTail ==
    ASSUME NEW S, NEW s \in Seq(S), s # <<>>
    PROVE  /\ Head(s) \in S /\ Tail(s) \in Seq(S)
           /\ Tail(s) # <<>> <=> Len(s) # 1
           /\ ToSet(s) = {Head(s)} \cup ToSet(Tail(s))
<1> DEFINE L == Len(s)
           t == Tail(s)
<1>1. L \in Nat /\ L # 0 /\ DOMAIN s = 1 .. L /\ Head(s) = s[1]
  OBVIOUS
<1>2. 1 \in 1 .. L
  BY <1>1
<1>3. t \in Seq(S) /\ Len(t) = L - 1 /\ Head(s) \in S
  BY <1>1, <1>2
<1>4. \A i \in 1 .. L - 1 : t[i] = s[i + 1]
  BY <1>1
<1>5. DOMAIN t = 1 .. L - 1
  BY <1>3
<1>6. t # <<>> <=> L # 1
  <2>1. Len(<<>>) = 0
    OBVIOUS
  <2>2. ASSUME t # <<>> PROVE Len(t) # 0
    <3> HIDE DEF t
    <3> QED BY <1>3, <2>2
  <2>3. t = <<>> => Len(t) = 0
    <3> HIDE DEF t
    <3> QED BY <2>1
  <2> HIDE DEF t
  <2>4. QED
    BY <1>1, <1>3, <2>2, <2>3
<1>7. ASSUME NEW i \in 1 .. L, i # 1 PROVE s[i] = t[i - 1] /\ i - 1 \in 1 .. L - 1
  BY <1>1, <1>4, <1>7
<1>8. ASSUME NEW i \in 1 .. L - 1 PROVE i + 1 \in 1 .. L
  BY <1>1, <1>8
<1> HIDE DEF t, L
<1>9. ToSet(s) = {Head(s)} \cup ToSet(t)
  <2>1. ASSUME NEW x \in ToSet(s) PROVE x \in {Head(s)} \cup ToSet(t)
    <3>1. PICK i \in 1 .. L : x = s[i]
      BY <1>1, <2>1 DEF ToSet
    <3>2. QED
      BY <1>1, <1>5, <1>7, <3>1 DEF ToSet
  <2>2. ASSUME NEW x \in ToSet(t) PROVE x \in ToSet(s)
    <3>1. PICK i \in 1 .. L - 1 : x = t[i]
      BY <1>5, <2>2 DEF ToSet
    <3>2. QED
      BY <1>1, <1>4, <1>8, <3>1 DEF ToSet
  <2>3. Head(s) \in ToSet(s)
    BY <1>1, <1>2 DEF ToSet
  <2>4. QED
    BY <2>1, <2>2, <2>3
<1>10. QED
  BY <1>3, <1>6, <1>9 DEF t, L

\* The image that is read again is one of the files.
LEMMA JsonIsKind == "json" \in AllKinds
BY DEF AllKinds, Kinds

\* The invariant holds of the images that are checked in.
LEMMA RomInitially == RomInit => RomIInv
<1> SUFFICES ASSUME RomInit PROVE RomIInv
  OBVIOUS
<1>1. job = NoJob
  BY DEF RomInit
<1>2. JobFields /\ Extracting
  BY <1>1 DEF NoJob, JobFields, Extracting
<1>3. FilesAre
  BY DEF RomInit, FilesAre
<1>4. job.writing = <<>>
  BY <1>1 DEF NoJob
<1>5. \A m \in Modules, k \in AllKinds : files[m][k] = files[m]["json"]
  BY JsonIsKind DEF RomInit
<1>6. QED
  BY <1>2, <1>3, <1>4, <1>5 DEF RomIInv, AgreeSoFar

\* A job that writes nothing disturbs no file.
LEMMA QuietAgree ==
    ASSUME RomIInv, files' = files, intact' => intact, job.writing = <<>>, job'.writing = <<>>
    PROVE  FilesAre' /\ AgreeSoFar'
BY DEF RomIInv, FilesAre, AgreeSoFar

\* A file that is written whole is of the tree of its extraction, like those before it.
LEMMA WholeWritten ==
    ASSUME RomIInv, WriteFile
    PROVE  RomIInv'
<1> DEFINE m == Head(job.todo)
           k == Head(job.writing)
<1>1. /\ job.script = "extract" /\ job.todo # <<>> /\ job.writing # <<>>
      /\ job.todo \in Seq(Modules) /\ job.writing \in Seq(AllKinds)
  BY DEF RomIInv, Extracting, WriteFile
<1>2. m \in Modules /\ k \in AllKinds /\ Tail(job.todo) \in Seq(Modules)
      /\ Tail(job.writing) \in Seq(AllKinds)
      /\ (Tail(job.writing) # <<>> <=> Len(job.writing) # 1)
  BY <1>1, HeadAndTail
<1>3. JobFields'
  BY DEF RomIInv, JobFields, WriteFile
<1>4. /\ job'.writing = Tail(job.writing)
      /\ job'.todo = IF Len(job.writing) = 1 THEN Tail(job.todo) ELSE job.todo
      /\ job'.script = job.script /\ job'.tree = job.tree /\ job'.kinds = job.kinds
  BY DEF RomIInv, JobFields, WriteFile
<1>5. intact' = intact
  BY DEF WriteFile
<1>6. Extracting'
  BY <1>1, <1>2, <1>4, <1>5 DEF RomIInv, Extracting
<1>7. files' = [files EXCEPT ![m][k] = Whole(job.tree, m)]
  BY DEF WriteFile
<1>8. FilesAre'
  BY <1>7 DEF RomIInv, FilesAre
<1>9. ASSUME intact, NEW n \in Modules
      PROVE  IF job'.writing # <<>> /\ n = Head(job'.todo)
             THEN \A l \in AllKinds \ ToSet(job'.writing) : files'[n][l] = Whole(job'.tree, n)
             ELSE \A l \in AllKinds : files'[n][l] = files'[n]["json"]
  <2>1. CASE n # m
    <3>1. files'[n] = files[n]
      BY <1>7, <2>1 DEF RomIInv, FilesAre
    <3>2. \A l \in AllKinds : files[n][l] = files[n]["json"]
      BY <1>9, <2>1 DEF RomIInv, AgreeSoFar
    <3>3. ~(job'.writing # <<>> /\ n = Head(job'.todo))
      BY <1>2, <1>4, <2>1
    <3>4. QED
      BY <3>1, <3>2, <3>3
  <2>2. CASE n = m
    <3>1. \A l \in AllKinds \ ToSet(job.writing) : files[m][l] = Whole(job.tree, m)
      BY <1>1, <1>2, <1>9 DEF RomIInv, AgreeSoFar
    <3>2. ToSet(job.writing) = {k} \cup ToSet(Tail(job.writing))
      BY <1>1, HeadAndTail
    <3>3. /\ files'[m][k] = Whole(job.tree, m)
          /\ \A l \in AllKinds \ {k} : files'[m][l] = files[m][l]
      BY <1>2, <1>7 DEF RomIInv, FilesAre
    <3>4. \A l \in AllKinds \ ToSet(Tail(job.writing)) : files'[m][l] = Whole(job.tree, m)
      BY <3>1, <3>2, <3>3
    <3>5. CASE Tail(job.writing) # <<>>
      BY <1>2, <1>4, <2>2, <3>4, <3>5
    <3>6. CASE Tail(job.writing) = <<>>
      <4>1. ToSet(Tail(job.writing)) = {}
        BY <3>6 DEF ToSet
      <4>2. QED
        BY <1>4, <2>2, <3>4, <3>6, <4>1, JsonIsKind
    <3>7. QED
      BY <3>5, <3>6
  <2>3. QED
    BY <2>1, <2>2
<1>10. AgreeSoFar'
  BY <1>5, <1>9 DEF AgreeSoFar
<1>11. QED
  BY <1>3, <1>6, <1>8, <1>10 DEF RomIInv

\* A generator that starts, or cannot, is a job that writes no image.
LEMMA StartGenIs ==
    ASSUME StartGen
    PROVE  /\ UNCHANGED <<files, manifest, sv, cosims, intact>>
           /\ job = NoJob
           /\ JobFields' /\ job'.writing = <<>> /\ job'.script = "gen"
BY DEF StartGen, NoJob, JobFields

\* Every step of every script keeps the invariant.
LEMMA RomSteps == RomIInv /\ [RomNext]_rom_vars => RomIInv'
<1> SUFFICES ASSUME RomIInv, [RomNext]_rom_vars PROVE RomIInv'
  OBVIOUS
<1>1. CASE StartExtract
  <2>1. PICK tree \in DOMAIN Trees, names \in Selections, kinds \in Outputs :
          /\ DefinesParse(Trees[tree].defines)
          /\ job' = [NoJob EXCEPT !.script = "extract", !.tree = tree, !.todo = names,
                                  !.named = names, !.kinds = kinds]
          /\ intact' = (intact /\ ToSet(kinds) = AllKinds)
    BY <1>1 DEF StartExtract
  <2>2. job'.writing = <<>> /\ job.writing = <<>> /\ JobFields'
    BY <1>1, <2>1 DEF StartExtract, NoJob, JobFields
  <2>3. FilesAre' /\ AgreeSoFar'
    BY <1>1, <2>1, <2>2, QuietAgree DEF StartExtract
  <2>4. Extracting'
    <3>1. /\ job'.script = "extract" /\ job'.tree = tree /\ job'.todo = names
          /\ job'.kinds = kinds
      BY <2>1 DEF NoJob
    <3>2. <<>> \in Seq(AllKinds) /\ names \in Seq(Modules)
      BY ArgumentsAssumption
    <3>3. QED
      BY <2>1, <2>2, <3>1, <3>2 DEF Extracting
  <2>5. QED
    BY <2>2, <2>3, <2>4 DEF RomIInv
<1>2. CASE LoadModule
  <2>1. /\ files' = files /\ intact' = intact
        /\ job.script = "extract" /\ job.writing = <<>> /\ job.todo # <<>>
    BY <1>2 DEF LoadModule
  <2>2. CASE ModuleLoads(job.tree, Head(job.todo))
    <3>1. job' = [job EXCEPT !.writing = job.kinds]
      BY <1>2, <2>2 DEF LoadModule
    <3>2. /\ job'.script = job.script /\ job'.tree = job.tree /\ job'.todo = job.todo
          /\ job'.kinds = job.kinds /\ job'.writing = job.kinds /\ JobFields'
      BY <3>1 DEF RomIInv, JobFields
    <3>3. job.kinds \in Seq(AllKinds)
      BY <2>1, ArgumentsAssumption DEF RomIInv, Extracting
    <3>4. Extracting'
      BY <2>1, <2>2, <3>2, <3>3 DEF RomIInv, Extracting
    <3>5. FilesAre'
      BY <2>1 DEF RomIInv, FilesAre
    <3>6. AgreeSoFar'
      <4>1. intact => ToSet(job'.writing) = AllKinds
        BY <2>1, <3>2 DEF RomIInv, Extracting
      <4>2. intact => \A m \in Modules, k \in AllKinds : files[m][k] = files[m]["json"]
        BY <2>1 DEF RomIInv, AgreeSoFar
      <4>3. QED
        BY <2>1, <4>1, <4>2 DEF AgreeSoFar
    <3>7. QED
      BY <3>2, <3>4, <3>5, <3>6 DEF RomIInv
  <2>3. CASE ~ModuleLoads(job.tree, Head(job.todo))
    <3>1. job' = NoJob
      BY <1>2, <2>3 DEF LoadModule
    <3>2. JobFields' /\ Extracting' /\ job'.writing = <<>>
      BY <3>1 DEF NoJob, JobFields, Extracting
    <3>3. QED
      BY <2>1, <3>2, QuietAgree DEF RomIInv
  <2>4. QED
    BY <2>2, <2>3
<1>3. CASE WriteFile
  BY <1>3, WholeWritten
<1>4. CASE FinishExtract
  <2>1. job' = NoJob /\ job.todo = <<>> /\ files' = files /\ intact' = intact
    BY <1>4 DEF FinishExtract
  <2>2. JobFields' /\ Extracting' /\ job'.writing = <<>> /\ job.writing = <<>>
    BY <2>1 DEF NoJob, JobFields, Extracting, RomIInv
  <2>3. QED
    BY <2>1, <2>2, QuietAgree DEF RomIInv
<1>5. CASE StartGen
  <2>1. JobFields' /\ Extracting' /\ job'.writing = <<>> /\ job.writing = <<>>
    BY <1>5, StartGenIs DEF NoJob, Extracting
  <2>2. QED
    BY <1>5, <2>1, StartGenIs, QuietAgree DEF RomIInv
<1>6. CASE GenModule
  <2>1. job.script = "gen" /\ job.writing = <<>> /\ files' = files /\ intact' = intact
    BY <1>6 DEF GenModule, RomIInv, Extracting
  <2>2. job' = NoJob \/ job' = [job EXCEPT !.todo = Tail(job.todo)]
    BY <1>6 DEF GenModule
  <2>3. JobFields' /\ Extracting' /\ job'.writing = <<>>
    BY <2>1, <2>2 DEF NoJob, JobFields, Extracting, RomIInv
  <2>4. QED
    BY <2>1, <2>3, QuietAgree DEF RomIInv
<1>7. CASE FinishGen
  <2>1. job' = NoJob /\ job.script = "gen" /\ files' = files /\ intact' = intact
    BY <1>7 DEF FinishGen
  <2>2. JobFields' /\ Extracting' /\ job'.writing = <<>> /\ job.writing = <<>>
    BY <2>1 DEF NoJob, JobFields, Extracting, RomIInv
  <2>3. QED
    BY <2>1, <2>2, QuietAgree DEF RomIInv
<1>8. CASE GenCosims
  BY <1>8 DEF GenCosims, RomIInv, JobFields, Extracting, FilesAre, AgreeSoFar
<1>9. CASE RomKilled
  <2>1. job' = NoJob /\ intact' = (intact /\ job.script # "extract")
    BY <1>9 DEF RomKilled
  <2>2. JobFields' /\ Extracting' /\ job'.writing = <<>>
    BY <2>1 DEF NoJob, JobFields, Extracting
  <2>3. CASE files' = files
    BY <2>1, <2>2, <2>3 DEF RomIInv, Extracting, FilesAre, AgreeSoFar
  <2>4. CASE files' # files
    <3>1. /\ job.writing # <<>>
          /\ \E n, d : files' = [files EXCEPT ![Head(job.todo)][Head(job.writing)] =
                                    [tree |-> job.tree, lines |-> n, missing |-> d]]
      BY <1>9, <2>4 DEF RomKilled
    <3>2. FilesAre' /\ ~intact'
      BY <2>1, <3>1 DEF RomIInv, Extracting, FilesAre
    <3>3. QED
      BY <2>2, <3>2 DEF RomIInv, AgreeSoFar
  <2>5. QED
    BY <2>3, <2>4
<1>10. CASE UNCHANGED rom_vars
  BY <1>10 DEF rom_vars, RomIInv, JobFields, Extracting, FilesAre, AgreeSoFar
<1>11. QED
  BY <1>1, <1>2, <1>3, <1>4, <1>5, <1>6, <1>7, <1>8, <1>9, <1>10 DEF RomNext

\* So it holds at every time.
LEMMA RomInvariant == RomSpec => []RomIInv
BY RomInitially, RomSteps, PTL DEF RomSpec

\* Unless an extraction was killed or left out files, all files of a module are of one
\* tree whenever none is running, whichever modules were selected and whichever runs
\* failed.
THEOREM ImagesAlwaysAgree == RomSpec => []ImagesAgree
<1>1. RomIInv => ImagesAgree
  BY DEF RomIInv, Extracting, AgreeSoFar, ImagesAgree
<1>2. QED
  BY <1>1, RomInvariant, PTL

(***************************************************************************)
(* The packers. A word put together from parts can be taken apart again:   *)
(* no packer loses a bit of a coefficient or lets it run into another one. *)
(***************************************************************************)
\* Joining a part leaves the bits before it above, and its own below.
LEMMA JoinedBits ==
    ASSUME NEW word \in SUBSET Nat, NEW part, part[2] \in Nat
    PROVE  /\ Joined(word, part) \in SUBSET Nat
           /\ \A b \in Nat : b + part[2] \in Joined(word, part) <=> b \in word
           /\ \A b \in 0 .. part[2] - 1 : b \in Joined(word, part) <=> b \in part[1]
<1>1. Joined(word, part) = {b + part[2] : b \in word} \cup (part[1] \cap (0 .. part[2] - 1))
  BY DEF Joined, Above
<1> DEFINE m == part[2]
<1>2. \A b \in word : b \in Nat /\ b + m \in Nat /\ b + m \notin 0 .. m - 1
  OBVIOUS
<1>3. 0 .. m - 1 \in SUBSET Nat
  OBVIOUS
<1>4. Joined(word, part) \in SUBSET Nat
  BY <1>1, <1>2, <1>3
<1>5. ASSUME NEW b \in Nat PROVE b + m \in Joined(word, part) <=> b \in word
  <2>1. b + m \notin 0 .. m - 1
    OBVIOUS
  <2>2. \A c \in word : c + m = b + m => c = b
    OBVIOUS
  <2>3. QED
    BY <1>1, <2>1, <2>2
<1>6. ASSUME NEW b \in 0 .. m - 1 PROVE b \in Joined(word, part) <=> b \in part[1]
  BY <1>1, <1>2
<1>7. QED
  BY <1>4, <1>5, <1>6

\* The bits of a part are the lowest of the word.
LEMMA PartBits ==
    ASSUME NEW word \in SUBSET Nat, NEW F, NEW m \in Nat
    PROVE  /\ Joined(word, <<F, m>>) \in SUBSET Nat
           /\ \A b \in 0 .. m - 1 : b \in Joined(word, <<F, m>>) <=> b \in F
<1>1. <<F, m>>[1] = F /\ <<F, m>>[2] = m
  OBVIOUS
<1> HIDE DEF Joined
<1>2. QED
  BY <1>1, JoinedBits

\* A word of two parts, joined one after the other.
LEMMA ConcatOfTwo ==
    ASSUME NEW p, NEW q, p[2] \in Nat, q[2] \in Nat, NEW width
    PROVE  Concat(<<p, q>>, width) = Joined(Joined({}, p), q) \cap (0 .. width - 1)
<1> DEFINE parts == <<p, q>>
           n == 2
<1>1. DOMAIN parts = 1 .. n /\ parts[1] = p /\ parts[2] = q
  OBVIOUS
<1>2. n \in Nat /\ \A i \in 1 .. n : parts[i][2] \in Nat
  BY <1>1
<1> HIDE DEF parts, n, ConcatRun
<1>3. PICK word : ConcatRun(n, parts, width, word)
  BY <1>1, <1>2, ConcatSteps
<1>4. word[1] = Joined({}, p) /\ word[2] = Joined(word[1], q)
  <2>1. 1 \in 1 .. n /\ 2 \in 1 .. n /\ 1 - 1 = 0 /\ 2 - 1 = 1
    BY DEF n
  <2>2. QED
    BY <1>1, <1>3, <2>1 DEF ConcatRun
<1>5. QED
  BY <1>3, <1>4 DEF parts, n, ConcatRun

\* A word of three parts.
LEMMA ConcatOfThree ==
    ASSUME NEW p, NEW q, NEW r, p[2] \in Nat, q[2] \in Nat, r[2] \in Nat, NEW width
    PROVE  Concat(<<p, q, r>>, width) = Joined(Joined(Joined({}, p), q), r) \cap (0 .. width - 1)
<1> DEFINE parts == <<p, q, r>>
           n == 3
<1>1. DOMAIN parts = 1 .. n /\ parts[1] = p /\ parts[2] = q /\ parts[3] = r
  OBVIOUS
<1>2. n \in Nat /\ \A i \in 1 .. n : parts[i][2] \in Nat
  BY <1>1
<1> HIDE DEF parts, n, ConcatRun
<1>3. PICK word : ConcatRun(n, parts, width, word)
  BY <1>1, <1>2, ConcatSteps
<1>4. word[1] = Joined({}, p) /\ word[2] = Joined(word[1], q) /\ word[3] = Joined(word[2], r)
  <2>1. 1 \in 1 .. n /\ 2 \in 1 .. n /\ 3 \in 1 .. n /\ 1 - 1 = 0 /\ 2 - 1 = 1 /\ 3 - 1 = 2
    BY DEF n
  <2>2. QED
    BY <1>1, <1>3, <2>1 DEF ConcatRun
<1>5. QED
  BY <1>3, <1>4 DEF parts, n, ConcatRun

\* A word of four parts.
LEMMA ConcatOfFour ==
    ASSUME NEW p, NEW q, NEW r, NEW s, p[2] \in Nat, q[2] \in Nat, r[2] \in Nat, s[2] \in Nat,
           NEW width
    PROVE  Concat(<<p, q, r, s>>, width)
              = Joined(Joined(Joined(Joined({}, p), q), r), s) \cap (0 .. width - 1)
<1> DEFINE parts == <<p, q, r, s>>
           n == 4
<1>1. DOMAIN parts = 1 .. n /\ parts[1] = p /\ parts[2] = q /\ parts[3] = r /\ parts[4] = s
  OBVIOUS
<1>2. n \in Nat /\ \A i \in 1 .. n : parts[i][2] \in Nat
  BY <1>1
<1> HIDE DEF parts, n, ConcatRun
<1>3. PICK word : ConcatRun(n, parts, width, word)
  BY <1>1, <1>2, ConcatSteps
<1>4. /\ word[1] = Joined({}, p) /\ word[2] = Joined(word[1], q)
      /\ word[3] = Joined(word[2], r) /\ word[4] = Joined(word[3], s)
  <2>1. 1 \in 1 .. n /\ 2 \in 1 .. n /\ 3 \in 1 .. n /\ 4 \in 1 .. n /\ 1 - 1 = 0 /\ 2 - 1 = 1 /\ 3 - 1 = 2 /\ 4 - 1 = 3
    BY DEF n
  <2>2. QED
    BY <1>1, <1>3, <2>1 DEF ConcatRun
<1>5. QED
  BY <1>3, <1>4 DEF parts, n, ConcatRun

\* The last part of a word that is not cut can be read from it, whatever is before
\* it; and the part before that one as well.
LEMMA LastPart ==
    ASSUME NEW word \in SUBSET Nat, NEW m \in Nat, NEW width \in Nat, m <= width,
           NEW F \in SUBSET (0 .. m - 1), NEW G \in SUBSET (0 .. m - 1),
           Joined(word, <<F, m>>) \cap (0 .. width - 1) = Joined(word, <<G, m>>) \cap (0 .. width - 1)
    PROVE  F = G
<1>1. ASSUME NEW b \in 0 .. m - 1 PROVE b \in F <=> b \in G
  <2>1. b \in 0 .. width - 1
    OBVIOUS
  <2>2. b \in Joined(word, <<F, m>>) <=> b \in F
    BY PartBits
  <2>3. b \in Joined(word, <<G, m>>) <=> b \in G
    BY PartBits
  <2>4. QED
    BY <2>1, <2>2, <2>3
<1>2. QED
  BY <1>1

\* The part before the last one.
LEMMA PartBeforeLast ==
    ASSUME NEW word \in SUBSET Nat, NEW m \in Nat, NEW width \in Nat,
           NEW last, last[2] \in Nat, m + last[2] <= width,
           NEW F \in SUBSET (0 .. m - 1), NEW G \in SUBSET (0 .. m - 1),
           Joined(Joined(word, <<F, m>>), last) \cap (0 .. width - 1)
              = Joined(Joined(word, <<G, m>>), last) \cap (0 .. width - 1)
    PROVE  F = G
<1>1. ASSUME NEW b \in 0 .. m - 1 PROVE b \in F <=> b \in G
  <2>1. b \in Nat /\ b + last[2] \in 0 .. width - 1
    OBVIOUS
  <2>2. Joined(word, <<F, m>>) \in SUBSET Nat /\ (b \in Joined(word, <<F, m>>) <=> b \in F)
    BY PartBits
  <2>3. Joined(word, <<G, m>>) \in SUBSET Nat /\ (b \in Joined(word, <<G, m>>) <=> b \in G)
    BY PartBits
  <2>4. /\ b + last[2] \in Joined(Joined(word, <<F, m>>), last) <=> b \in Joined(word, <<F, m>>)
        /\ b + last[2] \in Joined(Joined(word, <<G, m>>), last) <=> b \in Joined(word, <<G, m>>)
    BY <2>1, <2>2, <2>3, JoinedBits
  <2>5. QED
    BY <2>1, <2>2, <2>3, <2>4
<1>2. QED
  BY <1>1

\* A word of m bits as one of the parts.
AsFirst(F, m, rest, k, width) == Concat(<<<<F, m>>, <<rest, k>>>>, width)
AsMiddle(first, F, m, rest, k, width) == Concat(<<first, <<F, m>>, <<rest, k>>>>, width)
AsLast(first, second, F, m, width) == Concat(<<first, second, <<F, m>>>>, width)
AsThird(first, second, F, m, rest, k, width) == Concat(<<first, second, <<F, m>>, <<rest, k>>>>, width)
AsFourth(first, second, third, F, m, width) == Concat(<<first, second, third, <<F, m>>>>, width)

\* The places the packers put a word at, from which it can be read again.
LEMMA FirstOfTwo ==
    ASSUME NEW m \in Nat, NEW width \in Nat, NEW rest, NEW k \in Nat, m + k <= width,
           NEW F \in SUBSET (0 .. m - 1), NEW G \in SUBSET (0 .. m - 1),
           AsFirst(F, m, rest, k, width) = AsFirst(G, m, rest, k, width)
    PROVE  F = G
<1> DEFINE last == <<rest, k>>
<1>0. last[2] \in Nat /\ m + last[2] <= width
  OBVIOUS
<1>1. {} \in SUBSET Nat /\ <<F, m>>[2] = m /\ <<G, m>>[2] = m
  OBVIOUS
<1>2. Joined(Joined({}, <<F, m>>), last) \cap (0 .. width - 1)
         = Joined(Joined({}, <<G, m>>), last) \cap (0 .. width - 1)
  BY <1>0, <1>1, ConcatOfTwo DEF AsFirst
<1> HIDE DEF last
<1>3. QED
  BY <1>0, <1>1, <1>2, PartBeforeLast

\* The second of three parts.
LEMMA MiddleOfThree ==
    ASSUME NEW first, first[2] \in Nat, NEW m \in Nat, NEW width \in Nat,
           NEW rest, NEW k \in Nat, m + k <= width,
           NEW F \in SUBSET (0 .. m - 1), NEW G \in SUBSET (0 .. m - 1),
           AsMiddle(first, F, m, rest, k, width) = AsMiddle(first, G, m, rest, k, width)
    PROVE  F = G
<1> DEFINE last == <<rest, k>>
<1>0. last[2] \in Nat /\ m + last[2] <= width
  OBVIOUS
<1>1. Joined({}, first) \in SUBSET Nat /\ <<F, m>>[2] = m /\ <<G, m>>[2] = m
  BY JoinedBits
<1> DEFINE above == Joined({}, first)
<1>2. Joined(Joined(above, <<F, m>>), last) \cap (0 .. width - 1)
         = Joined(Joined(above, <<G, m>>), last) \cap (0 .. width - 1)
  BY <1>0, <1>1, ConcatOfThree DEF AsMiddle
<1> HIDE DEF above, last
<1>3. QED
  BY <1>0, <1>1, <1>2, PartBeforeLast DEF above

\* The last of three parts.
LEMMA LastOfThree ==
    ASSUME NEW first, first[2] \in Nat, NEW second, second[2] \in Nat,
           NEW m \in Nat, NEW width \in Nat, m <= width,
           NEW F \in SUBSET (0 .. m - 1), NEW G \in SUBSET (0 .. m - 1),
           AsLast(first, second, F, m, width) = AsLast(first, second, G, m, width)
    PROVE  F = G
<1>1. <<F, m>>[2] = m /\ <<G, m>>[2] = m
  OBVIOUS
<1>2. Joined({}, first) \in SUBSET Nat
  BY JoinedBits
<1>3. Joined(Joined({}, first), second) \in SUBSET Nat
  BY <1>2, JoinedBits
<1>4. QED
  BY <1>1, <1>3, ConcatOfThree, LastPart DEF AsLast

\* The third of four parts.
LEMMA ThirdOfFour ==
    ASSUME NEW first, first[2] \in Nat, NEW second, second[2] \in Nat,
           NEW m \in Nat, NEW width \in Nat, NEW rest, NEW k \in Nat, m + k <= width,
           NEW F \in SUBSET (0 .. m - 1), NEW G \in SUBSET (0 .. m - 1),
           AsThird(first, second, F, m, rest, k, width) = AsThird(first, second, G, m, rest, k, width)
    PROVE  F = G
<1> DEFINE last == <<rest, k>>
<1>0. last[2] \in Nat /\ m + last[2] <= width
  OBVIOUS
<1>1. <<F, m>>[2] = m /\ <<G, m>>[2] = m
  OBVIOUS
<1>2. Joined({}, first) \in SUBSET Nat
  BY JoinedBits
<1>3. Joined(Joined({}, first), second) \in SUBSET Nat
  BY <1>2, JoinedBits
<1> DEFINE above == Joined(Joined({}, first), second)
<1>4. Joined(Joined(above, <<F, m>>), last) \cap (0 .. width - 1)
         = Joined(Joined(above, <<G, m>>), last) \cap (0 .. width - 1)
  BY <1>0, <1>1, ConcatOfFour DEF AsThird
<1> HIDE DEF above, last
<1>5. QED
  BY <1>0, <1>3, <1>4, PartBeforeLast DEF above

\* The last of four parts.
LEMMA LastOfFour ==
    ASSUME NEW first, first[2] \in Nat, NEW second, second[2] \in Nat,
           NEW third, third[2] \in Nat, NEW m \in Nat, NEW width \in Nat, m <= width,
           NEW F \in SUBSET (0 .. m - 1), NEW G \in SUBSET (0 .. m - 1),
           AsFourth(first, second, third, F, m, width) = AsFourth(first, second, third, G, m, width)
    PROVE  F = G
<1>1. <<F, m>>[2] = m /\ <<G, m>>[2] = m
  OBVIOUS
<1>2. Joined({}, first) \in SUBSET Nat
  BY JoinedBits
<1>3. Joined(Joined({}, first), second) \in SUBSET Nat
  BY <1>2, JoinedBits
<1>4. Joined(Joined(Joined({}, first), second), third) \in SUBSET Nat
  BY <1>3, JoinedBits
<1>5. QED
  BY <1>1, <1>4, ConcatOfFour, LastPart DEF AsFourth

\* The widths of the parts of constant bits.
LEMMA ConstantParts ==
    ASSUME NEW n \in Nat
    PROVE  Zeros(n)[2] = n /\ Ones(n)[2] = n /\ One[2] = 1
BY DEF Zeros, Ones, One

\* Words with the same coefficients are the same.
LEMMA SameCoefficients ==
    ASSUME NEW m, NEW n, NEW a, NEW b, NEW c, NEW d, Coefficients(m, a, b) = Coefficients(n, c, d)
    PROVE  a = c /\ b = d
<1>1. Coefficients(m, a, b).c2 = a /\ Coefficients(n, c, d).c2 = c
  BY DEF Coefficients
<1>2. Coefficients(m, a, b).c0 = b /\ Coefficients(n, c, d).c0 = d
  BY DEF Coefficients
<1>3. QED
  BY <1>1, <1>2

\* The two coefficients of a word, and the word from them.
LEMMA BitsAre ==
    ASSUME NEW raw \in SUBSET Nat, NEW msb \in Nat, NEW lsb \in Nat
    PROVE  /\ Bits(raw, msb, lsb) \in SUBSET (0 .. msb - lsb)
           /\ \A b \in Nat : b + lsb <= msb => (b \in Bits(raw, msb, lsb) <=> b + lsb \in raw)
BY DEF Bits

\* The fields a packer cuts from a word are its two coefficients.
LEMMA FieldsAre ==
    ASSUME NEW consts, LegalMacros(consts), NEW family \in Families, NEW raw
    PROVE  /\ C1Field(consts, family, raw)
                = <<Bits(raw, C1Bits[family] - 1, 0), C1Bits[family]>>
           /\ C2Field(consts, family, raw)
                = <<Bits(raw, C1Bits[family] + C2Bits[family] - 1, C1Bits[family]), C2Bits[family]>>
           /\ C1Bits[family] \in 15 .. 20 /\ C2Bits[family] \in 9 .. 15
<1> DEFINE m == C1Bits[family]
           n == C2Bits[family]
<1>1. m \in 15 .. 20 /\ n \in 9 .. 15
  BY DEF Families, C1Bits, C2Bits
<1>2. /\ UnpackRange(consts[<<family, "C1_RANGE">>]) = [msb |-> m - 1, lsb |-> 0]
      /\ UnpackRange(consts[<<family, "C2_RANGE">>]) = [msb |-> m + n - 1, lsb |-> m]
  BY DEF LegalMacros
<1> HIDE DEF m, n
<1>3. m - 1 - 0 + 1 = m /\ m + n - 1 - m + 1 = n
  BY <1>1
<1>4. C1Field(consts, family, raw) = <<Bits(raw, m - 1, 0), m>>
  BY <1>2, <1>3 DEF C1Field, RawField
<1>5. C2Field(consts, family, raw) = <<Bits(raw, m + n - 1, m), n>>
  <2> DEFINE range == UnpackRange(consts[<<family, "C2_RANGE">>])
  <2>1. range.msb = m + n - 1 /\ range.lsb = m
    BY <1>2
  <2>2. C2Field(consts, family, raw)
          = <<Bits(raw, range.msb, range.lsb), range.msb - range.lsb + 1>>
    BY DEF C2Field, RawField
  <2> HIDE DEF range
  <2>3. range.msb - range.lsb + 1 = n
    <3>1. range.msb - range.lsb + 1 = (m + n - 1) - m + 1
      BY <2>1
    <3>2. QED
      BY <1>1, <3>1
  <2>4. QED
    BY <2>1, <2>2, <2>3
<1>6. QED
  BY <1>1, <1>4, <1>5 DEF m, n

\* A word is the only one with its two coefficients.
LEMMA WordFromFields ==
    ASSUME NEW m \in Nat, NEW n \in Nat, m # 0, n # 0,
           NEW raw \in SUBSET (0 .. m + n - 1), NEW other \in SUBSET (0 .. m + n - 1),
           Bits(raw, m - 1, 0) = Bits(other, m - 1, 0),
           Bits(raw, m + n - 1, m) = Bits(other, m + n - 1, m)
    PROVE  raw = other
<1>1. ASSUME NEW b \in 0 .. m + n - 1 PROVE b \in raw <=> b \in other
  <2>1. raw \in SUBSET Nat /\ other \in SUBSET Nat
    OBVIOUS
  <2>2. CASE b < m
    <3>1. b \in Nat /\ b + 0 = b /\ b + 0 <= m - 1 /\ m - 1 \in Nat
      BY <2>2
    <3>2. b \in raw <=> b \in Bits(raw, m - 1, 0)
      BY <2>1, <3>1, BitsAre
    <3>3. b \in other <=> b \in Bits(other, m - 1, 0)
      BY <2>1, <3>1, BitsAre
    <3>4. QED
      BY <3>2, <3>3
  <2>3. CASE b >= m
    <3>1. b - m \in Nat /\ b - m + m = b /\ b - m + m <= m + n - 1 /\ m + n - 1 \in Nat
      BY <2>3
    <3>2. b \in raw <=> b - m \in Bits(raw, m + n - 1, m)
      BY <2>1, <3>1, BitsAre
    <3>3. b \in other <=> b - m \in Bits(other, m + n - 1, m)
      BY <2>1, <3>1, BitsAre
    <3>4. QED
      BY <3>2, <3>3
  <2>4. QED
    BY <2>2, <2>3
<1>2. QED
  BY <1>1

\* A packer keeps a word: no other one has the same coefficients.
Keeps(packed, other, raw, word) == packed = other => raw = word

\* The packers of a word of one coefficient.
LEMMA KeepsC0 ==
    ASSUME NEW raw, NEW other
    PROVE  /\ raw \in SUBSET (0 .. 24) /\ other \in SUBSET (0 .. 24) =>
                 Keeps(pack_rcp_c0(raw), pack_rcp_c0(other), raw, other)
           /\ raw \in SUBSET (0 .. 25) /\ other \in SUBSET (0 .. 25) =>
                 /\ Keeps(pack_log_c0(raw), pack_log_c0(other), raw, other)
                 /\ Keeps(pack_exp_c0(raw), pack_exp_c0(other), raw, other)
<1>1. ASSUME raw \in SUBSET (0 .. 24), other \in SUBSET (0 .. 24), pack_rcp_c0(raw) = pack_rcp_c0(other)
      PROVE  raw = other
  <2>1. AsLast(Zeros(6), One, raw, 25, 32) = AsLast(Zeros(6), One, other, 25, 32)
    BY <1>1, SameCoefficients DEF pack_rcp_c0, AsLast
  <2>2. Zeros(6)[2] = 6 /\ One[2] = 1
    BY ConstantParts
  <2>3. QED
    BY <1>1, <2>1, <2>2, LastOfThree
<1>2. ASSUME raw \in SUBSET (0 .. 25), other \in SUBSET (0 .. 25), pack_log_c0(raw) = pack_log_c0(other)
      PROVE  raw = other
  <2>1. AsMiddle(Zeros(5), raw, 26, {}, 1, 32) = AsMiddle(Zeros(5), other, 26, {}, 1, 32)
    BY <1>2, SameCoefficients DEF pack_log_c0, AsMiddle, Zeros
  <2>2. Zeros(5)[2] \in Nat /\ 1 \in Nat /\ 26 + 1 <= 32
    BY ConstantParts
  <2>3. 26 \in Nat /\ 32 \in Nat /\ raw \in SUBSET (0 .. 26 - 1) /\ other \in SUBSET (0 .. 26 - 1)
    BY <1>2
  <2>4. QED
    BY <2>1, <2>2, <2>3, MiddleOfThree
<1>3. ASSUME raw \in SUBSET (0 .. 25), other \in SUBSET (0 .. 25), pack_exp_c0(raw) = pack_exp_c0(other)
      PROVE  raw = other
  <2>1. AsMiddle(Zeros(3), raw, 26, {}, 3, 32) = AsMiddle(Zeros(3), other, 26, {}, 3, 32)
    BY <1>3, SameCoefficients DEF pack_exp_c0, AsMiddle, Zeros
  <2>2. Zeros(3)[2] \in Nat /\ 3 \in Nat /\ 26 + 3 <= 32
    BY ConstantParts
  <2>3. 26 \in Nat /\ 32 \in Nat /\ raw \in SUBSET (0 .. 26 - 1) /\ other \in SUBSET (0 .. 26 - 1)
    BY <1>3
  <2>4. QED
    BY <2>1, <2>2, <2>3, MiddleOfThree
<1>4. QED
  BY <1>1, <1>2, <1>3 DEF Keeps

\* The packer of the reciprocal square root keeps the word.
LEMMA KeepsRsqrtC0 ==
    ASSUME NEW raw \in SUBSET (0 .. 24), NEW other \in SUBSET (0 .. 24), NEW index
    PROVE  Keeps(pack_rsqrt_c0(index, raw), pack_rsqrt_c0(index, other), raw, other)
<1> SUFFICES ASSUME pack_rsqrt_c0(index, raw) = pack_rsqrt_c0(index, other) PROVE raw = other
  BY DEF Keeps
<1>1. /\ Zeros(5)[2] \in Nat /\ Zeros(1)[2] \in Nat /\ One[2] \in Nat
      /\ 1 \in Nat /\ 25 + 1 <= 32 /\ 25 <= 32
  BY ConstantParts
<1>0. 25 \in Nat /\ 32 \in Nat /\ raw \in SUBSET (0 .. 25 - 1) /\ other \in SUBSET (0 .. 25 - 1)
  OBVIOUS
<1>2. CASE HasBit(index, 128)
  <2>1. AsThird(Zeros(5), One, raw, 25, {}, 1, 32) = AsThird(Zeros(5), One, other, 25, {}, 1, 32)
    BY <1>2, SameCoefficients DEF pack_rsqrt_c0, AsThird, Zeros
  <2>2. QED
    BY <1>0, <1>1, <2>1, ThirdOfFour
<1>3. CASE ~HasBit(index, 128)
  <2>1. AsFourth(Zeros(5), One, Zeros(1), raw, 25, 32) = AsFourth(Zeros(5), One, Zeros(1), other, 25, 32)
    BY <1>3, SameCoefficients DEF pack_rsqrt_c0, AsFourth
  <2>2. QED
    BY <1>0, <1>1, <2>1, LastOfFour
<1>4. QED
  BY <1>2, <1>3

\* The bands of the sine table.
LEMMA BandsAre == \A index : SinBand(index) \in {0, 2, 3, 4, 6, 7}
BY DEF SinBand

\* The packer of the sine keeps the word in every band.
LEMMA KeepsSinC0 ==
    ASSUME NEW raw \in SUBSET (0 .. 26), NEW other \in SUBSET (0 .. 26), NEW index,
           SinBand(index) # 0
    PROVE  Keeps(pack_sin_c0(index, raw), pack_sin_c0(index, other), raw, other)
<1> SUFFICES ASSUME pack_sin_c0(index, raw) = pack_sin_c0(index, other) PROVE raw = other
  BY DEF Keeps
<1> DEFINE band == SinBand(index)
<1>1. 7 - band \in Nat /\ band - 2 \in Nat /\ 27 + (band - 2) <= 32
  BY BandsAre
<1>2. Zeros(7 - band)[2] \in Nat
  BY <1>1, ConstantParts
<1>3. AsMiddle(Zeros(7 - band), raw, 27, {}, band - 2, 32)
         = AsMiddle(Zeros(7 - band), other, 27, {}, band - 2, 32)
  BY SameCoefficients DEF pack_sin_c0, AsMiddle, Zeros
<1>4. 27 \in Nat /\ 32 \in Nat /\ raw \in SUBSET (0 .. 27 - 1) /\ other \in SUBSET (0 .. 27 - 1)
  OBVIOUS
<1> HIDE DEF band
<1>5. QED
  BY <1>1, <1>2, <1>3, <1>4, MiddleOfThree

\* The packers of a word of two coefficients.
C1Packed(first, consts, family, raw, k) ==
    Concat(<<first, C1Field(consts, family, raw), Zeros(k)>>, 32)
C2Packed(consts, family, raw, k) == Concat(<<C2Field(consts, family, raw), Zeros(k)>>, 17)

\* The bits of a slice, counted from its lowest.
LEMMA BitsBelow ==
    ASSUME NEW raw \in SUBSET Nat, NEW msb \in Nat, NEW lsb \in Nat, NEW n \in Nat, msb = lsb + n
    PROVE  Bits(raw, msb, lsb) \in SUBSET (0 .. n)
BY DEF Bits

\* The words a module with two coefficients has.
WordsOfTwo(family) == SUBSET (0 .. C1Bits[family] + C2Bits[family] - 1)

\* The first coefficient is kept where it is placed.
LEMMA KeepsLow ==
    ASSUME NEW consts, LegalMacros(consts), NEW family \in Families,
           NEW raw \in WordsOfTwo(family), NEW other \in WordsOfTwo(family),
           NEW first, first[2] \in Nat, NEW k \in Nat, C1Bits[family] + k <= 32,
           C1Packed(first, consts, family, raw, k) = C1Packed(first, consts, family, other, k)
    PROVE  Bits(raw, C1Bits[family] - 1, 0) = Bits(other, C1Bits[family] - 1, 0)
<1> DEFINE m == C1Bits[family]
<1>1. /\ C1Field(consts, family, raw) = <<Bits(raw, m - 1, 0), m>>
      /\ C1Field(consts, family, other) = <<Bits(other, m - 1, 0), m>>
      /\ m \in 15 .. 20
  BY FieldsAre
<1>2. AsMiddle(first, Bits(raw, m - 1, 0), m, {}, k, 32)
        = AsMiddle(first, Bits(other, m - 1, 0), m, {}, k, 32)
  BY <1>1 DEF C1Packed, AsMiddle, Zeros
<1>3. raw \in SUBSET Nat /\ other \in SUBSET Nat
  BY FieldsAre DEF WordsOfTwo
<1> HIDE DEF m
<1>4. m \in Nat /\ m - 1 \in Nat /\ 0 \in Nat /\ m - 1 = 0 + (m - 1) /\ 32 \in Nat
  BY <1>1
<1>5. Bits(raw, m - 1, 0) \in SUBSET (0 .. m - 1) /\ Bits(other, m - 1, 0) \in SUBSET (0 .. m - 1)
  BY <1>3, <1>4, BitsBelow
<1>6. Bits(raw, m - 1, 0) = Bits(other, m - 1, 0)
  BY <1>2, <1>4, <1>5, MiddleOfThree DEF m
<1>7. QED
  BY <1>6 DEF m

\* The second coefficient is kept where it is placed.
LEMMA KeepsHigh ==
    ASSUME NEW consts, LegalMacros(consts), NEW family \in Families,
           NEW raw \in WordsOfTwo(family), NEW other \in WordsOfTwo(family),
           NEW k \in Nat, C2Bits[family] + k <= 17,
           C2Packed(consts, family, raw, k) = C2Packed(consts, family, other, k)
    PROVE  Bits(raw, C1Bits[family] + C2Bits[family] - 1, C1Bits[family])
              = Bits(other, C1Bits[family] + C2Bits[family] - 1, C1Bits[family])
<1> DEFINE m == C1Bits[family]
           n == C2Bits[family]
           high(word) == Bits(word, m + n - 1, m)
<1>1. /\ C2Field(consts, family, raw) = <<high(raw), n>>
      /\ C2Field(consts, family, other) = <<high(other), n>>
      /\ m \in 15 .. 20 /\ n \in 9 .. 15
  BY FieldsAre
<1>2. AsFirst(high(raw), n, {}, k, 17) = AsFirst(high(other), n, {}, k, 17)
  BY <1>1 DEF C2Packed, AsFirst, Zeros
<1>3. raw \in SUBSET Nat /\ other \in SUBSET Nat
  BY FieldsAre DEF WordsOfTwo
<1> HIDE DEF m, n
<1>4. m \in Nat /\ n \in Nat /\ m + n - 1 \in Nat /\ m + n - 1 - m = n - 1 /\ 17 \in Nat
  BY <1>1
<1>5. high(raw) \in SUBSET (0 .. n - 1) /\ high(other) \in SUBSET (0 .. n - 1)
  BY <1>3, <1>4, BitsAre
<1> HIDE DEF high
<1>6. high(raw) = high(other)
  BY <1>2, <1>4, <1>5, FirstOfTwo DEF n
<1>7. QED
  BY <1>6 DEF high, m, n

\* So that a packer keeps a word when it places both of its coefficients.
LEMMA KeepsBoth ==
    ASSUME NEW consts, LegalMacros(consts), NEW family \in Families,
           NEW raw \in WordsOfTwo(family), NEW other \in WordsOfTwo(family),
           Bits(raw, C1Bits[family] - 1, 0) = Bits(other, C1Bits[family] - 1, 0),
           Bits(raw, C1Bits[family] + C2Bits[family] - 1, C1Bits[family])
              = Bits(other, C1Bits[family] + C2Bits[family] - 1, C1Bits[family])
    PROVE  raw = other
<1> DEFINE m == C1Bits[family]
           n == C2Bits[family]
<1>1. m \in 15 .. 20 /\ n \in 9 .. 15
  BY FieldsAre
<1>2. m \in Nat /\ n \in Nat /\ m # 0 /\ n # 0
  BY <1>1
<1>3. /\ Bits(raw, m - 1, 0) = Bits(other, m - 1, 0)
      /\ Bits(raw, m + n - 1, m) = Bits(other, m + n - 1, m)
      /\ raw \in SUBSET (0 .. m + n - 1) /\ other \in SUBSET (0 .. m + n - 1)
  BY DEF WordsOfTwo
<1> HIDE DEF m, n
<1>4. QED
  BY <1>2, <1>3, WordFromFields

\* The packers of two coefficients keep the word.
LEMMA KeepsC1C2 ==
    ASSUME NEW consts, LegalMacros(consts), NEW raw, NEW other
    PROVE  /\ raw \in WordsOfTwo("RCP") /\ other \in WordsOfTwo("RCP") =>
                 Keeps(pack_rcp_c1c2(consts, raw), pack_rcp_c1c2(consts, other), raw, other)
           /\ raw \in WordsOfTwo("RSQRT") /\ other \in WordsOfTwo("RSQRT") =>
                 Keeps(pack_rsqrt_c1c2(consts, raw), pack_rsqrt_c1c2(consts, other), raw, other)
           /\ raw \in WordsOfTwo("LOG") /\ other \in WordsOfTwo("LOG") =>
                 Keeps(pack_log_c1c2(consts, raw), pack_log_c1c2(consts, other), raw, other)
           /\ raw \in WordsOfTwo("EXP") /\ other \in WordsOfTwo("EXP") =>
                 Keeps(pack_exp_c1c2(consts, raw), pack_exp_c1c2(consts, other), raw, other)
<1>1. ASSUME raw \in WordsOfTwo("RCP"), other \in WordsOfTwo("RCP"),
             pack_rcp_c1c2(consts, raw) = pack_rcp_c1c2(consts, other)
      PROVE  raw = other
  <2>1. /\ C2Packed(consts, "RCP", raw, 7) = C2Packed(consts, "RCP", other, 7)
        /\ C1Packed(Ones(3), consts, "RCP", raw, 13) = C1Packed(Ones(3), consts, "RCP", other, 13)
    BY <1>1, SameCoefficients DEF pack_rcp_c1c2, C2Packed, C1Packed
  <2>2. /\ "RCP" \in Families /\ 7 \in Nat /\ 13 \in Nat /\ Ones(3)[2] \in Nat
        /\ C1Bits["RCP"] + 13 <= 32 /\ C2Bits["RCP"] + 7 <= 17
    BY ConstantParts DEF Families, C1Bits, C2Bits
  <2>3. QED
    BY <1>1, <2>1, <2>2, KeepsLow, KeepsHigh, KeepsBoth
<1>2. ASSUME raw \in WordsOfTwo("RSQRT"), other \in WordsOfTwo("RSQRT"),
             pack_rsqrt_c1c2(consts, raw) = pack_rsqrt_c1c2(consts, other)
      PROVE  raw = other
  <2>1. /\ C2Packed(consts, "RSQRT", raw, 8) = C2Packed(consts, "RSQRT", other, 8)
        /\ C1Packed(Ones(3), consts, "RSQRT", raw, 14) = C1Packed(Ones(3), consts, "RSQRT", other, 14)
    BY <1>2, SameCoefficients DEF pack_rsqrt_c1c2, C2Packed, C1Packed
  <2>2. /\ "RSQRT" \in Families /\ 8 \in Nat /\ 14 \in Nat /\ Ones(3)[2] \in Nat
        /\ C1Bits["RSQRT"] + 14 <= 32 /\ C2Bits["RSQRT"] + 8 <= 17
    BY ConstantParts DEF Families, C1Bits, C2Bits
  <2>3. QED
    BY <1>2, <2>1, <2>2, KeepsLow, KeepsHigh, KeepsBoth
<1>3. ASSUME raw \in WordsOfTwo("LOG"), other \in WordsOfTwo("LOG"),
             pack_log_c1c2(consts, raw) = pack_log_c1c2(consts, other)
      PROVE  raw = other
  <2>1. /\ C2Packed(consts, "LOG", raw, 7) = C2Packed(consts, "LOG", other, 7)
        /\ C1Packed(Ones(2), consts, "LOG", raw, 14) = C1Packed(Ones(2), consts, "LOG", other, 14)
    BY <1>3, SameCoefficients DEF pack_log_c1c2, C2Packed, C1Packed
  <2>2. /\ "LOG" \in Families /\ 7 \in Nat /\ 14 \in Nat /\ Ones(2)[2] \in Nat
        /\ C1Bits["LOG"] + 14 <= 32 /\ C2Bits["LOG"] + 7 <= 17
    BY ConstantParts DEF Families, C1Bits, C2Bits
  <2>3. QED
    BY <1>3, <2>1, <2>2, KeepsLow, KeepsHigh, KeepsBoth
<1>4. ASSUME raw \in WordsOfTwo("EXP"), other \in WordsOfTwo("EXP"),
             pack_exp_c1c2(consts, raw) = pack_exp_c1c2(consts, other)
      PROVE  raw = other
  <2>1. /\ C2Packed(consts, "EXP", raw, 6) = C2Packed(consts, "EXP", other, 6)
        /\ C1Packed(Zeros(2), consts, "EXP", raw, 14) = C1Packed(Zeros(2), consts, "EXP", other, 14)
    BY <1>4, SameCoefficients DEF pack_exp_c1c2, C2Packed, C1Packed
  <2>2. /\ "EXP" \in Families /\ 6 \in Nat /\ 14 \in Nat /\ Zeros(2)[2] \in Nat
        /\ C1Bits["EXP"] + 14 <= 32 /\ C2Bits["EXP"] + 6 <= 17
    BY ConstantParts DEF Families, C1Bits, C2Bits
  <2>3. QED
    BY <1>4, <2>1, <2>2, KeepsLow, KeepsHigh, KeepsBoth
<1>5. QED
  BY <1>1, <1>2, <1>3, <1>4 DEF Keeps

\* The packer of the sine keeps both coefficients in every band.
LEMMA KeepsSinC1C2 ==
    ASSUME NEW consts, LegalMacros(consts), NEW index, SinBand(index) # 0,
           NEW raw \in WordsOfTwo("SIN"), NEW other \in WordsOfTwo("SIN")
    PROVE  Keeps(pack_sin_c1c2(consts, index, raw), pack_sin_c1c2(consts, index, other), raw, other)
<1> SUFFICES ASSUME pack_sin_c1c2(consts, index, raw) = pack_sin_c1c2(consts, index, other)
             PROVE raw = other
  BY DEF Keeps
<1> DEFINE band == SinBand(index)
           lead == SinC2Lead(band)
           low(word) == Bits(word, 19, 0)
           high(word) == Bits(word, 34, 20)
<1>1. /\ "SIN" \in Families /\ C1Bits["SIN"] = 20 /\ C2Bits["SIN"] = 15
      /\ 20 - 1 = 19 /\ 20 + 15 - 1 = 34
  BY DEF Families, C1Bits, C2Bits
<1>2. \A word : /\ C1Field(consts, "SIN", word) = <<low(word), 20>>
                /\ C2Field(consts, "SIN", word) = <<high(word), 15>>
  BY <1>1, FieldsAre
<1>3. \A word : /\ <<C1Field(consts, "SIN", word)[1], 20>> = <<low(word), 20>>
                /\ <<C2Field(consts, "SIN", word)[1], 15>> = <<high(word), 15>>
  BY <1>2
<1>4. lead \in 0 .. 2
  BY BandsAre DEF SinC2Lead
<1> HIDE DEF low, high, lead
<1> DEFINE c2(word) == AsMiddle(Zeros(lead), high(word), 15, {}, 2 - lead, 17)
           c0(word) == IF band <= 4 THEN AsMiddle(Zeros(4), low(word), 20, {}, 8, 32)
                                    ELSE AsMiddle(Zeros(1), low(word), 20, {}, 11, 32)
<1>5. ASSUME NEW word
      PROVE  pack_sin_c1c2(consts, index, word) = Coefficients(0 .. band - 1, c2(word), c0(word))
  <2> DEFINE p1 == <<C1Field(consts, "SIN", word)[1], 20>>
             p2 == <<C2Field(consts, "SIN", word)[1], 15>>
  <2>1. p1 = <<low(word), 20>> /\ p2 = <<high(word), 15>>
    BY <1>3
  <2>2. pack_sin_c1c2(consts, index, word)
          = Coefficients(0 .. band - 1,
                         Concat(<<Zeros(lead), p2, Zeros(2 - lead)>>, 17),
                         IF band <= 4 THEN Concat(<<Zeros(4), p1, Zeros(8)>>, 32)
                                      ELSE Concat(<<Zeros(1), p1, Zeros(11)>>, 32))
    BY DEF pack_sin_c1c2, lead
  <2>3. Zeros(8) = <<{}, 8>> /\ Zeros(11) = <<{}, 11>> /\ Zeros(2 - lead) = <<{}, 2 - lead>>
    BY DEF Zeros
  <2> HIDE DEF p1, p2
  <2>4. QED
    BY <2>1, <2>2, <2>3 DEF AsMiddle
<1>6. c2(raw) = c2(other) /\ c0(raw) = c0(other)
  <2> HIDE DEF c2, c0
  <2> QED BY <1>5, SameCoefficients
<1>7. /\ raw \in SUBSET (0 .. 34) /\ other \in SUBSET (0 .. 34)
  BY <1>1 DEF WordsOfTwo
<1>8. /\ high(raw) \in SUBSET (0 .. 15 - 1) /\ high(other) \in SUBSET (0 .. 15 - 1)
      /\ low(raw) \in SUBSET (0 .. 20 - 1) /\ low(other) \in SUBSET (0 .. 20 - 1)
  <2>1. raw \in SUBSET Nat /\ other \in SUBSET Nat
    BY <1>7
  <2>2. /\ 34 \in Nat /\ 20 \in Nat /\ 14 \in Nat /\ 34 = 20 + 14 /\ 15 - 1 = 14
        /\ 19 \in Nat /\ 0 \in Nat /\ 19 = 0 + 19 /\ 20 - 1 = 19
    OBVIOUS
  <2>3. /\ high(raw) \in SUBSET (0 .. 14) /\ high(other) \in SUBSET (0 .. 14)
    BY <2>1, <2>2, BitsBelow DEF high
  <2>4. /\ low(raw) \in SUBSET (0 .. 19) /\ low(other) \in SUBSET (0 .. 19)
    BY <2>1, <2>2, BitsBelow DEF low
  <2>5. QED
    BY <2>2, <2>3, <2>4
<1>9. high(raw) = high(other)
  <2>1. Zeros(lead)[2] \in Nat /\ 2 - lead \in Nat /\ 15 + (2 - lead) <= 17
    BY <1>4, ConstantParts
  <2>2. QED
    BY <1>6, <1>8, <2>1, MiddleOfThree
<1>10. low(raw) = low(other)
  <2>1. Zeros(4)[2] \in Nat /\ Zeros(1)[2] \in Nat
    BY ConstantParts
  <2>2. QED
    BY <1>6, <1>8, <2>1, MiddleOfThree
<1>11. QED
  BY <1>1, <1>9, <1>10, KeepsBoth DEF high, low

\* A specification of a module, and the words it has.
Specified(spec) ==
    /\ spec.family \in Families
    /\ \/ spec.part = "c0" /\ spec.raw_width = C0Bits[spec.family]
       \/ spec.part = "c1c2" /\ spec.raw_width = C1Bits[spec.family] + C2Bits[spec.family]

WordsOfSpec(spec) == SUBSET (0 .. spec.raw_width - 1)

\* The words of a module with two coefficients.
LEMMA WordsAre ==
    ASSUME NEW spec, Specified(spec), spec.part = "c1c2"
    PROVE  WordsOfSpec(spec) = WordsOfTwo(spec.family)
<1>1. spec.raw_width = C1Bits[spec.family] + C2Bits[spec.family] /\ spec.family \in Families
  BY DEF Specified
<1>2. C1Bits[spec.family] \in 15 .. 20 /\ C2Bits[spec.family] \in 9 .. 15
  BY <1>1 DEF Families, C1Bits, C2Bits
<1>3. WordsOfTwo(spec.family) = SUBSET (0 .. C1Bits[spec.family] + C2Bits[spec.family] - 1)
  BY DEF WordsOfTwo
<1>4. 0 .. C1Bits[spec.family] + C2Bits[spec.family] - 1 = 0 .. spec.raw_width - 1
  <2>1. \A m, n, w \in Nat : w = m + n => 0 .. m + n - 1 = 0 .. w - 1
    OBVIOUS
  <2>2. C1Bits[spec.family] \in Nat /\ C2Bits[spec.family] \in Nat /\ spec.raw_width \in Nat
    BY <1>1, <1>2
  <2>3. QED
    BY <1>1, <2>1, <2>2
<1>5. QED
  BY <1>3, <1>4 DEF WordsOfSpec

\* No packer loses a bit of a word, or lets it run into another one: words that are
\* packed alike are the same. The sine has indices at which there are no words.
THEOREM PackerKeeps ==
    ASSUME NEW spec, Specified(spec), NEW consts, LegalMacros(consts), NEW index,
           NEW raw \in WordsOfSpec(spec), NEW other \in WordsOfSpec(spec),
           spec.family = "SIN" => SinBand(index) # 0
    PROVE  Keeps(Packer(spec, consts, index, raw), Packer(spec, consts, index, other), raw, other)
<1>1. CASE spec.part = "c0"
  <2>1. /\ spec.family \in {"RCP", "RSQRT", "LOG", "EXP", "SIN"}
        /\ raw \in SUBSET (0 .. C0Bits[spec.family] - 1)
        /\ other \in SUBSET (0 .. C0Bits[spec.family] - 1)
    BY <1>1 DEF Specified, Families, WordsOfSpec
  <2>2. CASE spec.family = "RCP"
    <3>1. raw \in SUBSET (0 .. 24) /\ other \in SUBSET (0 .. 24)
      BY <2>1, <2>2 DEF C0Bits
    <3>2. \A word : Packer(spec, consts, index, word) = pack_rcp_c0(word)
      BY <1>1, <2>2 DEF Packer
    <3>3. QED
      BY <3>1, <3>2, KeepsC0
  <2>3. CASE spec.family = "RSQRT"
    <3>1. raw \in SUBSET (0 .. 24) /\ other \in SUBSET (0 .. 24)
      BY <2>1, <2>3 DEF C0Bits
    <3>2. \A word : Packer(spec, consts, index, word) = pack_rsqrt_c0(index, word)
      BY <1>1, <2>3 DEF Packer
    <3>3. QED
      BY <3>1, <3>2, KeepsRsqrtC0
  <2>4. CASE spec.family = "LOG"
    <3>1. raw \in SUBSET (0 .. 25) /\ other \in SUBSET (0 .. 25)
      BY <2>1, <2>4 DEF C0Bits
    <3>2. \A word : Packer(spec, consts, index, word) = pack_log_c0(word)
      BY <1>1, <2>4 DEF Packer
    <3>3. QED
      BY <3>1, <3>2, KeepsC0
  <2>5. CASE spec.family = "EXP"
    <3>1. raw \in SUBSET (0 .. 25) /\ other \in SUBSET (0 .. 25)
      BY <2>1, <2>5 DEF C0Bits
    <3>2. \A word : Packer(spec, consts, index, word) = pack_exp_c0(word)
      BY <1>1, <2>5 DEF Packer
    <3>3. QED
      BY <3>1, <3>2, KeepsC0
  <2>6. CASE spec.family = "SIN"
    <3>1. raw \in SUBSET (0 .. 26) /\ other \in SUBSET (0 .. 26)
      BY <2>1, <2>6 DEF C0Bits
    <3>2. \A word : Packer(spec, consts, index, word) = pack_sin_c0(index, word)
      BY <1>1, <2>6 DEF Packer
    <3>3. QED
      BY <2>6, <3>1, <3>2, KeepsSinC0
  <2>7. QED
    BY <2>1, <2>2, <2>3, <2>4, <2>5, <2>6
<1>2. CASE spec.part = "c1c2"
  <2>1. /\ spec.family \in {"RCP", "RSQRT", "LOG", "EXP", "SIN"}
        /\ raw \in WordsOfTwo(spec.family) /\ other \in WordsOfTwo(spec.family)
    <3>1. spec.raw_width = C1Bits[spec.family] + C2Bits[spec.family] /\ spec.family \in Families
      BY <1>2 DEF Specified
    <3>2. WordsOfSpec(spec) = WordsOfTwo(spec.family)
      BY <1>2, WordsAre
    <3>3. QED
      BY <3>1, <3>2 DEF Families
  <2>2. CASE spec.family = "RCP"
    <3>1. \A word : Packer(spec, consts, index, word) = pack_rcp_c1c2(consts, word)
      BY <1>2, <2>2 DEF Packer
    <3>2. QED
      BY <2>1, <2>2, <3>1, KeepsC1C2
  <2>3. CASE spec.family = "RSQRT"
    <3>1. \A word : Packer(spec, consts, index, word) = pack_rsqrt_c1c2(consts, word)
      BY <1>2, <2>3 DEF Packer
    <3>2. QED
      BY <2>1, <2>3, <3>1, KeepsC1C2
  <2>4. CASE spec.family = "LOG"
    <3>1. \A word : Packer(spec, consts, index, word) = pack_log_c1c2(consts, word)
      BY <1>2, <2>4 DEF Packer
    <3>2. QED
      BY <2>1, <2>4, <3>1, KeepsC1C2
  <2>5. CASE spec.family = "EXP"
    <3>1. \A word : Packer(spec, consts, index, word) = pack_exp_c1c2(consts, word)
      BY <1>2, <2>5 DEF Packer
    <3>2. QED
      BY <2>1, <2>5, <3>1, KeepsC1C2
  <2>6. CASE spec.family = "SIN"
    <3>1. \A word : Packer(spec, consts, index, word) = pack_sin_c1c2(consts, index, word)
      BY <1>2, <2>6 DEF Packer
    <3>2. QED
      BY <2>1, <2>6, <3>1, KeepsSinC1C2
  <2>7. QED
    BY <2>1, <2>2, <2>3, <2>4, <2>5, <2>6
<1>3. QED
  BY <1>1, <1>2 DEF Specified

\* What is packed fits its fields.
Fit(mask, c2, c0) ==
    mask \in SUBSET (0 .. 6) /\ c2 \in SUBSET (0 .. 16) /\ c0 \in SUBSET (0 .. 31)

\* A word that is put together fits its width.
LEMMA ConcatFits ==
    \A parts : Concat(parts, 32) \in SUBSET (0 .. 31) /\ Concat(parts, 17) \in SUBSET (0 .. 16)
<1> TAKE parts
<1>1. \E word : Concat(parts, 32) = word \cap (0 .. 32 - 1)
  BY DEF Concat
<1>2. \E word : Concat(parts, 17) = word \cap (0 .. 17 - 1)
  BY DEF Concat
<1>3. QED
  BY <1>1, <1>2

\* The words and masks of a packer fit the fields of the image.
LEMMA PackerFits ==
    ASSUME NEW spec, Specified(spec), NEW consts, NEW index, NEW raw
    PROVE  \E mask, c2, c0 : /\ Packer(spec, consts, index, raw) = Coefficients(mask, c2, c0)
                             /\ Fit(mask, c2, c0)
<1> DEFINE Fits(c) == \E mask, c2, c0 : c = Coefficients(mask, c2, c0) /\ Fit(mask, c2, c0)
<1>1. \A mask, parts : mask \in SUBSET (0 .. 6) =>
          /\ Fits(Coefficients(mask, {}, Concat(parts, 32)))
          /\ Fits(Coefficients(mask, {}, {}))
  <2>1. {} \in SUBSET (0 .. 16) /\ {} \in SUBSET (0 .. 31)
    OBVIOUS
  <2>2. QED
    BY <2>1, ConcatFits DEF Fit
<1>2. \A mask, high, parts : mask \in SUBSET (0 .. 6) =>
          Fits(Coefficients(mask, Concat(high, 17), Concat(parts, 32)))
  BY ConcatFits DEF Fit
<1>3. {} \in SUBSET (0 .. 6) /\ {0} \in SUBSET (0 .. 6) /\ {0, 1} \in SUBSET (0 .. 6)
  OBVIOUS
<1>4. SinBand(index) # 0 => 0 .. SinBand(index) - 1 \in SUBSET (0 .. 6)
  BY BandsAre
<1> HIDE DEF Fits
<1>5. Fits(pack_rcp_c0(raw)) /\ Fits(pack_log_c0(raw)) /\ Fits(pack_exp_c0(raw))
  BY <1>1, <1>3 DEF pack_rcp_c0, pack_log_c0, pack_exp_c0
<1>6. Fits(pack_rsqrt_c0(index, raw))
  BY <1>1, <1>3 DEF pack_rsqrt_c0
<1>7. Fits(pack_sin_c0(index, raw))
  BY <1>1, <1>3, <1>4 DEF pack_sin_c0
<1>8. /\ Fits(pack_rcp_c1c2(consts, raw)) /\ Fits(pack_rsqrt_c1c2(consts, raw))
      /\ Fits(pack_log_c1c2(consts, raw)) /\ Fits(pack_exp_c1c2(consts, raw))
  BY <1>2, <1>3 DEF pack_rcp_c1c2, pack_rsqrt_c1c2, pack_log_c1c2, pack_exp_c1c2
<1>9. Fits(pack_sin_c1c2(consts, index, raw))
  BY <1>1, <1>2, <1>3, <1>4 DEF pack_sin_c1c2
<1>10. Fits(Packer(spec, consts, index, raw))
  BY <1>5, <1>6, <1>7, <1>8, <1>9 DEF Specified, Families, Packer
<1>11. QED
  BY <1>10 DEF Fits

\* A module takes a packed word apart as it was put together.
LEMMA DataOfPacked ==
    ASSUME NEW mask, NEW c2, NEW c0, Fit(mask, c2, c0)
    PROVE  DataOf(Pack(Coefficients(mask, c2, c0))) = Coefficients(mask, c2, c0)
<1> DEFINE c == Coefficients(mask, c2, c0)
           packed == Pack(c)
<1>1. packed = c0 \cup Above(c2, 32) \cup Above(mask, 50)
  <2>1. Above({}, 49) = {} /\ Above({}, 57) = {}
    BY DEF Above
  <2>2. QED
    BY <2>1 DEF Pack, Coefficients
<1>2. mask \in SUBSET (0 .. 6) /\ c2 \in SUBSET (0 .. 16) /\ c0 \in SUBSET (0 .. 31)
  BY DEF Fit
<1> HIDE DEF packed
<1>3. /\ \A b \in packed : b \in 0 .. 31 \/ b \in 32 .. 48 \/ b \in 50 .. 56
      /\ \A b \in 0 .. 31 : b \in packed <=> b \in c0
      /\ \A b \in 0 .. 16 : b + 32 \in packed <=> b \in c2
      /\ \A b \in 0 .. 6 : b + 50 \in packed <=> b \in mask
  BY <1>1, <1>2 DEF Above
<1>4. Bits(packed, 57, 57) = {} /\ Bits(packed, 49, 49) = {}
  BY <1>3 DEF Bits
<1>5. Bits(packed, 31, 0) = c0
  <2>1. ASSUME NEW b \in Bits(packed, 31, 0) PROVE b \in c0
    BY <1>3, <2>1 DEF Bits
  <2>2. ASSUME NEW b \in c0 PROVE b \in Bits(packed, 31, 0)
    <3>1. b \in 0 .. 31 /\ b \in packed /\ b - 0 = b
      BY <1>2, <1>3
    <3>2. QED
      BY <3>1 DEF Bits
  <2>3. QED
    BY <2>1, <2>2
<1>6. Bits(packed, 48, 32) = c2
  <2>1. ASSUME NEW b \in Bits(packed, 48, 32) PROVE b \in c2
    <3>1. PICK d \in packed \cap (32 .. 48) : b = d - 32
      BY <2>1 DEF Bits
    <3>2. b \in 0 .. 16 /\ b + 32 = d
      BY <3>1
    <3>3. QED
      BY <1>3, <3>1, <3>2
  <2>2. ASSUME NEW b \in c2 PROVE b \in Bits(packed, 48, 32)
    <3>1. b \in 0 .. 16 /\ b + 32 \in packed /\ b + 32 \in 32 .. 48 /\ (b + 32) - 32 = b
      BY <1>2, <1>3
    <3>2. QED
      BY <3>1 DEF Bits
  <2>3. QED
    BY <2>1, <2>2
<1>7. Bits(packed, 56, 50) = mask
  <2>1. ASSUME NEW b \in Bits(packed, 56, 50) PROVE b \in mask
    <3>1. PICK d \in packed \cap (50 .. 56) : b = d - 50
      BY <2>1 DEF Bits
    <3>2. b \in 0 .. 6 /\ b + 50 = d
      BY <3>1
    <3>3. QED
      BY <1>3, <3>1, <3>2
  <2>2. ASSUME NEW b \in mask PROVE b \in Bits(packed, 56, 50)
    <3>1. b \in 0 .. 6 /\ b + 50 \in packed /\ b + 50 \in 50 .. 56 /\ (b + 50) - 50 = b
      BY <1>2, <1>3
    <3>2. QED
      BY <3>1 DEF Bits
  <2>3. QED
    BY <2>1, <2>2
<1>8. DataOf(packed) = c
  BY <1>4, <1>5, <1>6, <1>7 DEF DataOf, Coefficients
<1>9. QED
  BY <1>8 DEF packed

(***************************************************************************)
(* The emitted modules. What loads was made from a table that can be read, *)
(* so that the words at every index fit, and the module takes them apart   *)
(* as its packer put them together.                                        *)
(***************************************************************************)
\* The least element of the numbers up to n.
LEMMA LeastIs ==
    ASSUME NEW n \in Nat, NEW s \in SUBSET (1 .. n), s # {}
    PROVE  Min(s) \in s
<1>1. s \subseteq Nat
  OBVIOUS
<1>2. PICK x \in s : \A y \in s : ~(y < x)
  BY <1>1, LeastNumber
<1>3. \A y \in s : x <= y
  BY <1>1, <1>2
<1>4. QED
  BY <1>3 DEF Min

\* The specification of a module.
LEMMA SpecOfModule ==
    ASSUME NEW m \in Modules
    PROVE  Specified(SpecOf(m))
<1> DEFINE named == {i \in 1 .. Len(ModuleSpecs) : ModuleSpecs[i].name = m}
<1>1. Len(ModuleSpecs) \in Nat /\ DOMAIN ModuleSpecs = 1 .. Len(ModuleSpecs)
  BY ModuleSpecsAssumption
<1>2. named \in SUBSET (1 .. Len(ModuleSpecs)) /\ named # {}
  BY <1>1 DEF Modules
<1>3. Min(named) \in named
  <2> HIDE DEF named
  <2> QED BY <1>1, <1>2, LeastIs
<1>4. SpecOf(m) = ModuleSpecs[Min(named)]
  BY <1>2 DEF SpecOf, SelectInSeq
<1>5. SpecOf(m) \in ToSet(ModuleSpecs)
  BY <1>1, <1>2, <1>3, <1>4 DEF ToSet
<1>6. QED
  BY <1>5, ModuleSpecsAssumption DEF Specified

\* A table that loads gives every address a word of the width of the module.
LEMMA WordsOfTable ==
    ASSUME NEW table, LegalTable(table), NEW count, NEW width, TableLoads(table, count, width),
           NEW addr \in 0 .. count - 1
    PROVE  ModuleWords(table, count)[addr] \in SUBSET (0 .. width - 1)
<1> DEFINE items == table.items
           n == Len(items)
           at == {i \in 1 .. n : items[i].label # "default" /\ items[i].addr = addr}
           defaults == {i \in 1 .. n : items[i].label = "default"}
           item == IF at # {} THEN Max(at) ELSE 0
           default == IF defaults # {} THEN Max(defaults) ELSE 0
           chosen == IF item # 0 THEN item ELSE default
<1>1. n \in Nat /\ DOMAIN items = 1 .. n
  BY DEF LegalTable
<1>2. ModuleWords(table, count)[addr] = items[chosen].value
  BY DEF ModuleWords, SelectLastInSeq
<1>3. chosen \in 1 .. n
  <2>1. defaults # {}
    BY <1>1 DEF TableLoads
  <2>2. at \in SUBSET (1 .. n) /\ defaults \in SUBSET (1 .. n)
    OBVIOUS
  <2> HIDE DEF at, defaults, n
  <2>3. at # {} => Max(at) \in 1 .. n
    BY <1>1, <2>2, GreatestIs
  <2>4. Max(defaults) \in 1 .. n
    BY <1>1, <2>1, <2>2, GreatestIs
  <2>5. QED
    BY <2>1, <2>3, <2>4
<1> HIDE DEF chosen, n
<1>4. items[chosen].width = width
  BY <1>1, <1>3 DEF TableLoads
<1>5. items[chosen].value \subseteq 0 .. items[chosen].width - 1
  BY <1>1, <1>3 DEF LegalTable
<1>6. items[chosen].value \subseteq 0 .. width - 1
  BY <1>4, <1>5
<1>7. QED
  BY <1>2, <1>6

\* The trees a module can be read from.
LEMMA ReadableIs ==
    ASSUME NEW tree \in DOMAIN Trees, NEW m \in DOMAIN RawWords[tree]
    PROVE  /\ m \in Modules /\ DefinesParse(Trees[tree].defines) /\ ModuleLoads(tree, m)
           /\ RawWords[tree][m] = ModuleWords(Trees[tree].tables[m], Depth(tree, m))
           /\ DOMAIN PackedWords[tree] = DOMAIN RawWords[tree]
           /\ PackedWords[tree][m] = [index \in DOMAIN RawWords[tree][m] |->
                  Pack(Packer(SpecOf(m), Consts(tree), index, RawWords[tree][m][index]))]
<1>1. RawWords[tree] =
        [n \in {k \in Modules : DefinesParse(Trees[tree].defines) /\ ModuleLoads(tree, k)} |->
            ModuleWords(Trees[tree].tables[n], Depth(tree, n))]
  BY DEF RawWords
<1>2. PackedWords[tree] = [n \in DOMAIN RawWords[tree] |-> [index \in DOMAIN RawWords[tree][n] |->
                  Pack(Packer(SpecOf(n), Consts(tree), index, RawWords[tree][n][index]))]]
  BY DEF PackedWords
<1>3. QED
  BY <1>1, <1>2

\* A table has a word for each of its addresses, 256 at most.
LEMMA DepthIs ==
    ASSUME NEW tree \in DOMAIN Trees, NEW m \in DOMAIN RawWords[tree]
    PROVE  /\ AddrWidth(tree, m) \in 1 .. 8
           /\ Depth(tree, m) \in Nat \ {0}
           /\ LegalMacros(Consts(tree))
<1>1. LegalMacros(Consts(tree))
  BY ReadableIs, TreesAssumption
<1>2. SpecOf(m).family \in Families
  BY ReadableIs, SpecOfModule DEF Specified
<1>3. AddrWidth(tree, m) \in 1 .. 8
  BY <1>1, <1>2 DEF LegalMacros, AddrWidth
<1>4. Depth(tree, m) \in {2, 4, 8, 16, 32, 64, 128, 256}
  <2>1. /\ 2^1 = 2 /\ 2^2 = 4 /\ 2^3 = 8 /\ 2^4 = 16
        /\ 2^5 = 32 /\ 2^6 = 64 /\ 2^7 = 128 /\ 2^8 = 256
    OBVIOUS
  <2>2. AddrWidth(tree, m) \in {1, 2, 3, 4, 5, 6, 7, 8}
    BY <1>3
  <2>3. 2^AddrWidth(tree, m) \in {2, 4, 8, 16, 32, 64, 128, 256}
    <3>1. ASSUME AddrWidth(tree, m) = 1 PROVE 2^AddrWidth(tree, m) = 2
      BY <2>1, <3>1
    <3>2. ASSUME AddrWidth(tree, m) = 2 PROVE 2^AddrWidth(tree, m) = 4
      BY <2>1, <3>2
    <3>3. ASSUME AddrWidth(tree, m) = 3 PROVE 2^AddrWidth(tree, m) = 8
      BY <2>1, <3>3
    <3>4. ASSUME AddrWidth(tree, m) = 4 PROVE 2^AddrWidth(tree, m) = 16
      BY <2>1, <3>4
    <3>5. ASSUME AddrWidth(tree, m) = 5 PROVE 2^AddrWidth(tree, m) = 32
      BY <2>1, <3>5
    <3>6. ASSUME AddrWidth(tree, m) = 6 PROVE 2^AddrWidth(tree, m) = 64
      BY <2>1, <3>6
    <3>7. ASSUME AddrWidth(tree, m) = 7 PROVE 2^AddrWidth(tree, m) = 128
      BY <2>1, <3>7
    <3>8. ASSUME AddrWidth(tree, m) = 8 PROVE 2^AddrWidth(tree, m) = 256
      BY <2>1, <3>8
    <3>9. QED
      BY <2>2, <3>1, <3>2, <3>3, <3>4, <3>5, <3>6, <3>7, <3>8
  <2>4. QED
    BY <2>3 DEF Depth
<1>5. QED
  BY <1>1, <1>3, <1>4

\* The words of a table are as wide as its module takes them to be.
LEMMA RawWordsFit ==
    ASSUME NEW tree \in DOMAIN Trees, NEW m \in DOMAIN RawWords[tree],
           NEW row \in 0 .. Depth(tree, m) - 1
    PROVE  /\ row \in DOMAIN RawWords[tree][m]
           /\ RawWords[tree][m][row] \in WordsOfSpec(SpecOf(m))
<1>1. /\ ModuleLoads(tree, m)
      /\ RawWords[tree][m] = ModuleWords(Trees[tree].tables[m], Depth(tree, m))
  BY ReadableIs
<1>2. /\ m \in DOMAIN Trees[tree].tables
      /\ TableLoads(Trees[tree].tables[m], Depth(tree, m), SpecOf(m).raw_width)
  BY <1>1 DEF ModuleLoads
<1>3. LegalTable(Trees[tree].tables[m])
  BY <1>2, TreesAssumption
<1>4. DOMAIN RawWords[tree][m] = 0 .. Depth(tree, m) - 1
  BY <1>1 DEF ModuleWords
<1>5. QED
  BY <1>1, <1>2, <1>3, <1>4, WordsOfTable DEF WordsOfSpec

\* The words at an index are of the module, and so are the words with a single bit.
LEMMA CandidatesFit ==
    ASSUME NEW tree \in DOMAIN Trees, NEW m \in DOMAIN RawWords[tree]
    PROVE  Candidates(tree, m) \subseteq WordsOfSpec(SpecOf(m))
<1>1. \A i \in DOMAIN RawWords[tree][m] : RawWords[tree][m][i] \in WordsOfSpec(SpecOf(m))
  <2>1. DOMAIN RawWords[tree][m] = 0 .. Depth(tree, m) - 1
    <3>1. RawWords[tree][m] = ModuleWords(Trees[tree].tables[m], Depth(tree, m))
      BY ReadableIs
    <3>2. QED
      BY <3>1 DEF ModuleWords
  <2>2. QED
    BY <2>1, RawWordsFit
<1>2. \A b \in 0 .. SpecOf(m).raw_width - 1 : {b} \in WordsOfSpec(SpecOf(m))
  BY DEF WordsOfSpec
<1>3. QED
  BY <1>1, <1>2 DEF Candidates

\* The indices of the cosimulation are numbers.
LEMMA IndicesAreNumbers == \A i \in DOMAIN CosimIndices : CosimIndices[i] \in Nat
<1> DEFINE all == [i \in 1 .. 256 |-> i - 1]
<1>1. <<0>> \in Seq(Nat)
  OBVIOUS
<1>2. all \in Seq(Nat)
  <2>1. \A i \in 1 .. 256 : i - 1 \in Nat
    OBVIOUS
  <2>2. 256 \in Nat
    OBVIOUS
  <2>3. QED
    BY <2>1, <2>2
<1> HIDE DEF all
<1>3. <<0>> \o all \in Seq(Nat)
  BY <1>1, <1>2
<1>4. CosimIndices \in Seq(Nat)
  BY <1>3 DEF CosimIndices, all
<1>5. QED
  BY <1>4

\* Every module that can be read answers its table, in the last row too unless
\* its line was cut.
LEMMA AllAnswer ==
    ASSUME NEW tree \in DOMAIN Trees, NEW m \in DOMAIN RawWords[tree], NEW missing \in Missing
    PROVE  AnswersItsTable[tree][m][missing]
<1> DEFINE spec == SpecOf(m)
           consts == Consts(tree)
           depth == Depth(tree, m)
           image == [Whole(tree, m) EXCEPT !.missing = missing]
           pack(index, raw) == Packer(spec, consts, index, raw)
           uncut(index) == missing = 0 \/ index % depth # depth - 1
<1>1. Specified(spec) /\ LegalMacros(consts) /\ depth \in Nat \ {0}
  BY ReadableIs, SpecOfModule, DepthIs
<1>2. ASSUME NEW index \in Nat
      PROVE  /\ index % depth \in 0 .. depth - 1
             /\ uncut(index) =>
                    DataAt(image, m, index) = pack(index % depth, RawWords[tree][m][index % depth])
  <2> DEFINE row == index % depth
             raw == RawWords[tree][m][row]
  <2>1. row \in 0 .. depth - 1
    <3>1. \A k \in Nat \ {0} : index % k \in 0 .. k - 1
      OBVIOUS
    <3> HIDE DEF depth
    <3>2. QED
      BY <1>1, <3>1
  <2>2. row \in DOMAIN RawWords[tree][m]
    BY <2>1, RawWordsFit
  <2>3. PackedWords[tree][m][row] = Pack(pack(row, raw))
    BY <2>2, ReadableIs
  <2>4. ASSUME uncut(index) PROVE DataAt(image, m, index) = DataOf(PackedWords[tree][m][row])
    <3>1. image.tree = tree /\ image.lines = depth /\ image.missing = missing
      BY DEF Whole
    <3>2. DataAt(image, m, index) = DataOf(WordOf(image, m, row))
      BY <3>1 DEF DataAt
    <3>3. WordOf(image, m, row) = PackedWords[tree][m][row]
      BY <2>4, <3>1 DEF WordOf
    <3>4. QED
      BY <3>2, <3>3
  <2> HIDE DEF row, raw, spec, consts
  <2>5. DataOf(Pack(pack(row, raw))) = pack(row, raw)
    <3>1. PICK mask, c2, c0 : /\ Packer(spec, consts, row, raw) = Coefficients(mask, c2, c0)
                              /\ Fit(mask, c2, c0)
      BY <1>1, PackerFits
    <3>2. QED
      BY <3>1, DataOfPacked
  <2>6. uncut(index) => DataAt(image, m, index) = pack(row, raw)
    BY <2>3, <2>4, <2>5
  <2>7. QED
    BY <2>1, <2>6 DEF row, raw
<1> DEFINE RowIsRight(index) ==
             LET row == index % Depth(tree, m)
                 whole == [Whole(tree, m) EXCEPT !.missing = missing]
             IN  missing = 0 \/ row # Depth(tree, m) - 1 =>
                     DataAt(whole, m, index)
                         = Packer(SpecOf(m), Consts(tree), row, RawWords[tree][m][row])
<1>3. AnswersItsTable[tree][m][missing] =
        \A index \in {CosimIndices[i] : i \in DOMAIN CosimIndices} : RowIsRight(index)
  BY DEF AnswersItsTable
<1>4. ASSUME NEW index \in {CosimIndices[i] : i \in DOMAIN CosimIndices}
      PROVE  RowIsRight(index)
  BY <1>2, IndicesAreNumbers
<1>5. QED
  BY <1>3, <1>4

\* No packer loses a bit of a word of a table that can be read.
LEMMA NoneIsLost ==
    ASSUME NEW tree \in DOMAIN Trees, NEW m \in DOMAIN RawWords[tree]
    PROVE  NoBitIsLost[tree][m]
<1> DEFINE spec == SpecOf(m)
           consts == Consts(tree)
           pack(row, raw) == Packer(spec, consts, row, raw)
           kept(row) == pack(row, {0}) # pack(row, {}) =>
                            {w \in Candidates(tree, m) : pack(row, w) = pack(row, RawWords[tree][m][row])}
                                = {RawWords[tree][m][row]}
<1>1. Specified(spec) /\ LegalMacros(consts) /\ Depth(tree, m) \in Nat \ {0}
  BY ReadableIs, SpecOfModule, DepthIs
<1>2. DOMAIN RawWords[tree][m] = 0 .. Depth(tree, m) - 1
  <2>1. RawWords[tree][m] = ModuleWords(Trees[tree].tables[m], Depth(tree, m))
    BY ReadableIs
  <2>2. QED
    BY <2>1 DEF ModuleWords
<1>3. ASSUME NEW row \in DOMAIN RawWords[tree][m], pack(row, {0}) # pack(row, {})
      PROVE  {w \in Candidates(tree, m) : pack(row, w) = pack(row, RawWords[tree][m][row])}
                 = {RawWords[tree][m][row]}
  <2> DEFINE raw == RawWords[tree][m][row]
  <2>1. row \in Nat
    BY <1>1, <1>2
  <2>2. raw \in WordsOfSpec(spec) /\ raw \in Candidates(tree, m)
    BY <1>2, RawWordsFit DEF Candidates
  <2>3. spec.family = "SIN" => SinBand(row) # 0
    BY <1>1, <1>3 DEF Specified, Packer, pack_sin_c0, pack_sin_c1c2
  <2> HIDE DEF spec, consts, raw
  <2>4. ASSUME NEW w \in Candidates(tree, m), pack(row, w) = pack(row, raw)
        PROVE  w = raw
    <3>1. w \in WordsOfSpec(spec)
      BY CandidatesFit DEF spec
    <3>2. Keeps(Packer(spec, consts, row, w), Packer(spec, consts, row, raw), w, raw)
      BY <1>1, <2>1, <2>2, <2>3, <3>1, PackerKeeps
    <3>3. QED
      BY <2>4, <3>2 DEF Keeps
  <2>5. QED
    BY <2>2, <2>4 DEF raw
<1>4. NoBitIsLost[tree][m] = \A row \in DOMAIN RawWords[tree][m] : kept(row)
  BY DEF NoBitIsLost
<1>5. QED
  BY <1>3, <1>4

\* Every file that is there was made from a tree that has the table of its module,
\* and is short of so many digits at most.
FilesMade == \A m \in Modules, k \in AllKinds :
                files[m][k].tree # "none" =>
                    /\ Readable(files[m][k].tree, m)
                    /\ files[m][k].missing \in Missing

\* So was every module, and of as many words as the address width that was given.
SvMade == /\ DOMAIN sv = Modules
          /\ \A m \in Modules :
                sv[m].tree # "none" =>
                    /\ Readable(sv[m].tree, m)
                    /\ sv[m].missing \in Missing
                    /\ sv[m].given # 0 => sv[m].lines = 2^sv[m].given

\* The file an extraction writes is of the tree it reads, whether it is cut or not.
LEMMA WrittenMade ==
    ASSUME RomIInv, FilesMade, job.writing # <<>>, NEW n, NEW d \in Missing,
           files' = [files EXCEPT ![Head(job.todo)][Head(job.writing)] =
                        [tree |-> job.tree, lines |-> n, missing |-> d]]
    PROVE  FilesMade'
<1> DEFINE m == Head(job.todo)
           k == Head(job.writing)
<1>1. /\ job.tree \in DOMAIN Trees /\ DefinesParse(Trees[job.tree].defines)
      /\ job.todo \in Seq(Modules) /\ job.todo # <<>> /\ job.writing \in Seq(AllKinds)
      /\ ModuleLoads(job.tree, m)
  BY DEF RomIInv, Extracting
<1>2. m \in Modules /\ k \in AllKinds
  BY <1>1, HeadAndTail
<1>3. Readable(job.tree, m)
  BY <1>1, <1>2 DEF Readable, RawWords
<1>4. ASSUME NEW o \in Modules, NEW l \in AllKinds, files'[o][l].tree # "none"
      PROVE  Readable(files'[o][l].tree, o) /\ files'[o][l].missing \in Missing
  <2>1. CASE o = m /\ l = k
    <3>1. files'[o][l] = [tree |-> job.tree, lines |-> n, missing |-> d]
      BY <1>2, <2>1 DEF RomIInv, FilesAre
    <3>2. files'[o][l].tree = job.tree /\ files'[o][l].missing = d
      BY <3>1
    <3>3. QED
      BY <1>3, <2>1, <3>2
  <2>2. CASE ~(o = m /\ l = k)
    <3>1. files'[o][l] = files[o][l]
      BY <1>2, <2>2 DEF RomIInv, FilesAre
    <3>2. QED
      BY <1>4, <3>1 DEF FilesMade
  <2>3. QED
    BY <2>1, <2>2
<1>5. QED
  BY <1>4 DEF FilesMade, Readable, Missing

\* The images that are checked in have been made from a tree.
LEMMA InitiallyMade == RomInit => FilesMade /\ SvMade
<1> SUFFICES ASSUME RomInit PROVE FilesMade /\ SvMade
  OBVIOUS
<1>1. SvMade
  BY DEF RomInit, NoModule, SvMade
<1>2. CASE files = [m \in Modules |-> [k \in AllKinds |-> Absent]]
  <2>1. Absent.tree = "none"
    BY DEF Absent
  <2>2. \A m \in Modules, k \in AllKinds : files[m][k] = Absent
    BY <1>2
  <2>3. QED
    BY <1>1, <2>1, <2>2 DEF FilesMade
<1>3. ASSUME NEW tree \in DOMAIN Trees, DOMAIN RawWords[tree] = Modules,
             files = [m \in Modules |-> [k \in AllKinds |-> Whole(tree, m)]]
      PROVE  FilesMade
  BY <1>3 DEF FilesMade, Whole, Readable, Missing
<1>4. QED
  BY <1>1, <1>2, <1>3 DEF RomInit

\* A module is emitted from an image, or left cut.
LEMMA EmittedMade ==
    ASSUME RomIInv, FilesMade, SvMade, GenModule
    PROVE  SvMade'
<1> DEFINE m == Head(job.todo)
           image == files[m]["packed.hex"]
<1>1. CASE ~ImageLoads(image, m, job.given)
  BY <1>1 DEF GenModule, SvMade, Readable, Missing
<1>2. CASE ImageLoads(image, m, job.given)
  <2>1. sv' = [sv EXCEPT ![m] = [tree |-> image.tree, lines |-> image.lines,
                                 missing |-> image.missing, given |-> job.given]]
    BY <1>2 DEF GenModule
  <2>2. job.given # 0 => image.lines = 2^job.given
    BY <1>2 DEF ImageLoads
  <2>3. "packed.hex" \in AllKinds
    BY DEF AllKinds, Kinds
  <2>4. ASSUME NEW n \in Modules, sv'[n].tree # "none"
        PROVE  /\ Readable(sv'[n].tree, n) /\ sv'[n].missing \in Missing
               /\ sv'[n].given # 0 => sv'[n].lines = 2^sv'[n].given
    <3>1. CASE n = m
      <4>1. /\ sv'[n].tree = image.tree /\ sv'[n].lines = image.lines
            /\ sv'[n].missing = image.missing /\ sv'[n].given = job.given
        BY <2>1, <3>1 DEF SvMade
      <4>2. Readable(image.tree, m) /\ image.missing \in Missing
        BY <2>3, <2>4, <3>1, <4>1 DEF FilesMade
      <4>3. QED
        BY <2>2, <3>1, <4>1, <4>2
    <3>2. CASE n # m
      BY <2>1, <2>4, <3>2 DEF SvMade
    <3>3. QED
      BY <3>1, <3>2
  <2>5. DOMAIN sv' = Modules
    BY <2>1 DEF SvMade
  <2>6. QED
    BY <2>4, <2>5 DEF SvMade, Readable, Missing
<1>3. QED
  BY <1>1, <1>2

\* No step leaves a file or a module that was made from anything but a readable table.
LEMMA MadeSteps == RomIInv /\ FilesMade /\ SvMade /\ [RomNext]_rom_vars => FilesMade' /\ SvMade'
<1> SUFFICES ASSUME RomIInv, FilesMade, SvMade, [RomNext]_rom_vars PROVE FilesMade' /\ SvMade'
  OBVIOUS
<1>1. CASE UNCHANGED <<files, sv>>
  BY <1>1 DEF FilesMade, SvMade, Readable, Missing
<1>2. CASE WriteFile
  <2>1. FilesMade'
    <3>1. 0 \in Missing
      BY DEF Missing
    <3>2. QED
      BY <1>2, <3>1, WrittenMade DEF WriteFile, Whole
  <2>2. SvMade'
    BY <1>2 DEF WriteFile, SvMade, Readable, Missing
  <2>3. QED
    BY <2>1, <2>2
<1>3. CASE GenModule
  <2>1. FilesMade'
    BY <1>3 DEF GenModule, FilesMade, Readable, Missing
  <2>2. QED
    BY <1>3, <2>1, EmittedMade
<1>4. CASE RomKilled
  <2>1. FilesMade'
    <3>1. CASE files' = files
      BY <3>1 DEF FilesMade, Readable, Missing
    <3>2. CASE files' # files
      <4>1. /\ job.writing # <<>>
            /\ \E n, d : /\ d \in Missing
                         /\ files' = [files EXCEPT ![Head(job.todo)][Head(job.writing)] =
                                        [tree |-> job.tree, lines |-> n, missing |-> d]]
        BY <1>4, <3>2 DEF RomKilled
      <4>2. QED
        BY <4>1, WrittenMade
    <3>3. QED
      BY <3>1, <3>2
  <2>2. SvMade'
    <3>1. CASE sv' = sv
      BY <3>1 DEF SvMade, Readable, Missing
    <3>2. CASE sv' # sv
      <4>1. sv' = [sv EXCEPT ![Head(job.todo)] = NoModule]
        BY <1>4, <3>2 DEF RomKilled
      <4>2. NoModule.tree = "none"
        BY DEF NoModule
      <4>3. QED
        BY <4>1, <4>2 DEF SvMade, Readable, Missing
    <3>3. QED
      BY <3>1, <3>2
  <2>3. QED
    BY <2>1, <2>2
<1>5. CASE StartExtract \/ LoadModule \/ FinishExtract \/ StartGen \/ FinishGen \/ GenCosims
           \/ UNCHANGED rom_vars
  BY <1>1, <1>5, StartGenIs
     DEF StartExtract, LoadModule, FinishExtract, FinishGen, GenCosims, rom_vars
<1>6. QED
  BY <1>2, <1>3, <1>4, <1>5 DEF RomNext

\* An emitted module answers every 8-bit index with the words of the table it was
\* made from, with every bit where the table had it, when its image had all its lines
\* or the address width of the table was given: a cut image is never a smaller ROM
\* then, and wrong in its last row at most.
THEOREM EmittedModulesAnswer == RomSpec => []ModulesAnswerTheirTables
<1>1. SvMade => ModulesAnswerTheirTables
  <2> SUFFICES ASSUME SvMade, NEW m \in Modules, sv[m].tree # "none",
                      \/ sv[m].lines = Depth(sv[m].tree, m)
                      \/ sv[m].given = AddrWidth(sv[m].tree, m)
               PROVE  /\ sv[m].lines = Depth(sv[m].tree, m)
                      /\ AnswersItsTable[sv[m].tree][m][sv[m].missing]
                      /\ NoBitIsLost[sv[m].tree][m]
    BY DEF ModulesAnswerTheirTables
  <2>1. /\ sv[m].tree \in DOMAIN Trees /\ m \in DOMAIN RawWords[sv[m].tree]
        /\ sv[m].missing \in Missing
    BY DEF SvMade, Readable
  <2>2. sv[m].given = AddrWidth(sv[m].tree, m) => sv[m].lines = Depth(sv[m].tree, m)
    <3>1. AddrWidth(sv[m].tree, m) \in 1 .. 8
      BY <2>1, DepthIs
    <3>2. sv[m].given = AddrWidth(sv[m].tree, m) => sv[m].given # 0
      BY <3>1
    <3>3. QED
      BY <3>2 DEF SvMade, Depth
  <2>3. QED
    BY <2>1, <2>2, AllAnswer, NoneIsLost
<1>2. RomInit => FilesMade /\ SvMade
  BY InitiallyMade
<1>3. RomIInv /\ FilesMade /\ SvMade /\ [RomNext]_rom_vars => FilesMade' /\ SvMade'
  BY MadeSteps
<1>4. QED
  BY <1>1, <1>2, <1>3, RomInvariant, PTL DEF RomSpec

(***************************************************************************)
(* The synthesis report. The lines of a log, one after the other, and the  *)
(* runs of the two parsers over them.                                      *)
(***************************************************************************)
\* What holds of a number, and of the next one whenever it holds of one, holds of all
\* the numbers from there on.
LEMMA Onwards ==
    ASSUME NEW p \in Nat, NEW q \in Nat, NEW G, p \in G,
           \A k \in p .. q : k < q /\ k \in G => k + 1 \in G
    PROVE  p .. q \subseteq G
<1> DEFINE T == (p .. q) \ G
<1>1. ASSUME T # {} PROVE FALSE
  <2>1. T \subseteq Nat
    OBVIOUS
  <2>2. PICK n \in T : \A m \in T : ~(m < n)
    <3> HIDE DEF T
    <3> QED BY <1>1, <2>1, LeastNumber
  <2>3. n \in p .. q /\ n \notin G /\ n # p
    BY <2>2
  <2>4. n - 1 \in p .. q /\ n - 1 < q /\ n - 1 < n /\ (n - 1) + 1 = n
    BY <2>3
  <2>5. n - 1 \in G
    BY <2>2, <2>4
  <2>6. QED
    BY <2>3, <2>4, <2>5
<1>2. QED
  BY <1>1

\* A run through the elements of a sequence: each changes the value that is there.
RunOf(n, base, h, f) ==
    /\ f[{}] = base
    /\ \A s \in SUBSET (1 .. n) : s # {} =>
          Max(s) \in 1 .. n /\ f[s] = h[Max(s)][f[s \ {Max(s)}]]

\* The fold of a list, over the numbers of its places, exists.
LEMMA RunExists ==
    ASSUME NEW n \in Nat, NEW V, NEW base \in V, NEW h \in [1 .. n -> [V -> V]]
    PROVE  \E f \in [SUBSET (1 .. n) -> V] : RunOf(n, base, h, f)
<1> DEFINE pick == [s \in SUBSET (1 .. n) |-> Max(s)]
<1>1. \A s \in SUBSET (1 .. n) : s # {} => pick[s] \in s
  BY GreatestIs
<1>2. IsFiniteSet(1 .. n)
  <2>1. 1 \in Int /\ n \in Int
    OBVIOUS
  <2>2. QED
    BY <2>1, FS_Interval
<1>3. PICK f \in [SUBSET (1 .. n) -> V] :
          \A s \in SUBSET (1 .. n) : FoldOf(1 .. n, base, h, pick, f, s)
  <2> HIDE DEF pick
  <2>1. QED
    BY <1>1, <1>2, FoldExists
<1>4. ASSUME NEW s \in SUBSET (1 .. n), s # {}
      PROVE  Max(s) \in 1 .. n /\ f[s] = h[Max(s)][f[s \ {Max(s)}]]
  BY <1>1, <1>3, <1>4 DEF FoldOf
<1>5. f[{}] = base
  BY <1>3 DEF FoldOf
<1>6. QED
  BY <1>4, <1>5 DEF RunOf

\* The values of such a run after the first k elements.
PrefixRun(n, base, h, f) ==
    /\ f[1 .. 0] = base
    /\ \A k \in 1 .. n : f[1 .. k] = h[k][f[1 .. k - 1]]

\* It goes through the list from its first element on.
LEMMA RunByPrefix ==
    ASSUME NEW n \in Nat, NEW f, NEW h, NEW base, RunOf(n, base, h, f)
    PROVE  PrefixRun(n, base, h, f)
<1>1. 1 .. 0 = {}
  OBVIOUS
<1>2. ASSUME NEW k \in 1 .. n PROVE f[1 .. k] = h[k][f[1 .. k - 1]]
  <2>1. /\ 1 .. k \in SUBSET (1 .. n) /\ 1 .. k # {} /\ k \in 1 .. k /\ (1 .. k) \ {k} = 1 .. k - 1
        /\ k \in Nat /\ k - 1 \in 0 .. n
    BY UpTo
  <2>2. Max(1 .. k) = k
    BY <2>1, GreatestIs
  <2>3. QED
    BY <2>1, <2>2 DEF RunOf
<1>3. QED
  BY <1>1, <1>2 DEF RunOf, PrefixRun

-----------------------------------------------------------------------------
\* The lines of a log, and the states of the parsers.
LogNames == Named \cup {"design hierarchy", "Number of wires:", "Printing statistics", ""}
               \cup UNION {UNION {DOMAIN Designs[x].subs[m] : m \in ToSet(Designs[x].modules)} :
                           x \in DOMAIN Designs}

Lines == [is : {"header", "count", "totals", "start", "other"}, name : LogNames, count : Nat]

Readers == [in : BOOLEAN, summary : BOOLEAN, done : BOOLEAN, cells : [Named -> Nat]]

\* Counting a line leaves a count for every name.
LEMMA CountedIs ==
    ASSUME NEW cells \in [Named -> Nat], NEW line \in Lines
    PROVE  Counted(cells, line) \in [Named -> Nat]
<1>1. line.count \in Nat
  BY DEF Lines
<1>2. \A n \in Named : cells[n] + line.count \in Nat
  BY <1>1
<1>3. QED
  BY <1>2 DEF Counted

\* The parsers begin with nothing counted.
LEMMA ReaderIs == Reader \in Readers
BY DEF Reader, Readers, None

\* A line leaves the parser of a module with a count for every name.
LEMMA ModuleLineIs ==
    ASSUME NEW s \in Readers, NEW line \in Lines
    PROVE  ModuleLine(s, line) \in Readers
<1>1. Counted(s.cells, line) \in [Named -> Nat]
  BY CountedIs DEF Readers
<1>2. QED
  BY <1>1 DEF ModuleLine, Readers

\* A line leaves the parser of the hierarchy with a count for every name.
LEMMA HierarchyLineIs ==
    ASSUME NEW s \in Readers, NEW line \in Lines
    PROVE  HierarchyLine(s, line) \in Readers
<1>1. Counted(s.cells, line) \in [Named -> Nat]
  BY CountedIs DEF Readers
<1>2. QED
  BY <1>1 DEF HierarchyLine, Readers

\* A parser reads line after line.
ModuleRun(n, lines, run) ==
    /\ run[0] = Reader
    /\ \A k \in 1 .. n : run[k] = ModuleLine(run[k - 1], lines[k])
    /\ parse_module_cells(lines) = run[n].cells

HierarchyRun(n, lines, run) ==
    /\ run[0] = Reader
    /\ \A k \in 1 .. n : run[k] = HierarchyLine(run[k - 1], lines[k])
    /\ parse_design_hierarchy_cells(lines) = run[n].cells

\* The parser of a module goes through the lines one by one.
LEMMA ModuleSteps ==
    ASSUME NEW n \in Nat, NEW lines \in [1 .. n -> Lines]
    PROVE  \E run : ModuleRun(n, lines, run)
<1> DEFINE h == [i \in 1 .. n |-> [s \in Readers |-> ModuleLine(s, lines[i])]]
           Is(iter) == iter = [s \in SUBSET (1 .. n) |->
                          IF s = {} THEN Reader ELSE ModuleLine(iter[s \ {Max(s)}], lines[Max(s)])]
           fold == CHOOSE iter : Is(iter)
<1>1. h \in [1 .. n -> [Readers -> Readers]]
  BY ModuleLineIs
<1>2. PICK f \in [SUBSET (1 .. n) -> Readers] : RunOf(n, Reader, h, f)
  <2> HIDE DEF h
  <2> QED BY <1>1, ReaderIs, RunExists
<1>3. Is(f)
  <2>1. ASSUME NEW s \in SUBSET (1 .. n), s # {}
        PROVE  f[s] = ModuleLine(f[s \ {Max(s)}], lines[Max(s)])
    <3>1. Max(s) \in 1 .. n /\ f[s] = h[Max(s)][f[s \ {Max(s)}]] /\ f[s \ {Max(s)}] \in Readers
      BY <1>2, <2>1 DEF RunOf
    <3>2. QED
      BY <3>1
  <2>2. QED
    BY <1>2, <2>1 DEF RunOf
<1>4. Is(fold)
  <2> HIDE DEF Is
  <2> QED BY <1>3
<1>5. parse_module_cells(lines) = fold[1 .. n].cells
  BY DEF parse_module_cells, FoldLeft, MapThenFoldSet
<1> DEFINE run == [k \in 0 .. n |-> fold[1 .. k]]
<1> HIDE DEF fold
<1>6. run[0] = Reader
  BY <1>4
<1>7. ASSUME NEW k \in 1 .. n PROVE run[k] = ModuleLine(run[k - 1], lines[k])
  <2>1. /\ 1 .. k \in SUBSET (1 .. n) /\ 1 .. k # {} /\ k \in 1 .. k /\ (1 .. k) \ {k} = 1 .. k - 1
        /\ k \in Nat /\ k - 1 \in 0 .. n
    BY UpTo
  <2>2. Max(1 .. k) = k
    BY <2>1, GreatestIs
  <2>3. fold[1 .. k] = ModuleLine(fold[1 .. k - 1], lines[k])
    BY <1>4, <2>1, <2>2
  <2>4. QED
    BY <2>1, <2>3
<1>8. run[n] = fold[1 .. n]
  OBVIOUS
<1> HIDE DEF run
<1>9. QED
  BY <1>5, <1>6, <1>7, <1>8 DEF ModuleRun

\* So does the parser of the hierarchy.
LEMMA HierarchySteps ==
    ASSUME NEW n \in Nat, NEW lines \in [1 .. n -> Lines]
    PROVE  \E run : HierarchyRun(n, lines, run)
<1> DEFINE h == [i \in 1 .. n |-> [s \in Readers |-> HierarchyLine(s, lines[i])]]
           Is(iter) == iter = [s \in SUBSET (1 .. n) |->
                          IF s = {} THEN Reader ELSE HierarchyLine(iter[s \ {Max(s)}], lines[Max(s)])]
           fold == CHOOSE iter : Is(iter)
<1>1. h \in [1 .. n -> [Readers -> Readers]]
  BY HierarchyLineIs
<1>2. PICK f \in [SUBSET (1 .. n) -> Readers] : RunOf(n, Reader, h, f)
  <2> HIDE DEF h
  <2> QED BY <1>1, ReaderIs, RunExists
<1>3. Is(f)
  <2>1. ASSUME NEW s \in SUBSET (1 .. n), s # {}
        PROVE  f[s] = HierarchyLine(f[s \ {Max(s)}], lines[Max(s)])
    <3>1. Max(s) \in 1 .. n /\ f[s] = h[Max(s)][f[s \ {Max(s)}]] /\ f[s \ {Max(s)}] \in Readers
      BY <1>2, <2>1 DEF RunOf
    <3>2. QED
      BY <3>1
  <2>2. QED
    BY <1>2, <2>1 DEF RunOf
<1>4. Is(fold)
  <2> HIDE DEF Is
  <2> QED BY <1>3
<1>5. parse_design_hierarchy_cells(lines) = fold[1 .. n].cells
  BY DEF parse_design_hierarchy_cells, FoldLeft, MapThenFoldSet
<1> DEFINE run == [k \in 0 .. n |-> fold[1 .. k]]
<1> HIDE DEF fold
<1>6. run[0] = Reader
  BY <1>4
<1>7. ASSUME NEW k \in 1 .. n PROVE run[k] = HierarchyLine(run[k - 1], lines[k])
  <2>1. /\ 1 .. k \in SUBSET (1 .. n) /\ 1 .. k # {} /\ k \in 1 .. k /\ (1 .. k) \ {k} = 1 .. k - 1
        /\ k \in Nat /\ k - 1 \in 0 .. n
    BY UpTo
  <2>2. Max(1 .. k) = k
    BY <2>1, GreatestIs
  <2>3. fold[1 .. k] = HierarchyLine(fold[1 .. k - 1], lines[k])
    BY <1>4, <2>1, <2>2
  <2>4. QED
    BY <2>1, <2>3
<1>8. run[n] = fold[1 .. n]
  OBVIOUS
<1> HIDE DEF run
<1>9. QED
  BY <1>5, <1>6, <1>7, <1>8 DEF HierarchyRun

(***************************************************************************)
(* The numbers of a design, and what Yosys writes about it.                *)
(***************************************************************************)
\* The sum of natural numbers.
LEMMA SumIs ==
    ASSUME NEW n \in Nat, NEW s \in [1 .. n -> Nat]
    PROVE  /\ SumOf(s) \in Nat
           /\ n = 1 => SumOf(s) = s[1]
<1> DEFINE h == [i \in 1 .. n |-> [v \in Nat |-> v + s[i]]]
           Is(iter) == iter = [t \in SUBSET (1 .. n) |->
                          IF t = {} THEN 0 ELSE iter[t \ {Max(t)}] + s[Max(t)]]
           fold == CHOOSE iter : Is(iter)
<1>1. h \in [1 .. n -> [Nat -> Nat]]
  OBVIOUS
<1>2. PICK f \in [SUBSET (1 .. n) -> Nat] : RunOf(n, 0, h, f)
  <2> HIDE DEF h
  <2> QED BY <1>1, RunExists
<1>3. Is(f)
  <2>1. ASSUME NEW t \in SUBSET (1 .. n), t # {}
        PROVE  f[t] = f[t \ {Max(t)}] + s[Max(t)]
    <3>1. Max(t) \in 1 .. n /\ f[t] = h[Max(t)][f[t \ {Max(t)}]] /\ f[t \ {Max(t)}] \in Nat
      BY <1>2, <2>1 DEF RunOf
    <3>2. QED
      BY <3>1
  <2>2. QED
    BY <1>2, <2>1 DEF RunOf
<1>4. Is(fold)
  <2> HIDE DEF Is
  <2> QED BY <1>3
<1>5. SumOf(s) = fold[1 .. n]
  BY DEF SumOf, FoldLeft, MapThenFoldSet
<1> HIDE DEF fold
<1>6. ASSUME NEW k \in 1 .. n, fold[1 .. k - 1] \in Nat
      PROVE  fold[1 .. k] = fold[1 .. k - 1] + s[k] /\ fold[1 .. k] \in Nat
  <2>1. /\ 1 .. k \in SUBSET (1 .. n) /\ 1 .. k # {} /\ k \in 1 .. k /\ (1 .. k) \ {k} = 1 .. k - 1
        /\ k \in Nat /\ k - 1 \in 0 .. n
    BY UpTo
  <2>2. Max(1 .. k) = k
    BY <2>1, GreatestIs
  <2>3. fold[1 .. k] = fold[1 .. k - 1] + s[k]
    BY <1>4, <2>1, <2>2
  <2>4. QED
    BY <1>6, <2>3
<1>7. fold[1 .. 0] = 0
  <2>1. 1 .. 0 = {}
    OBVIOUS
  <2>2. QED
    BY <1>4, <2>1
<1>8. fold[1 .. n] \in Nat
  <2> DEFINE G == {k \in 0 .. n : fold[1 .. k] \in Nat}
  <2>1. 0 \in G
    BY <1>7
  <2>2. ASSUME NEW k \in 0 .. n, k < n, k \in G PROVE k + 1 \in G
    <3>1. k + 1 \in 1 .. n /\ (k + 1) - 1 = k
      BY <2>2
    <3>2. fold[1 .. k] \in Nat
      BY <2>2
    <3>3. fold[1 .. k + 1] \in Nat
      BY <1>6, <3>1, <3>2
    <3>4. QED
      BY <3>1, <3>3
  <2>3. 0 .. n \subseteq G
    <3> HIDE DEF G
    <3>1. 0 \in Nat
      OBVIOUS
    <3>2. QED
      BY <2>1, <2>2, <3>1, Onwards
  <2>4. QED
    BY <2>3
<1>9. ASSUME NEW k \in 1 .. n, k = 1 PROVE fold[1 .. k] = s[k]
  <2>1. k - 1 = 0
    BY <1>9
  <2>2. fold[1 .. k - 1] = 0
    BY <1>7, <2>1
  <2>3. fold[1 .. k] = fold[1 .. k - 1] + s[k]
    <3>1. fold[1 .. k - 1] \in Nat
      BY <2>2
    <3> HIDE DEF fold
    <3>2. QED
      BY <1>6, <3>1
  <2>4. s[k] \in Nat
    OBVIOUS
  <2>5. QED
    BY <2>2, <2>3, <2>4
<1>10. n = 1 => 1 \in 1 .. n
  OBVIOUS
<1>11. QED
  BY <1>5, <1>8, <1>9, <1>10

\* A sequence of sequences, one after the other.
LEMMA FlattenIs ==
    ASSUME NEW n \in Nat \ {0}, NEW S, NEW seqs \in [1 .. n -> Seq(S)]
    PROVE  /\ FlattenSeq(seqs) \in Seq(S)
           /\ n = 1 => FlattenSeq(seqs) = seqs[1]
<1> DEFINE V == Seq(S)
           h == [i \in 1 .. n |-> [v \in V |-> v \o seqs[i]]]
           Is(g) == g = [i \in 1 .. n |-> IF i = 1 THEN seqs[i] ELSE g[i - 1] \o seqs[i]]
           flatten == CHOOSE g : Is(g)
<1>1. h \in [1 .. n -> [V -> V]] /\ <<>> \in V
  OBVIOUS
<1>2. PICK f \in [SUBSET (1 .. n) -> V] : RunOf(n, <<>>, h, f)
  <2> HIDE DEF h, V
  <2> QED BY <1>1, RunExists
<1>3. PrefixRun(n, <<>>, h, f)
  <2> HIDE DEF h, V
  <2> QED BY <1>2, RunByPrefix
<1> DEFINE g == [k \in 1 .. n |-> f[1 .. k]]
<1>4. \A k \in 0 .. n : f[1 .. k] \in V
  <2> TAKE k \in 0 .. n
  <2>1. 1 .. k \in SUBSET (1 .. n)
    OBVIOUS
  <2> HIDE DEF V
  <2>2. QED
    BY <1>2, <2>1
<1>5. ASSUME NEW k \in 1 .. n
      PROVE  f[1 .. k] = IF k = 1 THEN seqs[k] ELSE f[1 .. k - 1] \o seqs[k]
  <2>1. k - 1 \in 0 .. n
    OBVIOUS
  <2>2. f[1 .. k] = f[1 .. k - 1] \o seqs[k]
    BY <1>3, <1>4, <2>1 DEF PrefixRun
  <2>3. seqs[k] \in Seq(S)
    OBVIOUS
  <2>4. <<>> \o seqs[k] = seqs[k]
    BY <2>3
  <2>5. k = 1 => f[1 .. k - 1] = <<>>
    <3>1. k = 1 => k - 1 = 0
      OBVIOUS
    <3>2. f[1 .. 0] = <<>>
      BY <1>3 DEF PrefixRun
    <3>3. QED
      BY <3>1, <3>2
  <2>6. QED
    BY <2>2, <2>4, <2>5
<1>6. Is(g)
  <2>1. \A k \in 1 .. n : k # 1 => k - 1 \in 1 .. n
    OBVIOUS
  <2>2. QED
    BY <1>5, <2>1
<1>7. Is(flatten)
  <2> HIDE DEF Is, g
  <2> QED BY <1>6
<1>8. Len(seqs) = n
  OBVIOUS
<1>9. FlattenSeq(seqs) = flatten[n]
  BY <1>8 DEF FlattenSeq
<1> HIDE DEF flatten
<1>10. flatten[n] \in Seq(S)
  <2> DEFINE G == {k \in 1 .. n : flatten[k] \in Seq(S)}
  <2>1. 1 \in G
    BY <1>7
  <2>2. ASSUME NEW k \in 1 .. n, k < n, k \in G PROVE k + 1 \in G
    <3>1. k + 1 \in 1 .. n /\ (k + 1) - 1 = k /\ k + 1 # 1
      BY <2>2
    <3>2. flatten[k] \in Seq(S)
      BY <2>2
    <3>3. flatten[k + 1] = flatten[k] \o seqs[k + 1]
      BY <1>7, <3>1
    <3>4. flatten[k + 1] \in Seq(S)
      BY <3>1, <3>2, <3>3
    <3>5. QED
      BY <3>1, <3>4
  <2>3. 1 .. n \subseteq G
    <3> HIDE DEF G
    <3>1. 0 \in Nat
      OBVIOUS
    <3>2. QED
      BY <2>1, <2>2, <3>1, Onwards
  <2>4. QED
    BY <2>3
<1>11. n = 1 => flatten[n] = seqs[1]
  BY <1>7
<1>12. QED
  BY <1>9, <1>10, <1>11

\* The facts about a design that its log rests on, with n modules.
LEMMA DesignIs ==
    ASSUME NEW x \in DOMAIN Designs
    PROVE  LET d == Designs[x]
               n == Len(d.modules)
           IN  /\ n \in Nat \ {0} /\ DOMAIN d.modules = 1 .. n /\ d.modules[1] = Top
               /\ \A i \in 1 .. n :
                     /\ d.modules[i] # "design hierarchy" /\ d.modules[i] \in Named
                     /\ d.cells[d.modules[i]] \in [DOMAIN CellTypes -> Nat]
                     /\ IsFiniteSet(DOMAIN d.subs[d.modules[i]])
                     /\ \A name \in DOMAIN d.subs[d.modules[i]] :
                           d.subs[d.modules[i]][name] \in (IF n = 1 THEN {0} ELSE Nat)
                     /\ \A j \in 1 .. n : d.subs[d.modules[i]][d.modules[j]] \in Nat
<1> DEFINE d == Designs[x]
           n == Len(d.modules)
<1>1. LegalDesign(d)
  BY DesignsAssumption
<1>2. /\ d.modules \in Seq(ToSet(d.modules)) /\ d.modules # <<>> /\ d.modules[1] = Top
      /\ "design hierarchy" \notin ToSet(d.modules)
  BY <1>1 DEF LegalDesign
<1>3. n \in Nat \ {0} /\ DOMAIN d.modules = 1 .. n
  <2> DEFINE s == d.modules
  <2> HIDE DEF s
  <2>1. s \in Seq(ToSet(s)) /\ s # <<>>
    BY <1>2 DEF s
  <2>2. Len(s) \in Nat /\ DOMAIN s = 1 .. Len(s) /\ Len(s) # 0
    BY <2>1
  <2>3. QED
    BY <2>2 DEF s
<1>4. ASSUME NEW i \in 1 .. n PROVE d.modules[i] \in ToSet(d.modules) /\ d.modules[i] \in Named
  BY <1>3, <1>4 DEF ToSet, Named
<1>5. ASSUME NEW m \in ToSet(d.modules)
      PROVE  /\ d.cells[m] \in [DOMAIN CellTypes -> Nat]
             /\ IsFiniteSet(DOMAIN d.subs[m]) /\ ToSet(d.modules) \subseteq DOMAIN d.subs[m]
             /\ \A name \in DOMAIN d.subs[m] : d.subs[m][name] \in (IF n = 1 THEN {0} ELSE Nat)
             /\ \A name \in DOMAIN d.subs[m] : d.subs[m][name] \in Nat
  <2>1. /\ d.cells[m] \in [DOMAIN CellTypes -> Nat]
        /\ IsFiniteSet(DOMAIN d.subs[m]) /\ ToSet(d.modules) \subseteq DOMAIN d.subs[m]
        /\ \A name \in DOMAIN d.subs[m] : d.subs[m][name] \in (IF n = 1 THEN {0} ELSE Nat)
    <3> HIDE DEF d
    <3> QED BY <1>1, <1>5 DEF LegalDesign
  <2>2. (IF n = 1 THEN {0} ELSE Nat) \subseteq Nat
    OBVIOUS
  <2>3. QED
    BY <2>1, <2>2
<1>6. ASSUME NEW i \in 1 .. n
      PROVE  /\ d.modules[i] # "design hierarchy" /\ d.modules[i] \in Named
             /\ d.cells[d.modules[i]] \in [DOMAIN CellTypes -> Nat]
             /\ IsFiniteSet(DOMAIN d.subs[d.modules[i]])
             /\ \A name \in DOMAIN d.subs[d.modules[i]] :
                   d.subs[d.modules[i]][name] \in (IF n = 1 THEN {0} ELSE Nat)
             /\ \A j \in 1 .. n : d.subs[d.modules[i]][d.modules[j]] \in Nat
  BY <1>2, <1>4, <1>5
<1>7. QED
  BY <1>2, <1>3, <1>6

\* A sum of the products of two lists.
LEMMA ProductsIs ==
    ASSUME NEW n \in Nat, NEW a, NEW b, \A j \in 1 .. n : a[j] \in Nat /\ b[j] \in Nat
    PROVE  SumOf([j \in 1 .. n |-> a[j] * b[j]]) \in Nat
<1>1. \A p, q \in Nat : p * q \in Nat
  OBVIOUS
<1>2. [j \in 1 .. n |-> a[j] * b[j]] \in [1 .. n -> Nat]
  BY <1>1
<1>3. QED
  BY <1>2, SumIs

\* Every module is in the flattened design a number of times, the top once.
LEMMA InstancesAre ==
    ASSUME NEW x \in DOMAIN Designs
    PROVE  /\ \A i \in 1 .. Len(Designs[x].modules) : Instances(Designs[x])[i] \in Nat
           /\ Instances(Designs[x])[1] = 1
<1> DEFINE d == Designs[x]
           n == Len(d.modules)
           w == [j \in 1 .. n |-> [i \in 1 .. n |-> d.subs[d.modules[j]][d.modules[i]]]]
           sum(i, v) == SumOf([j \in 1 .. i - 1 |-> v[j] * d.subs[d.modules[j]][d.modules[i]]])
           next(i, v) == IF i = 1 THEN 1 ELSE sum(i, v)
           V == [1 .. n -> Nat]
           base == [i \in 1 .. n |-> 0]
           h == [i \in 1 .. n |-> [v \in V |-> [v EXCEPT ![i] = next(i, v)]]]
           Is(g) == g = [i \in DOMAIN d.modules |->
                            IF i = 1 THEN 1
                            ELSE SumOf([j \in 1 .. i - 1 |-> g[j] * d.subs[d.modules[j]][d.modules[i]]])]
           instances == CHOOSE g : Is(g)
<1>1. /\ n \in Nat \ {0} /\ DOMAIN d.modules = 1 .. n
      /\ \A i, j \in 1 .. n : d.subs[d.modules[i]][d.modules[j]] \in Nat
  BY DesignIs
<1>2. ASSUME NEW i \in 1 .. n, NEW v, \A j \in 1 .. i - 1 : v[j] \in Nat
      PROVE  next(i, v) \in Nat
  <2> DEFINE b == [j \in 1 .. i - 1 |-> d.subs[d.modules[j]][d.modules[i]]]
  <2>1. i - 1 \in Nat /\ \A j \in 1 .. i - 1 : j \in 1 .. n
    BY <1>1
  <2>2. \A j \in 1 .. i - 1 : b[j] \in Nat
    BY <1>1, <2>1
  <2>3. [j \in 1 .. i - 1 |-> v[j] * b[j]]
          = [j \in 1 .. i - 1 |-> v[j] * d.subs[d.modules[j]][d.modules[i]]]
    OBVIOUS
  <2> HIDE DEF b
  <2>4. SumOf([j \in 1 .. i - 1 |-> v[j] * b[j]]) \in Nat
    BY <1>2, <2>1, <2>2, ProductsIs
  <2>5. QED
    BY <2>3, <2>4
<1>3. h \in [1 .. n -> [V -> V]]
  <2>1. ASSUME NEW i \in 1 .. n, NEW v \in V PROVE [v EXCEPT ![i] = next(i, v)] \in V
    <3>1. \A j \in 1 .. i - 1 : v[j] \in Nat
      BY <1>1
    <3>2. next(i, v) \in Nat
      BY <1>2, <3>1
    <3> HIDE DEF next
    <3>3. QED
      BY <3>2
  <2> HIDE DEF V, next
  <2>2. QED
    BY <2>1
<1>4. base \in V /\ n \in Nat
  BY <1>1
<1>5. PICK f \in [SUBSET (1 .. n) -> V] : RunOf(n, base, h, f)
  <2> HIDE DEF h, V, base, n
  <2> QED BY <1>3, <1>4, RunExists
<1>6. PrefixRun(n, base, h, f)
  <2> HIDE DEF h, V, base, n
  <2> QED BY <1>4, <1>5, RunByPrefix
<1>7. \A k \in 0 .. n : f[1 .. k] \in V
  <2> TAKE k \in 0 .. n
  <2>1. 1 .. k \in SUBSET (1 .. n)
    BY <1>4
  <2> HIDE DEF V
  <2>2. QED
    BY <1>5, <2>1
<1>8. ASSUME NEW k \in 1 .. n
      PROVE  f[1 .. k] = [f[1 .. k - 1] EXCEPT ![k] = next(k, f[1 .. k - 1])]
  <2>1. k - 1 \in 0 .. n
    BY <1>4
  <2>2. f[1 .. k] = h[k][f[1 .. k - 1]]
    BY <1>6 DEF PrefixRun
  <2>3. f[1 .. k - 1] \in V
    BY <1>7, <2>1
  <2> HIDE DEF V, next
  <2>4. QED
    BY <2>2, <2>3
<1> DEFINE g == [i \in 1 .. n |-> f[1 .. i][i]]
           G == {k \in 0 .. n : \A j \in 1 .. k : f[1 .. k][j] = g[j]}
<1> HIDE DEF h, base, next, n, w
<1>9. 0 .. n \subseteq G
  <2>1. 0 \in G
    BY <1>4
  <2>2. ASSUME NEW k \in 0 .. n, k < n, k \in G PROVE k + 1 \in G
    <3>1. k + 1 \in 1 .. n /\ (k + 1) - 1 = k /\ k \in Nat
      BY <1>4, <2>2
    <3>2. f[1 .. k] \in V
      BY <1>7
    <3>3. f[1 .. k + 1] = [f[1 .. k] EXCEPT ![k + 1] = next(k + 1, f[1 .. k])]
      BY <1>8, <3>1
    <3>4. ASSUME NEW j \in 1 .. k + 1 PROVE f[1 .. k + 1][j] = g[j]
      <4>1. CASE j = k + 1
        BY <3>1, <4>1
      <4>2. CASE j # k + 1
        <5>1. j \in 1 .. k /\ j \in 1 .. n
          BY <1>4, <3>1, <4>2
        <5>2. f[1 .. k + 1][j] = f[1 .. k][j]
          BY <3>2, <3>3, <4>2, <5>1
        <5>3. QED
          BY <2>2, <5>1, <5>2
      <4>3. QED
        BY <4>1, <4>2
    <3> HIDE DEF g
    <3>5. k + 1 \in 0 .. n
      BY <3>1
    <3>6. QED
      BY <3>4, <3>5
  <2>3. QED
    <3> HIDE DEF G
    <3>1. 0 \in Nat
      OBVIOUS
    <3> QED BY <1>4, <2>1, <2>2, <3>1, Onwards
<1>10. ASSUME NEW i \in 1 .. n PROVE g[i] = next(i, g)
  <2>1. i - 1 \in 0 .. n /\ i \in Nat
    BY <1>4
  <2>2. f[1 .. i - 1] \in V
    BY <1>7, <2>1
  <2>3. f[1 .. i][i] = next(i, f[1 .. i - 1])
    BY <1>8, <2>2
  <2>4. \A j \in 1 .. i - 1 : f[1 .. i - 1][j] = g[j]
    BY <1>9, <2>1
  <2> HIDE DEF g
  <2>5. next(i, f[1 .. i - 1]) = next(i, g)
    BY <2>4 DEF next
  <2>6. g[i] = f[1 .. i][i]
    BY DEF g
  <2>7. QED
    BY <2>3, <2>5, <2>6
<1>11. Is(g)
  <2>1. g = [i \in 1 .. n |-> next(i, g)]
    <3>1. g = [i \in 1 .. n |-> g[i]]
      OBVIOUS
    <3> HIDE DEF g
    <3>2. QED
      BY <1>10, <3>1
  <2>2. DOMAIN d.modules = 1 .. n
    BY <1>1
  <2> HIDE DEF g
  <2>3. QED
    BY <2>1, <2>2 DEF next
<1>12. Is(instances)
  <2> HIDE DEF Is, g
  <2> QED BY <1>11
<1>13. Instances(d) = instances
  BY DEF Instances
<1> HIDE DEF instances, g, G
<1>14. \A i \in 1 .. n : instances[i] = next(i, instances)
  BY <1>1, <1>12 DEF next
<1> HIDE DEF Is
<1>15. 1 \in 1 .. n /\ instances[1] = 1
  <2>1. 1 \in 1 .. n
    BY <1>1 DEF n
  <2>2. QED
    BY <1>14, <2>1 DEF next
<1> DEFINE H == {k \in 1 .. n : \A j \in 1 .. k : instances[j] \in Nat}
<1>16. 1 .. n \subseteq H
  <2>1. 1 \in H
    BY <1>15
  <2>2. ASSUME NEW k \in 1 .. n, k < n, k \in H PROVE k + 1 \in H
    <3>1. k + 1 \in 1 .. n /\ (k + 1) - 1 = k /\ k \in Nat
      BY <1>4, <2>2
    <3>2. \A j \in 1 .. k : instances[j] \in Nat
      BY <2>2
    <3>3. next(k + 1, instances) \in Nat
      BY <1>2, <3>1, <3>2 DEF n
    <3>4. instances[k + 1] \in Nat
      BY <1>14, <3>1, <3>3
    <3>5. \A j \in 1 .. k + 1 : j \in 1 .. k \/ j = k + 1
      BY <3>1
    <3>6. QED
      BY <3>1, <3>2, <3>4, <3>5
  <2>3. QED
    <3> HIDE DEF H
    <3>1. 1 \in Nat
      OBVIOUS
    <3> QED BY <1>4, <2>1, <2>2, <3>1, Onwards
<1>17. \A i \in 1 .. n : instances[i] \in Nat
  <2> TAKE i \in 1 .. n
  <2>1. i \in 1 .. i
    BY <1>4
  <2>2. QED
    BY <1>16, <2>1
<1>18. QED
  BY <1>13, <1>15, <1>17 DEF n

\* The cells of the flattened design, those of its only module when there is one.
LEMMA FlatIs ==
    ASSUME NEW x \in DOMAIN Designs
    PROVE  /\ Flat(Designs[x]) \in [DOMAIN CellTypes -> Nat]
           /\ Len(Designs[x].modules) = 1 => Flat(Designs[x]) = Designs[x].cells[Top]
<1> DEFINE d == Designs[x]
           n == Len(d.modules)
           a == [i \in 1 .. n |-> Instances(d)[i]]
           b(c) == [i \in 1 .. n |-> d.cells[d.modules[i]][c]]
<1>1. /\ n \in Nat \ {0} /\ DOMAIN d.modules = 1 .. n /\ d.modules[1] = Top
      /\ \A i \in 1 .. n : d.cells[d.modules[i]] \in [DOMAIN CellTypes -> Nat]
  BY DesignIs
<1>2. Flat(d) = [c \in DOMAIN CellTypes |-> SumOf([i \in 1 .. n |-> a[i] * b(c)[i]])]
  BY <1>1 DEF Flat
<1>3. ASSUME NEW c \in DOMAIN CellTypes
      PROVE  \A i \in 1 .. n : a[i] \in Nat /\ b(c)[i] \in Nat
  BY <1>1, InstancesAre
<1>4. ASSUME NEW c \in DOMAIN CellTypes
      PROVE  SumOf([i \in 1 .. n |-> a[i] * b(c)[i]]) \in Nat
  <2> HIDE DEF a, b, n
  <2> QED BY <1>1, <1>3, ProductsIs
<1>5. ASSUME n = 1, NEW c \in DOMAIN CellTypes
      PROVE  SumOf([i \in 1 .. n |-> a[i] * b(c)[i]]) = d.cells[Top][c]
  <2> DEFINE s == [i \in 1 .. n |-> a[i] * b(c)[i]]
  <2>1. a[1] = 1 /\ b(c)[1] = d.cells[Top][c] /\ d.cells[Top][c] \in Nat
    BY <1>1, <1>5, InstancesAre
  <2> HIDE DEF a, b
  <2>2. s \in [1 .. n -> Nat]
    <3>1. \A p, q \in Nat : p * q \in Nat
      OBVIOUS
    <3>2. QED
      BY <1>3, <1>5, <3>1
  <2>3. s[1] = d.cells[Top][c]
    BY <1>5, <2>1
  <2> HIDE DEF s, n
  <2>4. SumOf(s) = s[1]
    BY <1>1, <1>5, <2>2, SumIs
  <2>5. QED
    BY <2>3, <2>4 DEF s
<1>6. n = 1 => d.cells[Top] \in [DOMAIN CellTypes -> Nat]
  BY <1>1
<1> HIDE DEF a, b, n
<1>7. QED
  BY <1>2, <1>4, <1>5, <1>6 DEF n

\* Two sequences of known lengths, one after the other.
InARow(S, s, t, m, n, st) ==
    /\ st \in Seq(S) /\ Len(st) = m + n
    /\ \A i \in 1 .. m : st[i] = s[i]
    /\ \A i \in 1 .. n : st[m + i] = t[i]

\* The places of two lists one after the other.
LEMMA TwoInARow ==
    ASSUME NEW S, NEW s \in Seq(S), NEW t \in Seq(S), NEW m \in Nat, NEW n \in Nat,
           Len(s) = m, Len(t) = n
    PROVE  InARow(S, s, t, m, n, s \o t)
<1>1. s \o t \in Seq(S) /\ Len(s \o t) = m + n
  OBVIOUS
<1>2. \A i \in 1 .. m : (s \o t)[i] = s[i]
  OBVIOUS
<1>3. ASSUME NEW i \in 1 .. n PROVE (s \o t)[m + i] = t[i]
  <2>1. m + i \in 1 .. m + n /\ m + i > m /\ (m + i) - m = i
    OBVIOUS
  <2>2. QED
    BY <2>1
<1>4. QED
  BY <1>1, <1>2, <1>3 DEF InARow

\* The first k of these are the elements of S, every one once.
Enumerates(names, k, S) ==
    /\ k \in Nat /\ names \in [1 .. k -> S]
    /\ \A i, j \in 1 .. k : names[i] = names[j] => i = j
    /\ \A s \in S : \E i \in 1 .. k : names[i] = s

\* A list is a line for every name with a count that is not 0.
LEMMA ListingIs ==
    ASSUME NEW counts, IsFiniteSet(DOMAIN counts)
    PROVE  \E names, k : /\ Enumerates(names, k, {n \in DOMAIN counts : counts[n] > 0})
                         /\ Listing(counts) = [i \in 1 .. k |-> Counts(names[i], counts[names[i]])]
<1> DEFINE S == {n \in DOMAIN counts : counts[n] > 0}
           k == Cardinality(S)
           names == SetToSeq(S)
<1>1. IsFiniteSet(S)
  BY FS_Subset
<1>2. k \in Nat /\ ExistsBijection(1 .. k, S)
  <2> HIDE DEF S
  <2> QED BY <1>1, FS_CardinalityType
<1>3. \E f \in [1 .. k -> S] : IsInjective(f)
  <2> HIDE DEF S, k
  <2> QED BY <1>2 DEF ExistsBijection, Bijection, Injection
<1>4. names \in [1 .. k -> S] /\ IsInjective(names)
  <2> HIDE DEF S
  <2> QED BY <1>3 DEF SetToSeq
<1> HIDE DEF names
<1>5. IsFiniteSet(1 .. k) /\ Cardinality(1 .. k) = k
  <2>1. 1 \in Int /\ k \in Int /\ k \in Nat
    BY <1>2
  <2> HIDE DEF k
  <2>2. IsFiniteSet(1 .. k)
    BY <2>1, FS_Interval
  <2>3. Cardinality(1 .. k) = IF 1 > k THEN 0 ELSE k - 1 + 1
    BY <2>1, FS_Interval
  <2>4. QED
    BY <2>1, <2>2, <2>3
<1>6. names \in Surjection(1 .. k, S)
  <2> HIDE DEF S
  <2>1. names \in Injection(1 .. k, S)
    BY <1>4 DEF Injection
  <2>2. QED
    BY <1>1, <1>5, <2>1, FS_Injection
<1>7. Enumerates(names, k, S)
  <2> HIDE DEF S, k
  <2> QED BY <1>2, <1>4, <1>6 DEF Enumerates, Surjection, IsInjective
<1>8. Listing(counts) = [i \in 1 .. k |-> Counts(names[i], counts[names[i]])]
  <2>1. DOMAIN names = 1 .. k
    BY <1>4
  <2>2. QED
    BY <2>1 DEF Listing, names
<1> HIDE DEF S, k
<1>9. QED
  BY <1>7, <1>8 DEF S

\* The lines that are no headers.
Plain == {line \in Lines : line.is \in {"count", "totals"}}

\* The totals of some cells, as they are printed: the keywords, then the cells.
ListedAs(cells, nkeys, ncells, keys, names) ==
    /\ Enumerates(keys, nkeys, Keywords)
    /\ Enumerates(names, ncells, {c \in DOMAIN cells : cells[c] > 0})
    /\ Listed(cells) \in Seq(Plain) /\ Len(Listed(cells)) = 1 + nkeys + ncells
    /\ Listed(cells)[1] = Totals
    /\ \A i \in 1 .. nkeys : Listed(cells)[1 + i] = Counts(keys[i], 1)
    /\ \A i \in 1 .. ncells : Listed(cells)[1 + nkeys + i] = Counts(names[i], cells[names[i]])

\* A listing has a line for every name it enumerates, and no other.
LEMMA ListingLines ==
    ASSUME NEW counts, DOMAIN counts \subseteq LogNames, NEW names, NEW k,
           \A n \in DOMAIN counts : counts[n] \in Nat,
           Enumerates(names, k, {n \in DOMAIN counts : counts[n] > 0}),
           Listing(counts) = [i \in 1 .. k |-> Counts(names[i], counts[names[i]])]
    PROVE  Listing(counts) \in Seq(Plain) /\ Len(Listing(counts)) = k
<1>1. k \in Nat
  BY DEF Enumerates
<1>2. ASSUME NEW i \in 1 .. k PROVE Counts(names[i], counts[names[i]]) \in Plain
  <2>1. names[i] \in DOMAIN counts
    BY DEF Enumerates
  <2>2. QED
    BY <2>1 DEF Counts, Plain, Lines
<1> DEFINE list == [i \in 1 .. k |-> Counts(names[i], counts[names[i]])]
<1>3. list \in [1 .. k -> Plain]
  BY <1>2
<1> HIDE DEF list
<1>4. list \in Seq(Plain) /\ Len(list) = k
  BY <1>1, <1>3
<1>5. QED
  BY <1>4 DEF list

\* Keywords and cells are names.
LEMMA KindsOfNames ==
    /\ Keywords \subseteq LogNames /\ DOMAIN CellTypes \subseteq LogNames
    /\ Keywords \subseteq Named /\ DOMAIN CellTypes \subseteq Named /\ Named \subseteq LogNames
BY DEF LogNames, Named

\* The totals of a module list its keywords and its cells, each once.
LEMMA ListedIs ==
    ASSUME NEW cells \in [DOMAIN CellTypes -> Nat]
    PROVE  \E nkeys, ncells, keys, names : ListedAs(cells, nkeys, ncells, keys, names)
<1> DEFINE words == [k \in Keywords |-> 1]
           S == {n \in DOMAIN words : words[n] > 0}
           T == {c \in DOMAIN cells : cells[c] > 0}
<1>1. IsFiniteSet(DOMAIN words) /\ IsFiniteSet(DOMAIN cells) /\ S = Keywords
  BY DesignsAssumption
<1>2. PICK keys, nkeys : /\ Enumerates(keys, nkeys, S)
                         /\ Listing(words) = [i \in 1 .. nkeys |-> Counts(keys[i], words[keys[i]])]
  <2> HIDE DEF words
  <2> QED BY <1>1, ListingIs
<1>3. PICK names, ncells :
          /\ Enumerates(names, ncells, T)
          /\ Listing(cells) = [i \in 1 .. ncells |-> Counts(names[i], cells[names[i]])]
  BY <1>1, ListingIs
<1>4. Listing(words) \in Seq(Plain) /\ Len(Listing(words)) = nkeys
  <2>1. DOMAIN words \subseteq LogNames /\ \A n \in DOMAIN words : words[n] \in Nat
    BY KindsOfNames
  <2> HIDE DEF words
  <2>2. QED
    BY <1>2, <2>1, ListingLines
<1>5. Listing(cells) \in Seq(Plain) /\ Len(Listing(cells)) = ncells
  <2>1. DOMAIN cells \subseteq LogNames /\ \A n \in DOMAIN cells : cells[n] \in Nat
    BY KindsOfNames
  <2>2. QED
    BY <1>3, <2>1, ListingLines
<1>6. nkeys \in Nat /\ ncells \in Nat
  BY <1>2, <1>3 DEF Enumerates
<1>7. \A i \in 1 .. nkeys : Listing(words)[i] = Counts(keys[i], 1)
  BY <1>1, <1>2 DEF Enumerates
<1>8. \A i \in 1 .. ncells : Listing(cells)[i] = Counts(names[i], cells[names[i]])
  BY <1>3
<1> DEFINE a == <<Totals>>
           b == Listing(words)
           c == Listing(cells)
<1>9. Listed(cells) = (a \o b) \o c
  BY DEF Listed
<1>10. a \in Seq(Plain) /\ Len(a) = 1 /\ a[1] = Totals
  <2>1. Totals \in Plain
    BY DEF Totals, Plain, Lines, LogNames
  <2>2. QED
    BY <2>1
<1> HIDE DEF a, b, c, words, S, T
<1>11. b \in Seq(Plain) /\ c \in Seq(Plain) /\ Len(b) = nkeys /\ Len(c) = ncells
  BY <1>4, <1>5 DEF b, c
<1>12. /\ a \o b \in Seq(Plain) /\ Len(a \o b) = 1 + nkeys
       /\ (a \o b)[1] = Totals
       /\ \A i \in 1 .. nkeys : (a \o b)[1 + i] = b[i]
  <2>1. 1 \in Nat /\ 1 \in 1 .. 1
    OBVIOUS
  <2>2. InARow(Plain, a, b, 1, nkeys, a \o b)
    BY <1>6, <1>10, <1>11, <2>1, TwoInARow
  <2>3. QED
    BY <1>10, <2>1, <2>2 DEF InARow
<1>13. /\ (a \o b) \o c \in Seq(Plain) /\ Len((a \o b) \o c) = 1 + nkeys + ncells
       /\ \A i \in 1 .. 1 + nkeys : ((a \o b) \o c)[i] = (a \o b)[i]
       /\ \A i \in 1 .. ncells : ((a \o b) \o c)[1 + nkeys + i] = c[i]
  <2> DEFINE e == a \o b
  <2>1. e \in Seq(Plain) /\ Len(e) = 1 + nkeys
    BY <1>12
  <2> HIDE DEF e
  <2>2. /\ e \o c \in Seq(Plain) /\ Len(e \o c) = 1 + nkeys + ncells
        /\ \A i \in 1 .. 1 + nkeys : (e \o c)[i] = e[i]
        /\ \A i \in 1 .. ncells : (e \o c)[1 + nkeys + i] = c[i]
    <3>1. 1 + nkeys \in Nat
      BY <1>6
    <3>2. InARow(Plain, e, c, 1 + nkeys, ncells, e \o c)
      BY <1>6, <1>11, <2>1, <3>1, TwoInARow
    <3>3. QED
      BY <3>2 DEF InARow
  <2>3. QED
    BY <2>2 DEF e
<1>14. \A i \in 1 .. nkeys : 1 + i \in 1 .. 1 + nkeys /\ 1 \in 1 .. 1 + nkeys
  BY <1>6
<1>15. Listed(cells)[1] = Totals
  <2>1. 1 \in 1 .. 1 + nkeys
    BY <1>6
  <2>2. QED
    BY <1>9, <1>12, <1>13, <2>1
<1>16. \A i \in 1 .. nkeys : Listed(cells)[1 + i] = Counts(keys[i], 1)
  BY <1>7, <1>9, <1>12, <1>13, <1>14 DEF b
<1>17. \A i \in 1 .. ncells : Listed(cells)[1 + nkeys + i] = Counts(names[i], cells[names[i]])
  BY <1>8, <1>9, <1>13 DEF c
<1>18. Enumerates(keys, nkeys, Keywords) /\ Enumerates(names, ncells, {x \in DOMAIN cells : cells[x] > 0})
  BY <1>1, <1>2, <1>3 DEF T
<1>19. ListedAs(cells, nkeys, ncells, keys, names)
  BY <1>9, <1>13, <1>15, <1>16, <1>17, <1>18 DEF ListedAs
<1>20. QED
  BY <1>19

\* What a parser has counted after it has read the totals of some cells.
Shown(cells) == [n \in Named |-> IF n \in DOMAIN cells /\ ~Skipped(n) THEN cells[n] ELSE 0]

Counting(count, lines, p, last) ==
    /\ count[p] = None
    /\ \A k \in p + 1 .. last : count[k] = Counted(count[k - 1], lines[k])

\* The totals are all that follows line p, but for a last line that counts nothing.
TotalsAfter(p, cells, m, lines, last) ==
    /\ \A i \in 1 .. m : lines[p + i] = Listed(cells)[i]
    /\ last = p + m \/ (last = p + m + 1 /\ lines[last].is # "count")

\* Who counts the lines of a list of totals, and what Yosys says last, has counted the
\* cells it shows.
LEMMA CountedUp ==
    ASSUME NEW cells \in [DOMAIN CellTypes -> Nat], NEW nkeys, NEW ncells, NEW keys, NEW names,
           ListedAs(cells, nkeys, ncells, keys, names),
           NEW p \in Nat, NEW last \in Nat, NEW lines, NEW count,
           TotalsAfter(p, cells, 1 + nkeys + ncells, lines, last),
           Counting(count, lines, p, last)
    PROVE  count[last] = Shown(cells)
<1>1. nkeys \in Nat /\ ncells \in Nat
  BY DEF ListedAs, Enumerates
<1> DEFINE first == p + 1
           second == first + nkeys
           final == second + ncells
<1>2. /\ first \in Nat /\ second \in Nat /\ final \in Nat
      /\ first <= second /\ second <= final /\ final <= last
      /\ last = final \/ (last = final + 1 /\ lines[last].is # "count")
  BY <1>1 DEF TotalsAfter
<1>3. lines[first] = Totals
  <2>1. 1 \in 1 .. 1 + nkeys + ncells
    BY <1>1
  <2>2. QED
    BY <2>1 DEF ListedAs, TotalsAfter
<1>4. ASSUME NEW i \in 1 .. nkeys PROVE lines[first + i] = Counts(keys[i], 1)
  <2>1. 1 + i \in 1 .. 1 + nkeys + ncells /\ p + (1 + i) = first + i
    BY <1>1
  <2>2. QED
    BY <2>1 DEF ListedAs, TotalsAfter
<1>5. ASSUME NEW i \in 1 .. ncells PROVE lines[second + i] = Counts(names[i], cells[names[i]])
  <2>1. 1 + nkeys + i \in 1 .. 1 + nkeys + ncells /\ p + (1 + nkeys + i) = second + i
    BY <1>1
  <2>2. QED
    BY <2>1 DEF ListedAs, TotalsAfter
<1>6. ASSUME NEW k \in p + 1 .. last PROVE count[k] = Counted(count[k - 1], lines[k])
  BY DEF Counting
<1>7. count[first] = None
  <2>1. first \in p + 1 .. last /\ first - 1 = p
    BY <1>2
  <2>2. count[first] = Counted(count[p], Totals)
    BY <1>3, <1>6, <2>1
  <2>3. QED
    BY <2>2 DEF Counting, Counted, Totals
<1> HIDE DEF first
<1>8. \A i \in 0 .. nkeys : count[first + i] = None
  <2> DEFINE G == {i \in 0 .. nkeys : count[first + i] = None}
  <2>1. 0 \in G
    BY <1>1, <1>2, <1>7
  <2>2. ASSUME NEW i \in 0 .. nkeys, i < nkeys, i \in G PROVE i + 1 \in G
    <3>1. i + 1 \in 1 .. nkeys /\ i + 1 \in 0 .. nkeys
      BY <1>1, <2>2
    <3>2. first + (i + 1) \in p + 1 .. last /\ (first + (i + 1)) - 1 = first + i
      BY <1>1, <1>2, <3>1 DEF first
    <3>3. count[first + (i + 1)] = Counted(None, Counts(keys[i + 1], 1))
      BY <1>4, <1>6, <2>2, <3>1, <3>2
    <3>4. keys[i + 1] \in Keywords
      BY <3>1 DEF ListedAs, Enumerates
    <3>5. QED
      BY <3>1, <3>3, <3>4 DEF Counted, Counts, Skipped
  <2>3. 0 .. nkeys \subseteq G
    <3> HIDE DEF G
    <3>1. 0 \in Nat
      OBVIOUS
    <3> QED BY <1>1, <2>1, <2>2, <3>1, Onwards
  <2>4. QED
    BY <2>3
<1>9. count[second] = None
  BY <1>1, <1>8
<1> HIDE DEF second
<1> DEFINE done(i) == {names[j] : j \in 1 .. i}
           after(i) == [n \in Named |-> IF n \in done(i) /\ ~Skipped(n) THEN cells[n] ELSE 0]
<1>10. /\ \A i \in 1 .. ncells : names[i] \in DOMAIN cells /\ names[i] \in Named
       /\ \A i, j \in 1 .. ncells : names[i] = names[j] => i = j
       /\ \A c \in DOMAIN cells : cells[c] > 0 => c \in done(ncells)
  BY KindsOfNames DEF ListedAs, Enumerates
<1>11. \A i \in 0 .. ncells : count[second + i] = after(i)
  <2> DEFINE G == {i \in 0 .. ncells : count[second + i] = after(i)}
  <2>1. 0 \in G
    <3>1. done(0) = {} /\ second + 0 = second
      BY <1>2 DEF second
    <3>2. after(0) = None
      BY <3>1 DEF None
    <3>3. QED
      BY <1>1, <1>9, <3>1, <3>2
  <2>2. ASSUME NEW i \in 0 .. ncells, i < ncells, i \in G PROVE i + 1 \in G
    <3>1. i \in Nat /\ i + 1 \in 1 .. ncells /\ i + 1 \in 0 .. ncells
      BY <1>1, <2>2
    <3>2. second + (i + 1) \in p + 1 .. last /\ (second + (i + 1)) - 1 = second + i
      BY <1>1, <1>2, <3>1 DEF first, second
    <3> DEFINE name == names[i + 1]
    <3>3. count[second + (i + 1)] = Counted(after(i), Counts(name, cells[name]))
      BY <1>5, <1>6, <2>2, <3>1, <3>2
    <3>4. name \in DOMAIN cells /\ name \in Named /\ cells[name] \in Nat
      BY <1>10, <3>1
    <3>5. name \notin done(i)
      <4>1. \A j \in 1 .. i : j \in 1 .. ncells /\ j # i + 1
        BY <1>1, <3>1
      <4>2. QED
        BY <1>10, <3>1, <4>1
    <3>6. done(i + 1) = done(i) \cup {name}
      <4>1. 1 .. i + 1 = 1 .. i \cup {i + 1}
        BY <3>1
      <4>2. QED
        BY <4>1
    <3> HIDE DEF done, name
    <3>7. CASE Skipped(name)
      <4>1. after(i + 1) = after(i)
        BY <3>6, <3>7
      <4>2. Counted(after(i), Counts(name, cells[name])) = after(i)
        BY <3>7 DEF Counted, Counts
      <4> HIDE DEF after
      <4>3. QED
        BY <3>1, <3>3, <4>1, <4>2
    <3>8. CASE ~Skipped(name)
      <4>1. Counted(after(i), Counts(name, cells[name]))
              = [after(i) EXCEPT ![name] = after(i)[name] + cells[name]]
        <5> HIDE DEF after
        <5> QED BY <3>8 DEF Counted, Counts
      <4>2. after(i)[name] = 0
        BY <3>4, <3>5
      <4>3. 0 + cells[name] = cells[name]
        BY <3>4
      <4>4. after(i + 1) = [after(i) EXCEPT ![name] = cells[name]]
        BY <3>4, <3>6, <3>8
      <4> HIDE DEF after
      <4>5. QED
        BY <3>1, <3>3, <4>1, <4>2, <4>3, <4>4
    <3>9. QED
      BY <3>7, <3>8
  <2>3. 0 .. ncells \subseteq G
    <3> HIDE DEF G
    <3>1. 0 \in Nat
      OBVIOUS
    <3> QED BY <1>1, <2>1, <2>2, <3>1, Onwards
  <2>4. QED
    BY <2>3
<1>12. after(ncells) = Shown(cells)
  <2>1. ASSUME NEW n \in Named
        PROVE  (IF n \in done(ncells) /\ ~Skipped(n) THEN cells[n] ELSE 0)
                   = (IF n \in DOMAIN cells /\ ~Skipped(n) THEN cells[n] ELSE 0)
    <3>1. CASE n \in done(ncells)
      <4>1. n \in DOMAIN cells
        BY <1>10, <3>1
      <4>2. QED
        BY <3>1, <4>1
    <3>2. CASE n \notin done(ncells)
      <4>1. n \in DOMAIN cells => cells[n] = 0
        <5>1. n \in DOMAIN cells => cells[n] \in Nat /\ ~(cells[n] > 0)
          BY <1>10, <3>2
        <5>2. QED
          BY <5>1
      <4> HIDE DEF done
      <4>2. QED
        BY <3>2, <4>1
    <3>3. QED
      BY <3>1, <3>2
  <2> HIDE DEF done
  <2>2. QED
    BY <2>1 DEF Shown
<1> HIDE DEF after, done
<1>13. count[final] = Shown(cells)
  BY <1>1, <1>11, <1>12
<1> HIDE DEF final
<1>14. CASE last = final
  BY <1>13, <1>14
<1>15. CASE last = final + 1 /\ lines[last].is # "count"
  <2>1. last \in p + 1 .. last /\ last - 1 = final
    BY <1>2, <1>15 DEF first, final, second
  <2>2. count[last] = Counted(count[final], lines[last])
    BY <1>6, <2>1
  <2>3. QED
    BY <1>13, <1>15, <2>2 DEF Counted
<1>16. QED
  BY <1>2, <1>14, <1>15

\* The lines that do not begin the hierarchy.
BlockLines == {line \in Lines : line # Hierarchy}

\* The statistics of a design with one module, and of one with several.
OneModule(lines, flat) ==
    /\ \A i \in 1 .. Len(lines) : lines[i] \in BlockLines
    /\ lines[1] = Header(Top)
    /\ \A i \in 1 .. Len(Listed(flat)) : lines[1 + i] = Listed(flat)[i]
    /\ Len(lines) = 1 + Len(Listed(flat))

SeveralModules(lines, flat, b, n) ==
    /\ b \in Nat /\ n \in Nat
    /\ \A i \in 1 .. b : lines[i] \in BlockLines
    /\ lines[b + 1] = Hierarchy
    /\ \A i \in 1 .. n : lines[b + 1 + i].is = "count"
    /\ \A i \in 1 .. Len(Listed(flat)) : lines[b + 1 + n + i] = Listed(flat)[i]
    /\ Len(lines) = b + 1 + n + Len(Listed(flat))

\* A list of totals has no header.
LEMMA ListedHas ==
    ASSUME NEW cells \in [DOMAIN CellTypes -> Nat]
    PROVE  Listed(cells) \in Seq(Plain) /\ Len(Listed(cells)) \in Nat
<1>1. Listed(cells) \in Seq(Plain)
  BY ListedIs DEF ListedAs
<1>2. QED
  BY <1>1

\* Plain lines are lines of a block, and those are lines.
LEMMA MoreLines ==
    /\ Seq(Plain) \subseteq Seq(BlockLines) /\ Seq(BlockLines) \subseteq Seq(Lines)
    /\ Plain \subseteq BlockLines /\ BlockLines \subseteq Lines
<1>1. Plain \subseteq BlockLines /\ BlockLines \subseteq Lines
  <2>1. Hierarchy.is = "header"
    BY DEF Hierarchy, Header
  <2>2. \A line \in Plain : line # Hierarchy
    BY <2>1 DEF Plain
  <2>3. QED
    BY <2>2 DEF Plain, BlockLines
<1>2. ASSUME NEW S, NEW T, S \subseteq T PROVE Seq(S) \subseteq Seq(T)
  BY <1>2
<1>3. QED
  BY <1>1, <1>2

\* The block of a module, as it is printed.
Block(d, m) == <<Header(m)>> \o Listed(d.cells[m]) \o Listing(d.subs[m])

\* The block of a module has no line of the hierarchy; a module alone has no submodules.
LEMMA BlockIs ==
    ASSUME NEW x \in DOMAIN Designs, NEW i \in 1 .. Len(Designs[x].modules)
    PROVE  /\ Block(Designs[x], Designs[x].modules[i]) \in Seq(BlockLines)
           /\ Len(Designs[x].modules) = 1 =>
                 Listing(Designs[x].subs[Designs[x].modules[i]]) = <<>>
<1> DEFINE d == Designs[x]
           n == Len(d.modules)
           m == d.modules[i]
           subs == d.subs[m]
           S == {name \in DOMAIN subs : subs[name] > 0}
<1>1. /\ m # "design hierarchy" /\ m \in Named
      /\ d.cells[m] \in [DOMAIN CellTypes -> Nat]
      /\ IsFiniteSet(DOMAIN subs)
      /\ \A name \in DOMAIN subs : subs[name] \in (IF n = 1 THEN {0} ELSE Nat)
  BY DesignIs
<1>2. \A name \in DOMAIN subs : subs[name] \in Nat
  <2>1. (IF n = 1 THEN {0} ELSE Nat) \subseteq Nat
    OBVIOUS
  <2>2. QED
    BY <1>1, <2>1
<1>3. DOMAIN subs \subseteq LogNames
  <2>1. m \in ToSet(d.modules)
    BY DesignIs DEF ToSet
  <2>2. DOMAIN d.subs[m] \subseteq
            UNION {UNION {DOMAIN Designs[y].subs[o] : o \in ToSet(Designs[y].modules)} :
                   y \in DOMAIN Designs}
    BY <2>1
  <2>3. QED
    BY <2>2 DEF LogNames
<1>4. PICK names, k : /\ Enumerates(names, k, S)
                      /\ Listing(subs) = [j \in 1 .. k |-> Counts(names[j], subs[names[j]])]
  <2> HIDE DEF subs
  <2> QED BY <1>1, ListingIs
<1>5. Listing(subs) \in Seq(Plain) /\ Len(Listing(subs)) = k
  <2> HIDE DEF subs
  <2> QED BY <1>2, <1>3, <1>4, ListingLines
<1>6. ASSUME n = 1 PROVE Listing(subs) = <<>>
  <2>1. S = {}
    <3>1. \A name \in DOMAIN subs : subs[name] = 0
      BY <1>1, <1>6
    <3>2. QED
      BY <3>1
  <2>2. k = 0
    <3>1. k \in Nat /\ ~\E j \in 1 .. k : TRUE
      BY <1>4, <2>1 DEF Enumerates
    <3>2. QED
      BY <3>1
  <2> DEFINE list == Listing(subs)
  <2> HIDE DEF list
  <2>3. list \in Seq(Plain) /\ Len(list) = 0
    BY <1>5, <2>2 DEF list
  <2>4. list = <<>>
    BY <2>3
  <2>5. QED
    BY <2>4 DEF list
<1>7. <<Header(m)>> \in Seq(BlockLines)
  <2>1. Header(m) \in BlockLines
    BY <1>1, KindsOfNames DEF Hierarchy, Header, BlockLines, Lines
  <2>2. QED
    BY <2>1
<1>8. Listed(d.cells[m]) \in Seq(BlockLines) /\ Listing(subs) \in Seq(BlockLines)
  BY <1>1, <1>5, ListedHas, MoreLines
<1>9. Block(d, m) \in Seq(BlockLines)
  <2> DEFINE a == <<Header(m)>>
             b == Listed(d.cells[m])
             c == Listing(subs)
  <2>1. a \in Seq(BlockLines) /\ b \in Seq(BlockLines) /\ c \in Seq(BlockLines)
    BY <1>7, <1>8
  <2>2. Block(d, m) = a \o b \o c
    BY DEF Block
  <2> HIDE DEF a, b, c
  <2>3. QED
    BY <2>1, <2>2
<1>10. QED
  BY <1>6, <1>9

\* The statistics of a single module are its block.
LEMMA StatisticsOfOne ==
    ASSUME NEW x \in DOMAIN Designs, Len(Designs[x].modules) = 1
    PROVE  /\ Statistics(Designs[x]) \in Seq(Lines)
           /\ OneModule(Statistics(Designs[x]), Flat(Designs[x]))
<1> DEFINE d == Designs[x]
           seqs == [i \in 1 .. 1 |-> Block(d, d.modules[i])]
           a == <<Header(Top)>>
           b == Listed(Flat(d))
<1>1. /\ DOMAIN d.modules = 1 .. 1 /\ d.modules[1] = Top
      /\ d.cells[Top] = Flat(d) /\ Flat(d) \in [DOMAIN CellTypes -> Nat]
  BY DesignIs, FlatIs
<1>2. 1 \in 1 .. 1 /\ 1 \in Nat \ {0}
  OBVIOUS
<1>3. Block(d, Top) \in Seq(BlockLines) /\ Listing(d.subs[Top]) = <<>>
  BY <1>1, <1>2, BlockIs
<1>4. Block(d, Top) = a \o b \o <<>>
  BY <1>1, <1>3 DEF Block
<1>5. seqs \in [1 .. 1 -> Seq(BlockLines)] /\ seqs[1] = Block(d, Top)
  BY <1>1, <1>2, <1>3
<1>6. FlattenSeq(seqs) = Block(d, Top)
  <2> HIDE DEF seqs
  <2> QED BY <1>2, <1>5, FlattenIs
<1>7. Statistics(d) = FlattenSeq(seqs) \o <<>>
  BY <1>1 DEF Statistics, Block
<1>8. b \in Seq(BlockLines) /\ a \in Seq(BlockLines) /\ Len(b) \in Nat /\ Len(a) = 1 /\ a[1] = Header(Top)
  <2>1. Header(Top) \in BlockLines
    <3>1. Top \in Named /\ Top # "design hierarchy"
      BY <1>1, <1>2, DesignIs
    <3>2. QED
      BY <3>1, KindsOfNames DEF Hierarchy, Header, Lines, BlockLines
  <2>2. b \in Seq(Plain) /\ Len(b) \in Nat
    BY <1>1, ListedHas
  <2>3. QED
    BY <2>1, <2>2, MoreLines
<1> HIDE DEF a, b, seqs
<1>9. Statistics(d) = a \o b
  <2>1. a \o b \o <<>> = a \o b
    BY <1>8
  <2>2. (a \o b) \o <<>> = a \o b /\ a \o b \in Seq(BlockLines)
    BY <1>8
  <2>3. QED
    BY <1>4, <1>6, <1>7, <2>1, <2>2
<1>10. InARow(BlockLines, a, b, 1, Len(b), a \o b)
  BY <1>2, <1>8, TwoInARow
<1>11. a \o b \in Seq(BlockLines) /\ a \o b \in Seq(Lines)
  BY <1>10, MoreLines DEF InARow
<1>12. \A i \in 1 .. Len(a \o b) : (a \o b)[i] \in BlockLines
  <2> DEFINE s == a \o b
  <2>1. s \in Seq(BlockLines)
    BY <1>11
  <2> HIDE DEF s
  <2>2. \A i \in 1 .. Len(s) : s[i] \in BlockLines
    BY <2>1
  <2>3. QED
    BY <2>2 DEF s
<1>13. QED
  BY <1>2, <1>8, <1>9, <1>10, <1>11, <1>12 DEF InARow, OneModule, b

\* The statistics of several modules are their blocks, the hierarchy with its tree, and
\* the totals of the flattened design.
LEMMA StatisticsOfSeveral ==
    ASSUME NEW x \in DOMAIN Designs, Len(Designs[x].modules) # 1
    PROVE  /\ Statistics(Designs[x]) \in Seq(Lines)
           /\ \E b, n : SeveralModules(Statistics(Designs[x]), Flat(Designs[x]), b, n)
<1> DEFINE d == Designs[x]
           n == Len(d.modules)
           seqs == [i \in 1 .. n |-> Block(d, d.modules[i])]
           blocks == FlattenSeq(seqs)
           head == <<Hierarchy>>
           tree == [i \in 1 .. n |-> Counts(d.modules[i], Instances(d)[i])]
           list == Listed(Flat(d))
           b == Len(blocks)
<1>1. /\ n \in Nat \ {0} /\ DOMAIN d.modules = 1 .. n
      /\ \A i \in 1 .. n : d.modules[i] \in Named
      /\ Flat(d) \in [DOMAIN CellTypes -> Nat]
  BY DesignIs, FlatIs
<1>2. seqs \in [1 .. n -> Seq(BlockLines)]
  BY BlockIs
<1>3. blocks \in Seq(BlockLines)
  <2> HIDE DEF seqs, n
  <2> QED BY <1>1, <1>2, FlattenIs
<1>4. Statistics(d) = blocks \o (head \o tree \o list)
  BY <1>1 DEF Statistics, Block
<1>5. list \in Seq(Lines) /\ Len(list) \in Nat
  BY <1>1, ListedHas, MoreLines
<1>6. head \in Seq(Lines) /\ Len(head) = 1 /\ head[1] = Hierarchy
  BY DEF Hierarchy, Header, Lines, LogNames
<1>7. tree \in Seq(Lines) /\ Len(tree) = n /\ \A i \in 1 .. n : tree[i].is = "count"
  <2>1. \A i \in 1 .. n : Counts(d.modules[i], Instances(d)[i]) \in Lines
    BY <1>1, InstancesAre, KindsOfNames DEF Counts, Lines
  <2>2. \A i \in 1 .. n : tree[i].is = "count"
    BY DEF Counts
  <2>3. tree \in [1 .. n -> Lines]
    BY <2>1
  <2>4. n \in Nat
    BY <1>1
  <2> HIDE DEF tree, n
  <2>5. QED
    BY <2>2, <2>3, <2>4
<1>8. blocks \in Seq(Lines) /\ b \in Nat /\ \A i \in 1 .. b : blocks[i] \in BlockLines
  <2> HIDE DEF blocks
  <2> QED BY <1>3, MoreLines
<1>9. n \in Nat /\ 1 \in Nat /\ 1 + n \in Nat
  BY <1>1
<1> HIDE DEF blocks, head, tree, list, seqs, n, b
<1> DEFINE ht == head \o tree
           htl == ht \o list
           all == blocks \o htl
<1>10. InARow(Lines, head, tree, 1, n, ht)
  BY <1>6, <1>7, <1>9, TwoInARow
<1>11. ht \in Seq(Lines) /\ Len(ht) = 1 + n
  BY <1>10 DEF InARow
<1> HIDE DEF ht
<1>12. InARow(Lines, ht, list, 1 + n, Len(list), htl)
  BY <1>5, <1>9, <1>11, TwoInARow
<1>13. htl \in Seq(Lines) /\ Len(htl) = 1 + n + Len(list) /\ 1 + n + Len(list) \in Nat
  BY <1>5, <1>9, <1>12 DEF InARow
<1> HIDE DEF htl
<1>14. InARow(Lines, blocks, htl, b, 1 + n + Len(list), all)
  BY <1>8, <1>13, TwoInARow DEF b
<1> HIDE DEF all
<1>15. Statistics(d) = all
  BY <1>4 DEF all, htl, ht
<1>16. all \in Seq(Lines) /\ Len(all) = b + (1 + n + Len(list))
  BY <1>14 DEF InARow
<1>17. \A i \in 1 .. b : all[i] \in BlockLines
  BY <1>8, <1>14 DEF InARow
<1>18. all[b + 1] = Hierarchy
  <2>1. 1 \in 1 .. 1 + n + Len(list) /\ 1 \in 1 .. 1 + n /\ 1 \in 1 .. 1
    BY <1>5, <1>9
  <2>2. all[b + 1] = htl[1] /\ htl[1] = ht[1] /\ ht[1] = head[1]
    BY <1>10, <1>12, <1>14, <2>1 DEF InARow
  <2>3. QED
    BY <1>6, <2>2
<1>19. ASSUME NEW i \in 1 .. n PROVE all[b + 1 + i].is = "count"
  <2>1. 1 + i \in 1 .. 1 + n + Len(list) /\ 1 + i \in 1 .. 1 + n /\ b + 1 + i = b + (1 + i)
    BY <1>5, <1>8, <1>9
  <2>2. all[b + (1 + i)] = htl[1 + i] /\ htl[1 + i] = ht[1 + i] /\ ht[1 + i] = tree[i]
    BY <1>10, <1>12, <1>14, <2>1 DEF InARow
  <2>3. QED
    BY <1>7, <2>1, <2>2
<1>20. ASSUME NEW i \in 1 .. Len(list) PROVE all[b + 1 + n + i] = list[i]
  <2>1. 1 + n + i \in 1 .. 1 + n + Len(list) /\ b + 1 + n + i = b + (1 + n + i)
    BY <1>5, <1>8, <1>9
  <2>2. all[b + (1 + n + i)] = htl[1 + n + i] /\ htl[1 + n + i] = list[i]
    BY <1>12, <1>14, <2>1 DEF InARow
  <2>3. QED
    BY <2>1, <2>2
<1>21. Len(all) = b + 1 + n + Len(list)
  BY <1>5, <1>8, <1>9, <1>16
<1>22. SeveralModules(all, Flat(d), b, n)
  BY <1>8, <1>9, <1>17, <1>18, <1>19, <1>20, <1>21 DEF SeveralModules, list
<1>23. QED
  BY <1>15, <1>16, <1>22

(***************************************************************************)
(* What the parsers make of the statistics, the sums over the kinds of     *)
(* cells, and the report on every log that the targets can leave behind.   *)
(***************************************************************************)
\* What yosys_report.py parses: the statistics, and what Yosys may have said after them.
Read(lines, last, stats) ==
    /\ last \in Nat /\ lines \in [1 .. last -> Lines]
    /\ \A i \in 1 .. Len(stats) : lines[i] = stats[i]
    /\ last = Len(stats) \/ (last = Len(stats) + 1 /\ lines[last] = Other)

\* Without the hierarchy nothing is counted by its parser.
LEMMA NoHierarchy ==
    ASSUME NEW last \in Nat, NEW lines \in [1 .. last -> Lines],
           \A i \in 1 .. last : lines[i] # Hierarchy
    PROVE  parse_design_hierarchy_cells(lines) = None
<1>1. PICK run : HierarchyRun(last, lines, run)
  BY HierarchySteps
<1> DEFINE G == {k \in 0 .. last : run[k] = Reader}
<1>2. 0 \in G
  BY <1>1 DEF HierarchyRun
<1>3. ASSUME NEW k \in 0 .. last, k < last, k \in G PROVE k + 1 \in G
  <2>1. k + 1 \in 1 .. last /\ k + 1 \in 0 .. last /\ (k + 1) - 1 = k
    BY <1>3
  <2>2. run[k + 1] = HierarchyLine(Reader, lines[k + 1])
    BY <1>1, <1>3, <2>1 DEF HierarchyRun
  <2>3. QED
    BY <2>1, <2>2 DEF HierarchyLine, Reader
<1>4. 0 .. last \subseteq G
  <2> HIDE DEF G
  <2>1. 0 \in Nat
    OBVIOUS
  <2>2. QED
    BY <1>2, <1>3, <2>1, Onwards
<1>5. run[last] = Reader
  BY <1>4
<1>6. QED
  BY <1>1, <1>5 DEF HierarchyRun, Reader

\* The parser of a module counts the cells of the only block.
LEMMA ModuleOfOne ==
    ASSUME NEW flat \in [DOMAIN CellTypes -> Nat], NEW stats, OneModule(stats, flat),
           NEW lines, NEW last, Read(lines, last, stats)
    PROVE  /\ parse_design_hierarchy_cells(lines) = None
           /\ parse_module_cells(lines) = Shown(flat)
<1>1. PICK nkeys, ncells, keys, names : ListedAs(flat, nkeys, ncells, keys, names)
  BY ListedIs
<1> DEFINE m == 1 + nkeys + ncells
<1>2. /\ nkeys \in Nat /\ ncells \in Nat /\ m \in Nat /\ Len(Listed(flat)) = m
      /\ Len(stats) = 1 + m
      /\ Listed(flat) \in Seq(Plain)
  BY <1>1 DEF ListedAs, Enumerates, OneModule
<1> HIDE DEF m
<1>3. /\ last \in Nat /\ lines \in [1 .. last -> Lines]
      /\ \A i \in 1 .. 1 + m : lines[i] = stats[i]
      /\ last = 1 + m \/ (last = 1 + m + 1 /\ lines[last] = Other)
  BY <1>2 DEF Read
<1>4. Other.is = "other" /\ Totals.is = "totals"
  BY DEF Other, Totals
<1>5. /\ lines[1] = Header(Top)
      /\ \A i \in 1 .. m : lines[1 + i] = Listed(flat)[i]
  <2>1. 1 \in 1 .. 1 + m /\ \A i \in 1 .. m : 1 + i \in 1 .. 1 + m
    BY <1>2
  <2>2. QED
    BY <1>2, <1>3, <2>1 DEF OneModule
<1>6. ASSUME NEW i \in 1 .. last PROVE lines[i] # Hierarchy
  <2>1. CASE i \in 1 .. 1 + m
    BY <1>2, <1>3, <2>1 DEF OneModule, BlockLines
  <2>2. CASE i \notin 1 .. 1 + m
    <3>1. lines[i] = Other
      BY <1>2, <1>3, <2>2
    <3>2. Hierarchy.is = "header"
      BY DEF Hierarchy, Header
    <3>3. QED
      BY <1>4, <3>1, <3>2
  <2>3. QED
    BY <2>1, <2>2
<1>7. ASSUME NEW i \in 2 .. last PROVE lines[i].is # "header"
  <2>1. CASE i \in 1 .. 1 + m
    <3>1. i - 1 \in 1 .. m /\ 1 + (i - 1) = i
      BY <1>2, <2>1
    <3>2. lines[i] = Listed(flat)[i - 1]
      BY <1>5, <3>1
    <3>3. Listed(flat)[i - 1] \in Plain
      BY <1>2, <3>1
    <3>4. QED
      BY <3>2, <3>3 DEF Plain
  <2>2. CASE i \notin 1 .. 1 + m
    <3>1. lines[i] = Other
      BY <1>2, <1>3, <2>2
    <3>2. QED
      BY <1>4, <3>1
  <2>3. QED
    BY <2>1, <2>2
<1>8. PICK run : ModuleRun(last, lines, run)
  BY <1>3, ModuleSteps
<1>9. 1 \in 1 .. last /\ 1 - 1 = 0 /\ 1 \in Nat
  BY <1>2, <1>3
<1>10. run[1] = [in |-> TRUE, summary |-> FALSE, done |-> FALSE, cells |-> None]
  <2>1. run[1] = ModuleLine(Reader, Header(Top))
    BY <1>5, <1>8, <1>9 DEF ModuleRun
  <2>2. QED
    BY <2>1 DEF ModuleLine, Reader, Header
<1> DEFINE Inside(k) == /\ run[k].in = TRUE /\ run[k].done = FALSE
                        /\ DOMAIN run[k] = {"in", "summary", "done", "cells"}
           G == {k \in 1 .. last : Inside(k)}
<1>11. ASSUME NEW k \in 2 .. last, Inside(k - 1)
       PROVE  Inside(k) /\ run[k].cells = Counted(run[k - 1].cells, lines[k])
  <2>1. run[k] = ModuleLine(run[k - 1], lines[k])
    BY <1>8 DEF ModuleRun
  <2>2. ModuleLine(run[k - 1], lines[k])
           = [run[k - 1] EXCEPT !.cells = Counted(run[k - 1].cells, lines[k])]
    BY <1>7, <1>11 DEF ModuleLine
  <2>3. QED
    BY <1>11, <2>1, <2>2
<1>12. 1 .. last \subseteq G
  <2>1. 1 \in G
    BY <1>9, <1>10
  <2>2. ASSUME NEW k \in 1 .. last, k < last, k \in G PROVE k + 1 \in G
    <3>1. k + 1 \in 2 .. last /\ k + 1 \in 1 .. last /\ (k + 1) - 1 = k
      BY <1>3, <2>2
    <3>2. Inside((k + 1) - 1)
      BY <2>2, <3>1
    <3>3. Inside(k + 1)
      <4> HIDE DEF Inside
      <4> QED BY <1>11, <3>1, <3>2
    <3>4. QED
      BY <3>1, <3>3
  <2> HIDE DEF G
  <2>3. QED
    BY <1>3, <1>9, <2>1, <2>2, Onwards
<1> DEFINE count == [k \in 1 .. last |-> run[k].cells]
<1>13. Counting(count, lines, 1, last)
  <2>1. count[1] = None
    BY <1>9, <1>10
  <2>2. ASSUME NEW k \in 1 + 1 .. last PROVE count[k] = Counted(count[k - 1], lines[k])
    <3>1. k \in 2 .. last /\ k - 1 \in 1 .. last /\ k \in 1 .. last
      BY <1>3
    <3>2. Inside(k - 1)
      BY <1>12, <3>1
    <3>3. run[k].cells = Counted(run[k - 1].cells, lines[k])
      <4> HIDE DEF Inside
      <4> QED BY <1>11, <3>1, <3>2
    <3>4. QED
      BY <3>1, <3>3
  <2>3. QED
    BY <2>1, <2>2 DEF Counting
<1>14. last \in 1 .. last
  BY <1>3, <1>9
<1>15. count[last] = Shown(flat)
  <2> HIDE DEF count, G
  <2>1. last = 1 + m \/ (last = 1 + m + 1 /\ lines[last].is # "count")
    BY <1>2, <1>3, <1>4
  <2>2. TotalsAfter(1, flat, 1 + nkeys + ncells, lines, last)
    BY <1>5, <2>1 DEF m, TotalsAfter
  <2>3. QED
    BY <1>1, <1>2, <1>3, <1>9, <1>13, <2>2, CountedUp
<1>16. parse_module_cells(lines) = Shown(flat)
  BY <1>8, <1>14, <1>15 DEF ModuleRun
<1>17. parse_design_hierarchy_cells(lines) = None
  BY <1>3, <1>6, NoHierarchy
<1>18. QED
  BY <1>16, <1>17

\* The parser of the hierarchy counts the cells of its totals, and none before them.
LEMMA HierarchyOfSeveral ==
    ASSUME NEW flat \in [DOMAIN CellTypes -> Nat], NEW stats, NEW b, NEW n,
           SeveralModules(stats, flat, b, n), NEW lines, NEW last, Read(lines, last, stats)
    PROVE  parse_design_hierarchy_cells(lines) = Shown(flat)
<1>1. PICK nkeys, ncells, keys, names : ListedAs(flat, nkeys, ncells, keys, names)
  BY ListedIs
<1> DEFINE m == 1 + nkeys + ncells
           p == b + 1 + n
<1>2. /\ nkeys \in Nat /\ ncells \in Nat /\ m \in Nat /\ m >= 1 /\ Len(Listed(flat)) = m
      /\ b \in Nat /\ n \in Nat /\ p \in Nat /\ p >= b + 1
      /\ Len(stats) = p + m
      /\ Listed(flat) \in Seq(Plain)
  <2>1. /\ nkeys \in Nat /\ ncells \in Nat /\ Len(Listed(flat)) = m
        /\ Listed(flat) \in Seq(Plain)
    BY <1>1 DEF ListedAs, Enumerates
  <2>2. b \in Nat /\ n \in Nat /\ Len(stats) = p + Len(Listed(flat))
    BY DEF SeveralModules
  <2>3. m \in Nat /\ m >= 1 /\ p \in Nat /\ p >= b + 1
    BY <2>1, <2>2
  <2>4. QED
    BY <2>1, <2>2, <2>3
<1>3. /\ last \in Nat /\ lines \in [1 .. last -> Lines]
      /\ \A i \in 1 .. p + m : lines[i] = stats[i]
      /\ last = p + m \/ (last = p + m + 1 /\ lines[last] = Other)
  BY <1>2 DEF Read
<1>4. Other.is = "other" /\ Totals.is = "totals"
  BY DEF Other, Totals
<1>5. /\ \A i \in 1 .. b : lines[i] \in BlockLines
      /\ lines[b + 1] = Hierarchy
      /\ \A i \in 1 .. n : lines[b + 1 + i].is = "count"
      /\ \A i \in 1 .. m : lines[p + i] = Listed(flat)[i]
  <2>1. /\ \A i \in 1 .. b : i \in 1 .. p + m
        /\ b + 1 \in 1 .. p + m
        /\ \A i \in 1 .. n : b + 1 + i \in 1 .. p + m
        /\ \A i \in 1 .. m : p + i \in 1 .. p + m
    BY <1>2
  <2>2. QED
    BY <1>2, <1>3, <2>1 DEF SeveralModules
<1>6. lines[p + 1] = Totals
  <2>1. 1 \in 1 .. m
    BY <1>2
  <2>2. QED
    BY <1>1, <1>5, <2>1 DEF ListedAs
<1> HIDE DEF m
<1>7. ASSUME NEW i \in p + 1 .. last PROVE lines[i].is # "header"
  <2>1. CASE i \in 1 .. p + m
    <3>1. i - p \in 1 .. m /\ p + (i - p) = i
      BY <1>2, <2>1
    <3>2. lines[i] = Listed(flat)[i - p]
      BY <1>5, <3>1
    <3>3. Listed(flat)[i - p] \in Plain
      BY <1>2, <3>1
    <3>4. QED
      BY <3>2, <3>3 DEF Plain
  <2>2. CASE i \notin 1 .. p + m
    <3>1. lines[i] = Other
      BY <1>2, <1>3, <2>2
    <3>2. QED
      BY <1>4, <3>1
  <2>3. QED
    BY <2>1, <2>2
<1>8. PICK run : HierarchyRun(last, lines, run)
  BY <1>3, HierarchySteps
<1>9. ASSUME NEW k \in 1 .. last PROVE run[k] = HierarchyLine(run[k - 1], lines[k])
  BY <1>8 DEF HierarchyRun
<1>10. run[b] = Reader
  <2> DEFINE G == {k \in 0 .. b : run[k] = Reader}
  <2>1. 0 \in G
    BY <1>2, <1>8 DEF HierarchyRun
  <2>2. ASSUME NEW k \in 0 .. b, k < b, k \in G PROVE k + 1 \in G
    <3>1. k + 1 \in 1 .. b /\ k + 1 \in 1 .. last /\ k + 1 \in 0 .. b /\ (k + 1) - 1 = k
      BY <1>2, <1>3, <2>2
    <3>2. run[k + 1] = HierarchyLine(Reader, lines[k + 1])
      BY <1>9, <2>2, <3>1
    <3>3. lines[k + 1] # Hierarchy
      BY <1>5, <3>1 DEF BlockLines
    <3>4. QED
      BY <3>1, <3>2, <3>3 DEF HierarchyLine, Reader
  <2>3. 0 .. b \subseteq G
    <3> HIDE DEF G
    <3>1. 0 \in Nat
      OBVIOUS
    <3>2. QED
      BY <1>2, <2>1, <2>2, <3>1, Onwards
  <2>4. b \in 0 .. b
    BY <1>2
  <2>5. QED
    BY <2>3, <2>4
<1> DEFINE begun == [in |-> TRUE, summary |-> FALSE, done |-> FALSE, cells |-> None]
<1>11. run[b + 1] = begun
  <2>1. b + 1 \in 1 .. last /\ (b + 1) - 1 = b
    BY <1>2, <1>3
  <2>2. run[b + 1] = HierarchyLine(Reader, Hierarchy)
    BY <1>5, <1>9, <1>10, <2>1
  <2>3. QED
    BY <2>2 DEF HierarchyLine, Reader
<1>12. run[p] = begun
  <2> DEFINE G == {i \in 0 .. n : run[b + 1 + i] = begun}
  <2>1. 0 \in G
    <3>1. 0 \in 0 .. n /\ b + 1 + 0 = b + 1
      BY <1>2
    <3> HIDE DEF begun
    <3>2. QED
      BY <1>11, <3>1
  <2>2. ASSUME NEW i \in 0 .. n, i < n, i \in G PROVE i + 1 \in G
    <3>1. /\ i + 1 \in 1 .. n /\ i + 1 \in 0 .. n
          /\ b + 1 + (i + 1) \in 1 .. last /\ (b + 1 + (i + 1)) - 1 = b + 1 + i
      <4>1. p = b + 1 + n /\ p <= last /\ last \in Nat
        BY <1>2, <1>3
      <4>2. i \in 0 .. n /\ i < n
        BY <2>2
      <4> HIDE DEF p, begun
      <4>3. QED
        BY <1>2, <4>1, <4>2
    <3> DEFINE line == lines[b + 1 + (i + 1)]
    <3>2. run[b + 1 + (i + 1)] = HierarchyLine(begun, line)
      BY <1>9, <2>2, <3>1
    <3>3. line.is = "count"
      BY <1>5, <3>1
    <3>4. line # Hierarchy
      <4>1. Hierarchy.is = "header"
        BY DEF Hierarchy, Header
      <4>2. QED
        BY <3>3, <4>1
    <3> HIDE DEF line
    <3>5. HierarchyLine(begun, line) = begun
      BY <3>3, <3>4 DEF HierarchyLine
    <3> HIDE DEF begun
    <3>6. QED
      BY <3>1, <3>2, <3>5
  <2>3. 0 .. n \subseteq G
    <3> HIDE DEF G
    <3>1. 0 \in Nat
      OBVIOUS
    <3>2. QED
      BY <1>2, <2>1, <2>2, <3>1, Onwards
  <2>4. n \in 0 .. n
    BY <1>2
  <2> HIDE DEF begun
  <2>5. QED
    BY <2>3, <2>4
<1> DEFINE Inside(k) == /\ run[k].in = TRUE /\ run[k].done = FALSE
                        /\ DOMAIN run[k] = {"in", "summary", "done", "cells"}
                        /\ k > p => run[k].summary = TRUE
           G == {k \in p .. last : Inside(k)}
<1>13. ASSUME NEW k \in p + 1 .. last, Inside(k - 1)
       PROVE  Inside(k) /\ run[k].cells = Counted(run[k - 1].cells, lines[k])
  <2>1. k \in 1 .. last /\ (k = p + 1 \/ k - 1 > p)
    BY <1>2
  <2>2. run[k] = HierarchyLine(run[k - 1], lines[k])
    BY <1>9, <2>1
  <2>3. run[k - 1].summary \/ lines[k].is = "totals"
    <3>1. CASE k = p + 1
      BY <1>4, <1>6, <3>1
    <3>2. CASE k - 1 > p
      BY <1>13, <3>2
    <3>3. QED
      BY <2>1, <3>1, <3>2
  <2>4. lines[k] # Hierarchy
    <3>1. Hierarchy.is = "header"
      BY DEF Hierarchy, Header
    <3>2. QED
      BY <1>7, <3>1
  <2> DEFINE s == run[k - 1]
  <2> HIDE DEF s
  <2>5. s.in = TRUE /\ s.done = FALSE /\ DOMAIN s = {"in", "summary", "done", "cells"}
    BY <1>13 DEF s
  <2>6. HierarchyLine(s, lines[k])
           = [s EXCEPT !.summary = TRUE, !.cells = Counted(s.cells, lines[k])]
    <3>1. lines[k].is # "header"
      BY <1>7
    <3>2. (s.summary \/ lines[k].is = "totals") = TRUE
      BY <2>3 DEF s
    <3>3. QED
      BY <2>4, <2>5, <3>1, <3>2 DEF HierarchyLine
  <2>7. QED
    BY <2>2, <2>5, <2>6 DEF s
<1>14. p .. last \subseteq G
  <2>1. p \in G
    BY <1>2, <1>3, <1>12
  <2>2. ASSUME NEW k \in p .. last, k < last, k \in G PROVE k + 1 \in G
    <3>1. k + 1 \in p + 1 .. last /\ k + 1 \in p .. last /\ (k + 1) - 1 = k
      BY <1>2, <1>3, <2>2
    <3>2. Inside((k + 1) - 1)
      BY <2>2, <3>1
    <3>3. Inside(k + 1)
      <4> HIDE DEF Inside
      <4> QED BY <1>13, <3>1, <3>2
    <3>4. QED
      BY <3>1, <3>3
  <2> HIDE DEF G, p
  <2>3. QED
    BY <1>2, <1>3, <2>1, <2>2, Onwards
<1> DEFINE count == [k \in p .. last |-> run[k].cells]
<1>15. p \in p .. last /\ last \in p .. last
  BY <1>2, <1>3
<1>16. Counting(count, lines, p, last)
  <2>1. count[p] = None
    BY <1>12, <1>15
  <2>2. ASSUME NEW k \in p + 1 .. last PROVE count[k] = Counted(count[k - 1], lines[k])
    <3>1. k - 1 \in p .. last /\ k \in p .. last
      BY <1>2, <1>3
    <3>2. Inside(k - 1)
      BY <1>14, <3>1
    <3>3. run[k].cells = Counted(run[k - 1].cells, lines[k])
      <4> HIDE DEF Inside
      <4> QED BY <1>13, <3>2
    <3>4. QED
      BY <3>1, <3>3
  <2>3. QED
    BY <2>1, <2>2 DEF Counting
<1>17. count[last] = Shown(flat)
  <2> HIDE DEF count, G, p
  <2>1. last = p + m \/ (last = p + m + 1 /\ lines[last].is # "count")
    BY <1>2, <1>3, <1>4
  <2>2. TotalsAfter(p, flat, 1 + nkeys + ncells, lines, last)
    BY <1>5, <2>1 DEF m, TotalsAfter
  <2>3. p \in Nat /\ last \in Nat
    BY <1>2, <1>3
  <2>4. QED
    BY <1>1, <1>16, <2>2, <2>3, CountedUp
<1>18. QED
  BY <1>8, <1>15, <1>17 DEF HierarchyRun

FoldOfAll(S, base, h, pick, f) == \A s \in SUBSET S : FoldOf(S, base, h, pick, f, s)
Picks(S, pick) == \A s \in SUBSET S : s # {} => pick[s] \in s

\* Two folds over a finite set that pick and join in the same way agree.
LEMMA FoldsAgree ==
    ASSUME NEW S, IsFiniteSet(S), NEW base, NEW h, NEW f, NEW g,
           NEW pick, Picks(S, pick), FoldOfAll(S, base, h, pick, f),
           FoldOfAll(S, base, h, pick, g)
    PROVE  f[S] = g[S]
<1> DEFINE bad == {Cardinality(s) : s \in {t \in SUBSET S : f[t] # g[t]}}
<1>1. \A s \in SUBSET S : IsFiniteSet(s) /\ Cardinality(s) \in Nat
  BY FS_Subset, FS_CardinalityType
<1>2. ASSUME bad # {} PROVE FALSE
  <2>1. bad \subseteq Nat
    BY <1>1
  <2>2. PICK n \in bad : \A m \in bad : ~(m < n)
    <3> HIDE DEF bad
    <3> QED BY <1>2, <2>1, LeastNumber
  <2>3. PICK s \in SUBSET S : f[s] # g[s] /\ n = Cardinality(s)
    BY <2>2
  <2>4. s # {}
    BY <2>3 DEF FoldOf, FoldOfAll
  <2> DEFINE t == s \ {pick[s]}
  <2>5. t \in SUBSET S /\ Cardinality(t) = n - 1 /\ n \in Nat
    <3>1. pick[s] \in s
      BY <2>4 DEF Picks
    <3>2. Cardinality(t) = Cardinality(s) - 1
      BY <1>1, <3>1, FS_RemoveElement
    <3>3. QED
      BY <1>1, <2>3, <3>2
  <2>6. f[t] = g[t]
    <3>1. f[t] # g[t] => Cardinality(t) \in bad
      BY <2>5
    <3> HIDE DEF bad, t
    <3>2. QED
      BY <2>2, <2>5, <3>1
  <2>7. QED
    BY <2>3, <2>4, <2>6 DEF FoldOf, FoldOfAll
<1>3. S \in SUBSET S
  OBVIOUS
<1>4. QED
  BY <1>2, <1>3

\* The sum over a finite set is a fold.
Adding(f, S) == [x \in S |-> [v \in Nat |-> f[x] + v]]
AnyOf(S) == [s \in SUBSET S |-> CHOOSE x \in s : TRUE]

AddsUp(f, S, fold) ==
    /\ FoldOfAll(S, 0, Adding(f, S), AnyOf(S), fold)
    /\ SumOver(f, S) = fold[S]

\* A sum over a finite set is such a fold.
LEMMA SumFolds ==
    ASSUME NEW S, IsFiniteSet(S), NEW f, \A x \in S : f[x] \in Nat
    PROVE  \E fold : AddsUp(f, S, fold)
<1> DEFINE h == [x \in S |-> [v \in Nat |-> f[x] + v]]
           pick == [s \in SUBSET S |-> CHOOSE x \in s : TRUE]
           Is(iter) == iter = [s \in SUBSET S |->
                          IF s = {} THEN 0
                          ELSE f[CHOOSE x \in s : TRUE] + iter[s \ {CHOOSE x \in s : TRUE}]]
           fold == CHOOSE iter : Is(iter)
<1>1. h \in [S -> [Nat -> Nat]]
  OBVIOUS
<1>2. \A s \in SUBSET S : s # {} => pick[s] \in s
  OBVIOUS
<1>3. PICK g \in [SUBSET S -> Nat] : \A s \in SUBSET S : FoldOf(S, 0, h, pick, g, s)
  <2>1. 0 \in Nat
    OBVIOUS
  <2> HIDE DEF h, pick
  <2>2. QED
    BY <1>1, <1>2, <2>1, FoldExists
<1>4. ASSUME NEW s \in SUBSET S, s # {}
      PROVE  g[s] = f[pick[s]] + g[s \ {pick[s]}]
  <2>1. pick[s] \in S /\ s \ {pick[s]} \in SUBSET S
    BY <1>2, <1>4
  <2> HIDE DEF pick
  <2>2. g[s \ {pick[s]}] \in Nat
    BY <2>1
  <2>3. g[s] = h[pick[s]][g[s \ {pick[s]}]]
    BY <1>3, <1>4 DEF FoldOf
  <2>4. QED
    BY <2>1, <2>2, <2>3
<1>5. g[{}] = 0
  BY <1>3 DEF FoldOf
<1>6. Is(g)
  BY <1>4, <1>5
<1>7. Is(fold)
  <2> HIDE DEF Is
  <2> QED BY <1>6
<1>8. SumOver(f, S) = fold[S]
  BY DEF SumOver, MapThenSumSet, MapThenFoldSet
<1> HIDE DEF fold
<1>9. ASSUME NEW s \in SUBSET S, s # {}, fold[s \ {pick[s]}] \in Nat
      PROVE  fold[s] = h[pick[s]][fold[s \ {pick[s]}]]
  <2>1. pick[s] \in S
    BY <1>2, <1>9
  <2>2. fold[s] = f[pick[s]] + fold[s \ {pick[s]}]
    BY <1>7, <1>9
  <2> HIDE DEF pick
  <2>3. QED
    BY <1>9, <2>1, <2>2
<1>10. \A s \in SUBSET S : fold[s] \in Nat
  <2> DEFINE bad == {Cardinality(s) : s \in {t \in SUBSET S : fold[t] \notin Nat}}
  <2>1. \A s \in SUBSET S : IsFiniteSet(s) /\ Cardinality(s) \in Nat
    BY FS_Subset, FS_CardinalityType
  <2>2. ASSUME bad # {} PROVE FALSE
    <3>1. bad \subseteq Nat
      BY <2>1
    <3>2. PICK n \in bad : \A m \in bad : ~(m < n)
      <4> HIDE DEF bad
      <4> QED BY <2>2, <3>1, LeastNumber
    <3>3. PICK s \in SUBSET S : fold[s] \notin Nat /\ n = Cardinality(s)
      BY <3>2
    <3>4. s # {}
      BY <1>7, <3>3
    <3> DEFINE t == s \ {pick[s]}
    <3>5. t \in SUBSET S /\ Cardinality(t) = n - 1 /\ n \in Nat
      <4>1. pick[s] \in s
        BY <1>2, <3>4
      <4> HIDE DEF pick
      <4>2. Cardinality(t) = Cardinality(s) - 1
        BY <2>1, <4>1, FS_RemoveElement
      <4>3. QED
        BY <2>1, <3>3, <4>2
    <3>6. fold[t] \in Nat
      <4>1. fold[t] \notin Nat => Cardinality(t) \in bad
        BY <3>5
      <4> HIDE DEF bad, t
      <4>2. QED
        BY <3>2, <3>5, <4>1
    <3>7. fold[s] = f[pick[s]] + fold[t] /\ pick[s] \in S
      BY <1>2, <1>7, <3>4
    <3> HIDE DEF t, pick
    <3>8. QED
      BY <3>3, <3>6, <3>7
  <2>3. QED
    BY <2>2
<1>11. ASSUME NEW s \in SUBSET S PROVE FoldOf(S, 0, h, pick, fold, s)
  <2>1. CASE s = {}
    BY <1>7, <2>1 DEF FoldOf
  <2>2. CASE s # {}
    <3>1. s \ {pick[s]} \in SUBSET S
      OBVIOUS
    <3> HIDE DEF pick, h
    <3>2. fold[s] = h[pick[s]][fold[s \ {pick[s]}]]
      BY <1>9, <1>10, <2>2, <3>1
    <3>3. QED
      BY <2>2, <3>2 DEF FoldOf
  <2>3. QED
    BY <2>1, <2>2
<1>12. h = Adding(f, S) /\ pick = AnyOf(S)
  BY DEF Adding, AnyOf
<1> HIDE DEF h, pick
<1>13. AddsUp(f, S, fold)
  BY <1>8, <1>11, <1>12 DEF AddsUp, FoldOfAll
<1>14. QED
  BY <1>13

\* Equal numbers have equal sums.
LEMMA SumsAgree ==
    ASSUME NEW S, IsFiniteSet(S), NEW f, NEW g, \A x \in S : f[x] \in Nat /\ f[x] = g[x]
    PROVE  SumOver(f, S) = SumOver(g, S)
<1>1. PICK ff : AddsUp(f, S, ff)
  BY SumFolds
<1>2. PICK gg : AddsUp(g, S, gg)
  BY SumFolds
<1>3. Adding(f, S) = Adding(g, S)
  BY DEF Adding
<1>4. Picks(S, AnyOf(S))
  BY DEF AnyOf, Picks
<1>5. ff[S] = gg[S]
  BY <1>1, <1>2, <1>3, <1>4, FoldsAgree DEF AddsUp
<1>6. QED
  BY <1>1, <1>2, <1>5 DEF AddsUp

\* The log of a design, whole or without what Yosys says last.
LogOf(x, lines) ==
    \E m \in {Len(FullLog(Designs[x])) - 1, Len(FullLog(Designs[x]))} :
        lines = SubSeq(FullLog(Designs[x]), 1, m)

\* The lines of the statistics in such a log.
LEMMA LogIs ==
    ASSUME NEW x \in DOMAIN Designs, NEW lines, LogOf(x, lines)
    PROVE  /\ SelectInSeq(lines, LAMBDA line : line = Start) = 2
           /\ \E last : Read(SubSeq(lines, 2 + 1, Len(lines)), last, Statistics(Designs[x]))
<1> DEFINE S == Statistics(Designs[x])
           a == <<Other, Start>>
           z == <<Other>>
           F == FullLog(Designs[x])
<1>1. S \in Seq(Lines)
  BY StatisticsOfOne, StatisticsOfSeveral
<1>2. Other \in Lines /\ Start \in Lines /\ Other # Start
  <2>1. Other.is = "other" /\ Start.is = "start"
    BY DEF Other, Start
  <2>2. Other \in Lines
    BY DEF Other, Lines, LogNames
  <2>3. Start \in Lines
    BY DEF Start, Lines, LogNames
  <2>4. QED
    BY <2>1, <2>2, <2>3
<1>3. /\ a \in Seq(Lines) /\ Len(a) = 2 /\ a[1] = Other /\ a[2] = Start
      /\ z \in Seq(Lines) /\ Len(z) = 1 /\ z[1] = Other
  BY <1>2
<1>4. F = (a \o S) \o z
  BY DEF FullLog
<1> DEFINE n == Len(S)
           as == a \o S
<1>5. n \in Nat /\ 2 \in Nat /\ 1 \in Nat /\ 2 + n \in Nat
  BY <1>1
<1> HIDE DEF S, a, z, n
<1>6. InARow(Lines, a, S, 2, n, as)
  BY <1>1, <1>3, <1>5, TwoInARow DEF n
<1>7. as \in Seq(Lines) /\ Len(as) = 2 + n
  BY <1>6 DEF InARow
<1> HIDE DEF as
<1>8. InARow(Lines, as, z, 2 + n, 1, F)
  <2>1. InARow(Lines, as, z, 2 + n, 1, as \o z)
    BY <1>3, <1>5, <1>7, TwoInARow
  <2>2. QED
    BY <1>4, <2>1 DEF as
<1>9. F \in Seq(Lines) /\ Len(F) = n + 3
  BY <1>5, <1>8 DEF InARow
<1>10. F[1] = Other /\ F[2] = Start
  <2>1. 1 \in 1 .. 2 + n /\ 2 \in 1 .. 2 + n /\ 1 \in 1 .. 2 /\ 2 \in 1 .. 2
    BY <1>5
  <2>2. F[1] = as[1] /\ F[2] = as[2] /\ as[1] = a[1] /\ as[2] = a[2]
    BY <1>6, <1>8, <2>1 DEF InARow
  <2>3. QED
    BY <1>3, <2>2
<1>11. ASSUME NEW i \in 1 .. n PROVE F[2 + i] = S[i]
  <2>1. 2 + i \in 1 .. 2 + n
    BY <1>5
  <2>2. QED
    BY <1>6, <1>8, <2>1 DEF InARow
<1>12. F[n + 3] = Other
  <2>1. 1 \in 1 .. 1 /\ 2 + n + 1 = n + 3
    BY <1>5
  <2>2. F[2 + n + 1] = z[1]
    BY <1>8, <2>1 DEF InARow
  <2>3. QED
    BY <1>3, <2>1, <2>2
<1> HIDE DEF F
<1>13. PICK m : m \in {n + 2, n + 3} /\ lines = SubSeq(F, 1, m)
  <2>1. PICK k \in {Len(F) - 1, Len(F)} : lines = SubSeq(F, 1, k)
    BY DEF LogOf, F
  <2>2. k \in {n + 2, n + 3}
    BY <1>5, <1>9
  <2>3. QED
    BY <2>1, <2>2
<1>14. /\ m \in Nat /\ m >= 2 /\ m <= n + 3 /\ lines \in Seq(Lines) /\ Len(lines) = m
       /\ \A i \in 1 .. m : lines[i] = F[i]
  <2>1. m \in Nat /\ m >= 2 /\ m <= n + 3
    BY <1>5, <1>13
  <2>2. lines \in Seq(Lines) /\ Len(lines) = m
    BY <1>9, <1>13, <2>1
  <2>3. \A i \in 1 .. m : lines[i] = F[i]
    BY <1>9, <1>13, <2>1
  <2>4. QED
    BY <2>1, <2>2, <2>3
<1>15. SelectInSeq(lines, LAMBDA line : line = Start) = 2
  <2> DEFINE I == {i \in 1 .. m : lines[i] = Start}
  <2>1. 1 \in 1 .. m /\ 2 \in 1 .. m
    BY <1>14
  <2>2. 2 \in I /\ 1 \notin I
    BY <1>2, <1>10, <1>14, <2>1
  <2>3. Min(I) \in I
    <3>1. I \in SUBSET (1 .. m) /\ I # {}
      BY <2>2
    <3> HIDE DEF I
    <3>2. \A y \in I : y \in Nat
      BY <3>1
    <3>3. PICK y \in I : \A o \in I : ~(o < y)
      BY <3>1, <3>2, LeastNumber
    <3>4. \A o \in I : y <= o
      BY <3>2, <3>3
    <3>5. QED
      BY <3>4 DEF Min
  <2>4. \A i \in I : Min(I) <= i
    <3>1. I \in SUBSET (1 .. m) /\ I # {}
      BY <2>2
    <3> HIDE DEF I
    <3>2. \A y \in I : y \in Nat
      BY <3>1
    <3>3. PICK y \in I : \A o \in I : ~(o < y)
      BY <3>1, <3>2, LeastNumber
    <3>4. \A o \in I : y <= o
      BY <3>2, <3>3
    <3>5. QED
      BY <3>4 DEF Min
  <2>5. Min(I) = 2
    <3>1. Min(I) \in 1 .. m /\ Min(I) <= 2 /\ Min(I) # 1
      BY <2>2, <2>3, <2>4
    <3> HIDE DEF I
    <3>2. QED
      BY <1>14, <3>1
  <2>6. I # {}
    BY <2>2
  <2>7. SelectInSeq(lines, LAMBDA line : line = Start) = IF I # {} THEN Min(I) ELSE 0
    BY <1>14 DEF SelectInSeq
  <2>8. QED
    BY <2>5, <2>6, <2>7
<1> DEFINE stats == SubSeq(lines, 2 + 1, Len(lines))
<1>16. /\ stats \in [1 .. m - 2 -> Lines]
       /\ \A i \in 1 .. m - 2 : stats[i] = F[2 + i]
  <2>1. stats \in Seq(Lines) /\ Len(stats) = m - 2
    <3>1. stats \in Seq(Lines)
      BY <1>14
    <3>2. Len(stats) = IF 2 + 1 <= m THEN m - (2 + 1) + 1 ELSE 0
      BY <1>14
    <3>3. QED
      BY <1>14, <3>1, <3>2
  <2>2. \A i \in 1 .. m - 2 : stats[i] = lines[2 + i]
    <3>1. stats = [i \in 1 .. 1 + m - (2 + 1) |-> lines[i + (2 + 1) - 1]]
      BY <1>14
    <3>2. 1 + m - (2 + 1) = m - 2 /\ \A i \in 1 .. m - 2 : i + (2 + 1) - 1 = 2 + i
      BY <1>14
    <3>3. QED
      BY <3>1, <3>2
  <2>3. \A i \in 1 .. m - 2 : 2 + i \in 1 .. m
    BY <1>14
  <2> HIDE DEF stats
  <2>4. DOMAIN stats = 1 .. m - 2 /\ stats \in [1 .. m - 2 -> Lines]
    BY <1>14, <2>1
  <2>5. QED
    BY <1>14, <2>2, <2>3, <2>4
<1>17. Read(stats, m - 2, S)
  <2>1. m - 2 \in Nat /\ (m - 2 = n \/ m - 2 = n + 1)
    BY <1>5, <1>13, <1>14
  <2>2. \A i \in 1 .. n : i \in 1 .. m - 2
    BY <1>5, <2>1
  <2>3. m - 2 = n + 1 => stats[m - 2] = Other
    <3>1. m - 2 = n + 1 => m - 2 \in 1 .. m - 2 /\ 2 + (m - 2) = n + 3
      BY <1>5, <1>14
    <3> HIDE DEF stats
    <3>2. QED
      BY <1>12, <1>16, <3>1
  <2> HIDE DEF stats
  <2>4. \A i \in 1 .. n : stats[i] = S[i]
    BY <1>11, <1>16, <2>2
  <2>5. QED
    BY <1>16, <2>1, <2>3, <2>4 DEF Read, n
<1>18. QED
  BY <1>15, <1>17 DEF S

\* What the parsers count of a design: its hardware, as often as it has it, and no
\* more than it has.
LEMMA ShownIs ==
    ASSUME NEW flat \in [DOMAIN CellTypes -> Nat]
    PROVE  /\ \A c \in Hardware : c \in Named /\ c \in DOMAIN CellTypes /\ Shown(flat)[c] = flat[c]
           /\ \A n \in Named : Shown(flat)[n] > 0 =>
                 n \in DOMAIN CellTypes /\ flat[n] > 0 /\ Shown(flat)[n] = flat[n]
<1>1. ASSUME NEW c \in Hardware PROVE c \in Named /\ c \in DOMAIN CellTypes /\ Shown(flat)[c] = flat[c]
  <2>1. c \in DOMAIN CellTypes /\ CellTypes[c].kind # "$scopeinfo" /\ c \in Named
    BY DEF Hardware, Internals, Named
  <2>2. ~Skipped(c)
    BY <2>1, DesignsAssumption DEF Skipped
  <2>3. QED
    BY <2>1, <2>2 DEF Shown
<1>2. ASSUME NEW n \in Named, Shown(flat)[n] > 0
      PROVE  n \in DOMAIN CellTypes /\ flat[n] > 0 /\ Shown(flat)[n] = flat[n]
  <2>1. Shown(flat)[n] = IF n \in DOMAIN CellTypes /\ ~Skipped(n) THEN flat[n] ELSE 0
    BY DEF Shown
  <2>2. QED
    BY <1>2, <2>1
<1>3. QED
  BY <1>1, <1>2

\* The one technology of a design, told from what is counted.
TechnologyOf(flat, tech) ==
    /\ tech \in {"ice40", "xilinx"}
    /\ \A c \in Hardware : flat[c] > 0 => CellTypes[c].tech = tech
    /\ \E c \in Hardware : flat[c] > 0
    /\ Technology(Shown(flat)) = tech

\* Every design has one.
LEMMA OneTechnology ==
    ASSUME NEW x \in DOMAIN Designs
    PROVE  \E tech : TechnologyOf(Flat(Designs[x]), tech)
<1> DEFINE flat == Flat(Designs[x])
           used == {c \in Hardware : flat[c] > 0}
           techs == {CellTypes[c].tech : c \in used}
<1>1. flat \in [DOMAIN CellTypes -> Nat]
  BY FlatIs
<1>2. \/ techs = {"ice40"}
      \/ techs = {"xilinx"} /\ \E c \in used : CellTypes[c].kind \in {"lut", "ff"}
  BY DesignsAssumption DEF LegalDesign
<1> HIDE DEF flat
<1>3. \A c \in Hardware : c \in DOMAIN CellTypes /\ c \in Named /\ Shown(flat)[c] = flat[c]
  BY <1>1, ShownIs
<1>4. CASE techs = {"ice40"}
  <2>1. PICK c \in used : CellTypes[c].tech = "ice40"
    BY <1>4
  <2>2. /\ c \in DOMAIN CellTypes /\ CellTypes[c].tech = "ice40" /\ CellTypes[c].kind \in CellKinds
        /\ Shown(flat)[c] > 0
    BY <1>3, <2>1 DEF CellKinds
  <2>3. Technology(Shown(flat)) = "ice40"
    BY <2>2 DEF Technology
  <2>4. \A b \in Hardware : flat[b] > 0 => CellTypes[b].tech = "ice40"
    BY <1>4
  <2>5. TechnologyOf(flat, "ice40")
    BY <2>1, <2>3, <2>4 DEF TechnologyOf
  <2>6. QED
    BY <2>5 DEF flat
<1>5. CASE techs = {"xilinx"} /\ \E c \in used : CellTypes[c].kind \in {"lut", "ff"}
  <2>1. \A b \in Hardware : flat[b] > 0 => CellTypes[b].tech = "xilinx"
    BY <1>5
  <2>2. PICK c \in used : CellTypes[c].kind \in {"lut", "ff"}
    BY <1>5
  <2>3. /\ c \in DOMAIN CellTypes /\ CellTypes[c].tech = "xilinx"
        /\ Shown(flat)[c] > 0
    BY <1>3, <2>1, <2>2
  <2>4. ASSUME NEW b \in DOMAIN CellTypes, CellTypes[b].tech = "ice40" PROVE ~(Shown(flat)[b] > 0)
    <3>1. b \in Named
      BY DEF Named
    <3>2. b \in Hardware
      BY <2>4, DesignsAssumption DEF Hardware
    <3>3. ~(flat[b] > 0)
      BY <2>1, <2>4, <3>2
    <3>4. QED
      BY <1>3, <3>2, <3>3
  <2>5. Technology(Shown(flat)) = "xilinx"
    BY <2>2, <2>3, <2>4 DEF Technology
  <2>6. TechnologyOf(flat, "xilinx")
    BY <2>1, <2>2, <2>5 DEF TechnologyOf
  <2>7. QED
    BY <2>6 DEF flat
<1>6. QED
  BY <1>2, <1>4, <1>5

\* The cells of the report are the hardware of the design.
LEMMA BreakdownIs ==
    ASSUME NEW flat \in [DOMAIN CellTypes -> Nat]
    PROVE  Breakdown(Shown(flat)) = {<<c, flat[c]>> : c \in {c \in Hardware : flat[c] > 0}}
<1> DEFINE shown == Shown(flat)
           left == {n \in Named \ Internals : shown[n] > 0}
           right == {c \in Hardware : flat[c] > 0}
<1>1. left = right /\ \A c \in right : shown[c] = flat[c]
  <2>1. ASSUME NEW n \in left PROVE n \in right
    BY ShownIs DEF Hardware
  <2>2. ASSUME NEW c \in right PROVE c \in left /\ shown[c] = flat[c]
    BY ShownIs DEF Hardware
  <2>3. QED
    BY <2>1, <2>2
<1>2. Breakdown(shown) = {<<n, shown[n]>> : n \in left}
  BY DEF Breakdown
<1> HIDE DEF shown, left, right
<1>3. {<<n, shown[n]>> : n \in left} = {<<c, flat[c]>> : c \in right}
  BY <1>1
<1>4. QED
  BY <1>2, <1>3 DEF shown, right

\* The kinds of cells of the report are summed over the hardware of the design.
LEMMA SummaryIs ==
    ASSUME NEW flat \in [DOMAIN CellTypes -> Nat], NEW tech, TechnologyOf(flat, tech),
           NEW c \in Hardware, flat[c] > 0
    PROVE  classify(Technology(Shown(flat)), Shown(flat))[CellTypes[c].kind]
               = SumOver(flat, {x \in Hardware : flat[x] > 0 /\ CellTypes[x].kind = CellTypes[c].kind})
<1> DEFINE kind == CellTypes[c].kind
           shown == Shown(flat)
           left == {x \in DOMAIN CellTypes : /\ CellTypes[x].tech = tech /\ CellTypes[x].kind = kind
                                            /\ shown[x] > 0}
           right == {x \in Hardware : flat[x] > 0 /\ CellTypes[x].kind = kind}
<1>1. /\ \A x \in Hardware : x \in DOMAIN CellTypes /\ shown[x] = flat[x]
      /\ \A x \in Named : shown[x] > 0 => x \in DOMAIN CellTypes /\ flat[x] > 0
  BY ShownIs
<1>2. kind \notin {"$scopeinfo", "$"} /\ kind \in CellKinds
  BY DEF Hardware, Internals, CellKinds
<1>3. left = right
  <2>1. ASSUME NEW x \in left PROVE x \in right
    <3>1. x \in Hardware /\ x \in Named
      BY <1>2 DEF Hardware, Internals, Named
    <3> HIDE DEF shown, kind
    <3>2. QED
      BY <1>1, <3>1
  <2>2. ASSUME NEW x \in right PROVE x \in left
    <3> HIDE DEF shown, kind
    <3> QED BY <1>1 DEF TechnologyOf
  <2>3. QED
    BY <2>1, <2>2
<1>4. classify(tech, shown)[kind] = SumOver(shown, left)
  <2> HIDE DEF shown
  <2>1. classify(tech, shown) =
            [k \in CellKinds |->
                SumOver(shown, {x \in DOMAIN CellTypes : /\ CellTypes[x].tech = tech /\ CellTypes[x].kind = k
                                                        /\ shown[x] > 0})]
    BY DEF classify
  <2> HIDE DEF kind
  <2>2. QED
    BY <1>2, <2>1
<1>5. SumOver(shown, right) = SumOver(flat, right)
  <2>1. right \subseteq DOMAIN CellTypes
    BY DEF Hardware
  <2>2. IsFiniteSet(right)
    BY <2>1, FS_Subset, DesignsAssumption
  <2>3. \A x \in right : shown[x] \in Nat /\ shown[x] = flat[x]
    BY <1>1, <2>1
  <2> HIDE DEF right, shown
  <2>4. QED
    BY <2>2, <2>3, SumsAgree
<1>6. Technology(shown) = tech
  BY DEF TechnologyOf
<1> HIDE DEF shown, left, right, kind
<1>7. classify(Technology(shown), shown)[kind] = SumOver(flat, right)
  BY <1>3, <1>4, <1>5, <1>6
<1>8. QED
  BY <1>7 DEF shown, right, kind

\* The report on a log with whole statistics is the flattened design.
LEMMA AnswerIs ==
    ASSUME NEW x \in DOMAIN Designs, NEW lines, LogOf(x, lines)
    PROVE  LET flat == Flat(Designs[x])
           IN  Answer(lines) = [is |-> "report",
                                summary |-> classify(Technology(Shown(flat)), Shown(flat)),
                                breakdown |-> Breakdown(Shown(flat))]
<1> DEFINE flat == Flat(Designs[x])
           shown == Shown(flat)
           start == SelectInSeq(lines, LAMBDA line : line = Start)
           stats == SubSeq(lines, 2 + 1, Len(lines))
           whole == parse_design_hierarchy_cells(stats)
           cells == IF whole # None THEN whole ELSE parse_module_cells(stats)
<1>1. flat \in [DOMAIN CellTypes -> Nat]
  BY FlatIs
<1>2. start = 2
  BY LogIs
<1>3. PICK last : Read(stats, last, Statistics(Designs[x]))
  BY LogIs
<1>4. shown # None
  <2>1. PICK tech : TechnologyOf(flat, tech)
    BY OneTechnology
  <2> HIDE DEF flat
  <2>2. PICK c \in Hardware : flat[c] > 0
    BY <2>1 DEF TechnologyOf
  <2>3. c \in Named /\ shown[c] > 0
    BY <1>1, <2>2, ShownIs
  <2>4. None[c] = 0
    BY <2>3 DEF None
  <2> HIDE DEF shown
  <2>5. QED
    BY <2>3, <2>4
<1> HIDE DEF flat, stats
<1>5. cells = shown
  <2>1. CASE Len(Designs[x].modules) = 1
    <3>1. OneModule(Statistics(Designs[x]), flat)
      BY <2>1, StatisticsOfOne DEF flat
    <3>2. whole = None /\ parse_module_cells(stats) = shown
      BY <1>1, <1>3, <3>1, ModuleOfOne
    <3>3. QED
      BY <3>2
  <2>2. CASE Len(Designs[x].modules) # 1
    <3>1. PICK b, n : SeveralModules(Statistics(Designs[x]), flat, b, n)
      BY <2>2, StatisticsOfSeveral DEF flat
    <3>2. whole = shown
      BY <1>1, <1>3, <3>1, HierarchyOfSeveral
    <3>3. QED
      BY <1>4, <3>2
  <2>3. QED
    BY <2>1, <2>2
<1>6. Answer(lines) =
          LET st == SubSeq(lines, start + 1, Len(lines))
              w  == parse_design_hierarchy_cells(st)
              cs == IF w # None THEN w ELSE parse_module_cells(st)
          IN  IF start = 0 \/ cs = None THEN [is |-> "error"]
              ELSE [is |-> "report", summary |-> classify(Technology(cs), cs), breakdown |-> Breakdown(cs)]
  BY DEF Answer
<1> HIDE DEF start
<1>7. Answer(lines) = IF 2 = 0 \/ cells = None THEN [is |-> "error"]
                      ELSE [is |-> "report", summary |-> classify(Technology(cells), cells),
                            breakdown |-> Breakdown(cells)]
  BY <1>2, <1>6 DEF stats
<1> HIDE DEF cells, shown
<1>8. Answer(lines) = [is |-> "report", summary |-> classify(Technology(shown), shown),
                       breakdown |-> Breakdown(shown)]
  BY <1>4, <1>5, <1>7
<1>9. QED
  BY <1>8 DEF shown, flat

\* A log is a list of lines.
LEMMA LogsAre ==
    ASSUME NEW x \in DOMAIN Designs
    PROVE  /\ FullLog(Designs[x]) \in Seq(Lines)
           /\ Len(FullLog(Designs[x])) \in Nat
<1> DEFINE S == Statistics(Designs[x])
           a == <<Other, Start>>
           z == <<Other>>
<1>1. S \in Seq(Lines)
  BY StatisticsOfOne, StatisticsOfSeveral
<1>2. Other \in Lines /\ Start \in Lines
  <2>1. Other \in Lines
    BY DEF Other, Lines, LogNames
  <2>2. Start \in Lines
    BY DEF Start, Lines, LogNames
  <2>3. QED
    BY <2>1, <2>2
<1>3. a \in Seq(Lines) /\ z \in Seq(Lines)
  BY <1>2
<1>4. FullLog(Designs[x]) = (a \o S) \o z
  BY DEF FullLog
<1> HIDE DEF a, S, z
<1>5. a \o S \in Seq(Lines)
  BY <1>1, <1>3
<1>6. (a \o S) \o z \in Seq(Lines)
  BY <1>3, <1>5
<1>7. QED
  BY <1>4, <1>6

\* Without the line that begins the statistics there is no report.
LEMMA NothingToReport ==
    ASSUME NEW lines \in Seq(Lines), Start \notin ToSet(lines)
    PROVE  Answer(lines) = [is |-> "error"]
<1> DEFINE found == {i \in 1 .. Len(lines) : lines[i] = Start}
<1>1. found = {}
  BY DEF ToSet
<1>2. SelectInSeq(lines, LAMBDA line : line = Start) = IF found # {} THEN Min(found) ELSE 0
  BY DEF SelectInSeq
<1>3. SelectInSeq(lines, LAMBDA line : line = Start) = 0
  BY <1>1, <1>2
<1>4. QED
  BY <1>3 DEF Answer

\* The log is of the design it is said to be of, and what is printed is the answer to it.
ReportInvariant ==
    /\ design \in DOMAIN Designs
    /\ logged \in [of : DOMAIN Designs, whole : BOOLEAN]
    /\ log \in Seq(Lines)
    /\ logged.whole => LogOf(logged.of, log)
    /\ printed.is # "nothing" => printed = Answer(log)

\* It holds before anything was run.
LEMMA NothingReported == ReportInit => ReportInvariant
<1>1. ReportInit => log \in Seq(Lines)
  BY DEF ReportInit
<1>2. QED
  BY <1>1 DEF ReportInit, ReportInvariant

\* A synthesis that succeeds or fails leaves a log of its own design.
LEMMA SynthLogs == ReportInvariant /\ synth => ReportInvariant'
<1> SUFFICES ASSUME ReportInvariant, synth PROVE ReportInvariant'
  OBVIOUS
<1> DEFINE full == FullLog(Designs[design])
<1>1. design \in DOMAIN Designs /\ design' = design /\ printed' = [is |-> "nothing"]
  BY DEF ReportInvariant, synth
<1>2. full \in Seq(Lines) /\ Len(full) \in Nat
  BY <1>1, LogsAre
<1>3. PICK n \in 0 .. Len(full) :
          /\ log' = SubSeq(full, 1, n)
          /\ logged' = [of |-> design, whole |-> n >= Len(full) - 1]
  BY DEF synth
<1>4. n >= Len(full) - 1 => LogOf(design, log')
  <2>1. n >= Len(full) - 1 => n \in {Len(full) - 1, Len(full)}
    BY <1>2
  <2>2. QED
    BY <1>3, <2>1 DEF LogOf
<1> HIDE DEF full
<1>5. log' \in Seq(Lines)
  BY <1>2, <1>3
<1>6. logged' \in [of : DOMAIN Designs, whole : BOOLEAN]
  BY <1>1, <1>3
<1>7. logged'.whole => LogOf(logged'.of, log')
  BY <1>3, <1>4
<1>8. QED
  BY <1>1, <1>5, <1>6, <1>7 DEF ReportInvariant

\* Every target keeps it.
LEMMA ReportSteps == ReportInvariant /\ [ReportNext]_report_vars => ReportInvariant'
<1> SUFFICES ASSUME ReportInvariant, [ReportNext]_report_vars PROVE ReportInvariant'
  OBVIOUS
<1>1. CASE EditDesign
  BY <1>1 DEF ReportInvariant, EditDesign, LogOf
<1>2. CASE synth
  BY <1>2, SynthLogs
<1>3. CASE synth_clean
  <2>1. log' \in Seq(Lines)
    BY <1>3 DEF synth_clean
  <2>2. logged' \in [of : DOMAIN Designs, whole : BOOLEAN] /\ ~logged'.whole
    BY <1>3 DEF ReportInvariant, synth_clean
  <2>3. QED
    BY <1>3, <2>1, <2>2 DEF ReportInvariant, synth_clean
<1>4. CASE report
  BY <1>4 DEF ReportInvariant, report, LogOf
<1>5. CASE UNCHANGED report_vars
  BY <1>5 DEF ReportInvariant, report_vars, LogOf
<1>6. QED
  BY <1>1, <1>2, <1>3, <1>4, <1>5 DEF ReportNext

\* A report made from whole statistics is the flattened design of its log; without
\* statistics there is none.
LEMMA DesignReported == ReportInvariant => ReportsTheDesign
<1> SUFFICES ASSUME ReportInvariant PROVE ReportsTheDesign
  OBVIOUS
<1> DEFINE flat == Flat(Designs[logged.of])
           cells(c) == {x \in Hardware : flat[x] > 0 /\ CellTypes[x].kind = CellTypes[c].kind}
<1>1. logged.of \in DOMAIN Designs
  BY DEF ReportInvariant
<1>2. flat \in [DOMAIN CellTypes -> Nat]
  BY <1>1, FlatIs
<1>3. ASSUME printed.is # "nothing", logged.whole
      PROVE  /\ printed.is = "report"
             /\ printed.breakdown = {<<c, flat[c]>> : c \in {c \in Hardware : flat[c] > 0}}
             /\ \A c \in Hardware : flat[c] > 0 =>
                   printed.summary[CellTypes[c].kind] = SumOver(flat, cells(c))
  <2>1. printed = Answer(log) /\ LogOf(logged.of, log)
    BY <1>3 DEF ReportInvariant
  <2>2. printed = [is |-> "report",
                   summary |-> classify(Technology(Shown(flat)), Shown(flat)),
                   breakdown |-> Breakdown(Shown(flat))]
    BY <1>1, <2>1, AnswerIs
  <2>3. PICK tech : TechnologyOf(flat, tech)
    BY <1>1, OneTechnology
  <2> HIDE DEF flat
  <2>4. printed.breakdown = {<<c, flat[c]>> : c \in {c \in Hardware : flat[c] > 0}}
    BY <1>2, <2>2, BreakdownIs
  <2>5. ASSUME NEW c \in Hardware, flat[c] > 0
        PROVE  printed.summary[CellTypes[c].kind] = SumOver(flat, cells(c))
    BY <1>2, <2>2, <2>3, <2>5, SummaryIs
  <2>6. QED
    BY <2>2, <2>4, <2>5
<1>4. Start \notin ToSet(log) => printed.is # "report"
  <2>1. ASSUME Start \notin ToSet(log), printed.is # "nothing" PROVE printed.is # "report"
    <3>1. printed = Answer(log) /\ log \in Seq(Lines)
      BY <2>1 DEF ReportInvariant
    <3>2. Answer(log) = [is |-> "error"]
      BY <2>1, <3>1, NothingToReport
    <3>3. QED
      BY <3>1, <3>2
  <2>2. QED
    BY <2>1
<1>5. QED
  BY <1>3, <1>4 DEF ReportsTheDesign

\* Whatever is run, edited or fails, the report on whole statistics is the flattened
\* design of the run that wrote them, and there is none without statistics.
THEOREM ReportIsTheDesign == ReportSpec => []ReportsTheDesign
<1>1. ReportSpec => []ReportInvariant
  BY NothingReported, ReportSteps, PTL DEF ReportSpec
<1>2. QED
  BY <1>1, DesignReported, PTL
=============================================================================
