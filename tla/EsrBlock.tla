------------------------------ MODULE EsrBlock ------------------------------
(***************************************************************************)
(* The APB register block that gen_esr.py writes for a module of esr.csv,  *)
(* as the emitted SystemVerilog behaves, for every table of Tables: setup  *)
(* captures the decode, the read data and the write data; access writes    *)
(* the register and, one clock later, raises its enable output.            *)
(* A word is the set of its one bits, as in XsrTypes.                      *)
(* The requester is an APB master: a setup clock, then one access clock    *)
(* (pready is tied high) with the same address, direction and data.        *)
(***************************************************************************)
EXTENDS XsrTable, FiniteSets

CONSTANTS Mod,          \* the module the block is generated for
          ApbWidth,     \* 64 in the sources: the data of the bus
          ResetValue    \* cell of a reset value -> the word

VARIABLES port_regs,        \* the registers of the block, fixed when it is generated
          apb_req,          \* the request on the bus in this clock
          ro_i,             \* what the hardware drives on the read-only registers
          reg_q,            \* the registers
          out_en_q,         \* the enable outputs
          s1_addr_valid_q, s1_rdata_q, s1_wdata_q

esr_vars == <<port_regs, apb_req, ro_i, reg_q, out_en_q,
              s1_addr_valid_q, s1_rdata_q, s1_wdata_q>>

rsp_vars == <<s1_addr_valid_q, s1_rdata_q, s1_wdata_q>>

-----------------------------------------------------------------------------
\* The block: registers with a port, of which some are written by the bus.
PortRegs(table) ==
    LET regs == ParseCsv(table, Mod)
    IN  {regs[i] : i \in {j \in DOMAIN regs : regs[j].port}}

\* A table is a file: its registers are finitely many. Each has an address and a
\* name of its own, or the case over the address would have two items for it, or
\* the block two ports.
ASSUME EsrBlockAssumption ==
    \A t \in Tables : Format(t) = "esr" /\ Generates(t, Mod) =>
        /\ IsFiniteSet(PortRegs(t))
        /\ \A r, s \in PortRegs(t) : r.address = s.address \/ r.name = s.name => r = s

rw_regs == {r \in port_regs : Writeable(r)}
ro_regs == {r \in port_regs : ~Writeable(r)}

WidestOf(widths) == CHOOSE w \in widths : \A v \in widths : v <= w

data_width == IF port_regs = {} THEN BusWidth ELSE WidestOf({PortWidth(r) : r \in port_regs})

Truncated(word, width) == word \cap (0 .. width - 1)

Words == SUBSET (0 .. ApbWidth - 1)
Names(regs) == {r.name : r \in regs}
Reset_(r) == Truncated(ResetValue[r.resetVal], PortWidth(r))

\* The bus: addresses of the tables, and one that no register has.
Idle == [psel |-> FALSE, penable |-> FALSE, pwrite |-> FALSE, paddr |-> 0, pwdata |-> {}]
SetupRequests ==
    [psel : {TRUE}, penable : {FALSE}, pwrite : BOOLEAN,
     paddr : {Hex[c] : c \in DOMAIN Hex} \cup {Unmapped}, pwdata : Words]

s0_setup  == apb_req.psel /\ ~apb_req.penable
s1_access == apb_req.psel /\ apb_req.penable

Addressed(r) == apb_req.paddr = r.address

-----------------------------------------------------------------------------
EsrTypeOK ==
    /\ apb_req \in SetupRequests \cup {[q EXCEPT !.penable = TRUE] : q \in SetupRequests}
                                 \cup {Idle}
    /\ ro_i \in [Names(ro_regs) -> Words]
    /\ reg_q \in [Names(rw_regs) -> Words]
    /\ \A r \in rw_regs : reg_q[r.name] \subseteq 0 .. PortWidth(r) - 1
    /\ out_en_q \in [Names(rw_regs) -> BOOLEAN]
    /\ s1_addr_valid_q \in BOOLEAN
    /\ s1_rdata_q \in Words
    /\ s1_wdata_q \in Words

RoInputs == {f \in [Names(ro_regs) -> Words] :
                \A r \in ro_regs : f[r.name] \subseteq 0 .. PortWidth(r) - 1}

ResetRegs == [n \in Names(rw_regs) |-> Reset_(CHOOSE r \in rw_regs : r.name = n)]

\* The data registers have no reset: they hold anything at power-up.
EsrInit ==
    /\ \E t \in Tables :
            Format(t) = "esr" /\ Generates(t, Mod) /\ port_regs = PortRegs(t)
    /\ apb_req = Idle
    /\ ro_i \in RoInputs
    /\ reg_q = ResetRegs
    /\ out_en_q = [n \in Names(rw_regs) |-> FALSE]
    /\ s1_addr_valid_q = FALSE
    /\ s1_rdata_q \in Words
    /\ s1_wdata_q \in SUBSET (0 .. data_width - 1)

-----------------------------------------------------------------------------
\* What the master and the hardware drive in the next clock.
NextRequest ==
    IF s0_setup THEN apb_req' = [apb_req EXCEPT !.penable = TRUE]
                ELSE apb_req' \in SetupRequests \cup {Idle}

Inputs == NextRequest /\ ro_i' \in RoInputs /\ UNCHANGED port_regs

\* Mutant: the enable outputs are updated by accesses only.
HeldEnable == out_en_q

NoEnable == [n \in Names(rw_regs) |-> FALSE]

\* Mutant: the read data is the word of the last write.
RdataOfLastWrite ==
    IF \E r \in rw_regs : Addressed(r) THEN s1_wdata_q ELSE {}

\* The case over the address: the value of a register, zero where there is none.
s0_rdata ==
    IF \E r \in port_regs : Addressed(r)
    THEN LET r == CHOOSE r \in port_regs : Addressed(r)
         IN  IF Writeable(r) THEN reg_q[r.name] ELSE ro_i[r.name]
    ELSE {}

\* Setup: capture the decode, and the read data or the write data.
Setup ==
    /\ s0_setup
    /\ s1_addr_valid_q' = (\E r \in port_regs : Addressed(r))
    /\ s1_rdata_q' = IF apb_req.pwrite THEN s1_rdata_q ELSE s0_rdata
    /\ s1_wdata_q' = IF apb_req.pwrite THEN Truncated(apb_req.pwdata, data_width)
                                       ELSE s1_wdata_q
    /\ out_en_q' = NoEnable
    /\ UNCHANGED reg_q
    /\ Inputs

\* Mutant: the enable output does not look at the address.
PulseAnywhere(r) == s1_wdata_q # {}

\* Access: the register takes the captured data if this is a write; the enable
\* output looks at the captured data and not at the direction.
WriteEnabled(r) == apb_req.pwrite /\ Addressed(r)
PulseEnabled(r) == s1_wdata_q # {} /\ Addressed(r)

Access ==
    /\ s1_access
    /\ reg_q' = [n \in Names(rw_regs) |->
                    LET r == CHOOSE r \in rw_regs : r.name = n
                    IN  IF WriteEnabled(r) THEN Truncated(s1_wdata_q, PortWidth(r)) ELSE reg_q[n]]
    /\ out_en_q' = [n \in Names(rw_regs) |-> \E r \in rw_regs : r.name = n /\ PulseEnabled(r)]
    /\ UNCHANGED rsp_vars
    /\ Inputs

NoTransfer ==
    /\ ~apb_req.psel
    /\ out_en_q' = NoEnable
    /\ UNCHANGED <<reg_q, rsp_vars>>
    /\ Inputs

\* The reset is asynchronous, and resets the master with the block.
ResetBlock ==
    /\ s1_addr_valid_q' = FALSE
    /\ reg_q' = ResetRegs
    /\ out_en_q' = NoEnable
    /\ apb_req' = Idle
    /\ UNCHANGED <<port_regs, ro_i, s1_rdata_q, s1_wdata_q>>

Clock == Setup \/ Access \/ NoTransfer

EsrNext == Clock \/ ResetBlock

EsrSpec == EsrInit /\ [][EsrNext]_esr_vars

-----------------------------------------------------------------------------
(* Correctness.                                                            *)

\* A read answers with what the register holds during its access clock, also
\* when the clock before its setup was the access of a write to the register,
\* and the error flag says exactly that no register has the address: nothing
\* captured for an earlier transfer, or before a reset, is ever answered.
AnswersAreCurrent ==
    s1_access =>
        /\ s1_addr_valid_q <=> \E r \in port_regs : Addressed(r)
        /\ \A r \in rw_regs : Addressed(r) /\ ~apb_req.pwrite => s1_rdata_q = reg_q[r.name]

\* A write of a word that is not zero on the bits of the block changes that
\* register alone, and is announced: the enable output rises together with the
\* new value, so a consumer that samples the value under it sees what was written.
WritesAnnounced ==
    [][Clock /\ s1_access /\ apb_req.pwrite =>
          \A r \in rw_regs :
              IF Addressed(r)
              THEN /\ reg_q'[r.name] = Truncated(apb_req.pwdata, PortWidth(r))
                   /\ Truncated(apb_req.pwdata, data_width) # {} => out_en_q'[r.name]
              ELSE reg_q'[r.name] = reg_q[r.name] /\ ~out_en_q'[r.name]]_esr_vars

\* An enable output is high for one clock at a time, however closely transfers
\* to its register follow each other: a consumer that counts clocks counts
\* transfers, never one transfer twice.
PulseLastsOneClock ==
    [][\A r \in rw_regs : out_en_q[r.name] => ~out_en_q'[r.name]]_esr_vars

\* "Write enable pulses (_en_o) are asserted for one cycle after a write." (the
\* header the generator emits): no enable output rises but after a write.
PulsesFollowWrites ==
    [][\A r \in rw_regs : out_en_q'[r.name] => s1_access /\ apb_req.pwrite]_esr_vars

=============================================================================
