------------------------------- MODULE MCXsr --------------------------------
(* Both targets of gen_esr.py, one of them in a behaviour: the other has an   *)
(* empty table and stands still. Tables of csr.csv: a status register and its *)
(* supervisor shadow beside constants, and latched, shared, trapped, replayed *)
(* and unreset registers. Tables of esr.csv: registers of every kind beside   *)
(* rows that are no registers of the block; a block narrower than the bus.    *)
EXTENDS EsrBlock, CsrFile, TLC

HexCells == [c \in {"0x100", "0x300", "0x180", "0x140", "0xF11", "0x7FF", "0x344"} |->
                CASE c = "0x100" -> 1 [] c = "0x300" -> 3 [] c = "0x180" -> 4
                  [] c = "0x140" -> 5 [] c = "0xF11" -> 9 [] c = "0x7FF" -> 8 [] c = "0x344" -> 7]
NumberCells == [c \in {"1", "2"} |-> IF c = "1" THEN 1 ELSE 2]
Constants_ == [c \in {"'0", "64'h0", "RESET", "1'b1"} |->
                CASE c \in {"'0", "64'h0"} -> {} [] c = "RESET" -> {1} [] c = "1'b1" -> {0}]

Name(base, tail) == [base |-> base, tail |-> tail]

TypeCells ==
    [t \in {"csr_mstatus_t", "csr_sstatus_t", "csr_satp_t", "csr_mip_t", "empty_t"} |->
        CASE t = "csr_mstatus_t" ->
                <<<<Name("WPRI", ""), Name("XS", ""), Name("MIE", ""), Name("SIE", "")>>,
                  <<"1", "", "1", "1">>, <<"NO", "YES", "NO", "NO">>, <<"", "1'b1", "", "">>>>
          [] t = "csr_sstatus_t" ->
                <<<<Name("XS", ""), Name("SIE", ""), Name("WPRI", ""), Name("UIE", "-ZERO")>>,
                  <<"1", "1", "x", "1">>>>
          [] t = "csr_satp_t" -> <<<<Name("mode", ""), Name("ZERO", ""), Name("ppn", ""), Name("", "")>>,
                                   <<"1", "1", "1">>>>
          [] t = "csr_mip_t" -> <<<<Name("WIRI", ""), Name("SEIP", ""), Name("UEIP", " - ZERO")>>,
                                  <<"1", "1", "1">>>>
          [] t = "empty_t" -> <<<<Name("fields", "")>>>>]

Row(address, name) == [Address |-> address, Name |-> name]

Status ==
    [header |-> "Address",
     rows |-> <<Row("0x100", "sstatus") @@ [Type |-> "csr_sstatus_t", shadow |-> "mstatus", aon |-> "YES"],
                Row("0x300", "mstatus") @@ [Type |-> "csr_mstatus_t", resetVal |-> "RESET", aon |-> "YES"],
                Row("0xF11", "mvendorid") @@ [Access |-> "RO-HWIRED", rdata |-> "64'h0"],
                Row("0x100", "validation") @@ [ifdef |-> "ET_SIMULATION", latch |-> "YES"],
                Row("", "Section title")>>]

Translation ==
    [header |-> "Address",
     rows |-> <<Row("0x180", "satp") @@ [Type |-> "csr_satp_t", shared |-> "YES", latch |-> "YES",
                                         trap_if |-> "mem_trap_virtual_memory"]>>]

Latched ==
    [header |-> "Address",
     rows |-> <<Row("0x140", "sscratch") @@ [width |-> "1", latch |-> "YES"],
                Row("0x7FF", "tensor") @@ [width |-> "1", shared |-> "YES", latch |-> "YES",
                                           rdata |-> "64'h0", resetVal |-> "'0", reset |-> "GLOBAL"]>>]

Pending ==
    [header |-> "Address",
     rows |-> <<Row("0x344", "mip") @@ [Type |-> "csr_mip_t", resetVal |-> "'0", aon |-> "YES"]>>]
OnlyPending == {Pending}

CsrTables == {Status, Translation, Latched}

\* The tables are of the kind the proofs are about.
ASSUME KnownRules ==
    \A t \in CsrTables \cup OnlyPending :
        LET regs == Present(ParseCsv(t, ""))
        IN  Format(t) = "csr" /\ TableRules(regs) /\ ShadowsMerge(regs)

SatpLegal == [n \in {"satp"} |-> SUBSET {0, 1, 2} \ {{2}}]
TwoOperands == {{0, 2}, {1}}

-----------------------------------------------------------------------------
ResetCells == [c \in {"'0", "'1"} |-> IF c = "'0" THEN {} ELSE {0, 1}]

EsrRow(mod, address, name, access, width, resetVal, port) ==
    [Mod |-> mod, Address |-> address, Name |-> name, Access |-> access, width |-> width,
     resetVal |-> resetVal, connect_to_port |-> port, implemented |-> ""]

Mixed ==
    [header |-> "Mod",
     rows |-> <<[Mod |-> "RBOX ESRs"],
                EsrRow("rbox", "0x100", "config", "RW", "2", "'1", "YES"),
                EsrRow("neigh", "0x300", "other", "RW", "1", "'0", "YES"),
                EsrRow("rbox", "...", "gap", "RW", "1", "'0", "YES"),
                EsrRow("rbox", "0x300", "start", "RW", "1", "'0", "YES"),
                [EsrRow("rbox", "0x300", "gone", "RW", "1", "'0", "YES") EXCEPT !.implemented = "NO"],
                EsrRow("rbox", "0x180", "status", "RO", "1", "", "YES")>>]

Narrow ==
    [header |-> "Mod",
     rows |-> <<EsrRow("rbox", "0x100", "a", "RW", "1", "'0", "YES"),
                EsrRow("rbox", "0x300", "b", "RW", "1", "'1", "YES"),
                EsrRow("rbox", "0x180", "hidden", "RW", "2", "'0", "NO")>>]

\* Nothing is generated for these: an unknown header, and no row of the module.
Rejected == {[header |-> "Name", rows |-> Narrow.rows],
             [header |-> "Mod", rows |-> <<EsrRow("neigh", "0x100", "a", "RW", "1", "'0", "YES")>>]}

EsrTables == {Mixed, Narrow} \cup Rejected
AllTables == EsrTables \cup CsrTables

-----------------------------------------------------------------------------
VARIABLE which
all_vars == <<which, esr_vars, csr_vars>>

NoEsr == /\ port_regs = {} /\ apb_req = Idle
         /\ ro_i = [n \in {} |-> {}] /\ reg_q = [n \in {} |-> {}] /\ out_en_q = [n \in {} |-> FALSE]
         /\ s1_addr_valid_q = FALSE /\ s1_rdata_q = {} /\ s1_wdata_q = {}
NoCsr == /\ csr_regs = <<>> /\ resets = "none" /\ wb = NoAccess
         /\ reg = [c \in {} |-> {}] /\ reg_en = {} /\ caught = {} /\ lost = {}

Init == \/ which = "esr" /\ EsrInit /\ NoCsr
        \/ which = "csr" /\ CsrInit /\ NoEsr

InEsr == which = "esr" /\ UNCHANGED <<which, csr_vars>>
InCsr == which = "csr" /\ UNCHANGED <<which, esr_vars>>

Next == \/ Setup /\ InEsr
        \/ Access /\ InEsr
        \/ NoTransfer /\ InEsr
        \/ ResetBlock /\ InEsr
        \/ Issue /\ InCsr
        \/ NoIssue /\ InCsr

Spec == Init /\ [][Next]_all_vars
=============================================================================
