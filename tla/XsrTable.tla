------------------------------ MODULE XsrTable ------------------------------
(***************************************************************************)
(* The register tables (esr.csv and csr.csv) as gen_esr.py reads them: the *)
(* format found from the header, the rows kept, and the register made of   *)
(* each. A row is a record of its non-missing cells; cells are strings and *)
(* are compared in upper case. Hex and Number are the cells that Python's  *)
(* int() converts, with their values: every other cell raises ValueError.  *)
(***************************************************************************)
EXTENDS Naturals, Sequences

CONSTANTS Tables,       \* the register tables
          Hex,          \* cell of an address -> its value
          Number,       \* cell of a width -> its value
          BusWidth      \* 64 in the sources: a register whose width is not given

ASSUME XsrTableAssumption ==
    /\ "" \notin DOMAIN Hex
    /\ \A c \in DOMAIN Number : Number[c] \in Nat
    /\ BusWidth \in Nat \ {0}

\* A cell of a row, or the default when the column is missing or the cell empty.
Cell(row, column, default) ==
    IF column \in DOMAIN row /\ row[column] # "" THEN row[column] ELSE default

Yes(row, column) == Cell(row, column, "") = "YES"

\* "error" stands for the exit of the program on a header it does not know.
Format(table) ==
    CASE table.header = "Mod"     -> "esr"
      [] table.header = "Address" -> "csr"
      [] OTHER                    -> "error"

\* The rows that are registers: section titles, rows without a name or with an
\* address that is no number, rows of other modules and rows marked as not
\* implemented are skipped. An empty "implemented" cell means YES.
Kept(row, fmt, filter) ==
    /\ Cell(row, "Address", "") \in DOMAIN Hex
    /\ Cell(row, "Name", "") # ""
    /\ fmt = "esr" /\ filter # "" => Cell(row, "Mod", "") = filter
    /\ Cell(row, "implemented", "YES") # "NO"

Register(row, fmt) ==
    [address  |-> Hex[row["Address"]],
     name     |-> row["Name"],
     access   |-> Cell(row, "Access", "RW"),
     type     |-> Cell(row, "Type", ""),
     width    |-> Cell(row, "width", ""),
     rdata    |-> Cell(row, "rdata", ""),
     shadow   |-> Cell(row, "shadow", ""),
     resetVal |-> Cell(row, "resetVal", ""),
     reset    |-> Cell(row, "reset", "NON-DEBUG"),
     latch    |-> Yes(row, "latch"),
     port     |-> Yes(row, "connect_to_port"),
     shared   |-> fmt = "csr" /\ Yes(row, "shared"),
     aon      |-> Yes(row, "aon"),
     trap_if  |-> Cell(row, "trap_if", ""),
     ifdef    |-> Cell(row, "ifdef", "")]

ParseCsv(table, filter) ==
    LET fmt  == Format(table)
        kept == SelectSeq(table.rows, LAMBDA row : Kept(row, fmt, filter))
    IN  [i \in DOMAIN kept |-> Register(kept[i], fmt)]

\* The program stops with an error when the header is unknown or no row is left.
Generates(table, filter) ==
    Format(table) # "error" /\ ParseCsv(table, filter) # <<>>

\* An address no register has.
Unmapped == CHOOSE a \in 0 .. 100 : \A c \in DOMAIN Hex : Hex[c] # a

\* The questions the generators ask of a register.
Writeable(r) == r.access = "RW"
IsManual(r)  == r.type = "MANUAL"
IsTyped(r)   == r.type # "" /\ ~IsManual(r)
IsHwired(r)  == r.access \in {"RW-HWIRED", "RO-HWIRED"}
IsRo(r)      == r.access \in {"RO", "RO-HWIRED"}
PortWidth(r) == IF r.width \in DOMAIN Number THEN Number[r.width] ELSE BusWidth
=============================================================================
