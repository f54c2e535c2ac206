------------------------------ MODULE XsrTypes ------------------------------
(***************************************************************************)
(* The field types of csr_types/ as gen_esr.py reads them, the packed      *)
(* struct it makes of each, and the conversion functions it writes for     *)
(* them. A word is the set of its one bits, a type is a sequence of        *)
(* fields, most significant first. A field name of a type file is kept as  *)
(* the word it begins with and the rest of the cell, which is all that the *)
(* tests on names look at: "UPIE-ZERO" is [base |-> "UPIE", tail |-> "-ZERO"]. *)
(***************************************************************************)
EXTENDS XsrTable

CONSTANTS TypeFiles,    \* type name -> the rows of its file, without their first column
          Literal       \* cell of a SystemVerilog constant -> the word it denotes

-----------------------------------------------------------------------------
(* parse_type_csv and load_all_types                                       *)

CellAt(rows, k, i) == IF k <= Len(rows) /\ i <= Len(rows[k]) THEN rows[k][i] ELSE ""

\* The test that makes a field a hole of the struct: by name, and nothing else.
IsReservedName(name) ==
    name.base \in {"WPRI", "WIRI", "ZERO", "reserved"} \/ name.tail = "-ZERO"

\* A width that is no number, and one that is not given, is 1.
FieldOf(rows, i) ==
    [name     |-> rows[1][i],
     width    |-> IF CellAt(rows, 2, i) \in DOMAIN Number THEN Number[CellAt(rows, 2, i)] ELSE 1,
     reserved |-> IsReservedName(rows[1][i]),
     ro       |-> CellAt(rows, 3, i) = "YES",
     ro_value |-> CellAt(rows, 4, i)]

ParseType(rows) ==
    SelectSeq([i \in 1 .. Len(rows[1]) |-> FieldOf(rows, i)], LAMBDA f : f.name.base # "")

\* A file without a row of widths is no type.
Types == [t \in {n \in DOMAIN TypeFiles : Len(TypeFiles[n]) >= 2} |-> ParseType(TypeFiles[t])]

\* A type is a sequence of fields with widths, which the parser makes sure of: the
\* widths it reads are numbers, and the fields it keeps are in a row.
ASSUME XsrTypesAssumption ==
    \A t \in DOMAIN Types :
        /\ Len(Types[t]) \in Nat /\ DOMAIN Types[t] = 1 .. Len(Types[t])
        /\ \A i \in DOMAIN Types[t] : Types[t][i].width \in Nat

HasReserved(fields) == \E i \in DOMAIN fields : fields[i].reserved

-----------------------------------------------------------------------------
(* The packed struct: Lsb[i] is the position of field i, Lsb[0] the size.  *)

Lsb(fields) ==
    LET lsb[i \in 0 .. Len(fields)] ==
            IF i = Len(fields) THEN 0 ELSE lsb[i + 1] + fields[i + 1].width
    IN  lsb

Size(fields) == Lsb(fields)[0]

BitsOf(fields, i) == Lsb(fields)[i] .. Lsb(fields)[i] + fields[i].width - 1

BitsWhere(fields, Test(_)) ==
    UNION {BitsOf(fields, i) : i \in {j \in DOMAIN fields : Test(fields[j])}}

IsReadOnly(f) == ~f.reserved /\ f.ro
IsPlain(f)    == ~f.reserved /\ ~f.ro
IsReserved(f) == f.reserved

\* What the read-only fields are written with: their constants, cut to the field,
\* and the value they had where the type gives none (the emitted 'x is overridden
\* by hand).
FixedBits(fields, old) ==
    UNION {IF fields[i].ro_value # ""
           THEN {Lsb(fields)[i] + b : b \in Literal[fields[i].ro_value] \cap (0 .. fields[i].width - 1)}
           ELSE old \cap BitsOf(fields, i) :
             i \in {j \in DOMAIN fields : IsReadOnly(fields[j])}}

\* write_TYPE
WriteType(fields, old, d) ==
    (d \cap BitsWhere(fields, IsPlain)) \cup FixedBits(fields, old)

\* write_TYPE_non_reserved
NonReserved(fields, d) == d \ BitsWhere(fields, IsReserved)

-----------------------------------------------------------------------------
(* A shadow and its destination have fields of the same name in common.    *)

Common(dest, shadow) ==
    {p \in (DOMAIN dest) \X (DOMAIN shadow) :
        ~shadow[p[2]].reserved /\ shadow[p[2]].name = dest[p[1]].name}

\* Field i of "to" takes what field j of "from" has in d.
Moved(to, i, from, j, d) ==
    {b \in BitsOf(to, i) :
        b - Lsb(to)[i] < from[j].width /\ Lsb(from)[j] + (b - Lsb(to)[i]) \in d}

\* read_DEST_as_SHADOW
ReadAs(dest, shadow, orig) ==
    UNION {Moved(shadow, p[2], dest, p[1], orig) : p \in Common(dest, shadow)}

\* Mutant: a field that is read-only in the destination is merged like any other.
WriteAsReadOnly(dest, shadow, orig, d) ==
    (orig \ UNION {BitsOf(dest, p[1]) : p \in Common(dest, shadow)})
        \cup UNION {Moved(dest, p[1], shadow, p[2], d) : p \in Common(dest, shadow)}

\* write_DEST_as_SHADOW: what the shadow has in common with its destination,
\* the fields that are read-only there excepted.
WriteAs(dest, shadow, orig, d) ==
    LET merged == {p \in Common(dest, shadow) : ~IsReadOnly(dest[p[1]])}
    IN  (orig \ UNION {BitsOf(dest, p[1]) : p \in merged})
            \cup UNION {Moved(dest, p[1], shadow, p[2], d) : p \in merged}

=============================================================================
