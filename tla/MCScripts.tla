----------------------------- MODULE MCScripts -----------------------------
(* The scripts that read and write files, one flow of them in a behaviour:    *)
(* the others have not been run yet. The ten ROM modules at their real widths, *)
(* with the ranges of the real macros; two trees whose tables differ, one with *)
(* a bad table and one whose macros cannot be resolved. A design of a single  *)
(* module, one with three levels, and one for the other technology.           *)
EXTENDS TransRom, EmbedPage, YosysReport

VARIABLE which
all_vars == <<which, rom_vars, embed_vars, report_vars>>

Init == /\ RomInit /\ EmbedInit /\ ReportInit
        /\ which \in {"rom", "page", "report"}
        /\ which # "rom" => ~manifest.whole
        /\ which # "page" => checked = [m \in Metrics |-> 0]
        /\ which # "report" => design = "flat"

Next == \/ which = "rom" /\ RomNext /\ UNCHANGED <<which, embed_vars, report_vars>>
        \/ which = "page" /\ EmbedNext /\ UNCHANGED <<which, rom_vars, report_vars>>
        \/ which = "report" /\ ReportNext /\ UNCHANGED <<which, rom_vars, embed_vars>>

Spec == Init /\ [][Next]_all_vars

-----------------------------------------------------------------------------

Spec_(family, part, raw_width) ==
    [name |-> <<family, part>>, family |-> family, part |-> part, raw_width |-> raw_width]

AllSpecs == <<Spec_("RCP", "c0", 25), Spec_("RCP", "c1c2", 26),
              Spec_("RSQRT", "c0", 25), Spec_("RSQRT", "c1c2", 24),
              Spec_("LOG", "c0", 26), Spec_("LOG", "c1c2", 26),
              Spec_("EXP", "c0", 26), Spec_("EXP", "c1c2", 29),
              Spec_("SIN", "c0", 27), Spec_("SIN", "c1c2", 35)>>

Number_(n) == [kind |-> "sum", macros |-> {}, plus |-> n]
Range_(msb, lsb) == [kind |-> "range", msb |-> msb, lsb |-> lsb]
Define(family, quantity, expr) == [name |-> <<family, quantity>>, expr |-> expr]

\* The address size of one function is given by that of another.
GoodDefines ==
    <<Define("EXP", "ADDR_SIZE", [kind |-> "sum", macros |-> {<<"RCP", "ADDR_SIZE">>}, plus |-> 0]),
      Define("RCP", "ADDR_SIZE", Number_(7)), Define("RCP", "ADDR_SIZE", Number_(6)),
      Define("RSQRT", "ADDR_SIZE", Number_(8)), Define("LOG", "ADDR_SIZE", Number_(6)),
      Define("SIN", "ADDR_SIZE", Number_(6)),
      Define("RCP", "C2_RANGE", Range_(25, 16)), Define("RCP", "C1_RANGE", Range_(15, 0)),
      Define("RSQRT", "C2_RANGE", Range_(23, 15)), Define("RSQRT", "C1_RANGE", Range_(14, 0)),
      Define("LOG", "C2_RANGE", Range_(25, 16)), Define("LOG", "C1_RANGE", Range_(15, 0)),
      Define("EXP", "C2_RANGE", Range_(28, 18)), Define("EXP", "C1_RANGE", Range_(17, 0)),
      Define("SIN", "C2_RANGE", Range_(34, 20)), Define("SIN", "C1_RANGE", Range_(19, 0))>>

\* A macro of itself, and one that is no number.
BadDefines ==
    GoodDefines \o <<Define("LOG", "ADDR_SIZE", [kind |-> "sum", macros |-> {<<"LOG", "ADDR_SIZE">>},
                                                plus |-> 1]),
                     Define("SIN", "C1_RANGE", [kind |-> "other"])>>

\* A table: a word for the addresses of every band, and a default.
Item(label, addr, width, value) == [label |-> label, addr |-> addr, width |-> width, value |-> value]
WordAt(width, addr, salt) ==
    {0, width - 1} \cup {(b * (addr + salt)) % width : b \in 1 .. 5}
Table(width, salt) ==
    [width |-> width,
     items |-> <<Item("default", 0, width, {salt})>>
                   \o [i \in 1 .. 7 |-> LET addr == <<0, 2, 3, 9, 17, 33, 63>>[i]
                                        IN  Item("addr", addr, width, WordAt(width, addr, salt))]]

Tables(salt) ==
    [m \in Modules |-> Table(SpecOf(m).raw_width, salt)]

\* A table of which the last item has another width, and one without a default.
BadTables ==
    [Tables(3) EXCEPT ![<<"SIN", "c1c2">>].items[8].width = 36,
                      ![<<"LOG", "c0">>].items[1].label = "addr"]

AllTrees ==
    [t \in {"a", "b", "badtable", "baddefine"} |->
        [defines |-> IF t = "baddefine" THEN BadDefines ELSE GoodDefines,
         tables  |-> CASE t = "b" -> Tables(2) [] t = "badtable" -> BadTables [] OTHER -> Tables(1)]]

SomeSelections == {<<<<"SIN", "c0">>, <<"SIN", "c1c2">>>>, <<<<"LOG", "c0">>>>}
SomeOutputs == {Kinds, <<"packed.hex">>}

Cell(tech, kind) == [tech |-> tech, kind |-> kind]
AllCells ==
    [c \in {"SB_LUT4", "SB_DFF", "SB_DFFE", "SB_CARRY", "LUT4", "LUT6", "FDRE", "CARRY4",
            "RAMB36E2", "$scopeinfo", "$print"} |->
        CASE c = "SB_LUT4" -> Cell("ice40", "lut") [] c \in {"SB_DFF", "SB_DFFE"} -> Cell("ice40", "ff")
          [] c = "SB_CARRY" -> Cell("ice40", "carry")
          [] c \in {"LUT4", "LUT6"} -> Cell("xilinx", "lut") [] c = "FDRE" -> Cell("xilinx", "ff")
          [] c = "CARRY4" -> Cell("xilinx", "carry") [] c = "RAMB36E2" -> Cell("xilinx", "bram36")
          [] c = "$scopeinfo" -> Cell("yosys", "$scopeinfo") [] OTHER -> Cell("yosys", "$")]

\* f with the rest of the domain at 0.
Over(domain, f) == [x \in domain |-> IF x \in DOMAIN f THEN f[x] ELSE 0]
Module(cells, subs) == [cells |-> Over(DOMAIN AllCells, cells),
                        subs |-> Over({"top", "bank", "fifo"}, subs)]
Design(f) == [modules |-> SelectSeq(<<"top", "bank", "fifo">>, LAMBDA m : m \in DOMAIN f),
              cells |-> [m \in DOMAIN f |-> f[m].cells], subs |-> [m \in DOMAIN f |-> f[m].subs]]

Nothing == [c \in {} |-> 0]
SomeDesigns ==
    [flat |-> Design([top |-> Module([SB_LUT4 |-> 3, SB_DFF |-> 1, SB_DFFE |-> 2], Nothing)]),
     deep |-> Design([top  |-> Module([SB_LUT4 |-> 1], [bank |-> 2, fifo |-> 1]),
                      bank |-> Module([SB_LUT4 |-> 2, SB_CARRY |-> 1] @@ ("$scopeinfo" :> 4),
                                      [fifo |-> 3]),
                      fifo |-> Module([SB_DFF |-> 5] @@ ("$print" :> 1), Nothing)]),
     xilinx |-> Design([top  |-> Module(Nothing, [bank |-> 2]),
                        bank |-> Module([LUT4 |-> 1, LUT6 |-> 2, FDRE |-> 3, RAMB36E2 |-> 1],
                                        Nothing)])]
=============================================================================
