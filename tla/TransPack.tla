------------------------------ MODULE TransPack ------------------------------
(***************************************************************************)
(* The arithmetic of the transcendental ROM scripts: how                   *)
(* extract_trans_rom.py reads the macros and the case tables of the        *)
(* original tree and packs a raw word into coefficients, and how           *)
(* gen_trans_rom_sv.py takes the packed word apart again. A number that    *)
(* stands for a word is the set of its one bits, at its real width.        *)
(***************************************************************************)
EXTENDS Naturals, SequencesExt

\* bits(): the field of a word between two positions, moved down.
Bits(word, msb, lsb) == {b - lsb : b \in word \cap (lsb .. msb)}

Above(word, n) == {b + n : b \in word}

\* concat(): parts <<word, width>>, the most significant first, each cut to its
\* width and the whole cut to the width given.
Concat(parts, width) ==
    FoldLeft(LAMBDA word, part : Above(word, part[2]) \cup (part[1] \cap (0 .. part[2] - 1)),
             {}, parts) \cap (0 .. width - 1)

Zeros(n) == <<{}, n>>
Ones(n)  == <<0 .. n - 1, n>>
One      == Ones(1)

-----------------------------------------------------------------------------
(* parse_numeric_defines. A macro is a pair <<family, quantity>>; its        *)
(* expression is a range, a sum of macros and a number, or something else.   *)

Families == {"RCP", "RSQRT", "LOG", "EXP", "SIN"}
WantedDefines == Families \X {"ADDR_SIZE", "C2_RANGE", "C1_RANGE"}

\* The last definition of a macro counts.
ExprOf(defines, macro) == defines[SelectLastInSeq(defines, LAMBDA d : d.name = macro)].expr

Evaluates(expr, known) ==
    \/ expr.kind = "range"
    \/ expr.kind = "sum" /\ expr.macros \subseteq DOMAIN known

EvalExpr(expr, known) ==
    IF expr.kind = "range" THEN expr.msb * 256 + expr.lsb
                           ELSE expr.plus + SumFunctionOnSet(known, expr.macros)

\* A round resolves every macro whose expression uses macros known before; the
\* rounds end when one resolves nothing, after as many as there are macros.
ParseDefines(defines) ==
    LET named == {m \in WantedDefines : \E i \in DOMAIN defines : defines[i].name = m}
        known[n \in 0 .. Cardinality(WantedDefines)] ==
            IF n = 0 THEN [m \in {} |-> 0]
            ELSE [m \in {w \in named : Evaluates(ExprOf(defines, w), known[n - 1])} |->
                    EvalExpr(ExprOf(defines, m), known[n - 1])]
    IN  known[Cardinality(WantedDefines)]

DefinesParse(defines) == DOMAIN ParseDefines(defines) = WantedDefines

UnpackRange(encoded) == [msb |-> encoded \div 256, lsb |-> encoded % 256]

-----------------------------------------------------------------------------
(* load_module_words. A table has the width it declares and its case items;  *)
(* the digits x, z and ? of a literal are read as zeros.                     *)

TableLoads(table, addr_count, raw_width) ==
    /\ table.width = raw_width
    /\ \A i \in DOMAIN table.items : table.items[i].width = raw_width
    /\ \A i \in DOMAIN table.items :
            table.items[i].label # "default" => table.items[i].addr < addr_count
    /\ \E i \in DOMAIN table.items : table.items[i].label = "default"

\* The last item of a label counts; addresses without an item have the default.
ModuleWords(table, addr_count) ==
    [addr \in 0 .. addr_count - 1 |->
        LET item == SelectLastInSeq(table.items,
                                    LAMBDA i : i.label # "default" /\ i.addr = addr)
            default == SelectLastInSeq(table.items, LAMBDA i : i.label = "default")
        IN  table.items[IF item # 0 THEN item ELSE default].value]

-----------------------------------------------------------------------------
(* The packers: where a raw word goes in the coefficients c0 and c2, and the *)
(* mask that goes with it.                                                   *)

Coefficients(mask, c2, c0) ==
    [exc |-> {}, mask |-> mask, taylor |-> {}, c2 |-> c2, c0 |-> c0]

\* The part of a raw word that a range macro names, with its width.
RawField(consts, family, quantity, raw) ==
    LET range == UnpackRange(consts[<<family, quantity>>])
    IN  <<Bits(raw, range.msb, range.lsb), range.msb - range.lsb + 1>>

C2Field(consts, family, raw) == RawField(consts, family, "C2_RANGE", raw)
C1Field(consts, family, raw) == RawField(consts, family, "C1_RANGE", raw)

HasBit(index, weight) == (index \div weight) % 2 = 1

pack_rcp_c0(raw) == Coefficients({}, {}, Concat(<<Zeros(6), One, <<raw, 25>>>>, 32))

pack_rcp_c1c2(consts, raw) ==
    Coefficients({}, Concat(<<C2Field(consts, "RCP", raw), Zeros(7)>>, 17),
                     Concat(<<Ones(3), C1Field(consts, "RCP", raw), Zeros(13)>>, 32))

pack_rsqrt_c0(index, raw) ==
    Coefficients({}, {}, IF HasBit(index, 128)
                         THEN Concat(<<Zeros(5), One, <<raw, 25>>, Zeros(1)>>, 32)
                         ELSE Concat(<<Zeros(5), One, Zeros(1), <<raw, 25>>>>, 32))

pack_rsqrt_c1c2(consts, raw) ==
    Coefficients({}, Concat(<<C2Field(consts, "RSQRT", raw), Zeros(8)>>, 17),
                     Concat(<<Ones(3), C1Field(consts, "RSQRT", raw), Zeros(14)>>, 32))

pack_log_c0(raw) == Coefficients({0}, {}, Concat(<<Zeros(5), <<raw, 26>>, Zeros(1)>>, 32))

pack_log_c1c2(consts, raw) ==
    Coefficients({0}, Concat(<<C2Field(consts, "LOG", raw), Zeros(7)>>, 17),
                      Concat(<<Ones(2), C1Field(consts, "LOG", raw), Zeros(14)>>, 32))

pack_exp_c0(raw) == Coefficients({0, 1}, {}, Concat(<<Zeros(3), <<raw, 26>>, Zeros(3)>>, 32))

\* The fields are wider than 32 bits together: only zeros are cut.
pack_exp_c1c2(consts, raw) ==
    Coefficients({0, 1}, Concat(<<C2Field(consts, "EXP", raw), Zeros(6)>>, 17),
                         Concat(<<Zeros(2), C1Field(consts, "EXP", raw), Zeros(14)>>, 32))

\* The bands of the sine table, by the highest index bit that is looked at: the
\* number of ones in the mask; 0 for the indices that are in none.
SinBand(index) ==
    IF HasBit(index, 32) THEN 2
    ELSE IF HasBit(index, 16) THEN 3
    ELSE IF HasBit(index, 8) THEN 4
    ELSE IF HasBit(index, 2) THEN 6
    ELSE IF index = 0 THEN 7 ELSE 0

pack_sin_c0(index, raw) ==
    LET band == SinBand(index)
    IN  IF band = 0 THEN Coefficients({}, {}, {})
        ELSE Coefficients(0 .. band - 1, {},
                          Concat(<<Zeros(7 - band), <<raw, 27>>, Zeros(band - 2)>>, 32))

\* How far the second order term is moved to the right in each band.
SinC2Lead(band) == CASE band = 2 -> 0 [] band \in {3, 6} -> 1 [] band \in {4, 7} -> 2

pack_sin_c1c2(consts, index, raw) ==
    LET band == SinBand(index)
        lead == SinC2Lead(band)
        c1   == <<C1Field(consts, "SIN", raw)[1], 20>>
        c2   == <<C2Field(consts, "SIN", raw)[1], 15>>
    IN  IF band = 0 THEN Coefficients({}, {}, {})
        ELSE Coefficients(0 .. band - 1,
                          Concat(<<Zeros(lead), c2, Zeros(2 - lead)>>, 17),
                          IF band <= 4 THEN Concat(<<Zeros(4), c1, Zeros(8)>>, 32)
                                       ELSE Concat(<<Zeros(1), c1, Zeros(11)>>, 32))

\* The packer of a module, which is named by its family and its part.
Packer(spec, consts, index, raw) ==
    CASE spec.part = "c0" /\ spec.family = "RCP"     -> pack_rcp_c0(raw)
      [] spec.part = "c0" /\ spec.family = "RSQRT"   -> pack_rsqrt_c0(index, raw)
      [] spec.part = "c0" /\ spec.family = "LOG"     -> pack_log_c0(raw)
      [] spec.part = "c0" /\ spec.family = "EXP"     -> pack_exp_c0(raw)
      [] spec.part = "c0" /\ spec.family = "SIN"     -> pack_sin_c0(index, raw)
      [] spec.part = "c1c2" /\ spec.family = "RCP"   -> pack_rcp_c1c2(consts, raw)
      [] spec.part = "c1c2" /\ spec.family = "RSQRT" -> pack_rsqrt_c1c2(consts, raw)
      [] spec.part = "c1c2" /\ spec.family = "LOG"   -> pack_log_c1c2(consts, raw)
      [] spec.part = "c1c2" /\ spec.family = "EXP"   -> pack_exp_c1c2(consts, raw)
      [] spec.part = "c1c2" /\ spec.family = "SIN"   -> pack_sin_c1c2(consts, index, raw)

-----------------------------------------------------------------------------
(* The packed word {exc, mask[6:0], taylor, c2[16:0], c0[31:0]}: packed by   *)
(* one script, taken apart by the modules the other one emits.               *)

\* PackedCoefficients.pack: nothing is cut, a field too wide runs into the next.
Pack(c) ==
    c.c0 \cup Above(c.c2, 32) \cup Above(c.taylor, 49) \cup Above(c.mask, 50) \cup Above(c.exc, 57)

\* Mutant: the slice of the mask begins one bit too low.
DataOfLowMask(packed) ==
    [exc    |-> Bits(packed, 57, 57),
     mask   |-> Bits(packed, 55, 49),
     taylor |-> Bits(packed, 49, 49),
     c2     |-> Bits(packed, 48, 32),
     c0     |-> Bits(packed, 31, 0)]

\* The output of an emitted module, of the word its case selects.
DataOf(packed) ==
    [exc    |-> Bits(packed, 57, 57),
     mask   |-> Bits(packed, 56, 50),
     taylor |-> Bits(packed, 49, 49),
     c2     |-> Bits(packed, 48, 32),
     c0     |-> Bits(packed, 31, 0)]

=============================================================================
