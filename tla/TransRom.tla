------------------------------ MODULE TransRom ------------------------------
(***************************************************************************)
(* The transcendental ROM flow: extract_trans_rom.py writes the images of  *)
(* the tables of an original tree, gen_trans_rom_sv.py makes modules of    *)
(* the packed images, gen_trans_rom_cosim.py makes a comparison of every   *)
(* module the manifest names. The scripts are run by hand, one at a time;  *)
(* a run may be killed, or the disk fill up, between any two of its steps  *)
(* and within a write. A file is the tree its text was made from, the      *)
(* lines that are there, and how many digits the last of them is short of: *)
(* its text is recovered when it is read.                                  *)
(***************************************************************************)
EXTENDS TransPack

CONSTANTS ModuleSpecs,  \* the modules, as [name, family, part, raw_width], in order
          Trees,        \* name of an original tree -> [defines, tables]
          Selections,   \* the sequences of modules an extraction may be asked for
          Outputs,      \* the lists of files it may be asked for, in the order of Kinds
          CutLines,     \* the lengths a file may be cut to
          CutDigits,    \* how many digits its last line may be short of then
          MaxRuns       \* bound: how many runs are started

VARIABLES job,          \* the script that runs, and what it has left to do
          files,        \* the images, per module and kind
          manifest,     \* the modules the manifest names, and whether it is whole
          sv,           \* the modules emitted
          cosims,       \* the modules with a comparison
          intact,       \* has every extraction run to its end, or to an error,
                        \* and been asked for all its files?
          runs          \* how many runs were started

rom_vars == <<job, files, manifest, sv, cosims, intact, runs>>

-----------------------------------------------------------------------------
(* Files.                                                                  *)

Modules == {ModuleSpecs[i].name : i \in DOMAIN ModuleSpecs}
SpecOf(m) == ModuleSpecs[SelectInSeq(ModuleSpecs, LAMBDA s : s.name = m)]

\* The files of a module, in the order they are written.
Kinds == <<"raw.hex", "raw.bin", "packed.hex", "packed.bin", "json">>
AllKinds == {Kinds[i] : i \in DOMAIN Kinds}

\* The digits a line can be short of: none, or some of the 15 of a packed word.
Missing == {0} \cup CutDigits

Absent == [tree |-> "none", lines |-> 0, missing |-> 0]

Consts(tree) == ParseDefines(Trees[tree].defines)
AddrWidth(tree, m) == Consts(tree)[<<SpecOf(m).family, "ADDR_SIZE">>]
Depth(tree, m) == 2^AddrWidth(tree, m)

ModuleLoads(tree, m) ==
    /\ m \in DOMAIN Trees[tree].tables
    /\ TableLoads(Trees[tree].tables[m], Depth(tree, m), SpecOf(m).raw_width)

\* The words of every table that loads, and their packed words.
RawWords ==
    [tree \in DOMAIN Trees |->
        [m \in {n \in Modules : DefinesParse(Trees[tree].defines) /\ ModuleLoads(tree, n)} |->
            ModuleWords(Trees[tree].tables[m], Depth(tree, m))]]

PackedWords ==
    [tree \in DOMAIN Trees |->
        [m \in DOMAIN RawWords[tree] |->
            [index \in DOMAIN RawWords[tree][m] |->
                Pack(Packer(SpecOf(m), Consts(tree), index, RawWords[tree][m][index]))]]]

Whole(tree, m) == [tree |-> tree, lines |-> Depth(tree, m), missing |-> 0]

\* The word a line of an image is read as, whatever number of digits it has: of a
\* last line that was cut, the digits that are there.
WordOf(image, m, index) ==
    LET word == PackedWords[image.tree][m][index]
    IN  IF image.missing # 0 /\ index = image.lines - 1
        THEN {b - 4 * image.missing : b \in {c \in word : c >= 4 * image.missing}}
        ELSE word

-----------------------------------------------------------------------------
(* What the constants are: the words of a module are as wide as its packer    *)
(* takes them to be, the second coefficient of a "c1c2" word above the first. *)

C0Bits == [RCP |-> 25, RSQRT |-> 25, LOG |-> 26, EXP |-> 26, SIN |-> 27]
C1Bits == [RCP |-> 16, RSQRT |-> 15, LOG |-> 16, EXP |-> 18, SIN |-> 20]
C2Bits == [RCP |-> 10, RSQRT |-> 9, LOG |-> 10, EXP |-> 11, SIN |-> 15]

\* A table is Verilog: a literal fits the width it is written with.
LegalTable(table) ==
    /\ table.items \in Seq([label : {"addr", "default"}, addr : Nat, width : Nat, value : SUBSET Nat])
    /\ \A i \in DOMAIN table.items : table.items[i].value \subseteq 0 .. table.items[i].width - 1

\* The macros of a tree, when they parse: tables of at most 256 words, and ranges
\* that split a word between its two coefficients.
LegalMacros(consts) ==
    \A family \in Families :
        /\ consts[<<family, "ADDR_SIZE">>] \in 1 .. 8
        /\ UnpackRange(consts[<<family, "C1_RANGE">>]) = [msb |-> C1Bits[family] - 1, lsb |-> 0]
        /\ UnpackRange(consts[<<family, "C2_RANGE">>])
              = [msb |-> C1Bits[family] + C2Bits[family] - 1, lsb |-> C1Bits[family]]

ASSUME ModuleSpecsAssumption ==
    /\ ModuleSpecs \in Seq(ToSet(ModuleSpecs))
    /\ \A spec \in ToSet(ModuleSpecs) :
          /\ spec.family \in Families
          /\ \/ spec.part = "c0" /\ spec.raw_width = C0Bits[spec.family]
             \/ spec.part = "c1c2" /\ spec.raw_width = C1Bits[spec.family] + C2Bits[spec.family]

ASSUME TreesAssumption ==
    /\ "none" \notin DOMAIN Trees
    /\ \A tree \in DOMAIN Trees :
          /\ \A m \in DOMAIN Trees[tree].tables : LegalTable(Trees[tree].tables[m])
          /\ DefinesParse(Trees[tree].defines) => LegalMacros(Consts(tree))

ASSUME ArgumentsAssumption ==
    /\ Selections \subseteq Seq(Modules)
    /\ Outputs \subseteq Seq(AllKinds) \ {<<>>}

ASSUME CutsAssumption == CutDigits \subseteq 1 .. 14

-----------------------------------------------------------------------------
NoJob == [script |-> "none", tree |-> "none", todo |-> <<>>, writing |-> <<>>,
          kinds |-> <<>>, named |-> <<>>, given |-> 0]

Image == {Absent} \cup [tree : DOMAIN Trees, lines : 0 .. 256, missing : Missing]

NoModule == [tree |-> "none", lines |-> 0, missing |-> 0, given |-> 0]

RomTypeOK ==
    /\ job.script \in {"none", "extract", "gen"}
    /\ job.tree \in DOMAIN Trees \cup {"none"}
    /\ job.todo \in Seq(Modules) /\ job.writing \in Seq(AllKinds)
    /\ files \in [Modules -> [AllKinds -> Image]]
    /\ manifest.modules \subseteq Modules /\ manifest.whole \in BOOLEAN
    /\ \A m \in Modules : [k \in DOMAIN sv[m] \ {"given"} |-> sv[m][k]] \in Image
    /\ cosims \subseteq Modules
    /\ intact \in BOOLEAN
    /\ runs \in 0 .. MaxRuns

\* The images are those that are checked in, or there are none.
RomInit ==
    /\ job = NoJob
    /\ \/ /\ files = [m \in Modules |-> [k \in AllKinds |-> Absent]]
          /\ manifest = [modules |-> {}, whole |-> FALSE]
       \/ \E tree \in DOMAIN Trees :
            /\ DOMAIN RawWords[tree] = Modules
            /\ files = [m \in Modules |-> [k \in AllKinds |-> Whole(tree, m)]]
            /\ manifest = [modules |-> Modules, whole |-> TRUE]
    /\ sv = [m \in Modules |-> NoModule]
    /\ cosims = {}
    /\ intact = TRUE
    /\ runs = 0

-----------------------------------------------------------------------------
(* extract_trans_rom.py                                                    *)

\* The macros are parsed before anything is written: an error ends the run.
StartExtract ==
    /\ job = NoJob
    /\ runs < MaxRuns /\ runs' = runs + 1
    /\ \E tree \in DOMAIN Trees, names \in Selections, kinds \in Outputs :
        /\ DefinesParse(Trees[tree].defines)
        /\ job' = [NoJob EXCEPT !.script = "extract", !.tree = tree, !.todo = names,
                                !.named = names, !.kinds = kinds]
        /\ intact' = (intact /\ ToSet(kinds) = AllKinds)
    /\ UNCHANGED <<files, manifest, sv, cosims>>

\* Mutant: the first file of a module is written as its table is read, before
\* all of the table is known to be good.
LoadModuleLate ==
    /\ job.script = "extract" /\ job.writing = <<>> /\ job.todo # <<>>
    /\ LET m == Head(job.todo)
       IN  /\ job' = IF ModuleLoads(job.tree, m) THEN [job EXCEPT !.writing = job.kinds] ELSE NoJob
           /\ files' = [files EXCEPT ![m][Head(job.kinds)] = Whole(job.tree, m)]
    /\ UNCHANGED <<manifest, sv, cosims, intact, runs>>

\* The table of a module is read and packed whole; a bad one ends the run.
LoadModule ==
    /\ job.script = "extract" /\ job.writing = <<>> /\ job.todo # <<>>
    /\ job' = IF ModuleLoads(job.tree, Head(job.todo))
              THEN [job EXCEPT !.writing = job.kinds]
              ELSE NoJob
    /\ UNCHANGED <<files, manifest, sv, cosims, intact, runs>>

WriteFile ==
    /\ job.writing # <<>>
    /\ LET m == Head(job.todo)
       IN  files' = [files EXCEPT ![m][Head(job.writing)] = Whole(job.tree, m)]
    /\ job' = [job EXCEPT !.writing = Tail(job.writing),
                          !.todo = IF Len(job.writing) = 1 THEN Tail(job.todo) ELSE job.todo]
    /\ UNCHANGED <<manifest, sv, cosims, intact, runs>>

\* The manifest comes last and names the modules of this run only.
FinishExtract ==
    /\ job.script = "extract" /\ job.todo = <<>>
    /\ manifest' = IF "json" \in ToSet(job.kinds)
                   THEN [modules |-> {job.named[i] : i \in DOMAIN job.named}, whole |-> TRUE]
                   ELSE manifest
    /\ job' = NoJob
    /\ UNCHANGED <<files, sv, cosims, intact, runs>>

-----------------------------------------------------------------------------
(* gen_trans_rom_sv.py                                                     *)

\* A directory gives all its packed images; an address width, here one that the
\* module has in some tree, can be given with a single one (0: it is not).
StartGen ==
    /\ job = NoJob
    /\ runs < MaxRuns /\ runs' = runs + 1
    /\ LET images == SelectSeq([i \in DOMAIN ModuleSpecs |-> ModuleSpecs[i].name],
                               LAMBDA m : files[m]["packed.hex"] # Absent)
       IN  /\ images # <<>>
           /\ \/ job' = [NoJob EXCEPT !.script = "gen", !.todo = images]
              \/ \E i \in DOMAIN images, tree \in DOMAIN Trees :
                    /\ DefinesParse(Trees[tree].defines)
                    /\ job' = [NoJob EXCEPT !.script = "gen", !.todo = <<images[i]>>,
                                            !.given = AddrWidth(tree, images[i])]
    /\ UNCHANGED <<files, manifest, sv, cosims, intact>>

PowersOfTwo == {2^n : n \in 0 .. 8}

\* Mutant: the address width that is given is not compared with the image.
ImageLoadsAny(image, m, given) == image.lines \in PowersOfTwo

\* load_hex_image: an image is refused when it is empty, when its length is not
\* a power of two or not that of the address width given, and when a word is
\* wider than the packed struct. A word with fewer digits is not.
ImageLoads(image, m, given) ==
    /\ image.lines \in PowersOfTwo
    /\ given # 0 => image.lines = 2^given
    /\ \A index \in 0 .. image.lines - 1 : WordOf(image, m, index) \subseteq 0 .. 57

\* A module is loaded whole and then written; one that is refused ends the run.
GenModule ==
    /\ job.script = "gen" /\ job.todo # <<>>
    /\ LET m == Head(job.todo)
           image == files[m]["packed.hex"]
       IN  IF ImageLoads(image, m, job.given)
           THEN /\ sv' = [sv EXCEPT ![m] = [tree |-> image.tree, lines |-> image.lines,
                                            missing |-> image.missing, given |-> job.given]]
                /\ job' = [job EXCEPT !.todo = Tail(job.todo)]
           ELSE job' = NoJob /\ UNCHANGED sv
    /\ UNCHANGED <<files, manifest, cosims, intact, runs>>

FinishGen ==
    /\ job.script = "gen" /\ job.todo = <<>>
    /\ job' = NoJob
    /\ UNCHANGED <<files, manifest, sv, cosims, intact, runs>>

-----------------------------------------------------------------------------
\* gen_trans_rom_cosim.py: a manifest that is cut is no JSON. Its files do not
\* depend on the images, so that writing them again changes nothing.
GenCosims ==
    /\ job = NoJob /\ manifest.whole
    /\ cosims' = cosims \cup manifest.modules
    /\ UNCHANGED <<job, files, manifest, sv, intact, runs>>

\* A run that is killed, or finds the disk full, may have cut the file it was
\* about to write, between two lines or within one; a cut module is no SystemVerilog.
RomKilled ==
    /\ job # NoJob
    /\ job' = NoJob
    /\ intact' = (intact /\ job.script # "extract")
    /\ \/ UNCHANGED <<files, manifest, sv>>
       \/ /\ job.writing # <<>>
          /\ LET m == Head(job.todo)
             IN  \E n \in CutLines \cap (0 .. Depth(job.tree, m)), d \in Missing :
                    /\ n = 0 => d = 0
                    /\ n = Depth(job.tree, m) => d # 0
                    /\ files' = [files EXCEPT ![m][Head(job.writing)] =
                                    [tree |-> job.tree, lines |-> n, missing |-> d]]
          /\ UNCHANGED <<manifest, sv>>
       \/ /\ job.script = "extract" /\ job.todo = <<>> /\ "json" \in ToSet(job.kinds)
          /\ manifest' = [modules |-> {}, whole |-> FALSE]
          /\ UNCHANGED <<files, sv>>
       \/ /\ job.script = "gen" /\ job.todo # <<>>
          /\ LET m == Head(job.todo)
             IN  /\ ImageLoads(files[m]["packed.hex"], m, job.given)
                 /\ sv' = [sv EXCEPT ![m] = NoModule]
          /\ UNCHANGED <<files, manifest>>
    /\ UNCHANGED <<cosims, runs>>

RomNext ==
    \/ StartExtract \/ LoadModule \/ WriteFile \/ FinishExtract
    \/ StartGen \/ GenModule \/ FinishGen
    \/ GenCosims \/ RomKilled

RomSpec == RomInit /\ [][RomNext]_rom_vars

-----------------------------------------------------------------------------
(* Correctness.                                                            *)

\* The output of an emitted module: the case looks at the low bits of the index.
DataAt(module, m, index) == DataOf(WordOf(module, m, index % module.lines))

\* The indices a comparison drives: the reset sample, then every index.
CosimIndices == <<0>> \o [i \in 1 .. 256 |-> i - 1]

\* The words a table could have held at an index: those of the tables, and
\* every word with a single bit.
Candidates(tree, m) ==
    {RawWords[tree][m][i] : i \in DOMAIN RawWords[tree][m]}
        \cup {{b} : b \in 0 .. SpecOf(m).raw_width - 1}

\* What module m, emitted from all the lines of its image, answers is what the
\* packer made of its table. Only the last row answers otherwise, when its line
\* was cut.
AnswersItsTable ==
    [tree \in DOMAIN Trees |->
        [m \in DOMAIN RawWords[tree] |->
            [missing \in Missing |->
                \A index \in {CosimIndices[i] : i \in DOMAIN CosimIndices} :
                    LET row == index % Depth(tree, m)
                        image == [Whole(tree, m) EXCEPT !.missing = missing]
                    IN  missing = 0 \/ row # Depth(tree, m) - 1 =>
                            DataAt(image, m, index)
                                = Packer(SpecOf(m), Consts(tree), row, RawWords[tree][m][row])]]]

\* No other word of the table would have given that answer: no bit is lost or
\* moved into a neighbour. (The sine has indices without words.)
NoBitIsLost ==
    [tree \in DOMAIN Trees |->
        [m \in DOMAIN RawWords[tree] |->
            \A row \in DOMAIN RawWords[tree][m] :
                LET packer(raw) == Packer(SpecOf(m), Consts(tree), row, raw)
                IN  packer({0}) # packer({}) =>
                        {w \in Candidates(tree, m) : packer(w) = packer(RawWords[tree][m][row])}
                            = {RawWords[tree][m][row]}]]

\* A module that is there answers every 8-bit index with its table, as long as
\* it was emitted from all the lines of an image or with the address width of its
\* table: a cut image never passes for a smaller ROM then. One row can be wrong,
\* and it is the last: an image cut within its last line has the length it
\* should have, and nothing tells the shorter word from a whole one.
ModulesAnswerTheirTables ==
    \A m \in Modules :
        LET module == sv[m]
            asked  == \/ module.lines = Depth(module.tree, m)
                      \/ module.given = AddrWidth(module.tree, m)
        IN  module.tree # "none" /\ asked =>
                /\ module.lines = Depth(module.tree, m)
                /\ AnswersItsTable[module.tree][m][module.missing]
                /\ NoBitIsLost[module.tree][m]

\* The files of a module are all made from one tree whenever no extraction is
\* running, unless one was killed or left out files: a table that is refused
\* ends the run before any file of its module is touched.
ImagesAgree ==
    job.script # "extract" /\ intact =>
        \A m \in Modules, k \in AllKinds : files[m][k] = files[m]["json"]

=============================================================================
