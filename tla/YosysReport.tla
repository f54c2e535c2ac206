----------------------------- MODULE YosysReport -----------------------------
(***************************************************************************)
(* The resource report: "make synth" runs Yosys, which leaves its log      *)
(* behind even when it fails; "make report" reads the statistics in the    *)
(* log and prints the cells of the flattened design.  A line of the log is *)
(* a header, a name with a count, the line that begins a list of totals,   *)
(* or anything else.                                                       *)
(***************************************************************************)
EXTENDS Naturals, SequencesExt

CONSTANTS Top,       \* SYNTH_TOP
          CellTypes, \* for every cell: the technology and the kind it is of
          Keywords,  \* the names that are not cells: ports, memories, ...
          Designs    \* by name: its modules, the top first, with the cells and
                     \* the submodules of each

VARIABLES design,    \* the sources
          fresh,     \* is the netlist newer than they are?
          log,       \* the report file
          logged,    \* the design the log is about, and are its statistics whole?
          printed    \* what the last report said

report_vars == <<design, fresh, log, logged, printed>>

CellKinds == {CellTypes[c].kind : c \in DOMAIN CellTypes}
Internals == {c \in DOMAIN CellTypes : CellTypes[c].kind \in {"$scopeinfo", "$"}}
Hardware == DOMAIN CellTypes \ Internals
Named == DOMAIN CellTypes \cup Keywords \cup UNION {ToSet(Designs[d].modules) : d \in DOMAIN Designs}
None == [n \in Named |-> 0]

-----------------------------------------------------------------------------
(* The log, as Yosys writes it.                                              *)

Header(name) == [is |-> "header", name |-> name, count |-> 0]
Hierarchy == Header("design hierarchy")
Counts(name, count) == [is |-> "count", name |-> name, count |-> count]
Totals == [is |-> "totals", name |-> "Number of wires:", count |-> 0]
Start  == [is |-> "start", name |-> "Printing statistics", count |-> 0]
Other  == [is |-> "other", name |-> "", count |-> 0]

Listing(counts) ==
    LET names == SetToSeq({n \in DOMAIN counts : counts[n] > 0})
    IN  [i \in DOMAIN names |-> Counts(names[i], counts[names[i]])]

Listed(cells) == <<Totals>> \o Listing([k \in Keywords |-> 1]) \o Listing(cells)

SumOf(numbers) == FoldLeft(+, 0, numbers)

\* How often a module is in the flattened design.
Instances(d) ==
    LET n[i \in DOMAIN d.modules] ==
            IF i = 1 THEN 1
            ELSE SumOf([j \in 1 .. i - 1 |-> n[j] * d.subs[d.modules[j]][d.modules[i]]])
    IN  n

Flat(d) ==
    [c \in DOMAIN CellTypes |->
        SumOf([i \in DOMAIN d.modules |-> Instances(d)[i] * d.cells[d.modules[i]][c]])]

\* A block for every module, and the hierarchy when there is more than one.
Statistics(d) ==
    LET block(m) == <<Header(m)>> \o Listed(d.cells[m]) \o Listing(d.subs[m])
    IN  FlattenSeq([i \in DOMAIN d.modules |-> block(d.modules[i])]) \o
        IF Len(d.modules) = 1 THEN <<>>
        ELSE <<Hierarchy>> \o
             [i \in DOMAIN d.modules |-> Counts(d.modules[i], Instances(d)[i])] \o
             Listed(Flat(d))

FullLog(d) == <<Other, Start>> \o Statistics(d) \o <<Other>>

\* A design is built for one technology, of which yosys_report.py knows the cells: a
\* Xilinx one by its LUTs and flip-flops. One of a single module instantiates no other.
LegalDesign(d) ==
    /\ d.modules \in Seq(ToSet(d.modules)) /\ d.modules # <<>> /\ d.modules[1] = Top
    /\ "design hierarchy" \notin ToSet(d.modules)
    /\ \A m \in ToSet(d.modules) :
          /\ d.cells[m] \in [DOMAIN CellTypes -> Nat]
          /\ IsFiniteSet(DOMAIN d.subs[m]) /\ ToSet(d.modules) \subseteq DOMAIN d.subs[m]
          /\ \A n \in DOMAIN d.subs[m] : d.subs[m][n] \in (IF Len(d.modules) = 1 THEN {0} ELSE Nat)
    /\ LET used == {c \in Hardware : Flat(d)[c] > 0}
       IN  \/ {CellTypes[c].tech : c \in used} = {"ice40"}
           \/ /\ {CellTypes[c].tech : c \in used} = {"xilinx"}
              /\ \E c \in used : CellTypes[c].kind \in {"lut", "ff"}

ASSUME DesignsAssumption ==
    /\ IsFiniteSet(DOMAIN CellTypes) /\ IsFiniteSet(Keywords)
    /\ Keywords \cap DOMAIN CellTypes = {}
    /\ \A c \in Internals : CellTypes[c].tech \notin {"ice40", "xilinx"}
    /\ \A x \in DOMAIN Designs : LegalDesign(Designs[x])

-----------------------------------------------------------------------------
(* yosys_report.py                                                           *)

\* skip_words, and the cells of Yosys's own.
Skipped(name) == name \in Keywords \/ (name \in DOMAIN CellTypes /\ CellTypes[name].kind = "$scopeinfo")

Counted(cells, line) ==
    IF line.is = "count" /\ ~Skipped(line.name)
    THEN [cells EXCEPT ![line.name] = @ + line.count] ELSE cells

Reader == [in |-> FALSE, summary |-> FALSE, done |-> FALSE, cells |-> None]

ModuleLine(s, line) ==
    IF s.done THEN s
    ELSE IF line.is = "header"
         THEN [s EXCEPT !.done = s.in, !.in = s.in \/ line.name = Top]
         ELSE IF s.in THEN [s EXCEPT !.cells = Counted(@, line)] ELSE s

parse_module_cells(lines) == FoldLeft(ModuleLine, Reader, lines).cells

\* Mutant: counts the lines of the module tree too.
HierarchyLineTree(s, line) ==
    IF s.done THEN s
    ELSE IF line = Hierarchy THEN [s EXCEPT !.in = TRUE, !.summary = FALSE]
    ELSE IF ~s.in THEN s
    ELSE IF line.is = "header" THEN [s EXCEPT !.done = TRUE]
    ELSE [s EXCEPT !.cells = Counted(@, line)]

HierarchyLine(s, line) ==
    IF s.done THEN s
    ELSE IF line = Hierarchy THEN [s EXCEPT !.in = TRUE, !.summary = FALSE]
    ELSE IF ~s.in THEN s
    ELSE IF line.is = "header" THEN [s EXCEPT !.done = TRUE]
    ELSE LET summary == s.summary \/ line.is = "totals"
         IN  [s EXCEPT !.summary = summary,
                       !.cells = IF summary THEN Counted(@, line) ELSE @]

parse_design_hierarchy_cells(lines) == FoldLeft(HierarchyLine, Reader, lines).cells

Technology(cells) ==
    LET has(tech, kinds) == \E c \in DOMAIN CellTypes :
                                /\ CellTypes[c].tech = tech /\ CellTypes[c].kind \in kinds
                                /\ cells[c] > 0
    IN  IF has("ice40", CellKinds) THEN "ice40"
        ELSE IF has("xilinx", {"lut", "ff"}) THEN "xilinx" ELSE "unknown"

SumOver(cells, names) == MapThenSumSet(LAMBDA c : cells[c], names)

classify(tech, cells) ==
    [k \in CellKinds |->
        SumOver(cells, {c \in DOMAIN CellTypes : /\ CellTypes[c].tech = tech /\ CellTypes[c].kind = k
                                                /\ cells[c] > 0})]

\* hw_cells: nothing of Yosys's own.
Breakdown(cells) == {<<n, cells[n]>> : n \in {n \in Named \ Internals : cells[n] > 0}}

\* Without statistics, or with nothing in them, there is no report.
Answer(lines) ==
    LET start == SelectInSeq(lines, LAMBDA line : line = Start)
        stats == SubSeq(lines, start + 1, Len(lines))
        whole == parse_design_hierarchy_cells(stats)
        cells == IF whole # None THEN whole ELSE parse_module_cells(stats)
    IN  IF start = 0 \/ cells = None
        THEN [is |-> "error"]
        ELSE [is |-> "report", summary |-> classify(Technology(cells), cells),
              breakdown |-> Breakdown(cells)]

-----------------------------------------------------------------------------
(* The targets of yosys.mk.                                                  *)

ReportInit ==
    /\ design \in DOMAIN Designs /\ fresh = FALSE
    /\ log = <<>> /\ logged = [of |-> design, whole |-> FALSE]
    /\ printed = [is |-> "nothing"]

EditDesign ==
    /\ design' \in DOMAIN Designs \ {design}
    /\ fresh' = FALSE
    /\ UNCHANGED <<log, logged, printed>>

\* The log is written from its beginning; a run that fails leaves what it wrote,
\* the whole statistics when it is the netlist that cannot be written.
synth ==
    /\ ~fresh
    /\ \E n \in 0 .. Len(FullLog(Designs[design])) :
          /\ log' = SubSeq(FullLog(Designs[design]), 1, n)
          /\ logged' = [of |-> design, whole |-> n >= Len(FullLog(Designs[design])) - 1]
          /\ fresh' \in {FALSE, n = Len(FullLog(Designs[design]))}
    /\ printed' = [is |-> "nothing"]
    /\ UNCHANGED design

synth_clean ==
    /\ fresh' = FALSE /\ log' = <<>>
    /\ logged' = [logged EXCEPT !.whole = FALSE]
    /\ printed' = [is |-> "nothing"]
    /\ UNCHANGED design

report ==
    /\ printed' = Answer(log)
    /\ UNCHANGED <<design, fresh, log, logged>>

ReportNext == EditDesign \/ synth \/ synth_clean \/ report

ReportSpec == ReportInit /\ [][ReportNext]_report_vars

-----------------------------------------------------------------------------
\* What is printed for a run with whole statistics is the flattened design that
\* run was made from, whatever was run, edited or failed in between: every cell
\* once, none of a module's own block, of the module tree or of Yosys's own, and
\* every kind of cell summed up. Without any statistics nothing is printed.
ReportsTheDesign ==
    LET flat == Flat(Designs[logged.of])
    IN  /\ printed.is # "nothing" /\ logged.whole =>
              /\ printed.is = "report"
              /\ printed.breakdown = {<<c, flat[c]>> : c \in {c \in Hardware : flat[c] > 0}}
              /\ \A c \in Hardware : flat[c] > 0 =>
                    printed.summary[CellTypes[c].kind] =
                    SumOver(flat, {x \in Hardware : flat[x] > 0 /\ CellTypes[x].kind = CellTypes[c].kind})
        /\ Start \notin ToSet(log) => printed.is # "report"
=============================================================================
