------------------------------ MODULE EmbedPage ------------------------------
(***************************************************************************)
(* The coverage dashboard. "make coverage-html" first makes the reports of *)
(* coverage-report anew, from the data of the tests and the cosimulation   *)
(* reports that are checked in; then it copies the page, removes its       *)
(* backup, copies the reports beside the page, runs embed.py and moves the *)
(* result away. embed.py puts what lies beside the page into it, in place, *)
(* and keeps a backup of the page to start from the next time; it is also  *)
(* run by hand. Either may be killed between any two steps and within a    *)
(* copy or a write, and some failures are passed over.                     *)
(***************************************************************************)
EXTENDS Naturals

CONSTANTS Metrics,      \* line, branch and toggle: one report each
          MaxVersions,  \* bound: versions of the page
          MaxTests      \* bound: versions of the coverage data

ASSUME EmbedPageAssumption == MaxVersions \in Nat \ {0} /\ MaxTests \in Nat \ {0}

VARIABLES template,     \* the version of dv/coverview/index.html
          tests,        \* how often tests were run: the version of the newest data
          dats,         \* the data of the unit tests and of the cosimulation, 0 for none
          checked,      \* the cosimulation reports that are checked in
          reports,      \* the reports in build/coverage
          info,         \* the reports beside the page, in build/coverview
          dist, bak,    \* dist/index.html and dist/index.html.bak
          step,         \* what is to be done next
          made,         \* is make running, or embed.py alone?
          mode,         \* the flag embed.py was given
          content       \* the page it holds in memory

\* History, of the failures a run passes over: what it does depends on it in no way.
VARIABLE missed         \* the reports this run could not make or copy

test_vars  == <<template, tests, dats, checked>>
job_vars   == <<made, mode, content, missed>>
embed_vars == <<test_vars, reports, info, dist, bak, step, job_vars>>

-----------------------------------------------------------------------------
(* Reports and pages.                                                        *)

Suites  == {"unit", "cosim"}
Reports == Suites \X Metrics

\* A report is the version of the data in it, or cut; 0 when it is not there.
CutReport == MaxTests + 1
NoReports == [f \in Reports |-> 0]

\* A page is fresh as long as it still has the line that embed.py replaces, and
\* then filled with the reports, or with an address to fetch them from. A cut
\* page is what a broken write leaves.
Page(is, version, data) == [is |-> is, version |-> version, data |-> data]
NoPage  == Page("absent", 0, NoReports)
CutPage == Page("cut", 0, NoReports)
Fresh(version) == Page("fresh", version, NoReports)

\* What there is to report today: the data of the tests, and when there are none of
\* the cosimulation, what is checked in.
Today(f) == IF f[1] = "cosim" /\ dats["cosim"] = 0 THEN checked[f[2]] ELSE dats[f[1]]

\* Files that are copied over others: only those there are.
Copied(files, others) == [f \in Reports |-> IF files[f] # 0 THEN files[f] ELSE others[f]]

\* The same when it fails: a file is copied, cut, or left as it was.
PartlyCopied(files, others) ==
    {i \in [Reports -> 0 .. CutReport] :
        \A f \in Reports : i[f] \in IF files[f] # 0 THEN {files[f], others[f], CutReport}
                                                    ELSE {others[f]}}

\* The reports of one suite.
Of(suite, files) == [f \in Reports |-> IF f[1] = suite THEN files[f] ELSE 0]

\* The cosimulation reports that are copied: those that are checked in, when
\* coverage-report has left none at all.
CosimReports ==
    IF Of("cosim", reports) # NoReports
    THEN Of("cosim", reports)
    ELSE [f \in Reports |-> IF f[1] = "cosim" THEN checked[f[2]] ELSE 0]

Kinds_ == {"absent", "cut", "fresh", "filled", "fetch"}

EmbedTypeOK ==
    /\ template \in 1 .. MaxVersions /\ tests \in 1 .. MaxTests
    /\ dats \in [Suites -> 0 .. MaxTests] /\ checked \in [Metrics -> 0 .. MaxTests]
    /\ {reports, info} \subseteq [Reports -> 0 .. CutReport] /\ missed \subseteq Reports
    /\ {dist, bak, content} \subseteq
            [is : Kinds_, version : 0 .. MaxVersions, data : [Reports -> 0 .. CutReport]]
    /\ step \in {"idle", "clear", "report", "cp", "rm", "unit", "cosim",
                 "backup", "build", "write", "mv"}
    /\ made \in BOOLEAN
    /\ mode \in {"inject", "fetch", "plain"}

EmbedInit ==
    /\ template = 1 /\ tests = 1
    /\ dats = [s \in Suites |-> 0] /\ checked \in [Metrics -> {0, 1}]
    /\ reports = NoReports /\ info = NoReports /\ missed = {}
    /\ dist = NoPage /\ bak = NoPage /\ content = NoPage
    /\ step = "idle" /\ made = FALSE /\ mode = "plain"

\* A run that ends, well or not, forgets what it was.
Ends == step' = "idle" /\ made' = FALSE /\ mode' = "plain" /\ content' = NoPage /\ missed' = {}

-----------------------------------------------------------------------------
(* Between runs the page is edited, and tests are run or cleaned.            *)

EditTemplate ==
    /\ step = "idle" /\ template < MaxVersions
    /\ template' = template + 1
    /\ UNCHANGED <<tests, dats, checked, reports, info, dist, bak, step, job_vars>>

RunTests ==
    /\ step = "idle" /\ tests < MaxTests
    /\ tests' = tests + 1
    /\ \E s \in Suites : dats' = [dats EXCEPT ![s] = tests']
    /\ UNCHANGED <<template, checked, reports, info, dist, bak, step, job_vars>>

\* The clean targets of the blocks, one by one.
CleanTests ==
    /\ step = "idle"
    /\ \E s \in Suites : dats' = [dats EXCEPT ![s] = 0]
    /\ UNCHANGED <<template, tests, checked, reports, info, dist, bak, step, job_vars>>

\* All of build goes, the page and its backup too.
Clean ==
    /\ step = "idle"
    /\ dats' = [s \in Suites |-> 0]
    /\ reports' = NoReports /\ info' = NoReports
    /\ dist' = NoPage /\ bak' = NoPage
    /\ UNCHANGED <<template, tests, checked, step, job_vars>>

\* A report that fails leaves its file as it was. (One that is cut is not
\* committed.)
UpdateCosimCoverage ==
    /\ step = "idle" /\ dats["cosim"] # 0
    /\ \E done \in SUBSET Metrics :
            checked' = [m \in Metrics |-> IF m \in done THEN dats["cosim"] ELSE checked[m]]
    /\ UNCHANGED <<template, tests, dats, reports, info, dist, bak, step, job_vars>>

-----------------------------------------------------------------------------
(* The recipe of coverage-report.                                            *)

StartMake ==
    /\ step = "idle"
    /\ step' = "clear" /\ made' = TRUE /\ mode' = "inject" /\ missed' = {}
    /\ UNCHANGED <<test_vars, reports, info, dist, bak, content>>

\* Mutant: the reports of the last run are left.
KeepReports ==
    /\ step = "clear"
    /\ step' = "report"
    /\ UNCHANGED <<test_vars, reports, info, dist, bak, job_vars>>

ClearReports ==
    /\ step = "clear"
    /\ reports' = NoReports
    /\ step' = "report"
    /\ UNCHANGED <<test_vars, info, dist, bak, job_vars>>

\* Without anything to report, make ends. A report that cannot be made is left
\* out. Asked for by itself, coverage-report ends here.
MakeReports ==
    /\ step = "report"
    /\ \/ Ends /\ \A f \in Reports : Today(f) = 0
             /\ UNCHANGED reports
       \/ /\ \E f \in Reports : Today(f) # 0
          /\ reports' \in PartlyCopied([f \in Reports |-> Today(f)], reports)
          /\ \/ Ends
             \/ /\ step' = "cp"
                /\ missed' = {f \in Reports : reports'[f] # Today(f)}
                /\ UNCHANGED <<made, mode, content>>
    /\ UNCHANGED <<test_vars, info, dist, bak>>

-----------------------------------------------------------------------------
(* The recipe of coverage-html.                                              *)

CopyTemplate ==
    /\ step = "cp"
    /\ dist' = Fresh(template)
    /\ step' = "rm"
    /\ UNCHANGED <<test_vars, reports, info, bak, job_vars>>

\* Mutant: the backup of the last page is left.
KeepBackup ==
    /\ step = "rm"
    /\ step' = "unit"
    /\ UNCHANGED <<test_vars, reports, info, dist, bak, job_vars>>

RemoveBackup ==
    /\ step = "rm"
    /\ bak' = NoPage
    /\ step' = "unit"
    /\ UNCHANGED <<test_vars, reports, info, dist, job_vars>>

\* The unit reports: a copy that fails is passed over.
CopyUnit ==
    /\ step = "unit"
    /\ info' \in PartlyCopied(Of("unit", reports), info)
    /\ missed' = missed \cup {f \in Reports : f[1] = "unit" /\ reports[f] # 0 /\ info'[f] # reports[f]}
    /\ step' = "cosim"
    /\ UNCHANGED <<test_vars, reports, dist, bak, made, mode, content>>

\* The cosimulation reports: a copy that fails ends make.
CopyCosim ==
    /\ step = "cosim"
    /\ info' = Copied(CosimReports, info)
    /\ step' = "backup"
    /\ UNCHANGED <<test_vars, reports, dist, bak, job_vars>>

\* To build/coverview/index.html.
MoveDashboard ==
    /\ step = "mv"
    /\ dist' = NoPage
    /\ Ends
    /\ UNCHANGED <<test_vars, reports, info, bak>>

-----------------------------------------------------------------------------
(* embed.py                                                                  *)

\* By hand; with both flags it stops before it does anything.
StartByHand ==
    /\ step = "idle"
    /\ mode' \in {"inject", "fetch", "plain"}
    /\ step' = "backup" /\ made' = FALSE
    /\ UNCHANGED <<test_vars, reports, info, dist, bak, content, missed>>

\* Mutant: the page is backed up every time it is there.
BackupAlways ==
    /\ step = "backup"
    /\ bak' = IF dist = NoPage THEN bak ELSE dist
    /\ dist' = IF dist = NoPage THEN bak ELSE dist
    /\ IF dist = NoPage /\ bak = NoPage THEN Ends ELSE step' = "build" /\ UNCHANGED job_vars
    /\ UNCHANGED <<test_vars, reports, info>>

\* The page comes from the backup if there is one, and is backed up if not.
\* Without either the script fails.
BackupOrRestore ==
    /\ step = "backup"
    /\ IF bak # NoPage THEN dist' = bak /\ UNCHANGED bak
                       ELSE bak' = dist /\ UNCHANGED dist
    /\ IF bak = NoPage /\ dist = NoPage THEN Ends ELSE step' = "build" /\ UNCHANGED job_vars
    /\ UNCHANGED <<test_vars, reports, info>>

\* The page with the data in it, of every report that lies beside it. The line is
\* replaced where it is: in a page that has data, or is cut, nothing is.
WithData(page) ==
    IF page.is # "fresh" THEN page
    ELSE CASE mode = "inject" -> Page("filled", page.version, info)
           [] mode = "fetch"  -> Page("fetch", page.version, NoReports)
           [] mode = "plain"  -> page

\* The page and the files that go into it are read; one that cannot be read
\* ends the script, and make with it.
Build ==
    /\ step = "build"
    /\ \/ content' = WithData(dist) /\ step' = "write" /\ UNCHANGED <<made, mode, missed>>
       \/ Ends
    /\ UNCHANGED <<test_vars, reports, info, dist, bak>>

WritePage ==
    /\ step = "write"
    /\ dist' = content
    /\ IF made THEN step' = "mv" /\ content' = NoPage /\ UNCHANGED <<made, mode, missed>> ELSE Ends
    /\ UNCHANGED <<test_vars, reports, info, bak>>

-----------------------------------------------------------------------------
\* Killed, or ended by a failure, before the next step or within it where it
\* writes files.
EmbedKilled ==
    /\ step # "idle" /\ Ends
    /\ \/ UNCHANGED <<reports, info, dist, bak>>
       \/ /\ step = "report"
          /\ reports' \in PartlyCopied([f \in Reports |-> Today(f)], reports)
          /\ UNCHANGED <<info, dist, bak>>
       \/ /\ \/ step = "unit"  /\ info' \in PartlyCopied(Of("unit", reports), info)
             \/ step = "cosim" /\ info' \in PartlyCopied(CosimReports, info)
          /\ UNCHANGED <<reports, dist, bak>>
       \/ /\ step \in {"cp", "write"} \/ (step = "backup" /\ bak # NoPage)
          /\ dist' = CutPage
          /\ UNCHANGED <<reports, info, bak>>
       \/ /\ step = "backup" /\ bak = NoPage /\ dist # NoPage
          /\ bak' = CutPage
          /\ UNCHANGED <<reports, info, dist>>
    /\ UNCHANGED test_vars

EmbedNext ==
    \/ EditTemplate \/ RunTests \/ CleanTests \/ Clean \/ UpdateCosimCoverage
    \/ StartMake \/ ClearReports \/ MakeReports
    \/ CopyTemplate \/ RemoveBackup \/ CopyUnit \/ CopyCosim \/ MoveDashboard
    \/ StartByHand \/ BackupOrRestore \/ Build \/ WritePage
    \/ EmbedKilled

EmbedSpec == EmbedInit /\ [][EmbedNext]_embed_vars

-----------------------------------------------------------------------------
(* Correctness.                                                              *)

\* The backup never has data in it, however often either is run or killed: a
\* page with data would be kept for good, and every later run would show the
\* data of the first without an error.
BackupIsPristine == bak.is \in {"absent", "cut", "fresh"}

\* A recipe that is about to publish its page has the page of today, with every
\* report of today in it, whatever earlier runs left behind: a cut page, a cut or an
\* old backup, reports of other tests. The reports themselves are of today, but for
\* those that could not be made. Of what today has no report of, or none that could
\* be made and copied, the page has the file that still lay beside it: it can show
\* today's unit tests next to the cosimulation of an older run.
DashboardIsCurrent ==
    step = "mv" =>
        /\ dist.is = "filled" /\ dist.version = template
        /\ \A f \in Reports :
              /\ dist.data[f] = IF Today(f) # 0 /\ f \notin missed THEN Today(f) ELSE info[f]
              /\ reports[f] # Today(f) => f \in missed /\ reports[f] \in {0, CutReport}

=============================================================================
