---------------------------- MODULE ReportageRun ----------------------------
(***************************************************************************)
(* The default command of the CLI (main.rs): configuration, discovery,     *)
(* validation of every file, evaluation, the artifact bundle (artifact.rs) *)
(* and the exit code.  Several runs share one `.reportage/runs` directory; *)
(* any of them may be killed, and any write of the bundle may fail.        *)
(*                                                                         *)
(* The inside of a case is CaseExecution; here a case is its result.       *)
(***************************************************************************)
EXTENDS RunReport

CONSTANTS Runs,         \* reportage processes
          CaseResults,  \* what a case may come to
          FixedIds,     \* run ids given with --debug-run-id
          Stamps,       \* run ids taken from the clock
          MaxFiles,     \* bound: script files of a run
          MaxCases,     \* bound: cases of a file
          None

InvalidId == "a/b"   \* any id RunId::new refuses
Torn == "torn"       \* a manifest opened for writing and not yet written

ASSUME ResultsAssumption ==
  CaseResults \subseteq {result \in CaseResult : StatusTold(result)}
ASSUME BoundsAssumption == MaxFiles \in Nat /\ MaxCases \in Nat
ASSUME NoneAssumption == None \notin FixedIds \cup Stamps

VARIABLES
  mode,     \* the form of the command line
  runId,    \* the id asked for, or None
  pc,       \* the next step of each run
  pending,  \* files still to load, then cases still to run
  cases,    \* cases of the files loaded so far
  report,   \* the ExecutionReport
  dir,      \* the run directory, once chosen
  exit,     \* the process exit code and what led to it
  store,    \* the run directories
  over      \* history: the runs that were over when this one chose its directory

input == <<mode, runId>>
vars == <<input, pc, pending, cases, report, dir, exit, store, over>>

Modes == {"scripts", "config", "both", "malformed"}
Labels == {"start", "discover", "load", "evaluate", "writer", "mkdir", "open", "manifest",
           "evidence", "render", "exited"}
Causes == {"usage", "arguments", "unreadable_config", "invalid_config", "registry", "discovery",
           "run_id", "artifacts", "report", "panic", "killed"}
Directories == FixedIds \cup Stamps
Bundle == [exists : BOOLEAN, manifest : Runs \cup {None, Torn},
           evidence : SUBSET [run : Runs, key : Nat \X Nat]]
ExitRecord == [code : {0, 1, 2, 3, 4, 101, 130}, cause : Causes]

TypeOK ==
  /\ mode \in [Runs -> Modes]
  /\ runId \in [Runs -> FixedIds \cup {None, InvalidId}]
  /\ pc \in [Runs -> Labels]
  /\ pending \in [Runs -> Nat] /\ cases \in [Runs -> Nat]
  /\ report \in [Runs -> ExecutionReport]
  /\ dir \in [Runs -> Directories \cup {None}]
  /\ exit \in [Runs -> ExitRecord \cup {None}]
  /\ store \in [Directories -> Bundle]
  /\ over \in [Runs -> SUBSET Runs]

Init ==
  /\ mode \in [Runs -> Modes]
  /\ runId \in [Runs -> FixedIds \cup {None, InvalidId}]
  /\ pc = [r \in Runs |-> "start"]
  /\ pending = [r \in Runs |-> 0] /\ cases = [r \in Runs |-> 0]
  /\ report = [r \in Runs |-> [cases |-> <<>>, fileErrors |-> <<>>]]
  /\ dir = [r \in Runs |-> None]
  /\ exit = [r \in Runs |-> None]
  /\ store = [d \in Directories |-> [exists |-> FALSE, manifest |-> None, evidence |-> {}]]
  /\ over = [r \in Runs |-> {}]

-----------------------------------------------------------------------------
Goto(r, label) == pc' = [pc EXCEPT ![r] = label]

ExitWith(r, code, cause) ==
  /\ Goto(r, "exited")
  /\ exit' = [exit EXCEPT ![r] = [code |-> code, cause |-> cause]]
  /\ UNCHANGED <<input, pending, cases, report, dir, over>>

StartScripts(r) ==
  /\ pc[r] = "start" /\ mode[r] = "scripts"
  /\ \E n \in 1 .. MaxFiles : pending' = [pending EXCEPT ![r] = n]
  /\ Goto(r, "load")
  /\ UNCHANGED <<input, cases, report, dir, exit, store, over>>

\* clap's own errors; help and the tooling subcommands are not runs.
RejectUsage(r) ==
  /\ pc[r] = "start" /\ mode[r] = "malformed"
  /\ ExitWith(r, 4, "usage")
  /\ UNCHANGED store

RejectArguments(r) ==
  /\ pc[r] = "start" /\ mode[r] = "both"
  /\ ExitWith(r, 3, "arguments")
  /\ UNCHANGED store

\* run_with_config: the file, its contents, then the commands it registers.
ConfigRefused(r) ==
  /\ pc[r] = "start" /\ mode[r] = "config"
  /\ \E cause \in {"unreadable_config", "invalid_config", "registry"} : ExitWith(r, 3, cause)
  /\ UNCHANGED store

ConfigAccepted(r) ==
  /\ pc[r] = "start" /\ mode[r] = "config"
  /\ Goto(r, "discover")
  /\ UNCHANGED <<input, pending, cases, report, dir, exit, store, over>>

\* discover_files: no path at all is fine, a pattern without a match is not.
Discover(r) ==
  /\ pc[r] = "discover"
  /\ \E n \in 0 .. MaxFiles : pending' = [pending EXCEPT ![r] = n]
  /\ Goto(r, "load")
  /\ UNCHANGED <<input, cases, report, dir, exit, store, over>>

DiscoveryFails(r) ==
  /\ pc[r] = "discover"
  /\ ExitWith(r, 2, "discovery")
  /\ UNCHANGED store

-----------------------------------------------------------------------------
(* run_scripts: every file is read and parsed before any case runs.        *)

LoadFile(r) ==
  /\ pc[r] = "load" /\ pending[r] > 0
  /\ pending' = [pending EXCEPT ![r] = @ - 1]
  /\ \/ /\ \E n \in 0 .. MaxCases : cases' = [cases EXCEPT ![r] = @ + n]
        /\ UNCHANGED report
     \/ /\ \E e \in FileErrorKinds :
             report' = [report EXCEPT ![r].fileErrors = Append(@, e)]
        /\ UNCHANGED cases
  /\ UNCHANGED <<input, pc, dir, exit, store, over>>

\* A wrong edit: the files that did load are evaluated all the same.
AllLoadedRunValidFiles(r) ==
  /\ pc[r] = "load" /\ pending[r] = 0
  /\ pending' = [pending EXCEPT ![r] = cases[r]]
  /\ Goto(r, "evaluate")
  /\ UNCHANGED <<input, cases, report, dir, exit, store, over>>

AllLoaded(r) ==
  /\ pc[r] = "load" /\ pending[r] = 0
  /\ IF report[r].fileErrors # <<>>
     THEN Goto(r, "writer") /\ UNCHANGED pending
     ELSE Goto(r, "evaluate") /\ pending' = [pending EXCEPT ![r] = cases[r]]
  /\ UNCHANGED <<input, cases, report, dir, exit, store, over>>

EvaluateCase(r) ==
  /\ pc[r] = "evaluate" /\ pending[r] > 0
  /\ pending' = [pending EXCEPT ![r] = @ - 1]
  /\ \E result \in CaseResults : report' = [report EXCEPT ![r].cases = Append(@, result)]
  /\ UNCHANGED <<input, pc, cases, dir, exit, store, over>>

AllEvaluated(r) ==
  /\ pc[r] = "evaluate" /\ pending[r] = 0
  /\ Goto(r, "writer")
  /\ UNCHANGED <<input, pending, cases, report, dir, exit, store, over>>

-----------------------------------------------------------------------------
(* The artifact writer.  The run id is looked at only now, after the run.  *)

\* A wrong edit: a fixed id is taken whether or not its directory exists.
Free(d) == TRUE

Available(d) == ~store[d].exists
Usable(id) == id # InvalidId /\ Available(id)

TakeDirectory(r, d) ==
  /\ dir' = [dir EXCEPT ![r] = d]
  /\ over' = [over EXCEPT ![r] = {s \in Runs : pc[s] = "exited"}]
  /\ Goto(r, "mkdir")
  /\ UNCHANGED <<input, pending, cases, report, exit, store>>

ChooseDirectory(r) ==
  /\ pc[r] = "writer"
  /\ IF runId[r] = None THEN \E stamp \in Stamps : TakeDirectory(r, stamp)
     ELSE Usable(runId[r]) /\ TakeDirectory(r, runId[r])

RefuseRunId(r) ==
  /\ pc[r] = "writer"
  /\ runId[r] # None /\ ~Usable(runId[r])
  /\ ExitWith(r, 3, "run_id")
  /\ UNCHANGED store

Step(r, from, to) ==
  /\ pc[r] = from
  /\ Goto(r, to)
  /\ UNCHANGED <<input, pending, cases, report, dir, exit, over>>

\* create_dir_all accepts a directory that is there already.
MakeDirectory(r) ==
  /\ Step(r, "mkdir", "open")
  /\ store' = [store EXCEPT ![dir[r]].exists = TRUE]

\* fs::write truncates, then writes.
OpenManifest(r) ==
  /\ Step(r, "open", "manifest")
  /\ store' = [store EXCEPT ![dir[r]].manifest = Torn]

WriteManifest(r) ==
  /\ Step(r, "manifest", "evidence")
  /\ store' = [store EXCEPT ![dir[r]].manifest = r]

Written(r) == {e.key : e \in {w \in store[dir[r]].evidence : w.run = r}}
Unwritten(r) == Evidence(report[r]) \ Written(r)
Precedes(a, b) == a[1] < b[1] \/ (a[1] = b[1] /\ a[2] <= b[2])

\* write_captured_output, one action after the other.
WriteEvidence(r) ==
  /\ Step(r, "evidence", "evidence")
  /\ \E key \in Unwritten(r) :
       /\ \A other \in Unwritten(r) : Precedes(key, other)
       /\ store' = [store EXCEPT ![dir[r]].evidence =
            {e \in @ : e.key # key} \cup {[run |-> r, key |-> key]}]

EvidenceWritten(r) ==
  /\ Step(r, "evidence", "render")
  /\ Unwritten(r) = {}
  /\ UNCHANGED store

\* A call on the bundle is still to be made.
Writing(r) ==
  \/ pc[r] \in {"mkdir", "open", "manifest"}
  \/ pc[r] = "evidence" /\ Unwritten(r) # {}

\* A wrong edit: a failed write is reported and otherwise ignored.
ArtifactFailureIgnored(r) ==
  /\ Writing(r)
  /\ Step(r, pc[r], "render")
  /\ UNCHANGED store

ArtifactFails(r) ==
  /\ Writing(r)
  /\ ExitWith(r, 3, "artifacts")
  /\ UNCHANGED store

\* The report is printed, and the process ends with its exit code.
Render(r) ==
  /\ pc[r] = "render"
  /\ ExitWith(r, ExitCode(report[r]), "report")
  /\ UNCHANGED store

\* println! panics when standard output is closed.
RenderPanics(r) ==
  /\ pc[r] = "render"
  /\ ExitWith(r, 101, "panic")
  /\ UNCHANGED store

Kill(r) ==
  /\ pc[r] # "exited"
  /\ ExitWith(r, 130, "killed")
  /\ UNCHANGED store

-----------------------------------------------------------------------------
Proceed(r) ==
  \/ StartScripts(r) \/ RejectUsage(r) \/ RejectArguments(r) \/ ConfigRefused(r) \/ ConfigAccepted(r)
  \/ Discover(r) \/ DiscoveryFails(r)
  \/ LoadFile(r) \/ AllLoaded(r) \/ EvaluateCase(r) \/ AllEvaluated(r)
  \/ ChooseDirectory(r) \/ RefuseRunId(r)
  \/ MakeDirectory(r) \/ OpenManifest(r) \/ WriteManifest(r)
  \/ WriteEvidence(r) \/ EvidenceWritten(r) \/ ArtifactFails(r)
  \/ Render(r) \/ RenderPanics(r)

AllOver == (\A r \in Runs : pc[r] = "exited") /\ UNCHANGED vars

Next == (\E r \in Runs : Proceed(r) \/ Kill(r)) \/ AllOver

Spec == Init /\ [][Next]_vars

-----------------------------------------------------------------------------
(* Properties.                                                             *)

Exited(r, cause) == exit[r] # None /\ exit[r].cause = cause

(***************************************************************************)
(* No case of any file runs while a file of the run cannot be read or      *)
(* parsed (validate before execute): a report has file errors or cases.    *)
(***************************************************************************)
ValidateBeforeExecute ==
  \A r \in Runs : report[r].fileErrors # <<>> => report[r].cases = <<>>

\* The ways the document's own fields must agree with each other.
Consistent(report_, doc) ==
  LET s == doc.summary
  IN /\ doc.status = "passed" <=> doc.processExitCode = 0
     /\ doc.status = "failed" <=> doc.processExitCode = 1
     /\ doc.status = "passed" <=> doc.diagnostics = 0
     /\ doc.status = "error" <=> s.errors > 0
     /\ s.passed + s.failed + s.errors = Len(report_.cases) + Len(report_.fileErrors)
     /\ doc.noop => doc.status = "passed" /\ s.passed = 0
     /\ report_.fileErrors = <<>> => RunSummary(report_).failed = s.failed + s.errors
     /\ s.actions = Cardinality(Evidence(report_))

(***************************************************************************)
(* The separate traversals of a report agree: status, exit code, summary,  *)
(* diagnostics and evidence of a manifest tell one story, and the summary  *)
(* printed for humans tells the same.                                      *)
(***************************************************************************)
DocumentConsistent ==
  \A d \in Directories : LET r == store[d].manifest
    IN r \in Runs => Consistent(report[r], Document(report[r]))

BundleOf(r) ==
  /\ store[dir[r]].manifest = r
  /\ {e \in store[dir[r]].evidence : e.run = r}
       = {[run |-> r, key |-> key] : key \in Evidence(report[r])}

\* Another run took the same directory: any time if one of them has a clock id, while both
\* were running if both have a fixed one.
Shared(r) ==
  \E s \in Runs \ {r} :
    /\ dir[s] = dir[r]
    /\ (runId[r] # None /\ runId[s] # None) => r \notin over[s] /\ s \notin over[r]

(***************************************************************************)
(* The exit code of a report is never given without the evidence: the      *)
(* manifest and every file it refers to are there, unless another run      *)
(* shares the directory (main.rs: continuing "would let CI report success  *)
(* with no artifact evidence").                                            *)
(***************************************************************************)
EvidenceBehindVerdict ==
  \A r \in Runs :
    /\ (exit[r] # None /\ exit[r].code \in {0, 1}) => Exited(r, "report")
    /\ Exited(r, "report") => dir[r] # None /\ (BundleOf(r) \/ Shared(r))

(***************************************************************************)
(* A finished bundle under a fixed id is never touched by a run with one   *)
(* that starts writing after it was finished.                              *)
(***************************************************************************)
PriorRunKept ==
  [][\A r \in Runs :
       (Exited(r, "report") /\ runId[r] # None /\ BundleOf(r))
         => BundleOf(r)' \/ Shared(r)]_vars

(***************************************************************************)
(* "processExitCode": "The exit code `reportage run` will terminate with." *)
(* (spec/artifacts/run-result/schema.json).  Of a run that comes to its    *)
(* own end, neither killed nor stopped by a panic.                         *)
(***************************************************************************)
ManifestExitCode ==
  \A d \in Directories : LET r == store[d].manifest
    IN (r \in Runs /\ exit[r] # None /\ ~Exited(r, "killed") /\ ~Exited(r, "panic"))
         => exit[r].code = Document(report[r]).processExitCode

(***************************************************************************)
(* "A failed assertion appears here [in tests], not as a `diagnostics`     *)
(* entry" (docs/ai/validation-flow.md).                                    *)
(***************************************************************************)
FailuresAreNotDiagnostics ==
  \A d \in Directories : LET r == store[d].manifest
    IN r \in Runs => LET doc == Document(report[r]) IN doc.diagnostics = doc.summary.errors

(***************************************************************************)
(* Exit code 2 is "Script/config validation error [...] Examples include   *)
(* read errors, parse errors, unsupported syntax, invalid config"          *)
(* (docs/reference/exit-codes.md).                                         *)
(***************************************************************************)
InvalidConfigExitsTwo ==
  \A r \in Runs : Exited(r, "invalid_config") => exit[r].code = 2
=============================================================================
