------------------------- MODULE ReportageRunProofs -------------------------
(***************************************************************************)
(* Theorems about ReportageRun for every set of runs, results and bounds.  *)
(***************************************************************************)
EXTENDS ReportageRun, FiniteSetTheorems, WellFoundedInduction, TLAPS

Loading == {"start", "discover", "load"}

\* While files are loaded nothing has run; cases are run only without a file error.
Gate(label, rep) ==
  /\ label \in Loading => rep.cases = <<>>
  /\ label = "evaluate" => rep.fileErrors = <<>>
  /\ rep.fileErrors # <<>> => rep.cases = <<>>

GateInv ==
  /\ pc \in [Runs -> Labels]
  /\ report \in [Runs -> ExecutionReport]
  /\ \A r \in Runs : Gate(pc[r], report[r])

-----------------------------------------------------------------------------
\* A step of run `r` that leaves the reports alone.
LEMMA MoveKeepsGate ==
  ASSUME GateInv, NEW r \in Runs, NEW label \in Labels, Goto(r, label), UNCHANGED report,
         Gate(label, report[r])
  PROVE  GateInv'
<1>1. pc' \in [Runs -> Labels]
  BY DEF GateInv, Goto
<1>2. \A s \in Runs : Gate(pc'[s], report'[s])
  BY DEF GateInv, Goto
<1>. QED BY <1>1, <1>2 DEF GateInv

\* A step of run `r` that adds to its report and stays where it is.
LEMMA AddKeepsGate ==
  ASSUME GateInv, NEW r \in Runs, NEW rep \in ExecutionReport, UNCHANGED pc,
         report' = [report EXCEPT ![r] = rep], Gate(pc[r], rep)
  PROVE  GateInv'
<1>1. report' \in [Runs -> ExecutionReport]
  BY DEF GateInv
<1>2. \A s \in Runs : Gate(pc'[s], report'[s])
  BY DEF GateInv
<1>. QED BY <1>1, <1>2 DEF GateInv

(***************************************************************************)
(* Validation of every file precedes the execution of any case, in every   *)
(* run and however the runs interleave (run_scripts, main.rs).             *)
(***************************************************************************)
THEOREM GateHolds == Spec => []GateInv
<1>1. Init => GateInv
  BY DEF Init, GateInv, Gate, Labels, ExecutionReport
<1>2. GateInv /\ [Next]_vars => GateInv'
  <2> SUFFICES ASSUME GateInv, [Next]_vars PROVE GateInv'
    OBVIOUS
  <2>0. ASSUME NEW r \in Runs, NEW code, NEW cause, ExitWith(r, code, cause)
        PROVE  GateInv'
    <3>1. Gate("exited", report[r])
      BY DEF GateInv, Gate, Loading
    <3>. QED BY <2>0, <3>1, MoveKeepsGate DEF ExitWith, Labels
  <2>1. ASSUME NEW r \in Runs, NEW from \in {"mkdir", "open", "manifest", "evidence"},
               NEW to \in {"open", "manifest", "evidence", "render"}, Step(r, from, to)
        PROVE  GateInv'
    <3>1. Gate(to, report[r])
      BY DEF GateInv, Gate, Loading
    <3>. QED BY <2>1, <3>1, MoveKeepsGate DEF Step, Labels
  <2>2. ASSUME NEW r \in Runs, Proceed(r) PROVE GateInv'
    <3>1. CASE StartScripts(r) \/ ConfigAccepted(r) \/ Discover(r)
      <4>1. Gate("load", report[r]) /\ Gate("discover", report[r])
        BY <3>1 DEF StartScripts, ConfigAccepted, Discover, GateInv, Gate, Loading
      <4>. QED
        BY <3>1, <4>1, MoveKeepsGate DEF StartScripts, ConfigAccepted, Discover, Labels
    <3>2. CASE \/ RejectUsage(r) \/ RejectArguments(r) \/ ConfigRefused(r) \/ DiscoveryFails(r)
               \/ RefuseRunId(r) \/ ArtifactFails(r) \/ Render(r) \/ RenderPanics(r)
      BY <3>2, <2>0 DEF RejectUsage, RejectArguments, ConfigRefused, DiscoveryFails,
           RefuseRunId, ArtifactFails, Render, RenderPanics
    <3>3. CASE LoadFile(r)
      <4>0. pc[r] = "load" /\ report[r] \in ExecutionReport /\ UNCHANGED pc
        BY <3>3 DEF LoadFile, GateInv
      <4>1. CASE UNCHANGED report
        BY <4>0, <4>1 DEF GateInv
      <4>2. ASSUME NEW e \in FileErrorKinds,
                   report' = [report EXCEPT ![r].fileErrors = Append(@, e)]
            PROVE  GateInv'
        <5> DEFINE rep == [report[r] EXCEPT !.fileErrors = Append(@, e)]
        <5>0. Append(report[r].fileErrors, e) \in Seq(FileErrorKinds)
          BY <4>0 DEF ExecutionReport
        <5>1. rep \in ExecutionReport /\ rep.cases = report[r].cases
          BY <4>0, <5>0 DEF ExecutionReport
        <5>2. Gate(pc[r], rep)
          BY <4>0, <5>1 DEF GateInv, Gate, Loading
        <5>3. report' = [report EXCEPT ![r] = rep]
          BY <4>2
        <5>. QED BY <4>0, <5>1, <5>2, <5>3, AddKeepsGate
      <4>. QED BY <3>3, <4>1, <4>2 DEF LoadFile
    <3>4. CASE AllLoaded(r)
      <4>1. /\ report[r].fileErrors # <<>> => Gate("writer", report[r])
            /\ report[r].fileErrors = <<>> => Gate("evaluate", report[r])
        BY <3>4 DEF AllLoaded, GateInv, Gate, Loading
      <4>. QED BY <3>4, <4>1, MoveKeepsGate DEF AllLoaded, Labels
    <3>5. CASE EvaluateCase(r)
      <4>0. pc[r] = "evaluate" /\ report[r] \in ExecutionReport /\ UNCHANGED pc
        BY <3>5 DEF EvaluateCase, GateInv
      <4>1. PICK result \in CaseResults :
              report' = [report EXCEPT ![r].cases = Append(@, result)]
        BY <3>5 DEF EvaluateCase
      <4> DEFINE rep == [report[r] EXCEPT !.cases = Append(@, result)]
      <4>a. Append(report[r].cases, result) \in Seq(CaseResult)
        BY <4>0, ResultsAssumption DEF ExecutionReport
      <4>2. rep \in ExecutionReport /\ rep.fileErrors = report[r].fileErrors
        BY <4>0, <4>a DEF ExecutionReport
      <4>3. Gate(pc[r], rep)
        BY <4>0, <4>2 DEF GateInv, Gate, Loading
      <4>4. report' = [report EXCEPT ![r] = rep]
        BY <4>1
      <4>. QED BY <4>0, <4>2, <4>3, <4>4, AddKeepsGate
    <3>6. CASE AllEvaluated(r)
      <4>1. Gate("writer", report[r])
        BY DEF GateInv, Gate, Loading
      <4>. QED BY <3>6, <4>1, MoveKeepsGate DEF AllEvaluated, Labels
    <3>7. CASE ChooseDirectory(r)
      <4>1. Gate("mkdir", report[r])
        BY DEF GateInv, Gate, Loading
      <4>2. Goto(r, "mkdir") /\ UNCHANGED report
        BY <3>7 DEF ChooseDirectory, TakeDirectory
      <4>. QED BY <4>1, <4>2, MoveKeepsGate DEF Labels
    <3>8. CASE \/ MakeDirectory(r) \/ OpenManifest(r) \/ WriteManifest(r)
               \/ WriteEvidence(r) \/ EvidenceWritten(r)
      BY <3>8, <2>1 DEF MakeDirectory, OpenManifest, WriteManifest, WriteEvidence, EvidenceWritten
    <3>. QED
      BY <2>2, <3>1, <3>2, <3>3, <3>4, <3>5, <3>6, <3>7, <3>8 DEF Proceed
  <2>3. ASSUME NEW r \in Runs, Kill(r) PROVE GateInv'
    BY <2>0, <2>3 DEF Kill
  <2>4. CASE UNCHANGED vars
    BY <2>4 DEF vars, GateInv
  <2>. QED BY <2>2, <2>3, <2>4 DEF Next, AllOver
<1>. QED BY <1>1, <1>2, PTL DEF Spec

THEOREM ValidateBeforeExecuteTheorem == Spec => []ValidateBeforeExecute
<1>1. GateInv => ValidateBeforeExecute
  BY DEF GateInv, Gate, ValidateBeforeExecute
<1>. QED BY <1>1, GateHolds, PTL

-----------------------------------------------------------------------------
(* Type correctness.                                                       *)

\* Once a run may end with its report it has a directory.
Placed ==
  \A r \in Runs :
    pc[r] \in {"mkdir", "open", "manifest", "evidence", "render"} \/ Exited(r, "report")
      => dir[r] \in Directories

TInv == TypeOK /\ Placed

\* The greatest severity, of finitely many.
LEMMA MaxOfSeverities ==
  ASSUME NEW S \in SUBSET (0 .. 3), S # {}
  PROVE  Max(S) \in S /\ \A y \in S : Max(S) >= y
<1>1. \E x \in S : \A y \in S : x >= y
  <2>1. CASE 3 \in S
    BY <2>1
  <2>2. CASE 3 \notin S /\ 2 \in S
    BY <2>2
  <2>3. CASE 3 \notin S /\ 2 \notin S /\ 1 \in S
    BY <2>3
  <2>4. CASE 3 \notin S /\ 2 \notin S /\ 1 \notin S
    <3>1. PICK x \in S : TRUE
      OBVIOUS
    <3>2. \A y \in S : y = 0
      BY <2>4
    <3>. QED BY <3>1, <3>2
  <2>. QED BY <2>1, <2>2, <2>3, <2>4
<1>. QED BY <1>1 DEF Max

Severities(rep) == {0} \cup {Severity(rep.cases[i].status) : i \in DOMAIN rep.cases}

LEMMA SeverityBounds ==
  ASSUME NEW rep \in ExecutionReport
  PROVE  Severities(rep) \subseteq 0 .. 3
<1> SUFFICES ASSUME NEW i \in DOMAIN rep.cases PROVE Severity(rep.cases[i].status) \in 0 .. 3
  BY DEF Severities
<1>1. rep.cases[i] \in CaseResult
  BY DEF ExecutionReport
<1>. QED BY <1>1 DEF CaseResult, Statuses, Severity

LEMMA ExitCodeType ==
  ASSUME NEW rep \in ExecutionReport
  PROVE  ExitCode(rep) \in 0 .. 3
<1>1. Severities(rep) \subseteq 0 .. 3 /\ 0 \in Severities(rep)
  BY SeverityBounds DEF Severities
<1>2. Max(Severities(rep)) \in 0 .. 3
  BY <1>1, MaxOfSeverities
<1>. QED BY <1>2 DEF ExitCode, Severities

LEMMA EvidenceType ==
  ASSUME NEW rep \in ExecutionReport
  PROVE  Evidence(rep) \subseteq Nat \X Nat
<1> SUFFICES ASSUME NEW i \in DOMAIN rep.cases, NEW j \in 1 .. rep.cases[i].actions
             PROVE  <<i, j>> \in Nat \X Nat
  BY DEF Evidence
<1>1. rep.cases[i] \in CaseResult /\ i \in Nat
  BY DEF ExecutionReport
<1>. QED BY <1>1 DEF CaseResult

\* A process ends; nothing else of it changes.
LEMMA ExitTyped ==
  ASSUME TInv, NEW r \in Runs, NEW code \in {0, 1, 2, 3, 4, 101, 130}, NEW cause \in Causes,
         ExitWith(r, code, cause), UNCHANGED store, cause = "report" => dir[r] \in Directories
  PROVE  TInv'
<1>1. pc' \in [Runs -> Labels]
  BY DEF ExitWith, Goto, TInv, TypeOK, Labels
<1>2. \A s \in Runs : exit'[s] = IF s = r THEN [code |-> code, cause |-> cause] ELSE exit[s]
  BY DEF ExitWith, TInv, TypeOK
<1>3. TypeOK'
  BY <1>1, <1>2 DEF ExitWith, TInv, TypeOK, input, ExitRecord
<1>4. Placed'
  BY <1>2 DEF TInv, TypeOK, Placed, ExitWith, Goto, Exited
<1>. QED BY <1>3, <1>4 DEF TInv

\* A step that leaves the store and the directories alone.
LEMMA MoveTyped ==
  ASSUME TInv, NEW r \in Runs, NEW label \in Labels, Goto(r, label),
         pending' \in [Runs -> Nat], cases' \in [Runs -> Nat], report' \in [Runs -> ExecutionReport],
         UNCHANGED <<input, dir, exit, store, over>>,
         label \notin {"mkdir", "open", "manifest", "evidence", "render"}
  PROVE  TInv'
<1>1. pc' \in [Runs -> Labels] /\ \A s \in Runs : pc'[s] = IF s = r THEN label ELSE pc[s]
  BY DEF Goto, TInv, TypeOK
<1>2. TypeOK'
  BY <1>1 DEF TInv, TypeOK, input
<1>3. Placed'
  BY <1>1 DEF TInv, Placed, Exited
<1>. QED BY <1>2, <1>3 DEF TInv

\* A step of the artifact writer: the directory of the run becomes `bundle`.
LEMMA StoreTyped ==
  ASSUME TInv, NEW r \in Runs, NEW from \in {"mkdir", "open", "manifest", "evidence"},
         NEW to \in {"open", "manifest", "evidence", "render"}, Step(r, from, to),
         NEW bundle \in Bundle, store' = [store EXCEPT ![dir[r]] = bundle]
  PROVE  TInv'
<1>1. pc' \in [Runs -> Labels] /\ \A s \in Runs : pc'[s] = IF s = r THEN to ELSE pc[s]
  BY DEF Step, Goto, TInv, TypeOK, Labels
<1>2. dir[r] \in Directories
  BY DEF Step, TInv, Placed
<1>3. TypeOK'
  BY <1>1, <1>2 DEF Step, TInv, TypeOK, input
<1>4. Placed'
  BY <1>1, <1>2 DEF Step, TInv, Placed, Exited
<1>. QED BY <1>3, <1>4 DEF TInv

\* The steps of the artifact writer are the replacement of the directory of the run.
Bundles(r) ==
  \E bundle \in Bundle :
    /\ store' = [store EXCEPT ![dir[r]] = bundle]
    /\ bundle.exists \in {TRUE, store[dir[r]].exists}
    /\ \A e \in bundle.evidence :
         e \in store[dir[r]].evidence \/ (e.run = r /\ e.key \in Evidence(report[r]))
    /\ \/ Step(r, "mkdir", "open") /\ bundle.exists
       \/ Step(r, "open", "manifest")
       \/ Step(r, "manifest", "evidence") /\ bundle.manifest = r
       \/ Step(r, "evidence", "evidence") /\ bundle.manifest = store[dir[r]].manifest
       \/ Step(r, "evidence", "render") /\ bundle = store[dir[r]] /\ Unwritten(r) = {}

LEMMA WriterBundles ==
  ASSUME TInv, NEW r \in Runs,
         \/ MakeDirectory(r) \/ OpenManifest(r) \/ WriteManifest(r)
         \/ WriteEvidence(r) \/ EvidenceWritten(r)
  PROVE  Bundles(r)
<1>1. dir[r] \in Directories /\ store \in [Directories -> Bundle] /\ report[r] \in ExecutionReport
  BY DEF MakeDirectory, OpenManifest, WriteManifest, WriteEvidence, EvidenceWritten, Step,
         TInv, TypeOK, Placed
<1> DEFINE old == store[dir[r]]
<1>2. /\ old \in Bundle /\ old.exists \in BOOLEAN /\ old.manifest \in Runs \cup {None, Torn}
      /\ old.evidence \subseteq [run : Runs, key : Nat \X Nat]
  BY <1>1 DEF Bundle
<1>3. CASE MakeDirectory(r)
  <2>1. [old EXCEPT !.exists = TRUE] \in Bundle
    BY <1>2 DEF Bundle
  <2>2. store' = [store EXCEPT ![dir[r]] = [old EXCEPT !.exists = TRUE]]
    BY <1>3 DEF MakeDirectory
  <2>. QED BY <1>2, <1>3, <2>1, <2>2 DEF MakeDirectory, Bundles, Bundle
<1>4. CASE OpenManifest(r)
  <2>1. [old EXCEPT !.manifest = Torn] \in Bundle
    BY <1>2 DEF Bundle
  <2>2. store' = [store EXCEPT ![dir[r]] = [old EXCEPT !.manifest = Torn]]
    BY <1>4 DEF OpenManifest
  <2>. QED BY <1>2, <1>4, <2>1, <2>2 DEF OpenManifest, Bundles, Bundle
<1>5. CASE WriteManifest(r)
  <2>1. [old EXCEPT !.manifest = r] \in Bundle
    BY <1>2 DEF Bundle
  <2>2. store' = [store EXCEPT ![dir[r]] = [old EXCEPT !.manifest = r]]
    BY <1>5 DEF WriteManifest
  <2>. QED BY <1>2, <1>5, <2>1, <2>2 DEF WriteManifest, Bundles, Bundle
<1>6. CASE WriteEvidence(r)
  <2>1. PICK key \in Unwritten(r) :
          store' = [store EXCEPT ![dir[r]].evidence =
                      {e \in @ : e.key # key} \cup {[run |-> r, key |-> key]}]
    BY <1>6 DEF WriteEvidence
  <2> DEFINE entry == [run |-> r, key |-> key]
             evidence == {e \in old.evidence : e.key # key} \cup {entry}
             new == [old EXCEPT !.evidence = evidence]
  <2>2. key \in Evidence(report[r]) /\ key \in Nat \X Nat
    BY <1>1, EvidenceType DEF Unwritten
  <2>3. evidence \subseteq [run : Runs, key : Nat \X Nat]
    BY <1>2, <2>2
  <2>4. new \in Bundle /\ new.exists = old.exists /\ new.manifest = old.manifest
        /\ new.evidence = evidence
    BY <1>2, <2>3 DEF Bundle
  <2>5. store' = [store EXCEPT ![dir[r]] = new]
    BY <2>1
  <2>6. \A e \in evidence :
          e \in old.evidence \/ (e.run = r /\ e.key \in Evidence(report[r]))
    BY <2>2
  <2>7. Step(r, "evidence", "evidence")
    BY <1>6 DEF WriteEvidence
  <2>. HIDE DEF new, evidence
  <2>. QED BY <2>4, <2>5, <2>6, <2>7 DEF Bundles
<1>7. CASE EvidenceWritten(r)
  <2>1. store' = [store EXCEPT ![dir[r]] = old] /\ Step(r, "evidence", "render") /\ Unwritten(r) = {}
    BY <1>1, <1>7 DEF EvidenceWritten
  <2>. QED BY <1>2, <2>1 DEF Bundles
<1>. QED BY <1>3, <1>4, <1>5, <1>6, <1>7

LEMMA LoadedTyped ==
  ASSUME TInv, NEW r \in Runs, LoadFile(r) \/ EvaluateCase(r)
  PROVE  /\ pending' \in [Runs -> Nat] /\ cases' \in [Runs -> Nat]
         /\ report' \in [Runs -> ExecutionReport]
         /\ pc' = pc /\ pc[r] \in {"load", "evaluate"}
         /\ \A s \in Runs : s # r => report'[s] = report[s]
         /\ UNCHANGED <<input, dir, exit, store, over>>
<1>1. report[r] \in ExecutionReport /\ pending[r] \in Nat /\ cases[r] \in Nat
  BY DEF TInv, TypeOK
<1>2. pending[r] > 0 /\ pending' = [pending EXCEPT ![r] = @ - 1]
  BY DEF LoadFile, EvaluateCase
<1>3. pending' \in [Runs -> Nat]
  BY <1>1, <1>2 DEF TInv, TypeOK
<1>4. CASE LoadFile(r)
  <2>1. CASE UNCHANGED report
    <3>1. PICK n \in 0 .. MaxCases : cases' = [cases EXCEPT ![r] = @ + n] \/ cases' = cases
      BY <1>4, BoundsAssumption DEF LoadFile
    <3>2. n \in Nat
      BY BoundsAssumption
    <3>3. cases \in [Runs -> Nat] /\ report' \in [Runs -> ExecutionReport]
      BY <2>1 DEF TInv, TypeOK
    <3>4. cases' \in [Runs -> Nat]
      BY <1>1, <3>1, <3>2, <3>3
    <3>5. pc' = pc /\ pc[r] = "load" /\ UNCHANGED <<input, dir, exit, store, over>>
      BY <1>4 DEF LoadFile
    <3>. QED BY <1>3, <2>1, <3>3, <3>4, <3>5
  <2>2. ASSUME NEW e \in FileErrorKinds, UNCHANGED cases,
               report' = [report EXCEPT ![r].fileErrors = Append(@, e)]
        PROVE  /\ cases' \in [Runs -> Nat] /\ report' \in [Runs -> ExecutionReport]
               /\ \A s \in Runs : s # r => report'[s] = report[s]
    <3>1. Append(report[r].fileErrors, e) \in Seq(FileErrorKinds)
      BY <1>1 DEF ExecutionReport
    <3>2. [report[r] EXCEPT !.fileErrors = Append(@, e)] \in ExecutionReport
      BY <1>1, <3>1 DEF ExecutionReport
    <3>. QED BY <2>2, <3>2 DEF TInv, TypeOK
  <2>. QED BY <1>3, <1>4, <2>1, <2>2 DEF LoadFile
<1>5. CASE EvaluateCase(r)
  <2>1. PICK result \in CaseResults : report' = [report EXCEPT ![r].cases = Append(@, result)]
    BY <1>5 DEF EvaluateCase
  <2>2. Append(report[r].cases, result) \in Seq(CaseResult)
    BY <1>1, ResultsAssumption DEF ExecutionReport
  <2>3. [report[r] EXCEPT !.cases = Append(@, result)] \in ExecutionReport
    BY <1>1, <2>2 DEF ExecutionReport
  <2>. QED BY <1>3, <1>5, <2>1, <2>3 DEF EvaluateCase, TInv, TypeOK
<1>. QED BY <1>4, <1>5

\* Before the artifact writer; the directory is chosen there, the reports are made before.
Early == {"start", "discover", "load", "evaluate", "writer"}

Prepares(r) ==
  /\ pc[r] \in Early
  /\ \E label \in Early : Goto(r, label)
  /\ pending' \in [Runs -> Nat] /\ cases' \in [Runs -> Nat]
  /\ report' \in [Runs -> ExecutionReport]
  /\ \A s \in Runs : s # r => report'[s] = report[s]
  /\ UNCHANGED <<input, dir, exit, store, over>>

Chooses(r) ==
  /\ pc[r] = "writer"
  /\ \E d \in Directories : TakeDirectory(r, d) /\ (runId[r] # None => ~store[d].exists)

Ends(r) ==
  \E code \in {0, 1, 2, 3, 4, 101, 130} : \E cause \in Causes :
    /\ ExitWith(r, code, cause) /\ UNCHANGED store
    /\ pc[r] # "exited"
    /\ cause = "report" => pc[r] = "render"
    /\ code \in {0, 1} => cause = "report"

\* The steps of a run are of four kinds.
LEMMA StepKinds ==
  ASSUME TInv, NEW r \in Runs, Proceed(r) \/ Kill(r)
  PROVE  Prepares(r) \/ Chooses(r) \/ Bundles(r) \/ Ends(r)
<1>1. CASE LoadFile(r) \/ EvaluateCase(r)
  <2>1. Goto(r, pc[r])
    BY <1>1, LoadedTyped DEF Goto, TInv, TypeOK
  <2>. QED BY <1>1, <2>1, LoadedTyped DEF Prepares, Early
<1>2. CASE \/ StartScripts(r) \/ ConfigAccepted(r) \/ Discover(r)
           \/ AllLoaded(r) \/ AllEvaluated(r)
  <2>1. /\ pc[r] \in Early /\ \E label \in Early : Goto(r, label)
        /\ UNCHANGED <<input, cases, report, dir, exit, store, over>>
    BY <1>2 DEF StartScripts, ConfigAccepted, Discover, AllLoaded, AllEvaluated, Early
  <2>2. pending' \in [Runs -> Nat]
    BY <1>2, BoundsAssumption
       DEF StartScripts, ConfigAccepted, Discover, AllLoaded, AllEvaluated, TInv, TypeOK
  <2>. QED BY <2>1, <2>2 DEF Prepares, TInv, TypeOK
<1>3. CASE ChooseDirectory(r)
  <2>1. CASE runId[r] = None
    BY <1>3, <2>1 DEF ChooseDirectory, Chooses, Directories
  <2>2. CASE runId[r] # None
    <3>1. Usable(runId[r]) /\ TakeDirectory(r, runId[r]) /\ pc[r] = "writer"
      BY <1>3, <2>2 DEF ChooseDirectory
    <3>2. runId[r] \in Directories /\ ~store[runId[r]].exists
      BY <2>2, <3>1 DEF Usable, Available, TInv, TypeOK, Directories
    <3>. QED BY <3>1, <3>2 DEF Chooses
  <2>. QED BY <2>1, <2>2
<1>4. CASE \/ MakeDirectory(r) \/ OpenManifest(r) \/ WriteManifest(r)
           \/ WriteEvidence(r) \/ EvidenceWritten(r)
  BY <1>4, WriterBundles
<1>5. CASE Render(r)
  <2>1. ExitCode(report[r]) \in 0 .. 3
    BY ExitCodeType DEF TInv, TypeOK
  <2>. QED BY <1>5, <2>1 DEF Render, Ends, Causes
<1>6. CASE \/ RejectUsage(r) \/ RejectArguments(r) \/ ConfigRefused(r) \/ DiscoveryFails(r)
  BY <1>6 DEF RejectUsage, RejectArguments, ConfigRefused, DiscoveryFails, Ends, Causes
<1>7. CASE RefuseRunId(r) \/ ArtifactFails(r) \/ RenderPanics(r) \/ Kill(r)
  BY <1>7 DEF RefuseRunId, ArtifactFails, Writing, RenderPanics, Kill, Ends, Causes
<1>. QED BY <1>1, <1>2, <1>3, <1>4, <1>5, <1>6, <1>7 DEF Proceed

LEMMA StepKeepsType ==
  ASSUME TInv, NEW r \in Runs, Prepares(r) \/ Chooses(r) \/ Bundles(r) \/ Ends(r)
  PROVE  TInv'
<1>1. CASE Prepares(r)
  BY <1>1, MoveTyped DEF Prepares, Early, Labels
<1>2. CASE Chooses(r)
  <2>1. PICK d \in Directories : TakeDirectory(r, d)
    BY <1>2 DEF Chooses
  <2>2. /\ \A s \in Runs : pc'[s] = IF s = r THEN "mkdir" ELSE pc[s]
        /\ \A s \in Runs : dir'[s] = IF s = r THEN d ELSE dir[s]
        /\ pc' \in [Runs -> Labels] /\ dir' \in [Runs -> Directories \cup {None}]
        /\ over' \in [Runs -> SUBSET Runs]
    BY <2>1 DEF TakeDirectory, Goto, TInv, TypeOK, Labels
  <2>3. TypeOK'
    BY <2>1, <2>2 DEF TakeDirectory, TInv, TypeOK, input
  <2>4. Placed'
    BY <2>1, <2>2 DEF TakeDirectory, TInv, Placed, Exited
  <2>. QED BY <2>3, <2>4 DEF TInv
<1>3. CASE Bundles(r)
  BY <1>3, StoreTyped DEF Bundles
<1>4. CASE Ends(r)
  BY <1>4, ExitTyped DEF Ends, TInv, Placed
<1>. QED BY <1>1, <1>2, <1>3, <1>4

LEMMA TypeInvariant == Spec => []TInv
<1>1. Init => TInv
  BY DEF Init, TInv, TypeOK, Placed, Exited, ExecutionReport, Bundle, Labels
<1>2. TInv /\ [Next]_vars => TInv'
  <2> SUFFICES ASSUME TInv, [Next]_vars PROVE TInv'
    OBVIOUS
  <2>1. ASSUME NEW r \in Runs, Proceed(r) \/ Kill(r) PROVE TInv'
    BY <2>1, StepKinds, StepKeepsType
  <2>2. CASE UNCHANGED vars
    BY <2>2 DEF vars, input, TInv, TypeOK, Placed, Exited
  <2>. QED BY <2>1, <2>2 DEF Next, AllOver
<1>. QED BY <1>1, <1>2, PTL DEF Spec

(***************************************************************************)
(* Every state of any number of runs over one store is well typed: in      *)
(* particular every process exit code is one of the documented ones, a     *)
(* panic's or a signal's (ExecutionReport::exit_code, main.rs).            *)
(***************************************************************************)
THEOREM TypeCorrect == Spec => []TypeOK
<1>1. TInv => TypeOK
  BY DEF TInv
<1>. QED BY <1>1, TypeInvariant, PTL

-----------------------------------------------------------------------------
(* Evidence behind every verdict.                                          *)

Wrote(r) == pc[r] \in {"open", "manifest", "evidence", "render"} \/ Exited(r, "report")
Signed(r) == pc[r] \in {"evidence", "render"} \/ Exited(r, "report")
Complete(r) == pc[r] = "render" \/ Exited(r, "report")

\* Who has an exit code is over, and who chose a directory late knows who was over.
OverInv ==
  \A r \in Runs :
    /\ exit[r] # None => pc[r] = "exited" /\ (exit[r].code \in {0, 1} => exit[r].cause = "report")
    /\ pc[r] \in Early => dir[r] = None
    /\ \A s \in over[r] : pc[s] = "exited"

\* A fixed id is refused where a run has written: no finished run's directory is taken.
TakenInv ==
  /\ \A r \in Runs : Wrote(r) => store[dir[r]].exists
  /\ \A r, s \in Runs :
       (r # s /\ runId[s] # None /\ dir[s] \in Directories /\ dir[s] = dir[r] /\ r \in over[s])
         => ~Exited(r, "report")

\* What a run has of its bundle at each stage, unless another has the same directory.
BundleInv ==
  /\ \A r \in Runs : Signed(r) => store[dir[r]].manifest = r \/ Shared(r)
  /\ \A r \in Runs : Complete(r) => Unwritten(r) = {} \/ Shared(r)
  /\ \A d \in Directories : \A e \in store[d].evidence :
       dir[e.run] = d /\ e.key \in Evidence(report[e.run])

EInv == OverInv /\ TakenInv /\ BundleInv

\* A run that writes where another has signed shares the directory with it.
LEMMA WriterShares ==
  ASSUME TInv, EInv, NEW r \in Runs, NEW s \in Runs, r # s, Signed(r), dir[s] = dir[r],
         pc[s] \in {"mkdir", "open", "manifest", "evidence"}
  PROVE  Shared(r)
<1>1. s \notin over[r] /\ dir[s] \in Directories
  BY DEF EInv, OverInv, TInv, Placed
<1>2. runId[s] # None => r \notin over[s]
  <2> SUFFICES ASSUME runId[s] # None, r \in over[s] PROVE FALSE
    OBVIOUS
  <2>1. pc[r] = "exited"
    BY DEF EInv, OverInv
  <2>2. Exited(r, "report")
    BY <2>1 DEF Signed
  <2>. QED BY <1>1, <2>2 DEF EInv, TakenInv
<1>. QED BY <1>1, <1>2 DEF Shared

LEMMA SharedStays ==
  ASSUME UNCHANGED runId, NEW r \in Runs, Shared(r), dir[r] \in Directories,
         \A s \in Runs : dir[s] \in Directories => dir'[s] = dir[s] /\ over'[s] = over[s]
  PROVE  Shared(r)'
<1>1. PICK s \in Runs \ {r} :
        /\ dir[s] = dir[r]
        /\ (runId[r] # None /\ runId[s] # None) => r \notin over[s] /\ s \notin over[r]
  BY DEF Shared
<1>2. dir'[s] = dir'[r] /\ over'[s] = over[s] /\ over'[r] = over[r]
  BY <1>1
<1>. QED BY <1>1, <1>2 DEF Shared

LEMMA EndsKeepsEvidence ==
  ASSUME TInv, EInv, NEW r \in Runs, Ends(r)
  PROVE  EInv'
<1>1. PICK code \in {0, 1, 2, 3, 4, 101, 130}, cause \in Causes :
        /\ ExitWith(r, code, cause) /\ UNCHANGED store
        /\ pc[r] # "exited"
        /\ cause = "report" => pc[r] = "render"
        /\ code \in {0, 1} => cause = "report"
  BY DEF Ends
<1>2. /\ \A s \in Runs : pc'[s] = IF s = r THEN "exited" ELSE pc[s]
      /\ \A s \in Runs : exit'[s] = IF s = r THEN [code |-> code, cause |-> cause] ELSE exit[s]
      /\ UNCHANGED <<runId, report, dir, over, store>>
  BY <1>1 DEF ExitWith, Goto, input, TInv, TypeOK
<1>3. \A s \in Runs : /\ Exited(s, "report")' => Exited(s, "report") \/ pc[s] = "render"
                      /\ Wrote(s)' => Wrote(s)
                      /\ Signed(s)' => Signed(s)
                      /\ Complete(s)' => Complete(s)
  BY <1>1, <1>2 DEF Exited, Wrote, Signed, Complete
<1>4. OverInv'
  BY <1>1, <1>2 DEF EInv, OverInv, Early, TInv, TypeOK
<1>5. TakenInv'
  BY <1>2, <1>3 DEF EInv, TakenInv, OverInv
<1>6. \A s \in Runs : Shared(s)' = Shared(s) /\ Unwritten(s)' = Unwritten(s)
  BY <1>2 DEF Shared, Unwritten, Written
<1>7. BundleInv'
  BY <1>2, <1>3, <1>6 DEF EInv, BundleInv
<1>. QED BY <1>4, <1>5, <1>7 DEF EInv

LEMMA PreparesKeepsEvidence ==
  ASSUME TInv, EInv, NEW r \in Runs, Prepares(r)
  PROVE  EInv'
<1>1. PICK label \in Early : Goto(r, label)
  BY DEF Prepares
<1>2. /\ pc[r] \in Early /\ dir[r] = None
      /\ \A s \in Runs : pc'[s] = IF s = r THEN label ELSE pc[s]
      /\ \A s \in Runs : s # r => report'[s] = report[s]
      /\ UNCHANGED <<runId, dir, exit, over, store>>
  BY <1>1 DEF Prepares, Goto, input, TInv, TypeOK, EInv, OverInv
<1>3. \A s \in Runs : /\ Exited(s, "report")' = Exited(s, "report")
                      /\ Wrote(s)' => Wrote(s)
                      /\ Signed(s)' => Signed(s)
                      /\ Complete(s)' => Complete(s)
  BY <1>2 DEF Exited, Wrote, Signed, Complete, Early
<1>4. \A s \in Runs : Complete(s)' => s # r
  BY <1>2 DEF Complete, Exited, Early, EInv, OverInv
<1>5. OverInv'
  BY <1>2 DEF EInv, OverInv, Early, TInv, TypeOK
<1>6. TakenInv'
  BY <1>2, <1>3 DEF EInv, TakenInv
<1>7. \A s \in Runs : Shared(s)' = Shared(s) /\ (s # r => Unwritten(s)' = Unwritten(s))
  BY <1>2 DEF Shared, Unwritten, Written
<1>8. ASSUME NEW d \in Directories, NEW e \in store'[d].evidence
      PROVE  dir'[e.run] = d /\ e.key \in Evidence(report'[e.run])
  <2>1. /\ e \in store[d].evidence /\ dir[e.run] = d /\ e.key \in Evidence(report[e.run])
        /\ store[d] \in Bundle
    BY <1>2, <1>8 DEF EInv, BundleInv, TInv, TypeOK
  <2>2. e.run \in Runs
    BY <2>1 DEF Bundle
  <2>3. e.run # r
    BY <1>2, <2>1, NoneAssumption DEF Directories
  <2>. QED BY <1>2, <2>1, <2>2, <2>3
<1>9. BundleInv'
  BY <1>2, <1>3, <1>4, <1>7, <1>8 DEF EInv, BundleInv
<1>. QED BY <1>5, <1>6, <1>9 DEF EInv

LEMMA ChoosesKeepsEvidence ==
  ASSUME TInv, EInv, NEW r \in Runs, Chooses(r)
  PROVE  EInv'
<1>1. PICK d \in Directories : TakeDirectory(r, d) /\ (runId[r] # None => ~store[d].exists)
  BY DEF Chooses
<1>2. /\ pc[r] = "writer" /\ dir[r] = None /\ None \notin Directories
      /\ \A s \in Runs : pc'[s] = IF s = r THEN "mkdir" ELSE pc[s]
      /\ \A s \in Runs : dir'[s] = IF s = r THEN d ELSE dir[s]
      /\ \A s \in Runs : over'[s] = IF s = r THEN {q \in Runs : pc[q] = "exited"} ELSE over[s]
      /\ UNCHANGED <<runId, report, exit, store>>
  BY <1>1, NoneAssumption
     DEF Chooses, TakeDirectory, Goto, input, TInv, TypeOK, EInv, OverInv, Early, Directories
<1>3. \A s \in Runs : /\ Exited(s, "report")' = Exited(s, "report")
                      /\ Wrote(s)' => Wrote(s) /\ s # r
                      /\ Signed(s)' => Signed(s) /\ s # r
                      /\ Complete(s)' => Complete(s) /\ s # r
  BY <1>2 DEF Exited, Wrote, Signed, Complete, EInv, OverInv
<1>4. OverInv'
  <2>1. ASSUME NEW s \in Runs
        PROVE  /\ exit'[s] # None => /\ pc'[s] = "exited"
                                     /\ exit'[s].code \in {0, 1} => exit'[s].cause = "report"
               /\ pc'[s] \in Early => dir'[s] = None
    BY <1>2 DEF EInv, OverInv, Early
  <2>2. ASSUME NEW s \in Runs PROVE \A q \in over'[s] : pc'[q] = "exited"
    <3>1. \A q \in over'[s] : q \in Runs /\ pc[q] = "exited"
      <4>1. CASE s = r
        BY <1>2, <4>1
      <4>2. CASE s # r
        BY <1>2, <4>2 DEF EInv, OverInv, TInv, TypeOK
      <4>. QED BY <4>1, <4>2
    <3>. QED BY <1>2, <3>1
  <2>. QED BY <2>1, <2>2 DEF OverInv
<1>5. TakenInv'
  <2>1. \A s \in Runs : Wrote(s)' => store'[dir'[s]].exists
    BY <1>2, <1>3 DEF EInv, TakenInv
  <2>2. ASSUME NEW q \in Runs, NEW s \in Runs, q # s, runId'[s] # None, dir'[s] \in Directories,
               dir'[s] = dir'[q], q \in over'[s], Exited(q, "report")'
        PROVE  FALSE
    <3>1. Exited(q, "report") /\ Wrote(q) /\ pc[q] = "exited" /\ q # r
      BY <1>2, <1>3, <2>2 DEF Wrote, Exited, EInv, OverInv
    <3>2. CASE s = r
      BY <1>1, <1>2, <2>2, <3>1, <3>2 DEF EInv, TakenInv
    <3>3. CASE s # r
      BY <1>2, <2>2, <3>1, <3>3 DEF EInv, TakenInv
    <3>. QED BY <3>2, <3>3
  <2>. QED BY <2>1, <2>2 DEF TakenInv
<1>6. \A s \in Runs : dir[s] \in Directories => dir'[s] = dir[s] /\ over'[s] = over[s]
  BY <1>2
<1>7. \A s \in Runs : Signed(s) \/ Complete(s) => dir[s] \in Directories
  BY DEF Signed, Complete, TInv, Placed
<1>8. \A s \in Runs : (Signed(s) \/ Complete(s)) /\ Shared(s) => Shared(s)'
  BY <1>2, <1>6, <1>7, SharedStays
<1>9. \A s \in Runs : s # r => Unwritten(s)' = Unwritten(s)
  BY <1>2 DEF Unwritten, Written
<1>10. ASSUME NEW p \in Directories, NEW e \in store'[p].evidence
       PROVE  dir'[e.run] = p /\ e.key \in Evidence(report'[e.run])
  <2>1. /\ e \in store[p].evidence /\ dir[e.run] = p /\ e.key \in Evidence(report[e.run])
        /\ store[p] \in Bundle
    BY <1>2, <1>10 DEF EInv, BundleInv, TInv, TypeOK
  <2>2. e.run \in Runs /\ e.run # r
    BY <1>2, <2>1 DEF Bundle
  <2>. QED BY <1>2, <2>1, <2>2
<1>11. \A s \in Runs : Signed(s)' => store'[dir'[s]].manifest = s \/ Shared(s)'
  BY <1>2, <1>3, <1>8 DEF EInv, BundleInv
<1>12. \A s \in Runs : Complete(s)' => Unwritten(s)' = {} \/ Shared(s)'
  BY <1>3, <1>8, <1>9 DEF EInv, BundleInv
<1>13. BundleInv'
  BY <1>10, <1>11, <1>12 DEF BundleInv
<1>. QED BY <1>4, <1>5, <1>13 DEF EInv

LEMMA BundlesKeepsEvidence ==
  ASSUME TInv, EInv, NEW r \in Runs, Bundles(r)
  PROVE  EInv'
<1>1. PICK bundle \in Bundle :
        /\ store' = [store EXCEPT ![dir[r]] = bundle]
        /\ bundle.exists \in {TRUE, store[dir[r]].exists}
        /\ \A e \in bundle.evidence :
             e \in store[dir[r]].evidence \/ (e.run = r /\ e.key \in Evidence(report[r]))
        /\ \/ Step(r, "mkdir", "open") /\ bundle.exists
           \/ Step(r, "open", "manifest")
           \/ Step(r, "manifest", "evidence") /\ bundle.manifest = r
           \/ Step(r, "evidence", "evidence") /\ bundle.manifest = store[dir[r]].manifest
           \/ Step(r, "evidence", "render") /\ bundle = store[dir[r]] /\ Unwritten(r) = {}
  BY DEF Bundles
<1>2. PICK to \in {"open", "manifest", "evidence", "render"} : Goto(r, to)
  BY <1>1 DEF Step
<1>3. /\ pc[r] \in {"mkdir", "open", "manifest", "evidence"}
      /\ \A s \in Runs : pc'[s] = IF s = r THEN to ELSE pc[s]
      /\ UNCHANGED <<runId, report, dir, exit, over>>
  BY <1>1, <1>2 DEF Step, Goto, input, TInv, TypeOK
<1>4. /\ dir[r] \in Directories
      /\ store'[dir[r]] = bundle
      /\ \A d \in Directories : d # dir[r] => store'[d] = store[d]
      /\ \A d \in Directories : store[d].exists => store'[d].exists
  BY <1>1, <1>3 DEF TInv, TypeOK, Placed
<1>5. \A s \in Runs : s # r => /\ Exited(s, "report")' = Exited(s, "report")
                               /\ Wrote(s)' = Wrote(s)
                               /\ Signed(s)' = Signed(s)
                               /\ Complete(s)' = Complete(s)
  BY <1>3 DEF Exited, Wrote, Signed, Complete
<1>6. exit[r] = None /\ ~Exited(r, "report") /\ ~Exited(r, "report")'
  BY <1>3 DEF Exited, EInv, OverInv
<1>7. \A s \in Runs : Shared(s)' = Shared(s)
  BY <1>3 DEF Shared
<1>8. \A s \in Runs : Signed(s) => dir[s] \in Directories
  BY DEF Signed, TInv, Placed
<1>9. \A s \in Runs : Wrote(s) => dir[s] \in Directories
  BY DEF Wrote, TInv, Placed
<1>10. \A s \in Runs : s # r /\ Signed(s) /\ dir[s] = dir[r] => Shared(s)
  BY <1>3, WriterShares
<1>11. OverInv'
  <2>1. ASSUME NEW s \in Runs
        PROVE  /\ exit'[s] # None => /\ pc'[s] = "exited"
                                     /\ exit'[s].code \in {0, 1} => exit'[s].cause = "report"
               /\ pc'[s] \in Early => dir'[s] = None
    BY <1>3, <1>6 DEF EInv, OverInv, Early
  <2>2. ASSUME NEW s \in Runs PROVE \A q \in over'[s] : pc'[q] = "exited"
    <3>1. \A q \in over'[s] : q \in Runs /\ pc[q] = "exited"
      BY <1>3 DEF EInv, OverInv, TInv, TypeOK
    <3>. QED BY <1>3, <3>1
  <2>. QED BY <2>1, <2>2 DEF OverInv
<1>12. TakenInv'
  <2>1. store'[dir[r]].exists
    <3>1. CASE pc[r] = "mkdir"
      BY <1>1, <1>4, <3>1 DEF Step
    <3>2. CASE pc[r] # "mkdir"
      BY <1>3, <1>4, <3>2 DEF EInv, TakenInv, Wrote
    <3>. QED BY <3>1, <3>2
  <2>2. ASSUME NEW s \in Runs, Wrote(s)' PROVE store'[dir'[s]].exists
    BY <1>3, <1>4, <1>5, <1>9, <2>1, <2>2 DEF EInv, TakenInv
  <2>3. ASSUME NEW q \in Runs, NEW s \in Runs, q # s, runId'[s] # None, dir'[s] \in Directories,
               dir'[s] = dir'[q], q \in over'[s], Exited(q, "report")'
        PROVE  FALSE
    BY <1>3, <1>5, <1>6, <2>3 DEF EInv, TakenInv
  <2>. QED BY <2>2, <2>3 DEF TakenInv
<1>13. ASSUME NEW s \in Runs, Signed(s)' PROVE store'[dir'[s]].manifest = s \/ Shared(s)'
  <2>1. CASE s # r /\ dir[s] = dir[r]
    BY <1>5, <1>7, <1>10, <1>13, <2>1
  <2>2. CASE s # r /\ dir[s] # dir[r]
    BY <1>3, <1>4, <1>5, <1>7, <1>8, <1>13, <2>2 DEF EInv, BundleInv
  <2>3. CASE s = r /\ pc[r] = "manifest"
    BY <1>1, <1>3, <1>4, <2>3 DEF Step
  <2>4. CASE s = r /\ pc[r] = "evidence"
    <3>1. bundle.manifest = store[dir[r]].manifest /\ Signed(r)
      BY <1>1, <2>4 DEF Step, Signed
    <3>. QED BY <1>3, <1>4, <1>7, <2>4, <3>1 DEF EInv, BundleInv
  <2>5. s = r => pc[r] \in {"manifest", "evidence"}
    BY <1>1, <1>3, <1>6, <1>13 DEF Signed, Step, Goto, TInv, TypeOK
  <2>. QED BY <2>1, <2>2, <2>3, <2>4, <2>5
<1>14. ASSUME NEW s \in Runs, Complete(s)' PROVE Unwritten(s)' = {} \/ Shared(s)'
  <2>1. CASE s # r
    <3>1. Signed(s) /\ Complete(s)
      BY <1>5, <1>14, <2>1 DEF Signed, Complete
    <3>2. CASE dir[s] = dir[r]
      BY <1>7, <1>10, <2>1, <3>1, <3>2
    <3>3. CASE dir[s] # dir[r]
      <4>1. Unwritten(s)' = Unwritten(s)
        BY <1>3, <1>4, <1>8, <3>1, <3>3 DEF Unwritten, Written
      <4>. QED BY <1>7, <3>1, <4>1 DEF EInv, BundleInv
    <3>. QED BY <3>2, <3>3
  <2>2. CASE s = r
    <3>1. to = "render" /\ bundle = store[dir[r]] /\ Unwritten(r) = {}
      BY <1>1, <1>3, <1>6, <1>14, <2>2 DEF Complete, Step, Goto, TInv, TypeOK
    <3>2. Unwritten(r)' = Unwritten(r)
      BY <1>3, <1>4, <3>1 DEF Unwritten, Written
    <3>. QED BY <2>2, <3>1, <3>2
  <2>. QED BY <2>1, <2>2
<1>15. ASSUME NEW d \in Directories, NEW e \in store'[d].evidence
       PROVE  dir'[e.run] = d /\ e.key \in Evidence(report'[e.run])
  BY <1>1, <1>3, <1>4, <1>15 DEF EInv, BundleInv
<1>16. BundleInv'
  BY <1>13, <1>14, <1>15 DEF BundleInv
<1>. QED BY <1>11, <1>12, <1>16 DEF EInv

LEMMA EvidenceInvariant == Spec => [](TInv /\ EInv)
<1>1. Init => EInv
  BY DEF Init, EInv, OverInv, TakenInv, BundleInv, Wrote, Signed, Complete, Exited
<1>2. TInv /\ EInv /\ [Next]_vars => EInv'
  <2> SUFFICES ASSUME TInv, EInv, [Next]_vars PROVE EInv'
    OBVIOUS
  <2>1. ASSUME NEW r \in Runs, Proceed(r) \/ Kill(r) PROVE EInv'
    BY <2>1, StepKinds, EndsKeepsEvidence, PreparesKeepsEvidence, ChoosesKeepsEvidence,
       BundlesKeepsEvidence
  <2>2. CASE UNCHANGED vars
    BY <2>2 DEF vars, input, EInv, OverInv, TakenInv, BundleInv, Wrote, Signed, Complete,
                Exited, Shared, Unwritten, Written
  <2>. QED BY <2>1, <2>2 DEF Next, AllOver
<1>. QED BY <1>1, <1>2, TypeInvariant, PTL DEF Spec

LEMMA CompleteBundle ==
  ASSUME TInv, EInv, NEW r \in Runs, Complete(r)
  PROVE  BundleOf(r) \/ Shared(r)
<1> SUFFICES ASSUME ~Shared(r) PROVE BundleOf(r)
  OBVIOUS
<1>1. dir[r] \in Directories /\ Signed(r)
  BY DEF Complete, Signed, TInv, Placed
<1>2. store[dir[r]].manifest = r /\ Unwritten(r) = {}
  BY <1>1 DEF EInv, BundleInv
<1>3. \A e \in store[dir[r]].evidence :
        /\ e \in [run : Runs, key : Nat \X Nat]
        /\ e.key \in Evidence(report[e.run])
  BY <1>1 DEF EInv, BundleInv, TInv, TypeOK, Bundle
<1>4. ASSUME NEW e \in store[dir[r]].evidence, e.run = r
      PROVE  e \in {[run |-> r, key |-> key] : key \in Evidence(report[r])}
  BY <1>3, <1>4
<1>5. ASSUME NEW key \in Evidence(report[r])
      PROVE  [run |-> r, key |-> key] \in {e \in store[dir[r]].evidence : e.run = r}
  <2>1. key \in Written(r)
    BY <1>2 DEF Unwritten
  <2>2. PICK e \in store[dir[r]].evidence : e.run = r /\ e.key = key
    BY <2>1 DEF Written
  <2>3. e = [run |-> r, key |-> key]
    BY <1>3, <2>2
  <2>. QED BY <2>2, <2>3
<1>. QED BY <1>2, <1>4, <1>5 DEF BundleOf

(***************************************************************************)
(* For any number of runs, any mix of fixed and clock ids, kills and       *)
(* failed writes: who exits with the code of its report has its manifest   *)
(* and all its evidence on disk, unless another run shares the directory   *)
(* (main.rs: the artifacts come before the verdict).                       *)
(***************************************************************************)
THEOREM EvidenceTheorem == Spec => []EvidenceBehindVerdict
<1>1. TInv /\ EInv => EvidenceBehindVerdict
  <2> SUFFICES ASSUME TInv, EInv, NEW r \in Runs
               PROVE  /\ (exit[r] # None /\ exit[r].code \in {0, 1}) => Exited(r, "report")
                      /\ Exited(r, "report") => dir[r] # None /\ (BundleOf(r) \/ Shared(r))
    BY DEF EvidenceBehindVerdict
  <2>1. (exit[r] # None /\ exit[r].code \in {0, 1}) => Exited(r, "report")
    BY DEF EInv, OverInv, Exited
  <2>2. ASSUME Exited(r, "report") PROVE dir[r] # None /\ (BundleOf(r) \/ Shared(r))
    <3>1. dir[r] \in Directories
      BY <2>2 DEF TInv, Placed
    <3>. QED BY <2>2, <3>1, CompleteBundle, NoneAssumption DEF Complete, Directories
  <2>. QED BY <2>1, <2>2
<1>. QED BY <1>1, EvidenceInvariant, PTL

LEMMA BundleStays ==
  ASSUME NEW r \in Runs, BundleOf(r), dir'[r] = dir[r], report'[r] = report[r],
         store'[dir[r]] = store[dir[r]]
  PROVE  BundleOf(r)'
BY DEF BundleOf

LEMMA StepKeepsBundle ==
  ASSUME TInv, EInv, NEW s \in Runs, Prepares(s) \/ Chooses(s) \/ Bundles(s) \/ Ends(s),
         NEW r \in Runs, Exited(r, "report"), BundleOf(r)
  PROVE  BundleOf(r)' \/ Shared(r)
<1>1. pc[r] = "exited" /\ Signed(r) /\ dir[r] \in Directories
  BY DEF Exited, EInv, OverInv, Signed, TInv, Placed
<1>2. CASE Prepares(s)
  <2>1. s # r
    BY <1>1, <1>2 DEF Prepares, Early
  <2>. QED BY <1>2, <2>1, BundleStays DEF Prepares
<1>3. CASE Chooses(s)
  <2>1. PICK d \in Directories : TakeDirectory(s, d) /\ pc[s] = "writer"
    BY <1>3 DEF Chooses
  <2>2. dir'[r] = dir[r] /\ UNCHANGED <<report, store>>
    BY <1>1, <2>1 DEF TakeDirectory, TInv, TypeOK
  <2>. QED BY <2>2, BundleStays
<1>4. CASE Ends(s)
  BY <1>4, BundleStays DEF Ends, ExitWith
<1>5. CASE Bundles(s)
  <2>1. /\ pc[s] \in {"mkdir", "open", "manifest", "evidence"}
        /\ UNCHANGED <<report, dir>>
        /\ \E bundle \in Bundle : store' = [store EXCEPT ![dir[s]] = bundle]
    BY <1>5 DEF Bundles, Step
  <2>2. CASE dir[s] = dir[r]
    BY <1>1, <2>1, <2>2, WriterShares
  <2>3. CASE dir[s] # dir[r]
    <3>1. store'[dir[r]] = store[dir[r]]
      BY <1>1, <2>1, <2>3 DEF TInv, TypeOK
    <3>. QED BY <2>1, <3>1, BundleStays
  <2>. QED BY <2>2, <2>3
<1>. QED BY <1>2, <1>3, <1>4, <1>5

(***************************************************************************)
(* The complete bundle of a run that has ended with its verdict is not     *)
(* touched, for any runs and directories, unless the directory is shared   *)
(* (RunId::new and the writer's refusal of an existing directory).         *)
(***************************************************************************)
THEOREM PriorRunTheorem == Spec => PriorRunKept
<1>1. TInv /\ EInv /\ [Next]_vars
        => [\A r \in Runs : (Exited(r, "report") /\ runId[r] # None /\ BundleOf(r))
                             => BundleOf(r)' \/ Shared(r)]_vars
  <2> SUFFICES ASSUME TInv, EInv, [Next]_vars,
                      NEW r \in Runs, Exited(r, "report"), BundleOf(r)
               PROVE  BundleOf(r)' \/ Shared(r)
    OBVIOUS
  <2>1. ASSUME NEW s \in Runs, Proceed(s) \/ Kill(s) PROVE BundleOf(r)' \/ Shared(r)
    BY <2>1, StepKinds, StepKeepsBundle
  <2>2. CASE UNCHANGED vars
    BY <2>2, BundleStays DEF vars
  <2>. QED BY <2>1, <2>2 DEF Next, AllOver
<1>. QED BY <1>1, EvidenceInvariant, PTL DEF Spec, PriorRunKept
-----------------------------------------------------------------------------
(* Sums: the sum of some counts is the size of a set of points that has,   *)
(* for each index, a row as long as its count.                             *)

Row(counts, i) == {<<i, j>> : j \in 1 .. counts[i]}
Rows(counts, indices) == UNION {Row(counts, i) : i \in indices}

LEMMA SmallestSet ==
  ASSUME NEW D, IsFiniteSet(D), NEW B \in SUBSET (SUBSET D), B # {}
  PROVE  \E s \in B : \A t \in B : ~(t \subseteq s /\ t # s)
<1>1. B \subseteq FiniteSubsetsOf(D)
  BY FS_Subset DEF FiniteSubsetsOf
<1>2. PICK s \in B : \A t \in B : <<t, s>> \notin StrictSubsetOrdering(D)
  BY <1>1, FS_StrictSubsetOrderingWellFounded, WFMin
<1> QED BY <1>2 DEF StrictSubsetOrdering

LEMMA RowSize ==
  ASSUME NEW D, NEW counts \in [D -> Nat], NEW i \in D
  PROVE  IsFiniteSet(Row(counts, i)) /\ Cardinality(Row(counts, i)) = counts[i]
<1> DEFINE n == counts[i]
           f == [j \in 1 .. n |-> <<i, j>>]
<1>1. f \in Bijection(1 .. n, Row(counts, i))
  <2>1. \A j \in 1 .. n : f[j] = <<i, j>> /\ <<i, j>> \in Row(counts, i)
    BY DEF Row
  <2>2. f \in [1 .. n -> Row(counts, i)]
    BY <2>1
  <2>3. \A j, k \in 1 .. n : f[j] = f[k] => j = k
    BY <2>1
  <2>4. \A p \in Row(counts, i) : \E j \in 1 .. n : f[j] = p
    BY <2>1 DEF Row
  <2> HIDE DEF f
  <2> QED BY <2>2, <2>3, <2>4 DEF Bijection, Injection, Surjection, IsInjective
<1>2. IsFiniteSet(1 .. n) /\ Cardinality(1 .. n) = n
  BY FS_Interval
<1> QED BY <1>1, <1>2, FS_Bijection DEF ExistsBijection

\* One index more is one row more.
LEMMA RowsGrow ==
  ASSUME NEW D, NEW counts \in [D -> Nat], NEW s \in SUBSET D, NEW i \in s,
         IsFiniteSet(Rows(counts, s \ {i}))
  PROVE  /\ IsFiniteSet(Rows(counts, s))
         /\ Cardinality(Rows(counts, s)) = counts[i] + Cardinality(Rows(counts, s \ {i}))
<1>1. Rows(counts, s) = Row(counts, i) \cup Rows(counts, s \ {i})
  BY DEF Rows
<1>2. Row(counts, i) \cap Rows(counts, s \ {i}) = {}
  BY DEF Row, Rows
<1>3. IsFiniteSet(Row(counts, i)) /\ Cardinality(Row(counts, i)) = counts[i]
  BY RowSize
<1>4. Cardinality({}) = 0
  BY FS_EmptySet
<1> DEFINE R == Row(counts, i)
           S == Rows(counts, s \ {i})
<1> HIDE DEF R, S
<1>5. R \cap S = {} /\ IsFiniteSet(R) /\ IsFiniteSet(S)
  BY <1>2, <1>3 DEF R, S
<1>6. IsFiniteSet(R \cup S) /\ Cardinality(R \cup S) = Cardinality(R) + Cardinality(S)
  <2>1. Cardinality(R) \in Nat /\ Cardinality(S) \in Nat
    BY <1>5, FS_CardinalityType
  <2>2. IsFiniteSet(R \cup S)
          /\ Cardinality(R \cup S) = Cardinality(R) + Cardinality(S) - Cardinality(R \cap S)
    BY <1>5, FS_Union
  <2>3. Cardinality(R \cap S) = 0
    BY <1>4, <1>5, Zenon
  <2> QED BY <2>1, <2>2, <2>3
<1> QED BY <1>1, <1>3, <1>6 DEF R, S

LEMMA RowsFinite ==
  ASSUME NEW D, IsFiniteSet(D), NEW counts \in [D -> Nat], NEW s \in SUBSET D
  PROVE  IsFiniteSet(Rows(counts, s))
<1> DEFINE B == {t \in SUBSET D : ~IsFiniteSet(Rows(counts, t))}
<1>1. SUFFICES ASSUME B # {} PROVE FALSE
  OBVIOUS
<1>2. PICK t \in B : \A u \in B : ~(u \subseteq t /\ u # t)
  <2>1. B \in SUBSET (SUBSET D)
    OBVIOUS
  <2> HIDE DEF B
  <2> QED BY <1>1, <2>1, SmallestSet
<1>3. t # {}
  BY FS_EmptySet DEF Rows
<1>4. PICK i \in t : TRUE
  BY <1>3
<1>5. IsFiniteSet(Rows(counts, t \ {i}))
  BY <1>2, <1>4
<1> QED BY <1>2, <1>4, <1>5, RowsGrow

LEMMA SumIsCardinality ==
  ASSUME NEW D, IsFiniteSet(D), NEW counts \in [D -> Nat]
  PROVE  SumFunction(counts) = Cardinality(Rows(counts, D))
<1> DEFINE Sum(f, s) == IF s = {} THEN 0
                        ELSE LET x == CHOOSE x \in s : TRUE IN counts[x] + f[s \ {x}]
           Solves(f) == f = [s \in SUBSET D |-> Sum(f, s)]
           g == [s \in SUBSET D |-> Cardinality(Rows(counts, s))]
<1>1. SumFunction(counts) = (CHOOSE f : Solves(f))[D]
  <2>1. DOMAIN counts = D
    OBVIOUS
  <2> QED BY <2>1 DEF SumFunction, SumFunctionOnSet, FoldFunctionOnSet, MapThenFoldSet
<1>2. ASSUME NEW f, NEW s \in SUBSET D, s # {},
             \A t \in SUBSET s : t # s => f[t] = Cardinality(Rows(counts, t))
      PROVE  Sum(f, s) = Cardinality(Rows(counts, s))
  <2> DEFINE x == CHOOSE x \in s : TRUE
  <2>1. x \in s
    BY <1>2
  <2>2. Cardinality(Rows(counts, s)) = counts[x] + Cardinality(Rows(counts, s \ {x}))
    <3>1. IsFiniteSet(Rows(counts, s \ {x}))
      BY RowsFinite
    <3> HIDE DEF x
    <3> QED BY <2>1, <3>1, RowsGrow
  <2>3. f[s \ {x}] = Cardinality(Rows(counts, s \ {x}))
    BY <1>2, <2>1
  <2> QED BY <1>2, <2>2, <2>3
<1>3. ASSUME NEW f PROVE Sum(f, {}) = 0
  OBVIOUS
<1>4. Cardinality(Rows(counts, {})) = 0
  BY FS_EmptySet DEF Rows
<1> HIDE DEF Sum
<1>5. Solves(g)
  <2>1. ASSUME NEW s \in SUBSET D PROVE g[s] = Sum(g, s)
    <3>1. CASE s = {}
      BY <1>3, <1>4, <3>1
    <3>2. CASE s # {}
      BY <1>2, <3>2
    <3> QED BY <3>1, <3>2
  <2> QED BY <2>1
<1>6. PICK f : f = (CHOOSE h : Solves(h)) /\ Solves(f)
  <2> HIDE DEF Solves
  <2> QED BY <1>5, Zenon
<1>7. \A s \in SUBSET D : f[s] = Sum(f, s)
  BY <1>6
<1> DEFINE B == {s \in SUBSET D : f[s] # Cardinality(Rows(counts, s))}
<1>8. B = {}
  <2>1. SUFFICES ASSUME B # {} PROVE FALSE
    OBVIOUS
  <2>2. PICK t \in B : \A u \in B : ~(u \subseteq t /\ u # t)
    <3>1. B \in SUBSET (SUBSET D)
      OBVIOUS
    <3> HIDE DEF B
    <3> QED BY <2>1, <3>1, SmallestSet
  <2>3. t # {}
    BY <1>3, <1>4, <1>7
  <2> QED BY <1>2, <1>7, <2>2, <2>3
<1>9. f[D] = Cardinality(Rows(counts, D))
  BY <1>8
<1> HIDE DEF Solves
<1> QED BY <1>1, <1>6, <1>9

-----------------------------------------------------------------------------
(* The document of a report.                                               *)

Errors == {"script_error", "runtime_error"}

LEMMA CasesTyped ==
  ASSUME NEW rep \in ExecutionReport
  PROVE  /\ DOMAIN rep.cases = 1 .. Len(rep.cases) /\ Len(rep.cases) \in Nat
         /\ IsFiniteSet(DOMAIN rep.cases)
         /\ Cardinality(DOMAIN rep.cases) = Len(rep.cases)
         /\ \A i \in DOMAIN rep.cases :
              /\ rep.cases[i].status \in Statuses /\ rep.cases[i].actions \in Nat
              /\ rep.cases[i].held \in Seq(BOOLEAN)
<1>1. rep.cases \in Seq(CaseResult)
  BY DEF ExecutionReport
<1>2. DOMAIN rep.cases = 1 .. Len(rep.cases) /\ Len(rep.cases) \in Nat
  BY <1>1
<1>3. \A i \in DOMAIN rep.cases : rep.cases[i] \in CaseResult
  BY <1>1, <1>2
<1>4. \A c \in CaseResult :
        c.status \in Statuses /\ c.actions \in Nat /\ c.held \in Seq(BOOLEAN)
  BY DEF CaseResult
<1>5. IsFiniteSet(DOMAIN rep.cases) /\ Cardinality(DOMAIN rep.cases) = Len(rep.cases)
  BY <1>2, FS_Interval
<1> QED BY <1>2, <1>3, <1>4, <1>5

\* A case has one status of the four, and there are finitely many cases.
LEMMA CasesCounted ==
  ASSUME NEW rep \in ExecutionReport
  PROVE  /\ \A S : IsFiniteSet(CasesWith(rep, S)) /\ Cardinality(CasesWith(rep, S)) \in Nat
         /\ \A S : Cardinality(CasesWith(rep, S)) = 0 <=> CasesWith(rep, S) = {}
         /\ Cardinality(CasesWith(rep, {"pass"})) + Cardinality(CasesWith(rep, {"fail"}))
              + Cardinality(CasesWith(rep, Errors)) = Len(rep.cases)
<1>1. \A i \in DOMAIN rep.cases : rep.cases[i].status \in Statuses
  BY CasesTyped
<1>2. IsFiniteSet(DOMAIN rep.cases) /\ Cardinality(DOMAIN rep.cases) = Len(rep.cases)
  BY CasesTyped
<1>3. ASSUME NEW S
      PROVE  /\ IsFiniteSet(CasesWith(rep, S)) /\ Cardinality(CasesWith(rep, S)) \in Nat
             /\ Cardinality(CasesWith(rep, S)) = 0 <=> CasesWith(rep, S) = {}
  <2>1. CasesWith(rep, S) \in SUBSET DOMAIN rep.cases
    BY DEF CasesWith
  <2>2. IsFiniteSet(CasesWith(rep, S))
    BY <1>2, <2>1, FS_Subset
  <2> QED BY <2>2, FS_CardinalityType, FS_EmptySet
<1> DEFINE P == CasesWith(rep, {"pass"})
           F == CasesWith(rep, {"fail"})
           E == CasesWith(rep, Errors)
<1>4. /\ P \cup (F \cup E) = DOMAIN rep.cases
      /\ P \cap (F \cup E) = {} /\ F \cap E = {}
  BY <1>1 DEF CasesWith, Errors, Statuses
<1>5. /\ IsFiniteSet(P) /\ IsFiniteSet(F) /\ IsFiniteSet(E)
      /\ Cardinality(P) \in Nat /\ Cardinality(F) \in Nat /\ Cardinality(E) \in Nat
  BY <1>3
<1> HIDE DEF P, F, E
<1>6. Cardinality({}) = 0
  BY FS_EmptySet
<1>7. IsFiniteSet(F \cup E) /\ Cardinality(F \cup E) = Cardinality(F) + Cardinality(E)
  <2>1. /\ IsFiniteSet(F \cup E)
        /\ Cardinality(F \cup E) = Cardinality(F) + Cardinality(E) - Cardinality(F \cap E)
    BY <1>5, FS_Union
  <2>2. Cardinality(F \cap E) = 0
    BY <1>4, <1>6, Zenon
  <2> QED BY <1>5, <2>1, <2>2
<1>8. Cardinality(P \cup (F \cup E)) = Cardinality(P) + Cardinality(F) + Cardinality(E)
  <2>1. Cardinality(P \cup (F \cup E))
          = Cardinality(P) + Cardinality(F \cup E) - Cardinality(P \cap (F \cup E))
    BY <1>5, <1>7, FS_Union
  <2>2. Cardinality(P \cap (F \cup E)) = 0
    BY <1>4, <1>6, Zenon
  <2> QED BY <1>5, <1>7, <2>1, <2>2
<1>9. Cardinality(P) + Cardinality(F) + Cardinality(E) = Len(rep.cases)
  BY <1>2, <1>4, <1>8
<1> QED BY <1>3, <1>9 DEF P, F, E

\* The actions of the summary are the directories of evidence.
LEMMA ActionsCounted ==
  ASSUME NEW rep \in ExecutionReport
  PROVE  Summary(rep).actions = Cardinality(Evidence(rep))
<1> DEFINE D == DOMAIN rep.cases
           counts == [i \in D |-> rep.cases[i].actions]
<1>1. IsFiniteSet(D) /\ \A i \in D : rep.cases[i].actions \in Nat
  BY CasesTyped
<1>2. counts \in [D -> Nat]
  BY <1>1
<1>3. Summary(rep).actions = SumFunction(counts)
  BY DEF Summary, Total
<1>4. Evidence(rep) = Rows(counts, D)
  <2>1. \A i \in D : Row(counts, i) = {<<i, j>> : j \in 1 .. rep.cases[i].actions}
    BY DEF Row
  <2>2. Rows(counts, D) = UNION {{<<i, j>> : j \in 1 .. rep.cases[i].actions} : i \in D}
    <3> DEFINE row(i) == {<<i, j>> : j \in 1 .. rep.cases[i].actions}
    <3>1. \A i \in D : Row(counts, i) = row(i)
      BY <2>1
    <3> HIDE DEF row
    <3>2. Rows(counts, D) = UNION {row(i) : i \in D}
      BY <3>1 DEF Rows
    <3> QED BY <3>2 DEF row
  <2> QED BY <2>2 DEF Evidence
<1> HIDE DEF counts, D
<1>5. SumFunction(counts) = Cardinality(Rows(counts, D))
  BY <1>1, <1>2, SumIsCardinality
<1> QED BY <1>3, <1>4, <1>5

\* No diagnostic: no file error, no case in error, no expectation that did not hold.
LEMMA NoDiagnostic ==
  ASSUME NEW rep \in ExecutionReport
  PROVE  DiagnosticCount(rep) = 0 <=>
           /\ rep.fileErrors = <<>> /\ CasesWith(rep, Errors) = {}
           /\ \A i \in DOMAIN rep.cases : \A e \in DOMAIN rep.cases[i].held : rep.cases[i].held[e]
<1> DEFINE D == DOMAIN rep.cases
           broken(i) == {e \in DOMAIN rep.cases[i].held : ~rep.cases[i].held[e]}
           counts == [i \in D |-> Cardinality(broken(i))]
<1>1. IsFiniteSet(D)
  BY CasesTyped
<1>2. ASSUME NEW i \in D
      PROVE  Cardinality(broken(i)) \in Nat /\ (Cardinality(broken(i)) = 0 <=> broken(i) = {})
  <2>1. rep.cases[i].held \in Seq(BOOLEAN)
    BY CasesTyped
  <2>2. IsFiniteSet(DOMAIN rep.cases[i].held)
    <3>1. /\ DOMAIN rep.cases[i].held = 1 .. Len(rep.cases[i].held)
          /\ Len(rep.cases[i].held) \in Nat
      BY <2>1
    <3> QED BY <3>1, FS_Interval
  <2>3. IsFiniteSet(broken(i))
    BY <2>2, FS_Subset
  <2> HIDE DEF broken
  <2> QED BY <2>3, FS_CardinalityType, FS_EmptySet
<1>3. counts \in [D -> Nat]
  BY <1>2
<1>4. DiagnosticCount(rep)
        = Len(rep.fileErrors) + Cardinality(CasesWith(rep, Errors)) + SumFunction(counts)
  BY DEF DiagnosticCount, Total, Errors
<1>5. SumFunction(counts) \in Nat /\ (SumFunction(counts) = 0 <=> \A i \in D : counts[i] = 0)
  <2>1. \A i \in D : counts[i] \in Nat
    BY <1>3
  <2> HIDE DEF counts, D
  <2>2. SumFunction(counts) = Cardinality(Rows(counts, D)) /\ IsFiniteSet(Rows(counts, D))
    BY <1>1, <1>3, SumIsCardinality, RowsFinite
  <2>3. Cardinality(Rows(counts, D)) \in Nat
          /\ (Cardinality(Rows(counts, D)) = 0 <=> Rows(counts, D) = {})
    BY <2>2, FS_CardinalityType, FS_EmptySet
  <2>4. Rows(counts, D) = {} <=> \A i \in D : counts[i] = 0
    <3>1. \A i \in D : Row(counts, i) = {} <=> counts[i] = 0
      <4> TAKE i \in D
      <4>1. counts[i] # 0 => <<i, 1>> \in Row(counts, i)
        BY <2>1 DEF Row
      <4>2. counts[i] = 0 => 1 .. counts[i] = {}
        OBVIOUS
      <4>3. counts[i] = 0 => Row(counts, i) = {}
        BY <4>2 DEF Row
      <4> QED BY <4>1, <4>3
    <3>2. Rows(counts, D) = {} <=> \A i \in D : Row(counts, i) = {}
      BY DEF Rows
    <3> QED BY <3>1, <3>2
  <2> QED BY <2>2, <2>3, <2>4
<1>6. (\A i \in D : counts[i] = 0)
        <=> \A i \in D : \A e \in DOMAIN rep.cases[i].held : rep.cases[i].held[e]
  <2>1. \A i \in D : counts[i] = 0 <=> broken(i) = {}
    BY <1>2
  <2>2. \A i \in D : broken(i) = {} <=> \A e \in DOMAIN rep.cases[i].held : rep.cases[i].held[e]
    OBVIOUS
  <2> HIDE DEF counts, broken
  <2> QED BY <2>1, <2>2
<1>7. Len(rep.fileErrors) \in Nat /\ (Len(rep.fileErrors) = 0 <=> rep.fileErrors = <<>>)
  BY DEF ExecutionReport
<1>8. /\ Cardinality(CasesWith(rep, Errors)) \in Nat
      /\ Cardinality(CasesWith(rep, Errors)) = 0 <=> CasesWith(rep, Errors) = {}
  BY CasesCounted
<1> HIDE DEF counts
<1>9. DiagnosticCount(rep) = 0
        <=> /\ Len(rep.fileErrors) = 0 /\ Cardinality(CasesWith(rep, Errors)) = 0
            /\ SumFunction(counts) = 0
  BY <1>4, <1>5, <1>7, <1>8
<1> QED BY <1>5, <1>6, <1>7, <1>8, <1>9

\* Without a file error the exit code is the severity of the worst case.
LEMMA ExitCodeTells ==
  ASSUME NEW rep \in ExecutionReport, rep.fileErrors = <<>>
  PROVE  /\ ExitCode(rep) = 0 <=> CasesWith(rep, {"fail"}) = {} /\ CasesWith(rep, Errors) = {}
         /\ ExitCode(rep) = 1 <=> CasesWith(rep, {"fail"}) # {} /\ CasesWith(rep, Errors) = {}
<1> DEFINE S == Severities(rep)
<1>1. S \in SUBSET (0 .. 3) /\ 0 \in S
  BY SeverityBounds DEF Severities
<1>2. \A i \in DOMAIN rep.cases :
        /\ rep.cases[i].status \in Statuses
        /\ Severity(rep.cases[i].status) \in S
  BY CasesTyped DEF Severities
<1>3. 1 \in S <=> CasesWith(rep, {"fail"}) # {}
  BY <1>2 DEF Severities, CasesWith, Severity, Statuses
<1>4. (2 \in S \/ 3 \in S) <=> CasesWith(rep, Errors) # {}
  BY <1>2 DEF Severities, CasesWith, Severity, Statuses, Errors
<1>5. ExitCode(rep) = Max(S)
  BY DEF ExitCode, Severities
<1> HIDE DEF S
<1>6. Max(S) \in S /\ \A y \in S : Max(S) >= y
  BY <1>1, MaxOfSeverities
<1>7. PICK m \in S : m = Max(S) /\ m \in 0 .. 3 /\ \A y \in S : m >= y
  BY <1>1, <1>6
<1>8. /\ m = 0 <=> 1 \notin S /\ 2 \notin S /\ 3 \notin S
      /\ m = 1 <=> 1 \in S /\ 2 \notin S /\ 3 \notin S
  <2>1. \A y \in S : y \in 0 .. 3 /\ y <= m
    BY <1>1, <1>7
  <2>2. m = 0 \/ m = 1 \/ m = 2 \/ m = 3
    BY <1>7
  <2>3. /\ m < 1 => 1 \notin S
        /\ m < 2 => 2 \notin S
        /\ m < 3 => 3 \notin S
    BY <1>7, <2>1
  <2> QED BY <1>7, <2>2, <2>3
<1> QED BY <1>3, <1>4, <1>5, <1>7, <1>8

Told(rep) ==
  /\ rep.fileErrors # <<>> => rep.cases = <<>>
  /\ \A i \in DOMAIN rep.cases : StatusTold(rep.cases[i])

LEMMA ToldIsConsistent ==
  ASSUME NEW rep \in ExecutionReport, Told(rep)
  PROVE  Consistent(rep, Document(rep))
<1> DEFINE F == CasesWith(rep, {"fail"})
           E == CasesWith(rep, Errors)
           P == CasesWith(rep, {"pass"})
           n == Len(rep.fileErrors)
           allHeld == \A i \in DOMAIN rep.cases :
                        \A e \in DOMAIN rep.cases[i].held : rep.cases[i].held[e]
<1>1. n \in Nat /\ (n = 0 <=> rep.fileErrors = <<>>)
  BY DEF ExecutionReport
<1>2. /\ Cardinality(P) \in Nat /\ Cardinality(F) \in Nat /\ Cardinality(E) \in Nat
      /\ Cardinality(E) = 0 <=> E = {}
      /\ Cardinality(P) + Cardinality(F) + Cardinality(E) = Len(rep.cases)
      /\ Len(rep.cases) \in Nat
  BY CasesCounted, CasesTyped
<1>3. /\ n # 0 => ExitCode(rep) = 2 /\ F = {} /\ E = {}
      /\ n = 0 => /\ ExitCode(rep) = 0 <=> F = {} /\ E = {}
                  /\ ExitCode(rep) = 1 <=> F # {} /\ E = {}
  <2>1. rep.cases = <<>> => F = {} /\ E = {}
    BY DEF CasesWith
  <2> QED BY <1>1, <2>1, ExitCodeTells DEF ExitCode, Told
<1>4. allHeld <=> F = {}
  BY DEF Told, StatusTold, CasesWith
<1>5. DiagnosticCount(rep) = 0 <=> n = 0 /\ E = {} /\ F = {}
  BY <1>1, <1>4, NoDiagnostic
<1>6. TopLevelStatus(rep) = IF n # 0 \/ E # {} THEN "error"
                            ELSE IF F # {} THEN "failed" ELSE "passed"
  BY <1>1 DEF TopLevelStatus, Errors
<1>7. Noop(rep) => n = 0 /\ E = {} /\ F = {} /\ Cardinality(P) = 0
  <2>1. Noop(rep) => P = {} /\ E = {} /\ F = {}
    BY DEF Noop, CasesWith
  <2>2. P = {} => Cardinality(P) = 0
    BY FS_EmptySet
  <2> QED BY <1>1, <2>1, <2>2 DEF Noop
<1>8. Summary(rep).actions = Cardinality(Evidence(rep))
  BY ActionsCounted
<1>9. /\ Summary(rep).passed = Cardinality(P) /\ Summary(rep).failed = Cardinality(F)
      /\ Summary(rep).errors = n + Cardinality(E)
      /\ RunSummary(rep).failed = Len(rep.cases) - Cardinality(P)
  BY DEF Summary, RunSummary, Errors
<1>10. /\ Document(rep).status = TopLevelStatus(rep)
       /\ Document(rep).processExitCode = ExitCode(rep)
       /\ Document(rep).noop = Noop(rep) /\ Document(rep).summary = Summary(rep)
       /\ Document(rep).diagnostics = DiagnosticCount(rep)
  BY DEF Document
<1> HIDE DEF F, E, P, n, allHeld
<1> DEFINE doc == Document(rep)
           s == doc.summary
<1>11. /\ doc.status = "passed" <=> doc.processExitCode = 0
       /\ doc.status = "failed" <=> doc.processExitCode = 1
       /\ doc.status = "passed" <=> doc.diagnostics = 0
  <2>0. /\ doc.status = TopLevelStatus(rep) /\ doc.processExitCode = ExitCode(rep)
        /\ doc.diagnostics = DiagnosticCount(rep)
    BY <1>10
  <2>1. CASE n # 0
    <3>1. TopLevelStatus(rep) = "error" /\ ExitCode(rep) = 2 /\ DiagnosticCount(rep) # 0
      BY <1>3, <1>5, <1>6, <2>1
    <3> QED BY <2>0, <3>1
  <2>2. CASE n = 0 /\ E # {}
    <3>1. TopLevelStatus(rep) = "error"
      BY <1>6, <2>2
    <3>2. ExitCode(rep) # 0 /\ ExitCode(rep) # 1 /\ DiagnosticCount(rep) # 0
      BY <1>3, <1>5, <2>2
    <3> QED BY <2>0, <3>1, <3>2
  <2>3. CASE n = 0 /\ E = {} /\ F # {}
    <3>1. TopLevelStatus(rep) = "failed"
      BY <1>6, <2>3
    <3>2. ExitCode(rep) = 1 /\ DiagnosticCount(rep) # 0
      BY <1>3, <1>5, <2>3
    <3> QED BY <2>0, <3>1, <3>2
  <2>4. CASE n = 0 /\ E = {} /\ F = {}
    <3>1. TopLevelStatus(rep) = "passed"
      BY <1>6, <2>4
    <3>2. ExitCode(rep) = 0 /\ DiagnosticCount(rep) = 0
      BY <1>3, <1>5, <2>4
    <3> QED BY <2>0, <3>1, <3>2
  <2> QED BY <2>1, <2>2, <2>3, <2>4
<1>12. /\ doc.status = "error" <=> s.errors > 0
       /\ s.passed + s.failed + s.errors = Len(rep.cases) + Len(rep.fileErrors)
       /\ rep.fileErrors = <<>> => RunSummary(rep).failed = s.failed + s.errors
  <2>1. doc.status = "error" <=> n # 0 \/ E # {}
    BY <1>6, <1>10
  <2>2. s.errors > 0 <=> n # 0 \/ E # {}
    <3>1. s.errors = n + Cardinality(E)
      BY <1>9, <1>10
    <3>2. n + Cardinality(E) > 0 <=> n # 0 \/ Cardinality(E) # 0
      BY <1>1, <1>2
    <3> QED BY <1>2, <3>1, <3>2
  <2>3. s.passed + s.failed + s.errors = Len(rep.cases) + n
    <3>1. s.passed = Cardinality(P) /\ s.failed = Cardinality(F) /\ s.errors = n + Cardinality(E)
      BY <1>9, <1>10
    <3> HIDE DEF s
    <3>2. Cardinality(P) + Cardinality(F) + (n + Cardinality(E)) = Len(rep.cases) + n
      BY <1>1, <1>2
    <3> QED BY <3>1, <3>2
  <2>4. RunSummary(rep).failed = Cardinality(F) + Cardinality(E)
    BY <1>2, <1>9
  <2>5. n = 0 => s.failed + s.errors = Cardinality(F) + Cardinality(E)
    BY <1>2, <1>9, <1>10
  <2> QED BY <1>1, <2>1, <2>2, <2>3, <2>4, <2>5 DEF n
<1>13. doc.noop => doc.status = "passed" /\ s.passed = 0
  BY <1>6, <1>7, <1>9, <1>10
<1>14. s.actions = Cardinality(Evidence(rep))
  BY <1>8, <1>10
<1> QED BY <1>11, <1>12, <1>13, <1>14, Zenon DEF Consistent

-----------------------------------------------------------------------------
ToldInv == \A r \in Runs : \A i \in DOMAIN report[r].cases : StatusTold(report[r].cases[i])

LEMMA ToldKept ==
  ASSUME TInv, ToldInv, [Next]_vars
  PROVE  ToldInv'
<1>1. CASE UNCHANGED report
  BY <1>1 DEF ToldInv
<1>2. ASSUME NEW r \in Runs, LoadFile(r) PROVE ToldInv'
  <2>1. \A s \in Runs : report'[s].cases = report[s].cases
    <3>1. CASE UNCHANGED report
      BY <3>1
    <3>2. ASSUME NEW e \in FileErrorKinds,
                 report' = [report EXCEPT ![r].fileErrors = Append(@, e)]
          PROVE  \A s \in Runs : report'[s].cases = report[s].cases
      <4>1. report[r] \in ExecutionReport
        BY DEF TInv, TypeOK
      <4> QED BY <3>2, <4>1 DEF TInv, TypeOK, ExecutionReport
    <3> QED BY <1>2, <3>1, <3>2 DEF LoadFile
  <2> QED BY <2>1 DEF ToldInv
<1>3. ASSUME NEW r \in Runs, EvaluateCase(r) PROVE ToldInv'
  <2>1. PICK result \in CaseResults : report' = [report EXCEPT ![r].cases = Append(@, result)]
    BY <1>3 DEF EvaluateCase
  <2>2. report[r].cases \in Seq(CaseResult) /\ result \in CaseResult /\ StatusTold(result)
    BY ResultsAssumption DEF TInv, TypeOK, ExecutionReport
  <2>3. ASSUME NEW i \in DOMAIN Append(report[r].cases, result)
        PROVE  StatusTold(Append(report[r].cases, result)[i])
    <3>1. \/ i \in DOMAIN report[r].cases
               /\ Append(report[r].cases, result)[i] = report[r].cases[i]
          \/ Append(report[r].cases, result)[i] = result
      BY <2>2, <2>3
    <3> QED BY <2>2, <3>1, Zenon DEF ToldInv
  <2>4. report'[r].cases = Append(report[r].cases, result)
    BY <2>1 DEF TInv, TypeOK, ExecutionReport
  <2>5. \A s \in Runs : s # r => report'[s] = report[s]
    BY <2>1 DEF TInv, TypeOK
  <2> SUFFICES ASSUME NEW s \in Runs, NEW i \in DOMAIN report'[s].cases
               PROVE  StatusTold(report'[s].cases[i])
    BY Zenon DEF ToldInv
  <2>6. CASE s = r
    BY <2>3, <2>4, <2>6
  <2>7. CASE s # r
    BY <2>5, <2>7 DEF ToldInv
  <2> QED BY <2>6, <2>7
<1>4. UNCHANGED report \/ \E r \in Runs : LoadFile(r) \/ EvaluateCase(r)
  <2>1. ASSUME NEW r \in Runs, Proceed(r) \/ Kill(r)
        PROVE  UNCHANGED report \/ LoadFile(r) \/ EvaluateCase(r)
    BY <2>1 DEF Proceed, Kill, ExitWith, StartScripts, RejectUsage, RejectArguments, ConfigRefused,
         ConfigAccepted, Discover, DiscoveryFails, AllLoaded, AllEvaluated, ChooseDirectory,
         TakeDirectory, RefuseRunId, MakeDirectory, OpenManifest, WriteManifest, WriteEvidence,
         EvidenceWritten, ArtifactFails, Render, RenderPanics, Step
  <2> QED BY <2>1 DEF Next, AllOver, vars
<1> QED BY <1>1, <1>2, <1>3, <1>4

(***************************************************************************)
(* For every set of runs, case results and bounds: the document of every   *)
(* manifest is consistent with itself, with the exit code and with the     *)
(* summary for humans (build_run_result_document, ExecutionReport).        *)
(***************************************************************************)
THEOREM DocumentTheorem == Spec => []DocumentConsistent
<1>1. Init => ToldInv
  BY DEF Init, ToldInv
<1>2. TInv /\ ToldInv /\ [Next]_vars => ToldInv'
  BY ToldKept
<1>3. TInv /\ GateInv /\ ToldInv => DocumentConsistent
  <2> SUFFICES ASSUME TInv, GateInv, ToldInv, NEW r \in Runs
               PROVE  Consistent(report[r], Document(report[r]))
    BY Zenon DEF DocumentConsistent
  <2>1. report[r] \in ExecutionReport /\ Told(report[r])
    BY DEF TInv, TypeOK, GateInv, Gate, ToldInv, Told
  <2> QED BY <2>1, ToldIsConsistent
<1> QED BY <1>1, <1>2, <1>3, TypeInvariant, GateHolds, PTL DEF Spec

=============================================================================
