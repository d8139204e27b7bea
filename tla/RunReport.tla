----------------------------- MODULE RunReport ------------------------------
(***************************************************************************)
(* What a run reports (result.rs, run_result.rs): the process exit code    *)
(* and the canonical result.json document are computed from one            *)
(* ExecutionReport, each by a traversal of its own.                        *)
(***************************************************************************)
EXTENDS Naturals, Sequences, FiniteSetsExt, Functions

Statuses == {"pass", "fail", "script_error", "runtime_error"}

(***************************************************************************)
(* A case result, reduced to what the traversals read: its status, how     *)
(* many actions and side effects it recorded, and which of the             *)
(* expectations of its assertion blocks, in order, held.                   *)
(***************************************************************************)
CaseResult ==
  [status : Statuses, actions : Nat, sideEffects : Nat, held : Seq(BOOLEAN)]

FileErrorKinds == {"read_error", "parse_error"}
\* A case fails exactly when an expectation did not hold (CaseExecution!EndsWhereItBroke).
StatusTold(result) ==
  result.status = "fail" <=> \E e \in DOMAIN result.held : ~result.held[e]

ExecutionReport == [cases : Seq(CaseResult), fileErrors : Seq(FileErrorKinds)]

CasesWith(report, statuses) ==
  {i \in DOMAIN report.cases : report.cases[i].status \in statuses}

Total(report, Count(_)) ==
  SumFunction([i \in DOMAIN report.cases |-> Count(report.cases[i])])

-----------------------------------------------------------------------------
(* ExecutionReport::exit_code.                                             *)

Severity(status) ==
  CASE status = "pass" -> 0 [] status = "fail" -> 1
    [] status = "script_error" -> 2 [] status = "runtime_error" -> 3

\* A wrong edit: the severities of the cases are added up.
ExitCodeSummed(report) ==
  IF report.fileErrors # <<>> THEN 2
  ELSE Total(report, LAMBDA c : Severity(c.status))

ExitCode(report) ==
  IF report.fileErrors # <<>> THEN 2
  ELSE Max({0} \cup {Severity(report.cases[i].status) : i \in DOMAIN report.cases})

\* ExecutionReport::is_noop
Noop(report) == report.fileErrors = <<>> /\ report.cases = <<>>

\* ExecutionReport::summary; "failed" is everything that did not pass.
RunSummary(report) ==
  [passed |-> Cardinality(CasesWith(report, {"pass"})),
   failed |-> Len(report.cases) - Cardinality(CasesWith(report, {"pass"})),
   steps |-> Total(report, LAMBDA c : c.actions + c.sideEffects)]

-----------------------------------------------------------------------------
(* build_run_result_document.                                              *)

TopLevelStatus(report) ==
  IF report.fileErrors # <<>> \/ CasesWith(report, {"script_error", "runtime_error"}) # {}
  THEN "error"
  ELSE IF CasesWith(report, {"fail"}) # {} THEN "failed" ELSE "passed"

\* A wrong edit: a case in error is counted as failed too.
SummaryCountingErrorsTwice(report) ==
  [actions |-> Total(report, LAMBDA c : c.actions),
   passed |-> Cardinality(CasesWith(report, {"pass"})),
   failed |-> Cardinality(CasesWith(report, {"fail", "script_error"})),
   errors |-> Len(report.fileErrors)
                + Cardinality(CasesWith(report, {"script_error", "runtime_error"}))]

Summary(report) ==
  [actions |-> Total(report, LAMBDA c : c.actions),
   passed |-> Cardinality(CasesWith(report, {"pass"})),
   failed |-> Cardinality(CasesWith(report, {"fail"})),
   errors |-> Len(report.fileErrors)
                + Cardinality(CasesWith(report, {"script_error", "runtime_error"}))]

\* One entry per file error, per case in error, per expectation that did not hold.
DiagnosticCount(report) ==
  Len(report.fileErrors)
    + Cardinality(CasesWith(report, {"script_error", "runtime_error"}))
    + Total(report, LAMBDA c : Cardinality({e \in DOMAIN c.held : ~c.held[e]}))

Document(report) ==
  [status |-> TopLevelStatus(report), processExitCode |-> ExitCode(report),
   noop |-> Noop(report), summary |-> Summary(report),
   diagnostics |-> DiagnosticCount(report)]

\* The evidence a document refers to: one directory per case and action.
Evidence(report) ==
  UNION {{<<i, j>> : j \in 1 .. report.cases[i].actions} : i \in DOMAIN report.cases}
=============================================================================
