# A verification project for reportage

`reportage` runs end-to-end scenarios written in `*.repor` files: it executes shell actions in an
isolated workspace per case, checks assertions at checkpoints, and records what happened as an
artifact bundle, a JSON document and a process exit code. What it is trusted for is that the record
is *true*: a pass is never vacuous, a failure names the step that broke, an assertion was checked
against the action it is said to be about, and no verdict is given without its evidence.

This directory holds TLA+ models of the parts that decide that, TLC configurations that check them
on small instances, and TLAPS proofs of what matters most for every instance. Paths below are
relative to `src/crates/`; `core` is `reportage-core/src`, `cli` is `reportage-cli/src`.

## 1. Inventory

| Component | State | Operations | Where it is hard |
|---|---|---|---|
| Script model, binding-flow validation (`core/model.rs`, `core/parser/step.rs`) | none: a pure check over a step list | accept or refuse a `before_each` block and a case | the evaluator relies on it to make a panic and an "internal invariant" error unreachable |
| Case evaluator (`core/evaluator/execution.rs`, `mod.rs`) | checkpoint, actions, bindings, assertion blocks, side-effect count | one step kind after another, abort paths, the switch from setup to body | stale evidence at the switch; partial failure; two numberings of steps |
| Action executor, shim event channel (`core/executor.rs`, `shim.rs`, `shim_event.rs`) | a temporary event directory per action, one file per shim process | start, wait for the shell and both pipes, read the directory, drop it | processes that outlive their action, reuse of process ids, files half written while they are read |
| Workspace writes (`core/workspace.rs`) | the case's workspace | `write_file`: check, directories, temporary file, content, mode, publication | another process between any two calls; failure of any call |
| Run orchestration (`cli/main.rs`, `core/suite.rs`) | none beyond the report | arguments, config, discovery, load-and-validate, evaluate, artifacts, render, exit code | order of validation and execution; late refusals; which exit code wins |
| Run result document, artifact bundle (`core/result.rs`, `run_result.rs`, `artifact.rs`, `cli/render/json.rs`) | `.reportage/runs/<id>` | status, exit code, summary, diagnostics; manifest, evidence files | several traversals must agree; manifest before evidence; two runs in one directory |
| Expectation evaluation (`core/evaluator/expectation.rs`, `observation.rs`) | none beyond the block's results | validate the block, resolve the expected side, observe, compare, compose with not/all/any | files that change between a look and a read; evidence needed deep inside a composition; a reference that does not resolve under a decided `any`; what a failing child of a `not` may report |
| Text values (`core/text_value.rs`) | none | resolve a literal, a binding or an interpolation | an undefined binding is an "internal invariant violation" |
| Fixtures (`core/fixture.rs`) | a materialised copy | resolve, contain, re-check, copy | a swap between the re-check and the copy |
| Configuration (`core/config.rs`) | none | KDL text to `Config` or an error | refusals of duplicates and unknown nodes |
| Grammar and parser (`core/reportage.pest`, `core/parser/*`, `source.rs`) | flags while the blocks of a file are met one by one | text to syntax tree, spans and errors | the canonical order of blocks; spans of text that was dedented and unescaped |
| Human renderer (`cli/render/human.rs`, `core/contents_diagnostic.rs`) | none | format a finished report | none beyond agreeing with the document |
| Diagnostics, semantic rules (`core/diagnostic.rs`, `semantic*.rs`) | none | stable codes, path predicates | none |
| Documentation generator (`core/docs*`) | an output directory | resolve patterns, load, build, render, prepare, replace the document | snippets that must stand alone; fences and anchors; replacement under failure and interference |
| Shim scaffold (`core/shim_scaffold.rs`, `shell_quote.rs`) | one output file | check, write, set mode | window between check and write; partial failure; quoting |
| Schema artifacts (`xtask/src`) | the published schemas, one temporary file each | generate, check | partial failure over several files; two generators with one temporary file |
| References command (`cli/references.rs`) | none | print a list | none |

How they interact: `main` calls `suite` to load every file, then the evaluator once per file; the
evaluator calls the executor for `$`, the workspace for `write`, the expectation evaluator for
`assert`; the executor talks to shims through an environment variable and a directory; the report
they build is handed to the artifact writer and then to a renderer. The tooling commands (`docs`,
`shim scaffold`, `xtask schema-artifacts`) use none of this but the parser: each is a process of its
own that reads files and publishes others. Every program is one sequential thread. All concurrency
is outside it: the processes an action starts (some of which outlive it), other processes changing
the workspace, and other `reportage` runs sharing `.reportage/runs`. Actions have no time limit.

Properties that make each part correct: evaluator - attribution, provenance, setup gating, no
vacuous pass, evidence never lost, every case ends; event channel - isolation between actions, no
silent loss, transparency of a shim, no hang on a detached process; workspace - all or nothing, no
forgotten temporary file, the documented answer when nothing interferes; expectations - validated
before any file is touched, the verdict of the language reference when nothing interferes and a
verdict that was true at some moment otherwise, only the expected side ends a block as a script
error, one diagnostic for each failed expectation; orchestration - validate before execute, no
verdict without evidence, earlier bundles survive; report - the traversals agree; parser - exactly
the canonical block order is accepted, a span cuts out what the user wrote; documents - every
snippet runs by itself, every entry leads to one heading, no source breaks its fence; commands that
write files - a refusal changes nothing, a published file is replaced whole, a report names exactly
what changed, a retry is not held up by what a failure left.

## 2. Modules

| Module | Models | Role |
|---|---|---|
| `Scenario` | step forms, `validate_bindings`, what the parser accepts | operators, extended by `CaseExecution` |
| `CaseExecution` | `evaluate_case`, `execute_steps` | one action per step kind and outcome |
| `BlockEvaluation` | `evaluate_expectation`, `resolve_expected_contents`, observations, fixture reads, diagnostic codes | one assertion block, one action per file system call |
| `ShimEvents` | `execute_action`, the wrapper script, `collect_from_dir` | runner and processes as actors |
| `AtomicCreate` | the promise documented at `Workspace::write_file` | abstract specification |
| `WorkspaceWrite` | `write_file`, `parent_path_is_blocked`, other processes | one action per system call; implements `AtomicCreate` |
| `RunReport` | `ExecutionReport`, exit code, status, summary, diagnostics | operators, extended by `ReportageRun` |
| `ReportageRun` | `main`, `suite`, `ArtifactWriter`, kills, several runs | one action per stage |
| `ToolRuns` | processes over one file system, failing calls, kills, other programs | extended by the three commands |
| `ShimScaffold` | `reportage shim scaffold` | one action per call |
| `SchemaArtifacts` | `xtask schema-artifacts gen`, `check` | one action per call |
| `InterpolatedText` | dedenting, escapes, `&{..}` markers, spans | operators, extended by `ScriptParser` |
| `ScriptParser` | the grammar's lines and blocks, `parse`, `document.rs`, the step rules | operators over a source; extends `Scenario` |
| `DocsCatalog` | `build_catalog`, both renderers | operators, extended by `DocsGeneration` |
| `DocsGeneration` | `reportage docs` | one action per call; implements `AtomicReplace` |
| `AtomicReplace` | what publishing by replacement promises | abstract specification |
| `Tools` | the three commands over one file system | their composition and its properties |
| `MC*` | - | constants of an instance only |
| `*Proofs` | - | theorems about the module they extend |

A definition under a comment that begins "A wrong edit" is not part of any specification: it is what
a plausible edit would make of its neighbour, kept to show that a property notices it.

### Scenario and CaseExecution
`phase` and `step` are the `StepPhase` and `step_idx` of the code (1-based here), `lastAction` is
`checkpoint.last_action`, and `actions`, `bindings`, `blocks`, `sideEffects` are the four fields of
the Rust `CaseExecution`. `status = "panic"` stands for the `.expect(...)` of a `let` without an
action. `StartCase`/`SetUpFails` are `evaluate_case` before its first step, `EnterBody` is the
checkpoint reset between `before_each` and body, and `RunAction`, `ActionCannotRun`, `WriteFile`,
`WriteFails`, `Bind`, `RejectBlock`, `AbandonBlock`, `PassBlock`, `FailBlock` are the arms of
`execute_steps` with their early returns. The script is not made up: `Init` takes any case that
`ParsedCase` accepts, so the agreement between the parser's scope rules and the evaluator's
checkpoint rules is a property (`BindingFlowSound`), not an assumption.

Process output is a sequence over four tokens (text, LF, CR, a byte that is not UTF-8), enough to
tell the outcomes of `capture_text` apart. An expectation is what the control flow reads of it:
whether it needs an action, whether its path obeys the policy, which bindings it names. Its verdict
is a free choice here; `BlockEvaluation` derives it.

### BlockEvaluation
What `CaseExecution` takes as one step (`RejectBlock`, `AbandonBlock`, `PassBlock`, `FailBlock`) is
here a run of its own. A block is the preorder sequence of its expectations, each with its `parent`
(0 for an expectation of the block itself), so the recursion of the code over `not`, `all` and `any`
is `Subtree(n)`, the contiguous part of the sequence below `n`, and the recursive function `Passed`.
`Init` takes any block that `ParsedBlock` accepts: the matchers each subject has and the sources
each matcher may compare with.

`pc` says which call comes next and `leaf` for which expectation; `expected` is the expected side
once resolved, `results` what has been observed so far, `abort` the code of the script error that
ended the block. `Accept`/`Reject` are the validation loop of the block; `StatExpected`,
`ReadExpected` the two calls of `contents_equals` against a workspace file; `ResolveFixture`,
`RecheckFixture`, `CopyFixture` the calls of `fixture.rs` for a fixture reference;
`ObserveExit`, `ObserveStream` need no call; `StatFile`, `ReadFile`, `StatDir`, `ReadDir` are the
calls on the subject. `ChangePath` is a process an earlier action left behind (or the failure of a
single call: an unreadable state there and back); it may act between any two calls. `seen` is a
history variable, what was at each path since the current leaf began; no guard reads it.
`Diagnostics` is what `run_result.rs` registers for the block.

Bytes are `a`, `b` and `raw` (never valid UTF-8). A directory's entries are read at once. Where a
fixture path leads is fixed by `OutsidePaths`. The instance uses two paths in both roles: one is
outside the path policy when it is a subject, the other outside the `*.repor` directory when it is a
fixture reference.

### ShimEvents
`runner` is where `execute_action` stands. `files[a][p]` is `<pid>.json` in the event directory of
action `a`; `Torn` is a file that `>` has created and `printf` has not written. Every process has
`piped` (it holds a pipe `output()` reads), `awaited` (it ends before the action does: it holds a
pipe, or something awaited waits for it in the foreground), `sees` (the environment variable is set)
and the stage of the wrapper it is in. Programs fork shims in the foreground or background, exec
them, exit, and are killed; ids are reused. Collection is one action per directory entry, and
`SeeLateEntry` is the freedom `read_dir` has with entries made after it began.

### WorkspaceWrite and AtomicCreate
One action per file system call, in the order of `write_file_applying`. `parents` is what each
directory component is, `temp`/`linked` the temporary file and whether its path still leads to it.
Another process may replace any component (with a directory, a file, a symlink, or nothing) or the
target between any two calls, and every call may fail by itself. The removal of the temporary file
is not a call of the code: it happens when the handle is dropped, by path, and says nothing when it
fails. `Return` therefore may leave the file, and a directory that is replaced may have been deleted
or moved away with the file in it: `residue` is the writes whose file stays, `hindered` (history)
those whose removal was out of the writer's hands. `NoResidue` says that nothing else leaves one: no
error path keeps the handle, and a write that leaves a file did not succeed. `KeepsPromise` is
`Promise!Spec`, the refinement: `target` and `outcomes` are the variables of `AtomicCreate`.

### RunReport and ReportageRun
A case is what the report's traversals read of it: status, number of actions, side effects, and
which expectations held. `pc[r]` is the stage of run `r`; `store` is `.reportage/runs`. `fs::write`
of the manifest is two steps (truncate, write), each evidence pair is one step, any of them may
fail, and a run may be killed anywhere. `over` is a history variable used only to say which runs
overlapped. At `evidence` a write can fail only while a pair is still to be written (`Writing`). A
fixed id may look like a time of the clock (`RunId::new` accepts one), so a clock id is never
checked and may hit a directory that is there already.

### ToolRuns, ShimScaffold, SchemaArtifacts, DocsGeneration and Tools
`files` is one file system: a path has a kind, a content, a mode and a node, so that a descriptor
goes on writing to a file that was renamed. `pc[r]` and `work[r]` are where a command stands and its
local variables, `exit[r]` its code with what led to it. `CallFails` lets the system call of a step
fail, `Kill` ends a process between two calls, `Interfere` lets another program replace a path;
together they are bounded by `budget`. `met` and `seen` are history: what disturbed a run, and the
files when it began. Every refusal of the code is an exit with its cause, in the order the code
checks, and the promise of each command is said once more, at once, over the files before and after
(`ScaffoldPromise`, `SchemaPromise`, `DocsPromise`); `QuietRun` compares the two.

* `ShimScaffold`: the entry point is quoted character by character and read back by a shell
  (`ShellWord`); the rest of a template is its name.
* `SchemaArtifacts`: a schema is the set of its JSON pointers; removing an annotation removes what
  lies below it. The temporary file has a fixed name, as in the code. A directory of that name makes
  every generator exit with 4 until somebody removes it; `SchemaPromise` says so.
* `DocsGeneration`: what a pattern matches is given, the checks before and after are not. `docs`
  parses real sources: `DocsCatalog` is built on `ScriptParser`. An index file name with a separator
  *inside* is refused; one with a separator only at its end is one component to
  `validate_index_file_name` and fails later, at the rename, with exit code 3. `DocsRefusal` is the
  documented refusal, which has it among the refused; `DocsPromise` names the exception
  (`SlashOverlooked`: 3 in place of 2, with the output directory made), and the run `index_separator`
  shows the disagreement. A failing `symlink_metadata` of the output directory or the target counts
  as nothing there, as in `output.rs:120` and `:151` (`OutputFails`).
* `Tools` composes them. `ReplacedWhole` is `Replacement!Spec`, the refinement of `AtomicReplace`,
  with the published places as `contents`; a generator that meets another one, or another program,
  is excused, because the temporary file is shared; `docs`, whose temporary name is its own, is not.

### InterpolatedText, ScriptParser and DocsCatalog
The grammar is line-structured, so a source is a sequence of lines, each a record of what the line
would be as code. Which lines *are* code (not in a heredoc, not a continuation) is `Modes`; blocks,
their placement and the rules of their bodies follow the code, block by block with its flags
(`AddBlock`, `Parse`), and the canonical form is stated independently as far as the order of the
blocks goes (`Canonical`); the body rules and the grammar of lines are the same operators on both
sides, so it is the order that `CanonicalForm` checks. Inside an interpolated literal text is a
sequence of bytes, with the escapes and markers of `text_expression.rs` and the per-line offsets of
`heredoc.rs`; a letter outside ASCII is two of them, so that byte offsets and the character columns
of `source_span` differ. An action keeps its command: the first line and those that continue it,
each with its indentation, trimmed at the two ends as in `parse_action_step`. A parsed case gives
its steps in the alphabet of `Scenario`, so the body rules are the same operators the evaluator
relies on. `Parsed` is a constant table over `Scripts`, the sources of the instance, so that TLC
parses each once.

Abstracted: indentation is spaces, line endings are LF, the text of a command is kept but not
interpreted, the kind of a literal is a flag of its line (`fits`), and symbolic links to directories
occur only where `docs` looks for them, at its output.

## 3. Runs

Every `pass` run explores its whole state space; every property has a mutant, a plausible edit of
the modelled code under which TLC finds the property violated.

| Run | Question | Bounds, and why they are enough |
|---|---|---|
| `case` | does the evidence record say the truth, however the case ends, and does every case end? | every accepted setup and body of up to 3 steps over alphabets of 5 and 9 steps, 3 outputs. Three steps hold action, let and use; a setup of three and a body of three hold every pair of a stale value and its reader |
| `block` | is the verdict of a block what its expectations and the files call for, and is it true of something when files change meanwhile? (`DiagnosticPerFailure` counts diagnostics; their codes are not compared with the reference, see section 7) | 9 blocks with every subject, matcher, source and operator, nested two deep; 3 checkpoints; 2 paths in 7 states; 2 disturbances, which give every pair of a look and a read that disagree, away and back included, and a change of both sides of a comparison |
| `shim` | do events stay with their action, is none that was waited for lost silently, do shims reach their target, and is a case not held up by a detached process? | 2 actions, 2 invocations, 2 process ids, with fairness, hence without symmetry: a process of action 1 lives through action 2, and an id is reused. A foreground program that itself waits for another needs a third id; that is left to `CollectedTheorem` |
| `shim_collision` | violation: one event file per invocation | 1 id is enough: exec keeps it |
| `write` | is a write all or nothing, is its answer the documented one when undisturbed, and does a temporary file stay only where it could not be removed? (`QuietAnswer` speaks of undisturbed writes only; the races are `KeepsPromise`'s) | path of depth 2 (a component above and one directly above the target), 3 writes, 4 disturbances |
| `run` | does validation precede execution, and do the traversals agree? | 1 run, up to 2 files of up to 2 cases, 7 case results covering every status |
| `store` | is no verdict given without evidence, and does an earlier bundle survive? (runs that overlap and share a directory are excused by `Shared`: that they may collide is the code's, see section 5) | 2 runs, one fixed id, two clock values of which one looks like it, so every collision happens; 1 file, 1 case, up to 2 actions of evidence |
| `tools` | do the commands that write files keep their promises, alone and disturbed? | 2 runs, 1 failure, kill or replacement, so a run that is disturbed is followed by one that is not, or meets another; sources of up to 4 blocks over 12 block forms, every interpolated text of up to 3 characters over 6 (strings) and 5 (heredocs) in both forms, and texts with a wide letter before a marker; a command that is continued in the middle of a word; 2 schema contracts in every state; every kind of file at every output |
| `manifest_exit_code`, `invalid_config`, `failed_assertion` | violations, see Findings | as `run` |
| `index_separator` | violation: an index name that is no file name is refused before any output | one source, one index name of each kind |

Deadlock is checked in every run. Where the system really ends, an explicit `Over`/`AllOver` step
stutters, so a state in which it is merely stuck is reported.

### Fairness
* `CaseExecution`: weak fairness of `Execute`, the disjunction of all steps: the evaluator is a loop
  that never waits, except for commands, and the model has no command that never ends. `CaseEnds`
  therefore reads "as long as its commands end".
* `ShimEvents`: weak fairness of the runner starting an action or finishing, of `Collect`, and per
  process of `Wrapper` (a shell script that only opens, writes and execs) and of `AwaitedExit`.
  A process that is *not* awaited has no fairness: it may run for ever. There is no time limit in the
  code, so without `AwaitedExit` an action that never ends hangs the run, and that is the truth.
* `BlockEvaluation`, `WorkspaceWrite`, `ReportageRun` and `Tools` state safety only and assume no
  fairness: each is a bounded sequence of calls, none of which waits for another process.

## 4. Proofs

| Theorem | Module | Argument |
|---|---|---|
| `TypeCorrect` | `CaseExecutionProofs` | `TypeOK` is inductive |
| `InvariantHolds` | `CaseExecutionProofs` | the inductive invariant, below |
| `BindingFlowTheorem`, `BlockAttributionTheorem` | `CaseExecutionProofs` | follow from it |
| `EvidenceKeptTheorem` | `CaseExecutionProofs` | an action property: every action appends or leaves alone; `Insert` needs that a `let` never redeclares, hence the invariant |
| `TypeCorrect`, `ComparisonsExact` | `BlockEvaluationProofs` | one inductive invariant, below; a comparison is exact by the three cases of the scan (a difference, a prefix, equality) |
| `ValidationComplete` | `BlockEvaluationProofs` | a leaf at any depth lies in the subtree of an expectation of the block, by the least node whose subtree holds it |
| `DraftInvariant`, `TypeCorrect` | `WorkspaceWriteProofs` | `Pending`: at each stage the temporary file is what the stage calls for |
| `NoResidueTheorem` | `WorkspaceWriteProofs` | `Left`: a file that stays belongs to the current write or an earlier one; the current one has not answered yet, and only errors leave one |
| `Refinement` | `WorkspaceWriteProofs` | each step maps to `Create`, `Refuse`, `Disturb` or a stutter; `Persist` needs `Pending` to publish a complete file |
| `QuietInvariant`, `QuietAnswerTheorem` | `WorkspaceWriteProofs` | `Undisturbed`: while nothing interfered, what the loops have passed is still what was found |
| `RecordHolds` | `CaseExecutionProofs` | `RInv`, below |
| `ProvenanceTheorem`, `SetupTheorem`, `PassTheorem`, `EndTheorem` | `CaseExecutionProofs` | follow from it and from `IInv` |
| `BlameTheorem`, `MomentTheorem` | `BlockEvaluationProofs` | `SInv`: what is at a path now has been seen, and the phases remember what they looked at |
| `VerdictTheorem`, `DiagnosticTheorem` | `BlockEvaluationProofs` | `QInv`, below, and that a block has exactly one evaluation |
| `TypeCorrect` | `ShimEventsProofs` | `TInv`: types, and who waits for whom and which invocation a wrapper serves |
| `EventsOwnTheorem` | `ShimEventsProofs` | `OInv`, below |
| `CollectedTheorem` | `ShimEventsProofs` | `WInv` and `CInv`, below |
| `TypeCorrect` | `ReportageRunProofs` | four kinds of steps (`StepKinds`): prepare, choose a directory, write, end |
| `GateHolds`, `ValidateBeforeExecuteTheorem` | `ReportageRunProofs` | `Gate`: before `evaluate` a report has no case, and from `evaluate` on it has cases or file errors, not both |
| `EvidenceTheorem`, `PriorRunTheorem` | `ReportageRunProofs` | `EInv`, below |
| `DocumentTheorem` | `ReportageRunProofs` | the traversals of a report are sizes of sets of rows, below; `ToldInv` says which results a report may hold |
| `ParserTheorem` | `DocsProofs` | what the flags of the parser remember of the blocks behind it, below |
| `CanonicalTheorem` | `ToolsProofs` | the same, of whatever `docs` is about to load |
| `Reachable`, `TypeTheorem` | `ToolsProofs` | the inductive invariant of the three commands, below |
| `RefusalTheorem` | `ToolsProofs` | `Untouched`: before its first write, and in a preview always, a command that only failures disturb has the files it began with |
| `ReplacementTheorem` | `ToolsProofs` | the refinement of `AtomicReplace`, from `StagedByLone`, below |
| `ReportTheorem` | `ToolsProofs` | `ReportInv`: up to now the report is the difference of the files, and what is left is as it was found |
| `RenderedTheorem` | `ToolsQuietProofs` | `HeldInv`: what `docs` has loaded at each of its labels; `AcceptedDocument` in `DocsProofs`: the document made of such sources, below |
| `QuotedIsRead` | `ToolsQuietProofs` | forward over the characters: after the quoted form of the first n the shell has read these n and is between quotes |
| `ReachableOrder` | `ToolsQuietProofs` | every step is `Tidy`: it removes a directory only with all below it, and makes something only below a directory |
| `QuietTheorem` | `ToolsQuietProofs` | `SoFar`: what an undisturbed command has established at each of its labels, below. Of `docs` it gives the exact refusals of the code (`CodeRefusal`), which are the documented ones but for `SlashOverlooked` |

Why `BlockAttribution` and `BindingFlowSound` are not inductive by themselves. Attribution says what
is recorded; to keep it, a step must know that the checkpoint is `None` exactly when no action of the
*current* block has run (`CheckpointInv`), that recorded origins lie before the current position and
in order (`OrderInv`), that the position is in a block of an accepted case (`PositionInv`), and that
the bound names are exactly those declared so far (`ScopeInv`). The last two also give that the
`expect` is unreachable: the parser demands an action before a `let` in the *same* list, and the
checkpoint is reset between the lists; if either rule were per case instead of per block, the proof
of `BindKeepsIInv` fails, as the mutant `ValidBindingsWithoutActionSeen` fails under TLC.

For `BlockEvaluation`, neither type correctness nor exactness is inductive alone: a step that records
a stream needs a checkpoint, and one that compares needs a resolved expected side. `Phased` adds what
each `pc` has established (the leaf has the subject the phase is for, a process leaf has an action,
`expected` is not `None` once a comparison may follow). That a process leaf has an action comes from
`ValidatedFirst`, so the three are proved together. The tree argument needs no induction over the
block: the least node `m` with the leaf in `Subtree(m)` has parent 0, else its parent would be
smaller and hold the leaf too. `MinIsLeast` rests on the well-foundedness of `<` on the naturals.

What a case records (`RInv`, on top of `IInv`): the actions on record are exactly the positions of
actions that were completed, the blocks exactly those completed plus the one that failed
(`RecordInv`); a case in an error status stands at the step that broke it (`EndInv`); every bound
name holds what the action it is attributed to left on its stream (`BoundInv`). "Passed" then means
that the position is behind the last step, which is why `PassMeansAllRan` needs no induction over the
case.

The event channel. `EventsAreOwn` needs more than directories of their own: a process of an old
action lives on and its id may be reused. `OInv` says that a process in a wrapper serves the latest
invocation under its id, an invocation of its own action, and that every file of an action's
directory holds an invocation of that action. `AwaitedEventsCollected` needs that when `output()`
returns no awaited process of the action is left. `WInv`: whatever is awaited is the shell, holds a
pipe, or runs in the foreground of a program that was itself awaited and began earlier; so if one
were left, one with the least invocation would be left, which is the shell or holds a pipe, and
`output()` had not returned. `CInv` follows an event from there: while it is due its process is under
way; once written it is in its file or was overwritten by a later one under the same id; once read it
is in the result or warned about. Both hold for any number of actions, invocations and process ids.

The artifact store. `EvidenceBehindVerdict` is about a run's end but depends on what every other run
does in between. `EInv`: nobody has an exit code before its last step, and who was over when a
directory was chosen is over still (`OverInv`); what has been written exists, so a fixed id is never
taken where a run that ended with its report has written (`TakenInv`); at each stage a run's own
manifest and evidence are there, or its directory is shared (`BundleInv`). The key lemma is
`WriterShares`: a run that is still writing where another has signed shares the directory with it.
`PriorRunKept` is an action property from the same invariant.

Assertion blocks under interference. Nothing is known of a file between two calls, but the history
`seen` is: `SInv` keeps that the present state is always in it (`SeenNow`), that the expected bytes
are those of some readable state in it (`Resolved`), and that a read follows a look that saw the
right kind (`Looked`). `unreadable` is the result that needs both ends of the window.

What a block adds up to. `Passed` is a recursive function over the tree, and its value is a `CHOOSE`
until it is shown that a function with that equation exists. `EvaluationExists` and
`EvaluationUnique` give exactly one set of nodes that obeys the operators of the block: a
composition looks only at later nodes, so the last node up to which no such set exists, or on which
two of them differ, is a contradiction. `PassedIsEvaluation` carries this to the function. The
invariant is `QInv`: the leaves behind the current one are exactly those with a result (`Progress`),
and as long as nothing has interfered each result says what is so and what earlier calls of the
current leaf found still is so (`Found`). At the end the observed leaves are the ones that hold, so
both evaluations are the same one. `DiagnosticPerFailure` needs in addition that a leaf that did not
pass lies in an expectation that did not.

The summary of a run. `RunReport` computes it by sums over cases of numbers of a case; the invariant
compares it with a traversal of the single expectations. `SumIsCardinality` makes the two
comparable: a sum over a sequence is the size of a set of rows, one row for each unit counted, and
that set is finite. The first index up to which sum and size differ is a contradiction.

The parser. `Canonical` is said of a whole file: the order of its blocks, and that every literal in
it, every document block and every list of steps is sound. The parser sees one block at a time and
keeps four flags. `Remembers` says what these are after the first n blocks, none of which was refused
(`NextState` keeps it, block kind by block kind); `Accepts` is what a state asks of the next block,
and `BlockByBlock` that the parser accepts a source exactly when every state on the way accepts.
`AcceptedIsOrdered` derives the order from that; `OrderedAccepts` says that in a file in order a
state asks of a block exactly what the canonical form says of it, so that, for one, the names in
scope of a case are those of the one `before_each` the canonical form finds in the whole file. The
other half is about lines. The canonical form speaks of all code lines, the parser only looks at
those it collects: fields, steps, and the expectations of an assertion block, up to the first line
that closes one. `CodeLinePlaced` says that nothing is missed: a code line that the grammar lets
stand and that can hold a literal at all is a field or step of a block, or lies in an assertion
block that one of its steps opens (`AssertionOpened`, from the modes of the lines before it). Each
induction, over lines (`ModesFollow`) or blocks (`ParseFollows`, `StatesRemembered`), is again a
search for the first that fails; `InOrderIsOrder` does the same service for the order of line numbers.

The commands that write files. `Inv` has four parts: where a process stands suits its job, and
its exit its cause (`ProcessInv`); its local variables are what that stage has computed, so the text
of a schema is a text and its descriptor one it opened itself (`WorkInv`); a path holds one kind of
file, no two paths the same open file, a symlink leads to no published or temporary place
(`FilesInv`); and whatever file is open was opened by the process it is named after (`NodesInv`),
which is what makes a new descriptor new. Above it stand three invariants about runs that were
not disturbed: `Known` (a disturbance that could reach a process is in its `met`), `Untouched`, and
`StagedByLone` (the temporary file is the very file the descriptor leads to, and holds the whole text
when it is about to be renamed). Why these are needed: `ReplacedWhole` is false for a
generator that met another one, so a proof must carry "alone" from the opening of the temporary
file to its rename, through every step of every other process; `AloneWhileLone` says that such a
step would have been met. `ReportedChangesTrue` needs that two contracts never share a public
file, otherwise a schema reported once would have changed twice.

What an undisturbed command does. `QuietRun` compares the calls of a command, with the state it keeps
between them, to a promise that is said once over the files before and after. Neither says anything
of the way between, so the invariant does: `SoFar` holds, for each label of each command, what has
been checked (in the words of the promise: no violation, no defect up to this contract, no pattern
error up to this pattern), what has been computed (the texts wanted, the sources loaded, the
document) and in which places the files differ from those at the start. For the generator this is
`WrittenUpTo`: schemas before the current one are published and their temporary files gone, those
from it on are as they were found. `QuietInv` is `Inv`, `Known`, `StagedByLone`, `ValidRequests`,
`OrderlyInv` and `SoFar` together. `QuietMove` says that while a run has met nothing only its own
steps move; the rest of the proof is one lemma for each step: the step keeps
`SoFar`, or ends the run and then `SoFar` gives the promise. Four things in it are not of that kind.

* The files are a tree (`OrderlyInv`). Without it the promise of `docs` is not provable: that
  nothing is at the target when the output directory was not there needs that below nothing there is
  nothing. It has to be kept by every step of every process, disturbed or not, which is `Tidy`;
  a replacement by another program empties what is below the place.
* Refusals have to be *exactly* those of the promise, in both directions, although the code stops
  at the first (`PolicyPassed`, `DocsRefuses`, `FineIsNotRefused`), and the code of a refusal is that
  of the worst defect (`Reported`).
* `docs` takes its sources in the order of their display paths, so a nonempty set of them has a
  first (`FirstSource`, from a listing of the finite set), which it loads, and the catalog is built of
  exactly those the patterns select.
* A shell reads a quoted word back (`QuotedIsRead`). `SingleQuoted` and `ShellWord` are recursive
  functions over characters; both are unfolded once, and the word's first character at which
  the reading goes wrong is a contradiction.

What `docs` renders. `DocumentWellFormed` is about a document, so `AcceptedDocument` proves it of any
finite set of accepted sources with different places, without a state: the contents and the headings
are built by two traversals of the catalog, and `Mirrors` says of two lists of blocks that each entry
of the first has one heading in the second, with its title and in the same order. It survives joining
only where the anchors of both parts are disjoint (`MirrorsJoined`, and over a whole list
`MirrorsFlattened`); they are, because an anchor begins with the kind and the numbers of its place
and a title has only words to add (`AnchorParts`). Whatever titles a script declares, two
headings therefore never share an anchor. A fence is longer than every run of backticks in what it
encloses (`FencedIsTight`), and a snippet is made of lines of its file (`SnippetListed`). That every
source has its place needs that sorting loses none: `Sorted` takes at `k` the member that `k - 1`
come before, and `RankedHasAll` that these are all the members if the order is total, which the
orders of groups and of files are (`GroupsSorted`, `FilesSorted`). The invariant `HeldInv` carries
this to `docs`, disturbed or not: what it has loaded so far was accepted by the parser, holds one
source per place, and none of the places it has still to do, and the document is the one of what was
loaded. A source may be replaced while the command runs; what is loaded then is another script.

The proofs hold for all values of the constants under the named assumptions only, and TLC evaluates
each of them on the instances. They are of three kinds.

* Shapes: a path is a nonempty sequence of names and what it is below is a path (`PathsAssumption`),
  display paths are totally ordered (`OrderAssumption`); titles and file stems are made of words,
  group names are totally ordered and an order is a number (`TitlesAssumption`, `StemAssumption`);
  cases are step sequences over the given names, blocks are trees the parser can build, scripts are
  sequences of lines of which only fields, steps and expectations hold literals, and only a
  description may be a heredoc (`ScriptsAssumption`), command outputs are token sequences, bounds
  are naturals, `None` is none of the values it is told from (`NoneAssumption` in each module,
  `ProcessAssumption` in `ShimEvents`).
* What other parts of the code establish: a case that failed has an expectation that did not hold
  (`ResultsAssumption`; what `CaseExecution` proves of a case, and `evaluate_case` computes at
  `core/evaluator/execution.rs:325`), and the schema pairs have public and temporary files that are
  all different (`ContractsAssumption`; the constant table of the generator).
* Limits of the inputs: the files a command starts from are complete, open nowhere, and a tree
  (`WorkloadAssumption`); no command is sent, by an argument or through a symlink, to a file that
  another command publishes, no published file lies below another, there is no symlink where the
  generator writes or above it, and a request's places are among the paths of the instance
  (`PublishedAssumption`, `PlacesAssumption`); what the patterns of a `docs` run may select, there
  or where a symlink leads, are scripts of the instance, and no command writes there
  (`SourcesAssumption`). Nothing in the code
  enforces these limits: a scaffold told to write over a published schema, or over a source, would
  write it in place.

Two forms of the modules follow from how the prover reads them. Two `CASE` expressions of the same
guards are told apart badly by its SMT translation, so no proof rests on two of them at once; with
those of a proof's module rewritten as `IF`, the proofs were checked again. And an `@` nested in the
`EXCEPT` of another `@` is expanded wrongly, so `Opened` and its neighbours name the intermediate
value.

Only model-checked:

* liveness (`CaseEnds`, `TargetReached`, `CaseNotHeldUp`): fairness and `ENABLED` are beyond the prover;
* `LiteralsReadBack`, `SnippetsStandAlone`: they speak of recursive functions over the characters of
  a text and over the lines of a snippet that is parsed a second time, so each is an induction over
  data. Where such an induction was worth it (`Passed`, the sums of a report, the parser, the blocks
  of a document) it was done by hand, as a search for the least counterexample; these take it once
  per function;
* `RetryConverges`: it relates the files a run finds to those before the *first* of the runs that
  failed or were killed, so it needs an invariant about what any number of broken attempts may leave,
  for each command, and further limits on the workload (no place that other programs replace, no
  pattern that matches through the output directory the attempts create). The instance has two runs,
  so one broken attempt and one retry. For one run the theorem is `QuietTheorem`.

## 5. Findings

Five places where a document or comment of the repository says something else than the code does;
each is a run that TLC must find violated.

* `shim_collision`: the event file is named after `$$`, which `exec` keeps, so two invocations in
  one process leave one file (`core/shim.rs:189`; `docs/reference/shim-event-protocol.md:29` demands
  one file each, without collision).
* `manifest_exit_code`: `result.json` is written before the evidence it refers to; when an evidence
  file then cannot be written, the process ends with 3 and the manifest says otherwise
  (`core/artifact.rs:132`; `spec/artifacts/run-result/schema.json:38`). The trace has one case with
  an action, its manifest on disk and its first evidence refused. Panics and kills are excluded.
* `invalid_config`: an invalid configuration exits with 3 (`cli/main.rs:413`); the exit code table
  gives 2 (`docs/reference/exit-codes.md:21`).
* `failed_assertion`: a failed assertion adds a `diagnostics` entry (`core/run_result.rs:651`);
  `docs/ai/validation-flow.md:22` says it does not.
* `index_separator`: `docs --index-file-name other/` passes `validate_index_file_name`
  (`core/docs/layout.rs:83`), which looks at path components; the output directory is created and
  the run ends with 3. `docs/reference/docs-generation.md:104`, `docs/reference/exit-codes.md:91` and
  the comment at `layout.rs:79` have a request error, 2, before any output.

Seen while modelling, and not a run of their own:

* `core/artifact.rs:112`: the comment above it says that a fixed run id is rejected "rather than
  silently overwriting a run directory that already exists"; `exists()` and `create_dir_all` are two
  calls, so two runs with one id that both ask first share the directory. The model has these
  behaviours; the properties of `store` excuse them.
* `core/docs/plain.rs:96`: a plain snippet is indented line by line, the lines that continue a
  command too, whose spaces are part of the command. `docs/reference/docs-generation.md:72` says that
  a copied snippet parses and runs on its own; the page also documents the indentation as
  presentation (`:130`, `:133`). `SnippetsStandAlone` says what is true of it: the commands of a plain
  snippet are those of the case with their continuation lines four columns further right, so a word
  that is split by a backslash at a line's end is another command.
* `docs/reference/semantics.md:406`: see section 7.

## 6. Not modelled, and why

* The composition of the two levels of an assertion: `CaseExecution` chooses the outcome of a block
  freely, `BlockEvaluation` derives it (plan, below).
* A symlink swapped into a fixture between its re-check and its copy; the source says this window is
  narrowed, not closed.
* Where a followed symlink leads: the code refuses symlinks at the check and promises no more; the
  model lets a symlink appear afterwards and keeps only what is seen at the path.
* What becomes of a temporary file after its directory was moved away or its removal failed, other
  than that it stays.
* Signals as exit codes of an action, environment variables other than the event directory, and the
  validation of command names: they change no state the properties read.
* Configuration (`core/config.rs`): KDL text to a `Config` or an error, a list of independent checks
  on one syntax tree. `ReportageRun` takes its outcome as a choice (accepted, unreadable, invalid,
  refused by the registry), which is all the rest of a run depends on.
* Inside a line: the characters of literals other than interpolated text, literal kinds and ranges,
  tabs, CRLF line endings, and the wording and excerpts of parse errors.
* The human renderer, `contents_diagnostic.rs`, the tables of diagnostics and semantic rules with
  their generators, and the references command: formatting of finished data and fixed lists, no state.
* JSON layout, digests, byte sizes, provenance wording.
* `run_docs` ends with a `println!`; its panic on a closed standard output is not modelled (it is for
  a run, `RenderPanics`).
* A time limit for actions: the code has none.

## 7. Plan

Done: all modules of section 2, and the proofs of section 4. What would come next:

1. `CaseExecution` and `BlockEvaluation` joined: the block outcomes of the first as the abstract
   specification (evaluated or rejected or abandoned, in one step) that the second implements, with
   the files a background process changes between two blocks.
2. `RetryConverges` for any number of broken attempts, from `QuietTheorem` and an invariant of what
   an attempt may leave.
3. `SnippetsStandAlone` for any source: the blocks of a snippet are those of its file that it was cut
   from, moved up by the same number of lines (and its commands to the right), so the parser takes the
   same way through both.
4. The excerpt window of `contents_diagnostic.rs` as operators checked against a reference definition.
5. A disagreement to settle: `docs/reference/semantics.md:406` gives an unreadable subject of
   `text_equals` and `contents_equals` the code `precondition_unmet`; in the code only `contains`
   merges it.
