--------------------------- MODULE CaseExecution ----------------------------
(***************************************************************************)
(* Execution of one concrete case (evaluator/execution.rs): setup steps,   *)
(* then body steps, in source order, against one accumulating evidence     *)
(* record.  What the case meets while it runs (the output of a command,    *)
(* the verdict of an assertion, a file system error) is chosen freely.     *)
(*                                                                         *)
(* Positions are 1-based here and 0-based in the code: `step` is           *)
(* step_idx + 1 and an index into `actions` is action_index + 1.           *)
(***************************************************************************)
EXTENDS Scenario

CONSTANTS Cases,     \* the concrete cases offered to the parser
          Results,   \* what a `$` action may leave on its two streams
          None       \* Option::None

(***************************************************************************)
(* Process output as a sequence of tokens: text, \n, \r, and a byte that   *)
(* is not valid UTF-8.                                                     *)
(***************************************************************************)
Token == {"text", "LF", "CR", "raw"}
ActionResult == [stdout : Seq(Token), stderr : Seq(Token)]

ASSUME CasesAssumption == Cases \subseteq [setup : Seq(Step), body : Seq(Step)]
ASSUME ResultsAssumption == Results \subseteq ActionResult
ASSUME NoneAssumption == None \notin ActionResult \cup Nat

VARIABLES
  case,         \* the concrete case, fixed at the start
  phase,        \* "entry" before the first step, then the block being run
  step,         \* the next step of that block
  lastAction,   \* the checkpoint's last action result
  actions,      \* CaseExecution.actions
  bindings,     \* CaseExecution.bindings
  blocks,       \* CaseExecution.assertion_blocks
  sideEffects,  \* CaseExecution.side_effects_executed
  status,       \* "running", or how the case ended
  diagnostic    \* the code and the origin a script or runtime error reports

evidence == <<actions, bindings, blocks, sideEffects>>
vars == <<case, phase, step, lastAction, evidence, status, diagnostic>>

Phases == {"before_each", "case"}
Origin == [phase : Phases, step : Nat]
ActionRecord == [origin : Origin, result : ActionResult]
Binding ==
  [value : Seq(Token), action : Nat, stream : Streams, mode : CaptureModes]
BlockResult ==
  [origin : Origin, needsAction : BOOLEAN, failed : BOOLEAN, checkpoint : Nat \cup {None}]
Codes ==
  {"none", "missing_assertion_block", "requires_action", "invalid_path", "unresolvable",
   "binding_undefined", "write_failed", "binding_non_utf8", "binding_not_single_line"}
Diagnostic == [code : Codes, origin : Origin \cup {None}]

Statuses == {"running", "pass", "fail", "script_error", "runtime_error", "panic"}

TypeOK ==
  /\ case \in {c \in Cases : ParsedCase(c)}
  /\ phase \in Phases \cup {"entry"}
  /\ step \in Nat \ {0}
  /\ lastAction \in ActionResult \cup {None}
  /\ actions \in Seq(ActionRecord)
  /\ DOMAIN bindings \subseteq Names
  /\ bindings \in [DOMAIN bindings -> Binding]
  /\ blocks \in Seq(BlockResult)
  /\ sideEffects \in Nat
  /\ status \in Statuses
  /\ diagnostic \in Diagnostic \cup {None}

-----------------------------------------------------------------------------
Steps(p) == IF p = "before_each" THEN case.setup ELSE case.body

Running == status = "running"
AtStep(kind) ==
  /\ Running
  /\ phase \in Phases
  /\ step \in DOMAIN Steps(phase)
  /\ Steps(phase)[step].kind = kind

Current == Steps(phase)[step]
Here == [phase |-> phase, step |-> step]

\* The step completed: the sequence goes on with the next one.
Advance ==
  /\ step' = step + 1
  /\ UNCHANGED <<case, phase, status, diagnostic>>

\* A wrong edit: the exit path builds a fresh result, as abort_before_execution does.
FinishWithoutEvidence(s, d) ==
  /\ status' = s
  /\ diagnostic' = d
  /\ actions' = <<>> /\ blocks' = <<>> /\ sideEffects' = 0
  /\ UNCHANGED <<case, phase, step, lastAction, bindings>>

\* The case ends in status `s`; every exit path keeps the evidence gathered.
Finish(s, d) ==
  /\ status' = s
  /\ diagnostic' = d
  /\ UNCHANGED <<case, phase, step, lastAction, evidence>>

Abort(s, code) == Finish(s, [code |-> code, origin |-> Here])

-----------------------------------------------------------------------------
Init ==
  /\ case \in {c \in Cases : ParsedCase(c)}
  /\ phase = "entry"
  /\ step = 1
  /\ lastAction = None
  /\ actions = <<>>
  /\ bindings = [n \in {} |-> None]
  /\ blocks = <<>>
  /\ sideEffects = 0
  /\ status = "running"
  /\ diagnostic = None

(***************************************************************************)
(* evaluate_case up to its first step: no workspace without an assertion   *)
(* block in the body, then the isolated workspace and the command shims.   *)
(***************************************************************************)
StartCase ==
  /\ Running
  /\ phase = "entry"
  /\ HasAssertionBlock(case.body)
  /\ phase' = IF case.setup = <<>> THEN "case" ELSE "before_each"
  /\ UNCHANGED <<case, step, lastAction, evidence, status, diagnostic>>

SetUpFails ==
  /\ Running
  /\ phase = "entry"
  /\ IF HasAssertionBlock(case.body)
     THEN Finish("runtime_error", [code |-> "none", origin |-> None])
     ELSE Finish("script_error", [code |-> "missing_assertion_block", origin |-> None])

-----------------------------------------------------------------------------
(* `$` actions.                                                            *)

RunAction(result) ==
  /\ AtStep("action")
  /\ lastAction' = result
  /\ actions' = Append(actions, [origin |-> Here, result |-> result])
  /\ UNCHANGED <<bindings, blocks, sideEffects>>
  /\ Advance

ActionCannotRun ==
  /\ AtStep("action")
  /\ Abort("runtime_error", "none")

-----------------------------------------------------------------------------
(* `write` steps: the content is resolved before the file is touched.      *)

Resolves(s) == BindingReferences(s) \subseteq DOMAIN bindings

WriteFile ==
  /\ AtStep("write")
  /\ IF Resolves(Current)
     THEN /\ sideEffects' = sideEffects + 1
          /\ UNCHANGED <<lastAction, actions, bindings, blocks>>
          /\ Advance
     ELSE Abort("runtime_error", "binding_undefined")

WriteFails ==
  /\ AtStep("write")
  /\ Resolves(Current)
  /\ Abort("runtime_error", "write_failed")

-----------------------------------------------------------------------------
(* `let` steps.                                                            *)

\* One trailing \n or \r\n is not part of a line.
WithoutTerminator(out) ==
  LET n == Len(out)
  IN CASE n >= 2 /\ out[n] = "LF" /\ out[n - 1] = "CR" -> SubSeq(out, 1, n - 2)
       [] n >= 1 /\ out[n] = "LF" /\ ~(n >= 2 /\ out[n - 1] = "CR") -> SubSeq(out, 1, n - 1)
       [] OTHER -> out

Contains(out, tokens) == \E i \in DOMAIN out : out[i] \in tokens

Captured(out, mode) == IF mode = "line" THEN WithoutTerminator(out) ELSE out

CaptureError(out, mode) ==
  CASE Contains(out, {"raw"}) -> "binding_non_utf8"
    [] ~Contains(out, {"raw"}) /\ mode = "line" /\ Contains(Captured(out, mode), {"LF", "CR"})
         -> "binding_not_single_line"
    [] OTHER -> "none"

\* A wrong edit: the action is numbered within its own block.
BoundTextByPhase(let) ==
  [value |-> Captured(lastAction[let.stream], let.mode),
   action |-> Len(SelectSeq(actions, LAMBDA a : a.origin.phase = phase)),
   stream |-> let.stream, mode |-> let.mode]

BoundText(let) ==
  [value |-> Captured(lastAction[let.stream], let.mode), action |-> Len(actions),
   stream |-> let.stream, mode |-> let.mode]

Insert(name, binding) ==
  bindings' = [n \in DOMAIN bindings \cup {name} |-> IF n = name THEN binding ELSE bindings[n]]

Bind ==
  /\ AtStep("let")
  /\ IF lastAction = None
     THEN Finish("panic", None)   \* .expect("... validated to follow an action")
     ELSE LET error == CaptureError(lastAction[Current.stream], Current.mode)
          IN IF error # "none"
             THEN Abort("runtime_error", error)
             ELSE /\ Insert(Current.name, BoundText(Current))
                  /\ UNCHANGED <<lastAction, actions, blocks, sideEffects>>
                  /\ Advance

-----------------------------------------------------------------------------
(* Assertion blocks.                                                       *)

RequiresMissingAction(e) == e.needsAction /\ lastAction = None

Problem(e) ==
  IF RequiresMissingAction(e) THEN "requires_action"
  ELSE IF e.validPath THEN "none" ELSE "invalid_path"

\* Expectations whose evidence or path is refused; the first one is reported.
Refused(es) == {i \in DOMAIN es : Problem(es[i]) # "none"}
First(indices) == CHOOSE i \in indices : \A j \in indices : i <= j

NeedsAction(es) == \E i \in DOMAIN es : es[i].needsAction

\* A wrong edit: `actions.len() - 1` without asking the checkpoint first.
UnguardedIndex == Len(actions) - 1

\* A wrong edit: the index counts the actions of the case, not of the checkpoint.
LatestActionIndex == IF actions = <<>> THEN None ELSE Len(actions)

\* The index of the action whose evidence the block read, from the checkpoint.
CheckpointIndex == IF lastAction = None THEN None ELSE Len(actions)

BlockRecord(es, failed) ==
  [origin |-> Here, needsAction |-> NeedsAction(es), failed |-> failed,
   checkpoint |-> CheckpointIndex]

RejectBlock ==
  /\ AtStep("assert")
  /\ LET es == Current.expectations
     IN /\ Refused(es) # {}
        /\ Abort("script_error", Problem(es[First(Refused(es))]))

\* A wrong edit: the expectations already evaluated are recorded before the abort.
AbandonRecordedBlock ==
  /\ AtStep("assert")
  /\ Refused(Current.expectations) = {}
  /\ blocks' = Append(blocks, [origin |-> Here, needsAction |-> FALSE, failed |-> FALSE,
                               checkpoint |-> CheckpointIndex])
  /\ status' = "script_error"
  /\ diagnostic' = [code |-> "unresolvable", origin |-> Here]
  /\ UNCHANGED <<case, phase, step, lastAction, actions, bindings, sideEffects>>

\* An expected value that does not resolve: the whole block goes unrecorded.
AbandonBlock ==
  /\ AtStep("assert")
  /\ Refused(Current.expectations) = {}
  /\ Abort("script_error", IF Resolves(Current) THEN "unresolvable" ELSE "binding_undefined")

PassBlock ==
  /\ AtStep("assert")
  /\ Refused(Current.expectations) = {}
  /\ Resolves(Current)
  /\ blocks' = Append(blocks, BlockRecord(Current.expectations, FALSE))
  /\ UNCHANGED <<lastAction, actions, bindings, sideEffects>>
  /\ Advance

\* A wrong edit: a failed setup block is recorded, and setup goes on.
FailBlockInBodyOnly ==
  /\ AtStep("assert")
  /\ Refused(Current.expectations) = {}
  /\ Resolves(Current)
  /\ blocks' = Append(blocks, BlockRecord(Current.expectations, TRUE))
  /\ IF phase = "case"
     THEN /\ status' = "fail"
          /\ UNCHANGED <<case, phase, step, diagnostic>>
     ELSE Advance
  /\ UNCHANGED <<lastAction, actions, bindings, sideEffects>>

\* A failed block ends the case, in setup as well as in the body.
FailBlock ==
  /\ AtStep("assert")
  /\ Refused(Current.expectations) = {}
  /\ Resolves(Current)
  /\ blocks' = Append(blocks, BlockRecord(Current.expectations, TRUE))
  /\ status' = "fail"
  /\ UNCHANGED <<case, phase, step, lastAction, actions, bindings, sideEffects, diagnostic>>

-----------------------------------------------------------------------------
\* A wrong edit: setup hands over only after an action of its own.
EnterBodyAfterAction ==
  /\ Running
  /\ phase = "before_each"
  /\ step > Len(case.setup)
  /\ lastAction # None
  /\ phase' = "case"
  /\ step' = 1
  /\ lastAction' = None
  /\ UNCHANGED <<case, evidence, status, diagnostic>>

\* Setup completed: the body starts from a checkpoint without process evidence.
EnterBody ==
  /\ Running
  /\ phase = "before_each"
  /\ step > Len(case.setup)
  /\ phase' = "case"
  /\ step' = 1
  /\ lastAction' = None
  /\ UNCHANGED <<case, evidence, status, diagnostic>>

\* A wrong edit: the last step of the body is never reached.
CompleteBodyEarly ==
  /\ Running
  /\ phase = "case"
  /\ step >= Len(case.body)
  /\ Finish("pass", None)

CompleteBody ==
  /\ Running
  /\ phase = "case"
  /\ step > Len(case.body)
  /\ Finish("pass", None)

\* The case is over: nothing changes any more.
Over == ~Running /\ UNCHANGED vars

Execute ==
  \/ StartCase \/ SetUpFails
  \/ (\E result \in Results : RunAction(result)) \/ ActionCannotRun
  \/ WriteFile \/ WriteFails
  \/ Bind
  \/ RejectBlock \/ AbandonBlock \/ PassBlock \/ FailBlock
  \/ EnterBody \/ CompleteBody

Next == Execute \/ Over

\* The evaluator is one sequential loop that never waits except for a command.
Spec == Init /\ [][Next]_vars /\ WF_vars(Execute)

-----------------------------------------------------------------------------
(* Properties.                                                             *)

StepsOf(p, kind) == {i \in DOMAIN Steps(p) : Steps(p)[i].kind = kind}
Recorded(records, p) ==
  {records[k].origin.step : k \in {j \in DOMAIN records : records[j].origin.phase = p}}

\* The actions of block `p` written before its step `i`, as indices of `actions`.
ActionsBefore(p, i) ==
  {k \in DOMAIN actions : actions[k].origin.phase = p /\ actions[k].origin.step < i}
IsLatest(k, indices) == k \in indices /\ \A j \in indices : j <= k

Failed(k) == blocks[k].failed

(***************************************************************************)
(* What the parser accepted never makes the evaluator contradict it: the   *)
(* `expect` of a `let` cannot panic, no reference misses its binding (the  *)
(* "internal invariant violation" of text_value.rs), and the evaluator's   *)
(* own search for an assertion block never comes back empty.               *)
(***************************************************************************)
BindingFlowSound ==
  /\ status # "panic"
  /\ diagnostic # None =>
       diagnostic.code \notin {"binding_undefined", "missing_assertion_block"}

(***************************************************************************)
(* A binding's provenance is true: the action it names is the last one     *)
(* run before its `let` in the same block, counted over the whole case,    *)
(* and its value is what that action left on the named stream.             *)
(***************************************************************************)
BindingProvenance ==
  \A n \in DOMAIN bindings : \E p \in Phases : \E i \in DOMAIN Steps(p) :
    LET let == Steps(p)[i]
        bound == bindings[n]
    IN /\ let.kind = "let" /\ let.name = n
       /\ bound.stream = let.stream /\ bound.mode = let.mode
       /\ IsLatest(bound.action, ActionsBefore(p, i))
       /\ bound.value = Captured(actions[bound.action].result[bound.stream], bound.mode)

Attributed(block) ==
  LET before == ActionsBefore(block.origin.phase, block.origin.step)
  IN IF block.checkpoint = None
     THEN before = {} /\ ~block.needsAction
     ELSE IsLatest(block.checkpoint, before)

(***************************************************************************)
(* An assertion block is attributed to the latest action written before it *)
(* in its own block.  Without one it is attributed to none, even after a   *)
(* setup that ran actions, and then it holds no process expectation        *)
(* (checkpoint_action_index, result.rs).                                   *)
(***************************************************************************)
BlockAttribution == \A k \in DOMAIN blocks : Attributed(blocks[k])

(***************************************************************************)
(* A body starts only in a setup that held: once the case is in its body,  *)
(* every setup action and assertion block is on record and none failed.    *)
(***************************************************************************)
SetupGatesBody ==
  phase = "case" =>
    /\ Recorded(actions, "before_each") = StepsOf("before_each", "action")
    /\ Recorded(blocks, "before_each") = StepsOf("before_each", "assert")
    /\ \A k \in DOMAIN blocks : Failed(k) => blocks[k].origin.phase = "case"

(***************************************************************************)
(* A pass is never vacuous: every action and assertion block of the body   *)
(* ran and held, and every declared name is bound.                         *)
(***************************************************************************)
PassMeansAllRan ==
  status = "pass" =>
    /\ Recorded(actions, "case") = StepsOf("case", "action")
    /\ Recorded(blocks, "case") = StepsOf("case", "assert")
    /\ blocks # <<>>
    /\ \A k \in DOMAIN blocks : ~Failed(k)
    /\ DOMAIN bindings = DeclaredNames(case.setup) \cup DeclaredNames(case.body)

(***************************************************************************)
(* A case ends at the step that broke it: it fails exactly when a block    *)
(* failed, that block is the last one and nothing ran after it; the step   *)
(* an error names left no record of its own, and no later step of its      *)
(* block left one either.                                                  *)
(***************************************************************************)
EndsWhereItBroke ==
  /\ \A k \in DOMAIN blocks : Failed(k) =>
       /\ k = Len(blocks) /\ status = "fail"
       /\ blocks[k].origin = Here
  /\ status = "fail" => blocks # <<>> /\ Failed(Len(blocks))
  /\ (diagnostic # None /\ phase \in Phases) => diagnostic.origin = Here
  /\ diagnostic # None =>
       \A s \in Recorded(actions, phase) \cup Recorded(blocks, phase) : s < step

(***************************************************************************)
(* Evidence is append-only: no step, and no way of ending the case, drops  *)
(* or rewrites an action, an assertion block or a binding.                 *)
(***************************************************************************)
Keeps(old, new) == Len(old) <= Len(new) /\ \A k \in DOMAIN old : new[k] = old[k]
EvidenceKept ==
  [][/\ Keeps(actions, actions')
     /\ Keeps(blocks, blocks')
     /\ \A n \in DOMAIN bindings : n \in DOMAIN bindings' /\ bindings'[n] = bindings[n]
     /\ sideEffects <= sideEffects']_vars

(***************************************************************************)
(* Every case ends, whatever its steps meet, as long as its commands do.   *)
(***************************************************************************)
CaseEnds == <>(status # "running")
=============================================================================
