------------------------ MODULE CaseExecutionProofs -------------------------
(***************************************************************************)
(* Theorems about CaseExecution for every set of names, cases and command  *)
(* outputs: the state of a case, then what its evidence record says of the *)
(* steps that ran.                                                         *)
(***************************************************************************)
EXTENDS CaseExecution, TLAPS

(***************************************************************************)
(* Capturing keeps text a sequence of tokens: dropping one terminator from *)
(* process output yields process output (capture_text).                    *)
(***************************************************************************)
LEMMA CapturedType ==
  ASSUME NEW out \in Seq(Token), NEW mode
  PROVE  Captured(out, mode) \in Seq(Token)
<1>1. WithoutTerminator(out) \in Seq(Token)
  <2> DEFINE n == Len(out)
  <2>1. n \in Nat
    OBVIOUS
  <2>2. CASE n >= 2 /\ out[n] = "LF" /\ out[n - 1] = "CR"
    <3>1. SubSeq(out, 1, n - 2) \in Seq(Token)
      BY <2>1, <2>2
    <3>. QED BY <3>1, <2>2 DEF WithoutTerminator
  <2>3. CASE n >= 1 /\ out[n] = "LF" /\ ~(n >= 2 /\ out[n - 1] = "CR")
    <3>1. SubSeq(out, 1, n - 1) \in Seq(Token)
      BY <2>1, <2>3
    <3>. QED BY <3>1, <2>3 DEF WithoutTerminator
  <2>4. CASE /\ ~(n >= 2 /\ out[n] = "LF" /\ out[n - 1] = "CR")
             /\ ~(n >= 1 /\ out[n] = "LF" /\ ~(n >= 2 /\ out[n - 1] = "CR"))
    BY <2>4 DEF WithoutTerminator
  <2>. QED BY <2>2, <2>3, <2>4
<1>. QED BY <1>1 DEF Captured

(***************************************************************************)
(* The step under execution is a step of the case.                         *)
(***************************************************************************)
LEMMA CurrentType ==
  ASSUME TypeOK, phase \in Phases, step \in DOMAIN Steps(phase)
  PROVE  Current \in Step
<1>1. case \in [setup : Seq(Step), body : Seq(Step)]
  BY CasesAssumption DEF TypeOK
<1>2. Steps(phase) \in Seq(Step)
  BY <1>1 DEF Steps
<1>. QED BY <1>2 DEF Current

LEMMA LetType ==
  ASSUME NEW s \in Step, s.kind = "let"
  PROVE  s.name \in Names /\ s.stream \in Streams /\ s.mode \in CaptureModes
BY DEF Step, ActionStep, WriteStep, LetStep, AssertStep

(***************************************************************************)
(* Every state of a case is well typed.                                    *)
(***************************************************************************)
THEOREM TypeCorrect == Spec => []TypeOK
<1>1. Init => TypeOK
  BY DEF Init, TypeOK, Phases, Statuses
<1>2. TypeOK /\ [Next]_vars => TypeOK'
  <2> SUFFICES ASSUME TypeOK, [Next]_vars PROVE TypeOK'
    OBVIOUS
  <2> USE DEF Phases
  <2>0. ASSUME AtStep("action") \/ AtStep("write") \/ AtStep("let") \/ AtStep("assert")
        PROVE  Here \in Origin
    BY <2>0 DEF AtStep, Here, Origin, TypeOK
  <2>1. CASE StartCase
    BY <2>1 DEF StartCase, TypeOK, evidence
  <2>2. CASE SetUpFails
    BY <2>2 DEF SetUpFails, Finish, TypeOK, evidence, Diagnostic, Codes, Statuses
  <2>3. ASSUME NEW result \in Results, RunAction(result) PROVE TypeOK'
    <3>1. result \in ActionResult
      BY ResultsAssumption
    <3>2. [origin |-> Here, result |-> result] \in ActionRecord
      BY <2>0, <2>3, <3>1 DEF RunAction, ActionRecord
    <3>. QED BY <2>3, <3>1, <3>2 DEF RunAction, Advance, TypeOK
  <2>4. CASE ActionCannotRun
    BY <2>0, <2>4 DEF ActionCannotRun, Abort, Finish, TypeOK, evidence, Diagnostic, Codes, Statuses
  <2>5. CASE WriteFile
    BY <2>0, <2>5 DEF WriteFile, Advance, Abort, Finish, TypeOK, evidence, Diagnostic, Codes, Statuses
  <2>6. CASE WriteFails
    BY <2>0, <2>6 DEF WriteFails, Abort, Finish, TypeOK, evidence, Diagnostic, Codes, Statuses
  <2>7. CASE Bind
    <3>1. Current \in Step /\ Current.kind = "let"
      BY <2>7, CurrentType DEF Bind, AtStep, Current
    <3>2. Current.name \in Names /\ Current.stream \in Streams /\ Current.mode \in CaptureModes
      BY <3>1, LetType
    <3>3. CASE lastAction = None
      BY <2>7, <3>3 DEF Bind, Finish, TypeOK, evidence, Statuses
    <3>4. CASE lastAction # None
      <4> DEFINE error == CaptureError(lastAction[Current.stream], Current.mode)
      <4>1. error \in Codes
        BY DEF CaptureError, Codes
      <4>2. CASE error # "none"
        BY <2>0, <2>7, <3>4, <4>1, <4>2
           DEF Bind, Abort, Finish, TypeOK, evidence, Diagnostic, Statuses
      <4>3. CASE error = "none"
        <5>1. lastAction \in ActionResult
          BY <3>4 DEF TypeOK
        <5>2. lastAction[Current.stream] \in Seq(Token)
          BY <3>2, <5>1 DEF ActionResult, Streams
        <5>3. Captured(lastAction[Current.stream], Current.mode) \in Seq(Token)
          BY <5>2, CapturedType
        <5>4. BoundText(Current) \in Binding
          BY <3>2, <5>3 DEF BoundText, Binding, TypeOK
        <5>5. Insert(Current.name, BoundText(Current))
          BY <2>7, <3>4, <4>3 DEF Bind
        <5>6. DOMAIN bindings' \subseteq Names /\ bindings' \in [DOMAIN bindings' -> Binding]
          BY <3>2, <5>4, <5>5 DEF Insert, TypeOK
        <5>. QED BY <2>7, <3>4, <4>3, <5>6 DEF Bind, Advance, TypeOK
      <4>. QED BY <4>2, <4>3
    <3>. QED BY <3>3, <3>4
  <2>8. CASE RejectBlock
    <3>1. \A e : Problem(e) \in Codes
      BY DEF Problem, Codes
    <3>. QED
      BY <2>0, <2>8, <3>1 DEF RejectBlock, Abort, Finish, TypeOK, evidence, Diagnostic, Statuses
  <2>9. CASE AbandonBlock
    BY <2>0, <2>9 DEF AbandonBlock, Abort, Finish, TypeOK, evidence, Diagnostic, Codes, Statuses
  <2>10. ASSUME NEW failed \in BOOLEAN, NEW es, AtStep("assert")
         PROVE  BlockRecord(es, failed) \in BlockResult
    BY <2>0, <2>10 DEF BlockRecord, BlockResult, NeedsAction, CheckpointIndex, TypeOK
  <2>11. CASE PassBlock
    <3> DEFINE record == BlockRecord(Current.expectations, FALSE)
    <3>1. record \in BlockResult
      BY <2>10, <2>11 DEF PassBlock
    <3>2. blocks' = Append(blocks, record)
      BY <2>11 DEF PassBlock
    <3> HIDE DEF record
    <3>3. blocks' \in Seq(BlockResult)
      BY <3>1, <3>2 DEF TypeOK
    <3>4. /\ step' = step + 1
          /\ UNCHANGED <<case, phase, lastAction, actions, bindings, sideEffects, status, diagnostic>>
      BY <2>11 DEF PassBlock, Advance
    <3>. QED BY <3>3, <3>4 DEF TypeOK
  <2>12. CASE FailBlock
    <3> DEFINE record == BlockRecord(Current.expectations, TRUE)
    <3>1. record \in BlockResult
      BY <2>10, <2>12 DEF FailBlock
    <3>2. blocks' = Append(blocks, record)
      BY <2>12 DEF FailBlock
    <3> HIDE DEF record
    <3>3. blocks' \in Seq(BlockResult)
      BY <3>1, <3>2 DEF TypeOK
    <3>. QED BY <2>12, <3>3 DEF FailBlock, TypeOK, Statuses
  <2>13. CASE EnterBody
    BY <2>13 DEF EnterBody, TypeOK, evidence
  <2>14. CASE CompleteBody
    BY <2>14 DEF CompleteBody, Finish, TypeOK, evidence, Statuses
  <2>15. CASE UNCHANGED vars
    BY <2>15 DEF vars, evidence, TypeOK
  <2>. QED
    BY <2>1, <2>2, <2>3, <2>4, <2>5, <2>6, <2>7, <2>8, <2>9, <2>11, <2>12, <2>13, <2>14, <2>15
       DEF Next, Execute, Over
<1>. QED BY <1>1, <1>2, PTL DEF Spec

-----------------------------------------------------------------------------
(***************************************************************************)
(* The inductive invariant.  The safety properties speak of the evidence   *)
(* alone; what keeps them true is how the evidence relates to the position *)
(* of the evaluator: the checkpoint describes the last action of the block *)
(* being run and of no other, and the names bound are exactly those        *)
(* declared up to here.                                                    *)
(***************************************************************************)
PositionInv ==
  /\ phase = "entry" =>
       /\ step = 1 /\ actions = <<>> /\ blocks = <<>>
       /\ DOMAIN bindings = {} /\ lastAction = None
  /\ phase \in Phases => step <= Len(Steps(phase)) + 1

CheckpointInv ==
  /\ lastAction = None => \A k \in DOMAIN actions : actions[k].origin.phase # phase
  /\ lastAction # None =>
       /\ actions # <<>>
       /\ actions[Len(actions)].origin.phase = phase
       /\ actions[Len(actions)].result = lastAction
  /\ (phase \in Phases /\ HasAction(Steps(phase), step)) => lastAction # None

OrderInv ==
  /\ \A k \in DOMAIN actions :
       /\ actions[k].origin.phase = phase => actions[k].origin.step < step
       /\ phase = "before_each" => actions[k].origin.phase = "before_each"
  /\ \A k \in DOMAIN blocks :
       /\ blocks[k].origin.phase = phase => blocks[k].origin.step <= step
       /\ phase = "before_each" => blocks[k].origin.phase = "before_each"

Scope ==
  IF phase = "case" THEN DeclaredNames(case.setup) \cup DeclaredBefore(case.body, step)
  ELSE IF phase = "before_each" THEN DeclaredBefore(case.setup, step)
  ELSE {}

ScopeInv == DOMAIN bindings = Scope

IInv ==
  /\ PositionInv /\ CheckpointInv /\ OrderInv /\ ScopeInv
  /\ BindingFlowSound /\ BlockAttribution

-----------------------------------------------------------------------------
(* What moving to the next step does to the names declared and to the      *)
(* actions seen.                                                           *)

LEMMA DeclaredNext ==
  ASSUME NEW s, NEW i \in Nat \ {0}
  PROVE  DeclaredBefore(s, i + 1) =
           IF s[i].kind = "let" THEN DeclaredBefore(s, i) \cup {s[i].name}
           ELSE DeclaredBefore(s, i)
<1>1. 1 .. (i + 1) - 1 = (1 .. i - 1) \cup {i}
  OBVIOUS
<1>. QED BY <1>1, Zenon DEF DeclaredBefore

LEMMA HasActionNext ==
  ASSUME NEW s, NEW i \in Nat \ {0}
  PROVE  HasAction(s, i + 1) <=> HasAction(s, i) \/ s[i].kind = "action"
BY DEF HasAction

LEMMA NothingBeforeFirst ==
  ASSUME NEW s
  PROVE  DeclaredBefore(s, 1) = {} /\ ~HasAction(s, 1)
BY DEF DeclaredBefore, HasAction

(***************************************************************************)
(* What the parser checked, read at the step under execution: a `let` has  *)
(* an action before it in its own block, and every reference is bound.     *)
(***************************************************************************)
LEMMA AcceptedStep ==
  ASSUME TypeOK, IInv, phase \in Phases, step \in DOMAIN Steps(phase)
  PROVE  /\ Current.kind = "let" => lastAction # None /\ Current.name \notin DOMAIN bindings
         /\ Resolves(Current)
<1>1. ParsedCase(case)
  BY DEF TypeOK
<1>2. CASE phase = "before_each"
  <2>1. ValidBindings(case.setup, {})
    BY <1>1 DEF ParsedCase, ParsedBeforeEach
  <2>2. Steps(phase) = case.setup /\ DOMAIN bindings = DeclaredBefore(case.setup, step)
    BY <1>2 DEF Steps, IInv, ScopeInv, Scope
  <2>. QED
    BY <2>1, <2>2 DEF ValidBindings, Current, IInv, CheckpointInv, Resolves
<1>3. CASE phase = "case"
  <2>1. ValidBindings(case.body, DeclaredNames(case.setup))
    BY <1>1 DEF ParsedCase
  <2>2. /\ Steps(phase) = case.body
        /\ DOMAIN bindings = DeclaredNames(case.setup) \cup DeclaredBefore(case.body, step)
    BY <1>3 DEF Steps, IInv, ScopeInv, Scope
  <2>. QED
    BY <2>1, <2>2 DEF ValidBindings, Current, IInv, CheckpointInv, Resolves
<1>. QED BY <1>2, <1>3 DEF Phases

(***************************************************************************)
(* Ending a case disturbs nothing the invariant relates, as long as it     *)
(* does not end in one of the ways the parser excludes.                    *)
(***************************************************************************)
LEMMA FinishKeepsIInv ==
  ASSUME IInv, NEW s, NEW d, Finish(s, d), s # "panic",
         d # None => d.code \notin {"binding_undefined", "missing_assertion_block"}
  PROVE  IInv'
<1>1. UNCHANGED <<case, phase, step, lastAction, actions, bindings, blocks>>
  BY DEF Finish, evidence
<1>2. PositionInv' /\ CheckpointInv' /\ OrderInv' /\ ScopeInv'
  BY <1>1 DEF IInv, PositionInv, CheckpointInv, OrderInv, ScopeInv, Scope, Steps
<1>3. BlockAttribution'
  BY <1>1 DEF IInv, BlockAttribution, Attributed, ActionsBefore
<1>4. BindingFlowSound'
  BY DEF Finish, BindingFlowSound
<1>. QED BY <1>2, <1>3, <1>4 DEF IInv

(***************************************************************************)
(* A step that adds neither an action nor a binding moves the position by  *)
(* one and leaves the rest of the invariant alone.                         *)
(***************************************************************************)
LEMMA AdvanceKeepsPosition ==
  ASSUME TypeOK, IInv, phase \in Phases, step \in DOMAIN Steps(phase), Advance
  PROVE  PositionInv' /\ BindingFlowSound'
<1>1. case \in [setup : Seq(Step), body : Seq(Step)]
  BY CasesAssumption DEF TypeOK
<1>2. Steps(phase) \in Seq(Step)
  BY <1>1 DEF Steps
<1>3. step <= Len(Steps(phase))
  BY <1>2
<1>4. PositionInv'
  BY <1>2, <1>3 DEF Advance, PositionInv, Steps, TypeOK, Phases
<1>5. BindingFlowSound'
  BY DEF Advance, IInv, BindingFlowSound
<1>. QED BY <1>4, <1>5

LEMMA AdvanceKeepsScope ==
  ASSUME TypeOK, IInv, phase \in Phases, Advance, Current.kind # "let",
         UNCHANGED bindings
  PROVE  ScopeInv'
<1>1. step \in Nat \ {0}
  BY DEF TypeOK
<1>2. CASE phase = "before_each"
  BY <1>1, <1>2, DeclaredNext DEF Advance, IInv, ScopeInv, Scope, Current, Steps
<1>3. CASE phase = "case"
  BY <1>1, <1>3, DeclaredNext DEF Advance, IInv, ScopeInv, Scope, Current, Steps
<1>. QED BY <1>2, <1>3 DEF Phases

LEMMA EvidenceTypes ==
  ASSUME TypeOK
  PROVE  /\ \A k \in DOMAIN actions :
              actions[k].origin.step \in Nat /\ actions[k].result \in ActionResult
         /\ \A k \in DOMAIN blocks : blocks[k].origin.step \in Nat
<1>1. ASSUME NEW k \in DOMAIN actions
      PROVE  actions[k].origin.step \in Nat /\ actions[k].result \in ActionResult
  <2>1. actions[k] \in ActionRecord
    BY DEF TypeOK
  <2>. QED BY <2>1 DEF ActionRecord, Origin
<1>2. ASSUME NEW k \in DOMAIN blocks
      PROVE  blocks[k].origin.step \in Nat
  <2>1. blocks[k] \in BlockResult
    BY DEF TypeOK
  <2>. QED BY <2>1 DEF BlockResult, Origin
<1>. QED BY <1>1, <1>2

(***************************************************************************)
(* A step other than an action leaves the checkpoint describing the last   *)
(* action of the block, and the order of the evidence as it was.           *)
(***************************************************************************)
LEMMA AdvanceKeepsCheckpoint ==
  ASSUME TypeOK, IInv, phase \in Phases, Advance, Current.kind # "action",
         UNCHANGED <<lastAction, actions>>
  PROVE  CheckpointInv'
<1>1. /\ step \in Nat \ {0} /\ step' = step + 1
      /\ Steps(phase)' = Steps(phase) /\ phase' = phase
  BY DEF TypeOK, Advance, Steps
<1>2. HasAction(Steps(phase), step + 1) <=> HasAction(Steps(phase), step)
  BY <1>1, HasActionNext DEF Current
<1>3. HasAction(Steps(phase), step)' <=> HasAction(Steps(phase), step + 1)
  BY <1>1 DEF HasAction
<1>. QED BY <1>1, <1>2, <1>3 DEF IInv, CheckpointInv

LEMMA AdvanceKeepsOrder ==
  ASSUME TypeOK, IInv, phase \in Phases, Advance, UNCHANGED <<actions, blocks>>
  PROVE  OrderInv' /\ BlockAttribution'
<1>1. /\ step \in Nat /\ step' = step + 1 /\ phase' = phase
      /\ \A k \in DOMAIN actions : actions[k].origin.step \in Nat
      /\ \A k \in DOMAIN blocks : blocks[k].origin.step \in Nat
  BY EvidenceTypes DEF TypeOK, Advance
<1>2. OrderInv'
  BY <1>1 DEF IInv, OrderInv
<1>3. BlockAttribution'
  BY DEF IInv, BlockAttribution, Attributed, ActionsBefore
<1>. QED BY <1>2, <1>3

(***************************************************************************)
(* A running step lies within its block.                                   *)
(***************************************************************************)
LEMMA AtStepPosition ==
  ASSUME TypeOK, NEW kind, AtStep(kind)
  PROVE  /\ phase \in Phases /\ step \in DOMAIN Steps(phase) /\ Current.kind = kind
         /\ Here \in Origin /\ Here.phase = phase /\ Here.step = step
<1>1. phase \in Phases /\ step \in DOMAIN Steps(phase) /\ Current.kind = kind
  BY DEF AtStep, Current
<1>2. Here \in Origin /\ Here.phase = phase /\ Here.step = step
  BY <1>1 DEF Here, Origin, TypeOK
<1>. QED BY <1>1, <1>2

(***************************************************************************)
(* An action becomes the checkpoint of what follows it, and no block       *)
(* recorded before it is attributed to it.                                 *)
(***************************************************************************)
LEMMA RunActionKeepsIInv ==
  ASSUME TypeOK, IInv, NEW result \in Results, RunAction(result)
  PROVE  IInv'
<1>1. /\ phase \in Phases /\ step \in DOMAIN Steps(phase) /\ Current.kind = "action"
      /\ Here \in Origin /\ Here.phase = phase /\ Here.step = step
  BY AtStepPosition DEF RunAction
<1>2. /\ Advance /\ UNCHANGED <<bindings, blocks>>
      /\ lastAction' = result /\ result \in ActionResult /\ result # None
  BY ResultsAssumption, NoneAssumption DEF RunAction
<1> DEFINE record == [origin |-> Here, result |-> result]
<1>3. /\ record \in ActionRecord /\ record.origin = Here /\ record.result = result
      /\ actions' = Append(actions, record)
  BY <1>1, <1>2 DEF RunAction, ActionRecord
<1> HIDE DEF record
<1>4. /\ actions \in Seq(ActionRecord)
      /\ \A k \in DOMAIN actions : actions[k].origin.step \in Nat
      /\ \A k \in DOMAIN blocks : blocks[k].origin.step \in Nat
      /\ step \in Nat /\ step' = step + 1 /\ phase' = phase
  BY <1>2, EvidenceTypes DEF TypeOK, Advance
<1>5. /\ Len(actions') = Len(actions) + 1
      /\ DOMAIN actions' = DOMAIN actions \cup {Len(actions) + 1}
      /\ \A k \in DOMAIN actions : actions'[k] = actions[k]
      /\ actions'[Len(actions) + 1] = record
      /\ actions' # <<>>
  BY <1>3, <1>4
<1>6. PositionInv' /\ BindingFlowSound'
  BY <1>1, <1>2, AdvanceKeepsPosition
<1>7. ScopeInv'
  BY <1>1, <1>2, AdvanceKeepsScope
<1>8. CheckpointInv'
  <2>1. /\ Len(actions') = Len(actions) + 1 /\ lastAction' # None
        /\ actions'[Len(actions')] = record
    BY <1>2, <1>5
  <2>. QED BY <1>1, <1>2, <1>3, <1>4, <1>5, <2>1 DEF CheckpointInv
<1>9. OrderInv'
  <2>1. \A k \in DOMAIN actions' :
          /\ actions'[k].origin.phase = phase' => actions'[k].origin.step < step'
          /\ phase' = "before_each" => actions'[k].origin.phase = "before_each"
    BY <1>1, <1>3, <1>4, <1>5 DEF IInv, OrderInv
  <2>2. \A k \in DOMAIN blocks' :
          /\ blocks'[k].origin.phase = phase' => blocks'[k].origin.step <= step'
          /\ phase' = "before_each" => blocks'[k].origin.phase = "before_each"
    BY <1>2, <1>4 DEF IInv, OrderInv
  <2>. QED BY <2>1, <2>2 DEF OrderInv
<1>10. BlockAttribution'
  <2>1. ASSUME NEW k \in DOMAIN blocks
        PROVE  ActionsBefore(blocks[k].origin.phase, blocks[k].origin.step)'
                 = ActionsBefore(blocks[k].origin.phase, blocks[k].origin.step)
    <3>1. blocks[k].origin.phase = phase => blocks[k].origin.step <= step
      BY DEF IInv, OrderInv
    <3>2. ~(/\ record.origin.phase = blocks[k].origin.phase
            /\ record.origin.step < blocks[k].origin.step)
      BY <1>1, <1>3, <1>4, <3>1
    <3>. QED BY <1>2, <1>5, <3>2 DEF ActionsBefore
  <2>2. ASSUME NEW k \in DOMAIN blocks'
        PROVE  Attributed(blocks[k])'
    BY <1>2, <2>1 DEF IInv, BlockAttribution, Attributed, IsLatest
  <2>. QED BY <2>2 DEF BlockAttribution
<1>. QED BY <1>6, <1>7, <1>8, <1>9, <1>10 DEF IInv

(***************************************************************************)
(* The block just evaluated is attributed to the latest action of its own  *)
(* block, and to none only where it asked for none.                        *)
(***************************************************************************)
LEMMA NewBlockAttributed ==
  ASSUME TypeOK, IInv, phase \in Phases, Here \in Origin, Here.phase = phase, Here.step = step,
         NEW es, NEW failed, Refused(es) = {},
         NEW record, record = BlockRecord(es, failed),
         blocks' = Append(blocks, record), UNCHANGED actions
  PROVE  BlockAttribution'
<1>1. blocks \in Seq(BlockResult)
  BY DEF TypeOK
<1>2. /\ DOMAIN blocks' = DOMAIN blocks \cup {Len(blocks) + 1}
      /\ \A k \in DOMAIN blocks : blocks'[k] = blocks[k]
      /\ blocks'[Len(blocks) + 1] = record
  BY <1>1
<1>3. /\ record.origin = Here /\ record.needsAction = NeedsAction(es)
      /\ record.checkpoint = CheckpointIndex
  BY DEF BlockRecord
<1>4. actions \in Seq(ActionRecord) /\ Len(actions) \in Nat /\ Len(actions) # None
  BY NoneAssumption DEF TypeOK
<1> DEFINE before == ActionsBefore(phase, step)
<1>5. Attributed(record)
  <2>1. CASE lastAction = None
    <3>1. before = {}
      BY <2>1 DEF ActionsBefore, IInv, CheckpointInv
    <3>2. \A i \in DOMAIN es : ~es[i].needsAction
      BY <2>1 DEF Refused, Problem, RequiresMissingAction
    <3>3. ~NeedsAction(es)
      BY <3>2 DEF NeedsAction
    <3>. QED BY <1>3, <2>1, <3>1, <3>3 DEF CheckpointIndex, Attributed
  <2>2. CASE lastAction # None
    <3>1. /\ Len(actions) \in DOMAIN actions
          /\ actions[Len(actions)].origin.phase = phase
          /\ actions[Len(actions)].origin.step < step
      BY <1>4, <2>2 DEF IInv, CheckpointInv, OrderInv
    <3>2. IsLatest(Len(actions), before)
      BY <1>4, <3>1 DEF IsLatest, ActionsBefore
    <3>3. record.checkpoint = Len(actions)
      BY <1>3, <2>2 DEF CheckpointIndex
    <3>. QED BY <1>3, <1>4, <3>2, <3>3 DEF Attributed
  <2>. QED BY <2>1, <2>2
<1>6. ASSUME NEW k \in DOMAIN blocks'
      PROVE  Attributed(blocks[k])'
  <2> DEFINE b == blocks'[k]
  <2>1. Attributed(b)
    BY <1>2, <1>5 DEF IInv, BlockAttribution
  <2>. QED BY <2>1 DEF Attributed, ActionsBefore, IsLatest
<1>. QED BY <1>6 DEF BlockAttribution

LEMMA NewBlockOrdered ==
  ASSUME TypeOK, IInv, phase \in Phases, Here.phase = phase, Here.step = step,
         NEW record, record.origin = Here,
         blocks' = Append(blocks, record), UNCHANGED <<actions, phase>>,
         step' \in {step, step + 1}
  PROVE  OrderInv'
<1>1. /\ blocks \in Seq(BlockResult) /\ step \in Nat
      /\ \A k \in DOMAIN actions : actions[k].origin.step \in Nat
      /\ \A k \in DOMAIN blocks : blocks[k].origin.step \in Nat
  BY EvidenceTypes DEF TypeOK
<1>2. /\ DOMAIN blocks' = DOMAIN blocks \cup {Len(blocks) + 1}
      /\ \A k \in DOMAIN blocks : blocks'[k] = blocks[k]
      /\ blocks'[Len(blocks) + 1] = record
  BY <1>1
<1>3. \A k \in DOMAIN actions' :
        /\ actions'[k].origin.phase = phase' => actions'[k].origin.step < step'
        /\ phase' = "before_each" => actions'[k].origin.phase = "before_each"
  BY <1>1 DEF IInv, OrderInv
<1>4. \A k \in DOMAIN blocks' :
        /\ blocks'[k].origin.phase = phase' => blocks'[k].origin.step <= step'
        /\ phase' = "before_each" => blocks'[k].origin.phase = "before_each"
  BY <1>1, <1>2 DEF IInv, OrderInv
<1>. QED BY <1>3, <1>4 DEF OrderInv

LEMMA PassBlockKeepsIInv ==
  ASSUME TypeOK, IInv, PassBlock
  PROVE  IInv'
<1>1. /\ phase \in Phases /\ step \in DOMAIN Steps(phase) /\ Current.kind = "assert"
      /\ Here \in Origin /\ Here.phase = phase /\ Here.step = step
  BY AtStepPosition DEF PassBlock
<1> DEFINE record == BlockRecord(Current.expectations, FALSE)
<1>2. /\ Advance /\ UNCHANGED <<lastAction, actions, bindings>>
      /\ Refused(Current.expectations) = {} /\ blocks' = Append(blocks, record)
  BY DEF PassBlock
<1>3. record.origin = Here
  BY DEF BlockRecord
<1>4. BlockAttribution'
  BY <1>1, <1>2, NewBlockAttributed
<1> HIDE DEF record
<1>5. OrderInv'
  BY <1>1, <1>2, <1>3, NewBlockOrdered DEF Advance
<1>6. PositionInv' /\ BindingFlowSound' /\ ScopeInv' /\ CheckpointInv'
  BY <1>1, <1>2, AdvanceKeepsPosition, AdvanceKeepsScope, AdvanceKeepsCheckpoint
<1>. QED BY <1>4, <1>5, <1>6 DEF IInv

LEMMA FailBlockKeepsIInv ==
  ASSUME TypeOK, IInv, FailBlock
  PROVE  IInv'
<1>1. /\ phase \in Phases /\ step \in DOMAIN Steps(phase) /\ Current.kind = "assert"
      /\ Here \in Origin /\ Here.phase = phase /\ Here.step = step
  BY AtStepPosition DEF FailBlock
<1> DEFINE record == BlockRecord(Current.expectations, TRUE)
<1>2. /\ UNCHANGED <<case, phase, step, lastAction, actions, bindings, diagnostic>>
      /\ status' = "fail"
      /\ Refused(Current.expectations) = {} /\ blocks' = Append(blocks, record)
  BY DEF FailBlock
<1>3. record.origin = Here
  BY DEF BlockRecord
<1>4. BlockAttribution'
  BY <1>1, <1>2, NewBlockAttributed
<1> HIDE DEF record
<1>5. OrderInv'
  BY <1>1, <1>2, <1>3, NewBlockOrdered
<1>6. CheckpointInv' /\ ScopeInv' /\ BindingFlowSound'
  BY <1>2 DEF IInv, CheckpointInv, ScopeInv, Scope, Steps, BindingFlowSound
<1>7. PositionInv'
  BY <1>1, <1>2 DEF IInv, PositionInv, Steps, Phases
<1>. QED BY <1>4, <1>5, <1>6, <1>7 DEF IInv

(***************************************************************************)
(* A `let` always finds an action to capture from, and adds its name to    *)
(* the names in scope, or ends the case with a capture error.              *)
(***************************************************************************)
LEMMA BindKeepsIInv ==
  ASSUME TypeOK, IInv, Bind
  PROVE  IInv'
<1>1. phase \in Phases /\ step \in DOMAIN Steps(phase) /\ Current.kind = "let"
  BY AtStepPosition DEF Bind
<1>2. lastAction # None
  BY <1>1, AcceptedStep
<1> DEFINE error == CaptureError(lastAction[Current.stream], Current.mode)
<1>3. CASE error # "none"
  <2>1. Finish("runtime_error", [code |-> error, origin |-> Here])
    BY <1>2, <1>3 DEF Bind, Abort
  <2>2. error \notin {"binding_undefined", "missing_assertion_block"}
    BY DEF CaptureError
  <2>. QED BY <2>1, <2>2, FinishKeepsIInv
<1>4. CASE error = "none"
  <2>1. /\ Insert(Current.name, BoundText(Current))
        /\ UNCHANGED <<lastAction, actions, blocks>> /\ Advance
    BY <1>2, <1>4 DEF Bind
  <2>2. DOMAIN bindings' = DOMAIN bindings \cup {Current.name}
    BY <2>1 DEF Insert
  <2>3. step \in Nat \ {0} /\ step' = step + 1 /\ UNCHANGED <<case, phase>>
    BY <2>1 DEF TypeOK, Advance
  <2>4. ScopeInv'
    <3>1. CASE phase = "before_each"
      BY <1>1, <2>2, <2>3, <3>1, DeclaredNext DEF IInv, ScopeInv, Scope, Current, Steps
    <3>2. CASE phase = "case"
      BY <1>1, <2>2, <2>3, <3>2, DeclaredNext DEF IInv, ScopeInv, Scope, Current, Steps
    <3>. QED BY <1>1, <3>1, <3>2 DEF Phases
  <2>. QED
    BY <1>1, <2>1, <2>4, AdvanceKeepsPosition, AdvanceKeepsCheckpoint, AdvanceKeepsOrder DEF IInv
<1>. QED BY <1>3, <1>4

LEMMA WriteFileKeepsIInv ==
  ASSUME TypeOK, IInv, WriteFile
  PROVE  IInv'
<1>1. phase \in Phases /\ step \in DOMAIN Steps(phase) /\ Current.kind = "write"
  BY AtStepPosition DEF WriteFile
<1>2. Resolves(Current)
  BY <1>1, AcceptedStep
<1>3. UNCHANGED <<lastAction, actions, bindings, blocks>> /\ Advance
  BY <1>2 DEF WriteFile
<1>. QED
  BY <1>1, <1>3, AdvanceKeepsPosition, AdvanceKeepsScope, AdvanceKeepsCheckpoint, AdvanceKeepsOrder
     DEF IInv

(***************************************************************************)
(* The two hand-overs: into the first block, and from setup to body.  The  *)
(* body starts from a checkpoint without an action and with every name the *)
(* setup declared.                                                         *)
(***************************************************************************)
LEMMA StartCaseKeepsIInv ==
  ASSUME TypeOK, IInv, StartCase
  PROVE  IInv'
<1>1. /\ step = 1 /\ actions = <<>> /\ blocks = <<>> /\ DOMAIN bindings = {}
      /\ lastAction = None /\ phase = "entry"
  BY DEF StartCase, IInv, PositionInv
<1>2. /\ UNCHANGED <<case, step, lastAction, actions, bindings, blocks, status, diagnostic>>
      /\ phase' = IF case.setup = <<>> THEN "case" ELSE "before_each"
  BY DEF StartCase, evidence
<1>3. case.setup \in Seq(Step) /\ case.body \in Seq(Step)
  BY CasesAssumption DEF TypeOK
<1>4. PositionInv'
  <2>1. phase' \in Phases /\ phase' # "entry"
    BY <1>2 DEF Phases
  <2>2. Len(Steps(phase)') \in Nat
    BY <1>2, <1>3 DEF Steps
  <2>. QED BY <1>1, <1>2, <2>1, <2>2 DEF PositionInv
<1>5. CheckpointInv'
  BY <1>1, <1>2, NothingBeforeFirst DEF CheckpointInv
<1>6. OrderInv' /\ BlockAttribution'
  BY <1>1, <1>2 DEF OrderInv, BlockAttribution
<1>7. ScopeInv'
  <2>1. CASE case.setup = <<>>
    <3>1. DeclaredNames(case.setup) = {}
      BY <2>1 DEF DeclaredNames, DeclaredBefore
    <3>. QED BY <1>1, <1>2, <2>1, <3>1, NothingBeforeFirst DEF ScopeInv, Scope
  <2>2. CASE case.setup # <<>>
    BY <1>1, <1>2, <2>2, NothingBeforeFirst DEF ScopeInv, Scope
  <2>. QED BY <2>1, <2>2
<1>8. BindingFlowSound'
  BY <1>2 DEF IInv, BindingFlowSound
<1>. QED BY <1>4, <1>5, <1>6, <1>7, <1>8 DEF IInv

LEMMA EnterBodyKeepsIInv ==
  ASSUME TypeOK, IInv, EnterBody
  PROVE  IInv'
<1>1. /\ phase = "before_each" /\ phase' = "case" /\ step' = 1 /\ lastAction' = None
      /\ UNCHANGED <<case, actions, bindings, blocks, status, diagnostic>>
  BY DEF EnterBody, evidence
<1>2. case.setup \in Seq(Step) /\ case.body \in Seq(Step) /\ step \in Nat
  BY CasesAssumption DEF TypeOK
<1>3. step = Len(case.setup) + 1
  BY <1>1, <1>2 DEF EnterBody, IInv, PositionInv, Steps, Phases
<1>4. PositionInv'
  BY <1>1, <1>2 DEF PositionInv, Steps
<1>5. CheckpointInv'
  BY <1>1, NothingBeforeFirst DEF IInv, CheckpointInv, OrderInv
<1>6. OrderInv'
  BY <1>1 DEF IInv, OrderInv
<1>7. ScopeInv'
  BY <1>1, <1>3, NothingBeforeFirst DEF IInv, ScopeInv, Scope, DeclaredNames
<1>8. BlockAttribution' /\ BindingFlowSound'
  BY <1>1 DEF IInv, BlockAttribution, Attributed, ActionsBefore, BindingFlowSound
<1>. QED BY <1>4, <1>5, <1>6, <1>7, <1>8 DEF IInv

LEMMA InitIInv == Init => IInv
<1> SUFFICES ASSUME Init PROVE IInv
  OBVIOUS
<1>1. PositionInv /\ CheckpointInv /\ OrderInv /\ ScopeInv
  BY DEF Init, PositionInv, CheckpointInv, OrderInv, ScopeInv, Scope, Phases
<1>2. BindingFlowSound /\ BlockAttribution
  BY DEF Init, BindingFlowSound, BlockAttribution
<1>. QED BY <1>1, <1>2 DEF IInv

(***************************************************************************)
(* The invariant is inductive.                                             *)
(***************************************************************************)
THEOREM InvariantHolds == Spec => []IInv
<1>1. Init => IInv
  BY InitIInv
<1>2. TypeOK /\ IInv /\ [Next]_vars => IInv'
  <2> SUFFICES ASSUME TypeOK, IInv, [Next]_vars PROVE IInv'
    OBVIOUS
  <2>1. CASE StartCase
    BY <2>1, StartCaseKeepsIInv
  <2>2. CASE SetUpFails
    <3>1. HasAssertionBlock(case.body)
      BY DEF TypeOK, ParsedCase
    <3>. QED BY <2>2, <3>1, FinishKeepsIInv DEF SetUpFails
  <2>3. ASSUME NEW result \in Results, RunAction(result) PROVE IInv'
    BY <2>3, RunActionKeepsIInv
  <2>4. CASE ActionCannotRun
    BY <2>4, FinishKeepsIInv DEF ActionCannotRun, Abort
  <2>5. CASE WriteFile
    BY <2>5, WriteFileKeepsIInv
  <2>6. CASE WriteFails
    BY <2>6, FinishKeepsIInv DEF WriteFails, Abort
  <2>7. CASE Bind
    BY <2>7, BindKeepsIInv
  <2>8. CASE RejectBlock
    <3>1. \A e : Problem(e) \notin {"binding_undefined", "missing_assertion_block"}
      BY DEF Problem
    <3>. QED BY <2>8, <3>1, FinishKeepsIInv DEF RejectBlock, Abort
  <2>9. CASE AbandonBlock
    <3>1. Resolves(Current)
      BY <2>9, AtStepPosition, AcceptedStep DEF AbandonBlock
    <3>2. Finish("script_error", [code |-> "unresolvable", origin |-> Here])
      BY <2>9, <3>1 DEF AbandonBlock, Abort
    <3>. QED BY <3>2, FinishKeepsIInv
  <2>10. CASE PassBlock
    BY <2>10, PassBlockKeepsIInv
  <2>11. CASE FailBlock
    BY <2>11, FailBlockKeepsIInv
  <2>12. CASE EnterBody
    BY <2>12, EnterBodyKeepsIInv
  <2>13. CASE CompleteBody
    BY <2>13, FinishKeepsIInv DEF CompleteBody
  <2>14. CASE UNCHANGED vars
    BY <2>14 DEF vars, evidence, IInv, PositionInv, CheckpointInv, OrderInv, ScopeInv, Scope,
                 Steps, BindingFlowSound, BlockAttribution, Attributed, ActionsBefore
  <2>. QED
    BY <2>1, <2>2, <2>3, <2>4, <2>5, <2>6, <2>7, <2>8, <2>9, <2>10, <2>11, <2>12, <2>13, <2>14
       DEF Next, Execute, Over
<1>. QED BY <1>1, <1>2, TypeCorrect, PTL DEF Spec

(***************************************************************************)
(* For every script the parser accepts, however its commands, files and    *)
(* assertions turn out: no `let` panics and no reference is left unbound.  *)
(***************************************************************************)
THEOREM BindingFlowTheorem == Spec => []BindingFlowSound
<1>1. IInv => BindingFlowSound
  BY DEF IInv
<1>. QED BY <1>1, InvariantHolds, PTL

(***************************************************************************)
(* Every assertion block is attributed to the latest action of its own     *)
(* block, or to none when there is none.                                   *)
(***************************************************************************)
THEOREM BlockAttributionTheorem == Spec => []BlockAttribution
<1>1. IInv => BlockAttribution
  BY DEF IInv
<1>. QED BY <1>1, InvariantHolds, PTL

-----------------------------------------------------------------------------
LEMMA KeepsSelf ==
  ASSUME NEW T, NEW s \in Seq(T)
  PROVE  Keeps(s, s)
<1>1. Len(s) \in Nat
  OBVIOUS
<1>. QED BY <1>1 DEF Keeps

LEMMA KeepsAppend ==
  ASSUME NEW T, NEW s \in Seq(T), NEW e
  PROVE  Keeps(s, Append(s, e))
<1>1. Len(s) \in Nat /\ DOMAIN s = 1 .. Len(s)
  OBVIOUS
<1>2. Len(Append(s, e)) = Len(s) + 1
  OBVIOUS
<1>3. \A k \in 1 .. Len(s) : Append(s, e)[k] = s[k]
  OBVIOUS
<1>. QED BY <1>1, <1>2, <1>3 DEF Keeps

Kept ==
  /\ Keeps(actions, actions')
  /\ Keeps(blocks, blocks')
  /\ \A n \in DOMAIN bindings : n \in DOMAIN bindings' /\ bindings'[n] = bindings[n]
  /\ sideEffects <= sideEffects'

LEMMA UnchangedKept ==
  ASSUME TypeOK, UNCHANGED evidence
  PROVE  Kept
<1>1. Keeps(actions, actions) /\ Keeps(blocks, blocks)
  BY KeepsSelf DEF TypeOK
<1>2. sideEffects <= sideEffects
  BY DEF TypeOK
<1>. QED BY <1>1, <1>2 DEF Kept, evidence

LEMMA FinishKept ==
  ASSUME TypeOK, NEW s, NEW d, Finish(s, d)
  PROVE  Kept
BY UnchangedKept DEF Finish

(***************************************************************************)
(* No step and no way of ending a case drops or rewrites evidence; in      *)
(* particular no `let` ever replaces a binding.                            *)
(***************************************************************************)
THEOREM EvidenceKeptTheorem == Spec => EvidenceKept
<1>1. TypeOK /\ IInv /\ [Next]_vars => [Kept]_vars
  <2> SUFFICES ASSUME TypeOK, IInv, [Next]_vars PROVE Kept
    OBVIOUS
  <2>1. CASE UNCHANGED vars
    BY <2>1, UnchangedKept DEF vars, evidence
  <2>2. CASE StartCase \/ EnterBody
    BY <2>2, UnchangedKept DEF StartCase, EnterBody
  <2>3. CASE SetUpFails \/ ActionCannotRun \/ WriteFails \/ RejectBlock \/ AbandonBlock \/ CompleteBody
    BY <2>3, FinishKept
       DEF SetUpFails, ActionCannotRun, WriteFails, RejectBlock, AbandonBlock, CompleteBody, Abort
  <2>4. ASSUME NEW result \in Results, RunAction(result) PROVE Kept
    <3>1. Keeps(actions, actions')
      BY <2>4, KeepsAppend DEF RunAction, TypeOK
    <3>2. Keeps(blocks, blocks) /\ sideEffects <= sideEffects
      BY KeepsSelf DEF TypeOK
    <3>. QED BY <2>4, <3>1, <3>2 DEF RunAction, Kept
  <2>5. CASE WriteFile
    <3>1. phase \in Phases /\ step \in DOMAIN Steps(phase)
      BY <2>5, AtStepPosition DEF WriteFile
    <3>2. Resolves(Current)
      BY <3>1, AcceptedStep
    <3>3. sideEffects' = sideEffects + 1 /\ UNCHANGED <<actions, bindings, blocks>>
      BY <2>5, <3>2 DEF WriteFile
    <3>4. sideEffects <= sideEffects'
      BY <3>3 DEF TypeOK
    <3>5. Keeps(actions, actions) /\ Keeps(blocks, blocks)
      BY KeepsSelf DEF TypeOK
    <3>. QED BY <3>3, <3>4, <3>5 DEF Kept
  <2>6. CASE Bind
    <3>1. phase \in Phases /\ step \in DOMAIN Steps(phase) /\ Current.kind = "let"
      BY <2>6, AtStepPosition DEF Bind
    <3>2. lastAction # None /\ Current.name \notin DOMAIN bindings
      BY <3>1, AcceptedStep
    <3> DEFINE error == CaptureError(lastAction[Current.stream], Current.mode)
    <3>3. CASE error # "none"
      <4>1. Finish("runtime_error", [code |-> error, origin |-> Here])
        BY <2>6, <3>2, <3>3 DEF Bind, Abort
      <4>. QED BY <4>1, FinishKept
    <3>4. CASE error = "none"
      <4>1. /\ Insert(Current.name, BoundText(Current))
            /\ UNCHANGED <<actions, blocks, sideEffects>>
        BY <2>6, <3>2, <3>4 DEF Bind
      <4>2. \A n \in DOMAIN bindings : n \in DOMAIN bindings' /\ bindings'[n] = bindings[n]
        BY <3>2, <4>1 DEF Insert
      <4>3. Keeps(actions, actions) /\ Keeps(blocks, blocks) /\ sideEffects <= sideEffects
        BY KeepsSelf DEF TypeOK
      <4>. QED BY <4>1, <4>2, <4>3 DEF Kept
    <3>. QED BY <3>3, <3>4
  <2>7. CASE PassBlock \/ FailBlock
    <3>1. PICK record : blocks' = Append(blocks, record)
      BY <2>7 DEF PassBlock, FailBlock
    <3>2. UNCHANGED <<actions, bindings, sideEffects>>
      BY <2>7 DEF PassBlock, FailBlock
    <3>3. Keeps(blocks, blocks')
      BY <3>1, KeepsAppend DEF TypeOK
    <3>4. Keeps(actions, actions) /\ sideEffects <= sideEffects
      BY KeepsSelf DEF TypeOK
    <3>. QED BY <3>2, <3>3, <3>4 DEF Kept
  <2>. QED
    BY <2>1, <2>2, <2>3, <2>4, <2>5, <2>6, <2>7 DEF Next, Execute, Over
<1>2. [Kept]_vars => [/\ Keeps(actions, actions')
                      /\ Keeps(blocks, blocks')
                      /\ \A n \in DOMAIN bindings :
                           n \in DOMAIN bindings' /\ bindings'[n] = bindings[n]
                      /\ sideEffects <= sideEffects']_vars
  BY DEF Kept
<1>. QED BY <1>1, <1>2, TypeCorrect, InvariantHolds, PTL DEF Spec, EvidenceKept

-----------------------------------------------------------------------------
(* What the evidence record says of the steps that ran.                    *)

\* The completed steps of block `p`.
Done(p) ==
  IF phase = p THEN 1 .. step - 1
  ELSE IF phase = "case" /\ p = "before_each" THEN DOMAIN case.setup ELSE {}

DoneOf(p, kind) == {i \in Done(p) : Steps(p)[i].kind = kind}

Broken(p) == IF status = "fail" /\ phase = p THEN {step} ELSE {}

\* The record holds the completed actions and assertion blocks, and the failed one.
RecordInv ==
  \A p \in Phases :
    /\ Recorded(actions, p) = DoneOf(p, "action")
    /\ Recorded(blocks, p) = DoneOf(p, "assert") \cup Broken(p)

\* A case ends in a failed block, behind its last step, or at the step it names.
EndInv ==
  /\ \A k \in DOMAIN blocks : Failed(k) =>
       k = Len(blocks) /\ status = "fail" /\ blocks[k].origin = Here
  /\ status = "fail" => blocks # <<>> /\ Failed(Len(blocks)) /\ phase \in Phases
  /\ status = "pass" => phase = "case" /\ step = Len(case.body) + 1
  /\ diagnostic # None =>
       /\ status \in {"script_error", "runtime_error"}
       /\ phase \in Phases => diagnostic.origin = Here

\* `n` was bound by step `i` of block `p`.
BoundBy(n, p, i) ==
  LET let == Steps(p)[i]
      bound == bindings[n]
  IN /\ let.kind = "let" /\ let.name = n
     /\ bound.stream = let.stream /\ bound.mode = let.mode
     /\ IsLatest(bound.action, ActionsBefore(p, i))
     /\ bound.value = Captured(actions[bound.action].result[bound.stream], bound.mode)

BoundInv ==
  \A n \in DOMAIN bindings : \E p \in Phases : \E i \in Done(p) :
    i \in DOMAIN Steps(p) /\ BoundBy(n, p, i)

RInv == RecordInv /\ EndInv /\ BoundInv

-----------------------------------------------------------------------------
LEMMA RecordedAppend ==
  ASSUME NEW T, NEW s \in Seq(T), NEW e, NEW p
  PROVE  Recorded(Append(s, e), p)
           = Recorded(s, p) \cup (IF e.origin.phase = p THEN {e.origin.step} ELSE {})
<1> DEFINE t == Append(s, e)
           new == Len(s) + 1
<1>1. /\ DOMAIN t = DOMAIN s \cup {new}
      /\ t[new] = e
      /\ \A k \in DOMAIN s : t[k] = s[k]
  OBVIOUS
<1>. HIDE DEF t, new
<1>2. {j \in DOMAIN t : t[j].origin.phase = p}
        = {j \in DOMAIN s : s[j].origin.phase = p} \cup (IF e.origin.phase = p THEN {new} ELSE {})
  BY <1>1
<1>3. CASE e.origin.phase = p
  <2>1. Recorded(t, p) = {t[k].origin.step : k \in {j \in DOMAIN s : s[j].origin.phase = p} \cup {new}}
    BY <1>2, <1>3 DEF Recorded
  <2>. QED BY <1>1, <1>3, <2>1 DEF Recorded, t
<1>4. CASE e.origin.phase # p
  <2>1. Recorded(t, p) = {t[k].origin.step : k \in {j \in DOMAIN s : s[j].origin.phase = p}}
    BY <1>2, <1>4 DEF Recorded
  <2>. QED BY <1>1, <1>4, <2>1 DEF Recorded, t
<1>. QED BY <1>3, <1>4

\* Completing a step adds it to the completed steps of its block.
LEMMA DoneAdvance ==
  ASSUME TypeOK, Advance, NEW p
  PROVE  Done(p)' = Done(p) \cup (IF phase = p THEN {step} ELSE {})
<1>1. /\ step \in Nat \ {0} /\ step' = step + 1 /\ UNCHANGED <<case, phase>>
  BY DEF TypeOK, Advance
<1>2. 1 .. step' - 1 = (1 .. step - 1) \cup {step}
  BY <1>1
<1>. QED BY <1>1, <1>2, Zenon DEF Done

LEMMA DoneOfAdvance ==
  ASSUME TypeOK, Advance, NEW p, NEW kind
  PROVE  DoneOf(p, kind)'
           = DoneOf(p, kind) \cup (IF phase = p /\ Current.kind = kind THEN {step} ELSE {})
<1>1. Steps(p)' = Steps(p)
  BY DEF Advance, Steps
<1>2. phase = p => Current = Steps(p)[step]
  BY DEF Current
<1>. QED BY <1>1, <1>2, DoneAdvance DEF DoneOf

\* Where the position does not move, nothing more is completed.
LEMMA DoneSame ==
  ASSUME UNCHANGED <<case, phase, step>>
  PROVE  /\ Here' = Here
         /\ \A p : Steps(p)' = Steps(p) /\ Done(p)' = Done(p)
         /\ \A p : \A kind : DoneOf(p, kind)' = DoneOf(p, kind)
<1>1. \A p : Steps(p)' = Steps(p) /\ Done(p)' = Done(p)
  BY DEF Steps, Done
<1>. QED BY <1>1 DEF DoneOf, Here

LEMMA BoundSame ==
  ASSUME BoundInv, UNCHANGED <<case, actions, bindings>>, \A p : Done(p) \subseteq Done(p)'
  PROVE  BoundInv'
<1>1. \A p : Steps(p)' = Steps(p)
  BY DEF Steps
<1>2. \A n, p, i : BoundBy(n, p, i) => BoundBy(n, p, i)'
  BY <1>1 DEF BoundBy, ActionsBefore, IsLatest
<1>. QED BY <1>1, <1>2 DEF BoundInv

-----------------------------------------------------------------------------
(* The kinds of steps.                                                     *)

\* Ending a case records nothing.
LEMMA FinishKeepsRecord ==
  ASSUME RInv, Running, NEW s, NEW d, Finish(s, d), s # "fail",
         s = "pass" => phase = "case" /\ step = Len(case.body) + 1,
         d # None => s \in {"script_error", "runtime_error"} /\ (phase \in Phases => d.origin = Here)
  PROVE  RInv'
<1>1. /\ UNCHANGED <<case, phase, step, actions, bindings, blocks>>
      /\ status = "running" /\ status' = s /\ diagnostic' = d
  BY DEF Finish, evidence, Running
<1>2. /\ Here' = Here
      /\ \A p : \A kind : Done(p)' = Done(p) /\ DoneOf(p, kind)' = DoneOf(p, kind)
  BY <1>1, DoneSame
<1>3. \A p : Broken(p)' = Broken(p)
  BY <1>1 DEF Broken
<1>4. RecordInv'
  BY <1>1, <1>2, <1>3 DEF RInv, RecordInv, Recorded
<1>5. EndInv'
  BY <1>1, <1>2 DEF RInv, EndInv, Failed
<1>6. BoundInv'
  BY <1>1, <1>2, BoundSame DEF RInv
<1>. QED BY <1>4, <1>5, <1>6 DEF RInv

\* A completed step records itself if it is an action or an assertion block.
LEMMA AdvanceKeepsRecord ==
  ASSUME TypeOK, RecordInv, Running, phase \in Phases, Advance,
         \/ Current.kind # "action" /\ UNCHANGED actions
         \/ Current.kind = "action" /\ \E e : e.origin = Here /\ actions' = Append(actions, e),
         \/ Current.kind # "assert" /\ UNCHANGED blocks
         \/ Current.kind = "assert" /\ \E e : e.origin = Here /\ blocks' = Append(blocks, e)
  PROVE  RecordInv'
<1> SUFFICES ASSUME NEW p \in Phases
             PROVE  /\ Recorded(actions, p)' = DoneOf(p, "action")'
                    /\ Recorded(blocks, p)' = DoneOf(p, "assert")' \cup Broken(p)'
  BY DEF RecordInv
<1>1. /\ Here.phase = phase /\ Here.step = step
      /\ actions \in Seq(ActionRecord) /\ blocks \in Seq(BlockResult)
  BY DEF Here, TypeOK
<1>2. /\ Broken(p) = {} /\ Broken(p)' = {}
  BY DEF Broken, Running, Advance
<1>3. Recorded(actions, p)' = DoneOf(p, "action")'
  <2>0. DoneOf(p, "action")'
          = Recorded(actions, p) \cup (IF phase = p /\ Current.kind = "action" THEN {step} ELSE {})
    BY DoneOfAdvance DEF RecordInv
  <2>1. CASE Current.kind # "action" /\ UNCHANGED actions
    BY <2>0, <2>1 DEF Recorded
  <2>2. CASE Current.kind = "action"
    <3>1. PICK e : e.origin = Here /\ actions' = Append(actions, e)
      BY <2>2
    <3>2. Recorded(Append(actions, e), p)
            = Recorded(actions, p) \cup (IF phase = p THEN {step} ELSE {})
      BY <1>1, <3>1, RecordedAppend
    <3>3. Recorded(actions, p)' = Recorded(Append(actions, e), p)
      BY <3>1 DEF Recorded
    <3>. QED BY <2>0, <2>2, <3>2, <3>3
  <2>. QED BY <2>1, <2>2
<1>4. Recorded(blocks, p)' = DoneOf(p, "assert")'
  <2>0. DoneOf(p, "assert")'
          = Recorded(blocks, p) \cup (IF phase = p /\ Current.kind = "assert" THEN {step} ELSE {})
    BY <1>2, DoneOfAdvance DEF RecordInv
  <2>1. CASE Current.kind # "assert" /\ UNCHANGED blocks
    BY <2>0, <2>1 DEF Recorded
  <2>2. CASE Current.kind = "assert"
    <3>1. PICK e : e.origin = Here /\ blocks' = Append(blocks, e)
      BY <2>2
    <3>2. Recorded(Append(blocks, e), p)
            = Recorded(blocks, p) \cup (IF phase = p THEN {step} ELSE {})
      BY <1>1, <3>1, RecordedAppend
    <3>3. Recorded(blocks, p)' = Recorded(Append(blocks, e), p)
      BY <3>1 DEF Recorded
    <3>. QED BY <2>0, <2>2, <3>2, <3>3
  <2>. QED BY <2>1, <2>2
<1>. QED BY <1>2, <1>3, <1>4

\* While the case runs no block has failed, and a completed one did not.
LEMMA AdvanceKeepsEnd ==
  ASSUME TypeOK, EndInv, Running, Advance,
         \/ UNCHANGED blocks
         \/ \E e : ~e.failed /\ blocks' = Append(blocks, e)
  PROVE  EndInv'
<1>1. status = "running" /\ status' = "running" /\ diagnostic' = None /\ blocks \in Seq(BlockResult)
  BY DEF Running, Advance, EndInv, TypeOK
<1>2. \A k \in DOMAIN blocks : ~Failed(k)
  BY <1>1 DEF EndInv
<1>3. \A k \in DOMAIN blocks' : ~Failed(k)'
  <2>1. CASE UNCHANGED blocks
    BY <1>2, <2>1 DEF Failed
  <2>2. ASSUME NEW e, ~e.failed, blocks' = Append(blocks, e)
        PROVE  \A k \in DOMAIN blocks' : ~Failed(k)'
    <3>1. \A k \in DOMAIN blocks' : (k \in DOMAIN blocks /\ blocks'[k] = blocks[k]) \/ blocks'[k] = e
      BY <1>1, <2>2
    <3>. QED BY <1>2, <2>2, <3>1 DEF Failed
  <2>. QED BY <2>1, <2>2
<1>. QED BY <1>1, <1>3 DEF EndInv

LEMMA AdvanceKeepsBound ==
  ASSUME TypeOK, BoundInv, Advance, UNCHANGED <<actions, bindings>>
  PROVE  BoundInv'
<1>1. \A p : Done(p) \subseteq Done(p)'
  BY DoneAdvance
<1>. QED BY <1>1, BoundSame DEF Advance

LEMMA RunActionKeepsRecord ==
  ASSUME TypeOK, IInv, RInv, NEW result \in Results, RunAction(result)
  PROVE  RInv'
<1>1. /\ phase \in Phases /\ step \in DOMAIN Steps(phase) /\ Current.kind = "action"
      /\ Here.phase = phase /\ Here.step = step /\ Running
  BY AtStepPosition DEF RunAction, AtStep
<1> DEFINE record == [origin |-> Here, result |-> result]
<1>2. /\ Advance /\ UNCHANGED <<bindings, blocks, case>>
      /\ actions' = Append(actions, record) /\ record.origin = Here
  BY DEF RunAction, Advance
<1>. HIDE DEF record
<1>3. RecordInv' /\ EndInv'
  BY <1>1, <1>2, AdvanceKeepsRecord, AdvanceKeepsEnd DEF RInv
<1>4. /\ actions \in Seq(ActionRecord) /\ step \in Nat
      /\ DOMAIN actions' = DOMAIN actions \cup {Len(actions) + 1}
      /\ \A k \in DOMAIN actions : actions'[k] = actions[k]
      /\ actions'[Len(actions) + 1] = record
  BY <1>2 DEF TypeOK
<1>5. ASSUME NEW p, NEW i \in Done(p) PROVE ActionsBefore(p, i)' = ActionsBefore(p, i)
  <2>1. ~(record.origin.phase = p /\ record.origin.step < i)
    BY <1>1, <1>2, <1>4, <1>5 DEF Done
  <2>. QED BY <1>4, <2>1 DEF ActionsBefore
<1>6. ASSUME NEW n, NEW p, NEW i \in Done(p), BoundBy(n, p, i) PROVE BoundBy(n, p, i)'
  <2>1. bindings[n].action \in DOMAIN actions
    BY <1>6 DEF BoundBy, IsLatest, ActionsBefore
  <2>2. Steps(p)' = Steps(p)
    BY <1>2 DEF Steps
  <2>3. IsLatest(bindings[n].action, ActionsBefore(p, i))'
    BY <1>2, <1>5, <1>6 DEF BoundBy, IsLatest
  <2>. QED BY <1>2, <1>4, <1>6, <2>1, <2>2, <2>3 DEF BoundBy
<1>7. \A p : Done(p) \subseteq Done(p)' /\ Steps(p)' = Steps(p)
  BY <1>2, DoneAdvance DEF Steps
<1>8. BoundInv'
  BY <1>2, <1>6, <1>7 DEF RInv, BoundInv
<1>. QED BY <1>3, <1>8 DEF RInv

LEMMA BindKeepsRecord ==
  ASSUME TypeOK, IInv, RInv, Bind
  PROVE  RInv'
<1>1. /\ phase \in Phases /\ step \in DOMAIN Steps(phase) /\ Current.kind = "let" /\ Running
  BY AtStepPosition DEF Bind, AtStep
<1>2. lastAction # None
  BY <1>1, AcceptedStep
<1> DEFINE error == CaptureError(lastAction[Current.stream], Current.mode)
<1>3. CASE error # "none"
  <2>1. Finish("runtime_error", [code |-> error, origin |-> Here])
    BY <1>2, <1>3 DEF Bind, Abort
  <2>. QED BY <1>1, <2>1, FinishKeepsRecord
<1>4. CASE error = "none"
  <2>1. /\ Insert(Current.name, BoundText(Current))
        /\ UNCHANGED <<actions, blocks, case, phase>> /\ Advance
    BY <1>2, <1>4 DEF Bind, Advance
  <2>2. RecordInv' /\ EndInv'
    BY <1>1, <2>1, AdvanceKeepsRecord, AdvanceKeepsEnd DEF RInv
  <2>3. /\ DOMAIN bindings' = DOMAIN bindings \cup {Current.name}
        /\ \A n \in DOMAIN bindings : n # Current.name => bindings'[n] = bindings[n]
        /\ bindings'[Current.name] = BoundText(Current)
    BY <2>1 DEF Insert
  <2>4. \A p : Steps(p)' = Steps(p) /\ Done(p)' = Done(p) \cup (IF phase = p THEN {step} ELSE {})
    BY <2>1, DoneAdvance DEF Steps
  <2>5. ASSUME NEW n, n = Current.name, NEW p, p = phase, NEW i, i = step
        PROVE  BoundBy(n, p, i)'
    <3>1. /\ actions \in Seq(ActionRecord) /\ Len(actions) \in DOMAIN actions
          /\ actions[Len(actions)].origin.phase = phase
          /\ actions[Len(actions)].origin.step < step
          /\ actions[Len(actions)].result = lastAction
      BY <1>2 DEF TypeOK, IInv, CheckpointInv, OrderInv
    <3>2. IsLatest(Len(actions), ActionsBefore(p, i))
      BY <2>5, <3>1 DEF IsLatest, ActionsBefore
    <3>3. /\ bindings'[n].action = Len(actions)
          /\ bindings'[n].stream = Current.stream /\ bindings'[n].mode = Current.mode
          /\ bindings'[n].value = Captured(lastAction[Current.stream], Current.mode)
      BY <2>3, <2>5 DEF BoundText
    <3>4. /\ Steps(p)'[i] = Current /\ Current.kind = "let" /\ Current.name = n
          /\ ActionsBefore(p, i)' = ActionsBefore(p, i)
      BY <1>1, <2>1, <2>4, <2>5 DEF Current, ActionsBefore
    <3>. QED BY <2>1, <3>1, <3>2, <3>3, <3>4 DEF BoundBy, IsLatest
  <2>6. ASSUME NEW n \in DOMAIN bindings, n # Current.name, NEW p, NEW i, BoundBy(n, p, i)
        PROVE  BoundBy(n, p, i)'
    <3>1. bindings'[n] = bindings[n] /\ Steps(p)' = Steps(p)
      BY <2>3, <2>4, <2>6
    <3>. QED BY <2>1, <2>6, <3>1 DEF BoundBy, ActionsBefore, IsLatest
  <2>7. BoundInv'
    <3> SUFFICES ASSUME NEW n \in DOMAIN bindings'
                 PROVE  \E p \in Phases : \E i \in Done(p)' : i \in DOMAIN Steps(p)' /\ BoundBy(n, p, i)'
      BY DEF BoundInv
    <3>1. CASE n = Current.name
      <4>1. PICK p, i : p = phase /\ i = step
        OBVIOUS
      <4>2. p \in Phases /\ i \in Done(p)' /\ i \in DOMAIN Steps(p)'
        BY <1>1, <2>4, <4>1
      <4>. QED BY <2>5, <3>1, <4>1, <4>2
    <3>2. CASE n # Current.name
      BY <2>3, <2>4, <2>6, <3>2 DEF RInv, BoundInv
    <3>. QED BY <3>1, <3>2
  <2>. QED BY <2>2, <2>7 DEF RInv
<1>. QED BY <1>3, <1>4

LEMMA WriteFileKeepsRecord ==
  ASSUME TypeOK, IInv, RInv, WriteFile
  PROVE  RInv'
<1>1. phase \in Phases /\ step \in DOMAIN Steps(phase) /\ Current.kind = "write" /\ Running
  BY AtStepPosition DEF WriteFile, AtStep
<1>2. Resolves(Current)
  BY <1>1, AcceptedStep
<1>3. UNCHANGED <<actions, bindings, blocks>> /\ Advance
  BY <1>2 DEF WriteFile
<1>. QED BY <1>1, <1>3, AdvanceKeepsRecord, AdvanceKeepsEnd, AdvanceKeepsBound DEF RInv

LEMMA PassBlockKeepsRecord ==
  ASSUME TypeOK, RInv, PassBlock
  PROVE  RInv'
<1>1. /\ phase \in Phases /\ step \in DOMAIN Steps(phase) /\ Current.kind = "assert" /\ Running
  BY AtStepPosition DEF PassBlock, AtStep
<1> DEFINE record == BlockRecord(Current.expectations, FALSE)
<1>2. /\ Advance /\ UNCHANGED <<actions, bindings>> /\ blocks' = Append(blocks, record)
      /\ record.origin = Here /\ ~record.failed
  BY DEF PassBlock, BlockRecord
<1>. HIDE DEF record
<1>. QED BY <1>1, <1>2, AdvanceKeepsRecord, AdvanceKeepsEnd, AdvanceKeepsBound DEF RInv

LEMMA FailBlockKeepsRecord ==
  ASSUME TypeOK, RInv, FailBlock
  PROVE  RInv'
<1>1. /\ phase \in Phases /\ Running /\ Here.phase = phase /\ Here.step = step
  BY AtStepPosition DEF FailBlock, AtStep
<1> DEFINE record == BlockRecord(Current.expectations, TRUE)
<1>2. /\ UNCHANGED <<case, phase, step, actions, bindings, diagnostic>>
      /\ status = "running" /\ status' = "fail" /\ blocks' = Append(blocks, record)
      /\ record.origin = Here /\ record.failed
  BY <1>1 DEF FailBlock, BlockRecord, Running
<1>. HIDE DEF record
<1>3. /\ Here' = Here
      /\ \A p : \A kind : Done(p)' = Done(p) /\ DoneOf(p, kind)' = DoneOf(p, kind)
  BY <1>2, DoneSame
<1>4. /\ blocks \in Seq(BlockResult) /\ Len(blocks') = Len(blocks) + 1 /\ blocks' # <<>>
      /\ DOMAIN blocks' = DOMAIN blocks \cup {Len(blocks')}
      /\ \A k \in DOMAIN blocks : blocks'[k] = blocks[k]
      /\ blocks'[Len(blocks')] = record
  BY <1>2 DEF TypeOK
<1>5. RecordInv'
  <2> SUFFICES ASSUME NEW p \in Phases
               PROVE  /\ Recorded(actions, p)' = DoneOf(p, "action")'
                      /\ Recorded(blocks, p)' = DoneOf(p, "assert")' \cup Broken(p)'
    BY DEF RecordInv
  <2>1. Recorded(actions, p)' = DoneOf(p, "action")'
    BY <1>2, <1>3 DEF RInv, RecordInv, Recorded
  <2>2. Recorded(Append(blocks, record), p)
          = Recorded(blocks, p) \cup (IF phase = p THEN {step} ELSE {})
    BY <1>1, <1>2, <1>4, RecordedAppend
  <2>3. Recorded(blocks, p)' = Recorded(Append(blocks, record), p)
    BY <1>2 DEF Recorded
  <2>4. Broken(p) = {} /\ Broken(p)' = IF phase = p THEN {step} ELSE {}
    BY <1>2 DEF Broken
  <2>. QED BY <1>3, <2>1, <2>2, <2>3, <2>4 DEF RInv, RecordInv
<1>6. EndInv'
  <2>1. \A k \in DOMAIN blocks : ~Failed(k)
    BY <1>2 DEF RInv, EndInv
  <2>2. \A k \in DOMAIN blocks' : Failed(k)' => k = Len(blocks')
    BY <1>4, <2>1 DEF Failed
  <2>3. Failed(Len(blocks))' /\ diagnostic = None
    BY <1>2, <1>4 DEF Failed, RInv, EndInv
  <2>. QED BY <1>1, <1>2, <1>3, <1>4, <2>2, <2>3 DEF EndInv
<1>7. BoundInv'
  BY <1>2, <1>3, BoundSame DEF RInv
<1>. QED BY <1>5, <1>6, <1>7 DEF RInv

\* The two hand-overs complete nothing: setup is through when the body begins.
LEMMA HandOverKeepsRecord ==
  ASSUME TypeOK, IInv, RInv, StartCase \/ EnterBody
  PROVE  RInv'
<1>1. /\ UNCHANGED <<case, actions, bindings, blocks, status, diagnostic>> /\ Running
      /\ status = "running" /\ diagnostic = None
  BY DEF StartCase, EnterBody, evidence, Running, RInv, EndInv
<1>2. case.setup \in Seq(Step) /\ case.body \in Seq(Step) /\ step \in Nat
  BY CasesAssumption DEF TypeOK
<1>3. \A p \in Phases : Done(p)' = Done(p)
  <2>1. CASE StartCase
    <3>1. /\ phase = "entry" /\ step = 1 /\ step' = 1
          /\ phase' = IF case.setup = <<>> THEN "case" ELSE "before_each"
      BY <2>1 DEF StartCase, IInv, PositionInv
    <3>2. 1 .. step - 1 = {} /\ 1 .. step' - 1 = {}
      BY <3>1
    <3>3. case.setup = <<>> => DOMAIN case.setup = {}
      OBVIOUS
    <3>. QED BY <1>1, <3>1, <3>2, <3>3 DEF Done, Phases
  <2>2. CASE EnterBody
    <3>1. /\ phase = "before_each" /\ phase' = "case" /\ step' = 1 /\ step = Len(case.setup) + 1
      BY <1>2, <2>2 DEF EnterBody, IInv, PositionInv, Steps, Phases
    <3>2. 1 .. step - 1 = DOMAIN case.setup /\ 1 .. step' - 1 = {}
      BY <1>2, <3>1
    <3>. QED BY <1>1, <3>1, <3>2 DEF Done, Phases
  <2>. QED BY <2>1, <2>2
<1>4. \A p : Steps(p)' = Steps(p)
  BY <1>1 DEF Steps
<1>5. RecordInv'
  <2>1. \A p \in Phases : \A kind : DoneOf(p, kind)' = DoneOf(p, kind)
    BY <1>3, <1>4 DEF DoneOf
  <2>2. \A p : Broken(p) = {} /\ Broken(p)' = {}
    BY <1>1 DEF Broken
  <2>. QED BY <1>1, <2>1, <2>2 DEF RInv, RecordInv, Recorded
<1>6. EndInv'
  BY <1>1 DEF RInv, EndInv, Failed
<1>7. BoundInv'
  <2>1. \A n, p, i : BoundBy(n, p, i) => BoundBy(n, p, i)'
    BY <1>1, <1>4 DEF BoundBy, ActionsBefore, IsLatest
  <2>. QED BY <1>1, <1>3, <1>4, <2>1 DEF RInv, BoundInv
<1>. QED BY <1>5, <1>6, <1>7 DEF RInv

LEMMA InitRecord == Init => RInv
<1> SUFFICES ASSUME Init PROVE RInv
  OBVIOUS
<1>1. \A p \in Phases : \A kind : Done(p) = {} /\ DoneOf(p, kind) = {} /\ Broken(p) = {}
  BY DEF Init, Done, DoneOf, Broken, Phases
<1>2. RecordInv
  BY <1>1 DEF Init, RecordInv, Recorded
<1>. QED BY <1>2 DEF Init, RInv, EndInv, BoundInv

LEMMA NextKeepsRecord == TypeOK /\ IInv /\ RInv /\ [Next]_vars => RInv'
<1> SUFFICES ASSUME TypeOK, IInv, RInv, [Next]_vars PROVE RInv'
  OBVIOUS
<1>1. CASE StartCase \/ EnterBody
  BY <1>1, HandOverKeepsRecord
<1>2. CASE SetUpFails
  <2>1. Running /\ phase = "entry" /\ "entry" \notin Phases
    BY <1>2 DEF SetUpFails, Phases
  <2>. QED BY <1>2, <2>1, FinishKeepsRecord DEF SetUpFails
<1>3. ASSUME NEW result \in Results, RunAction(result) PROVE RInv'
  BY <1>3, RunActionKeepsRecord
<1>4. CASE ActionCannotRun \/ WriteFails
  BY <1>4, FinishKeepsRecord DEF ActionCannotRun, WriteFails, Abort, AtStep
<1>5. CASE WriteFile
  BY <1>5, WriteFileKeepsRecord
<1>6. CASE Bind
  BY <1>6, BindKeepsRecord
<1>7. CASE RejectBlock \/ AbandonBlock
  BY <1>7, FinishKeepsRecord DEF RejectBlock, AbandonBlock, Abort, AtStep
<1>8. CASE PassBlock
  BY <1>8, PassBlockKeepsRecord
<1>9. CASE FailBlock
  BY <1>9, FailBlockKeepsRecord
<1>10. CASE CompleteBody
  <2>1. case.body \in Seq(Step) /\ step \in Nat
    BY CasesAssumption DEF TypeOK
  <2>2. Running /\ phase = "case" /\ step = Len(case.body) + 1
    BY <1>10, <2>1 DEF CompleteBody, IInv, PositionInv, Steps, Phases
  <2>. QED BY <1>10, <2>2, FinishKeepsRecord DEF CompleteBody
<1>11. CASE UNCHANGED vars
  <2>1. UNCHANGED <<case, phase, step, actions, bindings, blocks, status, diagnostic>>
    BY <1>11 DEF vars, evidence
  <2>2. /\ Here' = Here
        /\ \A p : \A kind : Done(p)' = Done(p) /\ DoneOf(p, kind)' = DoneOf(p, kind)
    BY <2>1, DoneSame
  <2>3. RecordInv' /\ EndInv'
    BY <2>1, <2>2 DEF RInv, RecordInv, EndInv, Recorded, Broken, Failed
  <2>4. BoundInv'
    BY <2>1, <2>2, BoundSame DEF RInv
  <2>. QED BY <2>3, <2>4 DEF RInv
<1>. QED
  BY <1>1, <1>2, <1>3, <1>4, <1>5, <1>6, <1>7, <1>8, <1>9, <1>10, <1>11 DEF Next, Execute, Over

(***************************************************************************)
(* The evidence record is the list of what ran: every completed action and *)
(* assertion block, the failed block, and nothing else (execute_steps).    *)
(***************************************************************************)
THEOREM RecordHolds == Spec => [](TypeOK /\ IInv /\ RInv)
BY InitRecord, NextKeepsRecord, TypeCorrect, InvariantHolds, PTL DEF Spec

-----------------------------------------------------------------------------
(***************************************************************************)
(* A binding names the action it was captured from, and holds what that    *)
(* action left on its stream (execute_steps, the `let` arm).               *)
(***************************************************************************)
THEOREM ProvenanceTheorem == Spec => []BindingProvenance
<1>1. RInv => BindingProvenance
  BY DEF RInv, BoundInv, BoundBy, BindingProvenance
<1>. QED BY <1>1, RecordHolds, PTL

(***************************************************************************)
(* No case enters its body unless every step of its setup was completed    *)
(* and every assertion of the setup held (evaluate_case).                  *)
(***************************************************************************)
THEOREM SetupTheorem == Spec => []SetupGatesBody
<1>1. RInv => SetupGatesBody
  <2> SUFFICES ASSUME RInv, phase = "case"
               PROVE  /\ Recorded(actions, "before_each") = StepsOf("before_each", "action")
                      /\ Recorded(blocks, "before_each") = StepsOf("before_each", "assert")
                      /\ \A k \in DOMAIN blocks : Failed(k) => blocks[k].origin.phase = "case"
    BY DEF SetupGatesBody
  <2>1. /\ Broken("before_each") = {} /\ Here.phase = "case"
        /\ \A kind : DoneOf("before_each", kind) = StepsOf("before_each", kind)
    BY DEF Broken, Here, DoneOf, Done, StepsOf, Steps
  <2>. QED BY <2>1 DEF RInv, RecordInv, EndInv, Phases
<1>. QED BY <1>1, RecordHolds, PTL

(***************************************************************************)
(* A passed case ran all of its body, and every assertion block of it held *)
(* (execute_steps), for every script the parser accepts.                   *)
(***************************************************************************)
THEOREM PassTheorem == Spec => []PassMeansAllRan
<1>1. TypeOK /\ IInv /\ RInv => PassMeansAllRan
  <2> SUFFICES ASSUME TypeOK, IInv, RInv, status = "pass"
               PROVE  /\ Recorded(actions, "case") = StepsOf("case", "action")
                      /\ Recorded(blocks, "case") = StepsOf("case", "assert")
                      /\ blocks # <<>>
                      /\ \A k \in DOMAIN blocks : ~Failed(k)
                      /\ DOMAIN bindings = DeclaredNames(case.setup) \cup DeclaredNames(case.body)
    BY DEF PassMeansAllRan
  <2>1. phase = "case" /\ step = Len(case.body) + 1 /\ \A k \in DOMAIN blocks : ~Failed(k)
    BY DEF RInv, EndInv
  <2>2. case.body \in Seq(Step) /\ HasAssertionBlock(case.body)
    BY CasesAssumption DEF TypeOK, ParsedCase
  <2>3. Done("case") = DOMAIN case.body /\ Steps("case") = case.body /\ Broken("case") = {}
    BY <2>1, <2>2 DEF Done, Steps, Broken
  <2>4. \A kind : DoneOf("case", kind) = StepsOf("case", kind)
    BY <2>3 DEF DoneOf, StepsOf
  <2>5. /\ Recorded(actions, "case") = StepsOf("case", "action")
        /\ Recorded(blocks, "case") = StepsOf("case", "assert")
    BY <2>3, <2>4 DEF RInv, RecordInv, Phases
  <2>6. StepsOf("case", "assert") # {}
    BY <2>2, <2>3 DEF HasAssertionBlock, StepsOf
  <2>7. blocks # <<>>
    BY <2>5, <2>6 DEF Recorded
  <2>8. DOMAIN bindings = DeclaredNames(case.setup) \cup DeclaredNames(case.body)
    BY <2>1 DEF IInv, ScopeInv, Scope, DeclaredNames
  <2>. QED BY <2>1, <2>5, <2>7, <2>8
<1>. QED BY <1>1, RecordHolds, PTL

(***************************************************************************)
(* A case ends at the step that broke it, and nothing of that step or      *)
(* behind it is on record, but for the block that failed.                  *)
(***************************************************************************)
THEOREM EndTheorem == Spec => []EndsWhereItBroke
<1>1. TypeOK /\ IInv /\ RInv => EndsWhereItBroke
  <2> SUFFICES ASSUME TypeOK, IInv, RInv PROVE EndsWhereItBroke
    OBVIOUS
  <2>1. ASSUME diagnostic # None, NEW s \in Recorded(actions, phase) \cup Recorded(blocks, phase)
        PROVE  s < step
    <3>1. CASE phase \in Phases
      <4>1. status # "fail" /\ step \in Nat
        BY <2>1 DEF RInv, EndInv, TypeOK
      <4>2. s \in Done(phase)
        BY <2>1, <3>1, <4>1 DEF RInv, RecordInv, Broken, DoneOf
      <4>. QED BY <4>1, <4>2 DEF Done
    <3>2. CASE phase = "entry"
      BY <2>1, <3>2 DEF IInv, PositionInv, Recorded
    <3>. QED BY <3>1, <3>2 DEF TypeOK
  <2>. QED BY <2>1 DEF RInv, EndInv, EndsWhereItBroke
<1>. QED BY <1>1, RecordHolds, PTL
=============================================================================
