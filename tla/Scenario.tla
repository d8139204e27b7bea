------------------------------ MODULE Scenario ------------------------------
(***************************************************************************)
(* The steps of a concrete case (model.rs) and what the parser accepts     *)
(* (parser/step.rs).  A concrete case is the module-level before_each      *)
(* block, replayed as setup, followed by one case body.  An absent         *)
(* before_each is the empty sequence: the parser rejects an empty block.   *)
(***************************************************************************)
EXTENDS Naturals, Sequences

CONSTANT Names   \* the identifiers a `let` may declare

Streams == {"stdout", "stderr"}
CaptureModes == {"exact", "line"}

(***************************************************************************)
(* An expectation is reduced to what the evaluator's control flow reads:   *)
(* whether it needs a last action result, whether its path obeys the path  *)
(* policy, and which bindings its expected text mentions.                  *)
(***************************************************************************)
Expectation ==
  [needsAction : BOOLEAN, validPath : BOOLEAN, refs : SUBSET Names]

ActionStep == [kind : {"action"}]
WriteStep  == [kind : {"write"}, refs : SUBSET Names]
LetStep    == [kind : {"let"}, name : Names, stream : Streams, mode : CaptureModes]
AssertStep == [kind : {"assert"}, expectations : Seq(Expectation)]
Step       == ActionStep \cup WriteStep \cup LetStep \cup AssertStep

(***************************************************************************)
(* Binding references of a step, over every expectation and both write     *)
(* content forms.                                                          *)
(***************************************************************************)
BindingReferences(step) ==
  IF step.kind = "write" THEN step.refs
  ELSE IF step.kind = "assert"
       THEN UNION {step.expectations[e].refs : e \in DOMAIN step.expectations}
       ELSE {}

HasAction(steps, before) == \E j \in 1 .. before - 1 : steps[j].kind = "action"

DeclaredBefore(steps, before) ==
  {steps[j].name : j \in {k \in 1 .. before - 1 : steps[k].kind = "let"}}

DeclaredNames(steps) == DeclaredBefore(steps, Len(steps) + 1)

HasAssertionBlock(steps) == \E i \in DOMAIN steps : steps[i].kind = "assert"

-----------------------------------------------------------------------------
(* Forms of the validation a plausible edit could leave behind.            *)

\* `action_seen` dropped: any `let` is accepted.
ValidBindingsWithoutActionSeen(steps, scope) ==
  \A i \in DOMAIN steps :
    /\ steps[i].kind = "let" =>
         steps[i].name \notin scope \cup DeclaredBefore(steps, i)
    /\ BindingReferences(steps[i]) \subseteq scope \cup DeclaredBefore(steps, i)

-----------------------------------------------------------------------------
(***************************************************************************)
(* The binding flow check of one step sequence, in source order and        *)
(* starting from the names already in scope.  `action_seen` is local to    *)
(* the sequence.                                                           *)
(***************************************************************************)
ValidBindings(steps, scope) ==
  \A i \in DOMAIN steps :
    /\ steps[i].kind = "let" =>
         /\ HasAction(steps, i)
         /\ steps[i].name \notin scope \cup DeclaredBefore(steps, i)
    /\ BindingReferences(steps[i]) \subseteq scope \cup DeclaredBefore(steps, i)

ParsedBeforeEach(steps) == ValidBindings(steps, {})

ParsedCase(c) ==
  /\ ParsedBeforeEach(c.setup)
  /\ HasAssertionBlock(c.body)
  /\ ValidBindings(c.body, DeclaredNames(c.setup))
=============================================================================
