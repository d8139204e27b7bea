----------------------- MODULE BlockEvaluationProofs -----------------------
(***************************************************************************)
(* Theorems about the evaluation of an assertion block, for every set of   *)
(* blocks, checkpoints and file states and any number of disturbances.     *)
(***************************************************************************)
EXTENDS BlockEvaluation, FiniteSetTheorems, FunctionTheorems, WellFoundedInduction, TLAPS

-----------------------------------------------------------------------------
(* Min and the comparison of bytes.                                        *)

LEMMA MinIsLeast ==
  ASSUME NEW S \in SUBSET Nat, S # {}
  PROVE  Min(S) \in S /\ \A k \in S : Min(S) <= k
<1>1. PICK least \in S : \A k \in S : <<k, least>> \notin OpToRel(<, Nat)
  BY NatLessThanWellFounded, WFMin
<1>2. \A k \in S : least <= k
  <2> TAKE k \in S
  <2>1. <<k, least>> \in Nat \X Nat
    OBVIOUS
  <2>2. ~(k < least)
    BY <1>1, <2>1 DEF OpToRel
  <2> QED BY <2>2
<1> QED BY <1>2 DEF Min

\* The first difference of two byte strings, in the three cases of the scan.
LEMMA FirstByteDiffExact ==
  ASSUME NEW a \in Bytes, NEW b \in Bytes
  PROVE  /\ FirstByteDiff(a, b) \in Nat \cup {None}
         /\ Exact([actual |-> a, expected |-> b, offset |-> FirstByteDiff(a, b)])
<1> DEFINE differing == {k \in DOMAIN a \cap DOMAIN b : a[k] # b[k]}
           common == Min({Len(a), Len(b)})
           offset == FirstByteDiff(a, b)
<1>0. /\ Len(a) \in Nat /\ Len(b) \in Nat
      /\ DOMAIN a = 1 .. Len(a) /\ DOMAIN b = 1 .. Len(b)
  BY DEF Bytes
<1>1. CASE differing # {}
  <2>1. differing \in SUBSET Nat
    BY <1>0
  <2>2. Min(differing) \in differing /\ \A k \in differing : Min(differing) <= k
    BY <1>1, <2>1, MinIsLeast
  <2>3. offset = Min(differing) - 1
    BY <1>1 DEF FirstByteDiff
  <2>4. offset \in Nat /\ offset < Len(a) /\ offset < Len(b)
    BY <1>0, <2>2, <2>3
  <2>5. a[offset + 1] # b[offset + 1]
    BY <2>2, <2>3, <2>4, <1>0
  <2>6. \A k \in 1 .. offset : a[k] = b[k]
    <3> TAKE k \in 1 .. offset
    <3>1. k \in DOMAIN a \cap DOMAIN b /\ k < Min(differing)
      BY <1>0, <2>1, <2>2, <2>3, <2>4
    <3>2. k \notin differing
      BY <2>1, <2>2, <3>1
    <3> HIDE DEF offset
    <3> QED BY <3>1, <3>2
  <2>7. offset # None
    BY <2>4, NoneAssumption
  <2> QED BY <1>0, <2>4, <2>5, <2>6, <2>7 DEF Exact
<1>2. CASE differing = {}
  <2>1. \A k \in 1 .. Len(a) : k <= Len(b) => a[k] = b[k]
    BY <1>0, <1>2
  <2>2. CASE Len(a) # Len(b)
    <3>1. common \in {Len(a), Len(b)} /\ common <= Len(a) /\ common <= Len(b)
      BY <1>0, MinIsLeast
    <3>2. offset = common
      BY <1>2, <2>2 DEF FirstByteDiff
    <3>3. offset \in Nat /\ offset # None
      BY <1>0, <3>1, <3>2, NoneAssumption
    <3>4. \A k \in 1 .. offset : a[k] = b[k]
      BY <1>0, <2>1, <3>1, <3>2, <3>3
    <3> HIDE DEF offset, common
    <3>5. ~(offset < Len(a) /\ offset < Len(b))
      BY <1>0, <3>1, <3>2
    <3>6. a # b
      BY <2>2
    <3>7. Exact([actual |-> a, expected |-> b, offset |-> offset])
      BY <1>0, <3>1, <3>2, <3>3, <3>4, <3>5, <3>6 DEF Exact
    <3> QED BY <3>3, <3>7 DEF offset
  <2>3. CASE Len(a) = Len(b)
    <3>1. offset = None
      BY <1>2, <2>3 DEF FirstByteDiff
    <3>2. a = b
      BY <1>0, <2>1, <2>3 DEF Bytes
    <3> QED BY <3>1, <3>2 DEF Exact
  <2> QED BY <2>2, <2>3
<1> QED BY <1>1, <1>2

-----------------------------------------------------------------------------
(* The invariant: what a phase knows of the leaf it evaluates.             *)

Phased ==
  pc \in Evaluating =>
    /\ leaf \in Leaves
    /\ pc \in {"process", "stat", "read"} =>
         /\ pc = "process" <=> block[leaf].kind \in ProcessKinds
         /\ block[leaf].source # "none" => expected \in Bytes

IInv == TypeOK /\ Phased /\ ValidatedFirst /\ ComparisonExact

LEMMA BlockFacts ==
  ASSUME TypeOK
  PROVE  /\ block \in Seq(Expectation)
         /\ ParsedBlock(block)
         /\ DOMAIN block = 1 .. Len(block) /\ Len(block) \in Nat /\ Len(block) >= 1
         /\ \A n \in DOMAIN block : block[n] \in Expectation
<1>1. block \in Seq(Expectation) /\ ParsedBlock(block)
  BY BlocksAssumption DEF TypeOK
<1>2. block # <<>>
  BY <1>1 DEF ParsedBlock
<1> QED BY <1>1, <1>2

\* Every node lies in the subtree of an expectation of the block itself.
LEMMA UnderTopLevel ==
  ASSUME TypeOK, NEW m \in DOMAIN block
  PROVE  \E n \in TopLevel : m \in Subtree(n)
<1> DEFINE Above == {n \in DOMAIN block : m \in Subtree(n)}
           top == Min(Above)
<1>1. Above \in SUBSET Nat
  BY BlockFacts
<1>2. m \in Above
  BY BlockFacts DEF Subtree
<1>3. top \in Above /\ \A n \in Above : top <= n
  BY <1>1, <1>2, MinIsLeast
<1> HIDE DEF top
<1>4. /\ top \in DOMAIN block /\ top \in Nat /\ m \in Nat /\ m >= top
      /\ \A k \in top + 1 .. m : block[k].parent >= top
  BY <1>3, BlockFacts DEF Subtree
<1>5. block[top].parent = 0
  <2> DEFINE p == block[top].parent
  <2> SUFFICES ASSUME p # 0
               PROVE  FALSE
    OBVIOUS
  <2>1. p \in Nat /\ p < top /\ \A k \in p + 1 .. top - 1 : block[k].parent >= p
    BY <1>4, BlockFacts DEF ParsedBlock, Expectation
  <2>2. p \in DOMAIN block
    BY <1>4, <2>1, BlockFacts
  <2>3. \A k \in p + 1 .. m : block[k].parent >= p
    <3> TAKE k \in p + 1 .. m
    <3>1. CASE k < top
      BY <2>1, <1>4, <3>1
    <3>2. CASE k = top
      BY <2>1, <3>2
    <3>3. CASE k > top
      <4>1. block[k].parent >= top /\ k \in DOMAIN block
        BY <1>4, <3>3, <2>1, BlockFacts
      <4>2. block[k].parent \in Nat
        BY <4>1, BlockFacts DEF Expectation
      <4> QED BY <4>1, <4>2, <2>1, <1>4
    <3> QED BY <3>1, <3>2, <3>3, <2>1, <1>4
  <2>4. p \in Above
    BY <1>4, <2>1, <2>2, <2>3 DEF Subtree
  <2> QED BY <1>3, <1>4, <2>1, <2>4
<1> QED BY <1>3, <1>4, <1>5 DEF TopLevel, Children

\* A block with no refused expectation has nothing unevidenced or out of policy.
LEMMA AcceptedIsValid ==
  ASSUME TypeOK, Refused = {}
  PROVE  Unevidenced \cup OutOfPolicy = {}
<1> SUFFICES ASSUME NEW m \in Unevidenced \cup OutOfPolicy
             PROVE  FALSE
  OBVIOUS
<1>1. m \in DOMAIN block
  BY DEF Unevidenced, OutOfPolicy, Leaves
<1>2. PICK n \in TopLevel : m \in Subtree(n)
  BY <1>1, UnderTopLevel
<1>3. ~LacksEvidence(n) /\ PathsValid(n)
  BY <1>2 DEF Refused
<1>4. m \notin Unevidenced
  BY <1>2, <1>3 DEF Unevidenced, LacksEvidence, RequiresAction
<1>5. m \notin OutOfPolicy
  BY <1>2, <1>3 DEF OutOfPolicy, PathsValid
<1> QED BY <1>4, <1>5

\* A refused expectation has a leaf to blame.
LEMMA RefusedHasCause ==
  ASSUME TypeOK, Refused # {}
  PROVE  /\ LacksEvidence(Min(Refused)) => Unevidenced # {}
         /\ ~LacksEvidence(Min(Refused)) => OutOfPolicy # {}
<1> DEFINE n == Min(Refused)
<1>1. Refused \in SUBSET Nat
  BY BlockFacts DEF Refused, TopLevel, Children
<1>2. n \in Refused
  BY <1>1, MinIsLeast
<1> HIDE DEF n
<1>3. ASSUME LacksEvidence(n) PROVE Unevidenced # {}
  <2>1. PICK m \in Subtree(n) : block[m].kind \in ProcessKinds
    BY <1>3 DEF LacksEvidence, RequiresAction
  <2>2. m \in Unevidenced
    BY <1>3, <2>1 DEF LacksEvidence, Unevidenced, Leaves, Composition, Subtree, ProcessKinds, Operators
  <2> QED BY <2>2
<1>4. ASSUME ~LacksEvidence(n) PROVE OutOfPolicy # {}
  <2>1. ~PathsValid(n)
    BY <1>2, <1>4 DEF Refused
  <2>2. PICK m \in Subtree(n) :
          \/ block[m].kind \in FileKinds /\ block[m].path \notin PolicyNames
          \/ /\ block[m].kind = "dir" /\ block[m].matcher = "contains"
             /\ block[m].entry \notin PolicyNames
    BY <2>1 DEF PathsValid
  <2>3. m \in OutOfPolicy
    BY <2>2 DEF OutOfPolicy, Leaves, Composition, Subtree, FileKinds, Operators
  <2> QED BY <2>3
<1> QED BY <1>3, <1>4 DEF n

-----------------------------------------------------------------------------
(* What each way of ending a step preserves.                               *)

Fixed == block' = block /\ lastAction' = lastAction

LEMMA ContinueKeeps ==
  ASSUME IInv, NEW later \in SUBSET Leaves, ContinueWith(later)
  PROVE  /\ Fixed /\ fs' = fs /\ abort' = abort /\ disturbances' = disturbances
         /\ seen' \in [Paths -> SUBSET FileStates]
         /\ expected' \in Bytes \cup {None}
         /\ pc' \in {"done"} \cup Evaluating
         /\ pc' \in Evaluating => leaf' \in DOMAIN block'
         /\ Phased'
<1>1. /\ Fixed /\ fs' = fs /\ abort' = abort /\ disturbances' = disturbances
      /\ seen' = [p \in Paths |-> {fs[p]}]
  BY DEF ContinueWith, Fixed
<1>2. seen' \in [Paths -> SUBSET FileStates]
  BY <1>1 DEF IInv, TypeOK
<1>3. CASE later = {}
  <2>1. pc' = "done" /\ expected' = None
    BY <1>3 DEF ContinueWith
  <2> QED BY <1>1, <1>2, <2>1 DEF Phased, Evaluating
<1>4. CASE later # {}
  <2> DEFINE next == Min(later)
  <2>1. later \in SUBSET Nat
    BY BlockFacts DEF IInv, Leaves
  <2>2. next \in Leaves /\ next \in DOMAIN block
    BY <1>4, <2>1, MinIsLeast DEF Leaves
  <2>3. /\ leaf' = next
        /\ pc' = FirstPhase(next)
        /\ expected' = IF block[next].source = "text" THEN block[next].text ELSE None
    BY <1>4 DEF ContinueWith
  <2> HIDE DEF next
  <2>4. block[next] \in Expectation
    BY <2>2, BlockFacts DEF IInv
  <2>5. expected' \in Bytes \cup {None}
    BY <2>3, <2>4 DEF Expectation
  <2>6. pc' \in Evaluating
    BY <2>3 DEF FirstPhase, ActualPhase, Evaluating
  <2>7. leaf' \in Leaves'
    BY <1>1, <2>2, <2>3 DEF Fixed, Leaves, Composition
  <2>8. ASSUME pc' \in {"process", "stat", "read"}
        PROVE  /\ pc' = "process" <=> block[next].kind \in ProcessKinds
               /\ block[next].source # "none" => expected' \in Bytes
    <3>1. block[next].source \in {"none", "text"} /\ pc' = ActualPhase(next)
      BY <2>3, <2>4, <2>8 DEF FirstPhase, Expectation, Sources
    <3>2. pc' = "process" <=> block[next].kind \in ProcessKinds
      BY <3>1 DEF ActualPhase
    <3>3. block[next].source # "none" => expected' \in Bytes
      BY <2>3, <2>4, <3>1 DEF Expectation
    <3> QED BY <3>2, <3>3
  <2>9. Phased'
    BY <1>1, <2>3, <2>7, <2>8 DEF Phased, Fixed
  <2> QED BY <1>1, <1>2, <2>2, <2>3, <2>5, <2>6, <2>9 DEF Fixed
<1> QED BY <1>3, <1>4

LEMMA ValidStaysValid ==
  ASSUME IInv, Fixed, abort' = abort, pc \in Evaluating
  PROVE  ValidatedFirst'
<1>1. Unevidenced' = Unevidenced /\ OutOfPolicy' = OutOfPolicy
  BY DEF Fixed, Unevidenced, OutOfPolicy, Leaves, Composition
<1>2. Unevidenced \cup OutOfPolicy = {}
  BY DEF IInv, ValidatedFirst, Evaluating
<1>3. abort \notin {"requires_action", "invalid_path"}
  BY <1>2 DEF IInv, ValidatedFirst
<1> QED BY <1>1, <1>2, <1>3 DEF ValidatedFirst

LEMMA RecordKeeps ==
  ASSUME IInv, pc \in Evaluating, NEW observed \in Observations,
         NEW comparison \in Mismatch \cup {None}, comparison # None => Exact(comparison),
         Record(observed, comparison)
  PROVE  IInv'
<1>1. leaf \in DOMAIN block
  BY DEF IInv, TypeOK
<1>2. ContinueWith(Leaves \ DOMAIN results')
  BY DEF Record, EvaluateNext
<1>3. /\ Fixed /\ fs' = fs /\ abort' = abort /\ disturbances' = disturbances
      /\ seen' \in [Paths -> SUBSET FileStates]
      /\ expected' \in Bytes \cup {None}
      /\ pc' \in {"done"} \cup Evaluating
      /\ pc' \in Evaluating => leaf' \in DOMAIN block'
      /\ Phased'
  BY <1>2, ContinueKeeps
<1>4. results' = [n \in DOMAIN results \cup {leaf} |->
                   IF n = leaf THEN [observed |-> observed, comparison |-> comparison]
                   ELSE results[n]]
  BY DEF Record
<1>5. [observed |-> observed, comparison |-> comparison] \in Result
  BY DEF Result
<1>6. DOMAIN results' \subseteq DOMAIN block' /\ results' \in [DOMAIN results' -> Result]
  BY <1>1, <1>3, <1>4, <1>5 DEF IInv, TypeOK, Fixed
<1>7. TypeOK'
  BY <1>3, <1>6 DEF IInv, TypeOK, Fixed
<1>8. ComparisonExact'
  BY <1>4 DEF IInv, ComparisonExact
<1> QED BY <1>3, <1>7, <1>8, ValidStaysValid DEF IInv

LEMMA ObserveKeeps ==
  ASSUME IInv, pc \in Evaluating, NEW observed \in Observations, Observe(observed)
  PROVE  IInv'
BY RecordKeeps DEF Observe

LEMMA RecordComparisonKeeps ==
  ASSUME IInv, pc \in Evaluating, NEW actual \in Bytes, expected \in Bytes,
         RecordComparison(actual)
  PROVE  IInv'
<1> DEFINE c == Compare(actual)
<1>1. c.offset \in Nat \cup {None} /\ Exact(c)
  BY FirstByteDiffExact DEF Compare
<1>2. c \in Mismatch
  BY <1>1 DEF Compare, Mismatch
<1>3. Record(IF c.offset = None THEN "match" ELSE "mismatch", c)
  BY DEF RecordComparison
<1>4. (IF c.offset = None THEN "match" ELSE "mismatch") \in Observations
  BY DEF Observations
<1> HIDE DEF c
<1> QED BY <1>1, <1>2, <1>3, <1>4, RecordKeeps

LEMMA AbortKeeps ==
  ASSUME IInv, pc \in Evaluating, NEW code \in AbortCodes \ {"requires_action", "invalid_path"},
         Abort(code)
  PROVE  IInv'
<1>1. /\ Fixed /\ pc' = "aborted" /\ abort' = code
      /\ UNCHANGED <<fs, leaf, expected, results, disturbances, seen>>
  BY DEF Abort, Fixed
<1>2. TypeOK'
  BY <1>1 DEF IInv, TypeOK, Fixed, Evaluating
<1>3. Phased' /\ ComparisonExact' /\ ValidatedFirst'
  BY <1>1 DEF IInv, Phased, Evaluating, ComparisonExact, ValidatedFirst
<1> QED BY <1>2, <1>3 DEF IInv

LEMMA GoToKeeps ==
  ASSUME IInv, pc \in Evaluating,
         NEW phase \in Evaluating, phase \in {"process", "stat", "read"} => phase = "read" /\ pc = "stat",
         GoTo(phase)
  PROVE  IInv'
<1>1. /\ Fixed /\ pc' = phase
      /\ UNCHANGED <<fs, leaf, expected, results, abort, disturbances, seen>>
  BY DEF GoTo, Fixed
<1>2. TypeOK'
  BY <1>1 DEF IInv, TypeOK, Fixed
<1>3. Phased'
  BY <1>1 DEF IInv, Phased, Fixed, Leaves, Composition, Evaluating
<1>4. ComparisonExact'
  BY <1>1 DEF IInv, ComparisonExact
<1> QED BY <1>1, <1>2, <1>3, <1>4, ValidStaysValid DEF IInv

LEMMA ExpectedIsKeeps ==
  ASSUME IInv, pc \in Evaluating, NEW bytes \in Bytes, ExpectedIs(bytes)
  PROVE  IInv'
<1>1. /\ Fixed /\ expected' = bytes /\ pc' = ActualPhase(leaf)
      /\ UNCHANGED <<fs, leaf, results, abort, disturbances, seen>>
  BY DEF ExpectedIs, Fixed
<1>2. pc' \in Evaluating /\ (pc' = "process" <=> block[leaf].kind \in ProcessKinds)
  BY <1>1 DEF ActualPhase, Evaluating
<1>3. TypeOK'
  BY <1>1, <1>2 DEF IInv, TypeOK, Fixed, Evaluating
<1>4. Phased'
  BY <1>1, <1>2 DEF IInv, Phased, Fixed, Leaves, Composition
<1>5. ComparisonExact'
  BY <1>1 DEF IInv, ComparisonExact
<1> QED BY <1>1, <1>3, <1>4, <1>5, ValidStaysValid DEF IInv

-----------------------------------------------------------------------------
(* Every step preserves the invariant.                                     *)

\* What the step that evaluates a leaf may rely on.
LEMMA LeafFacts ==
  ASSUME IInv, pc \in Evaluating
  PROVE  /\ leaf \in Leaves /\ leaf \in DOMAIN block
         /\ block[leaf] \in Expectation /\ ParsedExpectation(block[leaf])
         /\ Subject \in FileState /\ Source \in FileState
<1>1. leaf \in Leaves /\ leaf \in DOMAIN block
  BY DEF IInv, TypeOK, Phased
<1>2. block[leaf] \in Expectation /\ ParsedExpectation(block[leaf])
  BY <1>1, BlockFacts DEF IInv, ParsedBlock
<1>3. block[leaf].path \in Paths /\ block[leaf].from \in Paths
  BY <1>2 DEF Expectation
<1> QED BY <1>1, <1>2, <1>3, FilesAssumption DEF IInv, TypeOK, Subject, Source

LEMMA ProcessFacts ==
  ASSUME IInv, pc = "process"
  PROVE  lastAction \in ActionResult /\ block[leaf].kind \in ProcessKinds
<1>1. pc \in Evaluating
  BY DEF Evaluating
<1>2. leaf \in Leaves /\ block[leaf].kind \in ProcessKinds
  BY <1>1 DEF IInv, Phased
<1>3. Unevidenced = {}
  BY DEF IInv, ValidatedFirst
<1>4. lastAction # None
  BY <1>2, <1>3 DEF Unevidenced
<1> QED BY <1>2, <1>4, CheckpointsAssumption DEF IInv, TypeOK

\* A leaf that compares bytes has resolved them before it looks at its subject.
LEMMA ExpectedResolved ==
  ASSUME IInv, pc \in {"process", "read"}, block[leaf].kind \in {"stdout", "stderr", "file"},
         block[leaf].matcher \in Equality
  PROVE  expected \in Bytes
<1>1. pc \in Evaluating
  BY DEF Evaluating
<1>2. block[leaf].source # "none"
  BY <1>1, LeafFacts DEF ParsedExpectation, Equality
<1> QED BY <1>1, <1>2 DEF IInv, Phased

LEMMA Initially == Init => IInv
<1> SUFFICES ASSUME Init PROVE IInv
  OBVIOUS
<1>1. TypeOK
  BY FilesAssumption DEF Init, TypeOK, Evaluating
<1>2. abort \notin {"requires_action", "invalid_path"}
  BY NoneAssumption DEF Init, AbortCodes
<1>3. Phased /\ ValidatedFirst /\ ComparisonExact
  BY <1>2 DEF Init, Phased, Evaluating, ValidatedFirst, ComparisonExact
<1> QED BY <1>1, <1>3 DEF IInv

LEMMA RejectKeeps ==
  ASSUME IInv, Reject
  PROVE  IInv'
<1> DEFINE code == IF LacksEvidence(Min(Refused)) THEN "requires_action" ELSE "invalid_path"
<1>1. /\ Fixed /\ pc' = "aborted" /\ abort' = code
      /\ UNCHANGED <<fs, leaf, expected, results, disturbances, seen>>
  BY DEF Reject, Abort, Fixed
<1>2. TypeOK'
  BY <1>1 DEF IInv, TypeOK, Fixed, Evaluating, AbortCodes
<1>3. Unevidenced' = Unevidenced /\ OutOfPolicy' = OutOfPolicy
  BY <1>1 DEF Fixed, Unevidenced, OutOfPolicy, Leaves, Composition
<1>4. /\ LacksEvidence(Min(Refused)) => Unevidenced # {}
      /\ ~LacksEvidence(Min(Refused)) => OutOfPolicy # {}
  BY RefusedHasCause DEF Reject, IInv
<1>5. ValidatedFirst'
  BY <1>1, <1>3, <1>4 DEF ValidatedFirst
<1>6. Phased' /\ ComparisonExact'
  BY <1>1 DEF IInv, Phased, Evaluating, ComparisonExact
<1> QED BY <1>2, <1>5, <1>6 DEF IInv

LEMMA AcceptKeeps ==
  ASSUME IInv, Accept
  PROVE  IInv'
<1>1. ContinueWith(Leaves \ DOMAIN results) /\ results' = results
  BY DEF Accept, EvaluateNext
<1>2. /\ Fixed /\ fs' = fs /\ abort' = abort /\ disturbances' = disturbances
      /\ seen' \in [Paths -> SUBSET FileStates]
      /\ expected' \in Bytes \cup {None}
      /\ pc' \in {"done"} \cup Evaluating
      /\ pc' \in Evaluating => leaf' \in DOMAIN block'
      /\ Phased'
  BY <1>1, ContinueKeeps
<1>3. TypeOK'
  BY <1>1, <1>2 DEF IInv, TypeOK, Fixed
<1>4. Unevidenced' = Unevidenced /\ OutOfPolicy' = OutOfPolicy
  BY <1>2 DEF Fixed, Unevidenced, OutOfPolicy, Leaves, Composition
<1>5. Unevidenced \cup OutOfPolicy = {}
  BY AcceptedIsValid DEF Accept, IInv
<1>6. ValidatedFirst'
  BY <1>2, <1>4, <1>5 DEF IInv, ValidatedFirst
<1>7. ComparisonExact'
  BY <1>1 DEF IInv, ComparisonExact
<1> QED BY <1>2, <1>3, <1>6, <1>7 DEF IInv

LEMMA ExpectedSideKeeps ==
  ASSUME IInv,
         StatExpected \/ ReadExpected \/ ResolveFixture \/ RecheckFixture \/ CopyFixture
  PROVE  IInv'
<1>1. pc \in Evaluating
  BY DEF StatExpected, ReadExpected, ResolveFixture, RecheckFixture, CopyFixture, At, Evaluating
<1>2. Source.bytes \in Bytes
  BY <1>1, LeafFacts DEF FileState
<1>3. ASSUME NEW code \in AbortCodes \ {"requires_action", "invalid_path"}, Abort(code)
      PROVE  IInv'
  BY <1>1, <1>3, AbortKeeps
<1>4. ASSUME NEW phase \in {"read_expected", "recheck_fixture", "copy_fixture"}, GoTo(phase)
      PROVE  IInv'
  BY <1>1, <1>4, GoToKeeps DEF Evaluating
<1>5. CASE StatExpected
  BY <1>3, <1>4, <1>5 DEF StatExpected, AbortCodes
<1>6. CASE ReadExpected
  BY <1>1, <1>2, <1>3, <1>6, ExpectedIsKeeps DEF ReadExpected, AbortCodes
<1>7. CASE ResolveFixture
  BY <1>3, <1>4, <1>7 DEF ResolveFixture, AbortCodes
<1>8. CASE RecheckFixture
  BY <1>3, <1>4, <1>8 DEF RecheckFixture, AbortCodes
<1>9. CASE CopyFixture
  BY <1>1, <1>2, <1>3, <1>9, ExpectedIsKeeps DEF CopyFixture, AbortCodes
<1> QED BY <1>5, <1>6, <1>7, <1>8, <1>9

LEMMA ProcessKeeps ==
  ASSUME IInv, ObserveExit \/ ObserveStream
  PROVE  IInv'
<1>1. pc = "process" /\ pc \in Evaluating
  BY DEF ObserveExit, ObserveStream, At, Evaluating
<1>2. ASSUME NEW observed \in Observations, Observe(observed)
      PROVE  IInv'
  BY <1>1, <1>2, ObserveKeeps
<1>3. CASE ObserveExit
  BY <1>2, <1>3 DEF ObserveExit, Observations
<1>4. CASE ObserveStream
  <2>1. block[leaf].kind \in {"stdout", "stderr"}
    BY <1>4 DEF ObserveStream
  <2>2. Stream \in Bytes
    BY <1>1, ProcessFacts DEF Stream, ActionResult
  <2>3. CASE block[leaf].matcher \in {"contains", "empty"}
    BY <1>2, <1>4, <2>3 DEF ObserveStream, Observations
  <2>4. CASE block[leaf].matcher \notin {"contains", "empty"}
    <3>1. block[leaf].matcher \in Equality
      BY <1>1, <2>1, <2>4, LeafFacts DEF ParsedExpectation
    <3>2. expected \in Bytes
      BY <1>1, <2>1, <3>1, ExpectedResolved
    <3>3. RecordComparison(Stream)
      BY <1>4, <2>4 DEF ObserveStream
    <3> QED BY <1>1, <2>2, <3>2, <3>3, RecordComparisonKeeps
  <2> QED BY <2>3, <2>4
<1> QED BY <1>3, <1>4

LEMMA FilesKeep ==
  ASSUME IInv, StatFile \/ ReadFile \/ StatDir \/ ReadDir
  PROVE  IInv'
<1>1. pc \in {"stat", "read"} /\ pc \in Evaluating
  BY DEF StatFile, ReadFile, StatDir, ReadDir, At, Evaluating
<1>2. ASSUME NEW observed \in Observations, Observe(observed)
      PROVE  IInv'
  BY <1>1, <1>2, ObserveKeeps
<1>3. ASSUME pc = "stat", GoTo("read")
      PROVE  IInv'
  BY <1>1, <1>3, GoToKeeps DEF Evaluating
<1>4. CASE StatFile
  BY <1>2, <1>3, <1>4 DEF StatFile, At, Observations
<1>5. CASE StatDir
  BY <1>2, <1>3, <1>5 DEF StatDir, At, Observations
<1>6. CASE ReadDir
  BY <1>2, <1>6 DEF ReadDir, Observations
<1>7. CASE ReadFile
  <2>1. CASE Readable(Subject) /\ block[leaf].matcher \in Equality
    <3>1. expected \in Bytes
      BY <1>7, <2>1, ExpectedResolved DEF ReadFile, At
    <3>2. Subject.bytes \in Bytes
      BY <1>1, LeafFacts DEF FileState
    <3>3. RecordComparison(Subject.bytes)
      BY <1>7, <2>1 DEF ReadFile
    <3> QED BY <1>1, <3>1, <3>2, <3>3, RecordComparisonKeeps
  <2>2. CASE ~(Readable(Subject) /\ block[leaf].matcher \in Equality)
    BY <1>2, <1>7, <2>2 DEF ReadFile, Observations
  <2> QED BY <2>1, <2>2
<1> QED BY <1>4, <1>5, <1>6, <1>7

LEMMA EnvironmentKeeps ==
  ASSUME IInv, Environment
  PROVE  IInv'
<1>1. CASE FixtureCallFails
  <2>1. /\ Fixed /\ pc' = "aborted" /\ abort' = "fixture_missing"
        /\ disturbances' \in 0 .. MaxDisturbances
        /\ UNCHANGED <<fs, leaf, expected, results, seen>>
    BY <1>1, FilesAssumption DEF FixtureCallFails, Fixed, IInv, TypeOK
  <2>2. TypeOK'
    BY <2>1 DEF IInv, TypeOK, Fixed, Evaluating, AbortCodes
  <2>3. Phased' /\ ComparisonExact' /\ ValidatedFirst'
    BY <2>1 DEF IInv, Phased, Evaluating, ComparisonExact, ValidatedFirst
  <2> QED BY <2>2, <2>3 DEF IInv
<1>2. ASSUME NEW p \in Paths, NEW s \in FileStates, ChangePath(p, s)
      PROVE  IInv'
  <2>1. /\ Fixed /\ pc \in Evaluating
        /\ fs' = [fs EXCEPT ![p] = s]
        /\ seen' = [seen EXCEPT ![p] = @ \cup {s}]
        /\ disturbances' \in 0 .. MaxDisturbances
        /\ UNCHANGED <<pc, leaf, expected, results, abort>>
    BY <1>2, FilesAssumption DEF ChangePath, Fixed, IInv, TypeOK
  <2>2. TypeOK'
    BY <2>1 DEF IInv, TypeOK, Fixed
  <2>3. Phased'
    BY <2>1 DEF IInv, Phased, Fixed, Leaves, Composition
  <2>4. ComparisonExact'
    BY <2>1 DEF IInv, ComparisonExact
  <2> QED BY <2>1, <2>2, <2>3, <2>4, ValidStaysValid DEF IInv
<1> QED BY <1>1, <1>2 DEF Environment

LEMMA UnchangedKeeps ==
  ASSUME IInv, UNCHANGED vars
  PROVE  IInv'
<1> USE DEF vars
<1>1. TypeOK'
  BY DEF IInv, TypeOK
<1>2. Phased' /\ ComparisonExact'
  BY DEF IInv, Phased, ComparisonExact, Leaves, Composition
<1>3. ValidatedFirst'
  BY DEF IInv, ValidatedFirst, Unevidenced, OutOfPolicy, Leaves, Composition
<1> QED BY <1>1, <1>2, <1>3 DEF IInv

LEMMA StepKeeps == IInv /\ [Next]_vars => IInv'
<1> SUFFICES ASSUME IInv, [Next]_vars PROVE IInv'
  OBVIOUS
<1>1. CASE Reject
  BY <1>1, RejectKeeps
<1>2. CASE Accept
  BY <1>2, AcceptKeeps
<1>3. CASE StatExpected \/ ReadExpected \/ ResolveFixture \/ RecheckFixture \/ CopyFixture
  BY <1>3, ExpectedSideKeeps
<1>4. CASE ObserveExit \/ ObserveStream
  BY <1>4, ProcessKeeps
<1>5. CASE StatFile \/ ReadFile \/ StatDir \/ ReadDir
  BY <1>5, FilesKeep
<1>6. CASE Environment
  BY <1>6, EnvironmentKeeps
<1>7. CASE Over \/ UNCHANGED vars
  BY <1>7, UnchangedKeeps DEF Over
<1> QED BY <1>1, <1>2, <1>3, <1>4, <1>5, <1>6, <1>7 DEF Next, Evaluate

LEMMA Inductive == Spec => []IInv
<1>1. Init => IInv
  BY Initially
<1>2. IInv /\ [Next]_vars => IInv'
  BY StepKeeps
<1> QED BY <1>1, <1>2, PTL DEF Spec

-----------------------------------------------------------------------------
(***************************************************************************)
(* The state of an evaluation stays well typed: in particular every        *)
(* comparison is of bytes with bytes, an expected value having been        *)
(* resolved and an action having run whenever one is needed.               *)
(***************************************************************************)
THEOREM TypeCorrect == Spec => []TypeOK
<1>1. IInv => TypeOK
  BY DEF IInv
<1> QED BY <1>1, Inductive, PTL

(***************************************************************************)
(* However deep its compositions nest, a block that reaches its first leaf *)
(* was validated in every leaf, and one that is refused has a leaf to      *)
(* blame (required_evidence and validate_expectation_paths).               *)
(***************************************************************************)
THEOREM ValidationComplete == Spec => []ValidatedFirst
<1>1. IInv => ValidatedFirst
  BY DEF IInv
<1> QED BY <1>1, Inductive, PTL

(***************************************************************************)
(* Every comparison a block records is a match exactly when the bytes are  *)
(* equal, and otherwise points at their first difference (first_byte_diff).*)
(***************************************************************************)
THEOREM ComparisonsExact == Spec => []ComparisonExact
<1>1. IInv => ComparisonExact
  BY DEF IInv
<1> QED BY <1>1, Inductive, PTL
-----------------------------------------------------------------------------
(***************************************************************************)
(* What an evaluation that is disturbed between its file system calls may  *)
(* still claim; and what its calls add up to when nothing interferes: the  *)
(* documented meaning of the block, for trees of expectations of any size  *)
(* and depth.  A composition looks only at later nodes of the block, so    *)
(* the recursive functions of the model are determined from the last node  *)
(* to the first; an induction over the block is written as a search for    *)
(* the last node that disagrees.                                           *)
(***************************************************************************)

References == {"workspace", "fixture"}

-----------------------------------------------------------------------------
(* The invariant: what the calls of a leaf so far have seen.               *)

SeenNow == \A p \in Paths : fs[p] \in seen[p]

\* The bytes a subject is compared with were once those of a file that could be read.
Resolved ==
  (pc \in {"process", "stat", "read"} /\ block[leaf].source \in References) =>
    \E s \in seen[block[leaf].from] : Readable(s) /\ s.bytes = expected

\* A subject is read once it has been seen to be of its kind, and only if the matcher asks.
Looked ==
  pc = "read" =>
    /\ block[leaf].kind \in FileKinds /\ block[leaf].matcher # "exists"
    /\ \E s \in seen[block[leaf].path] : s.kind = block[leaf].kind

Referring ==
  /\ pc \in {"stat_expected", "read_expected"} => block[leaf].source = "workspace"
  /\ pc \in {"resolve_fixture", "recheck_fixture", "copy_fixture"} => block[leaf].source = "fixture"

Blamed == abort # None => pc = "aborted"

SInv == SeenNow /\ Resolved /\ Looked /\ Referring /\ Blamed /\ AbortBlamesExpected

-----------------------------------------------------------------------------
LEMMA ContinueKeepsSeen ==
  ASSUME IInv, SInv, pc # "aborted", NEW later \in SUBSET Leaves, ContinueWith(later)
  PROVE  SInv'
<1>1. /\ Fixed /\ fs' = fs /\ abort' = abort /\ abort = None
      /\ seen' = [p \in Paths |-> {fs[p]}]
  BY DEF ContinueWith, Fixed, SInv, Blamed
<1>2. SeenNow'
  BY <1>1 DEF SeenNow
<1>3. Blamed' /\ AbortBlamesExpected'
  BY <1>1 DEF Blamed, AbortBlamesExpected
<1>4. CASE later = {}
  <2>1. pc' = "done"
    BY <1>4 DEF ContinueWith
  <2>. QED BY <1>2, <1>3, <2>1 DEF SInv, Resolved, Looked, Referring
<1>5. CASE later # {}
  <2>1. Min(later) \in later
    BY <1>5, MinIsLeast, BlockFacts DEF IInv, Leaves
  <2>2. PICK next \in Leaves : leaf' = next /\ pc' = FirstPhase(next)
    BY <1>5, <2>1 DEF ContinueWith
  <2>3. /\ pc' \notin {"read", "read_expected", "recheck_fixture", "copy_fixture"}
        /\ pc' = "stat_expected" => block[next].source = "workspace"
        /\ pc' = "resolve_fixture" => block[next].source = "fixture"
        /\ pc' \in {"process", "stat", "read"} => block[next].source \notin References
    BY <2>2 DEF FirstPhase, ActualPhase, References
  <2>4. Resolved' /\ Looked' /\ Referring'
    BY <1>1, <2>2, <2>3 DEF Resolved, Looked, Referring, Fixed
  <2>. QED BY <1>2, <1>3, <2>4 DEF SInv
<1>. QED BY <1>4, <1>5

LEMMA RecordKeepsSeen ==
  ASSUME IInv, SInv, pc \in Evaluating, NEW observed, NEW comparison, Record(observed, comparison)
  PROVE  SInv'
<1>1. ContinueWith(Leaves \ DOMAIN results') /\ pc # "aborted"
  BY DEF Record, EvaluateNext, Evaluating
<1>. QED BY <1>1, ContinueKeepsSeen

\* A script error blames the source of the reference it is found on.
LEMMA AbortKeepsSeen ==
  ASSUME IInv, SInv, pc \in Evaluating, NEW code, Abort(code), block[leaf].source \in References,
         \/ code = Unresolvable(leaf, Source)
         \/ code \in {"contents_unreadable", "fixture_missing"} /\ ~Readable(Source)
  PROVE  SInv'
<1>1. /\ pc' = "aborted" /\ abort' = code
      /\ UNCHANGED <<block, lastAction, fs, leaf, expected, results, disturbances, seen>>
  BY DEF Abort
<1>2. Source \in seen[block[leaf].from]
  BY LeafFacts DEF SInv, SeenNow, Source, Expectation
<1>3. AbortBlamesExpected'
  BY <1>1, <1>2 DEF AbortBlamesExpected, References, Unresolvable, Readable
<1>4. SeenNow' /\ Resolved' /\ Looked' /\ Referring' /\ Blamed'
  BY <1>1 DEF SInv, SeenNow, Resolved, Looked, Referring, Blamed
<1>. QED BY <1>3, <1>4 DEF SInv

LEMMA GoToKeepsSeen ==
  ASSUME IInv, SInv, pc \in Evaluating, NEW phase \in Evaluating, GoTo(phase),
         phase = "read_expected" => pc = "stat_expected",
         phase \in {"recheck_fixture", "copy_fixture"} => pc \in {"resolve_fixture", "recheck_fixture"},
         phase \notin {"stat_expected", "resolve_fixture", "process", "stat"},
         phase = "read" => /\ pc = "stat" /\ block[leaf].kind \in FileKinds
                           /\ block[leaf].matcher # "exists" /\ Subject.kind = block[leaf].kind
  PROVE  SInv'
<1>1. /\ pc' = phase
      /\ UNCHANGED <<block, lastAction, fs, leaf, expected, results, abort, disturbances, seen>>
  BY DEF GoTo
<1>2. Subject \in seen[block[leaf].path]
  BY LeafFacts DEF SInv, SeenNow, Subject, Expectation
<1>3. abort = None
  BY DEF SInv, Blamed, Evaluating
<1>4. SeenNow' /\ Blamed' /\ AbortBlamesExpected'
  BY <1>1, <1>3 DEF SInv, SeenNow, Blamed, AbortBlamesExpected
<1>5. Resolved'
  BY <1>1 DEF SInv, Resolved, Readable
<1>6. Looked'
  BY <1>1, <1>2 DEF Looked
<1>7. Referring'
  BY <1>1 DEF SInv, Referring
<1>. QED BY <1>4, <1>5, <1>6, <1>7 DEF SInv

LEMMA ExpectedIsKeepsSeen ==
  ASSUME IInv, SInv, pc \in Evaluating, Readable(Source), ExpectedIs(Source.bytes)
  PROVE  SInv'
<1>1. /\ pc' = ActualPhase(leaf) /\ expected' = Source.bytes
      /\ UNCHANGED <<block, lastAction, fs, leaf, results, abort, disturbances, seen>>
  BY DEF ExpectedIs
<1>2. pc' \in {"process", "stat"}
  BY <1>1 DEF ActualPhase
<1>3. Source \in seen[block[leaf].from]
  BY LeafFacts DEF SInv, SeenNow, Source, Expectation
<1>4. abort = None
  BY DEF SInv, Blamed, Evaluating
<1>5. Resolved'
  BY <1>1, <1>3 DEF Resolved, Readable
<1>6. SeenNow' /\ Looked' /\ Referring' /\ Blamed' /\ AbortBlamesExpected'
  BY <1>1, <1>2, <1>4 DEF SInv, SeenNow, Looked, Referring, Blamed, AbortBlamesExpected
<1>. QED BY <1>5, <1>6 DEF SInv

-----------------------------------------------------------------------------
(* Every step preserves the invariant.                                     *)

LEMMA InitSeen == Init => SInv
<1> SUFFICES ASSUME Init PROVE SInv
  OBVIOUS
<1>1. SeenNow
  BY DEF Init, SeenNow
<1>. QED BY <1>1 DEF Init, SInv, Resolved, Looked, Referring, Blamed, AbortBlamesExpected

LEMMA ValidationKeepsSeen ==
  ASSUME IInv, SInv, Reject \/ Accept
  PROVE  SInv'
<1>1. CASE Reject
  <2>1. /\ pc' = "aborted" /\ abort' \in {"requires_action", "invalid_path"}
        /\ UNCHANGED <<block, fs, leaf, seen>>
    BY <1>1 DEF Reject, Abort
  <2>. QED BY <2>1 DEF SInv, SeenNow, Resolved, Looked, Referring, Blamed, AbortBlamesExpected
<1>2. CASE Accept
  BY <1>2, ContinueKeepsSeen DEF Accept, EvaluateNext, At
<1>. QED BY <1>1, <1>2

LEMMA ReferenceKeepsSeen ==
  ASSUME IInv, SInv,
         StatExpected \/ ReadExpected \/ ResolveFixture \/ RecheckFixture \/ CopyFixture
  PROVE  SInv'
<1>1. /\ pc \in Evaluating
      /\ pc \in {"stat_expected", "read_expected", "resolve_fixture", "recheck_fixture", "copy_fixture"}
  BY DEF StatExpected, ReadExpected, ResolveFixture, RecheckFixture, CopyFixture, At, Evaluating
<1>2. block[leaf].source \in References
  BY <1>1 DEF SInv, Referring, References
<1>3. Source.kind \in {"absent", "dir", "file"}
  BY <1>1, LeafFacts DEF FileState
<1>4. ASSUME NEW code, Abort(code),
             \/ code = Unresolvable(leaf, Source)
             \/ code \in {"contents_unreadable", "fixture_missing"} /\ ~Readable(Source)
      PROVE  SInv'
  BY <1>1, <1>2, <1>4, AbortKeepsSeen
<1>5. CASE StatExpected
  <2>1. block[leaf].source = "workspace"
    BY <1>5 DEF StatExpected, At, SInv, Referring
  <2>2. CASE Source.kind = "file"
    <3>1. GoTo("read_expected") /\ pc = "stat_expected"
      BY <1>5, <2>2 DEF StatExpected, At
    <3>. QED BY <1>1, <3>1, GoToKeepsSeen DEF Evaluating
  <2>3. CASE Source.kind = "absent"
    BY <1>4, <1>5, <2>1, <2>3 DEF StatExpected, Unresolvable
  <2>4. CASE Source.kind = "dir"
    BY <1>4, <1>5, <2>1, <2>4 DEF StatExpected, Unresolvable
  <2>. QED BY <1>3, <2>2, <2>3, <2>4
<1>6. CASE ReadExpected
  BY <1>1, <1>4, <1>6, ExpectedIsKeepsSeen DEF ReadExpected
<1>7. CASE ResolveFixture
  <2>1. block[leaf].source = "fixture" /\ pc = "resolve_fixture"
    BY <1>7 DEF ResolveFixture, At, SInv, Referring
  <2>2. CASE Source.kind = "file" /\ block[leaf].from \notin OutsidePaths
    <3>1. GoTo("recheck_fixture")
      BY <1>7, <2>2 DEF ResolveFixture
    <3>. QED BY <1>1, <2>1, <3>1, GoToKeepsSeen DEF Evaluating
  <2>3. CASE ~(Source.kind = "file" /\ block[leaf].from \notin OutsidePaths)
    <3>1. Abort(IF Source.kind = "absent" THEN "fixture_missing"
                ELSE IF block[leaf].from \in OutsidePaths THEN "fixture_escapes"
                ELSE "fixture_not_regular")
      BY <1>3, <1>7, <2>3 DEF ResolveFixture
    <3>. QED BY <1>3, <1>4, <2>1, <2>3, <3>1 DEF Unresolvable
  <2>. QED BY <2>2, <2>3
<1>8. CASE RecheckFixture
  <2>1. CASE Source.kind = "file"
    <3>1. GoTo("copy_fixture") /\ pc = "recheck_fixture"
      BY <1>8, <2>1 DEF RecheckFixture, At
    <3>. QED BY <1>1, <3>1, GoToKeepsSeen DEF Evaluating
  <2>2. CASE Source.kind # "file"
    BY <1>4, <1>8, <2>2 DEF RecheckFixture, Readable
  <2>. QED BY <2>1, <2>2
<1>9. CASE CopyFixture
  BY <1>1, <1>4, <1>9, ExpectedIsKeepsSeen DEF CopyFixture
<1>. QED BY <1>5, <1>6, <1>7, <1>8, <1>9

LEMMA SubjectKeepsSeen ==
  ASSUME IInv, SInv, ObserveExit \/ ObserveStream \/ StatFile \/ ReadFile \/ StatDir \/ ReadDir
  PROVE  SInv'
<1>1. pc \in Evaluating
  BY DEF ObserveExit, ObserveStream, StatFile, ReadFile, StatDir, ReadDir, At, Evaluating
<1>2. ASSUME NEW observed, NEW comparison, Record(observed, comparison) PROVE SInv'
  BY <1>1, <1>2, RecordKeepsSeen
<1>3. ASSUME NEW observed, Observe(observed) PROVE SInv'
  BY <1>2, <1>3 DEF Observe
<1>4. ASSUME NEW actual, RecordComparison(actual) PROVE SInv'
  BY <1>2, <1>4 DEF RecordComparison
<1>5. Subject.kind \in {"absent", "dir", "file"}
  BY <1>1, LeafFacts DEF FileState
<1>6. CASE ObserveExit
  BY <1>3, <1>6 DEF ObserveExit
<1>7. CASE ObserveStream
  BY <1>3, <1>4, <1>7 DEF ObserveStream
<1>8. CASE ReadFile
  BY <1>3, <1>4, <1>8 DEF ReadFile
<1>9. CASE ReadDir
  BY <1>3, <1>9 DEF ReadDir
<1>10. CASE StatFile
  <2>1. CASE Subject.kind = "file" /\ block[leaf].matcher # "exists"
    <3>1. GoTo("read") /\ pc = "stat" /\ block[leaf].kind = "file"
      BY <1>10, <2>1 DEF StatFile, At
    <3>. QED BY <1>1, <2>1, <3>1, GoToKeepsSeen DEF Evaluating, FileKinds
  <2>2. CASE ~(Subject.kind = "file" /\ block[leaf].matcher # "exists")
    BY <1>3, <1>5, <1>10, <2>2 DEF StatFile
  <2>. QED BY <2>1, <2>2
<1>11. CASE StatDir
  <2>1. CASE Subject.kind = "dir" /\ block[leaf].matcher # "exists"
    <3>1. GoTo("read") /\ pc = "stat" /\ block[leaf].kind = "dir"
      BY <1>11, <2>1 DEF StatDir, At
    <3>. QED BY <1>1, <2>1, <3>1, GoToKeepsSeen DEF Evaluating, FileKinds
  <2>2. CASE ~(Subject.kind = "dir" /\ block[leaf].matcher # "exists")
    BY <1>3, <1>5, <1>11, <2>2 DEF StatDir
  <2>. QED BY <2>1, <2>2
<1>. QED BY <1>6, <1>7, <1>8, <1>9, <1>10, <1>11

LEMMA EnvironmentKeepsSeen ==
  ASSUME IInv, SInv, Environment
  PROVE  SInv'
<1>1. CASE FixtureCallFails
  <2>1. /\ pc' = "aborted" /\ abort' = "fixture_missing" /\ disturbances' = disturbances + 1
        /\ pc \in Evaluating /\ block[leaf].source = "fixture"
        /\ UNCHANGED <<block, fs, leaf, seen>>
    BY <1>1 DEF FixtureCallFails, SInv, Referring, Evaluating
  <2>2. disturbances' > 0
    BY <2>1, FilesAssumption DEF IInv, TypeOK
  <2>3. Source \in seen[block[leaf].from]
    BY <2>1, LeafFacts DEF SInv, SeenNow, Source, Expectation
  <2>4. AbortBlamesExpected'
    BY <2>1, <2>2, <2>3 DEF AbortBlamesExpected
  <2>. QED BY <2>1, <2>4 DEF SInv, SeenNow, Resolved, Looked, Referring, Blamed
<1>2. ASSUME NEW p \in Paths, NEW s \in FileStates, ChangePath(p, s)
      PROVE  SInv'
  <2>1. /\ pc \in Evaluating /\ abort = None
        /\ \A q \in Paths : fs'[q] = IF q = p THEN s ELSE fs[q]
        /\ \A q \in Paths : seen'[q] = IF q = p THEN seen[q] \cup {s} ELSE seen[q]
        /\ UNCHANGED <<block, pc, leaf, expected, abort>>
    BY <1>2 DEF ChangePath, IInv, TypeOK, SInv, Blamed, Evaluating
  <2>2. SeenNow'
    BY <2>1 DEF SInv, SeenNow
  <2>3. block[leaf].path \in Paths /\ block[leaf].from \in Paths
    BY <2>1, LeafFacts DEF Expectation
  <2>4. Resolved'
    BY <2>1, <2>3 DEF SInv, Resolved, Readable
  <2>5. Looked' /\ Referring'
    BY <2>1, <2>3 DEF SInv, Looked, Referring
  <2>6. Blamed' /\ AbortBlamesExpected'
    BY <2>1 DEF Blamed, AbortBlamesExpected
  <2>. QED BY <2>2, <2>4, <2>5, <2>6 DEF SInv
<1>. QED BY <1>1, <1>2 DEF Environment

LEMMA EvidenceInductive == Spec => [](IInv /\ SInv)
<1>1. IInv /\ SInv /\ [Next]_vars => SInv'
  <2> SUFFICES ASSUME IInv, SInv, [Next]_vars PROVE SInv'
    OBVIOUS
  <2>1. CASE UNCHANGED vars
    BY <2>1 DEF vars, SInv, SeenNow, Resolved, Looked, Referring, Blamed, AbortBlamesExpected,
                Readable, Unresolvable
  <2>. QED BY <2>1, ValidationKeepsSeen, ReferenceKeepsSeen, SubjectKeepsSeen, EnvironmentKeepsSeen
           DEF Next, Evaluate, Over
<1>. QED BY <1>1, InitSeen, Inductive, PTL DEF Spec

-----------------------------------------------------------------------------
(***************************************************************************)
(* Whatever changes between the calls of resolve_expected_contents, only   *)
(* a reference can end a block as a script error, and only with a code     *)
(* that was true of its source since the leaf began.                       *)
(***************************************************************************)
THEOREM BlameTheorem == Spec => []AbortBlamesExpected
<1>1. SInv => AbortBlamesExpected
  BY DEF SInv
<1>. QED BY <1>1, EvidenceInductive, PTL

-----------------------------------------------------------------------------
(* What a step that records a result says of its subject.                  *)

\* The claim of one new result.
Honest(observed) ==
  /\ block[leaf].kind \in FileKinds => \E s \in seen[block[leaf].path] : Claims(leaf, observed, s)
  /\ observed = "unreadable" =>
       \E s \in seen[block[leaf].path] : s.kind # block[leaf].kind \/ ~s.readable

LEMMA RecordAddsLeaf ==
  ASSUME NEW observed, NEW comparison, Record(observed, comparison),
         NEW n \in DOMAIN results' \ DOMAIN results
  PROVE  n = leaf /\ results'[n].observed = observed
BY DEF Record

LEMMA ProcessHonest ==
  ASSUME IInv, ObserveExit \/ ObserveStream, NEW n \in DOMAIN results' \ DOMAIN results
  PROVE  n = leaf /\ Honest(results'[n].observed)
<1>1. block[leaf].kind \notin FileKinds
  BY DEF ObserveExit, ObserveStream, FileKinds
<1>2. \E observed, comparison : Record(observed, comparison) /\ observed # "unreadable"
  <2>1. CASE ObserveExit
    BY <2>1 DEF ObserveExit, Observe
  <2>2. CASE ObserveStream
    BY <2>2 DEF ObserveStream, Observe, RecordComparison
  <2>. QED BY <2>1, <2>2
<1>. QED BY <1>1, <1>2, RecordAddsLeaf DEF Honest

LEMMA StatHonest ==
  ASSUME IInv, SInv, StatFile \/ StatDir, NEW n \in DOMAIN results' \ DOMAIN results
  PROVE  n = leaf /\ Honest(results'[n].observed)
<1>1. pc \in Evaluating
  BY DEF StatFile, StatDir, At, Evaluating
<1>2. Subject \in seen[block[leaf].path] /\ Subject.kind \in {"absent", "dir", "file"}
  BY <1>1, LeafFacts DEF SInv, SeenNow, Subject, Expectation, FileState
<1>3. \E observed : /\ Observe(observed) /\ observed # "unreadable"
                    /\ Claims(leaf, observed, Subject)
  <2>1. CASE StatFile
    BY <1>2, <2>1 DEF StatFile, GoTo, Claims, Truth
  <2>2. CASE StatDir
    BY <1>2, <2>2 DEF StatDir, GoTo, Claims, Truth
  <2>. QED BY <2>1, <2>2
<1>. QED BY <1>2, <1>3, RecordAddsLeaf DEF Observe, Honest

LEMMA ReadHonest ==
  ASSUME IInv, SInv, ReadFile \/ ReadDir, NEW n \in DOMAIN results' \ DOMAIN results
  PROVE  n = leaf /\ Honest(results'[n].observed)
<1>1. pc = "read" /\ pc \in Evaluating
  BY DEF ReadFile, ReadDir, At, Evaluating
<1>2. /\ Subject \in seen[block[leaf].path] /\ Subject \in FileState
      /\ block[leaf].matcher # "exists" /\ ParsedExpectation(block[leaf])
      /\ \E s \in seen[block[leaf].path] : s.kind = block[leaf].kind
  BY <1>1, LeafFacts DEF SInv, SeenNow, Looked, Subject, Expectation
<1>3. ASSUME Observe("unreadable"), Subject.kind # block[leaf].kind \/ ~Subject.readable
      PROVE  n = leaf /\ Honest(results'[n].observed)
  <2>1. n = leaf /\ results'[n].observed = "unreadable"
    BY <1>3, RecordAddsLeaf DEF Observe
  <2>. QED BY <1>2, <1>3, <2>1 DEF Honest, Claims
<1>4. ASSUME NEW observed, NEW comparison, Record(observed, comparison), observed # "unreadable",
             Claims(leaf, observed, Subject)
      PROVE  n = leaf /\ Honest(results'[n].observed)
  BY <1>2, <1>4, RecordAddsLeaf DEF Honest
<1>5. CASE ReadDir
  <2>1. block[leaf].kind = "dir" /\ block[leaf].matcher = "contains"
    BY <1>2, <1>5 DEF ReadDir, ParsedExpectation
  <2>2. CASE Subject.kind # "dir" \/ ~Subject.readable
    BY <1>3, <1>5, <2>1, <2>2 DEF ReadDir
  <2>3. CASE Subject.kind = "dir" /\ Subject.readable
    <3>1. Observe(IF block[leaf].entry \in Subject.entries THEN "found" ELSE "entry_missing")
      BY <1>5, <2>3 DEF ReadDir
    <3>2. Claims(leaf, IF block[leaf].entry \in Subject.entries THEN "found" ELSE "entry_missing", Subject)
      BY <2>1, <2>3 DEF Claims, Truth
    <3>. QED BY <1>4, <3>1, <3>2 DEF Observe
  <2>. QED BY <2>2, <2>3
<1>6. CASE ReadFile
  <2>1. block[leaf].kind = "file" /\ block[leaf].matcher \in {"contains"} \cup Equality
    BY <1>2, <1>6 DEF ReadFile, ParsedExpectation
  <2>2. CASE ~Readable(Subject)
    BY <1>3, <1>6, <2>1, <2>2 DEF ReadFile, Readable
  <2>3. CASE Readable(Subject) /\ block[leaf].matcher \in Equality
    <3>1. RecordComparison(Subject.bytes)
      BY <1>6, <2>3 DEF ReadFile
    <3>2. expected \in Bytes /\ Subject.bytes \in Bytes
      BY <1>1, <1>2, <2>1, <2>3, ExpectedResolved DEF FileState
    <3>3. Compare(Subject.bytes).offset = None <=> Subject.bytes = expected
      BY <3>2, FirstByteDiffExact DEF Compare, Exact
    <3>4. block[leaf].matcher \notin {"contains", "empty", "exists"}
      BY <2>3 DEF Equality
    <3>5. Truth(leaf, Subject, expected) <=> Subject.bytes = expected
      BY <2>1, <2>3, <3>4 DEF Truth, Matches
    <3>6. Claims(leaf, IF Compare(Subject.bytes).offset = None THEN "match" ELSE "mismatch", Subject)
      BY <2>3, <3>3, <3>5 DEF Claims
    <3>. QED BY <1>4, <3>1, <3>6 DEF RecordComparison
  <2>4. CASE Readable(Subject) /\ block[leaf].matcher = "contains"
    <3>1. Observe(IF "raw" \in Range(Subject.bytes) THEN "not_utf8"
                  ELSE IF Occurs(expected, Subject.bytes) THEN "found" ELSE "not_found")
      BY <1>6, <2>4 DEF ReadFile, Equality
    <3>2. Truth(leaf, Subject, expected)
            <=> "raw" \notin Range(Subject.bytes) /\ Occurs(expected, Subject.bytes)
      BY <2>1, <2>4 DEF Truth, Matches
    <3>3. Claims(leaf, IF "raw" \in Range(Subject.bytes) THEN "not_utf8"
                       ELSE IF Occurs(expected, Subject.bytes) THEN "found" ELSE "not_found", Subject)
      BY <2>4, <3>2 DEF Claims
    <3>. QED BY <1>4, <3>1, <3>3 DEF Observe
  <2>. QED BY <2>1, <2>2, <2>3, <2>4
<1>. QED BY <1>5, <1>6

(***************************************************************************)
(* For any blocks and any changes between the calls of observe_file,       *)
(* observe_dir and the resolution of references: a recorded result was     *)
(* true at some moment since its leaf began.                               *)
(***************************************************************************)
THEOREM MomentTheorem == Spec => TrueAtSomeMoment
<1> DEFINE New == DOMAIN results' \ DOMAIN results
           True(n) ==
             LET observed == results'[n].observed IN
             /\ block[n].kind \in FileKinds => \E s \in seen[block[n].path] : Claims(n, observed, s)
             /\ observed = "unreadable" =>
                  \E s \in seen[block[n].path] : s.kind # block[n].kind \/ ~s.readable
             /\ block[n].source \in {"workspace", "fixture"} =>
                  \E s \in seen[block[n].from] : Readable(s) /\ s.bytes = expected
<1>1. IInv /\ SInv /\ [Next]_vars => [\A n \in New : True(n)]_vars
  <2> SUFFICES ASSUME IInv, SInv, [Next]_vars, NEW n \in New PROVE True(n)
    OBVIOUS
  <2>1. results' # results
    OBVIOUS
  <2>2. ObserveExit \/ ObserveStream \/ StatFile \/ ReadFile \/ StatDir \/ ReadDir
    BY <2>1 DEF Next, Evaluate, Environment, Over, vars, Reject, Accept, StatExpected, ReadExpected,
                ResolveFixture, RecheckFixture, CopyFixture, FixtureCallFails, ChangePath,
                Abort, GoTo, ExpectedIs
  <2>3. n = leaf /\ Honest(results'[n].observed)
    BY <2>2, ProcessHonest, StatHonest, ReadHonest
  <2>4. pc \in {"process", "stat", "read"}
    BY <2>2 DEF ObserveExit, ObserveStream, StatFile, ReadFile, StatDir, ReadDir, At
  <2>5. block[leaf].source \in {"workspace", "fixture"} =>
          \E s \in seen[block[leaf].from] : Readable(s) /\ s.bytes = expected
    BY <2>4 DEF SInv, Resolved, References
  <2>. QED BY <2>3, <2>5 DEF Honest
<1>. QED BY <1>1, EvidenceInductive, PTL DEF Spec, TrueAtSomeMoment

-----------------------------------------------------------------------------
(* The tree of expectations has exactly one evaluation.                    *)

\* A node holds when the set `holding` says of its children what its operator asks for.
NodeHolds(own, holding, n) ==
  \/ block[n].kind = "not" /\ ~(Children(n) \subseteq holding)
  \/ block[n].kind = "all" /\ Children(n) \subseteq holding
  \/ block[n].kind = "any" /\ Children(n) \cap holding # {}
  \/ ~Composition(n) /\ n \in own

\* The nodes from n on that hold, given the leaves that hold by themselves.
EvaluatedFrom(own, holding, first) ==
  \A n \in DOMAIN block : n >= first => (n \in holding <=> NodeHolds(own, holding, n))
Evaluation(own, holding) ==
  holding \in SUBSET DOMAIN block /\ EvaluatedFrom(own, holding, 1)

LEMMA ChildrenFollow ==
  ASSUME TypeOK, NEW n \in DOMAIN block, NEW m \in Children(n)
  PROVE  m \in DOMAIN block /\ m > n
BY BlockFacts DEF Children, ParsedBlock

\* Whether a node holds depends on the nodes after it only.
LEMMA HoldsByLater ==
  ASSUME TypeOK, NEW own, NEW S, NEW T, NEW n \in DOMAIN block,
         \A m \in DOMAIN block : m > n => (m \in S <=> m \in T)
  PROVE  NodeHolds(own, S, n) <=> NodeHolds(own, T, n)
<1>1. \A m \in Children(n) : m \in S <=> m \in T
  BY ChildrenFollow
<1> QED BY <1>1 DEF NodeHolds

\* By the last node up to which no evaluation exists.
LEMMA EvaluationExists ==
  ASSUME TypeOK, NEW own
  PROVE  \E holding : Evaluation(own, holding)
<1> DEFINE Possible(k) == \E T \in SUBSET DOMAIN block : EvaluatedFrom(own, T, Len(block) + 1 - k)
           Failing == {k \in 0 .. Len(block) : ~Possible(k)}
           k == Min(Failing)
<1>1. DOMAIN block = 1 .. Len(block) /\ Len(block) \in Nat
  BY BlockFacts
<1>2. SUFFICES ASSUME Failing # {} PROVE FALSE
  <2>1. Possible(Len(block))
    BY <1>1, <1>2
  <2> QED BY <1>1, <2>1 DEF Evaluation
<1>3. k \in Failing /\ \A j \in Failing : k <= j
  <2>1. Failing \in SUBSET Nat
    OBVIOUS
  <2> HIDE DEF Failing
  <2> QED BY <1>2, <2>1, MinIsLeast
<1> HIDE DEF k
<1>4. k # 0
  <2>1. EvaluatedFrom(own, {}, Len(block) + 1 - 0)
    BY <1>1 DEF EvaluatedFrom
  <2> QED BY <1>3, <2>1
<1>5. k \in 1 .. Len(block)
  BY <1>1, <1>3, <1>4
<1>6. Possible(k - 1)
  <2>1. k - 1 \in 0 .. Len(block) /\ ~(k <= k - 1)
    BY <1>1, <1>5
  <2>2. k - 1 \notin Failing
    BY <1>3, <2>1
  <2> HIDE DEF Possible
  <2> QED BY <2>1, <2>2
<1> DEFINE n == Len(block) + 1 - k
<1>7. PICK T \in SUBSET DOMAIN block : EvaluatedFrom(own, T, n + 1)
  BY <1>1, <1>5, <1>6
<1>8. n \in DOMAIN block
  BY <1>1, <1>5
<1> DEFINE S == (T \ {n}) \cup {m \in {n} : NodeHolds(own, T, n)}
<1>9. \A m \in DOMAIN block : m # n => (m \in S <=> m \in T)
  OBVIOUS
<1>10. n \in S <=> NodeHolds(own, T, n)
  OBVIOUS
<1>11. S \in SUBSET DOMAIN block
  BY <1>8
<1> HIDE DEF S, n
<1>12. ASSUME NEW m \in DOMAIN block, m >= n
       PROVE  m \in S <=> NodeHolds(own, S, m)
  <2>0. m \in Nat /\ n \in Nat
    BY <1>1, <1>8
  <2>1. NodeHolds(own, S, m) <=> NodeHolds(own, T, m)
    BY <1>1, <1>8, <1>9, <1>12, HoldsByLater
  <2>2. CASE m = n
    BY <1>10, <2>1, <2>2
  <2>3. CASE m # n
    BY <1>7, <1>9, <1>12, <2>0, <2>1, <2>3 DEF EvaluatedFrom
  <2> QED BY <2>2, <2>3
<1>13. Possible(k)
  BY <1>11, <1>12 DEF EvaluatedFrom, n
<1> QED BY <1>3, <1>13

\* By the last node on which two evaluations differ.
LEMMA EvaluationUnique ==
  ASSUME TypeOK, NEW own, NEW S, NEW T, Evaluation(own, S), Evaluation(own, T)
  PROVE  S = T
<1> DEFINE Differing == {k \in 0 .. Len(block) : Len(block) - k \in DOMAIN block
                           /\ ~(Len(block) - k \in S <=> Len(block) - k \in T)}
           n == Len(block) - Min(Differing)
<1>1. DOMAIN block = 1 .. Len(block) /\ Len(block) \in Nat
  BY BlockFacts
<1>2. SUFFICES ASSUME Differing # {} PROVE FALSE
  <2>1. \A m \in DOMAIN block : m \in S <=> m \in T
    <3> TAKE m \in DOMAIN block
    <3>1. Len(block) - m \in 0 .. Len(block) /\ Len(block) - (Len(block) - m) = m
      BY <1>1
    <3> QED BY <1>2, <3>1
  <2> QED BY <2>1 DEF Evaluation
<1>3. Min(Differing) \in Differing /\ \A k \in Differing : Min(Differing) <= k
  <2>1. Differing \in SUBSET Nat
    OBVIOUS
  <2> HIDE DEF Differing
  <2> QED BY <1>2, <2>1, MinIsLeast
<1>4. n \in DOMAIN block /\ ~(n \in S <=> n \in T)
  BY <1>3
<1>5. ASSUME NEW m \in DOMAIN block, m > n
      PROVE  m \in S <=> m \in T
  <2>1. Len(block) - m \in 0 .. Len(block) /\ Len(block) - (Len(block) - m) = m
    BY <1>1
  <2>2. Len(block) - m < Min(Differing)
    <3>1. Min(Differing) \in 0 .. Len(block) /\ m \in Nat
      BY <1>1, <1>3
    <3> HIDE DEF Differing
    <3> QED BY <1>1, <1>5, <3>1
  <2>3. Len(block) - m \notin Differing
    <3>1. Min(Differing) \in 0 .. Len(block)
      BY <1>3
    <3> HIDE DEF Differing
    <3> QED BY <1>1, <1>3, <2>1, <2>2, <3>1
  <2> QED BY <2>1, <2>3
<1> HIDE DEF n
<1>6. NodeHolds(own, S, n) <=> NodeHolds(own, T, n)
  BY <1>4, <1>5, HoldsByLater
<1> QED BY <1>1, <1>4, <1>6 DEF Evaluation, EvaluatedFrom

\* `passed`, which is written as a recursion, is the evaluation.
LEMMA PassedIsEvaluation ==
  ASSUME TypeOK, NEW own, NEW holding, Evaluation(own, holding)
  PROVE  \A n \in DOMAIN block : Passed(own)[n] = (n \in holding)
<1> DEFINE Node(f, n) ==
             LET allChildrenPassed == \A m \in Children(n) : f[m] IN
             CASE block[n].kind = "not" -> ~allChildrenPassed
               [] block[n].kind = "all" -> allChildrenPassed
               [] block[n].kind = "any" -> \E m \in Children(n) : f[m]
               [] OTHER -> n \in own
           Solves(f) == f = [n \in DOMAIN block |-> Node(f, n)]
           g == [n \in DOMAIN block |-> n \in holding]
<1>0. ASSUME NEW f, NEW n \in DOMAIN block
      PROVE  /\ Node(f, n) \in BOOLEAN
             /\ block[n].kind = "not" => (Node(f, n) <=> \E m \in Children(n) : ~f[m])
             /\ block[n].kind = "all" => (Node(f, n) <=> \A m \in Children(n) : f[m])
             /\ block[n].kind = "any" => (Node(f, n) <=> \E m \in Children(n) : f[m])
             /\ ~Composition(n) => (Node(f, n) <=> n \in own)
  <2>1. CASE block[n].kind = "not"
    BY <2>1, Zenon DEF Composition, Operators
  <2>2. CASE block[n].kind = "all"
    BY <2>2 DEF Composition, Operators
  <2>3. CASE block[n].kind = "any"
    BY <2>3 DEF Composition, Operators
  <2>4. CASE block[n].kind \notin Operators
    <3>1. block[n].kind # "not" /\ block[n].kind # "all" /\ block[n].kind # "any"
      BY <2>4 DEF Operators
    <3>2. Node(f, n) = (n \in own)
      BY <3>1, Zenon
    <3>3. (n \in own) \in BOOLEAN
      OBVIOUS
    <3> HIDE DEF Node
    <3>4. Node(f, n) \in BOOLEAN
      BY <3>2, <3>3, Zenon
    <3>5. Node(f, n) <=> n \in own
      BY <3>2, Zenon
    <3> QED BY <3>1, <3>4, <3>5
  <2> QED BY <2>1, <2>2, <2>3, <2>4 DEF Operators
<1> HIDE DEF Node
<1>1. ASSUME NEW f, NEW T, \A n \in DOMAIN block : f[n] <=> n \in T, NEW n \in DOMAIN block
      PROVE  Node(f, n) <=> NodeHolds(own, T, n)
  <2>1. \A m \in Children(n) : f[m] <=> m \in T
    BY <1>1, ChildrenFollow
  <2> QED BY <1>0, <2>1 DEF NodeHolds, Composition, Operators
<1>2. Solves(g)
  <2>1. \A n \in DOMAIN block : n \in holding <=> NodeHolds(own, holding, n)
    BY BlockFacts DEF Evaluation, EvaluatedFrom
  <2>2. \A n \in DOMAIN block : g[n] <=> n \in holding
    OBVIOUS
  <2>3. \A n \in DOMAIN block : Node(g, n) = (n \in holding)
    BY <1>0, <1>1, <2>1, <2>2
  <2> QED BY <2>3
<1>3. Passed(own) = CHOOSE f : Solves(f)
  BY Zenon DEF Passed, Node
<1>4. \E f : Solves(f)
  BY <1>2
<1> HIDE DEF Solves
<1>5. Solves(Passed(own))
  BY <1>3, <1>4, Zenon
<1> DEFINE f == Passed(own)
           T == {n \in DOMAIN block : f[n]}
<1>6. \A n \in DOMAIN block : f[n] = Node(f, n) /\ f[n] \in BOOLEAN
  BY <1>0, <1>5 DEF Solves
<1>7. \A n \in DOMAIN block : f[n] <=> n \in T
  OBVIOUS
<1>8. \A n \in DOMAIN block : n \in T <=> NodeHolds(own, T, n)
  BY <1>1, <1>6, <1>7
<1>9. Evaluation(own, T)
  BY <1>8 DEF Evaluation, EvaluatedFrom
<1>10. T = holding
  BY <1>9, EvaluationUnique
<1> QED BY <1>6, <1>7, <1>10
-----------------------------------------------------------------------------
(* The invariant: the leaves behind the current one are settled, in order. *)

\* What a leaf compares its subject with, as things stand.
Wanted(n) == IF block[n].source = "text" THEN block[n].text ELSE fs[block[n].from].bytes

\* A reference that resolves, and a result that says what is so.
Settled(n) ==
  /\ Unresolvable(n, fs[block[n].from]) = None
  /\ results[n].observed \in Passing <=> Truth(n, fs[block[n].path], Wanted(n))

LeavesBefore(n) == {m \in Leaves : m < n}

Progress ==
  /\ pc = "validate" => DOMAIN results = {} /\ abort = None
  /\ pc \in Evaluating => DOMAIN results = LeavesBefore(leaf) /\ abort = None
  /\ pc = "done" => DOMAIN results = Leaves /\ abort = None
  /\ (pc = "aborted" /\ abort \notin {"requires_action", "invalid_path"}) =>
       leaf \in Leaves /\ DOMAIN results = LeavesBefore(leaf) /\ abort # None

\* What the calls of the current leaf have found still is so.
Found ==
  /\ pc = "read_expected" => Source.kind = "file"
  /\ pc \in {"recheck_fixture", "copy_fixture"} =>
       Source.kind = "file" /\ block[leaf].from \notin OutsidePaths
  /\ pc \in {"process", "stat", "read"} =>
       /\ Unresolvable(leaf, Source) = None
       /\ block[leaf].source # "none" => expected = Wanted(leaf)
  /\ pc = "read" => Subject.kind = block[leaf].kind
  /\ (pc = "aborted" /\ abort \notin {"requires_action", "invalid_path"}) =>
       abort = Unresolvable(leaf, Source)

QInv == Progress /\ (disturbances = 0 => Found /\ \A n \in DOMAIN results : Settled(n))

-----------------------------------------------------------------------------
LEMMA SettledKept ==
  ASSUME Fixed, fs' = fs, NEW n, results'[n].observed = results[n].observed, Settled(n)
  PROVE  Settled(n)'
BY DEF Fixed, Settled, Unresolvable, Truth, Wanted

\* The next leaf, or the end, once all leaves up to some point are settled.
LEMMA ContinueKeepsSettled ==
  ASSUME IInv, SInv, pc # "aborted", DOMAIN results' \subseteq Leaves,
         \A n \in DOMAIN results' : LeavesBefore(n) \subseteq DOMAIN results',
         disturbances = 0 => \A n \in DOMAIN results' : Settled(n)',
         ContinueWith(Leaves \ DOMAIN results')
  PROVE  QInv'
<1> DEFINE later == Leaves \ DOMAIN results'
<1>1. /\ Fixed /\ fs' = fs /\ abort' = abort /\ abort = None /\ disturbances' = disturbances
  BY DEF ContinueWith, Fixed, SInv, Blamed
<1>2. Leaves' = Leaves /\ \A n : LeavesBefore(n)' = LeavesBefore(n)
  BY <1>1 DEF Fixed, Leaves, Composition, LeavesBefore
<1>3. CASE later = {}
  <2>1. pc' = "done" /\ DOMAIN results' = Leaves
    BY <1>3 DEF ContinueWith
  <2>2. Progress' /\ Found'
    BY <1>1, <1>2, <2>1 DEF Progress, Found, Evaluating
  <2> QED BY <1>1, <2>2 DEF QInv
<1>4. CASE later # {}
  <2>1. Leaves \in SUBSET Nat
    BY BlockFacts DEF IInv, Leaves
  <2> DEFINE next == Min(later)
  <2>2. next \in later /\ \A n \in later : next <= n
    BY <1>4, <2>1, MinIsLeast
  <2>3. /\ leaf' = next /\ pc' = FirstPhase(next)
        /\ expected' = IF block[next].source = "text" THEN block[next].text ELSE None
    BY <1>4 DEF ContinueWith
  <2> HIDE DEF next
  <2>4. DOMAIN results' = LeavesBefore(next)
    <3>1. ASSUME NEW m \in LeavesBefore(next) PROVE m \in DOMAIN results'
      BY <2>1, <2>2 DEF LeavesBefore
    <3>2. ASSUME NEW m \in DOMAIN results' PROVE m \in LeavesBefore(next)
      <4>1. m \in Leaves /\ m \in Nat /\ next \in Nat /\ m # next
        BY <2>1, <2>2
      <4>2. ~(next < m)
        BY <2>2 DEF LeavesBefore
      <4> QED BY <4>1, <4>2 DEF LeavesBefore
    <3> QED BY <3>1, <3>2
  <2>5. pc' \in {"stat_expected", "resolve_fixture", "process", "stat"} /\ pc' \in Evaluating
    BY <2>3 DEF FirstPhase, ActualPhase, Evaluating
  <2>6. Progress'
    BY <1>1, <1>2, <2>3, <2>4, <2>5 DEF Progress, Evaluating
  <2>7. pc' \in {"process", "stat"} => block[next].source \in {"none", "text"}
    <3>1. block[next] \in Expectation
      BY <2>2, BlockFacts DEF IInv, Leaves
    <3> QED BY <2>3, <3>1 DEF FirstPhase, Expectation, Sources
  <2>8. Found'
    BY <1>1, <2>3, <2>5, <2>7 DEF Found, Fixed, Unresolvable, Wanted
  <2> QED BY <1>1, <2>6, <2>8 DEF QInv
<1> QED BY <1>3, <1>4

\* A recorded result settles the leaf if it says what is so.
LEMMA RecordKeepsSettled ==
  ASSUME IInv, SInv, QInv, pc \in {"process", "stat", "read"}, NEW observed, NEW comparison,
         Record(observed, comparison),
         disturbances = 0 => (observed \in Passing <=> Truth(leaf, Subject, Wanted(leaf)))
  PROVE  QInv'
<1>1. pc \in Evaluating /\ leaf \in Leaves /\ Leaves \in SUBSET Nat
  BY LeafFacts, BlockFacts DEF Evaluating, IInv, Leaves
<1>2. DOMAIN results = LeavesBefore(leaf)
  BY <1>1 DEF QInv, Progress
<1>3. /\ ContinueWith(Leaves \ DOMAIN results')
      /\ results' = [n \in DOMAIN results \cup {leaf} |->
                      IF n = leaf THEN [observed |-> observed, comparison |-> comparison]
                      ELSE results[n]]
  BY DEF Record, EvaluateNext
<1>4. DOMAIN results' \subseteq Leaves
  BY <1>1, <1>2, <1>3 DEF LeavesBefore
<1>5. ASSUME NEW n \in DOMAIN results', NEW m \in LeavesBefore(n)
      PROVE  m \in DOMAIN results'
  <2>1. n \in DOMAIN results \cup {leaf} /\ DOMAIN results' = DOMAIN results \cup {leaf}
    BY <1>3
  <2>2. n \in Leaves /\ (n < leaf \/ n = leaf)
    BY <1>1, <1>2, <2>1 DEF LeavesBefore
  <2>3. m \in Leaves /\ m < n
    BY <1>5 DEF LeavesBefore
  <2>4. m \in Nat /\ n \in Nat /\ leaf \in Nat
    BY <1>1, <2>2, <2>3
  <2>5. m < leaf
    BY <2>2, <2>3, <2>4
  <2> QED BY <1>2, <2>1, <2>3, <2>5 DEF LeavesBefore
<1>6. ASSUME disturbances = 0, NEW n \in DOMAIN results'
      PROVE  Settled(n)'
  <2>1. Fixed /\ fs' = fs
    BY <1>3 DEF ContinueWith, Fixed
  <2>2. CASE n # leaf
    BY <1>3, <1>6, <2>1, <2>2, SettledKept DEF QInv
  <2>3. CASE n = leaf
    <3>1. Unresolvable(leaf, Source) = None
      BY <1>6 DEF QInv, Found
    <3>2. results'[n].observed = observed
      BY <1>3, <2>3
    <3>3. Truth(n, fs[block[n].path], Wanted(n))' <=> Truth(leaf, Subject, Wanted(leaf))
      BY <2>1, <2>3 DEF Truth, Wanted, Subject, Fixed
    <3>4. Unresolvable(n, fs[block[n].from])' = Unresolvable(leaf, Source)
      BY <2>1, <2>3 DEF Unresolvable, Source, Fixed
    <3> QED BY <1>6, <3>1, <3>2, <3>3, <3>4 DEF Settled, Passing
  <2> QED BY <2>2, <2>3
<1> QED BY <1>1, <1>3, <1>4, <1>5, <1>6, ContinueKeepsSettled DEF Evaluating

LEMMA AbortKeepsSettled ==
  ASSUME IInv, QInv, pc \in Evaluating, NEW code, Abort(code), code # None,
         disturbances = 0 => code = Unresolvable(leaf, Source)
  PROVE  QInv'
<1>1. /\ Fixed /\ pc' = "aborted" /\ abort' = code
      /\ UNCHANGED <<fs, leaf, expected, results, disturbances, seen>>
  BY DEF Abort, Fixed
<1>2. Leaves' = Leaves /\ \A n : LeavesBefore(n)' = LeavesBefore(n)
  BY <1>1 DEF Fixed, Leaves, Composition, LeavesBefore
<1>3. Progress'
  BY <1>1, <1>2, LeafFacts DEF QInv, Progress, Evaluating
<1>4. disturbances = 0 => Found'
  BY <1>1 DEF Found, Unresolvable, Source, Fixed
<1> QED BY <1>1, <1>3, <1>4, SettledKept DEF QInv

LEMMA GoToKeepsSettled ==
  ASSUME IInv, QInv, pc \in Evaluating, NEW phase \in Evaluating, GoTo(phase),
         phase = "read_expected" => Source.kind = "file",
         phase \in {"recheck_fixture", "copy_fixture"} =>
           Source.kind = "file" /\ (disturbances = 0 => block[leaf].from \notin OutsidePaths),
         phase \notin {"process", "stat"},
         phase = "read" => pc = "stat" /\ Subject.kind = block[leaf].kind
  PROVE  QInv'
<1>1. /\ Fixed /\ pc' = phase
      /\ UNCHANGED <<fs, leaf, expected, results, abort, disturbances, seen>>
  BY DEF GoTo, Fixed
<1>2. Leaves' = Leaves /\ \A n : LeavesBefore(n)' = LeavesBefore(n)
  BY <1>1 DEF Fixed, Leaves, Composition, LeavesBefore
<1>3. Progress'
  BY <1>1, <1>2 DEF QInv, Progress, Evaluating
<1>4. disturbances = 0 => Found'
  BY <1>1 DEF QInv, Found, Unresolvable, Source, Subject, Wanted, Fixed, Evaluating
<1> QED BY <1>1, <1>3, <1>4, SettledKept DEF QInv

LEMMA ExpectedIsKeepsSettled ==
  ASSUME IInv, QInv, pc \in Evaluating, block[leaf].source \in References,
         Readable(Source), ExpectedIs(Source.bytes),
         (disturbances = 0 /\ block[leaf].source = "fixture") => block[leaf].from \notin OutsidePaths
  PROVE  QInv'
<1>1. /\ Fixed /\ expected' = Source.bytes /\ pc' = ActualPhase(leaf)
      /\ UNCHANGED <<fs, leaf, results, abort, disturbances, seen>>
  BY DEF ExpectedIs, Fixed
<1>2. Leaves' = Leaves /\ \A n : LeavesBefore(n)' = LeavesBefore(n)
  BY <1>1 DEF Fixed, Leaves, Composition, LeavesBefore
<1>3. pc' \in {"process", "stat"} /\ pc' \in Evaluating
  BY <1>1 DEF ActualPhase, Evaluating
<1>4. Progress'
  BY <1>1, <1>2, <1>3 DEF QInv, Progress, Evaluating
<1>5. disturbances = 0 => Unresolvable(leaf, Source) = None
  BY DEF Unresolvable, Readable, References
<1>6. disturbances = 0 => Found'
  BY <1>1, <1>3, <1>5 DEF Found, Unresolvable, Source, Wanted, Fixed, References
<1> QED BY <1>1, <1>4, <1>6, SettledKept DEF QInv

-----------------------------------------------------------------------------
(* Every step preserves the invariant.                                     *)

LEMMA InitSettled == Init => QInv
<1> SUFFICES ASSUME Init PROVE QInv
  OBVIOUS
<1>1. DOMAIN results = {}
  BY DEF Init
<1> QED BY <1>1 DEF Init, QInv, Progress, Found, Evaluating

LEMMA ValidationKeepsSettled ==
  ASSUME IInv, SInv, QInv, Reject \/ Accept
  PROVE  QInv'
<1>1. DOMAIN results = {}
  BY DEF QInv, Progress, Reject, Accept, At
<1>2. CASE Reject
  <2>1. /\ pc' = "aborted" /\ abort' \in {"requires_action", "invalid_path"} /\ results' = results
    BY <1>2 DEF Reject, Abort
  <2>2. Progress' /\ Found'
    BY <2>1 DEF Progress, Found, Evaluating
  <2> QED BY <1>1, <2>1, <2>2 DEF QInv
<1>3. CASE Accept
  <2>1. ContinueWith(Leaves \ DOMAIN results') /\ DOMAIN results' = {} /\ pc # "aborted"
    BY <1>1, <1>3 DEF Accept, EvaluateNext, At
  <2> QED BY <2>1, ContinueKeepsSettled
<1> QED BY <1>2, <1>3

LEMMA ReferenceKeepsSettled ==
  ASSUME IInv, SInv, QInv,
         StatExpected \/ ReadExpected \/ ResolveFixture \/ RecheckFixture \/ CopyFixture
  PROVE  QInv'
<1>1. /\ pc \in Evaluating
      /\ pc \in {"stat_expected", "read_expected", "resolve_fixture", "recheck_fixture", "copy_fixture"}
  BY DEF StatExpected, ReadExpected, ResolveFixture, RecheckFixture, CopyFixture, At, Evaluating
<1>2. Source.kind \in {"absent", "dir", "file"}
  BY <1>1, LeafFacts DEF FileState
<1>3. ASSUME NEW code \in AbortCodes, Abort(code),
             disturbances = 0 => code = Unresolvable(leaf, Source)
      PROVE  QInv'
  <2>1. code # None
    BY NoneAssumption
  <2> QED BY <1>1, <1>3, <2>1, AbortKeepsSettled
<1>4. CASE StatExpected
  <2>1. block[leaf].source = "workspace"
    BY <1>4 DEF StatExpected, At, SInv, Referring
  <2>2. CASE Source.kind = "file"
    <3>1. GoTo("read_expected")
      BY <1>4, <2>2 DEF StatExpected
    <3> QED BY <1>1, <2>2, <3>1, GoToKeepsSettled DEF Evaluating
  <2>3. CASE Source.kind = "absent"
    BY <1>3, <1>4, <2>1, <2>3 DEF StatExpected, Unresolvable, AbortCodes
  <2>4. CASE Source.kind = "dir"
    BY <1>3, <1>4, <2>1, <2>4 DEF StatExpected, Unresolvable, AbortCodes
  <2> QED BY <1>2, <2>2, <2>3, <2>4
<1>5. CASE ReadExpected
  <2>1. block[leaf].source = "workspace" /\ (disturbances = 0 => Source.kind = "file")
    BY <1>5 DEF ReadExpected, At, SInv, Referring, QInv, Found
  <2>2. CASE Readable(Source)
    <3>1. ExpectedIs(Source.bytes)
      BY <1>5, <2>2 DEF ReadExpected
    <3> QED BY <1>1, <2>1, <2>2, <3>1, ExpectedIsKeepsSettled DEF References
  <2>3. CASE ~Readable(Source)
    <3>1. Abort("contents_unreadable")
      BY <1>5, <2>3 DEF ReadExpected
    <3>2. disturbances = 0 => Unresolvable(leaf, Source) = "contents_unreadable"
      BY <2>1, <2>3 DEF Unresolvable, Readable
    <3> QED BY <1>3, <3>1, <3>2 DEF AbortCodes
  <2> QED BY <2>2, <2>3
<1>6. CASE ResolveFixture
  <2>1. block[leaf].source = "fixture"
    BY <1>6 DEF ResolveFixture, At, SInv, Referring
  <2>2. CASE Source.kind = "file" /\ block[leaf].from \notin OutsidePaths
    <3>1. GoTo("recheck_fixture")
      BY <1>6, <2>2 DEF ResolveFixture
    <3> QED BY <1>1, <2>2, <3>1, GoToKeepsSettled DEF Evaluating
  <2>3. CASE ~(Source.kind = "file" /\ block[leaf].from \notin OutsidePaths)
    <3> DEFINE code == IF Source.kind = "absent" THEN "fixture_missing"
                       ELSE IF block[leaf].from \in OutsidePaths THEN "fixture_escapes"
                       ELSE "fixture_not_regular"
    <3>1. Abort(code)
      BY <1>2, <1>6, <2>3 DEF ResolveFixture
    <3>2. code = Unresolvable(leaf, Source) /\ code \in AbortCodes
      BY <1>2, <2>1, <2>3 DEF Unresolvable, AbortCodes
    <3> QED BY <1>3, <3>1, <3>2
  <2> QED BY <2>2, <2>3
<1>7. CASE RecheckFixture
  <2>1. /\ block[leaf].source = "fixture"
        /\ disturbances = 0 => Source.kind = "file" /\ block[leaf].from \notin OutsidePaths
    BY <1>7 DEF RecheckFixture, At, SInv, Referring, QInv, Found
  <2>2. CASE Source.kind = "file"
    <3>1. GoTo("copy_fixture")
      BY <1>7, <2>2 DEF RecheckFixture
    <3> QED BY <1>1, <2>1, <2>2, <3>1, GoToKeepsSettled DEF Evaluating
  <2>3. CASE Source.kind # "file"
    <3>1. Abort("fixture_missing") /\ disturbances # 0
      BY <1>7, <2>1, <2>3 DEF RecheckFixture
    <3> QED BY <1>3, <3>1 DEF AbortCodes
  <2> QED BY <2>2, <2>3
<1>8. CASE CopyFixture
  <2>1. /\ block[leaf].source = "fixture"
        /\ disturbances = 0 => Source.kind = "file" /\ block[leaf].from \notin OutsidePaths
    BY <1>8 DEF CopyFixture, At, SInv, Referring, QInv, Found
  <2>2. CASE Readable(Source)
    <3>1. ExpectedIs(Source.bytes)
      BY <1>8, <2>2 DEF CopyFixture
    <3> QED BY <1>1, <2>1, <2>2, <3>1, ExpectedIsKeepsSettled DEF References
  <2>3. CASE ~Readable(Source)
    <3>1. Abort("fixture_missing")
      BY <1>8, <2>3 DEF CopyFixture
    <3>2. disturbances = 0 => Unresolvable(leaf, Source) = "fixture_missing"
      BY <2>1, <2>3 DEF Unresolvable, Readable
    <3> QED BY <1>3, <3>1, <3>2 DEF AbortCodes
  <2> QED BY <2>2, <2>3
<1> QED BY <1>4, <1>5, <1>6, <1>7, <1>8

LEMMA ProcessKeepsSettled ==
  ASSUME IInv, SInv, QInv, ObserveExit \/ ObserveStream
  PROVE  QInv'
<1>1. pc = "process" /\ pc \in Evaluating
  BY DEF ObserveExit, ObserveStream, At, Evaluating
<1>2. ASSUME NEW observed, NEW comparison, Record(observed, comparison),
             disturbances = 0 => (observed \in Passing <=> Truth(leaf, Subject, Wanted(leaf)))
      PROVE  QInv'
  BY <1>1, <1>2, RecordKeepsSettled
<1>3. ParsedExpectation(block[leaf]) /\ block[leaf] \in Expectation
  BY <1>1, LeafFacts
<1>4. CASE ObserveExit
  <2> DEFINE observed == IF lastAction.exit = block[leaf].code THEN "match" ELSE "mismatch"
  <2>1. Record(observed, None)
    BY <1>4 DEF ObserveExit, Observe
  <2>2. observed \in Passing <=> Truth(leaf, Subject, Wanted(leaf))
    BY <1>4 DEF ObserveExit, Passing, Truth
  <2> QED BY <1>2, <2>1, <2>2
<1>5. CASE ObserveStream
  <2>1. block[leaf].kind \in {"stdout", "stderr"}
    BY <1>5 DEF ObserveStream
  <2>2. Truth(leaf, Subject, Wanted(leaf)) <=> Matches(block[leaf].matcher, Stream, Wanted(leaf))
    BY <2>1 DEF Truth, Stream
  <2>3. disturbances = 0 /\ block[leaf].source # "none" => expected = Wanted(leaf)
    BY <1>1 DEF QInv, Found
  <2>4. CASE block[leaf].matcher = "contains"
    <3>1. Record(IF Occurs(expected, Stream) THEN "found" ELSE "not_found", None)
      BY <1>5, <2>4 DEF ObserveStream, Observe
    <3>2. disturbances = 0 => expected = Wanted(leaf)
      BY <1>3, <2>1, <2>3, <2>4 DEF ParsedExpectation
    <3> QED BY <1>2, <2>2, <2>4, <3>1, <3>2 DEF Matches, Passing
  <2>5. CASE block[leaf].matcher = "empty"
    <3>1. Record(IF Stream = <<>> THEN "empty" ELSE "not_empty", None)
      BY <1>5, <2>5 DEF ObserveStream, Observe
    <3> QED BY <1>2, <2>2, <2>5, <3>1 DEF Matches, Passing
  <2>6. CASE block[leaf].matcher \notin {"contains", "empty"}
    <3>1. block[leaf].matcher \in Equality
      BY <1>3, <2>1, <2>6 DEF ParsedExpectation
    <3>2. expected \in Bytes /\ Stream \in Bytes
      BY <1>1, <2>1, <3>1, ExpectedResolved, ProcessFacts DEF Stream, ActionResult
    <3>3. disturbances = 0 => expected = Wanted(leaf)
      BY <1>3, <2>1, <2>3, <3>1 DEF ParsedExpectation, Equality
    <3> DEFINE c == Compare(Stream)
    <3>4. c.offset = None <=> Stream = expected
      BY <3>2, FirstByteDiffExact DEF Compare, Exact
    <3>5. Record(IF c.offset = None THEN "match" ELSE "mismatch", c)
      BY <1>5, <2>6 DEF ObserveStream, RecordComparison
    <3> HIDE DEF c
    <3>6. disturbances = 0 => ((IF c.offset = None THEN "match" ELSE "mismatch") \in Passing
                                <=> Truth(leaf, Subject, Wanted(leaf)))
      BY <2>2, <2>6, <3>3, <3>4 DEF Matches, Passing
    <3> QED BY <1>2, <3>5, <3>6
  <2> QED BY <2>4, <2>5, <2>6
<1> QED BY <1>4, <1>5

LEMMA StatKeepsSettled ==
  ASSUME IInv, SInv, QInv, StatFile \/ StatDir
  PROVE  QInv'
<1>1. pc = "stat" /\ pc \in Evaluating
  BY DEF StatFile, StatDir, At, Evaluating
<1>2. Subject.kind \in {"absent", "dir", "file"}
  BY <1>1, LeafFacts DEF FileState
<1>3. ASSUME NEW observed, Observe(observed),
             observed \in Passing <=> Truth(leaf, Subject, Wanted(leaf))
      PROVE  QInv'
  BY <1>1, <1>3, RecordKeepsSettled DEF Observe
<1>4. ASSUME GoTo("read"), Subject.kind = block[leaf].kind
      PROVE  QInv'
  BY <1>1, <1>4, GoToKeepsSettled DEF Evaluating
<1>5. CASE StatFile
  BY <1>2, <1>3, <1>4, <1>5 DEF StatFile, Passing, Truth, Readable
<1>6. CASE StatDir
  BY <1>2, <1>3, <1>4, <1>6 DEF StatDir, Passing, Truth
<1> QED BY <1>5, <1>6

LEMMA ReadKeepsSettled ==
  ASSUME IInv, SInv, QInv, ReadFile \/ ReadDir
  PROVE  QInv'
<1>1. pc = "read" /\ pc \in Evaluating
  BY DEF ReadFile, ReadDir, At, Evaluating
<1>2. ASSUME NEW observed, NEW comparison, Record(observed, comparison),
             disturbances = 0 => (observed \in Passing <=> Truth(leaf, Subject, Wanted(leaf)))
      PROVE  QInv'
  BY <1>1, <1>2, RecordKeepsSettled
<1>3. /\ ParsedExpectation(block[leaf]) /\ block[leaf].matcher # "exists"
      /\ Subject \in FileState
      /\ disturbances = 0 => Subject.kind = block[leaf].kind
      /\ disturbances = 0 /\ block[leaf].source # "none" => expected = Wanted(leaf)
  BY <1>1, LeafFacts DEF QInv, Found, SInv, Looked
<1>4. CASE ReadDir
  <2> DEFINE observed == IF Subject.kind # "dir" \/ ~Subject.readable THEN "unreadable"
                         ELSE IF block[leaf].entry \in Subject.entries THEN "found" ELSE "entry_missing"
  <2>1. block[leaf].kind = "dir" /\ block[leaf].matcher = "contains"
    BY <1>3, <1>4 DEF ReadDir, ParsedExpectation
  <2>2. Record(observed, None)
    BY <1>4 DEF ReadDir, Observe
  <2>3. observed \in Passing <=> Truth(leaf, Subject, Wanted(leaf))
    BY <2>1 DEF Passing, Truth
  <2> QED BY <1>2, <2>2, <2>3
<1>5. CASE ReadFile
  <2>1. block[leaf].kind = "file" /\ block[leaf].matcher \in {"contains"} \cup Equality
    BY <1>3, <1>5 DEF ReadFile, ParsedExpectation
  <2>2. disturbances = 0 => expected = Wanted(leaf)
    BY <1>3, <2>1 DEF ParsedExpectation, Equality
  <2>3. Truth(leaf, Subject, Wanted(leaf)) <=>
          /\ Readable(Subject)
          /\ block[leaf].matcher = "contains" => "raw" \notin Range(Subject.bytes)
          /\ Matches(block[leaf].matcher, Subject.bytes, Wanted(leaf))
    BY <1>3, <2>1 DEF Truth
  <2>4. CASE ~Readable(Subject)
    <3>1. Record("unreadable", None)
      BY <1>5, <2>4 DEF ReadFile, Observe
    <3> QED BY <1>2, <2>3, <2>4, <3>1 DEF Passing
  <2>5. CASE Readable(Subject) /\ block[leaf].matcher \in Equality
    <3>1. expected \in Bytes /\ Subject.bytes \in Bytes
      BY <1>1, <1>3, <2>1, <2>5, ExpectedResolved DEF FileState
    <3> DEFINE c == Compare(Subject.bytes)
    <3>2. c.offset = None <=> Subject.bytes = expected
      BY <3>1, FirstByteDiffExact DEF Compare, Exact
    <3>3. Record(IF c.offset = None THEN "match" ELSE "mismatch", c)
      BY <1>5, <2>5 DEF ReadFile, RecordComparison
    <3> HIDE DEF c
    <3>4. disturbances = 0 => ((IF c.offset = None THEN "match" ELSE "mismatch") \in Passing
                                <=> Truth(leaf, Subject, Wanted(leaf)))
      BY <2>2, <2>3, <2>5, <3>2 DEF Matches, Passing, Equality
    <3> QED BY <1>2, <3>3, <3>4
  <2>6. CASE Readable(Subject) /\ block[leaf].matcher = "contains"
    <3> DEFINE observed == IF "raw" \in Range(Subject.bytes) THEN "not_utf8"
                           ELSE IF Occurs(expected, Subject.bytes) THEN "found" ELSE "not_found"
    <3>1. Record(observed, None)
      BY <1>5, <2>6 DEF ReadFile, Observe, Equality
    <3>2. disturbances = 0 => (observed \in Passing <=> Truth(leaf, Subject, Wanted(leaf)))
      BY <2>2, <2>3, <2>6 DEF Matches, Passing
    <3> QED BY <1>2, <3>1, <3>2
  <2> QED BY <2>1, <2>4, <2>5, <2>6
<1> QED BY <1>4, <1>5

LEMMA EnvironmentKeepsSettled ==
  ASSUME IInv, SInv, QInv, Environment
  PROVE  QInv'
<1>1. /\ Fixed /\ disturbances' = disturbances + 1 /\ results' = results /\ leaf' = leaf
      /\ pc \in Evaluating /\ disturbances \in Nat
      /\ \/ pc' = pc /\ abort' = abort
         \/ pc' = "aborted" /\ abort' = "fixture_missing"
  BY FilesAssumption DEF Environment, FixtureCallFails, ChangePath, Fixed, Evaluating, IInv, TypeOK
<1>2. Leaves' = Leaves /\ \A n : LeavesBefore(n)' = LeavesBefore(n)
  BY <1>1 DEF Fixed, Leaves, Composition, LeavesBefore
<1>3. leaf \in Leaves /\ "fixture_missing" # None
  BY <1>1, LeafFacts, NoneAssumption DEF AbortCodes
<1>4. Progress'
  BY <1>1, <1>2, <1>3 DEF QInv, Progress, Evaluating
<1> QED BY <1>1, <1>4 DEF QInv

LEMMA UnchangedKeepsSettled ==
  ASSUME QInv, UNCHANGED vars
  PROVE  QInv'
<1>1. Leaves' = Leaves /\ \A n : LeavesBefore(n)' = LeavesBefore(n)
  BY DEF vars, Leaves, Composition, LeavesBefore
<1>2. Progress' /\ (disturbances = 0 => Found')
  BY <1>1 DEF vars, QInv, Progress, Found, Unresolvable, Source, Subject, Wanted
<1> QED BY <1>2, SettledKept DEF vars, QInv, Fixed

LEMMA VerdictInductive == Spec => [](IInv /\ SInv /\ QInv)
<1>1. IInv /\ SInv /\ QInv /\ [Next]_vars => QInv'
  <2> SUFFICES ASSUME IInv, SInv, QInv, [Next]_vars PROVE QInv'
    OBVIOUS
  <2> QED BY ValidationKeepsSettled, ReferenceKeepsSettled, ProcessKeepsSettled, StatKeepsSettled,
             ReadKeepsSettled, EnvironmentKeepsSettled, UnchangedKeepsSettled
          DEF Next, Evaluate, Over
<1> QED BY <1>1, InitSettled, EvidenceInductive, PTL DEF Spec

-----------------------------------------------------------------------------
(* The verdict of an undisturbed block.                                    *)

TrueLeaves == {n \in Leaves : Truth(n, fs[block[n].path], Wanted(n))}

LEMMA TruthIsBoolean ==
  ASSUME TypeOK, NEW n \in Leaves, NEW s, NEW e
  PROVE  Truth(n, s, e) \in BOOLEAN
<1>1. block[n].kind \in ProcessKinds \cup FileKinds
  BY BlockFacts DEF Leaves, Composition, Expectation
<1>2. \A matcher, bytes : Matches(matcher, bytes, e) \in BOOLEAN
  BY DEF Matches, Occurs
<1>3. CASE block[n].kind = "exit"
  BY <1>3 DEF Truth
<1>4. CASE block[n].kind \in {"stdout", "stderr"}
  BY <1>2, <1>4 DEF Truth
<1>5. CASE block[n].kind = "file"
  BY <1>5 DEF Truth
<1>6. CASE block[n].kind = "dir"
  BY <1>6 DEF Truth
<1> QED BY <1>1, <1>3, <1>4, <1>5, <1>6 DEF ProcessKinds, FileKinds

\* The documented meaning, also a recursion, is the evaluation from the leaves that are true.
LEMMA ShouldHoldIsEvaluation ==
  ASSUME TypeOK, NEW holding, Evaluation(TrueLeaves, holding)
  PROVE  \A n \in DOMAIN block : ShouldHold[n] = (n \in holding)
<1> DEFINE True(n) == Truth(n, fs[block[n].path],
                            IF block[n].source = "text" THEN block[n].text
                            ELSE fs[block[n].from].bytes)
           Node(f, n) ==
             CASE block[n].kind = "not" -> \E m \in Children(n) : ~f[m]
               [] block[n].kind = "all" -> \A m \in Children(n) : f[m]
               [] block[n].kind = "any" -> \E m \in Children(n) : f[m]
               [] OTHER -> True(n)
           Solves(f) == f = [n \in DOMAIN block |-> Node(f, n)]
           g == [n \in DOMAIN block |-> n \in holding]
<1>a. ASSUME NEW n \in Leaves
      PROVE  True(n) \in BOOLEAN /\ (True(n) <=> n \in TrueLeaves)
  BY TruthIsBoolean DEF TrueLeaves, Wanted
<1> HIDE DEF True
<1>0. ASSUME NEW f, NEW n \in DOMAIN block
      PROVE  /\ Node(f, n) \in BOOLEAN
             /\ block[n].kind = "not" => (Node(f, n) <=> \E m \in Children(n) : ~f[m])
             /\ block[n].kind = "all" => (Node(f, n) <=> \A m \in Children(n) : f[m])
             /\ block[n].kind = "any" => (Node(f, n) <=> \E m \in Children(n) : f[m])
             /\ ~Composition(n) => (Node(f, n) <=> n \in TrueLeaves)
  <2>1. CASE block[n].kind = "not"
    BY <2>1, Zenon DEF Composition, Operators
  <2>2. CASE block[n].kind = "all"
    BY <2>2 DEF Composition, Operators
  <2>3. CASE block[n].kind = "any"
    BY <2>3 DEF Composition, Operators
  <2>4. CASE block[n].kind \notin Operators
    <3>1. block[n].kind # "not" /\ block[n].kind # "all" /\ block[n].kind # "any"
      BY <2>4 DEF Operators
    <3>2. Node(f, n) = True(n)
      BY <3>1, Zenon
    <3>3. True(n) \in BOOLEAN /\ (True(n) <=> n \in TrueLeaves)
      BY <1>a, <2>4 DEF Leaves, Composition
    <3> HIDE DEF Node
    <3>4. Node(f, n) \in BOOLEAN
      BY <3>2, <3>3, Zenon
    <3>5. Node(f, n) <=> n \in TrueLeaves
      BY <3>2, <3>3, Zenon
    <3> QED BY <3>1, <3>4, <3>5
  <2> QED BY <2>1, <2>2, <2>3, <2>4 DEF Operators
<1> HIDE DEF Node
<1>1. ASSUME NEW f, NEW T, \A n \in DOMAIN block : f[n] <=> n \in T, NEW n \in DOMAIN block
      PROVE  Node(f, n) <=> NodeHolds(TrueLeaves, T, n)
  <2>1. \A m \in Children(n) : f[m] <=> m \in T
    BY <1>1, ChildrenFollow
  <2> QED BY <1>0, <2>1 DEF NodeHolds, Composition, Operators
<1>2. Solves(g)
  <2>1. \A n \in DOMAIN block : n \in holding <=> NodeHolds(TrueLeaves, holding, n)
    BY BlockFacts DEF Evaluation, EvaluatedFrom
  <2>2. \A n \in DOMAIN block : g[n] <=> n \in holding
    OBVIOUS
  <2>3. \A n \in DOMAIN block : Node(g, n) = (n \in holding)
    BY <1>0, <1>1, <2>1, <2>2
  <2> QED BY <2>3
<1>3. ShouldHold = CHOOSE f : Solves(f)
  BY Zenon DEF ShouldHold, Node, True
<1>4. \E f : Solves(f)
  BY <1>2
<1> HIDE DEF Solves
<1>5. Solves(ShouldHold)
  BY <1>3, <1>4, Zenon
<1> DEFINE f == ShouldHold
           T == {n \in DOMAIN block : f[n]}
<1>6. \A n \in DOMAIN block : f[n] = Node(f, n) /\ f[n] \in BOOLEAN
  BY <1>0, <1>5 DEF Solves
<1>7. \A n \in DOMAIN block : f[n] <=> n \in T
  OBVIOUS
<1>8. \A n \in DOMAIN block : n \in T <=> NodeHolds(TrueLeaves, T, n)
  BY <1>1, <1>6, <1>7
<1>9. Evaluation(TrueLeaves, T)
  BY <1>8 DEF Evaluation, EvaluatedFrom
<1>10. T = holding
  BY <1>9, EvaluationUnique
<1> QED BY <1>6, <1>7, <1>10

\* At the end, the leaves that passed are those that are true.
LEMMA SettledVerdict ==
  ASSUME IInv, QInv, pc = "done", disturbances = 0
  PROVE  \A n \in DOMAIN block : Verdicts[n] = ShouldHold[n]
<1>1. PICK holding : Evaluation(Held(results), holding)
  BY EvaluationExists DEF IInv
<1>2. \A n \in Leaves : n \in Held(results) <=> n \in TrueLeaves
  BY DEF QInv, Progress, Settled, Held, TrueLeaves
<1>3. \A n \in DOMAIN block : NodeHolds(Held(results), holding, n) <=> NodeHolds(TrueLeaves, holding, n)
  BY <1>2 DEF NodeHolds, Leaves
<1>4. Evaluation(TrueLeaves, holding)
  BY <1>1, <1>3 DEF Evaluation, EvaluatedFrom
<1> QED BY <1>1, <1>4, PassedIsEvaluation, ShouldHoldIsEvaluation DEF IInv, Verdicts

\* The first reference that does not resolve is the one the block stopped at.
LEMMA SettledAbort ==
  ASSUME IInv, QInv, pc = "aborted", disturbances = 0, abort \notin {"requires_action", "invalid_path"}
  PROVE  LET broken == {n \in Leaves : Unresolvable(n, fs[block[n].from]) # None}
         IN broken # {} /\ Min(broken) = leaf /\ abort = Unresolvable(leaf, Source)
<1> DEFINE broken == {n \in Leaves : Unresolvable(n, fs[block[n].from]) # None}
<1>1. /\ leaf \in Leaves /\ DOMAIN results = LeavesBefore(leaf) /\ abort # None
      /\ abort = Unresolvable(leaf, Source) /\ \A n \in DOMAIN results : Settled(n)
  BY DEF QInv, Progress, Found
<1>2. leaf \in broken
  BY <1>1 DEF Source
<1>3. Leaves \in SUBSET Nat
  BY BlockFacts DEF IInv, Leaves
<1>4. ASSUME NEW n \in broken PROVE leaf <= n
  <2>1. n \notin LeavesBefore(leaf)
    BY <1>1 DEF Settled
  <2> QED BY <1>1, <1>3, <2>1 DEF LeavesBefore
<1>5. Min(broken) \in broken /\ \A n \in broken : Min(broken) <= n
  <2>1. broken \in SUBSET Nat
    BY <1>3
  <2> HIDE DEF broken
  <2> QED BY <1>2, <2>1, MinIsLeast
<1>6. Min(broken) \in Nat /\ leaf \in Nat
  BY <1>1, <1>3, <1>5
<1>7. Min(broken) = leaf
  <2> HIDE DEF broken
  <2> QED BY <1>2, <1>4, <1>5, <1>6
<1> QED BY <1>1, <1>2, <1>7

(***************************************************************************)
(* For blocks of any size and depth over any files: when nothing           *)
(* interferes, the calls of the evaluation add up to the documented        *)
(* meaning.  A block is a script error exactly when a reference does not   *)
(* resolve, with the code of the first one; otherwise it fails exactly     *)
(* when an expectation of it does not hold (execution.rs, `passed`).       *)
(***************************************************************************)
THEOREM VerdictTheorem == Spec => []QuietVerdict
<1>1. IInv /\ QInv => QuietVerdict
  <2> SUFFICES ASSUME IInv, QInv, disturbances = 0, pc \in {"done", "aborted"},
                      abort \notin {"requires_action", "invalid_path"}
               PROVE  LET broken == {n \in Leaves : Unresolvable(n, fs[block[n].from]) # None} IN
                      IF broken # {} THEN abort = Unresolvable(Min(broken), fs[block[Min(broken)].from])
                      ELSE abort = None /\ (BlockFails <=> \E n \in TopLevel : ~ShouldHold[n])
    BY DEF QuietVerdict
  <2>1. CASE pc = "aborted"
    BY <2>1, SettledAbort DEF Source
  <2>2. CASE pc = "done"
    <3>1. abort = None /\ \A n \in Leaves : Unresolvable(n, fs[block[n].from]) = None
      BY <2>2 DEF QInv, Progress, Settled
    <3>2. BlockFails <=> \E n \in TopLevel : ~ShouldHold[n]
      BY <2>2, SettledVerdict DEF BlockFails, TopLevel, Children
    <3> QED BY <3>1, <3>2
  <2> QED BY <2>1, <2>2
<1> QED BY <1>1, VerdictInductive, PTL

-----------------------------------------------------------------------------
(* The diagnostics of a block that was evaluated.                          *)

\* An expectation of the block registers a diagnostic exactly when it failed.
LEMMA RegistersFailure ==
  ASSUME IInv, QInv, pc = "done", NEW n \in TopLevel
  PROVE  Registers(n) <=> ~Verdicts[n]
<1>1. n \in DOMAIN block
  BY DEF TopLevel, Children
<1>2. CASE Composition(n)
  BY <1>2 DEF Registers
<1>3. CASE ~Composition(n)
  <2>1. n \in DOMAIN results
    BY <1>1, <1>3 DEF QInv, Progress, Leaves
  <2>2. results[n].observed \in Observations
    BY <2>1 DEF IInv, TypeOK, Result
  <2>3. FailureReason(n) # None <=> results[n].observed \notin Passing
    BY <2>2, NoneAssumption DEF FailureReason, Passing
  <2>4. PICK holding : Evaluation(Held(results), holding)
    BY EvaluationExists DEF IInv
  <2>5. Verdicts[n] = (n \in holding)
    BY <1>1, <2>4, PassedIsEvaluation DEF IInv, Verdicts
  <2>6. n \in holding <=> n \in Held(results)
    BY <1>1, <1>3, <2>4, BlockFacts DEF IInv, Evaluation, EvaluatedFrom, NodeHolds, Composition, Operators
  <2>7. n \in Held(results) <=> results[n].observed \in Passing
    BY <2>1 DEF Held
  <2> QED BY <1>3, <2>3, <2>5, <2>6, <2>7 DEF Registers
<1> QED BY <1>2, <1>3

(***************************************************************************)
(* For blocks of any size: a failed expectation of the block registers     *)
(* exactly one diagnostic, nothing else registers any, and so a failed     *)
(* block always surfaces one (failure_diagnostic_code, expectation_json).  *)
(***************************************************************************)
THEOREM DiagnosticTheorem == Spec => []DiagnosticPerFailure
<1>1. IInv /\ QInv => DiagnosticPerFailure
  <2> SUFFICES ASSUME IInv, QInv, pc = "done"
               PROVE  /\ BlockFails <=> Diagnostics # {}
                      /\ \A d \in Diagnostics : d.expectation \in TopLevel /\ ~Verdicts[d.expectation]
                      /\ Cardinality(Diagnostics) = Cardinality({n \in TopLevel : ~Verdicts[n]})
    BY DEF DiagnosticPerFailure
  <2> DEFINE Failed == {n \in TopLevel : ~Verdicts[n]}
             Of(n) == [expectation |-> n, reason |-> IF Composition(n) THEN None ELSE FailureReason(n)]
             diagnostic == [n \in Failed |-> Of(n)]
  <2>1. Diagnostics = {Of(n) : n \in Failed}
    BY RegistersFailure DEF Diagnostics, Attributing
  <2>2. BlockFails <=> Diagnostics # {}
    BY <2>1 DEF BlockFails
  <2>3. \A d \in Diagnostics : d.expectation \in TopLevel /\ ~Verdicts[d.expectation]
    BY <2>1
  <2>4. IsFiniteSet(Failed)
    <3>1. IsFiniteSet(1 .. Len(block)) /\ Failed \subseteq 1 .. Len(block)
      BY BlockFacts, FS_Interval DEF IInv, TopLevel, Children
    <3> QED BY <3>1, FS_Subset
  <2>5. diagnostic \in Bijection(Failed, Diagnostics)
    <3>1. diagnostic \in [Failed -> Diagnostics]
      BY <2>1
    <3>2. \A m, n \in Failed : diagnostic[m] = diagnostic[n] => m = n
      <4>1. \A n \in Failed : diagnostic[n].expectation = n
        OBVIOUS
      <4> QED BY <4>1
    <3>3. \A d \in Diagnostics : \E n \in Failed : diagnostic[n] = d
      BY <2>1
    <3> HIDE DEF diagnostic, Failed
    <3> QED BY <3>1, <3>2, <3>3, Fun_IsBij
  <2>6. Cardinality(Diagnostics) = Cardinality(Failed)
    <3> HIDE DEF diagnostic, Failed
    <3>1. ExistsBijection(Failed, Diagnostics)
      BY <2>5 DEF ExistsBijection
    <3> QED BY <2>4, <3>1, FS_Bijection
  <2> QED BY <2>2, <2>3, <2>6
<1> QED BY <1>1, VerdictInductive, PTL
=============================================================================
