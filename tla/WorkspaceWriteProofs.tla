------------------------ MODULE WorkspaceWriteProofs ------------------------
(***************************************************************************)
(* Theorems about Workspace::write_file for every depth of the path and    *)
(* every number of writes and disturbances.                                *)
(***************************************************************************)
EXTENDS WorkspaceWrite, TLAPS

\* The temporary file of the current write, at one stage of its making.
Drafted(content, mode) ==
  temp = [by |-> Len(outcomes) + 1, content |-> content, mode |-> mode]

Pending ==
  /\ pc # "idle" => Len(outcomes) < MaxWrites
  /\ pc = "write" => Drafted("empty", "private")
  /\ pc = "chmod" => Drafted("full", "private")
  /\ pc = "persist" => Drafted("full", "final")
  /\ linked => pc \in {"write", "chmod", "persist"}

Plain(ps) == \A j \in Components : ps[j] \in {"absent", "dir"}

\* What the write has found out so far, as long as nothing interferes.
Undisturbed ==
  quiet =>
    /\ pc # "idle" => found.target = target
    /\ pc = "check" =>
         /\ parents = found.parents
         /\ \A j \in Components : j < component => parents[j] \in {"absent", "dir"}
    /\ pc = "mkdir" =>
         /\ Plain(found.parents) /\ Plain(parents)
         /\ \A j \in Components : j < component => parents[j] = "dir"
    /\ pc \in {"tempfile", "write", "chmod", "persist"} =>
         /\ Plain(found.parents)
         /\ \A j \in Components : parents[j] = "dir"
    /\ pc \in {"write", "chmod", "persist"} => linked
    /\ Ended => outcomes[Len(outcomes)] = Answer(found)

TInv == TypeOK /\ Pending
IInv == TInv /\ Undisturbed

-----------------------------------------------------------------------------
LEMMA OutcomeAdded ==
  ASSUME TypeOK, NEW e \in Outcomes, Len(outcomes) < MaxWrites
  PROVE  /\ Append(outcomes, e) \in Seq(Outcomes)
         /\ Len(Append(outcomes, e)) <= MaxWrites
         /\ Append(outcomes, e) # <<>>
         /\ Append(outcomes, e)[Len(Append(outcomes, e))] = e
BY BoundsAssumption DEF TypeOK

LEMMA OutcomeCases ==
  /\ \A e \in {"parent_not_a_directory", "target_already_exists", "io", "set_mode"} : e \in Outcomes
  /\ "created" \in Outcomes
BY DEF Outcomes, Promise!Refusals

\* A write that is under way has one of the numbers there are.
LEMMA CurrentInRange ==
  ASSUME TInv, pc # "idle"
  PROVE  Current \in 1 .. MaxWrites
<1>1. Len(outcomes) \in Nat /\ Len(outcomes) < MaxWrites
  BY DEF TInv, TypeOK, Pending
<1>. QED BY <1>1, BoundsAssumption DEF Current

\* Returning with an error keeps the writer well typed.
LEMMA ReturnKeepsType ==
  ASSUME TInv, NEW e \in Outcomes, pc # "idle", Return(e), quiet' \in BOOLEAN
  PROVE  TInv'
<1>1. /\ outcomes' \in Seq(Outcomes)
      /\ Len(outcomes') <= MaxWrites
  BY OutcomeAdded DEF TInv, Pending, Return
<1>2. /\ pc' = "idle" /\ component' = 1 /\ temp' = None /\ linked' = FALSE
      /\ UNCHANGED <<parents, target, disturbances, found>>
  BY DEF Return, Goto
<1>3. TypeOK'
  <2>1. TypeOK
    BY DEF TInv
  <2>2. (component \in 1 .. Depth + 1)'
    BY <1>2, BoundsAssumption
  <2>3. residue' \subseteq 1 .. MaxWrites /\ hindered' \subseteq 1 .. MaxWrites
    BY <2>1, CurrentInRange DEF TInv, TypeOK, Return, LeaveTemp, Hinder
  <2>. QED BY <1>1, <1>2, <2>1, <2>2, <2>3 DEF TypeOK
<1>4. Pending'
  BY <1>2 DEF Pending
<1>. QED BY <1>3, <1>4 DEF TInv

LEMMA DisturbKeepsType ==
  ASSUME TInv, Disturb, parents' \in [Components -> Kinds], target' \in Targets,
         linked' \in BOOLEAN, linked' => linked,
         residue' \subseteq 1 .. MaxWrites, hindered' \subseteq 1 .. MaxWrites
  PROVE  TInv'
<1>1. disturbances' \in 0 .. MaxDisturbances
  BY BoundsAssumption DEF Disturb, TInv, TypeOK
<1>2. quiet' \in BOOLEAN
  BY DEF Disturb
<1>3. UNCHANGED <<pc, component, temp, outcomes, found>>
  BY DEF Disturb
<1>4. TypeOK'
  BY <1>1, <1>2, <1>3 DEF TInv, TypeOK
<1>5. Pending'
  BY <1>3 DEF TInv, Pending, Drafted
<1>. QED BY <1>4, <1>5 DEF TInv

(***************************************************************************)
(* Every state of the writer is well typed, and between the creation of    *)
(* the temporary file and its publication it is what the stage calls for.  *)
(***************************************************************************)
THEOREM DraftInvariant == Spec => []TInv
<1> USE BoundsAssumption
<1>1. Init => TInv
  <2> SUFFICES ASSUME Init PROVE TInv
    OBVIOUS
  <2>1. parents \in [Components -> Kinds] /\ target \in Targets
    BY DEF Init, Kinds, Targets
  <2>2. found \in [parents : [Components -> Kinds], target : Targets]
    BY <2>1 DEF Init
  <2>3. /\ pc = "idle" /\ component = 1 /\ temp = None /\ linked = FALSE
        /\ outcomes = <<>> /\ disturbances = 0 /\ quiet = TRUE
        /\ residue = {} /\ hindered = {}
    BY DEF Init
  <2>4. component \in 1 .. Depth + 1 /\ disturbances \in 0 .. MaxDisturbances
    BY <2>3
  <2>5. outcomes \in Seq(Outcomes) /\ Len(outcomes) <= MaxWrites
    BY <2>3
  <2>6. TypeOK
    BY <2>1, <2>2, <2>3, <2>4, <2>5 DEF TypeOK
  <2>. QED BY <2>3, <2>6 DEF TInv, Pending
<1>2. TInv /\ [Next]_vars => TInv'
  <2> SUFFICES ASSUME TInv, [Next]_vars PROVE TInv'
    OBVIOUS
  <2>a. TypeOK /\ Pending
    BY DEF TInv
  <2>b. Len(outcomes) \in Nat
    BY <2>a DEF TypeOK
  <2>1. CASE BeginWrite
    BY <2>a, <2>1 DEF BeginWrite, Goto, TInv, TypeOK, Pending
  <2>2. CASE CheckParent
    <3>1. CASE Blocked(parents[component])
      BY <2>a, <2>2, <3>1, ReturnKeepsType, OutcomeCases DEF CheckParent, TypeOK
    <3>2. CASE ~Blocked(parents[component])
      <4>1. /\ component' = component + 1
            /\ UNCHANGED <<parents, target, pc, temp, linked, residue, outcomes, disturbances,
                            found, quiet, hindered>>
        BY <2>2, <3>2 DEF CheckParent
      <4>2. (component \in 1 .. Depth + 1)'
        BY <2>2, <4>1 DEF CheckParent, Components
      <4>3. TypeOK'
        BY <2>a, <4>1, <4>2 DEF TypeOK
      <4>4. Pending'
        BY <2>a, <4>1 DEF Pending, Drafted
      <4>. QED BY <4>3, <4>4 DEF TInv
    <3>. QED BY <3>1, <3>2
  <2>3. CASE ParentsChecked
    BY <2>a, <2>3 DEF ParentsChecked, Goto, TInv, TypeOK, Pending
  <2>4. CASE MakeParent
    <3>1. CASE Reaches(component) /\ parents[component] # "file"
      <4>1. parents' \in [Components -> Kinds]
        BY <2>a, <2>4, <3>1 DEF MakeParent, TypeOK, Kinds
      <4>2. /\ component' = component + 1
            /\ UNCHANGED <<target, pc, temp, linked, residue, outcomes, disturbances, found,
                            quiet, hindered>>
        BY <2>4, <3>1 DEF MakeParent
      <4>3. (component \in 1 .. Depth + 1)'
        BY <2>4, <4>2 DEF MakeParent, Components
      <4>4. TypeOK'
        BY <2>a, <4>1, <4>2, <4>3 DEF TypeOK
      <4>5. Pending'
        BY <2>a, <4>2 DEF Pending, Drafted
      <4>. QED BY <4>4, <4>5 DEF TInv
    <3>2. CASE ~(Reaches(component) /\ parents[component] # "file")
      BY <2>a, <2>4, <3>2, ReturnKeepsType, OutcomeCases DEF MakeParent, TypeOK
    <3>. QED BY <3>1, <3>2
  <2>5. CASE ParentsMade
    BY <2>a, <2>5 DEF ParentsMade, Goto, TInv, TypeOK, Pending
  <2>6. CASE CreateTemp
    <3>1. CASE Reaches(Depth + 1)
      <4>1. temp' \in Unpublished
        BY <2>a, <2>b, <2>6, <3>1 DEF CreateTemp, Unpublished, Pending
      <4>2. /\ pc = "tempfile" /\ pc' = "write" /\ component' = 1 /\ linked' = TRUE
            /\ temp' = [by |-> Len(outcomes) + 1, content |-> "empty", mode |-> "private"]
            /\ UNCHANGED <<parents, target, residue, outcomes, disturbances, found, quiet,
                            hindered>>
        BY <2>6, <3>1 DEF CreateTemp, Goto
      <4>3. (component \in 1 .. Depth + 1)'
        BY <4>2
      <4>4. TypeOK'
        BY <2>a, <4>1, <4>2, <4>3 DEF TypeOK
      <4>5. Pending'
        BY <2>a, <4>2 DEF Pending, Drafted
      <4>. QED BY <4>4, <4>5 DEF TInv
    <3>2. CASE ~Reaches(Depth + 1)
      BY <2>a, <2>6, <3>2, ReturnKeepsType, OutcomeCases DEF CreateTemp, TypeOK
    <3>. QED BY <3>1, <3>2
  <2>7. CASE WriteContent
    <3>1. temp' = [by |-> Len(outcomes) + 1, content |-> "full", mode |-> "private"]
      BY <2>a, <2>7 DEF WriteContent, Pending, Drafted
    <3>2. Len(outcomes) + 1 \in 1 .. MaxWrites
      BY <2>a, <2>b, <2>7 DEF WriteContent, Pending
    <3>3. temp' \in Unpublished
      BY <3>1, <3>2 DEF Unpublished
    <3>. QED
      BY <2>a, <2>7, <3>1, <3>3 DEF WriteContent, Goto, TInv, TypeOK, Pending, Drafted
  <2>8. CASE ApplyMode
    <3>1. temp' = [by |-> Len(outcomes) + 1, content |-> "full", mode |-> "final"]
      BY <2>a, <2>8 DEF ApplyMode, Pending, Drafted
    <3>2. Len(outcomes) + 1 \in 1 .. MaxWrites
      BY <2>a, <2>b, <2>8 DEF ApplyMode, Pending
    <3>3. temp' \in Unpublished
      BY <3>1, <3>2 DEF Unpublished
    <3>. QED
      BY <2>a, <2>8, <3>1, <3>3 DEF ApplyMode, Goto, TInv, TypeOK, Pending, Drafted
  <2>9. CASE Persist
    <3>1. CASE ~linked
      BY <2>a, <2>9, <3>1, ReturnKeepsType, OutcomeCases DEF Persist, TypeOK
    <3>2. CASE linked /\ target # None
      BY <2>a, <2>9, <3>2, ReturnKeepsType, OutcomeCases DEF Persist, TypeOK
    <3>3. CASE linked /\ target = None
      <4>1. target' \in Targets
        <5>1. Len(outcomes) + 1 \in 1 .. MaxWrites
          BY <2>a, <2>b, <2>9 DEF Persist, Pending
        <5>2. target' = Promise!Complete(Len(outcomes) + 1)
          BY <2>a, <2>9, <3>3 DEF Persist, Pending, Drafted, Promise!Complete
        <5>. QED BY <5>1, <5>2 DEF Targets
      <4>2. outcomes' \in Seq(Outcomes) /\ Len(outcomes') <= MaxWrites
        BY <2>a, <2>9, <3>3, OutcomeAdded, OutcomeCases DEF Persist, Pending
      <4>3. /\ pc' = "idle" /\ component' = 1 /\ temp' = None /\ linked' = FALSE
            /\ UNCHANGED <<parents, residue, disturbances, found, quiet, hindered>>
        BY <2>9, <3>3 DEF Persist, Goto
      <4>4. (component \in 1 .. Depth + 1)'
        BY <4>3
      <4>5. TypeOK'
        BY <2>a, <4>1, <4>2, <4>3, <4>4 DEF TypeOK
      <4>. QED
        BY <4>3, <4>5 DEF TInv, Pending
    <3>. QED BY <3>1, <3>2, <3>3
  <2>10. CASE CallFails
    <3>1. PICK e \in {"io", "set_mode"} : pc # "idle" /\ Return(e) /\ quiet' = FALSE
      BY <2>10 DEF CallFails, Fails
    <3>. QED BY <3>1, ReturnKeepsType, OutcomeCases
  <2>11. ASSUME NEW k \in Components, NEW kind \in Kinds, ReplaceParent(k, kind)
         PROVE  TInv'
    <3>1. parents' \in [Components -> Kinds]
      BY <2>a, <2>11 DEF ReplaceParent, TypeOK, Kinds
    <3>2. target' \in Targets /\ linked' \in BOOLEAN
      BY <2>11 DEF ReplaceParent, Targets
    <3>4. linked' => linked
      BY <2>11 DEF ReplaceParent
    <3>3. residue' \subseteq 1 .. MaxWrites /\ hindered' \subseteq 1 .. MaxWrites
      BY <2>a, <2>11, CurrentInRange DEF ReplaceParent, TypeOK, Pending, LeaveTemp, Hinder
    <3>. QED
      BY <2>a, <2>11, <3>1, <3>2, <3>3, <3>4, DisturbKeepsType DEF ReplaceParent
  <2>12. ASSUME NEW what \in {None, Foreign}, ReplaceTarget(what)
         PROVE  TInv'
    <3>1. /\ target' \in Targets
          /\ UNCHANGED <<parents, linked, residue, hindered>>
      BY <2>12 DEF ReplaceTarget, Targets
    <3>. QED
      BY <2>a, <2>12, <3>1, DisturbKeepsType DEF ReplaceTarget, TypeOK
  <2>13. CASE Over
    BY <2>a, <2>13 DEF Over, vars, TInv, TypeOK, Pending, Drafted
  <2>14. CASE UNCHANGED vars
    BY <2>a, <2>14 DEF vars, TInv, TypeOK, Pending, Drafted
  <2>. QED
    BY <2>1, <2>2, <2>3, <2>4, <2>5, <2>6, <2>7, <2>8, <2>9, <2>10, <2>11, <2>12, <2>13, <2>14
    DEF Next, WriteFile, Environment
<1>. QED BY <1>1, <1>2, PTL DEF Spec

THEOREM TypeCorrect == Spec => []TypeOK
<1>1. TInv => TypeOK
  BY DEF TInv
<1>. QED BY <1>1, DraftInvariant, PTL

\* A file that stays behind while its write is still under way is no longer at its path, and
\* the write comes to no later attempt at making one.
Left ==
  \A n \in residue :
    /\ n <= Current
    /\ n = Current => ~linked /\ pc \in {"write", "chmod", "persist"}

LEMMA ReturnLeaves ==
  ASSUME TInv, Left, NoResidue, pc # "idle", NEW e, e # "created", Return(e)
  PROVE  Left' /\ NoResidue'
<1> DEFINE n == Len(outcomes)
<1>1. outcomes \in Seq(Outcomes) /\ n \in Nat
  BY DEF TInv, TypeOK
<1>2. /\ outcomes' = Append(outcomes, e) /\ Len(outcomes') = n + 1
      /\ outcomes'[n + 1] = e /\ DOMAIN outcomes' = 1 .. n + 1
      /\ \A k \in 1 .. n : outcomes'[k] = outcomes[k]
  BY <1>1 DEF Return
<1>3. \A k \in residue' : k \in hindered'
  BY DEF Return, LeaveTemp, Hinder, NoResidue
<1>4. ASSUME NEW k \in residue'
      PROVE  k <= n + 1 /\ (k \in residue \/ k = n + 1)
  BY <1>1, <1>4 DEF Return, LeaveTemp, Left, Current
<1>5. Left'
  <2>1. residue' \subseteq 1 .. MaxWrites
    BY CurrentInRange DEF TInv, TypeOK, Return, LeaveTemp
  <2>. QED BY <1>1, <1>2, <1>4, <2>1, BoundsAssumption DEF Left, Current
<1>6. ASSUME NEW k \in residue', k \in DOMAIN outcomes'
      PROVE  outcomes'[k] # "created"
  <2>1. CASE k = n + 1
    BY <1>2, <2>1
  <2>2. CASE k # n + 1
    <3>1. k \in residue /\ k \in 1 .. n
      BY <1>1, <1>2, <1>4, <1>6, <2>2
    <3>. QED BY <1>1, <1>2, <3>1 DEF NoResidue
  <2>. QED BY <2>1, <2>2
<1>. QED BY <1>3, <1>5, <1>6 DEF NoResidue

(***************************************************************************)
(* No error path of write_file_applying forgets its temporary file, and    *)
(* none is left beside a published one: a file that stays behind is that   *)
(* of a failed write whose directory was replaced meanwhile, or whose      *)
(* removal failed.                                                         *)
(***************************************************************************)
THEOREM NoResidueTheorem == Spec => []NoResidue
<1> USE BoundsAssumption
<1>1. Init => Left /\ NoResidue
  BY DEF Init, Left, NoResidue
<1>2. TInv /\ Left /\ NoResidue /\ [Next]_vars => Left' /\ NoResidue'
  <2> SUFFICES ASSUME TInv, Left, NoResidue, [Next]_vars PROVE Left' /\ NoResidue'
    OBVIOUS
  <2>a. outcomes \in Seq(Outcomes) /\ Len(outcomes) \in Nat /\ residue \subseteq 1 .. MaxWrites
    BY DEF TInv, TypeOK
  <2>b. linked => pc \in {"write", "chmod", "persist"}
    BY DEF TInv, Pending
  <2>1. CASE BeginWrite
    BY <2>1 DEF BeginWrite, Goto, Left, NoResidue, Current
  <2>2. CASE CheckParent
    <3>1. CASE Blocked(parents[component])
      BY <2>2, <3>1, ReturnLeaves DEF CheckParent
    <3>2. CASE ~Blocked(parents[component])
      BY <2>2, <3>2 DEF CheckParent, Left, NoResidue, Current
    <3>. QED BY <3>1, <3>2
  <2>3. CASE ParentsChecked \/ ParentsMade
    BY <2>3 DEF ParentsChecked, ParentsMade, Goto, Left, NoResidue, Current
  <2>4. CASE MakeParent
    <3>1. CASE Reaches(component) /\ parents[component] # "file"
      BY <2>4, <3>1 DEF MakeParent, Left, NoResidue, Current
    <3>2. CASE ~(Reaches(component) /\ parents[component] # "file")
      BY <2>4, <3>2, ReturnLeaves DEF MakeParent
    <3>. QED BY <3>1, <3>2
  <2>5. CASE CreateTemp
    <3>1. CASE Reaches(Depth + 1)
      BY <2>5, <3>1 DEF CreateTemp, Goto, Left, NoResidue, Current
    <3>2. CASE ~Reaches(Depth + 1)
      BY <2>5, <3>2, ReturnLeaves DEF CreateTemp
    <3>. QED BY <3>1, <3>2
  <2>6. CASE WriteContent \/ ApplyMode
    BY <2>6 DEF WriteContent, ApplyMode, Goto, Left, NoResidue, Current
  <2>7. CASE Persist
    <3>1. CASE ~linked \/ target # None
      BY <2>7, <3>1, ReturnLeaves DEF Persist
    <3>2. CASE linked /\ target = None
      <4>1. /\ outcomes' = Append(outcomes, "created") /\ residue' = residue /\ hindered' = hindered
        BY <2>7, <3>2 DEF Persist
      <4>2. /\ Len(outcomes') = Len(outcomes) + 1 /\ DOMAIN outcomes' = 1 .. Len(outcomes) + 1
            /\ \A k \in 1 .. Len(outcomes) : outcomes'[k] = outcomes[k]
        BY <2>a, <4>1
      <4>3. \A k \in residue : k \in 1 .. Len(outcomes)
        BY <2>a, <3>2 DEF Left, Current
      <4>. QED BY <2>a, <4>1, <4>2, <4>3 DEF Left, NoResidue, Current
    <3>. QED BY <3>1, <3>2
  <2>8. CASE CallFails
    <3>1. PICK e \in {"io", "set_mode"} : pc # "idle" /\ Return(e)
      BY <2>8 DEF CallFails, Fails
    <3>. QED BY <3>1, ReturnLeaves
  <2>9. ASSUME NEW k \in Components, NEW kind \in Kinds, ReplaceParent(k, kind)
        PROVE  Left' /\ NoResidue'
    <3>1. linked' = FALSE /\ pc' = pc /\ outcomes' = outcomes
      BY <2>9 DEF ReplaceParent, Disturb
    <3>2. CASE linked
      <4>1. /\ hindered' = hindered \cup {Current}
            /\ residue' = residue \/ residue' = residue \cup {Current}
        BY <2>9, <3>2 DEF ReplaceParent, LeaveTemp, Hinder
      <4>2. Current \notin DOMAIN outcomes /\ Current \in Nat
        BY <2>a DEF Current
      <4>3. Left'
        <5>1. Current' = Current /\ pc' \in {"write", "chmod", "persist"} /\ linked' = FALSE
          BY <2>b, <3>1, <3>2 DEF Current
        <5>2. \A n \in residue : n <= Current
          BY DEF Left
        <5>3. \A n \in residue' : n <= Current
          BY <4>1, <4>2, <5>2
        <5>. QED BY <5>1, <5>3 DEF Left
      <4>4. NoResidue'
        BY <3>1, <4>1, <4>2 DEF NoResidue
      <4>. QED BY <4>3, <4>4
    <3>3. CASE ~linked
      <4>1. residue' = residue /\ hindered' = hindered
        BY <2>9, <3>3 DEF ReplaceParent
      <4>. QED BY <3>1, <4>1 DEF Left, NoResidue, Current
    <3>. QED BY <3>2, <3>3
  <2>10. CASE \E what \in {None, Foreign} : ReplaceTarget(what)
    BY <2>10 DEF ReplaceTarget, Disturb, Left, NoResidue, Current
  <2>11. CASE Over \/ UNCHANGED vars
    BY <2>11 DEF Over, vars, Left, NoResidue, Current
  <2>. QED
    BY <2>1, <2>2, <2>3, <2>4, <2>5, <2>6, <2>7, <2>8, <2>9, <2>10, <2>11
    DEF Next, WriteFile, Environment
<1>. QED BY <1>1, <1>2, DraftInvariant, PTL DEF Spec

-----------------------------------------------------------------------------
(***************************************************************************)
(* write_file keeps its promise: under any interference the target changes *)
(* only by the complete file appearing where nothing was, or by another    *)
(* process (no-clobber publication, doc comment of write_file).            *)
(***************************************************************************)
THEOREM Refinement == Spec => KeepsPromise
<1> DEFINE Step == [Promise!Next]_<<target, outcomes>>
<1>1. Init => Promise!Init
  BY DEF Init, Promise!Init
<1>2. TInv /\ [Next]_vars => Step
  <2> SUFFICES ASSUME TInv, [Next]_vars PROVE Step
    OBVIOUS
  <2>a. pc # "idle" => Promise!Writing
    BY DEF TInv, Pending, Promise!Writing
  <2>b. ASSUME NEW e \in Promise!Refusals, pc # "idle", Return(e),
               e = "target_already_exists" => target # None
        PROVE  Step
    BY <2>a, <2>b DEF Return, Promise!Next, Promise!Refuse
  <2>1. CASE BeginWrite \/ ParentsChecked \/ ParentsMade \/ WriteContent \/ ApplyMode
    BY <2>1 DEF BeginWrite, ParentsChecked, ParentsMade, WriteContent, ApplyMode
  <2>2. CASE CheckParent
    BY <2>2, <2>b DEF CheckParent, Promise!Refusals
  <2>3. CASE MakeParent
    BY <2>3, <2>b DEF MakeParent, Promise!Refusals
  <2>4. CASE CreateTemp
    BY <2>4, <2>b DEF CreateTemp, Promise!Refusals
  <2>5. CASE Persist
    <3>1. CASE ~linked \/ target # None
      BY <2>5, <3>1, <2>b DEF Persist, Promise!Refusals
    <3>2. CASE linked /\ target = None
      <4>1. target' = Promise!Complete(Len(outcomes) + 1)
        BY <2>5, <3>2 DEF Persist, TInv, Pending, Drafted, Promise!Complete
      <4>2. Promise!Create
        BY <2>5, <2>a, <3>2, <4>1 DEF Persist, Promise!Create
      <4>. QED BY <4>2 DEF Promise!Next
    <3>. QED BY <3>1, <3>2
  <2>6. CASE CallFails
    BY <2>6, <2>b DEF CallFails, Fails, Promise!Refusals
  <2>7. CASE Environment
    BY <2>7 DEF Environment, ReplaceParent, ReplaceTarget, Disturb, Foreign,
         Promise!Next, Promise!Disturb
  <2>8. CASE Over \/ UNCHANGED vars
    BY <2>8 DEF Over, vars
  <2>. QED
    BY <2>1, <2>2, <2>3, <2>4, <2>5, <2>6, <2>7, <2>8 DEF Next, WriteFile
<1>. QED BY <1>1, <1>2, DraftInvariant, PTL DEF Spec, KeepsPromise, Promise!Spec

-----------------------------------------------------------------------------
(***************************************************************************)
(* Without interference, what a write has found out up to now stays true   *)
(* until it answers.                                                       *)
(***************************************************************************)
THEOREM QuietInvariant == Spec => []IInv
<1> USE BoundsAssumption
<1>1. Init /\ TInv => Undisturbed
  BY DEF Init, Undisturbed, Ended
<1>2. TInv /\ TInv' /\ Undisturbed /\ [Next]_vars => Undisturbed'
  <2> SUFFICES ASSUME TInv, TInv', Undisturbed, [Next]_vars, quiet' PROVE Undisturbed'
    BY DEF Undisturbed
  <2>a. TypeOK /\ Pending /\ quiet' = TRUE
    BY DEF TInv, TypeOK
  <2>b. ASSUME NEW e \in Outcomes, pc # "idle", Return(e), e = Answer(found)
        PROVE  Undisturbed'
    <3>1. outcomes' # <<>> /\ outcomes'[Len(outcomes')] = e
      BY <2>a, <2>b, OutcomeAdded DEF Return, Pending
    <3>2. pc' = "idle" /\ found' = found
      BY <2>b DEF Return, Goto
    <3>3. Answer(found') = e
      BY <2>b, <3>2
    <3>. QED BY <3>1, <3>2, <3>3 DEF Undisturbed
  <2>1. CASE BeginWrite
    BY <2>a, <2>1 DEF BeginWrite, Goto, Undisturbed, Ended, Components
  <2>2. CASE CheckParent
    <3>0. quiet /\ pc = "check" /\ component \in Components
      BY <2>2 DEF CheckParent
    <3>1. CASE Blocked(parents[component])
      <4>1. found.parents[component] \in {"file", "symlink"}
        BY <3>0, <3>1 DEF Blocked, Undisturbed
      <4>. QED
        BY <2>2, <3>0, <3>1, <4>1, <2>b, OutcomeCases DEF CheckParent, Answer
    <3>2. CASE ~Blocked(parents[component])
      <4>1. parents[component] \in {"absent", "dir"}
        BY <2>a, <3>0, <3>2 DEF Blocked, TypeOK, Kinds
      <4>2. /\ component' = component + 1
            /\ UNCHANGED <<parents, target, pc, outcomes, found>>
        BY <2>2, <3>2 DEF CheckParent
      <4>3. \A j \in Components : j < component' => parents[j] \in {"absent", "dir"}
        BY <3>0, <4>1, <4>2 DEF Undisturbed, Components
      <4>. QED BY <3>0, <4>2, <4>3 DEF Undisturbed, Ended
    <3>. QED BY <3>1, <3>2
  <2>3. CASE ParentsChecked
    <3>1. quiet /\ pc = "check" /\ component > Depth
      BY <2>3 DEF ParentsChecked
    <3>2. parents = found.parents /\ Plain(parents)
      BY <2>a, <3>1 DEF Undisturbed, Plain, Components, TypeOK
    <3>. QED
      BY <2>3, <3>1, <3>2 DEF ParentsChecked, Goto, Undisturbed, Ended, Plain, Components
  <2>4. CASE MakeParent
    <3>0. quiet /\ pc = "mkdir" /\ component \in Components
      BY <2>4 DEF MakeParent
    <3>1. Reaches(component) /\ parents[component] # "file"
      BY <3>0 DEF Undisturbed, Reaches, Plain, Traversable
    <3>2. /\ parents' = IF parents[component] = "absent"
                         THEN [parents EXCEPT ![component] = "dir"] ELSE parents
          /\ component' = component + 1
          /\ UNCHANGED <<target, pc, outcomes, found>>
      BY <2>4, <3>1 DEF MakeParent
    <3>3. parents'[component] = "dir" /\ \A j \in Components \ {component} : parents'[j] = parents[j]
      BY <2>a, <3>0, <3>2 DEF TypeOK, Undisturbed, Plain
    <3>4. Plain(parents') /\ \A j \in Components : j < component' => parents'[j] = "dir"
      BY <3>0, <3>2, <3>3 DEF Undisturbed, Plain, Components
    <3>. QED BY <3>0, <3>2, <3>4 DEF Undisturbed, Ended, Plain
  <2>5. CASE ParentsMade
    <3>1. quiet /\ pc = "mkdir" /\ component > Depth
      BY <2>5 DEF ParentsMade
    <3>2. \A j \in Components : parents[j] = "dir"
      BY <2>a, <3>1 DEF Undisturbed, Components, TypeOK
    <3>. QED
      BY <2>5, <3>1, <3>2 DEF ParentsMade, Goto, Undisturbed, Ended, Plain
  <2>6. CASE CreateTemp
    <3>1. quiet /\ pc = "tempfile"
      BY <2>6 DEF CreateTemp
    <3>2. Reaches(Depth + 1)
      BY <3>1 DEF Undisturbed, Reaches, Traversable
    <3>. QED
      BY <2>6, <3>1, <3>2 DEF CreateTemp, Goto, Undisturbed, Ended, Plain
  <2>7. CASE WriteContent
    BY <2>7 DEF WriteContent, Goto, Undisturbed, Ended, Plain
  <2>8. CASE ApplyMode
    BY <2>8 DEF ApplyMode, Goto, Undisturbed, Ended, Plain
  <2>9. CASE Persist
    <3>1. quiet /\ pc = "persist"
      BY <2>9 DEF Persist
    <3>2. linked /\ found.target = target /\ Plain(found.parents)
      BY <3>1 DEF Undisturbed
    <3>3. ~\E k \in Components : found.parents[k] \in {"file", "symlink"}
      BY <3>2 DEF Plain
    <3>4. CASE target # None
      BY <2>9, <2>b, <3>1, <3>2, <3>3, <3>4, OutcomeCases DEF Persist, Answer
    <3>5. CASE target = None
      <4>1. outcomes' # <<>> /\ outcomes'[Len(outcomes')] = "created"
        BY <2>a, <2>9, <3>1, <3>2, <3>5, OutcomeAdded, OutcomeCases DEF Persist, Pending
      <4>2. pc' = "idle" /\ found' = found
        BY <2>9, <3>2, <3>5 DEF Persist, Goto
      <4>3. Answer(found') = "created"
        BY <3>2, <3>3, <3>5, <4>2 DEF Answer
      <4>. QED BY <4>1, <4>2, <4>3 DEF Undisturbed
    <3>. QED BY <3>4, <3>5
  <2>10. CASE CallFails
    BY <2>10, <2>a DEF CallFails, Fails
  <2>11. CASE Environment
    <3>1. Disturb /\ quiet /\ pc = "idle"
      BY <2>11, <2>a DEF Environment, ReplaceParent, ReplaceTarget, Disturb
    <3>. QED BY <3>1 DEF Disturb, Undisturbed, Ended
  <2>12. CASE Over \/ UNCHANGED vars
    BY <2>12 DEF Over, vars, Undisturbed, Ended, Plain
  <2>. QED
    BY <2>1, <2>2, <2>3, <2>4, <2>5, <2>6, <2>7, <2>8, <2>9, <2>10, <2>11, <2>12
    DEF Next, WriteFile
<1>. QED BY <1>1, <1>2, DraftInvariant, PTL DEF Spec, IInv

(***************************************************************************)
(* The answer of an undisturbed write depends only on what was there when  *)
(* it began (WriteFileError).                                              *)
(***************************************************************************)
THEOREM QuietAnswerTheorem == Spec => []QuietAnswer
<1>1. IInv => QuietAnswer
  BY DEF IInv, Undisturbed, QuietAnswer, Ended
<1>. QED BY <1>1, QuietInvariant, PTL
=============================================================================
