---------------------------- MODULE ToolsProofs ----------------------------
(***************************************************************************)
(* Theorems about the file-writing commands for every set of processes,    *)
(* paths, workloads, schema contracts and scripts, and any number of       *)
(* failures, kills and replacements.                                       *)
(***************************************************************************)
EXTENDS Tools, DocsProofs, SequenceTheorems, TLAPS

-----------------------------------------------------------------------------
(* Processes: which command a label belongs to.                            *)

ScaffoldLabels == {"policy", "parent", "create", "fill", "chmod"}
DocsLabels == {"discover", "load", "output", "target", "stage_document", "persist"}
WriteLabels == {"stage", "open", "text", "publish"}
SchemaLabels == {"prepare", "gen", "check"} \cup WriteLabels

ExitStates == [code : {0, 2, 3, 4, 5, 137}, cause : Causes]

Exiting(r) == Goto(r, "exited") /\ \E e \in ExitStates : exit' = [exit EXCEPT ![r] = e]

\* Only a process with such a request gets to a label.
Suits(request, label) ==
  /\ label \in ScaffoldLabels =>
       request # None /\ request.command = "scaffold" /\ request.out # <<>>
  /\ label \in DocsLabels => request # None /\ request.command = "docs"
  /\ label \in SchemaLabels => request # None /\ request.command \in {"gen", "check"}
  /\ label \in {"gen", "check"} => request.command = label
  /\ label \in WriteLabels => request.command = "gen" /\ ~request.dryRun

\* A process runs what its job asks for, and has exited when it has an exit code.
JobOf(r) ==
  /\ Suits(Job(r), pc[r])
  /\ pc[r] = "start" => Job(r) # None
  /\ pc[r] # "exited" => exit[r] = None
  /\ pc[r] = "exited" /\ exit[r] = None => Job(r) = None

Bookkeeping ==
  /\ budget \in Nat
  /\ met \in [Runs -> SUBSET Disturbances]
  /\ DOMAIN work = Runs /\ DOMAIN seen = Runs

ProcessInv ==
  /\ \E w \in Workloads :
       setting = [job |-> w.job, files |-> w.files, contested |-> w.contested, foreign |-> w.foreign]
  /\ pc \in [Runs -> Labels]
  /\ exit \in [Runs -> ExitStates \cup {None}]
  /\ Bookkeeping
  /\ \A r \in Runs : JobOf(r)

LEMMA JobCommand ==
  ASSUME ProcessInv, NEW r \in Runs, Job(r) # None
  PROVE  Job(r).command \in {"scaffold", "docs", "gen", "check"}
BY WorkloadAssumption DEF ProcessInv, Job

\* The severity of a failed preparation is one that was met.
LEMMA ReportedIsMet ==
  ASSUME NEW defects, defects # {}, defects \subseteq Range(Severities)
  PROVE  Reported(defects) \in defects
<1> DEFINE S == {i \in DOMAIN Severities : Severities[i] \in defects}
<1>1. DOMAIN Severities = 1 .. 4
  BY DEF Severities
<1>2. \E i \in 1 .. 4 : i \in S
  BY <1>1 DEF Range
<1>3. \E x \in S : \A y \in S : x <= y
  <2> HIDE DEF S
  <2>1. S \subseteq 1 .. 4
    BY <1>1 DEF S
  <2>2. CASE 1 \in S
    BY <2>1, <2>2
  <2>3. CASE 1 \notin S /\ 2 \in S
    BY <2>1, <2>3
  <2>4. CASE 1 \notin S /\ 2 \notin S /\ 3 \in S
    BY <2>1, <2>4
  <2>5. CASE 1 \notin S /\ 2 \notin S /\ 3 \notin S
    BY <1>2, <2>1, <2>5
  <2> QED BY <2>2, <2>3, <2>4, <2>5
<1>4. Min(S) \in S
  <2> HIDE DEF S
  <2> QED BY <1>3, Zenon DEF Min
<1> QED BY <1>4 DEF Reported

LEMMA UndisturbedBookkeeping ==
  ASSUME ProcessInv, Undisturbed, UNCHANGED work \/ DOMAIN work' = Runs
  PROVE  Bookkeeping' /\ UNCHANGED setting
BY DEF ProcessInv, Bookkeeping, Undisturbed

LEMMA BegunBookkeeping ==
  ASSUME ProcessInv, NEW r \in Runs, Begin(r), UNCHANGED <<setting, budget>>, DOMAIN work' = Runs
  PROVE  Bookkeeping'
BY DEF ProcessInv, Bookkeeping, Begin, Disturbances

LEMMA FailedBookkeeping ==
  ASSUME ProcessInv, NEW r \in Runs, CallFails(r), UNCHANGED work \/ DOMAIN work' = Runs
  PROVE  Bookkeeping' /\ UNCHANGED setting
BY DEF ProcessInv, Bookkeeping, CallFails, Disturbances

LEMMA GotoKeepsProcess ==
  ASSUME ProcessInv, NEW r \in Runs, pc[r] # "exited", NEW label \in Labels \ {"start", "exited"},
         Suits(Job(r), label), Goto(r, label), UNCHANGED <<setting, exit>>, Bookkeeping'
  PROVE  ProcessInv'
<1>1. pc' \in [Runs -> Labels]
  BY DEF ProcessInv, Goto
<1>2. ASSUME NEW s \in Runs PROVE JobOf(s)'
  <2>1. CASE s = r
    BY <2>1, Zenon DEF ProcessInv, JobOf, Goto, Job
  <2>2. CASE s # r
    BY <2>2, Zenon DEF ProcessInv, JobOf, Goto, Job
  <2> QED BY <2>1, <2>2
<1> QED BY <1>1, <1>2 DEF ProcessInv

LEMMA ExitKeepsProcess ==
  ASSUME ProcessInv, NEW r \in Runs, Exiting(r), UNCHANGED setting, Bookkeeping'
  PROVE  ProcessInv'
<1>1. pc' \in [Runs -> Labels] /\ pc'[r] = "exited"
  BY DEF ProcessInv, Exiting, Goto, Labels
<1>2. exit' \in [Runs -> ExitStates \cup {None}] /\ exit'[r] # None
  BY NoneAssumption DEF ProcessInv, Exiting, ExitStates
<1>3. ASSUME NEW s \in Runs PROVE JobOf(s)'
  <2>1. CASE s = r
    BY <1>1, <1>2, <2>1
       DEF JobOf, Suits, ScaffoldLabels, DocsLabels, SchemaLabels, WriteLabels
  <2>2. CASE s # r
    BY <2>2, Zenon DEF ProcessInv, JobOf, Exiting, Goto, Job
  <2> QED BY <2>1, <2>2
<1> QED BY <1>1, <1>2, <1>3 DEF ProcessInv

LEMMA StayKeepsProcess ==
  ASSUME ProcessInv, UNCHANGED <<setting, pc, exit>>, Bookkeeping'
  PROVE  ProcessInv'
<1>1. ASSUME NEW s \in Runs PROVE JobOf(s)'
  BY DEF ProcessInv, JobOf, Job
<1> QED BY <1>1 DEF ProcessInv

LEMMA ScaffoldKeepsProcess ==
  ASSUME ProcessInv, NEW r \in Runs, ScaffoldStep(r)
  PROVE  ProcessInv'
<1> USE DEF ScaffoldLabels, DocsLabels, SchemaLabels, WriteLabels, Labels, Suits
<1>0. Suits(Job(r), pc[r]) /\ (pc[r] = "start" => Job(r) # None)
  BY DEF ProcessInv, JobOf
<1>1. CASE CheckRequest(r)
  <2>1. Job(r).command = "scaffold" /\ pc[r] = "start" /\ Bookkeeping' /\ UNCHANGED setting
    BY <1>1, BegunBookkeeping DEF CheckRequest, Scaffold, Begin, ProcessInv, Bookkeeping
  <2>2. CASE Violations(Job(r)) # {}
    <3>1. Exiting(r)
      BY <1>1, <2>2 DEF CheckRequest, ExitWith, Exiting, ExitStates, Causes, Refusals
    <3> QED BY <2>1, <3>1, ExitKeepsProcess
  <2>3. CASE Violations(Job(r)) = {}
    <3>1. Job(r).out # <<>>
      BY <2>3 DEF Violations
    <3> QED BY <1>0, <1>1, <2>1, <2>3, <3>1, GotoKeepsProcess DEF CheckRequest
  <2> QED BY <2>2, <2>3
<1>2. CASE CheckOut(r)
  <2>1. Bookkeeping' /\ UNCHANGED setting /\ pc[r] = "policy"
    BY <1>2, UndisturbedBookkeeping DEF CheckOut
  <2>2. Exiting(r) \/ (Goto(r, "parent") /\ UNCHANGED exit)
    BY <1>2 DEF CheckOut, ExitWith, Exiting, ExitStates, Causes, Refusals
  <2> QED BY <1>0, <2>1, <2>2, ExitKeepsProcess, GotoKeepsProcess
<1>3. CASE MakeParent(r)
  <2>1. Bookkeeping' /\ UNCHANGED setting /\ pc[r] = "parent"
    BY <1>3, UndisturbedBookkeeping DEF MakeParent
  <2>2. Exiting(r) \/ (Goto(r, "create") /\ UNCHANGED exit)
    BY <1>3 DEF MakeParent, ExitWith, Exiting, ExitStates, Causes, Refusals
  <2> QED BY <1>0, <2>1, <2>2, ExitKeepsProcess, GotoKeepsProcess
<1>4. CASE CreateShim(r)
  <2>1. Bookkeeping' /\ UNCHANGED setting /\ pc[r] = "create"
    BY <1>4, UndisturbedBookkeeping DEF CreateShim, ProcessInv, Bookkeeping
  <2>2. Exiting(r) \/ (Goto(r, "fill") /\ UNCHANGED exit)
    BY <1>4 DEF CreateShim, ExitWith, Exiting, ExitStates, Causes, Refusals
  <2> QED BY <1>0, <2>1, <2>2, ExitKeepsProcess, GotoKeepsProcess
<1>5. CASE FillShim(r)
  <2>1. Bookkeeping' /\ UNCHANGED setting /\ pc[r] = "fill" /\ Goto(r, "chmod") /\ UNCHANGED exit
    BY <1>5, UndisturbedBookkeeping DEF FillShim
  <2> QED BY <1>0, <2>1, GotoKeepsProcess
<1>6. CASE MakeExecutable(r)
  <2>1. Bookkeeping' /\ UNCHANGED setting
    BY <1>6, UndisturbedBookkeeping DEF MakeExecutable
  <2>2. Exiting(r)
    BY <1>6 DEF MakeExecutable, ExitWith, Exiting, ExitStates, Causes, Refusals
  <2> QED BY <2>1, <2>2, ExitKeepsProcess
<1>7. CASE ScaffoldCallFails(r)
  <2>1. Bookkeeping' /\ UNCHANGED setting
    BY <1>7, FailedBookkeeping DEF ScaffoldCallFails
  <2>2. Exiting(r)
    BY <1>7 DEF ScaffoldCallFails, ExitWith, Exiting, ExitStates, Causes, Refusals
  <2> QED BY <2>1, <2>2, ExitKeepsProcess
<1> QED BY <1>1, <1>2, <1>3, <1>4, <1>5, <1>6, <1>7 DEF ScaffoldStep

LEMMA AfterSourceKeepsProcess ==
  ASSUME ProcessInv, NEW r \in Runs, pc[r] = "load", NEW w, AfterSource(r, w),
         UNCHANGED setting, Bookkeeping'
  PROVE  ProcessInv'
<1>1. Suits(Job(r), "output")
  BY DEF ProcessInv, JobOf, Suits, ScaffoldLabels, DocsLabels, SchemaLabels, WriteLabels
<1>2. \/ UNCHANGED <<pc, exit>> \/ Exiting(r)
      \/ Goto(r, "output") /\ UNCHANGED exit
  BY DEF AfterSource, Fails, Infrastructure, ExitWith, Exiting, ExitStates, Causes, Refusals
<1> QED BY <1>1, <1>2, StayKeepsProcess, ExitKeepsProcess, GotoKeepsProcess DEF Labels

LEMMA DocsKeepsProcess ==
  ASSUME ProcessInv, NEW r \in Runs, DocsStep(r)
  PROVE  ProcessInv'
<1> USE DEF ScaffoldLabels, DocsLabels, SchemaLabels, WriteLabels, Labels, Suits
<1>0. Suits(Job(r), pc[r]) /\ (pc[r] = "start" => Job(r) # None) /\ DOMAIN work = Runs
  BY DEF ProcessInv, JobOf, Bookkeeping
<1>1. CASE BeginDocs(r)
  <2>1. Job(r).command = "docs" /\ pc[r] = "start" /\ Bookkeeping' /\ UNCHANGED setting
    BY <1>0, <1>1, BegunBookkeeping DEF BeginDocs, Docs, Begin
  <2>2. Exiting(r) \/ (Goto(r, "discover") /\ UNCHANGED exit)
    BY <1>1 DEF BeginDocs, Fails, Infrastructure, ExitWith, Exiting, ExitStates, Causes, Refusals
  <2> QED BY <1>0, <2>1, <2>2, ExitKeepsProcess, GotoKeepsProcess
<1>2. CASE DiscoverPattern(r)
  <2>1. Bookkeeping' /\ UNCHANGED setting /\ pc[r] = "discover"
    BY <1>0, <1>2, UndisturbedBookkeeping DEF DiscoverPattern
  <2>2. Exiting(r) \/ ((Goto(r, "load") \/ Goto(r, "discover")) /\ UNCHANGED exit)
    BY <1>2 DEF DiscoverPattern, PatternError, Fails, Infrastructure, ExitWith, Exiting, ExitStates, Causes, Refusals
  <2> QED BY <1>0, <2>1, <2>2, ExitKeepsProcess, GotoKeepsProcess
<1>3. CASE TraversalFails(r)
  <2>1. Bookkeeping' /\ UNCHANGED setting
    BY <1>3, FailedBookkeeping DEF TraversalFails
  <2>2. ExitWith(r, 3, "traversal")
    BY <1>3 DEF TraversalFails, Fails, Infrastructure
  <2>3. Exiting(r)
    BY <2>2 DEF ExitWith, Exiting, ExitStates, Causes, Refusals
  <2> QED BY <2>1, <2>3, ExitKeepsProcess
<1>4. CASE LoadSource(r)
  <2>1. pc[r] = "load" /\ \E w : AfterSource(r, w)
    BY <1>4 DEF LoadSource
  <2>2. DOMAIN work' = Runs \/ UNCHANGED work
    BY <1>0, <2>1 DEF AfterSource
  <2>3. Bookkeeping' /\ UNCHANGED setting
    BY <1>4, <2>2, UndisturbedBookkeeping DEF LoadSource
  <2> QED BY <2>1, <2>3, AfterSourceKeepsProcess
<1>5. CASE SourceUnreadable(r)
  <2>1. pc[r] = "load" /\ \E w : AfterSource(r, w)
    BY <1>5 DEF SourceUnreadable
  <2>2. DOMAIN work' = Runs \/ UNCHANGED work
    BY <1>0, <2>1 DEF AfterSource
  <2>3. Bookkeeping' /\ UNCHANGED setting
    BY <1>5, <2>2, FailedBookkeeping DEF SourceUnreadable
  <2> QED BY <2>1, <2>3, AfterSourceKeepsProcess
<1>6. CASE PrepareOutput(r)
  <2>1. Bookkeeping' /\ UNCHANGED setting /\ pc[r] = "output"
    BY <1>6, UndisturbedBookkeeping DEF PrepareOutput
  <2>2. Exiting(r) \/ (Goto(r, "target") /\ UNCHANGED exit)
    BY <1>6 DEF PrepareOutput, Fails, Infrastructure, ExitWith, Exiting, ExitStates, Causes, Refusals
  <2> QED BY <1>0, <2>1, <2>2, ExitKeepsProcess, GotoKeepsProcess
<1>7. CASE CheckTarget(r)
  <2>1. Bookkeeping' /\ UNCHANGED setting /\ pc[r] = "target"
    BY <1>7, UndisturbedBookkeeping DEF CheckTarget
  <2>2. Exiting(r) \/ (Goto(r, "stage_document") /\ UNCHANGED exit)
    BY <1>7 DEF CheckTarget, Fails, Infrastructure, ExitWith, Exiting, ExitStates, Causes, Refusals
  <2> QED BY <1>0, <2>1, <2>2, ExitKeepsProcess, GotoKeepsProcess
<1>8. CASE StageDocument(r)
  <2>1. Bookkeeping' /\ UNCHANGED setting /\ pc[r] = "stage_document"
    BY <1>0, <1>8, UndisturbedBookkeeping DEF StageDocument
  <2>2. Exiting(r) \/ (Goto(r, "persist") /\ UNCHANGED exit)
    BY <1>8 DEF StageDocument, Fails, Infrastructure, ExitWith, Exiting, ExitStates, Causes, Refusals
  <2> QED BY <1>0, <2>1, <2>2, ExitKeepsProcess, GotoKeepsProcess
<1>9. CASE Persist(r)
  <2>1. Bookkeeping' /\ UNCHANGED setting
    BY <1>9, UndisturbedBookkeeping DEF Persist
  <2>2. Exiting(r)
    BY <1>9 DEF Persist, Fails, Infrastructure, ExitWith, Exiting, ExitStates, Causes, Refusals
  <2> QED BY <2>1, <2>2, ExitKeepsProcess
<1>10. CASE OutputFails(r)
  <2>1. Bookkeeping' /\ UNCHANGED setting /\ pc[r] \in {"output", "target", "stage_document", "persist"}
    BY <1>10, FailedBookkeeping DEF OutputFails
  <2>2. CASE Fails(r, "create_failed") \/ Fails(r, "write_failed") \/ Fails(r, "replace_failed")
    <3>1. Exiting(r)
      BY <2>2 DEF Fails, Infrastructure, ExitWith, Exiting, ExitStates, Causes, Refusals
    <3> QED BY <2>1, <3>1, ExitKeepsProcess
  <2>3. CASE (Goto(r, "target") \/ Goto(r, "stage_document")) /\ UNCHANGED exit
    BY <1>0, <2>1, <2>3, GotoKeepsProcess
  <2> QED BY <1>10, <2>2, <2>3 DEF OutputFails
<1> QED BY <1>1, <1>2, <1>3, <1>4, <1>5, <1>6, <1>7, <1>8, <1>9, <1>10 DEF DocsStep

-----------------------------------------------------------------------------
(* What a process has worked out when it is at a label.                    *)

Filled(s, n) == s = [i \in 1 .. n |-> s[i]]
Public_(text) == text.what = "public"

SchemaWork(w) ==
  /\ DOMAIN w = {"at", "texts", "defects", "changes", "stale", "action", "fd"}
  /\ w.at \in Numbers
  /\ w.defects \subseteq {"none"} \cup Range(Severities)

WorkOf(r) ==
  /\ pc[r] \in SchemaLabels =>
       SchemaWork(work[r]) /\ (Job(r).command = "gen" => work[r].stale = {})
  /\ pc[r] = "prepare" =>
       /\ Filled(work[r].texts, work[r].at - 1)
       /\ work[r].defects \subseteq {"none"} => \A n \in 1 .. work[r].at - 1 : Public_(work[r].texts[n])
  /\ pc[r] \in SchemaLabels \ {"prepare"} => \A n \in Numbers : Public_(work[r].texts[n])
  /\ pc[r] \in {"text", "publish"} => work[r].fd \in Runs \X Temporaries
  /\ pc[r] = "fill" => work[r].fd \in Runs \X (Paths \ Temporaries)
  /\ pc[r] \in DocsLabels =>
       DOMAIN work[r] = {"at", "todo", "loaded", "failed", "document", "staged"}
  /\ pc[r] \in {"output", "target", "stage_document", "persist"} => work[r].document.what = "document"

WorkInv == \A r \in Runs : WorkOf(r)

LEMMA NumbersFacts == Numbers = 1 .. Len(Contracts) /\ Len(Contracts) \in Nat /\ 1 \in Numbers
BY ContractsAssumption DEF Numbers

\* What `Prepared` makes of the work, before it goes on to the next contract.
LEMMA PreparedFields ==
  ASSUME NEW w, SchemaWork(w), NEW defect, NEW text,
         NEW v, v = [w EXCEPT !.texts = Append(@, text), !.defects = @ \cup {defect}]
  PROVE  /\ DOMAIN v = DOMAIN w /\ v.at = w.at /\ v.stale = w.stale /\ v.changes = w.changes
         /\ v.texts = Append(w.texts, text) /\ v.defects = w.defects \cup {defect}
BY DEF SchemaWork

LEMMA PreparedKeepsProcess ==
  ASSUME ProcessInv, WorkInv, NEW r \in Runs, pc[r] = "prepare",
         NEW defect \in {"none"} \cup Range(Severities), NEW text,
         Prepared(r, defect, text), UNCHANGED setting, Bookkeeping'
  PROVE  ProcessInv'
<1> DEFINE w == [work[r] EXCEPT !.texts = Append(@, text), !.defects = @ \cup {defect}]
           wrong == w.defects \ {"none"}
<1>1. SchemaWork(work[r]) /\ Suits(Job(r), pc[r])
  BY DEF WorkInv, WorkOf, SchemaLabels, ProcessInv, JobOf
<1>2. w.defects \subseteq {"none"} \cup Range(Severities)
  BY <1>1, PreparedFields DEF SchemaWork
<1>3. \/ UNCHANGED <<pc, exit>>
      \/ wrong = {} /\ Goto(r, Job(r).command) /\ UNCHANGED exit
      \/ wrong # {} /\ ExitWith(r, SourceCode(Reported(wrong)), Reported(wrong))
  BY Zenon DEF Prepared
<1> HIDE DEF w
<1>4. CASE wrong = {} /\ Goto(r, Job(r).command) /\ UNCHANGED exit
  <2>1. Job(r).command \in Labels \ {"start", "exited"} /\ Suits(Job(r), Job(r).command)
    BY <1>1 DEF Suits, Labels, ScaffoldLabels, DocsLabels, SchemaLabels, WriteLabels
  <2> QED BY <1>4, <2>1, GotoKeepsProcess
<1>5. CASE wrong # {} /\ ExitWith(r, SourceCode(Reported(wrong)), Reported(wrong))
  <2>1. Reported(wrong) \in wrong
    BY <1>2, <1>5, ReportedIsMet
  <2> DEFINE cause == Reported(wrong)
  <2>2. cause \in Causes
    BY <1>2, <2>1 DEF Causes, Refusals
  <2>3. SourceCode(cause) \in {3, 4}
    BY DEF SourceCode, CategoryCode
  <2>4. ExitWith(r, SourceCode(cause), cause)
    BY <1>5
  <2> HIDE DEF cause
  <2>5. Exiting(r)
    BY <2>2, <2>3, <2>4 DEF ExitWith, Exiting, ExitStates
  <2> QED BY <2>5, ExitKeepsProcess
<1> QED BY <1>3, <1>4, <1>5, StayKeepsProcess

LEMMA NextContractKeepsProcess ==
  ASSUME ProcessInv, NEW r \in Runs, pc[r] \in {"gen", "check", "publish"}, NEW w,
         NextContract(r, w), UNCHANGED setting, Bookkeeping'
  PROVE  ProcessInv'
<1>1. Job(r).command \in Labels \ {"start", "exited"} /\ Suits(Job(r), Job(r).command)
  BY DEF ProcessInv, JobOf, Suits, Labels, ScaffoldLabels, DocsLabels, SchemaLabels, WriteLabels
<1>2. (Goto(r, Job(r).command) /\ UNCHANGED exit) \/ Exiting(r)
  BY DEF NextContract, CategoryCode, ExitWith, Exiting, ExitStates, Causes
<1> QED BY <1>1, <1>2, GotoKeepsProcess, ExitKeepsProcess

LEMMA SchemaKeepsProcess ==
  ASSUME ProcessInv, WorkInv, NEW r \in Runs, SchemaStep(r)
  PROVE  ProcessInv'
<1> USE DEF ScaffoldLabels, DocsLabels, SchemaLabels, WriteLabels, Labels, Suits
<1>0. Suits(Job(r), pc[r]) /\ (pc[r] = "start" => Job(r) # None) /\ DOMAIN work = Runs
  BY DEF ProcessInv, JobOf, Bookkeeping
<1>1. CASE BeginSchemas(r)
  <2>1. Job(r).command \in {"gen", "check"} /\ pc[r] = "start" /\ Bookkeeping' /\ UNCHANGED setting
    BY <1>0, <1>1, BegunBookkeeping DEF BeginSchemas, Schemas, Begin
  <2> QED BY <1>0, <1>1, <2>1, GotoKeepsProcess DEF BeginSchemas
<1>2. CASE PrepareContract(r)
  <2>1. PICK contract, file, text : /\ pc[r] = "prepare"
                                    /\ Prepared(r, Defect(contract, file), text)
    BY <1>2 DEF PrepareContract
  <2>2. Defect(contract, file) \in {"none"} \cup Range(Severities)
    BY DEF Defect, Range, Severities
  <2>3. Bookkeeping' /\ UNCHANGED setting
    BY <1>0, <1>2, <2>1, UndisturbedBookkeeping DEF PrepareContract, Prepared
  <2> QED BY <2>1, <2>2, <2>3, PreparedKeepsProcess
<1>3. CASE PrepareFails(r)
  <2>1. pc[r] = "prepare" /\ Prepared(r, "unreadable", None)
    BY <1>3 DEF PrepareFails
  <2>2. "unreadable" \in {"none"} \cup Range(Severities)
    BY DEF Range, Severities
  <2>3. Bookkeeping' /\ UNCHANGED setting
    BY <1>0, <1>3, <2>1, FailedBookkeeping DEF PrepareFails, Prepared
  <2> QED BY <2>1, <2>2, <2>3, PreparedKeepsProcess
<1>4. CASE ComparePublic(r)
  <2>1. Bookkeeping' /\ UNCHANGED setting /\ pc[r] = "gen"
    BY <1>0, <1>4, UndisturbedBookkeeping DEF ComparePublic, NextContract
  <2>2. \/ Exiting(r) \/ \E w : NextContract(r, w)
        \/ ~DryRun(r) /\ Goto(r, "stage") /\ UNCHANGED exit
    BY <1>4 DEF ComparePublic, CategoryCode, ExitWith, Exiting, ExitStates, Causes
  <2>3. ASSUME ~DryRun(r) PROVE Suits(Job(r), "stage")
    BY <1>0, <2>1, <2>3 DEF DryRun
  <2> QED BY <2>1, <2>2, <2>3, ExitKeepsProcess, NextContractKeepsProcess, GotoKeepsProcess
<1>5. CASE MakePublicParent(r)
  <2>1. Bookkeeping' /\ UNCHANGED setting /\ pc[r] = "stage"
    BY <1>5, UndisturbedBookkeeping DEF MakePublicParent, WriteFailed
  <2>2. Exiting(r) \/ (Goto(r, "open") /\ UNCHANGED exit)
    BY <1>5 DEF MakePublicParent, WriteFailed, CategoryCode, ExitWith, Exiting, ExitStates, Causes
  <2> QED BY <1>0, <2>1, <2>2, ExitKeepsProcess, GotoKeepsProcess
<1>6. CASE StageOpens(r)
  <2>1. Bookkeeping' /\ UNCHANGED setting /\ pc[r] = "open"
    BY <1>0, <1>6, UndisturbedBookkeeping DEF StageOpens, WriteFailed
  <2>2. Exiting(r) \/ (Goto(r, "text") /\ UNCHANGED exit)
    BY <1>6 DEF StageOpens, WriteFailed, CategoryCode, ExitWith, Exiting, ExitStates, Causes
  <2> QED BY <1>0, <2>1, <2>2, ExitKeepsProcess, GotoKeepsProcess
<1>7. CASE StageWrites(r)
  <2>1. Bookkeeping' /\ UNCHANGED <<setting, exit>> /\ pc[r] = "text" /\ Goto(r, "publish")
    BY <1>7, UndisturbedBookkeeping DEF StageWrites
  <2> QED BY <1>0, <2>1, GotoKeepsProcess
<1>8. CASE Publish(r)
  <2>1. Bookkeeping' /\ UNCHANGED setting /\ pc[r] = "publish"
    BY <1>0, <1>8, UndisturbedBookkeeping DEF Publish, WriteFailed, NextContract
  <2>2. Exiting(r) \/ \E w : NextContract(r, w)
    BY <1>8 DEF Publish, WriteFailed, CategoryCode, ExitWith, Exiting, ExitStates, Causes
  <2> QED BY <2>1, <2>2, ExitKeepsProcess, NextContractKeepsProcess
<1>9. CASE PublicationFails(r)
  <2>1. Bookkeeping' /\ UNCHANGED setting
    BY <1>9 DEF PublicationFails, WriteFailed, ProcessInv, Bookkeeping, Disturbances
  <2>2. Exiting(r)
    BY <1>9 DEF PublicationFails, WriteFailed, CategoryCode, ExitWith, Exiting, ExitStates, Causes
  <2> QED BY <2>1, <2>2, ExitKeepsProcess
<1>10. CASE CheckPublic(r)
  <2>1. Bookkeeping' /\ UNCHANGED setting /\ pc[r] = "check"
    BY <1>0, <1>10, UndisturbedBookkeeping DEF CheckPublic, NextContract
  <2>2. Exiting(r) \/ \E w : NextContract(r, w)
    BY <1>10 DEF CheckPublic, CategoryCode, ExitWith, Exiting, ExitStates, Causes
  <2> QED BY <2>1, <2>2, ExitKeepsProcess, NextContractKeepsProcess
<1>11. CASE PublicUnreadable(r)
  <2>1. Bookkeeping' /\ UNCHANGED setting
    BY <1>11, FailedBookkeeping DEF PublicUnreadable
  <2>2. Exiting(r)
    BY <1>11 DEF PublicUnreadable, CategoryCode, ExitWith, Exiting, ExitStates, Causes
  <2> QED BY <2>1, <2>2, ExitKeepsProcess
<1> QED
  BY <1>1, <1>2, <1>3, <1>4, <1>5, <1>6, <1>7, <1>8, <1>9, <1>10, <1>11 DEF SchemaStep

LEMMA NextKeepsProcess ==
  ASSUME ProcessInv, WorkInv, [ToolNext]_toolVars
  PROVE  ProcessInv'
<1>1. CASE UNCHANGED toolVars
  BY <1>1, StayKeepsProcess DEF toolVars, ProcessInv, Bookkeeping
<1>2. ASSUME NEW r \in Runs, Kill(r) PROVE ProcessInv'
  <2>1. Exiting(r) /\ UNCHANGED setting
    BY <1>2 DEF Kill, ExitWith, Exiting, ExitStates, Causes
  <2>2. Bookkeeping'
    BY <1>2 DEF Kill, ProcessInv, Bookkeeping, Disturbances
  <2> QED BY <2>1, <2>2, ExitKeepsProcess
<1>3. CASE Interfere
  BY <1>3, StayKeepsProcess DEF Interfere, ProcessInv, Bookkeeping, Disturbances
<1> QED
  BY <1>1, <1>2, <1>3, ScaffoldKeepsProcess, SchemaKeepsProcess, DocsKeepsProcess DEF ToolNext, Ended

-----------------------------------------------------------------------------
(* The file system: what may be at a path.                                 *)

\* What the generator writes and renames, and every other file the commands replace.
Staged == Published \cup Temporaries

\* A symlink leads to none of these places and is not where the generator writes; a file
\* that was staged keeps a node of a temporary file, any other has another node.
FileAt(file, p) ==
  /\ DOMAIN file = DOMAIN Absent /\ file.kind \in Kinds
  /\ file.kind = "absent" => file = Absent
  /\ file.kind # "file" => file.node = None /\ ~file.exec
  /\ file.kind = "link" => file.content \in Paths \ Staged /\ p \notin Publics \cup Temporaries
  /\ file.node # None => file.node \in Runs \X Paths /\ (file.node[2] \in Temporaries <=> p \in Staged)

FilesInv ==
  /\ DOMAIN files = Paths
  /\ \A p \in Paths : FileAt(files[p], p)
  /\ \A p, q \in Paths : files[p].node # None /\ files[p].node = files[q].node => p = q

LEMMA AbsentAt ==
  ASSUME NEW p \in Paths
  PROVE  FileAt(Absent, p) /\ FileAt(Directory, p) /\ Absent.node = None /\ Directory.node = None
BY DEF FileAt, Absent, Directory, Kinds

LEMMA RegularAt ==
  ASSUME NEW p \in Paths, NEW content
  PROVE  FileAt(Regular(content), p) /\ Regular(content).node = None
BY DEF FileAt, Regular, Absent, Kinds

LEMMA SettledAt ==
  ASSUME NEW p \in Paths, NEW file, Settled(file),
         file.kind = "link" => file.content \in Paths \ Staged /\ p \notin Publics \cup Temporaries
  PROVE  FileAt(file, p) /\ file.node = None
BY DEF FileAt, Settled

\* No file has a node that no file had.
OldNodes == \A p \in Paths : files'[p].node = None \/ \E q \in Paths : files'[p].node = files[q].node

LEMMA InOrderNext ==
  ASSUME DOMAIN files' = Paths, \A p \in Paths : FileAt(files'[p], p),
         \A p, q \in Paths : files'[p].node # None /\ files'[p].node = files'[q].node => p = q
  PROVE  FilesInv'
BY Zenon DEF FilesInv, FileAt, Staged

\* A change of one path keeps the file system in order when no other path has the node.
LEMMA ChangedKeepsFiles ==
  ASSUME FilesInv, NEW q \in Paths, NEW file, FileAt(file, q), files' = [files EXCEPT ![q] = file],
         file.node # None => \A p \in Paths \ {q} : files[p].node # file.node
  PROVE  FilesInv'
<1>1. DOMAIN files' = Paths /\ files'[q] = file /\ \A p \in Paths \ {q} : files'[p] = files[p]
  BY DEF FilesInv
<1>2. ASSUME NEW p \in Paths PROVE FileAt(files'[p], p)
  BY <1>1 DEF FilesInv
<1>3. ASSUME NEW p1 \in Paths, NEW p2 \in Paths, files'[p1].node # None, files'[p1].node = files'[p2].node
      PROVE  p1 = p2
  BY <1>1, <1>3 DEF FilesInv
<1> QED BY <1>1, <1>2, <1>3, InOrderNext

LEMMA DirectoriesKeepFiles ==
  ASSUME FilesInv, NEW path, files' = WithDirectories(path)
  PROVE  FilesInv' /\ OldNodes
<1>1. DOMAIN files' = Paths /\ \A p \in Paths : files'[p] = files[p] \/ files'[p] = Directory
  BY DEF WithDirectories
<1>2. ASSUME NEW p \in Paths PROVE FileAt(files'[p], p)
  BY <1>1, AbsentAt DEF FilesInv
<1>3. ASSUME NEW p1 \in Paths, NEW p2 \in Paths, files'[p1].node # None, files'[p1].node = files'[p2].node
      PROVE  p1 = p2
  BY <1>1, <1>3, AbsentAt DEF FilesInv
<1>4. OldNodes
  BY <1>1, AbsentAt DEF OldNodes
<1> QED BY <1>1, <1>2, <1>3, <1>4, InOrderNext

LEMMA FollowedIsPath ==
  ASSUME FilesInv, NEW path \in Paths
  PROVE  /\ Followed(path) \in Paths
         /\ path \in Publics \cup Temporaries => Followed(path) = path
         /\ path \notin Staged => Followed(path) \notin Staged
BY DEF FilesInv, FileAt, Followed

\* Opening a file for writing, with a node nobody has if it has none yet.
LEMMA OpenedKeepsFiles ==
  ASSUME FilesInv, NEW path \in Paths, NEW node \in Runs \X Paths, CanOpen(path),
         files' = Opened(path, Descriptor(path, node)),
         node[2] \in Temporaries <=> Followed(path) \in Staged,
         \A p \in Paths : files[p].node # node
  PROVE  /\ FilesInv'
         /\ Descriptor(path, node) \in Runs \X Paths
         /\ Descriptor(path, node)[2] \in Temporaries <=> Followed(path) \in Staged
         /\ files'[Followed(path)].node = Descriptor(path, node)
<1> DEFINE q == Followed(path)
           own == Descriptor(path, node)
           file == [files[q] EXCEPT !.kind = "file", !.content = Torn, !.node = own]
<1>1. q \in Paths /\ files[q].kind \in {"absent", "file"} /\ FileAt(files[q], q)
  BY FollowedIsPath DEF CanOpen, FilesInv
<1>2. node # None
  BY NoneAssumption
<1>3. files' = [files EXCEPT ![q] = file]
  BY Zenon DEF Opened
<1>4. own \in Runs \X Paths /\ (own[2] \in Temporaries <=> q \in Staged)
  BY <1>1 DEF Descriptor, FileAt
<1>5. \A p \in Paths \ {q} : files[p].node # own
  BY <1>1, <1>2 DEF FilesInv, Descriptor
<1> HIDE DEF own, q
<1>6. file.kind = "file" /\ DOMAIN file = DOMAIN Absent /\ file.node = own
  BY <1>1 DEF FileAt, Absent
<1> HIDE DEF file
<1>7. FileAt(file, q)
  BY <1>4, <1>6 DEF FileAt, Kinds
<1>8. FilesInv'
  BY <1>1, <1>3, <1>5, <1>6, <1>7, ChangedKeepsFiles
<1>9. files'[q].node = own
  BY <1>1, <1>3, <1>6 DEF FilesInv
<1> QED BY <1>4, <1>8, <1>9 DEF q, own

LEMMA WrittenKeepsFiles ==
  ASSUME FilesInv, NEW node, NEW content, files' = WrittenTo(node, content)
  PROVE  FilesInv' /\ OldNodes
<1>1. DOMAIN files' = Paths
  BY DEF WrittenTo
<1>2. ASSUME NEW p \in Paths PROVE FileAt(files'[p], p) /\ files'[p].node = files[p].node
  <2>1. CASE files[p].kind = "file" /\ files[p].node = node
    <3>1. files'[p] = [files[p] EXCEPT !.content = content]
      BY <2>1 DEF WrittenTo
    <3> QED BY <2>1, <3>1 DEF FilesInv, FileAt, Absent
  <2>2. CASE ~(files[p].kind = "file" /\ files[p].node = node)
    BY <2>2 DEF WrittenTo, FilesInv
  <2> QED BY <2>1, <2>2
<1>3. ASSUME NEW p1 \in Paths, NEW p2 \in Paths, files'[p1].node # None, files'[p1].node = files'[p2].node
      PROVE  p1 = p2
  BY <1>2, <1>3 DEF FilesInv
<1>4. OldNodes
  BY <1>2 DEF OldNodes
<1> QED BY <1>1, <1>2, <1>3, <1>4, InOrderNext

LEMMA PublicPlaces ==
  ASSUME NEW public \in Publics
  PROVE  /\ public \in Paths /\ public \in Staged /\ public \notin Temporaries
         /\ Temporary(public) \in Temporaries /\ Temporary(public) \in Paths
         /\ Temporary(public) \in Staged /\ Temporary(public) # public
         /\ Temporary(public) \notin Published
BY PublishedAssumption, ContractsAssumption DEF Staged, Temporaries

\* A place is a path, made of its directory and its name.
LEMMA PathParts ==
  ASSUME NEW p \in Paths
  PROVE  /\ p \in Seq(STRING) /\ Len(p) \in Nat \ {0} /\ PrefixesOf(p) \subseteq Paths
         /\ p \in PrefixesOf(p)
<1>1. p \in Seq(STRING) \ {<<>>} /\ PrefixesOf(p) \subseteq Paths
  BY PathsAssumption
<1>2. Len(p) \in Nat \ {0} /\ SubSeq(p, 1, Len(p)) = p
  BY <1>1
<1>3. Len(p) \in 1 .. Len(p)
  BY <1>2
<1>4. p \in PrefixesOf(p)
  BY <1>2, <1>3, Zenon DEF PrefixesOf
<1> QED BY <1>1, <1>2, <1>4

LEMMA StagedPrefixes ==
  ASSUME NEW p \in Publics \cup Temporaries
  PROVE  p \in Paths /\ p \in UNION {PrefixesOf(q) : q \in Publics \cup Temporaries}
BY PublicPlaces, PathParts DEF Temporaries

LEMMA RenamedKeepsFiles ==
  ASSUME FilesInv, NEW public \in Publics, files' = Renamed(Temporary(public), public)
  PROVE  FilesInv' /\ OldNodes
<1> DEFINE temporary == Temporary(public)
<1>1. public \in Paths /\ temporary \in Paths /\ temporary # public
      /\ public \in Staged /\ temporary \in Staged /\ temporary \in Temporaries
  BY PublicPlaces
<1> HIDE DEF temporary
<1>2. DOMAIN files' = Paths /\ files'[public] = files[temporary] /\ files'[temporary] = Absent
      /\ \A p \in Paths \ {public, temporary} : files'[p] = files[p]
  BY <1>1 DEF FilesInv, Renamed, temporary
<1>3. ASSUME NEW p \in Paths PROVE FileAt(files'[p], p)
  <2>1. CASE p = public
    BY <1>1, <1>2, <2>1 DEF FilesInv, FileAt
  <2>2. CASE p # public
    BY <1>1, <1>2, <2>2, AbsentAt DEF FilesInv
  <2> QED BY <2>1, <2>2
<1>4. ASSUME NEW p1 \in Paths, NEW p2 \in Paths, files'[p1].node # None, files'[p1].node = files'[p2].node
      PROVE  p1 = p2
  BY <1>1, <1>2, <1>4, AbsentAt DEF FilesInv
<1>5. OldNodes
  BY <1>1, <1>2, AbsentAt DEF OldNodes
<1> QED BY <1>2, <1>3, <1>4, <1>5, InOrderNext

\* A file without a node replaces another.
LEMMA ReplacedKeepsFiles ==
  ASSUME FilesInv, NEW q, NEW file, q \in Paths => FileAt(file, q) /\ file.node = None,
         files' = [files EXCEPT ![q] = file]
  PROVE  FilesInv' /\ OldNodes
<1>1. DOMAIN files' = Paths /\ (\A p \in Paths \ {q} : files'[p] = files[p])
      /\ (q \in Paths => files'[q] = file)
  BY DEF FilesInv
<1>2. CASE q \in Paths
  BY <1>1, <1>2, ChangedKeepsFiles DEF OldNodes
<1>3. CASE q \notin Paths
  <2>1. \A p \in Paths : files'[p] = files[p]
    BY <1>1, <1>3
  <2>2. FilesInv'
    BY <1>1, <2>1, InOrderNext DEF FilesInv
  <2> QED BY <2>1, <2>2 DEF OldNodes
<1> QED BY <1>2, <1>3

LEMMA UnlinkedKeepsFiles ==
  ASSUME FilesInv, NEW path \in Paths, files' = Unlinked(path)
  PROVE  FilesInv' /\ OldNodes
<1>1. CASE files[path].kind = "dir"
  <2>1. files' = [files EXCEPT ![path] = files[path]] /\ files[path].node = None
    BY <1>1 DEF Unlinked, FilesInv, FileAt
  <2> QED BY <2>1, ReplacedKeepsFiles DEF FilesInv
<1>2. CASE files[path].kind # "dir"
  <2>1. files' = [files EXCEPT ![path] = Absent]
    BY <1>2 DEF Unlinked
  <2> QED BY <2>1, AbsentAt, ReplacedKeepsFiles
<1> QED BY <1>1, <1>2

LEMMA ModeKeepsFiles ==
  ASSUME FilesInv, NEW path \in Paths, NEW x \in BOOLEAN,
         files[path].kind # "absent", x => files[path].kind = "file", files' = [files EXCEPT ![path].exec = x]
  PROVE  FilesInv' /\ OldNodes
<1> DEFINE file == [files[path] EXCEPT !.exec = x]
<1>2. FileAt(files[path], path)
  BY DEF FilesInv
<1>3. files' = [files EXCEPT ![path] = file]
  OBVIOUS
<1>4. /\ DOMAIN file = DOMAIN Absent /\ file.kind = files[path].kind /\ file.node = files[path].node
      /\ file.content = files[path].content /\ file.exec = x
  BY <1>2 DEF FileAt, Absent
<1> HIDE DEF file
<1>5. FileAt(file, path)
  BY <1>2, <1>4 DEF FileAt
<1>6. file.node # None => \A p \in Paths \ {path} : files[p].node # file.node
  BY <1>4 DEF FilesInv
<1>7. FilesInv'
  BY <1>3, <1>5, <1>6, ChangedKeepsFiles
<1>8. OldNodes
  BY <1>3, <1>4 DEF OldNodes, FilesInv
<1> QED BY <1>7, <1>8

-----------------------------------------------------------------------------
(* What a process has worked out stays true.                               *)

\* A step of one process leaves the others where they are.
Local(r) ==
  /\ setting' = setting
  /\ \A s \in Runs \ {r} : pc'[s] = pc[s] /\ work'[s] = work[s] /\ exit'[s] = exit[s]

LEMMA OthersKeepWork ==
  ASSUME WorkInv, NEW r \in Runs, Local(r), WorkOf(r)'
  PROVE  WorkInv'
<1>1. ASSUME NEW s \in Runs \ {r} PROVE WorkOf(s)'
  BY <1>1, Zenon DEF WorkInv, WorkOf, Local, Job
<1> QED BY <1>1 DEF WorkInv

LEMMA ScaffoldIsLocal ==
  ASSUME ProcessInv, NEW r \in Runs, ScaffoldStep(r)
  PROVE  Local(r)
<1> USE DEF Local, ProcessInv, Bookkeeping, Goto, ExitWith, Begin, Undisturbed, CallFails
<1> QED
  BY DEF ScaffoldStep, CheckRequest, CheckOut, MakeParent, CreateShim, FillShim,
         MakeExecutable, ScaffoldCallFails

LEMMA SchemaIsLocal ==
  ASSUME ProcessInv, NEW r \in Runs, SchemaStep(r)
  PROVE  Local(r)
<1> USE DEF Local, ProcessInv, Bookkeeping, Goto, ExitWith, Begin, Undisturbed, CallFails,
            NextContract, WriteFailed
<1>1. CASE BeginSchemas(r) \/ PrepareContract(r) \/ PrepareFails(r)
  BY <1>1 DEF BeginSchemas, PrepareContract, PrepareFails, Prepared
<1>2. CASE ComparePublic(r) \/ CheckPublic(r) \/ PublicUnreadable(r)
  BY <1>2 DEF ComparePublic, CheckPublic, PublicUnreadable
<1>3. CASE MakePublicParent(r) \/ StageOpens(r) \/ StageWrites(r) \/ Publish(r) \/ PublicationFails(r)
  BY <1>3 DEF MakePublicParent, StageOpens, StageWrites, Publish, PublicationFails
<1> QED BY <1>1, <1>2, <1>3 DEF SchemaStep

LEMMA DocsIsLocal ==
  ASSUME ProcessInv, NEW r \in Runs, DocsStep(r)
  PROVE  Local(r)
<1> USE DEF Local, ProcessInv, Bookkeeping, Goto, ExitWith, Begin, Undisturbed, CallFails, Fails
<1>1. CASE BeginDocs(r) \/ DiscoverPattern(r) \/ TraversalFails(r)
  BY <1>1 DEF BeginDocs, DiscoverPattern, TraversalFails
<1>2. CASE LoadSource(r) \/ SourceUnreadable(r)
  <2>1. (\E w : AfterSource(r, w)) /\ UNCHANGED setting
    BY <1>2 DEF LoadSource, SourceUnreadable
  <2> QED BY <2>1 DEF AfterSource
<1>3. CASE PrepareOutput(r) \/ CheckTarget(r) \/ StageDocument(r) \/ Persist(r) \/ OutputFails(r)
  BY <1>3 DEF PrepareOutput, CheckTarget, StageDocument, Persist, OutputFails
<1> QED BY <1>1, <1>2, <1>3 DEF DocsStep

LEMMA KillIsLocal ==
  ASSUME ProcessInv, NEW r \in Runs, Kill(r)
  PROVE  Local(r)
BY DEF Local, ProcessInv, Kill, Goto, ExitWith

-----------------------------------------------------------------------------
(* Nodes: a file has the node of the process that created it.              *)

\* Process r has created the file q, a shim, or the temporary file of a contract it has
\* come to.
HasOpened(r, q) ==
  \/ pc[r] \in {"exited", "fill", "chmod"}
  \/ /\ pc[r] \in {"gen"} \cup WriteLabels
     /\ \E n \in Numbers : /\ n <= work[r].at /\ q = Temporary(Contracts[n].public)
                           /\ n = work[r].at => pc[r] \in {"text", "publish"}

NodesInv ==
  \A p \in Paths, r \in Runs, q \in Paths : files[p].node = <<r, q>> => HasOpened(r, q)

Inv == ProcessInv /\ WorkInv /\ FilesInv /\ NodesInv

\* Where the commands were sent.
LEMMA PlacesOf ==
  ASSUME ProcessInv, NEW r \in Runs
  PROVE  pc[r] \in ScaffoldLabels =>
           /\ Job(r).out \in Paths \ Staged
           /\ PrefixesOf(Parent(Job(r).out)) \cap Published = {}
<1>1. PICK w \in Workloads : setting.job = w.job
  BY DEF ProcessInv
<1>2. pc[r] \in ScaffoldLabels => w.job[r] # None /\ w.job[r].command = "scaffold" /\ w.job[r].out # <<>>
  BY <1>1 DEF ProcessInv, JobOf, Suits, Job
<1>3. pc[r] \in ScaffoldLabels => w.job[r].out \in Paths \ Staged
  BY <1>2, PlacesAssumption DEF Staged
<1> QED BY <1>1, <1>2, <1>3, PlacesAssumption DEF Job

LEMMA PublicOf ==
  ASSUME WorkInv, NEW r \in Runs, pc[r] \in SchemaLabels
  PROVE  /\ work[r].at \in Numbers /\ Public(r) \in Publics
         /\ Public(r) = Contracts[work[r].at].public
BY DEF WorkInv, WorkOf, SchemaWork, Public, Publics

\* The file that a process is about to create has a node of its own.
LEMMA NewNode ==
  ASSUME Inv, NEW r \in Runs
  PROVE  /\ pc[r] = "create" => \A p \in Paths : files[p].node # <<r, Job(r).out>>
         /\ pc[r] = "open" => \A p \in Paths : files[p].node # <<r, Temporary(Public(r))>>
<1>1. ASSUME pc[r] = "create", NEW p \in Paths, files[p].node = <<r, Job(r).out>>
      PROVE  FALSE
  BY <1>1, PlacesOf DEF Inv, NodesInv, HasOpened, ScaffoldLabels, WriteLabels
<1>2. ASSUME pc[r] = "open", NEW p \in Paths, files[p].node = <<r, Temporary(Public(r))>>
      PROVE  FALSE
  <2>1. Public(r) \in Publics /\ Temporary(Public(r)) \in Paths
        /\ work[r].at \in Numbers /\ Public(r) = Contracts[work[r].at].public
    BY <1>2, PublicOf, PublicPlaces DEF Inv, SchemaLabels, WriteLabels
  <2>2. HasOpened(r, Temporary(Public(r)))
    BY <1>2, <2>1 DEF Inv, NodesInv
  <2>3. PICK n \in Numbers : /\ n <= work[r].at /\ Temporary(Public(r)) = Temporary(Contracts[n].public)
                             /\ n # work[r].at
    BY <1>2, <2>2 DEF HasOpened
  <2>4. Public(r) = Contracts[n].public
    BY <2>1, <2>3, ContractsAssumption DEF Publics
  <2> QED BY <2>1, <2>3, <2>4, ContractsAssumption
<1> QED BY <1>1, <1>2

\* Opening the shim.
LEMMA ShimOpens ==
  ASSUME Inv, NEW r \in Runs, pc[r] = "create", CanOpen(Job(r).out),
         files' = Opened(Job(r).out, Descriptor(Job(r).out, <<r, Job(r).out>>))
  PROVE  /\ FilesInv'
         /\ Descriptor(Job(r).out, <<r, Job(r).out>>) \in Runs \X (Paths \ Temporaries)
<1> DEFINE out == Job(r).out
           node == <<r, out>>
<1>1. out \in Paths \ Staged
  BY PlacesOf DEF Inv, ScaffoldLabels
<1>2. Followed(out) \notin Staged /\ Followed(out) \in Paths
  BY <1>1, FollowedIsPath DEF Inv
<1>3. node \in Runs \X Paths /\ node[2] = out /\ out \notin Temporaries
  BY <1>1 DEF Staged
<1>4. \A p \in Paths : files[p].node # node
  BY NewNode
<1>5. files' = Opened(out, Descriptor(out, node)) /\ CanOpen(out)
  BY DEF out, node
<1> HIDE DEF out, node
<1> QED BY <1>1, <1>2, <1>3, <1>4, <1>5, OpenedKeepsFiles DEF out, node, Inv

LEMMA StagingOpens ==
  ASSUME Inv, NEW r \in Runs, pc[r] = "open", CanOpen(Temporary(Public(r))),
         NEW node, node = Descriptor(Temporary(Public(r)), <<r, Temporary(Public(r))>>),
         files' = Opened(Temporary(Public(r)), node)
  PROVE  /\ FilesInv'
         /\ node \in Runs \X Temporaries
         /\ files'[Temporary(Public(r))].node = node
<1> DEFINE temporary == Temporary(Public(r))
           own == <<r, temporary>>
<1>1. Public(r) \in Publics
  BY PublicOf DEF Inv, SchemaLabels, WriteLabels
<1>2. temporary \in Paths /\ temporary \in Staged /\ temporary \in Temporaries
  BY <1>1, PublicPlaces
<1>3. Followed(temporary) = temporary
  BY <1>2, FollowedIsPath DEF Inv
<1>4. own \in Runs \X Paths /\ own[2] = temporary
  BY <1>2
<1>5. \A p \in Paths : files[p].node # own
  BY NewNode
<1>6. files' = Opened(temporary, Descriptor(temporary, own)) /\ CanOpen(temporary)
      /\ node = Descriptor(temporary, own)
  BY DEF temporary, own
<1> HIDE DEF temporary, own
<1>7. FilesInv' /\ node \in Runs \X Paths /\ node[2] \in Temporaries
      /\ files'[temporary].node = node
  BY <1>2, <1>3, <1>4, <1>5, <1>6, OpenedKeepsFiles DEF Inv
<1> QED BY <1>7 DEF temporary

LEMMA ScaffoldKeepsWork ==
  ASSUME Inv, NEW r \in Runs, ScaffoldStep(r)
  PROVE  WorkInv'
<1> USE DEF ScaffoldLabels, DocsLabels, SchemaLabels, WriteLabels
<1>0. r \in DOMAIN pc /\ r \in DOMAIN work
  BY DEF Inv, ProcessInv, Bookkeeping
<1>1. CASE CreateShim(r)
  <2>1. \/ pc'[r] = "exited"
        \/ pc'[r] = "fill" /\ work'[r].fd \in Runs \X (Paths \ Temporaries)
    BY <1>0, <1>1, ShimOpens DEF CreateShim, ExitWith, Goto
  <2>2. WorkOf(r)'
    BY <2>1, Zenon DEF WorkOf
  <2> QED BY <1>1, <2>2, OthersKeepWork, ScaffoldIsLocal DEF Inv
<1>2. CASE ~CreateShim(r)
  <2>1. pc'[r] \in {"exited", "policy", "parent", "create", "chmod"}
    BY <1>0, <1>2 DEF ScaffoldStep, CheckRequest, CheckOut, MakeParent, FillShim,
         MakeExecutable, ScaffoldCallFails, ExitWith, Goto
  <2>2. WorkOf(r)'
    BY <2>1 DEF WorkOf
  <2> QED BY <2>2, OthersKeepWork, ScaffoldIsLocal DEF Inv
<1> QED BY <1>1, <1>2

LEMMA DocumentIsDocument ==
  ASSUME NEW catalog, NEW format
  PROVE  Rendered(catalog, format).what = "document"
BY DEF Rendered

LEMMA AfterSourceKeepsWork ==
  ASSUME Inv, NEW r \in Runs, pc[r] = "load", NEW w, AfterSource(r, w), DOMAIN w = DOMAIN work[r]
  PROVE  WorkOf(r)'
<1> USE DEF ScaffoldLabels, DocsLabels, SchemaLabels, WriteLabels
<1>0. r \in DOMAIN pc /\ r \in DOMAIN work
      /\ DOMAIN w = {"at", "todo", "loaded", "failed", "document", "staged"}
  BY DEF Inv, ProcessInv, Bookkeeping, WorkInv, WorkOf
<1> DEFINE document == Rendered(Catalog(w.loaded), Job(r).format)
<1>1. CASE pc'[r] = "output" /\ work'[r] = [w EXCEPT !.document = document]
  <2>1. document.what = "document"
    BY DocumentIsDocument
  <2> HIDE DEF document
  <2>2. work'[r].document.what = "document" /\ DOMAIN work'[r] = DOMAIN w
    BY <1>0, <1>1, <2>1
  <2> QED BY <1>0, <1>1, <2>2 DEF WorkOf
<1>2. CASE pc'[r] = "load" /\ work'[r] = w
  BY <1>0, <1>2 DEF WorkOf
<1>3. CASE pc'[r] = "exited"
  BY <1>3 DEF WorkOf
<1> HIDE DEF document
<1>4. \/ work' = [work EXCEPT ![r] = w] /\ pc' = pc
      \/ pc' = [pc EXCEPT ![r] = "exited"]
      \/ work' = [work EXCEPT ![r] = [w EXCEPT !.document = document]] /\ pc' = [pc EXCEPT ![r] = "output"]
  BY Zenon DEF AfterSource, Fails, ExitWith, Goto, document
<1> QED BY <1>0, <1>1, <1>2, <1>3, <1>4

LEMMA DocsKeepsWork ==
  ASSUME Inv, NEW r \in Runs, DocsStep(r)
  PROVE  WorkInv'
<1> USE DEF ScaffoldLabels, DocsLabels, SchemaLabels, WriteLabels
<1>0. r \in DOMAIN pc /\ r \in DOMAIN work /\ WorkOf(r)
  BY DEF Inv, ProcessInv, Bookkeeping, WorkInv
<1>1. CASE BeginDocs(r)
  <2>1. /\ DOMAIN work'[r] = {"at", "todo", "loaded", "failed", "document", "staged"}
        /\ pc'[r] \in {"exited", "discover"}
    BY <1>0, <1>1 DEF BeginDocs, Fails, ExitWith, Goto
  <2> QED BY <2>1, OthersKeepWork, DocsIsLocal DEF Inv, WorkOf
<1>2. CASE DiscoverPattern(r) \/ TraversalFails(r)
  <2>1. /\ DOMAIN work'[r] = DOMAIN work[r] /\ pc[r] = "discover"
        /\ pc'[r] \in {"exited", "discover", "load"}
    BY <1>0, <1>2 DEF DiscoverPattern, TraversalFails, Fails, ExitWith, Goto
  <2> QED BY <1>0, <2>1, OthersKeepWork, DocsIsLocal DEF Inv, WorkOf
<1>3. CASE LoadSource(r) \/ SourceUnreadable(r)
  <2> DEFINE path == NextSource(r)
             w == [work[r] EXCEPT !.todo = @ \ {path}]
             failed == [work[r] EXCEPT !.todo = @ \ {path}, !.failed = TRUE]
  <2>0. /\ DOMAIN w = DOMAIN work[r] /\ DOMAIN failed = DOMAIN work[r]
        /\ DOMAIN [w EXCEPT !.failed = TRUE] = DOMAIN work[r]
        /\ \A l : DOMAIN [w EXCEPT !.loaded = @ \cup {l}] = DOMAIN work[r]
    OBVIOUS
  <2>1. pc[r] = "load" /\ \E v : AfterSource(r, v) /\ DOMAIN v = DOMAIN work[r]
    <3>1. CASE LoadSource(r)
      <4>1. pc[r] = "load" /\ \E l : AfterSource(r, [w EXCEPT !.failed = TRUE]) \/ AfterSource(r, [w EXCEPT !.loaded = @ \cup {l}])
        BY <3>1, Zenon DEF LoadSource
      <4> HIDE DEF w, path
      <4> QED BY <2>0, <4>1
    <3>2. CASE SourceUnreadable(r)
      BY <2>0, <3>2, Zenon DEF SourceUnreadable
    <3> QED BY <1>3, <3>1, <3>2
  <2> QED BY <2>1, AfterSourceKeepsWork, OthersKeepWork, DocsIsLocal DEF Inv
<1>4. CASE PrepareOutput(r) \/ CheckTarget(r) \/ StageDocument(r) \/ Persist(r) \/ OutputFails(r)
  <2>1. \/ pc'[r] = "exited"
        \/ /\ DOMAIN work'[r] = DOMAIN work[r] /\ work'[r].document = work[r].document
           /\ pc[r] \in {"output", "target", "stage_document", "persist"}
           /\ pc'[r] \in {"target", "stage_document", "persist"}
    BY <1>0, <1>4 DEF PrepareOutput, CheckTarget, StageDocument, Persist, OutputFails, Fails, ExitWith, Goto, WorkOf
  <2> QED BY <1>0, <2>1, OthersKeepWork, DocsIsLocal DEF Inv, WorkOf
<1> QED BY <1>1, <1>2, <1>3, <1>4 DEF DocsStep

\* One more text is made.
LEMMA AppendPublic ==
  ASSUME NEW k \in Nat \ {0}, NEW s, Filled(s, k - 1), NEW text
  PROVE  /\ Filled(Append(s, text), k)
         /\ Public_(text) /\ (\A i \in 1 .. k - 1 : Public_(s[i]))
              => \A i \in 1 .. k : Public_(Append(s, text)[i])
<1> DEFINE S == {s[i] : i \in 1 .. k - 1} \cup {text}
           n == k - 1
<1>1. n \in Nat /\ n + 1 = k /\ s = [i \in 1 .. n |-> s[i]]
  BY DEF Filled
<1>2. s \in [1 .. n -> S] /\ text \in S
  BY <1>1
<1> HIDE DEF S, n
<1>3. s \in Seq(S) /\ Len(s) = n
  BY <1>1, <1>2
<1>4. /\ Append(s, text) \in Seq(S) /\ Len(Append(s, text)) = n + 1
      /\ \A i \in 1 .. n : Append(s, text)[i] = s[i]
      /\ Append(s, text)[n + 1] = text
  BY <1>2, <1>3, AppendProperties
<1>5. Filled(Append(s, text), k)
  BY <1>1, <1>4 DEF Filled
<1>6. \A i \in 1 .. k : i \in 1 .. n \/ i = k
  BY <1>1
<1> QED BY <1>1, <1>4, <1>5, <1>6 DEF n

LEMMA PreparedKeepsWork ==
  ASSUME Inv, NEW r \in Runs, pc[r] = "prepare",
         NEW defect \in {"none"} \cup Range(Severities), NEW text, Prepared(r, defect, text),
         defect = "none" => Public_(text), UNCHANGED setting
  PROVE  WorkOf(r)'
<1> USE DEF ScaffoldLabels, DocsLabels, SchemaLabels, WriteLabels
<1> DEFINE w == [work[r] EXCEPT !.texts = Append(@, text), !.defects = @ \cup {defect}]
           wrong == w.defects \ {"none"}
           at == work[r].at
<1>1. /\ SchemaWork(work[r]) /\ Filled(work[r].texts, at - 1)
      /\ work[r].defects \subseteq {"none"} => \A n \in 1 .. at - 1 : Public_(work[r].texts[n])
      /\ Job(r).command = "gen" => work[r].stale = {}
  BY DEF Inv, WorkInv, WorkOf
<1>2. at \in 1 .. Len(Contracts) /\ Numbers = 1 .. Len(Contracts) /\ Len(Contracts) \in Nat
  BY <1>1, NumbersFacts DEF SchemaWork
<1>3. /\ DOMAIN w = DOMAIN work[r] /\ w.at = at /\ w.stale = work[r].stale
      /\ w.texts = Append(work[r].texts, text) /\ w.defects = work[r].defects \cup {defect}
  BY <1>1 DEF SchemaWork
<1> HIDE DEF w, at
<1>4. /\ Filled(w.texts, at)
      /\ w.defects \subseteq {"none"} => \A n \in 1 .. at : Public_(w.texts[n])
  <2>1. w.defects \subseteq {"none"} => defect = "none" /\ work[r].defects \subseteq {"none"}
    BY <1>3
  <2>2. at \in Nat \ {0}
    BY <1>2
  <2> DEFINE s == work[r].texts
  <2>3. Filled(s, at - 1)
    BY <1>1
  <2>4. w.texts = Append(s, text)
    BY <1>3
  <2> HIDE DEF s
  <2>5. Filled(Append(s, text), at)
    BY <2>2, <2>3, AppendPublic
  <2>6. Public_(text) /\ (\A i \in 1 .. at - 1 : Public_(s[i])) => \A i \in 1 .. at : Public_(Append(s, text)[i])
    BY <2>2, <2>3, AppendPublic
  <2> QED BY <1>1, <2>1, <2>4, <2>5, <2>6 DEF s
<1>5. r \in DOMAIN pc /\ r \in DOMAIN work /\ setting' = setting /\ Suits(Job(r), "prepare")
  BY DEF Inv, ProcessInv, Bookkeeping, JobOf
<1>6. \/ at < Len(Contracts) /\ work' = [work EXCEPT ![r] = [w EXCEPT !.at = @ + 1]] /\ pc' = pc
      \/ /\ ~(at < Len(Contracts)) /\ work' = [work EXCEPT ![r] = [w EXCEPT !.at = 1]]
         /\ \/ pc' = [pc EXCEPT ![r] = "exited"]
            \/ wrong = {} /\ pc' = [pc EXCEPT ![r] = Job(r).command]
  BY <1>3, Zenon DEF Prepared, w, at, ExitWith, Goto
<1>7. SchemaWork(w)
  BY <1>1, <1>2, <1>3 DEF SchemaWork, w
<1>8. CASE at < Len(Contracts) /\ work' = [work EXCEPT ![r] = [w EXCEPT !.at = @ + 1]] /\ pc' = pc
  <2>1. /\ work'[r].at = at + 1 /\ DOMAIN work'[r] = DOMAIN w /\ work'[r].defects = w.defects
        /\ work'[r].texts = w.texts /\ work'[r].stale = w.stale /\ pc'[r] = "prepare"
    BY <1>3, <1>5, <1>7, <1>8 DEF SchemaWork
  <2>2. at + 1 \in Numbers /\ (at + 1) - 1 = at
    BY <1>2, <1>8
  <2> QED BY <1>1, <1>3, <1>4, <1>5, <1>7, <2>1, <2>2 DEF WorkOf, SchemaWork, Job
<1>9. CASE pc' = [pc EXCEPT ![r] = "exited"]
  BY <1>5, <1>9 DEF WorkOf
<1>10. CASE /\ ~(at < Len(Contracts)) /\ work' = [work EXCEPT ![r] = [w EXCEPT !.at = 1]]
            /\ wrong = {} /\ pc' = [pc EXCEPT ![r] = Job(r).command]
  <2>1. /\ work'[r].at = 1 /\ DOMAIN work'[r] = DOMAIN w /\ work'[r].defects = w.defects
        /\ work'[r].texts = w.texts /\ work'[r].stale = w.stale /\ pc'[r] \in {"gen", "check"}
    BY <1>3, <1>5, <1>7, <1>10 DEF SchemaWork, Suits
  <2>2. 1 \in Numbers /\ \A n \in Numbers : n \in 1 .. at
    BY <1>2, <1>10
  <2> QED BY <1>1, <1>3, <1>4, <1>5, <1>7, <1>10, <2>1, <2>2 DEF WorkOf, SchemaWork, Job
<1> QED BY <1>6, <1>8, <1>9, <1>10

LEMMA NextContractKeepsWork ==
  ASSUME Inv, NEW r \in Runs, pc[r] \in {"gen", "check", "publish"}, NEW w,
         DOMAIN w = DOMAIN work[r], w.at = work[r].at, w.texts = work[r].texts,
         w.defects = work[r].defects, Job(r).command = "gen" => w.stale = {},
         NextContract(r, w), UNCHANGED setting
  PROVE  WorkOf(r)'
<1> USE DEF ScaffoldLabels, DocsLabels, SchemaLabels, WriteLabels
<1>1. /\ SchemaWork(work[r]) /\ \A n \in Numbers : Public_(work[r].texts[n])
      /\ r \in DOMAIN pc /\ r \in DOMAIN work /\ Suits(Job(r), pc[r])
  BY DEF Inv, WorkInv, WorkOf, ProcessInv, Bookkeeping, JobOf
<1>2. Numbers = 1 .. Len(Contracts) /\ Len(Contracts) \in Nat /\ w.at \in Numbers
  BY <1>1, NumbersFacts DEF SchemaWork
<1>3. /\ w.at < Len(Contracts) /\ pc' = [pc EXCEPT ![r] = Job(r).command]
         /\ work' = [work EXCEPT ![r] = [w EXCEPT !.at = @ + 1]]
      \/ pc' = [pc EXCEPT ![r] = "exited"]
  BY Zenon DEF NextContract, ExitWith, Goto
<1>4. CASE pc' = [pc EXCEPT ![r] = "exited"]
  BY <1>1, <1>4 DEF WorkOf
<1>5. CASE /\ w.at < Len(Contracts) /\ pc' = [pc EXCEPT ![r] = Job(r).command]
           /\ work' = [work EXCEPT ![r] = [w EXCEPT !.at = @ + 1]]
  <2>1. /\ work'[r].at = w.at + 1 /\ DOMAIN work'[r] = DOMAIN w /\ work'[r].defects = w.defects
        /\ work'[r].texts = w.texts /\ work'[r].stale = w.stale /\ pc'[r] \in {"gen", "check"}
    BY <1>1, <1>5 DEF SchemaWork, Suits
  <2>2. w.at + 1 \in Numbers
    BY <1>2, <1>5
  <2> QED BY <1>1, <2>1, <2>2 DEF WorkOf, SchemaWork, Job
<1> QED BY <1>3, <1>4, <1>5

LEMMA SchemaKeepsWork ==
  ASSUME Inv, NEW r \in Runs, SchemaStep(r)
  PROVE  WorkInv'
<1> USE DEF ScaffoldLabels, DocsLabels, SchemaLabels, WriteLabels
<1> SUFFICES WorkOf(r)'
  BY OthersKeepWork, SchemaIsLocal DEF Inv
<1>0. /\ r \in DOMAIN pc /\ r \in DOMAIN work /\ WorkOf(r) /\ Suits(Job(r), pc[r])
      /\ UNCHANGED setting
  BY SchemaIsLocal DEF Inv, ProcessInv, Bookkeeping, WorkInv, JobOf, Local
<1>1. CASE BeginSchemas(r)
  <2>1. /\ work'[r] = [at |-> 1, texts |-> <<>>, defects |-> {}, changes |-> <<>>, stale |-> {},
                       action |-> None, fd |-> None]
        /\ pc'[r] = "prepare"
    BY <1>0, <1>1 DEF BeginSchemas, Goto
  <2>2. Filled(<<>>, 0) /\ 1 - 1 = 0
    BY DEF Filled
  <2> QED BY <2>1, <2>2, NumbersFacts DEF WorkOf, SchemaWork
<1>2. CASE PrepareContract(r)
  <2>1. PICK contract, file :
          /\ pc[r] = "prepare"
          /\ Prepared(r, Defect(contract, file),
                      IF Defect(contract, file) = "none" THEN PublicText(file.content) ELSE None)
    BY <1>2, Zenon DEF PrepareContract
  <2>2. Defect(contract, file) \in {"none"} \cup Range(Severities)
    BY DEF Defect, Range, Severities
  <2>3. Public_(PublicText(file.content))
    BY DEF Public_, PublicText
  <2> QED BY <1>0, <2>1, <2>2, <2>3, PreparedKeepsWork
<1>3. CASE PrepareFails(r)
  <2>1. "unreadable" \in {"none"} \cup Range(Severities) /\ "unreadable" # "none"
    BY DEF Range, Severities
  <2> QED BY <1>0, <1>3, <2>1, PreparedKeepsWork DEF PrepareFails
<1>4. CASE ComparePublic(r)
  <2>1. CASE pc'[r] = "exited"
    BY <2>1 DEF WorkOf
  <2>2. CASE \E change : NextContract(r, work[r]) \/ NextContract(r, Reporting(work[r], change))
    <3>1. PICK w : NextContract(r, w) /\ (w = work[r] \/ \E change : w = Reporting(work[r], change))
      BY <2>2
    <3>2. /\ DOMAIN w = DOMAIN work[r] /\ w.at = work[r].at /\ w.texts = work[r].texts
          /\ w.defects = work[r].defects /\ w.stale = work[r].stale
      BY <1>0, <1>4, <3>1 DEF Reporting, WorkOf, SchemaWork, ComparePublic
    <3> QED BY <1>0, <1>4, <3>1, <3>2, NextContractKeepsWork DEF ComparePublic, WorkOf
  <2>3. CASE pc'[r] = "stage" /\ \E action : work' = [work EXCEPT ![r].action = action]
    BY <1>0, <1>4, <2>3 DEF ComparePublic, WorkOf, SchemaWork, Job
  <2> QED BY <1>0, <1>4, <2>1, <2>2, <2>3 DEF ComparePublic, ExitWith, Goto
<1>5. CASE MakePublicParent(r)
  <2>1. pc[r] = "stage" /\ (pc'[r] = "exited" \/ (pc'[r] = "open" /\ work' = work))
    BY <1>0, <1>5 DEF MakePublicParent, WriteFailed, ExitWith, Goto
  <2> QED BY <1>0, <2>1 DEF WorkOf, Job
<1>6. CASE StageOpens(r)
  <2> DEFINE temporary == Temporary(Public(r))
             node == Descriptor(temporary, <<r, temporary>>)
  <2>1. \/ pc'[r] = "exited"
        \/ /\ pc[r] = "open" /\ pc'[r] = "text" /\ work' = [work EXCEPT ![r].fd = node]
           /\ CanOpen(temporary) /\ files' = Opened(temporary, node)
    BY <1>0, <1>6 DEF StageOpens, WriteFailed, ExitWith, Goto
  <2>2. CASE pc'[r] = "exited"
    BY <2>2 DEF WorkOf
  <2>3. CASE pc'[r] # "exited"
    <3>1. node \in Runs \X Temporaries
      BY <2>1, <2>3, StagingOpens
    <3> HIDE DEF node
    <3>2. /\ DOMAIN work'[r] = DOMAIN work[r] /\ work'[r].at = work[r].at /\ work'[r].fd = node
          /\ work'[r].texts = work[r].texts /\ work'[r].defects = work[r].defects
          /\ work'[r].stale = work[r].stale
      BY <1>0, <2>1, <2>3 DEF WorkOf, SchemaWork
    <3> QED BY <1>0, <2>1, <2>3, <3>1, <3>2 DEF WorkOf, SchemaWork, Job
  <2> QED BY <2>2, <2>3
<1>7. CASE StageWrites(r)
  BY <1>0, <1>7 DEF StageWrites, Goto, WorkOf, Job
<1>8. CASE Publish(r)
  <2>1. CASE pc'[r] = "exited"
    BY <2>1 DEF WorkOf
  <2>2. CASE \E change : NextContract(r, Reporting(work[r], change))
    <3>1. PICK w : NextContract(r, w) /\ \E change : w = Reporting(work[r], change)
      BY <2>2
    <3>2. /\ DOMAIN w = DOMAIN work[r] /\ w.at = work[r].at /\ w.texts = work[r].texts
          /\ w.defects = work[r].defects /\ w.stale = work[r].stale
      BY <1>0, <1>8, <3>1 DEF Reporting, WorkOf, SchemaWork, Publish
    <3> QED BY <1>0, <1>8, <3>1, <3>2, NextContractKeepsWork DEF Publish, WorkOf
  <2> QED BY <1>0, <1>8, <2>1, <2>2 DEF Publish, WriteFailed, ExitWith, Goto
<1>9. CASE PublicationFails(r) \/ PublicUnreadable(r)
  <2>1. pc'[r] = "exited"
    BY <1>0, <1>9 DEF PublicationFails, PublicUnreadable, WriteFailed, ExitWith, Goto
  <2> QED BY <2>1 DEF WorkOf
<1>10. CASE CheckPublic(r)
  <2>1. CASE pc'[r] = "exited"
    BY <2>1 DEF WorkOf
  <2>2. CASE \E w : NextContract(r, w) /\ (w = work[r] \/ w = [work[r] EXCEPT !.stale = @ \cup {Public(r)}])
    <3>1. PICK w : NextContract(r, w) /\ (w = work[r] \/ w = [work[r] EXCEPT !.stale = @ \cup {Public(r)}])
      BY <2>2
    <3>2. /\ DOMAIN w = DOMAIN work[r] /\ w.at = work[r].at /\ w.texts = work[r].texts
          /\ w.defects = work[r].defects
      BY <1>0, <1>10, <3>1 DEF WorkOf, SchemaWork, CheckPublic
    <3>3. Job(r).command = "check"
      BY <1>0, <1>10 DEF CheckPublic, Suits
    <3> QED BY <1>0, <1>10, <3>1, <3>2, <3>3, NextContractKeepsWork DEF CheckPublic
  <2> QED BY <1>0, <1>10, <2>1, <2>2 DEF CheckPublic, ExitWith, Goto
<1> QED
  BY <1>1, <1>2, <1>3, <1>4, <1>5, <1>6, <1>7, <1>8, <1>9, <1>10 DEF SchemaStep

-----------------------------------------------------------------------------
(* The file system stays in order.                                         *)

OpenedGrows == \A s \in Runs : \A q : HasOpened(s, q) => HasOpened(s, q)'

LEMMA OldNodesKept ==
  ASSUME NodesInv, OldNodes, OpenedGrows
  PROVE  NodesInv'
<1> SUFFICES ASSUME NEW p \in Paths, NEW s \in Runs, NEW q \in Paths, files'[p].node = <<s, q>>
             PROVE  HasOpened(s, q)'
  BY Zenon DEF NodesInv, HasOpened
<1>1. <<s, q>> # None
  BY NoneAssumption
<1>2. PICK p2 \in Paths : files[p2].node = <<s, q>>
  BY <1>1 DEF OldNodes
<1> QED BY <1>2 DEF NodesInv, OpenedGrows

LEMMA ExitGrows ==
  ASSUME ProcessInv, NEW r \in Runs, Local(r), pc'[r] = "exited"
  PROVE  OpenedGrows
BY DEF OpenedGrows, HasOpened, Local

LEMMA ScaffoldGrows ==
  ASSUME Inv, NEW r \in Runs, ScaffoldStep(r)
  PROVE  OpenedGrows
<1> USE DEF ScaffoldLabels, DocsLabels, SchemaLabels, WriteLabels
<1>1. Local(r) /\ r \in DOMAIN pc
  BY ScaffoldIsLocal DEF Inv, ProcessInv
<1>2. \/ pc[r] \in {"start", "policy", "parent", "create"}
      \/ pc'[r] \in {"exited", "chmod"}
  BY <1>1 DEF ScaffoldStep, CheckRequest, Scaffold, Begin, CheckOut, MakeParent, CreateShim, FillShim,
       MakeExecutable, ScaffoldCallFails, ExitWith, Goto
<1> QED BY <1>1, <1>2 DEF OpenedGrows, HasOpened, Local

LEMMA DocsGrows ==
  ASSUME Inv, NEW r \in Runs, DocsStep(r)
  PROVE  OpenedGrows
<1> USE DEF ScaffoldLabels, DocsLabels, SchemaLabels, WriteLabels
<1>1. Local(r)
  BY DocsIsLocal DEF Inv
<1>2. pc[r] \in {"start"} \cup DocsLabels
  BY DEF DocsStep, BeginDocs, Begin, DiscoverPattern, TraversalFails, LoadSource, SourceUnreadable,
         PrepareOutput, CheckTarget, StageDocument, Persist, OutputFails
<1> QED BY <1>1, <1>2 DEF OpenedGrows, HasOpened, Local

LEMMA SchemaGrows ==
  ASSUME Inv, NEW r \in Runs, SchemaStep(r)
  PROVE  OpenedGrows
<1> USE DEF ScaffoldLabels, DocsLabels, SchemaLabels, WriteLabels
<1>0. /\ r \in DOMAIN pc /\ r \in DOMAIN work /\ WorkOf(r) /\ WorkOf(r)' /\ Local(r)
      /\ Suits(Job(r), pc[r])
  BY SchemaIsLocal, SchemaKeepsWork DEF Inv, ProcessInv, Bookkeeping, WorkInv, JobOf
<1>1. pc[r] \in {"gen"} \cup WriteLabels =>
        \/ pc'[r] = "exited"
        \/ /\ pc'[r] \in {"stage", "open"} /\ work'[r].at = work[r].at
           /\ pc[r] \in {"gen", "stage"}
        \/ pc'[r] \in {"text", "publish"} /\ work'[r].at = work[r].at
        \/ pc'[r] = "gen" /\ work'[r].at = work[r].at + 1
  <2>1. SchemaStep(r) /\ pc[r] \in {"gen"} \cup WriteLabels =>
          \/ ComparePublic(r) \/ MakePublicParent(r) \/ StageOpens(r) \/ StageWrites(r) \/ Publish(r)
          \/ PublicationFails(r) \/ PublicUnreadable(r)
    BY DEF SchemaStep, BeginSchemas, Begin, PrepareContract, PrepareFails, CheckPublic
  <2>2. CASE ComparePublic(r)
    <3>1. CASE \E change : NextContract(r, work[r]) \/ NextContract(r, Reporting(work[r], change))
      <4>1. PICK w : NextContract(r, w) /\ (w = work[r] \/ \E change : w = Reporting(work[r], change))
        BY <3>1
      <4>2. w.at = work[r].at /\ DOMAIN w = DOMAIN work[r]
        BY <1>0, <2>2, <4>1 DEF Reporting, WorkOf, SchemaWork, ComparePublic
      <4>3. Job(r).command = "gen" /\ "at" \in DOMAIN w
        BY <1>0, <2>2, <4>2 DEF ComparePublic, Suits, WorkOf, SchemaWork
      <4> QED BY <1>0, <4>1, <4>2, <4>3 DEF NextContract, ExitWith, Goto
    <3>2. CASE pc' = [pc EXCEPT ![r] = "stage"] /\ \E action : work' = [work EXCEPT ![r].action = action]
      BY <1>0, <2>2, <3>2 DEF ComparePublic, WorkOf, SchemaWork
    <3> QED BY <1>0, <2>2, <3>1, <3>2 DEF ComparePublic, ExitWith, Goto
  <2>3. CASE MakePublicParent(r)
    BY <1>0, <2>3 DEF MakePublicParent, WriteFailed, ExitWith, Goto
  <2>4. CASE StageOpens(r)
    BY <1>0, <2>4 DEF StageOpens, WriteFailed, ExitWith, Goto, WorkOf, SchemaWork
  <2>5. CASE StageWrites(r)
    BY <1>0, <2>5 DEF StageWrites, Goto
  <2>6. CASE Publish(r)
    <3>1. CASE \E change : NextContract(r, Reporting(work[r], change))
      <4>1. PICK w : NextContract(r, w) /\ \E change : w = Reporting(work[r], change)
        BY <3>1
      <4>2. w.at = work[r].at /\ DOMAIN w = DOMAIN work[r]
        BY <1>0, <2>6, <4>1 DEF Reporting, WorkOf, SchemaWork, Publish
      <4>3. Job(r).command = "gen" /\ "at" \in DOMAIN w
        BY <1>0, <2>6, <4>2 DEF Publish, Suits, WorkOf, SchemaWork
      <4> QED BY <1>0, <4>1, <4>2, <4>3 DEF NextContract, ExitWith, Goto
    <3> QED BY <1>0, <2>6, <3>1 DEF Publish, WriteFailed, ExitWith, Goto
  <2>7. CASE PublicationFails(r) \/ PublicUnreadable(r)
    BY <1>0, <2>7 DEF PublicationFails, PublicUnreadable, WriteFailed, ExitWith, Goto
  <2> QED BY <2>1, <2>2, <2>3, <2>4, <2>5, <2>6, <2>7
<1>2. ASSUME NEW q, HasOpened(r, q) PROVE HasOpened(r, q)'
  <2>1. pc[r] \in {"gen"} \cup WriteLabels /\ work[r].at \in Numbers /\ work[r].at \in Nat
    <3>1. pc[r] \notin {"exited", "fill", "chmod"}
      BY DEF SchemaStep, BeginSchemas, Begin, PrepareContract, PrepareFails, ComparePublic, MakePublicParent,
             StageOpens, StageWrites, Publish, PublicationFails, CheckPublic, PublicUnreadable
    <3> QED BY <1>0, <1>2, <3>1, NumbersFacts DEF HasOpened, WorkOf, SchemaWork
  <2>2. PICK n \in Numbers : /\ n <= work[r].at /\ q = Temporary(Contracts[n].public)
                             /\ n = work[r].at => pc[r] \in {"text", "publish"}
    BY <1>2, <2>1 DEF HasOpened
  <2>3. n \in Nat
    BY NumbersFacts
  <2> QED BY <1>0, <1>1, <2>1, <2>2, <2>3 DEF HasOpened
<1>3. ASSUME NEW s \in Runs \ {r}, NEW q, HasOpened(s, q) PROVE HasOpened(s, q)'
  BY <1>0, <1>3 DEF HasOpened, Local
<1>4. ASSUME NEW s \in Runs, NEW q, HasOpened(s, q) PROVE HasOpened(s, q)'
  <2>1. CASE s = r
    BY <1>2, <1>4, <2>1
  <2>2. CASE s # r
    BY <1>3, <1>4, <2>2
  <2> QED BY <2>1, <2>2
<1> QED BY <1>4, Zenon DEF OpenedGrows

LEMMA SameFilesKept ==
  ASSUME FilesInv, UNCHANGED files
  PROVE  FilesInv' /\ OldNodes
<1>1. FilesInv'
  BY InOrderNext DEF FilesInv
<1> QED BY <1>1 DEF OldNodes

LEMMA ScaffoldKeepsFiles ==
  ASSUME Inv, NEW r \in Runs, ScaffoldStep(r)
  PROVE  FilesInv' /\ NodesInv'
<1> USE DEF ScaffoldLabels, DocsLabels, SchemaLabels, WriteLabels
<1>0. /\ r \in DOMAIN pc /\ r \in DOMAIN work /\ OpenedGrows
      /\ pc[r] \in ScaffoldLabels => Job(r).out \in Paths \ Staged
  BY ScaffoldGrows, PlacesOf DEF Inv, ProcessInv, Bookkeeping
<1>1. CASE UNCHANGED files
  BY <1>0, <1>1, SameFilesKept, OldNodesKept DEF Inv
<1>2. CASE \E path : files' = WithDirectories(path)
  BY <1>0, <1>2, DirectoriesKeepFiles, OldNodesKept DEF Inv
<1>3. CASE CreateShim(r) /\ files' # files
  <2> DEFINE out == Job(r).out
             node == <<r, out>>
             own == Descriptor(out, node)
  <2>1. pc[r] = "create" /\ CanOpen(out) /\ files' = Opened(out, own) /\ pc'[r] = "fill"
    BY <1>0, <1>3 DEF CreateShim, Goto
  <2>2. FilesInv'
    BY <2>1, ShimOpens
  <2>3. own = node \/ own = files[Followed(out)].node
    BY DEF Descriptor
  <2>4. Followed(out) \in Paths /\ out \in Paths
    BY <1>0, <2>1, FollowedIsPath DEF Inv
  <2>5. \A p \in Paths : files'[p] = files[p] \/ files'[p].node = own
    <3> HIDE DEF own
    <3>1. \A p \in Paths \ {Followed(out)} : files'[p] = files[p]
      BY <2>1, <2>4 DEF Opened, Inv, FilesInv
    <3>2. files'[Followed(out)].node = own
      BY <2>1, <2>4 DEF Opened, Inv, FilesInv, FileAt, Absent
    <3> QED BY <3>1, <3>2
  <2>7. ASSUME NEW p \in Paths, NEW s \in Runs, NEW q \in Paths, files'[p].node = <<s, q>>
        PROVE  HasOpened(s, q)'
    <3>1. CASE \E p2 \in Paths : files[p2].node = <<s, q>>
      BY <1>0, <3>1 DEF Inv, NodesInv, OpenedGrows
    <3>2. CASE ~\E p2 \in Paths : files[p2].node = <<s, q>>
      <4>1. <<s, q>> = <<r, out>>
        BY <2>3, <2>4, <2>5, <2>7, <3>2
      <4>2. s = r
        BY <4>1
      <4> QED BY <2>1, <4>2 DEF HasOpened
    <3> QED BY <3>1, <3>2
  <2> QED BY <2>2, <2>7, Zenon DEF NodesInv, HasOpened
<1>4. CASE FillShim(r)
  BY <1>0, <1>4, WrittenKeepsFiles, OldNodesKept DEF FillShim, Inv
<1>5. CASE MakeExecutable(r) /\ files' # files
  <2>1. PICK x \in BOOLEAN : /\ pc[r] = "chmod" /\ files[Followed(Job(r).out)].kind # "absent"
                             /\ x => files[Followed(Job(r).out)].kind = "file"
                             /\ files' = [files EXCEPT ![Followed(Job(r).out)].exec = x]
    BY <1>5 DEF MakeExecutable
  <2>2. Followed(Job(r).out) \in Paths
    BY <1>0, <2>1, FollowedIsPath DEF Inv
  <2> QED BY <1>0, <2>1, <2>2, ModeKeepsFiles, OldNodesKept DEF Inv
<1> QED
  BY <1>1, <1>2, <1>3, <1>4, <1>5
     DEF ScaffoldStep, CheckRequest, CheckOut, MakeParent, ScaffoldCallFails, CallFails

LEMMA DocsKeepsFiles ==
  ASSUME Inv, NEW r \in Runs, DocsStep(r)
  PROVE  FilesInv' /\ NodesInv'
<1>0. OpenedGrows
  BY DocsGrows
<1>1. CASE UNCHANGED files
  BY <1>0, <1>1, SameFilesKept, OldNodesKept DEF Inv
<1>2. CASE \E path : files' = WithDirectories(path)
  BY <1>0, <1>2, DirectoriesKeepFiles, OldNodesKept DEF Inv
<1>3. CASE \E target, document : files' = [files EXCEPT ![target] = Regular(document)]
  BY <1>0, <1>3, RegularAt, ReplacedKeepsFiles, OldNodesKept DEF Inv
<1>4. CASE PrepareOutput(r)
  BY <1>1, <1>2, <1>4 DEF PrepareOutput
<1> QED
  BY <1>1, <1>3, <1>4
     DEF DocsStep, BeginDocs, DiscoverPattern, TraversalFails, LoadSource, SourceUnreadable,
         CheckTarget, StageDocument, Persist, OutputFails, CallFails

LEMMA SchemaKeepsFiles ==
  ASSUME Inv, NEW r \in Runs, SchemaStep(r)
  PROVE  FilesInv' /\ NodesInv'
<1> USE DEF ScaffoldLabels, DocsLabels, SchemaLabels, WriteLabels
<1>0. /\ r \in DOMAIN pc /\ r \in DOMAIN work /\ OpenedGrows
      /\ pc[r] \in WriteLabels =>
           /\ work[r].at \in Numbers /\ Public(r) = Contracts[work[r].at].public /\ SchemaWork(work[r])
           /\ Public(r) \in Publics /\ Temporary(Public(r)) \in Paths
  BY SchemaGrows, PublicOf, PublicPlaces DEF Inv, ProcessInv, Bookkeeping, WorkInv, WorkOf
<1>1. CASE UNCHANGED files
  BY <1>0, <1>1, SameFilesKept, OldNodesKept DEF Inv
<1>2. CASE \E path : files' = WithDirectories(path)
  BY <1>0, <1>2, DirectoriesKeepFiles, OldNodesKept DEF Inv
<1>3. CASE pc[r] \in WriteLabels /\ files' = Unlinked(Temporary(Public(r)))
  BY <1>0, <1>3, UnlinkedKeepsFiles, OldNodesKept DEF Inv
<1>4. CASE StageOpens(r) /\ files' # Unlinked(Temporary(Public(r)))
  <2> DEFINE temporary == Temporary(Public(r))
             node == <<r, temporary>>
             own == Descriptor(temporary, node)
  <2>1. /\ pc[r] = "open" /\ CanOpen(temporary) /\ files' = Opened(temporary, own) /\ pc'[r] = "text"
        /\ work' = [work EXCEPT ![r].fd = own]
    BY <1>0, <1>4 DEF StageOpens, Goto
  <2>2. FilesInv' /\ files'[temporary].node = own
    BY <2>1, StagingOpens
  <2>3. own = node \/ own = files[Followed(temporary)].node
    BY DEF Descriptor
  <2>4. Followed(temporary) = temporary /\ temporary \in Paths
    BY <1>0, <2>1, PublicPlaces, FollowedIsPath DEF Inv
  <2>5. \A p \in Paths : files'[p] = files[p] \/ files'[p].node = own
    <3> HIDE DEF own
    <3>1. \A p \in Paths \ {temporary} : files'[p] = files[p]
      BY <2>1, <2>4 DEF Opened, Inv, FilesInv
    <3> QED BY <2>2, <3>1
  <2>6. ASSUME NEW q, q = temporary PROVE HasOpened(r, q)'
    <3>1. work'[r].at = work[r].at
      BY <1>0, <2>1 DEF SchemaWork
    <3>2. work[r].at <= work[r].at
      BY <1>0, <2>1, NumbersFacts
    <3> QED BY <1>0, <2>1, <2>6, <3>1, <3>2 DEF HasOpened
  <2>7. ASSUME NEW p \in Paths, NEW s \in Runs, NEW q \in Paths, files'[p].node = <<s, q>>
        PROVE  HasOpened(s, q)'
    <3>1. CASE \E p2 \in Paths : files[p2].node = <<s, q>>
      BY <1>0, <3>1 DEF Inv, NodesInv, OpenedGrows
    <3>2. CASE ~\E p2 \in Paths : files[p2].node = <<s, q>>
      <4>1. <<s, q>> = <<r, temporary>>
        BY <2>3, <2>4, <2>5, <2>7, <3>2
      <4>2. s = r /\ q = temporary
        BY <4>1
      <4>3. HasOpened(r, q)'
        BY <2>6, <4>2
      <4> QED BY <4>2, <4>3
    <3> QED BY <3>1, <3>2
  <2> QED BY <2>2, <2>7, Zenon DEF NodesInv, HasOpened
<1>5. CASE StageWrites(r)
  BY <1>0, <1>5, WrittenKeepsFiles, OldNodesKept DEF StageWrites, Inv
<1>6. CASE pc[r] = "publish" /\ files' = Renamed(Temporary(Public(r)), Public(r))
  BY <1>0, <1>6, RenamedKeepsFiles, OldNodesKept DEF Inv
<1>7. CASE Publish(r)
  BY <1>3, <1>6, <1>7 DEF Publish
<1>8. CASE MakePublicParent(r)
  BY <1>1, <1>2, <1>8 DEF MakePublicParent
<1>9. CASE PublicationFails(r)
  BY <1>1, <1>3, <1>9 DEF PublicationFails
<1>10. CASE StageOpens(r)
  BY <1>3, <1>4, <1>10 DEF StageOpens
<1> QED
  BY <1>1, <1>5, <1>7, <1>8, <1>9, <1>10
     DEF SchemaStep, BeginSchemas, PrepareContract, PrepareFails, ComparePublic, CheckPublic,
         PublicUnreadable, CallFails

LEMMA InterfereKeepsFiles ==
  ASSUME Inv, Interfere
  PROVE  FilesInv' /\ NodesInv'
<1>1. PICK w \in Workloads : setting.contested = w.contested /\ setting.foreign = w.foreign
  BY DEF Inv, ProcessInv
<1>2. PICK path \in w.contested, file \in w.foreign : files' = [files EXCEPT ![path] = file]
  BY <1>1 DEF Interfere
<1>3. Settled(file)
  BY WorkloadAssumption
<1>4. file.kind = "link" => file.content \in Paths \ Staged /\ path \notin Publics \cup Temporaries
  BY StagedPrefixes, PlacesAssumption DEF LinksIn, Staged, Range
<1>5. path \in Paths => FileAt(file, path) /\ file.node = None
  BY <1>3, <1>4, SettledAt
<1>6. OpenedGrows
  BY DEF Interfere, OpenedGrows, HasOpened
<1> QED BY <1>2, <1>5, <1>6, ReplacedKeepsFiles, OldNodesKept DEF Inv

-----------------------------------------------------------------------------
(* The invariant.                                                          *)

LEMMA InitInv ==
  ASSUME ToolInit
  PROVE  Inv
<1> USE DEF ScaffoldLabels, DocsLabels, SchemaLabels, WriteLabels
<1>1. PICK w \in Workloads :
        /\ setting = [job |-> w.job, files |-> w.files, contested |-> w.contested, foreign |-> w.foreign]
        /\ files = w.files /\ budget = w.budget
        /\ pc = [r \in Runs |-> IF w.job[r] = None THEN "exited" ELSE "start"]
  BY DEF ToolInit
<1>2. /\ work = [r \in Runs |-> None] /\ exit = [r \in Runs |-> None] /\ met = [r \in Runs |-> {}]
      /\ seen = [r \in Runs |-> files]
  BY DEF ToolInit
<1>3. ProcessInv
  <2>1. Bookkeeping
    BY <1>1, <1>2, WorkloadAssumption DEF Bookkeeping
  <2>2. pc \in [Runs -> Labels] /\ exit \in [Runs -> ExitStates \cup {None}]
    BY <1>1, <1>2 DEF Labels
  <2>3. \A r \in Runs : JobOf(r)
    BY <1>1, <1>2 DEF JobOf, Suits, Job
  <2> QED BY <1>1, <2>1, <2>2, <2>3 DEF ProcessInv
<1>4. WorkInv
  BY <1>1 DEF WorkInv, WorkOf
<1>5. \A p \in Paths : FileAt(files[p], p) /\ files[p].node = None
  <2>1. ASSUME NEW p \in Paths PROVE FileAt(files[p], p) /\ files[p].node = None
    <3>1. Settled(files[p]) /\ files[p] \in Range(w.files)
      BY <1>1, WorkloadAssumption DEF Range
    <3>2. files[p].kind = "link" => files[p].content \in Paths \ Staged /\ p \notin Publics \cup Temporaries
      BY <1>1, <3>1, StagedPrefixes, PlacesAssumption DEF LinksIn, Staged
    <3> QED BY <3>1, <3>2, SettledAt
  <2> QED BY <2>1
<1>6. FilesInv
  BY <1>1, <1>5, WorkloadAssumption DEF FilesInv
<1>7. NodesInv
  <2>1. \A r \in Runs, q \in Paths : <<r, q>> # None
    BY NoneAssumption
  <2> QED BY <1>5, <2>1 DEF NodesInv
<1> QED BY <1>3, <1>4, <1>6, <1>7 DEF Inv

LEMMA NextInv ==
  ASSUME Inv, [ToolNext]_toolVars
  PROVE  Inv'
<1>1. ProcessInv'
  BY NextKeepsProcess DEF Inv
<1>2. CASE UNCHANGED toolVars
  <2>1. WorkInv'
    BY <1>2, Zenon DEF Inv, WorkInv, WorkOf, toolVars, Job
  <2>2. FilesInv' /\ OldNodes /\ OpenedGrows
    BY <1>2, SameFilesKept DEF Inv, toolVars, OpenedGrows, HasOpened
  <2> QED BY <1>1, <2>1, <2>2, OldNodesKept DEF Inv
<1>3. ASSUME NEW r \in Runs, ScaffoldStep(r) \/ SchemaStep(r) \/ DocsStep(r)
      PROVE  Inv'
  BY <1>1, <1>3, ScaffoldKeepsWork, SchemaKeepsWork, DocsKeepsWork,
     ScaffoldKeepsFiles, SchemaKeepsFiles, DocsKeepsFiles DEF Inv
<1>4. ASSUME NEW r \in Runs, Kill(r) PROVE Inv'
  <2>1. Local(r) /\ pc'[r] = "exited" /\ UNCHANGED files
    BY <1>4, KillIsLocal DEF Kill, ExitWith, Goto, Inv, ProcessInv
  <2>2. WorkOf(r)'
    BY <2>1 DEF WorkOf, ScaffoldLabels, DocsLabels, SchemaLabels, WriteLabels
  <2>3. WorkInv'
    BY <2>1, <2>2, OthersKeepWork DEF Inv
  <2>4. FilesInv' /\ NodesInv'
    BY <2>1, ExitGrows, SameFilesKept, OldNodesKept DEF Inv
  <2> QED BY <1>1, <2>3, <2>4 DEF Inv
<1>5. CASE Interfere
  <2>1. WorkInv'
    BY <1>5, Zenon DEF Inv, WorkInv, WorkOf, Interfere, Job
  <2> QED BY <1>1, <1>5, <2>1, InterfereKeepsFiles DEF Inv
<1>6. CASE Ended
  BY <1>2, <1>6 DEF Ended
<1> QED BY <1>2, <1>3, <1>4, <1>5, <1>6 DEF ToolNext

\* What every state of the commands looks like.
THEOREM Reachable == ToolSpec => []Inv
<1>1. ToolInit => Inv
  BY InitInv
<1>2. Inv /\ [ToolNext]_toolVars => Inv'
  BY NextInv
<1> QED BY <1>1, <1>2, PTL DEF ToolSpec

\* For every workload: every path has one kind of file, only regular files have a node or
\* a mode, and a process has an exit code, one of those its command has, exactly when it
\* was started and has exited (Tools!TypeOK).
THEOREM TypeTheorem == ToolSpec => []TypeOK
<1>1. Inv => TypeOK
  BY DEF Inv, ProcessInv, Bookkeeping, FilesInv, FileAt, JobOf, ExitStates, TypeOK, Exited
<1> QED BY <1>1, Reachable, PTL

-----------------------------------------------------------------------------
(* A process that nothing but its own failures disturbs is alone.          *)

StepOf(r) == ScaffoldStep(r) \/ SchemaStep(r) \/ DocsStep(r) \/ Kill(r)

Lone(r) == met[r] \cap {"other", "foreign"} = {}

\* Processes that run at the same time know of each other.
Known == \A r, s \in Runs : r # s /\ Active(r) /\ Active(s) => "other" \in met[r]

LEMMA StepIsLocal ==
  ASSUME ProcessInv, NEW r \in Runs, StepOf(r)
  PROVE  Local(r)
BY ScaffoldIsLocal, SchemaIsLocal, DocsIsLocal, KillIsLocal DEF StepOf

\* A step of a process either begins it, or leaves what each has met and seen, but for its
\* own failures.
LEMMA BeginsOrRuns ==
  ASSUME ProcessInv, NEW r \in Runs, StepOf(r)
  PROVE  \/ pc[r] = "start" /\ Begin(r) /\ UNCHANGED files
         \/ /\ Active(r) /\ seen' = seen
            /\ \A s \in Runs : met[s] \subseteq met'[s] /\ (s # r => met'[s] = met[s])
<1> USE DEF ProcessInv, Bookkeeping, Active, Undisturbed, CallFails
<1>1. CASE ScaffoldStep(r)
  BY <1>1 DEF ScaffoldStep, CheckRequest, Begin, CheckOut, MakeParent, CreateShim, FillShim,
       MakeExecutable, ScaffoldCallFails
<1>2. CASE SchemaStep(r)
  BY <1>2 DEF SchemaStep, BeginSchemas, Begin, PrepareContract, PrepareFails, ComparePublic,
       MakePublicParent, StageOpens, StageWrites, Publish, PublicationFails, CheckPublic,
       PublicUnreadable
<1>3. CASE DocsStep(r)
  BY <1>3 DEF DocsStep, BeginDocs, Begin, DiscoverPattern, TraversalFails, LoadSource,
       SourceUnreadable, PrepareOutput, CheckTarget, StageDocument, Persist, OutputFails
<1>4. CASE Kill(r)
  BY <1>4 DEF Kill
<1> QED BY <1>1, <1>2, <1>3, <1>4 DEF StepOf

LEMMA KnownKept ==
  ASSUME ProcessInv, Known, [ToolNext]_toolVars
  PROVE  Known'
<1>1. CASE UNCHANGED toolVars \/ Ended
  BY <1>1 DEF toolVars, Ended, Known, Active
<1>2. ASSUME NEW s \in Runs, StepOf(s) PROVE Known'
  <2>1. \A r \in Runs \ {s} : pc'[r] = pc[r]
    BY <1>2, StepIsLocal DEF Local
  <2>2. CASE pc[s] = "start" /\ Begin(s)
    BY <2>1, <2>2 DEF Known, Active, Begin
  <2>3. CASE Active(s) /\ \A r \in Runs : met[r] \subseteq met'[r]
    BY <2>1, <2>3 DEF Known, Active
  <2> QED BY <1>2, <2>2, <2>3, BeginsOrRuns
<1>3. CASE Interfere
  BY <1>3 DEF Interfere, Known, Active
<1> QED BY <1>1, <1>2, <1>3 DEF ToolNext, StepOf

LEMMA AloneWhileLone ==
  ASSUME ProcessInv, Known, [ToolNext]_toolVars, NEW r \in Runs, Active(r), Lone(r)'
  PROVE  Lone(r) /\ (UNCHANGED toolVars \/ (StepOf(r) /\ seen' = seen))
<1>1. CASE UNCHANGED toolVars \/ Ended
  BY <1>1 DEF toolVars, Ended, Lone
<1>2. ASSUME NEW s \in Runs, StepOf(s) PROVE Lone(r) /\ s = r /\ seen' = seen
  <2>1. CASE pc[s] = "start" /\ Begin(s)
    <3>1. r # s /\ "other" \in met'[r]
      BY <2>1 DEF Active, Begin
    <3> QED BY <3>1 DEF Lone
  <2>2. CASE /\ Active(s) /\ seen' = seen
             /\ \A t \in Runs : met[t] \subseteq met'[t] /\ (t # s => met'[t] = met[t])
    BY <2>2 DEF Known, Lone
  <2> QED BY <1>2, <2>1, <2>2, BeginsOrRuns
<1>3. CASE Interfere
  <2>1. "foreign" \in met'[r]
    BY <1>3 DEF Interfere
  <2> QED BY <2>1 DEF Lone
<1> QED BY <1>1, <1>2, <1>3 DEF ToolNext, StepOf

-----------------------------------------------------------------------------
(* What is left alone.                                                     *)

\* Nothing has been written before the label, or will be.
Early == {"policy", "parent", "prepare", "discover", "load", "output"}
Harmless(r) == pc[r] \in Early \/ Preview(Job(r))

Untouched == \A r \in Runs : Active(r) /\ Lone(r) /\ Harmless(r) => files = seen[r]

\* A step of a command that comes to, or refuses at, a label before its first write.
LEMMA HarmlessStep ==
  ASSUME Inv, NEW r \in Runs, StepOf(r), Active(r), Harmless(r)',
         pc'[r] # "exited" \/ Preview(Job(r))
  PROVE  Harmless(r) /\ UNCHANGED files
<1> USE DEF ScaffoldLabels, DocsLabels, SchemaLabels, WriteLabels, Early, Active, Preview
<1>0. /\ r \in DOMAIN pc /\ Suits(Job(r), pc[r]) /\ Local(r) /\ Job(r)' = Job(r)
      /\ pc[r] \in Labels /\ pc[r] \notin {"start", "exited"}
  BY StepIsLocal DEF Inv, ProcessInv, JobOf, Local, Job
<1>1. CASE ScaffoldStep(r)
  BY <1>0, <1>1 DEF Suits, Harmless, ScaffoldStep, CheckRequest, Begin, CheckOut, MakeParent, CreateShim, FillShim,
     MakeExecutable, ScaffoldCallFails, CallFails, ExitWith, Goto
<1>2. CASE DocsStep(r)
  BY <1>0, <1>2 DEF Suits, Harmless, DocsStep, BeginDocs, Begin, DiscoverPattern, TraversalFails, LoadSource,
       SourceUnreadable, PrepareOutput, CheckTarget, StageDocument, Persist, OutputFails, CallFails, ExitWith, Goto, Fails
<1>3. CASE SchemaStep(r)
  BY <1>0, <1>3 DEF Suits, Harmless, SchemaStep, BeginSchemas, Begin, PrepareContract, PrepareFails, ComparePublic,
       MakePublicParent, StageOpens, StageWrites, Publish, PublicationFails, CheckPublic,
       PublicUnreadable, CallFails, ExitWith, Goto, WriteFailed, NextContract
<1>4. CASE Kill(r)
  BY <1>0, <1>4 DEF Kill, Harmless, ExitWith, Goto
<1> QED BY <1>1, <1>2, <1>3, <1>4 DEF StepOf

LEMMA RefusalStep ==
  ASSUME Inv, NEW r \in Runs, StepOf(r), Active(r), pc'[r] = "exited", exit'[r].cause \in Refusals
  PROVE  Harmless(r) /\ UNCHANGED files
<1> USE DEF Early, Active, Exiting
<1>0. r \in DOMAIN pc /\ r \in DOMAIN exit
  BY DEF Inv, ProcessInv
<1> DEFINE Others == {"io", "create_failed", "write_failed", "replace_failed", "not_replaceable",
                      "public_unreadable", "out_of_date", "killed", "done"}
<1>1. ASSUME NEW code, NEW cause \in Others, ExitWith(r, code, cause)
      PROVE  FALSE
  BY <1>0, <1>1 DEF ExitWith, Refusals, Range, Severities
<1>2. CASE ScaffoldStep(r)
  <2>1. CASE pc[r] = "policy"
    BY <2>1, <1>2 DEF Harmless, ScaffoldStep, CheckRequest, Begin, CheckOut, MakeParent, CreateShim,
         FillShim, MakeExecutable, ScaffoldCallFails, CallFails
  <2>2. CASE pc[r] # "policy"
    <3>1. \/ ExitWith(r, 3, "io") \/ ExitWith(r, 0, "done") \/ Goto(r, "create") \/ Goto(r, "fill")
          \/ Goto(r, "chmod")
      BY <2>2, <1>2 DEF ScaffoldStep, CheckRequest, Begin, CheckOut, MakeParent, CreateShim,
           FillShim, MakeExecutable, ScaffoldCallFails
    <3> QED BY <1>0, <1>1, <3>1 DEF Goto
  <2> QED BY <2>1, <2>2
<1>3. CASE SchemaStep(r)
  <2>1. CASE pc[r] = "prepare"
    BY <2>1, <1>3 DEF Harmless, SchemaStep, BeginSchemas, Begin, PrepareContract, PrepareFails,
         ComparePublic, MakePublicParent, StageOpens, StageWrites, Publish, PublicationFails,
         CheckPublic, PublicUnreadable, CallFails
  <2>2. CASE pc[r] # "prepare"
    <3>1. \/ \E code : \E cause \in {"public_unreadable", "write_failed", "out_of_date", "done"} :
               ExitWith(r, code, cause)
          \/ \E label \in Labels \ {"exited"} : Goto(r, label)
          \/ Goto(r, Job(r).command)
      BY <2>2, <1>3 DEF SchemaStep, BeginSchemas, Begin, PrepareContract, PrepareFails,
         ComparePublic, MakePublicParent, StageOpens, StageWrites, Publish, PublicationFails,
         CheckPublic, PublicUnreadable, NextContract, WriteFailed, Labels
    <3>2. pc[r] \in SchemaLabels
      BY <1>3 DEF SchemaStep, BeginSchemas, Begin, PrepareContract, PrepareFails, ComparePublic,
         MakePublicParent, StageOpens, StageWrites, Publish, PublicationFails, CheckPublic,
         PublicUnreadable, SchemaLabels, WriteLabels
    <3>3. Job(r).command # "exited"
      BY <3>2 DEF Inv, ProcessInv, JobOf, Suits
    <3> QED BY <1>0, <1>1, <3>1, <3>3 DEF Goto
  <2> QED BY <2>1, <2>2
<1>4. CASE DocsStep(r)
  <2>1. CASE pc[r] \in {"discover", "load", "output"}
    <3>1. CASE PrepareOutput(r)
      BY <1>0, <2>1, <3>1 DEF Harmless, PrepareOutput, Fails, ExitWith, Goto
    <3> QED
      BY <2>1, <3>1, <1>4 DEF Harmless, DocsStep, BeginDocs, Begin, DiscoverPattern, TraversalFails, LoadSource,
         SourceUnreadable, CheckTarget, StageDocument, Persist, OutputFails, CallFails
  <2>2. CASE pc[r] \notin {"discover", "load", "output"}
    <3>1. \/ \E code : \E cause \in {"not_replaceable", "write_failed", "replace_failed", "done"} :
               ExitWith(r, code, cause)
          \/ Goto(r, "stage_document") \/ Goto(r, "persist")
      BY <2>2, <1>4 DEF DocsStep, BeginDocs, Begin, DiscoverPattern, TraversalFails, LoadSource,
         SourceUnreadable, PrepareOutput, CheckTarget, StageDocument, Persist, OutputFails, Fails
    <3> QED BY <1>0, <1>1, <3>1 DEF Goto
  <2> QED BY <2>1, <2>2
<1>5. CASE Kill(r)
  BY <1>1, <1>5 DEF Kill
<1> QED BY <1>2, <1>3, <1>4, <1>5 DEF StepOf

LEMMA BeginLeavesUntouched ==
  ASSUME ProcessInv, NEW r \in Runs, Begin(r), UNCHANGED files
  PROVE  files' = seen'[r]
BY DEF ProcessInv, Bookkeeping, Begin

LEMMA UntouchedKept ==
  ASSUME Inv, Known, Untouched, [ToolNext]_toolVars
  PROVE  Untouched'
<1> SUFFICES ASSUME NEW r \in Runs, Active(r)', Lone(r)', Harmless(r)'
             PROVE  files' = seen'[r]
  BY Zenon DEF Untouched, Harmless, Active, Lone, Job
<1>1. CASE Active(r)
  <2>1. CASE UNCHANGED toolVars
    BY <1>1, <2>1 DEF Untouched, toolVars, Active, Lone, Harmless, Job
  <2>2. CASE Lone(r) /\ StepOf(r) /\ seen' = seen
    <3>1. Harmless(r) /\ UNCHANGED files
      BY <1>1, <2>2, HarmlessStep DEF Active
    <3> QED BY <1>1, <2>2, <3>1 DEF Untouched
  <2> QED BY <1>1, <2>1, <2>2, AloneWhileLone DEF Inv
<1>2. CASE ~Active(r)
  <2>1. ASSUME NEW s \in Runs, StepOf(s) PROVE files' = seen'[r]
    <3>1. s = r
      BY <1>2, <2>1, StepIsLocal DEF Inv, Local, Active
    <3>2. pc[r] = "start" /\ Begin(r) /\ UNCHANGED files
      BY <1>2, <2>1, <3>1, BeginsOrRuns DEF Inv
    <3> QED BY <3>2, BeginLeavesUntouched DEF Inv
  <2>2. pc' = pc => FALSE
    BY <1>2 DEF Active
  <2> QED BY <2>1, <2>2 DEF ToolNext, StepOf, toolVars, Interfere, Ended
<1> QED BY <1>1, <1>2

LEMMA ReachableUntouched == ToolSpec => [](Inv /\ Known /\ Untouched)
<1>1. ToolInit => Known /\ Untouched
  BY DEF ToolInit, Known, Untouched, Active
<1>2. Inv /\ Known /\ Untouched /\ [ToolNext]_toolVars => Known' /\ Untouched'
  BY KnownKept, UntouchedKept DEF Inv
<1> QED BY <1>1, <1>2, Reachable, PTL DEF ToolSpec

\* For every workload: a command that refuses its request or its sources, checks, or is
\* asked for a dry run leaves every file as it found it, whichever of its calls failed
\* (Tools!RefusalChangesNothing).
THEOREM RefusalTheorem == ToolSpec => RefusalChangesNothing
<1>1. ASSUME Inv, Known, Untouched, [ToolNext]_toolVars, NEW r \in Runs,
             Exits(r), met'[r] \subseteq {"failure", "killed"},
             exit'[r].cause \in Refusals \/ Preview(Job(r))
      PROVE  files' = seen'[r]
  <2>1. Lone(r)' /\ pc[r] # "exited" /\ pc'[r] = "exited"
    BY <1>1 DEF Lone, Exits
  <2>2. CASE Active(r)
    <3>1. Lone(r) /\ StepOf(r) /\ seen' = seen
      BY <1>1, <2>1, <2>2, AloneWhileLone DEF Inv, toolVars
    <3>2. Harmless(r) /\ UNCHANGED files
      <4>1. CASE exit'[r].cause \in Refusals
        BY <1>1, <2>1, <2>2, <3>1, <4>1, RefusalStep
      <4>2. CASE Preview(Job(r))
        <5>1. Harmless(r)'
          BY <3>1, <4>2, StepIsLocal, <1>1 DEF Harmless, Local, Job, Inv
        <5> QED BY <1>1, <2>2, <3>1, <4>2, <5>1, HarmlessStep
      <4> QED BY <1>1, <4>1, <4>2
    <3> QED BY <1>1, <2>2, <3>1, <3>2 DEF Untouched
  <2>3. CASE ~Active(r)
    <3>1. ASSUME NEW s \in Runs, StepOf(s) PROVE files' = seen'[r]
      <4>1. s = r
        BY <1>1, <2>1, <3>1, StepIsLocal DEF Inv, Local
      <4>2. pc[r] = "start" /\ Begin(r) /\ UNCHANGED files
        BY <1>1, <2>3, <3>1, <4>1, BeginsOrRuns DEF Inv
      <4> QED BY <1>1, <4>2, BeginLeavesUntouched DEF Inv
    <3>2. pc' = pc => FALSE
      BY <2>1
    <3> QED BY <1>1, <3>1, <3>2 DEF ToolNext, StepOf, toolVars, Interfere, Ended
  <2> QED BY <2>2, <2>3
<1>2. Inv /\ Known /\ Untouched /\ [ToolNext]_toolVars =>
        [\A r \in Runs : (Exits(r) /\ met'[r] \subseteq {"failure", "killed"}) =>
           ((exit'[r].cause \in Refusals \/ Preview(Job(r))) => files' = seen'[r])]_toolVars
  BY <1>1
<1> QED BY <1>2, ReachableUntouched, PTL DEF ToolSpec, RefusalChangesNothing

-----------------------------------------------------------------------------
(* Publishing by replacement.                                              *)

\* What a generator that has the temporary file to itself has staged.
Staging(r) ==
  pc[r] \in {"text", "publish"} =>
    /\ files[Temporary(Public(r))].node = work[r].fd
    /\ pc[r] = "publish" => files[Temporary(Public(r))].content = Text(r)

StagedByLone == \A r \in Runs : Lone(r) => Staging(r)

\* A descriptor of a temporary file, and what it writes.
LEMMA StagedFile ==
  ASSUME Inv, NEW r \in Runs, pc[r] \in {"text", "publish"}
  PROVE  /\ work[r].fd # None /\ work[r].fd \in Runs \X Temporaries
         /\ Public(r) \in Publics /\ Temporary(Public(r)) \in Paths
         /\ files[Temporary(Public(r))].node = work[r].fd =>
              files[Temporary(Public(r))].kind = "file"
         /\ Public_(Text(r)) /\ Text(r) # Torn
<1>1. Public(r) \in Publics /\ work[r].at \in Numbers
  BY PublicOf DEF Inv, SchemaLabels, WriteLabels
<1>2. Temporary(Public(r)) \in Paths /\ Temporaries \subseteq Paths
  BY <1>1, PublicPlaces, ContractsAssumption
<1>3. work[r].fd \in Runs \X Temporaries /\ Public_(Text(r))
  BY <1>1 DEF Inv, WorkInv, WorkOf, SchemaLabels, WriteLabels, Text
<1>4. work[r].fd # None
  BY <1>2, <1>3, NoneAssumption
<1>5. Text(r) # Torn
  BY <1>3 DEF Public_, Torn
<1> QED BY <1>1, <1>2, <1>3, <1>4, <1>5 DEF Inv, FilesInv, FileAt

LEMMA StagedKept ==
  ASSUME Inv, Known, StagedByLone, [ToolNext]_toolVars
  PROVE  StagedByLone'
<1> SUFFICES ASSUME NEW r \in Runs, Lone(r)', pc'[r] \in {"text", "publish"}
             PROVE  Staging(r)'
  BY Zenon DEF StagedByLone, Lone, Staging, Public, Text
<1>0. r \in DOMAIN pc /\ r \in DOMAIN work /\ WorkOf(r)
  BY DEF Inv, ProcessInv, Bookkeeping, WorkInv
<1>1. CASE UNCHANGED toolVars
  BY <1>1, Zenon DEF StagedByLone, Lone, Staging, Public, Text, toolVars
<1>2. CASE Active(r) /\ StepOf(r) /\ Lone(r)
  <2>1. StageOpens(r) \/ StageWrites(r)
    <3>1. CASE ScaffoldStep(r)
      BY <1>0, <3>1 DEF ScaffoldStep, CheckRequest, CheckOut, MakeParent, CreateShim, FillShim,
        MakeExecutable, ScaffoldCallFails, ExitWith, Goto
    <3>2. CASE DocsStep(r)
      BY <1>0, <3>2 DEF DocsStep, BeginDocs, DiscoverPattern, TraversalFails, LoadSource,
         SourceUnreadable, PrepareOutput, CheckTarget, StageDocument, Persist, OutputFails, Fails,
         AfterSource, ExitWith, Goto
    <3>3. CASE SchemaStep(r)
      <4>1. pc[r] \in {"prepare", "gen", "check", "publish"} => Job(r).command \in {"gen", "check"}
        BY DEF Inv, ProcessInv, JobOf, Suits, SchemaLabels, WriteLabels
      <4> QED
        BY <1>0, <3>3, <4>1 DEF SchemaStep, BeginSchemas, PrepareContract, PrepareFails, Prepared,
           ComparePublic, MakePublicParent, Publish, PublicationFails, CheckPublic,
           PublicUnreadable, NextContract, WriteFailed, ExitWith, Goto
    <3>4. CASE Kill(r)
      BY <1>0, <3>4 DEF Kill, ExitWith, Goto
    <3> QED BY <1>2, <3>1, <3>2, <3>3, <3>4 DEF StepOf
  <2>2. CASE StageOpens(r)
    <3> DEFINE temporary == Temporary(Public(r))
               node == Descriptor(temporary, <<r, temporary>>)
    <3>1. /\ pc[r] = "open" /\ pc'[r] = "text" /\ work' = [work EXCEPT ![r].fd = node]
          /\ CanOpen(temporary) /\ files' = Opened(temporary, node)
      BY <1>0, <2>2 DEF StageOpens, WriteFailed, ExitWith, Goto
    <3>2. files'[temporary].node = node
      BY <3>1, StagingOpens
    <3>3. work'[r].fd = node /\ work'[r].at = work[r].at
      BY <1>0, <3>1 DEF WorkOf, SchemaWork, SchemaLabels, WriteLabels
    <3>4. Temporary(Public(r))' = temporary
      BY <3>3 DEF Public, Temporary
    <3> QED BY <3>1, <3>2, <3>3, <3>4 DEF Staging
  <2>3. CASE StageWrites(r)
    <3> DEFINE temporary == Temporary(Public(r))
    <3>1. pc[r] = "text" /\ work' = work /\ files' = WrittenTo(work[r].fd, Text(r))
      BY <2>3 DEF StageWrites
    <3>2. files[temporary].node = work[r].fd /\ files[temporary].kind = "file" /\ temporary \in Paths
      BY <1>2, <3>1, StagedFile DEF StagedByLone, Staging
    <3>3. FileAt(files[temporary], temporary)
      BY <3>2 DEF Inv, FilesInv
    <3>4. files'[temporary] = [files[temporary] EXCEPT !.content = Text(r)]
      BY <3>1, <3>2 DEF WrittenTo
    <3>5. files'[temporary].node = work[r].fd /\ files'[temporary].content = Text(r)
      BY <3>2, <3>3, <3>4 DEF FileAt, Absent
    <3>6. temporary' = temporary /\ Text(r)' = Text(r)
      BY <3>1 DEF Public, Temporary, Text
    <3> QED BY <3>1, <3>5, <3>6 DEF Staging
  <2> QED BY <2>1, <2>2, <2>3
<1>3. CASE ~Active(r)
  <2>1. ASSUME NEW s \in Runs, StepOf(s) PROVE FALSE
    <3>1. s = r
      BY <1>3, <2>1, StepIsLocal DEF Inv, Local, Active
    <3>2. Begin(r) /\ pc[r] = "start"
      BY <1>3, <2>1, <3>1, BeginsOrRuns DEF Inv
    <3>3. pc'[r] \notin {"text", "publish"}
      BY <1>0, <2>1, <3>1, <3>2 DEF StepOf, Kill, ScaffoldStep, CheckRequest, CheckOut, MakeParent, CreateShim, FillShim,
        MakeExecutable, ScaffoldCallFails, DocsStep, BeginDocs, DiscoverPattern, TraversalFails, LoadSource,
         SourceUnreadable, PrepareOutput, CheckTarget, StageDocument, Persist, OutputFails, Fails,
        SchemaStep, BeginSchemas, PrepareContract, PrepareFails, ComparePublic, MakePublicParent,
        StageOpens, StageWrites, Publish, PublicationFails, CheckPublic, PublicUnreadable, ExitWith, Goto
    <3> QED BY <3>3
  <2>2. pc' = pc => FALSE
    BY <1>3 DEF Active
  <2> QED BY <2>1, <2>2 DEF ToolNext, StepOf, toolVars, Interfere, Ended
<1> QED BY <1>1, <1>2, <1>3, AloneWhileLone DEF Inv

\* What a step does to the published places: nothing, or it puts one complete file at one of
\* them (any file, if the process is not alone), and then it does not end with an error.
Changes(r, p) ==
  /\ p \in Published /\ \A q \in Published \ {p} : files'[q] = files[q]
  /\ (files'[p].kind = "file" /\ files'[p].content # Torn) \/ ~Alone(r)
  /\ pc'[r] = "exited" => exit'[r].code = 0

LeavesPublished == \A p \in Published : files'[p] = files[p]

LEMMA DirectoriesAreUnpublished ==
  ASSUME FilesInv, NEW path, PrefixesOf(path) \cap Published = {}, files' = WithDirectories(path)
  PROVE  LeavesPublished
BY PublishedAssumption DEF LeavesPublished, WithDirectories

LEMMA UnlinkedIsUnpublished ==
  ASSUME FilesInv, NEW path, path \notin Published, files' = Unlinked(path)
  PROVE  LeavesPublished
BY PublishedAssumption DEF LeavesPublished, Unlinked, FilesInv

LEMMA ScaffoldPublishes ==
  ASSUME Inv, NEW r \in Runs, ScaffoldStep(r)
  PROVE  LeavesPublished
<1> USE DEF ScaffoldLabels, DocsLabels, SchemaLabels, WriteLabels
<1>0. pc[r] \in ScaffoldLabels =>
        /\ Job(r).out \in Paths /\ Job(r).out \notin Published
        /\ PrefixesOf(Parent(Job(r).out)) \cap Published = {}
        /\ Followed(Job(r).out) \in Paths \ Published
  BY PlacesOf, FollowedIsPath DEF Inv, Staged
<1>1. CASE UNCHANGED files
  BY <1>1 DEF LeavesPublished
<1>2. CASE MakeParent(r)
  BY <1>0, <1>1, <1>2, DirectoriesAreUnpublished DEF MakeParent, Inv
<1>3. CASE CreateShim(r)
  <2>1. PICK file : files' = [files EXCEPT ![Followed(Job(r).out)] = file] \/ files' = files
    BY <1>3 DEF CreateShim, Opened
  <2> QED BY <1>0, <1>3, <2>1, PublishedAssumption DEF CreateShim, LeavesPublished, Inv, FilesInv
<1>4. CASE FillShim(r)
  <2>1. pc[r] = "fill" /\ work[r].fd \in Runs \X (Paths \ Temporaries)
        /\ files' = WrittenTo(work[r].fd, Shim(Job(r)))
    BY <1>4 DEF FillShim, Inv, WorkInv, WorkOf
  <2>2. work[r].fd # None /\ work[r].fd[2] \notin Temporaries
    BY <2>1, NoneAssumption
  <2>3. \A p \in Published : p \in Paths /\ files[p].node # work[r].fd
    BY <2>2, PublishedAssumption DEF Inv, FilesInv, FileAt, Staged
  <2> QED BY <2>1, <2>3 DEF WrittenTo, LeavesPublished
<1>5. CASE MakeExecutable(r)
  <2>1. PICK x : files' = [files EXCEPT ![Followed(Job(r).out)].exec = x] \/ files' = files
    BY <1>5 DEF MakeExecutable
  <2> QED BY <1>0, <1>5, <2>1, PublishedAssumption DEF MakeExecutable, LeavesPublished, Inv, FilesInv
<1> QED
  BY <1>1, <1>2, <1>3, <1>4, <1>5
     DEF ScaffoldStep, CheckRequest, CheckOut, MakeParent, ScaffoldCallFails, CallFails

LEMMA DocsPlace ==
  ASSUME ProcessInv, NEW r \in Runs, pc[r] \in DocsLabels
  PROVE  PrefixesOf(Job(r).out) \cap Published = {}
<1>1. PICK w \in Workloads : setting.job = w.job
  BY DEF ProcessInv
<1>2. w.job[r] # None /\ w.job[r].command = "docs"
  BY <1>1 DEF ProcessInv, JobOf, Suits, Job
<1> QED BY <1>1, <1>2, PlacesAssumption DEF Job

LEMMA DocsPublishes ==
  ASSUME Inv, NEW r \in Runs, DocsStep(r)
  PROVE  LeavesPublished \/ \E p \in Published : Changes(r, p)
<1> USE DEF ScaffoldLabels, DocsLabels, SchemaLabels, WriteLabels
<1>1. CASE UNCHANGED files
  BY <1>1 DEF LeavesPublished
<1>2. CASE PrepareOutput(r) /\ files' = WithDirectories(Job(r).out)
  BY <1>2, DocsPlace, DirectoriesAreUnpublished DEF PrepareOutput, Inv
<1>3. CASE PrepareOutput(r)
  BY <1>1, <1>2, <1>3 DEF PrepareOutput
<1>4. CASE Persist(r) /\ files' # files
  <2> DEFINE target == TargetNow(Job(r))
             file == Regular(work[r].document)
  <2>1. pc[r] = "persist" /\ files' = [files EXCEPT ![target] = file] /\ ExitWith(r, 0, "done")
    BY <1>4 DEF Persist
  <2>2. work[r].document # Torn
    BY <2>1 DEF Inv, WorkInv, WorkOf, Torn
  <2>3. file.kind = "file" /\ file.content # Torn
    BY <2>2 DEF Regular, Absent
  <2> HIDE DEF target, file
  <2>4. \A q \in Published \ {target} : files'[q] = files[q]
    BY <2>1, PublishedAssumption DEF Inv, FilesInv
  <2>5. exit'[r].code = 0
    BY <2>1 DEF ExitWith, Inv, ProcessInv
  <2>6. target \in Published => files'[target] = file
    BY <2>1, PublishedAssumption DEF Inv, FilesInv
  <2> QED BY <2>3, <2>4, <2>5, <2>6 DEF LeavesPublished, Changes
<1> QED
  BY <1>1, <1>3, <1>4
     DEF DocsStep, BeginDocs, DiscoverPattern, TraversalFails, LoadSource, SourceUnreadable,
         CheckTarget, StageDocument, Persist, OutputFails, CallFails

\* A generator changes a published place only by publishing, unless it shares what it stages.
LEMMA SchemaLeaves ==
  ASSUME Inv, StagedByLone, NEW r \in Runs, SchemaStep(r)
  PROVE  \/ LeavesPublished
         \/ /\ Publish(r) /\ pc[r] = "publish" /\ files' = Renamed(Temporary(Public(r)), Public(r))
            /\ CanRename(Temporary(Public(r)), Public(r))
            /\ NextContract(r, Reporting(work[r], Change(r, work[r].action, "completed")))
         \/ StageWrites(r) /\ ~Lone(r)
<1> USE DEF ScaffoldLabels, DocsLabels, SchemaLabels, WriteLabels
<1>0. /\ pc[r] \in WriteLabels =>
           /\ Public(r) \in Publics /\ Public(r) \in Published /\ Public(r) \in Paths
           /\ Temporary(Public(r)) \in Paths /\ Temporary(Public(r)) \notin Published
           /\ PrefixesOf(Parent(Public(r))) \cap Published = {}
      /\ Published \subseteq Paths
  BY PublicOf, PublicPlaces, PublishedAssumption DEF Inv
<1>1. CASE UNCHANGED files
  BY <1>1 DEF LeavesPublished
<1>2. CASE MakePublicParent(r)
  BY <1>0, <1>1, <1>2, DirectoriesAreUnpublished DEF MakePublicParent, Inv
<1>3. CASE pc[r] \in WriteLabels /\ files' = Unlinked(Temporary(Public(r)))
  BY <1>0, <1>3, UnlinkedIsUnpublished DEF Inv
<1>4. CASE StageOpens(r)
  <2>1. PICK file : \/ files' = [files EXCEPT ![Followed(Temporary(Public(r)))] = file]
                    \/ files' = Unlinked(Temporary(Public(r)))
    BY <1>4 DEF StageOpens, Opened
  <2>2. Followed(Temporary(Public(r))) = Temporary(Public(r)) /\ pc[r] = "open"
    BY <1>0, <1>4, PublicPlaces, FollowedIsPath DEF StageOpens, Inv
  <2> QED BY <1>0, <1>3, <2>1, <2>2 DEF LeavesPublished, Inv, FilesInv
<1>5. CASE StageWrites(r) /\ Lone(r)
  <2>1. pc[r] = "text" /\ files' = WrittenTo(work[r].fd, Text(r))
    BY <1>5 DEF StageWrites
  <2>2. work[r].fd # None /\ Temporary(Public(r)) \in Paths
    BY <2>1, StagedFile
  <2>3. files[Temporary(Public(r))].node = work[r].fd
    BY <1>5, <2>1 DEF StagedByLone, Staging
  <2>4. \A p \in Published : files[p].node # work[r].fd
    BY <1>0, <2>1, <2>2, <2>3 DEF Inv, FilesInv
  <2> QED BY <1>0, <2>1, <2>4 DEF LeavesPublished, WrittenTo
<1>6. CASE Publish(r)
  BY <1>3, <1>6 DEF Publish
<1>7. CASE PublicationFails(r)
  BY <1>1, <1>3, <1>7 DEF PublicationFails
<1> QED
  BY <1>1, <1>2, <1>4, <1>5, <1>6, <1>7
     DEF SchemaStep, BeginSchemas, PrepareContract, PrepareFails, ComparePublic, CheckPublic,
         PublicUnreadable, CallFails

LEMMA SchemaPublishes ==
  ASSUME Inv, StagedByLone, NEW r \in Runs, SchemaStep(r)
  PROVE  LeavesPublished \/ \E p \in Published : Changes(r, p)
<1> USE DEF ScaffoldLabels, DocsLabels, SchemaLabels, WriteLabels
<1>0. /\ pc[r] \in WriteLabels =>
           /\ Public(r) \in Published /\ Public(r) \in Paths
           /\ Temporary(Public(r)) \in Paths /\ Temporary(Public(r)) \notin Published
      /\ Published \subseteq Paths
  BY PublicOf, PublicPlaces, PublishedAssumption DEF Inv
<1>1. ASSUME pc[r] \in WriteLabels, ~Lone(r) PROVE ~Alone(r)
  <2>1. Job(r).command = "gen" /\ Job(r) # None
    BY <1>1 DEF Inv, ProcessInv, JobOf, Suits
  <2> QED BY <1>1, <2>1 DEF Alone, Lone, Publishes, Publishing, Job
<1>2. CASE StageWrites(r) /\ ~Lone(r)
  <2>1. pc[r] = "text" /\ pc'[r] = "publish" /\ files' = WrittenTo(work[r].fd, Text(r))
    BY <1>2 DEF StageWrites, Goto, Inv, ProcessInv
  <2>2. work[r].fd # None
    BY <2>1, StagedFile
  <2>3. \A p \in Published : files[p].node # work[r].fd => files'[p] = files[p]
    BY <1>0, <2>1 DEF WrittenTo
  <2>4. CASE \E p \in Published : files[p].node = work[r].fd
    <3>1. PICK p \in Published : files[p].node = work[r].fd
      BY <2>4
    <3>2. \A q \in Published \ {p} : files[q].node # work[r].fd
      BY <1>0, <2>2, <3>1 DEF Inv, FilesInv
    <3> QED BY <1>1, <1>2, <2>1, <2>3, <3>2 DEF Changes
  <2>5. CASE \A p \in Published : files[p].node # work[r].fd
    BY <2>3, <2>5 DEF LeavesPublished
  <2> QED BY <2>4, <2>5
<1>3. CASE /\ pc[r] = "publish" /\ files' = Renamed(Temporary(Public(r)), Public(r))
           /\ NextContract(r, Reporting(work[r], Change(r, work[r].action, "completed")))
  <2> DEFINE public == Public(r)
             temporary == Temporary(public)
  <2>1. files'[public] = files[temporary] /\ \A p \in Published \ {public} : files'[p] = files[p]
    BY <1>0, <1>3 DEF Renamed, Inv, FilesInv
  <2>2. pc'[r] = "exited" => exit'[r].code = 0
    <3>1. PICK w : NextContract(r, w) /\ \E change : w = Reporting(work[r], change)
      BY <1>3
    <3>2. /\ Job(r).command = "gen" /\ SchemaWork(work[r]) /\ work[r].stale = {} /\ r \in DOMAIN exit
          /\ r \in DOMAIN pc
      BY <1>3 DEF Inv, ProcessInv, JobOf, Suits, WorkInv, WorkOf
    <3>3. w.stale = {}
      BY <3>1, <3>2 DEF Reporting, SchemaWork
    <3> QED BY <3>1, <3>2, <3>3 DEF NextContract, ExitWith, Goto
  <2>3. CASE Lone(r)
    <3>1. files[temporary].kind = "file" /\ files[temporary].content = Text(r) /\ Text(r) # Torn
      BY <1>3, <2>3, StagedFile DEF StagedByLone, Staging
    <3> QED BY <1>0, <1>3, <2>1, <2>2, <3>1 DEF Changes
  <2>4. CASE ~Lone(r)
    BY <1>0, <1>1, <1>3, <2>1, <2>2, <2>4 DEF Changes
  <2> QED BY <2>3, <2>4
<1> QED BY <1>2, <1>3, SchemaLeaves

\* What the exit of a process looks like from outside.
LEMMA StepOutcome ==
  ASSUME Inv, Inv', NEW r \in Runs, StepOf(r)
  PROVE  /\ Outcome(r) = "running"
         /\ \A s \in Runs \ {r} : Outcome(s)' = Outcome(s)
         /\ pc'[r] # "exited" => Outcome(r)' = "running"
         /\ pc'[r] = "exited" => Outcome(r)' = IF exit'[r].code = 0 THEN "success" ELSE "error"
<1>1. Local(r) /\ Job(r)' = Job(r)
  BY StepIsLocal DEF Inv, Local, Job
<1>2. pc[r] # "exited" /\ JobOf(r) /\ JobOf(r)'
  BY BeginsOrRuns DEF Inv, ProcessInv, Active
<1>3. Job(r) # None
  <2>1. CASE pc[r] = "start"
    BY <1>2, <2>1 DEF JobOf
  <2>2. CASE pc[r] # "start"
    <3>1. pc[r] \in ScaffoldLabels \cup DocsLabels \cup SchemaLabels
      BY <1>2, <2>2 DEF Inv, ProcessInv, Labels, ScaffoldLabels, DocsLabels, SchemaLabels, WriteLabels
    <3> QED BY <1>2, <3>1 DEF JobOf, Suits
  <2> QED BY <2>1, <2>2
<1>4. exit[r] = None /\ (pc'[r] # "exited" <=> exit'[r] = None)
  BY <1>1, <1>2, <1>3 DEF JobOf
<1>5. \A s \in Runs \ {r} : Outcome(s)' = Outcome(s)
  BY <1>1 DEF Local, Outcome
<1> QED BY <1>4, <1>5 DEF Outcome

\* Every step of a process is a step of the replacement, or none.
LEMMA StepReplaces ==
  ASSUME Inv, Inv', StagedByLone, NEW r \in Runs, StepOf(r)
  PROVE  [Replacement!Next]_<<[p \in Published |-> files[p]], [s \in Runs |-> Outcome(s)]>>
<1> DEFINE contents == [p \in Published |-> files[p]]
           outcome == [s \in Runs |-> Outcome(s)]
<1>1. /\ Outcome(r) = "running"
      /\ \A s \in Runs \ {r} : Outcome(s)' = Outcome(s)
      /\ pc'[r] # "exited" => Outcome(r)' = "running"
      /\ pc'[r] = "exited" => Outcome(r)' = IF exit'[r].code = 0 THEN "success" ELSE "error"
  BY StepOutcome
<1>2. LeavesPublished \/ \E p \in Published : Changes(r, p)
  <2>1. CASE Kill(r)
    BY <2>1 DEF Kill, LeavesPublished
  <2> QED BY <2>1, ScaffoldPublishes, DocsPublishes, SchemaPublishes DEF StepOf
<1>3. Replacement!Running(r)
  BY <1>1 DEF Replacement!Running
<1>4. outcome' \in {outcome, [outcome EXCEPT ![r] = "success"], [outcome EXCEPT ![r] = "error"]}
      /\ (pc'[r] # "exited" => outcome' = outcome)
      /\ (pc'[r] = "exited" => outcome' # outcome)
      /\ (pc'[r] = "exited" /\ exit'[r].code = 0 => outcome' = [outcome EXCEPT ![r] = "success"])
  BY <1>1
<1>5. CASE LeavesPublished
  <2>1. contents' = contents
    BY <1>5 DEF LeavesPublished
  <2>2. CASE pc'[r] = "exited"
    <3>1. outcome' = [outcome EXCEPT ![r] = "success"] \/ outcome' = [outcome EXCEPT ![r] = "error"]
      BY <1>4, <2>2
    <3>2. Replacement!End(r)
      BY <1>3, <2>1, <3>1, Zenon DEF Replacement!End
    <3> QED BY <3>2 DEF Replacement!Next
  <2>3. CASE pc'[r] # "exited"
    BY <1>4, <2>1, <2>3
  <2> QED BY <2>2, <2>3
<1>6. ASSUME NEW p \in Published, Changes(r, p)
      PROVE  Replacement!Next
  <2>1. \A q \in Published \ {p} : contents'[q] = contents[q]
    BY <1>6 DEF Changes
  <2>2. contents'[p] = files'[p]
    OBVIOUS
  <2>3. outcome' \in {outcome, [outcome EXCEPT ![r] = "success"]}
    BY <1>4, <1>6 DEF Changes
  <2>4. Replacement!Elsewhere(p)
    BY <2>1, Zenon DEF Replacement!Elsewhere
  <2>5. CASE files'[p].kind = "file" /\ files'[p].content # Torn
    <3>1. Replacement!Complete(contents'[p])
      BY <2>2, <2>5 DEF Replacement!Complete
    <3>2. Replacement!Replace(r)
      BY <1>3, <2>3, <2>4, <3>1, Zenon DEF Replacement!Replace
    <3> QED BY <3>2 DEF Replacement!Next
  <2>6. CASE ~Alone(r)
    <3>1. Replacement!Collide(r)
      BY <1>3, <2>3, <2>4, <2>6 DEF Replacement!Collide
    <3> QED BY <3>1 DEF Replacement!Next
  <2> QED BY <1>6, <2>5, <2>6 DEF Changes
<1> QED BY <1>2, <1>5, <1>6

LEMMA InterfereReplaces ==
  ASSUME Inv, Interfere
  PROVE  [Replacement!Next]_<<[p \in Published |-> files[p]], [s \in Runs |-> Outcome(s)]>>
<1>1. PICK w \in Workloads : setting.contested = w.contested /\ setting.foreign = w.foreign
  BY DEF Inv, ProcessInv
<1>2. PICK path \in w.contested, file \in w.foreign : files' = [files EXCEPT ![path] = file]
  BY <1>1 DEF Interfere
<1>3. file \in Foreign
  BY PlacesAssumption
<1>4. [s \in Runs |-> Outcome(s)]' = [s \in Runs |-> Outcome(s)]
  BY DEF Interfere, Outcome
<1>5. \A q \in Published \ {path} : files'[q] = files[q]
  BY <1>2, PublishedAssumption DEF Inv, FilesInv
<1>6. CASE path \in Published
  <2>1. files'[path] = file
    BY <1>2, <1>6, PublishedAssumption DEF Inv, FilesInv
  <2>2. Replacement!Disturb
    BY <1>3, <1>4, <1>5, <1>6, <2>1 DEF Replacement!Disturb, Replacement!Elsewhere
  <2> QED BY <2>2 DEF Replacement!Next
<1>7. CASE path \notin Published
  BY <1>4, <1>5, <1>7
<1> QED BY <1>6, <1>7

LEMMA InitReplaces ==
  ASSUME ToolInit
  PROVE  StagedByLone /\ Replacement!Init
<1>1. PICK w \in Workloads :
        /\ files = w.files
        /\ pc = [r \in Runs |-> IF w.job[r] = None THEN "exited" ELSE "start"]
  BY DEF ToolInit
<1>2. \A p \in Published : files[p].kind = "file" => files[p].content # Torn
  BY <1>1, WorkloadAssumption, PublishedAssumption DEF Settled
<1>3. [s \in Runs |-> Outcome(s)] = [s \in Runs |-> "running"]
  BY DEF ToolInit, Outcome
<1>4. Replacement!Init
  BY <1>2, <1>3 DEF Replacement!Init, Replacement!Complete
<1>5. StagedByLone
  BY <1>1 DEF StagedByLone, Staging
<1> QED BY <1>4, <1>5

\* For every workload: the target of `docs` and the public schemas are only ever replaced
\* whole, by a run that does not fail, unless two generators share the temporary file of a
\* schema (Tools!ReplacedWhole).
THEOREM ReplacementTheorem == ToolSpec => ReplacedWhole
<1> DEFINE published == <<[p \in Published |-> files[p]], [r \in Runs |-> Outcome(r)]>>
<1>1. ToolInit => StagedByLone /\ Replacement!Init
  BY InitReplaces
<1>2. Inv /\ Known /\ StagedByLone /\ [ToolNext]_toolVars => StagedByLone'
  BY StagedKept
<1>3. Inv /\ Inv' /\ StagedByLone /\ [ToolNext]_toolVars => [Replacement!Next]_published
  <2> SUFFICES ASSUME Inv, Inv', StagedByLone, [ToolNext]_toolVars
               PROVE  [Replacement!Next]_published
    OBVIOUS
  <2>1. CASE UNCHANGED toolVars \/ Ended
    BY <2>1 DEF toolVars, Ended, Outcome
  <2> QED BY <2>1, StepReplaces, InterfereReplaces DEF ToolNext, StepOf
<1>4. ToolSpec => []StagedByLone
  BY <1>1, <1>2, ReachableUntouched, PTL DEF ToolSpec
<1>5. ToolSpec => Replacement!Init
  BY <1>1, PTL DEF ToolSpec
<1>6. ToolSpec => [][Replacement!Next]_published
  BY <1>3, <1>4, Reachable, PTL DEF ToolSpec
<1> QED BY <1>5, <1>6, PTL DEF ReplacedWhole, Replacement!Spec

-----------------------------------------------------------------------------
(* What a generator reports.                                               *)

Action(before, p) == IF before[p].kind = "absent" THEN "create" ELSE "modify"
Completed(changes) == {c \in Range(changes) : c.state = "completed"}

\* Up to now a generator has reported what it has changed, has yet to change what is left,
\* and knows what it is about to report.
Report(r) ==
  /\ \E n \in Nat : Filled(work[r].changes, n)
  /\ Completed(work[r].changes) = ReportedChanges(seen[r], files)
  /\ \A n \in Numbers : pc[r] = "prepare" \/ n >= work[r].at =>
       files[Contracts[n].public] = seen[r][Contracts[n].public]
  /\ pc[r] \in WriteLabels =>
       /\ work[r].action = Action(files, Public(r))
       /\ ~Committed(files[Public(r)], Text(r))

Generates(r) == pc[r] \in SchemaLabels /\ Job(r).command = "gen"

ReportInv == \A r \in Runs : Lone(r) /\ Generates(r) => Report(r)

LEMMA SameReport ==
  ASSUME NEW before, LeavesPublished
  PROVE  ReportedChanges(before, files') = ReportedChanges(before, files)
BY PublishedAssumption DEF ReportedChanges, LeavesPublished, Publics

LEMMA AppendReport ==
  ASSUME NEW s, NEW n \in Nat, Filled(s, n), NEW e
  PROVE  /\ Filled(Append(s, e), n + 1)
         /\ Range(Append(s, e)) = Range(s) \cup {e}
<1> DEFINE S == {s[i] : i \in 1 .. n} \cup {e}
           t == Append(s, e)
<1>1. s = [i \in 1 .. n |-> s[i]]
  BY DEF Filled
<1>2. s \in [1 .. n -> S] /\ e \in S
  BY <1>1
<1> HIDE DEF S
<1>3. s \in Seq(S) /\ Len(s) = n /\ DOMAIN s = 1 .. n
  BY <1>1, <1>2
<1>4. /\ t \in Seq(S) /\ Len(t) = n + 1
      /\ \A i \in 1 .. n : t[i] = s[i]
      /\ t[n + 1] = e
  BY <1>2, <1>3, AppendProperties
<1> HIDE DEF t
<1>5. DOMAIN t = 1 .. n + 1 /\ Filled(t, n + 1)
  BY <1>4 DEF Filled
<1>6. \A i \in 1 .. n + 1 : i \in 1 .. n \/ i = n + 1
  OBVIOUS
<1>7. Range(t) = Range(s) \cup {e}
  BY <1>3, <1>4, <1>5, <1>6 DEF Range
<1> QED BY <1>5, <1>7 DEF t

\* A step that publishes nothing and reports nothing.
LEMMA QuietReport ==
  ASSUME NEW r \in Runs, Report(r), LeavesPublished, seen' = seen,
         work'[r].changes = work[r].changes,
         \A n \in Numbers : pc'[r] = "prepare" \/ n >= work'[r].at => pc[r] = "prepare" \/ n >= work[r].at,
         pc'[r] \in WriteLabels =>
           /\ Public(r)' = Public(r) /\ Text(r)' = Text(r) /\ Public(r) \in Publics
           /\ work'[r].action = Action(files, Public(r)) /\ ~Committed(files[Public(r)], Text(r))
  PROVE  Report(r)'
<1>1. \A n \in Numbers : files'[Contracts[n].public] = files[Contracts[n].public]
  BY PublishedAssumption DEF LeavesPublished, Publics
<1>2. ReportedChanges(seen[r], files') = ReportedChanges(seen[r], files)
  BY SameReport
<1>3. Completed(work'[r].changes) = ReportedChanges(seen'[r], files')
  BY <1>2 DEF Report
<1>4. ASSUME pc'[r] \in WriteLabels
      PROVE  /\ work'[r].action = Action(files', Public(r)')
             /\ ~Committed(files'[Public(r)'], Text(r)')
  BY <1>4, PublishedAssumption DEF LeavesPublished, Action, Committed
<1>5. ASSUME NEW n \in Numbers, pc'[r] = "prepare" \/ n >= work'[r].at
      PROVE  files'[Contracts[n].public] = seen'[r][Contracts[n].public]
  BY <1>1, <1>5 DEF Report
<1>6. \E n \in Nat : Filled(work'[r].changes, n)
  BY DEF Report
<1> QED BY <1>3, <1>4, <1>5, <1>6, Zenon DEF Report, Completed, Action, ReportedChanges, Filled

\* One more public schema has changed.
LEMMA OneMoreReport ==
  ASSUME NEW before, NEW public \in Publics, files[public] = before[public],
         ~SameData(before[public], files'[public]),
         \A q \in Publics \ {public} : files'[q] = files[q]
  PROVE  ReportedChanges(before, files') =
           ReportedChanges(before, files) \cup
             {[action |-> Action(before, public), path |-> public, state |-> "completed"]}
<1> DEFINE Entry(p) == [action |-> IF before[p].kind = "absent" THEN "create" ELSE "modify", path |-> p,
                        state |-> "completed"]
           Changed(fs) == Publics \cap {q \in Paths : ~SameData(before[q], fs[q])}
<1>1. /\ ReportedChanges(before, files) = {Entry(p) : p \in Changed(files)}
      /\ ReportedChanges(before, files') = {Entry(p) : p \in Changed(files')}
  BY DEF ReportedChanges, Publics
<1>2. public \in Paths
  BY PublishedAssumption
<1>3. Changed(files') = Changed(files) \cup {public}
  BY <1>2
<1>4. Entry(public) = [action |-> Action(before, public), path |-> public, state |-> "completed"]
  BY DEF Action
<1> HIDE DEF Entry, Changed
<1> QED BY <1>1, <1>3, <1>4

LEMMA NextContractReport ==
  ASSUME Inv, NEW r \in Runs, Generates(r), pc[r] # "prepare", Report(r), seen' = seen, UNCHANGED setting,
         NEW w, DOMAIN w = DOMAIN work[r], w.at = work[r].at, NextContract(r, w),
         \E n \in Nat : Filled(w.changes, n),
         Completed(w.changes) = ReportedChanges(seen[r], files'),
         \A n \in Numbers : n # work[r].at => files'[Contracts[n].public] = files[Contracts[n].public]
  PROVE  Report(r)'
<1>1. SchemaWork(work[r]) /\ r \in DOMAIN work /\ r \in DOMAIN pc
  BY DEF Inv, WorkInv, WorkOf, Generates, ProcessInv, Bookkeeping
<1>2. work' = [work EXCEPT ![r] = [w EXCEPT !.at = @ + 1]]
      /\ (pc' = [pc EXCEPT ![r] = "gen"] \/ pc' = [pc EXCEPT ![r] = "exited"])
  BY Zenon DEF NextContract, Generates, Goto, ExitWith
<1>3. work'[r].at = work[r].at + 1 /\ work'[r].changes = w.changes /\ pc'[r] \in {"gen", "exited"}
  BY <1>1, <1>2 DEF SchemaWork
<1>4. ASSUME NEW n \in Numbers, n >= work'[r].at
      PROVE  files'[Contracts[n].public] = seen'[r][Contracts[n].public]
  <2>1. n >= work[r].at /\ n # work[r].at
    BY <1>1, <1>3, <1>4, NumbersFacts DEF SchemaWork
  <2> QED BY <2>1 DEF Report
<1>5. pc'[r] # "prepare" /\ pc'[r] \notin WriteLabels
  BY <1>3 DEF WriteLabels
<1>6. Completed(work'[r].changes) = ReportedChanges(seen'[r], files')
      /\ \E n \in Nat : Filled(work'[r].changes, n)
  BY <1>3
<1> QED BY <1>4, <1>5, <1>6, Zenon DEF Report, Completed, ReportedChanges, Filled

LEMMA PublishReport ==
  ASSUME Inv, StagedByLone, NEW r \in Runs, Lone(r), Generates(r), Report(r), seen' = seen,
         UNCHANGED setting, pc[r] = "publish", CanRename(Temporary(Public(r)), Public(r)),
         files' = Renamed(Temporary(Public(r)), Public(r)),
         NextContract(r, Reporting(work[r], Change(r, work[r].action, "completed")))
  PROVE  Report(r)'
<1> DEFINE public == Public(r)
           temporary == Temporary(public)
           at == work[r].at
           change == Change(r, work[r].action, "completed")
           w == Reporting(work[r], change)
<1>1. /\ at \in Numbers /\ public \in Publics /\ public = Contracts[at].public /\ SchemaWork(work[r])
      /\ public \in Paths /\ temporary \in Paths /\ temporary \in Temporaries /\ temporary # public
  BY PublicOf, PublicPlaces DEF Inv, WorkInv, WorkOf, Generates
<1>2. files'[public] = files[temporary] /\ \A q \in Paths \ {public, temporary} : files'[q] = files[q]
  BY <1>1 DEF Renamed, Inv, FilesInv
<1>3. /\ files'[public].content = Text(r) /\ ~Committed(files[public], Text(r))
      /\ work[r].action = Action(files, public) /\ files'[public].kind # "absent"
  BY <1>2 DEF StagedByLone, Staging, Report, WriteLabels, CanRename
<1>4. \A q \in Publics \ {public} : files'[q] = files[q]
  BY <1>1, <1>2, PublishedAssumption, ContractsAssumption
<1>5. files[public] = seen[r][public]
  <2>1. at >= at
    BY <1>1, NumbersFacts
  <2> QED BY <1>1, <2>1 DEF Report
<1>18. ~SameData(seen[r][public], files'[public])
  BY <1>3, <1>5 DEF Committed, SameData
<1>6. ReportedChanges(seen[r], files') = ReportedChanges(seen[r], files) \cup
        {[action |-> Action(seen[r], public), path |-> public, state |-> "completed"]}
  <2> HIDE DEF public
  <2> QED BY <1>1, <1>4, <1>5, <1>18, OneMoreReport
<1>7. Action(seen[r], public) = work[r].action
  BY <1>3, <1>5 DEF Action
<1>8. change = [action |-> work[r].action, path |-> public, state |-> "completed"]
  BY DEF Change
<1>9. w.changes = Append(work[r].changes, change) /\ w.at = at /\ DOMAIN w = DOMAIN work[r]
  BY <1>1 DEF SchemaWork, Reporting
<1>10. ReportedChanges(seen[r], files') = ReportedChanges(seen[r], files) \cup {change}
  BY <1>6, <1>7, <1>8, Zenon
<1>11. change.state = "completed"
  BY <1>8
<1> HIDE DEF change, w
<1>12. PICK n \in Nat : Filled(work[r].changes, n)
  BY DEF Report
<1>13. Filled(w.changes, n + 1) /\ Range(w.changes) = Range(work[r].changes) \cup {change}
  BY <1>9, <1>12, AppendReport
<1>14. Completed(w.changes) = ReportedChanges(seen[r], files')
  BY <1>10, <1>11, <1>13 DEF Completed, Report
<1>15. n + 1 \in Nat
  OBVIOUS
<1>16. \A m \in Numbers : m # at => files'[Contracts[m].public] = files[Contracts[m].public]
  BY <1>1, <1>4, ContractsAssumption DEF Publics
<1>17. NextContract(r, w)
  BY DEF w, change
<1> QED BY <1>9, <1>13, <1>14, <1>15, <1>16, <1>17, NextContractReport

LEMMA CompareReport ==
  ASSUME Inv, NEW r \in Runs, Generates(r), Report(r), seen' = seen, ComparePublic(r)
  PROVE  Report(r)'
<1> USE DEF SchemaLabels, WriteLabels
<1> DEFINE public == Public(r)
<1>0. /\ pc[r] = "gen" /\ UNCHANGED <<setting, files>> /\ LeavesPublished
      /\ r \in DOMAIN pc /\ r \in DOMAIN work /\ SchemaWork(work[r])
      /\ public \in Publics /\ public \in Paths /\ Followed(public) = public
      /\ public = Contracts[work[r].at].public
  BY PublicOf, PublicPlaces, FollowedIsPath
     DEF ComparePublic, Undisturbed, LeavesPublished, Inv, ProcessInv, Bookkeeping, WorkInv, WorkOf
<1>1. Completed(work[r].changes) = ReportedChanges(seen[r], files')
      /\ \E n \in Nat : Filled(work[r].changes, n)
  BY <1>0 DEF Report
<1>2. CASE pc' = [pc EXCEPT ![r] = "exited"] /\ work' = work
  BY <1>0, <1>2, QuietReport
<1>3. CASE NextContract(r, work[r])
  <2>1. \A n \in Numbers : files'[Contracts[n].public] = files[Contracts[n].public]
    BY <1>0
  <2> QED BY <1>0, <1>1, <1>3, <2>1, NextContractReport
<1>4. CASE \E action : NextContract(r, Reporting(work[r], Change(r, action, "planned")))
  <2>1. PICK action : NextContract(r, Reporting(work[r], Change(r, action, "planned")))
    BY <1>4
  <2> DEFINE change == Change(r, action, "planned")
             w == Reporting(work[r], change)
  <2>2. w.changes = Append(work[r].changes, change) /\ w.at = work[r].at /\ DOMAIN w = DOMAIN work[r]
    BY <1>0 DEF SchemaWork, Reporting
  <2>3. change.state = "planned"
    BY DEF Change
  <2>4. NextContract(r, w)
    BY <2>1
  <2> HIDE DEF w, change
  <2>5. PICK n \in Nat : Filled(work[r].changes, n)
    BY <1>1
  <2>6. Filled(w.changes, n + 1) /\ Range(w.changes) = Range(work[r].changes) \cup {change}
    BY <2>2, <2>5, AppendReport
  <2>7. Completed(w.changes) = ReportedChanges(seen[r], files')
    BY <1>1, <2>3, <2>6 DEF Completed
  <2>8. n + 1 \in Nat /\ \A m \in Numbers : files'[Contracts[m].public] = files[Contracts[m].public]
    BY <1>0
  <2> QED BY <1>0, <2>2, <2>4, <2>6, <2>7, <2>8, NextContractReport
<1>5. CASE /\ work' = [work EXCEPT ![r].action = Action(files, public)]
           /\ pc' = [pc EXCEPT ![r] = "stage"]
           /\ Readable(files, public) /\ ~Committed(files[public], Text(r))
  <2>3. /\ work'[r].action = Action(files, public) /\ work'[r].changes = work[r].changes
        /\ work'[r].at = work[r].at /\ work'[r].texts = work[r].texts /\ pc'[r] = "stage"
    BY <1>0, <1>5 DEF SchemaWork
  <2>4. Public(r)' = Public(r) /\ Text(r)' = Text(r)
    BY <2>3 DEF Public, Text
  <2> QED BY <1>0, <1>5, <2>3, <2>4, QuietReport
<1> QED
  BY <1>0, <1>2, <1>3, <1>4, <1>5, Zenon DEF ComparePublic, ExitWith, Goto, Action

LEMMA SchemaReports ==
  ASSUME Inv, StagedByLone, NEW r \in Runs, SchemaStep(r), Active(r), Lone(r), Generates(r), Report(r),
         seen' = seen
  PROVE  Report(r)'
<1> USE DEF SchemaLabels, WriteLabels
<1>0. /\ r \in DOMAIN pc /\ r \in DOMAIN work /\ SchemaWork(work[r]) /\ Local(r)
      /\ pc[r] \in SchemaLabels => Public(r) \in Publics
  BY PublicOf, SchemaIsLocal DEF Inv, ProcessInv, Bookkeeping, WorkInv, WorkOf, Generates
<1>1. CASE Publish(r) /\ pc[r] = "publish" /\ CanRename(Temporary(Public(r)), Public(r))
             /\ files' = Renamed(Temporary(Public(r)), Public(r))
             /\ NextContract(r, Reporting(work[r], Change(r, work[r].action, "completed")))
  BY <1>0, <1>1, PublishReport DEF Local
<1>2. CASE LeavesPublished
  <2>1. CASE PrepareContract(r) \/ PrepareFails(r)
    <3>1. PICK defect, text : Prepared(r, defect, text)
      BY <2>1 DEF PrepareContract, PrepareFails
    <3> DEFINE w == [work[r] EXCEPT !.texts = Append(@, text), !.defects = @ \cup {defect}]
    <3>2. w.changes = work[r].changes /\ DOMAIN w = DOMAIN work[r]
      BY <1>0 DEF SchemaWork
    <3>3. /\ work' = [work EXCEPT ![r] = [w EXCEPT !.at = @ + 1]] \/ work' = [work EXCEPT ![r] = [w EXCEPT !.at = 1]]
          /\ pc' = pc \/ pc' = [pc EXCEPT ![r] = "exited"] \/ pc' = [pc EXCEPT ![r] = Job(r).command]
      BY <3>1, Zenon DEF Prepared, ExitWith, Goto
    <3> HIDE DEF w
    <3>4. work'[r].changes = work[r].changes
      BY <1>0, <3>2, <3>3 DEF SchemaWork
    <3>5. pc[r] = "prepare" /\ pc'[r] \in {"prepare", "exited", "gen"}
      BY <1>0, <2>1, <3>3 DEF PrepareContract, PrepareFails, Generates
    <3> QED BY <1>2, <3>4, <3>5, QuietReport
  <2>2. CASE ComparePublic(r)
    BY <2>2, CompareReport
  <2>3. CASE MakePublicParent(r) \/ StageOpens(r) \/ StageWrites(r)
    <3>1. /\ pc[r] \in WriteLabels /\ pc'[r] \in WriteLabels \cup {"exited"}
          /\ work' = work \/ \E fd : work' = [work EXCEPT ![r].fd = fd]
      BY <1>0, <2>3 DEF MakePublicParent, StageOpens, StageWrites, WriteFailed, ExitWith, Goto
    <3>2. /\ work'[r].changes = work[r].changes /\ work'[r].at = work[r].at
          /\ work'[r].texts = work[r].texts /\ work'[r].action = work[r].action
      BY <1>0, <3>1 DEF SchemaWork
    <3>3. Public(r)' = Public(r) /\ Text(r)' = Text(r)
      BY <3>2 DEF Public, Text
    <3> QED BY <1>0, <1>2, <3>1, <3>2, <3>3, QuietReport DEF Report
  <2>4. CASE work' = work /\ pc'[r] = "exited"
    BY <1>2, <2>4, QuietReport, <1>0 DEF Report, Generates
  <2>5. CASE Publish(r)
    <3>1. CASE work' = work /\ pc'[r] = "exited"
      BY <2>4, <3>1
    <3>2. CASE CanRename(Temporary(Public(r)), Public(r))
                 /\ files' = Renamed(Temporary(Public(r)), Public(r))
                 /\ NextContract(r, Reporting(work[r], Change(r, work[r].action, "completed")))
      BY <1>1, <2>5, <3>2 DEF Publish
    <3> QED BY <1>0, <2>5, <3>1, <3>2 DEF Publish, WriteFailed, ExitWith, Goto
  <2>6. CASE PublicationFails(r) \/ PublicUnreadable(r)
    BY <1>0, <2>4, <2>6 DEF PublicationFails, PublicUnreadable, WriteFailed, ExitWith, Goto
  <2> QED
    BY <2>1, <2>2, <2>3, <2>5, <2>6
       DEF SchemaStep, BeginSchemas, Begin, Active, CheckPublic, Generates, Inv, ProcessInv, JobOf, Suits
<1> QED BY <1>1, <1>2, SchemaLeaves

\* A process that generates takes the steps of the generator.
LEMMA GeneratorSteps ==
  ASSUME Inv, NEW r \in Runs, StepOf(r), Job(r).command = "gen"
  PROVE  /\ SchemaStep(r) \/ Kill(r)
         /\ Active(r) => Generates(r)
<1> USE DEF ScaffoldLabels, DocsLabels, SchemaLabels, WriteLabels
<1>1. pc[r] \in Labels /\ Suits(Job(r), pc[r])
  BY DEF Inv, ProcessInv, JobOf
<1>2. ~ScaffoldStep(r)
  BY <1>1 DEF Suits, ScaffoldStep, CheckRequest, Scaffold, CheckOut, MakeParent, CreateShim,
       FillShim, MakeExecutable, ScaffoldCallFails
<1>3. ~DocsStep(r)
  BY <1>1 DEF Suits, DocsStep, BeginDocs, Docs, DiscoverPattern, TraversalFails, LoadSource,
       SourceUnreadable, PrepareOutput, CheckTarget, StageDocument, Persist, OutputFails
<1>4. Active(r) => Generates(r)
  BY <1>1 DEF Active, Generates, Suits, Labels
<1> QED BY <1>2, <1>3, <1>4 DEF StepOf

LEMMA FirstReport ==
  ASSUME Inv, NEW r \in Runs, BeginSchemas(r)
  PROVE  Report(r)'
<1>1. r \in DOMAIN pc /\ r \in DOMAIN work /\ r \in DOMAIN seen
  BY DEF Inv, ProcessInv, Bookkeeping
<1>2. /\ pc'[r] = "prepare" /\ files' = files /\ seen'[r] = files
      /\ work'[r].changes = <<>>
  BY <1>1 DEF BeginSchemas, Begin, Goto
<1>3. Completed(<<>>) = {}
  BY DEF Completed, Range
<1>4. ReportedChanges(seen'[r], files') = {}
  BY <1>2 DEF ReportedChanges, SameData
<1>5. Filled(<<>>, 0) /\ 0 \in Nat
  BY DEF Filled
<1>6. pc'[r] \notin WriteLabels
  BY <1>2 DEF WriteLabels
<1>7. Completed(work'[r].changes) = ReportedChanges(seen'[r], files')
  BY <1>2, <1>3, <1>4
<1>8. \E n \in Nat : Filled(work'[r].changes, n)
  BY <1>2, <1>5
<1>9. \A n \in Numbers : files'[Contracts[n].public] = seen'[r][Contracts[n].public]
  BY <1>2
<1> QED BY <1>6, <1>7, <1>8, <1>9, Zenon DEF Report, Completed, ReportedChanges, Filled

\* A step of a generator that is alone and has begun.
LEMMA ReportStep ==
  ASSUME Inv, Known, StagedByLone, ReportInv, [ToolNext]_toolVars, NEW r \in Runs,
         Lone(r)', pc'[r] # "start", Job(r).command = "gen", pc[r] # "exited", ~Kill(r),
         toolVars' # toolVars
  PROVE  Report(r)'
<1>1. CASE Active(r)
  <2>1. Lone(r) /\ StepOf(r) /\ seen' = seen
    BY <1>1, AloneWhileLone DEF Inv
  <2>2. SchemaStep(r) /\ Generates(r)
    BY <1>1, <2>1, GeneratorSteps
  <2> QED BY <1>1, <2>1, <2>2, SchemaReports DEF ReportInv
<1>2. CASE ~Active(r)
  <2>1. ASSUME NEW s \in Runs, StepOf(s) PROVE Report(r)'
    <3>1. s = r
      BY <1>2, <2>1, StepIsLocal DEF Inv, Local, Active
    <3>2. Begin(r) /\ pc[r] = "start"
      BY <1>2, <2>1, <3>1, BeginsOrRuns DEF Inv
    <3>3. SchemaStep(r)
      BY <2>1, <3>1, GeneratorSteps
    <3>4. BeginSchemas(r)
      BY <3>2, <3>3 DEF SchemaStep, PrepareContract, PrepareFails, ComparePublic, MakePublicParent,
         StageOpens, StageWrites, Publish, PublicationFails, CheckPublic, PublicUnreadable
    <3> QED BY <3>4, FirstReport
  <2>2. pc' = pc => FALSE
    BY <1>2 DEF Active
  <2> QED BY <2>1, <2>2 DEF ToolNext, StepOf, Interfere, Ended
<1> QED BY <1>1, <1>2

LEMMA ReportKept ==
  ASSUME Inv, Inv', Known, StagedByLone, ReportInv, [ToolNext]_toolVars
  PROVE  ReportInv'
<1> SUFFICES ASSUME NEW r \in Runs, Lone(r)', Generates(r)'
             PROVE  Report(r)'
  BY Zenon DEF ReportInv, Lone, Generates, Job, Report, Completed, ReportedChanges, Filled, Action,
       Public, Text
<1>1. CASE UNCHANGED toolVars
  <2>1. /\ setting' = setting /\ files' = files /\ pc' = pc /\ work' = work
        /\ seen' = seen /\ met' = met
    BY <1>1 DEF toolVars
  <2>2. Lone(r) /\ Generates(r)
    BY <2>1 DEF Lone, Generates, Job
  <2>3. Report(r)
    BY <2>2 DEF ReportInv
  <2> QED BY <2>1, <2>3, Zenon DEF Report, Completed, ReportedChanges, Filled, Action, Public, Text, Job
<1>2. CASE toolVars' # toolVars
  <2>1. Job(r)' = Job(r) /\ pc'[r] \notin {"start", "exited"}
    <3>1. setting' = setting
      BY <1>2, StepIsLocal DEF ToolNext, StepOf, Interfere, Ended, Local, Inv
    <3> QED BY <3>1 DEF Job, Generates, SchemaLabels, WriteLabels
  <2>2. pc[r] # "exited"
    <3>1. ASSUME NEW s \in Runs, StepOf(s), pc[r] = "exited" PROVE FALSE
      <4>1. s # r
        BY <3>1, BeginsOrRuns DEF Inv, Active
      <4> QED BY <2>1, <3>1, <4>1, StepIsLocal DEF Local, Inv
    <3> QED BY <1>2, <2>1, <3>1 DEF ToolNext, StepOf, Interfere, Ended
  <2>3. ~Kill(r)
    BY <2>1 DEF Kill, ExitWith, Goto, Inv, ProcessInv
  <2> QED BY <1>2, <2>1, <2>2, <2>3, ReportStep DEF Generates
<1> QED BY <1>1, <1>2

\* For every workload: what a generator that runs alone reports as completed is exactly what
\* it changed, when one of its calls fails half way too (Tools!ReportedChangesTrue).
THEOREM ReportTheorem == ToolSpec => ReportedChangesTrue
<1>1. ToolInit => StagedByLone /\ ReportInv
  <2>1. ToolInit => \A r \in Runs : pc[r] \in {"start", "exited"}
    BY DEF ToolInit
  <2> QED BY <2>1 DEF StagedByLone, Staging, ReportInv, Generates, SchemaLabels, WriteLabels
<1>2. Inv /\ Known /\ StagedByLone /\ [ToolNext]_toolVars => StagedByLone'
  BY StagedKept
<1>3. Inv /\ Inv' /\ Known /\ StagedByLone /\ ReportInv /\ [ToolNext]_toolVars => ReportInv'
  BY ReportKept
<1>4. ToolSpec => [](Inv /\ Known /\ StagedByLone /\ ReportInv)
  BY <1>1, <1>2, <1>3, ReachableUntouched, PTL DEF ToolSpec
<1>5. Inv /\ Known /\ StagedByLone /\ ReportInv /\ [ToolNext]_toolVars =>
        [\A r \in Runs : (Exits(r) /\ Job(r).command = "gen" /\ met'[r] \subseteq {"failure"}) =>
           {c \in Range(work'[r].changes) : c.state = "completed"}
             = ReportedChanges(seen'[r], files')]_toolVars
  <2> SUFFICES ASSUME Inv, Known, StagedByLone, ReportInv, [ToolNext]_toolVars, toolVars' # toolVars,
                      NEW r \in Runs, Exits(r), Job(r).command = "gen", met'[r] \subseteq {"failure"}
               PROVE  {c \in Range(work'[r].changes) : c.state = "completed"}
                        = ReportedChanges(seen'[r], files')
    BY Zenon
  <2>1. Lone(r)' /\ pc[r] # "exited" /\ pc'[r] = "exited"
    BY DEF Lone, Exits
  <2>2. ~Kill(r)
    BY DEF Kill, Inv, ProcessInv, Bookkeeping
  <2>3. Report(r)'
    BY <2>1, <2>2, ReportStep
  <2> QED BY <2>3, Zenon DEF Report, Completed, ReportedChanges
<1> QED BY <1>4, <1>5, PTL DEF ToolSpec, ReportedChangesTrue

-----------------------------------------------------------------------------
(* What `docs` reads.                                                      *)

\* For scripts of any length: of the sources a run of `docs` is about to load, the parser
\* accepts exactly those of the canonical form (Tools!CanonicalForm).
THEOREM CanonicalTheorem == ToolSpec => []CanonicalForm
<1>1. ASSUME NEW source \in AllSources
      PROVE  (Parsed[source].error = "none") = (source \in CanonicalSources)
  <2>1. PICK lines \in Scripts : source = Source(lines)
    BY DEF AllSources
  <2>2. ReadFrom(source, lines)
    BY <2>1, ScriptsAssumption DEF ReadFrom
  <2>3. Parse(source).error = "none" <=> Canonical(source)
    BY <2>2, ParserTheorem
  <2>4. Parsed[source] = Parse(source)
    BY DEF Parsed
  <2> QED BY <2>3, <2>4 DEF CanonicalSources
<1>2. LoadingNow \subseteq AllSources
  BY DEF LoadingNow
<1>3. CanonicalForm
  BY <1>1, <1>2 DEF CanonicalForm
<1>4. CanonicalForm'
  <2>1. LoadingNow' \subseteq AllSources
    BY DEF LoadingNow
  <2> QED BY <1>1, <2>1 DEF CanonicalForm
<1> QED BY <1>3, <1>4, PTL
=============================================================================
