-------------------------- MODULE BlockEvaluation ---------------------------
(***************************************************************************)
(* Evaluation of one assertion block (evaluator/expectation.rs and         *)
(* observation.rs, called from execution.rs): every expectation is         *)
(* validated, then every leaf is evaluated in source order, one file       *)
(* system call at a time, while processes that an earlier action left      *)
(* behind may change the files.                                            *)
(*                                                                         *)
(* A block is the preorder sequence of its expectations: parent = 0 is an  *)
(* expectation of the block itself, any other parent a `not`, `all` or     *)
(* `any` composition that comes before it.                                 *)
(***************************************************************************)
EXTENDS FiniteSetsExt, Sequences

CONSTANTS Blocks,           \* the assertion blocks offered
          Checkpoints,      \* the action results (or None) they are evaluated at
          Paths, Entries,   \* paths of files, names of directory entries
          PolicyNames,      \* the paths and names the path policy accepts
          OutsidePaths,     \* fixture paths that resolve outside the *.repor directory
          FileStates,       \* what may be found at a path
          MaxDisturbances,  \* bound on the changes and failures from outside
          None              \* Option::None

\* Content as a sequence of bytes; "raw" is a byte that is never valid UTF-8.
Byte == {"a", "b", "raw"}
Bytes == Seq(Byte)

\* What the file system calls can tell about a path: "absent" makes metadata fail.
FileState ==
  [kind : {"absent", "dir", "file"}, readable : BOOLEAN, bytes : Bytes, entries : SUBSET Entries]

ActionResult == [exit : 0 .. 255, stdout : Bytes, stderr : Bytes]

ProcessKinds == {"exit", "stdout", "stderr"}
FileKinds == {"file", "dir"}
Operators == {"not", "all", "any"}
Equality == {"contents_equals", "text_equals"}
Matchers == {"equals", "exists", "contains", "empty"} \cup Equality
Sources == {"none", "text", "workspace", "fixture"}

Expectation ==
  [kind : ProcessKinds \cup FileKinds \cup Operators, parent : Nat, matcher : Matchers,
   path : Paths, entry : Entries, code : 0 .. 255,
   source : Sources, text : Bytes, from : Paths]

\* The matchers of each subject, and where an expected value may come from.
ParsedExpectation(e) ==
  /\ e.kind = "exit" => e.matcher = "equals"
  /\ e.kind \in {"stdout", "stderr"} => e.matcher \in {"contains", "empty"} \cup Equality
  /\ e.kind = "file" => e.matcher \in {"contains", "exists"} \cup Equality
  /\ e.kind = "dir" => e.matcher \in {"contains", "exists"}
  /\ e.source \in IF e.kind \notin {"stdout", "stderr", "file"} THEN {"none"}
                  ELSE IF e.matcher = "contents_equals" THEN {"workspace", "fixture"}
                  ELSE IF e.matcher \in {"contains", "text_equals"} THEN {"text"}
                  ELSE {"none"}

\* LogicalExpectation::new and AssertionBlock::new refuse an empty composition or block.
ParsedBlock(b) ==
  /\ b # <<>>
  /\ \A n \in DOMAIN b :
       LET p == b[n].parent IN
       /\ ParsedExpectation(b[n])
       /\ p < n
       /\ p # 0 => b[p].kind \in Operators
       /\ \A m \in p + 1 .. n - 1 : b[m].parent >= p
       /\ b[n].kind \in Operators => \E m \in DOMAIN b : b[m].parent = n

ASSUME BlocksAssumption == Blocks \subseteq Seq(Expectation) /\ \A b \in Blocks : ParsedBlock(b)
ASSUME CheckpointsAssumption == Checkpoints \subseteq ActionResult \cup {None}
ASSUME FilesAssumption == FileStates \subseteq FileState /\ MaxDisturbances \in Nat

VARIABLES
  block,         \* the block being evaluated
  lastAction,    \* the checkpoint's last action result
  fs,            \* what is at each path now
  pc,            \* where the evaluation stands
  leaf,          \* the leaf being evaluated
  expected,      \* its expected bytes, once resolved
  results,       \* the result of every leaf evaluated so far
  abort,         \* the code of the script error that ended the block
  disturbances,  \* changes and failures from outside so far
  seen           \* history: what was at each path since the leaf began

vars == <<block, lastAction, fs, pc, leaf, expected, results, abort, disturbances, seen>>

Mismatch == [actual : Bytes, expected : Bytes, offset : Nat \cup {None}]
Observations ==
  {"match", "mismatch", "found", "not_found", "empty", "not_empty", "regular_file", "directory",
   "missing", "not_regular", "not_a_directory", "unreadable", "not_utf8", "entry_missing"}
Result == [observed : Observations, comparison : Mismatch \cup {None}]
AbortCodes ==
  {"requires_action", "invalid_path", "contents_missing", "contents_not_regular",
   "contents_unreadable", "fixture_missing", "fixture_not_regular", "fixture_escapes"}
ASSUME NoneAssumption ==
  None \notin ActionResult \cup Bytes \cup Nat \cup AbortCodes
             \cup Observations \cup {"precondition_unmet"}

Evaluating ==
  {"stat_expected", "read_expected", "resolve_fixture", "recheck_fixture", "copy_fixture",
   "process", "stat", "read"}

TypeOK ==
  /\ block \in Blocks
  /\ lastAction \in Checkpoints
  /\ fs \in [Paths -> FileStates]
  /\ pc \in {"validate", "done", "aborted"} \cup Evaluating
  /\ pc \in Evaluating => leaf \in DOMAIN block
  /\ expected \in Bytes \cup {None}
  /\ DOMAIN results \subseteq DOMAIN block
  /\ results \in [DOMAIN results -> Result]
  /\ abort \in AbortCodes \cup {None}
  /\ disturbances \in 0 .. MaxDisturbances
  /\ seen \in [Paths -> SUBSET FileStates]

-----------------------------------------------------------------------------
(* The tree of expectations.                                               *)

Children(n) == {m \in DOMAIN block : block[m].parent = n}
TopLevel == Children(0)
Composition(n) == block[n].kind \in Operators
Leaves == {n \in DOMAIN block : ~Composition(n)}

\* A node with everything below it: a contiguous part of the preorder.
Subtree(n) ==
  {m \in DOMAIN block : m >= n /\ \A k \in n + 1 .. m : block[k].parent >= n}

\* A wrong edit: only the direct children of a composition are asked.
RequiresActionOfChildren(n) ==
  \E m \in {n} \cup Children(n) : block[m].kind \in ProcessKinds

\* required_evidence().needs_action_result(): a process leaf at any depth.
RequiresAction(n) == \E m \in Subtree(n) : block[m].kind \in ProcessKinds

\* validate_expectation_paths: every subject path, and the entry name `contains` looks for.
PathsValid(n) ==
  \A m \in Subtree(n) :
    /\ block[m].kind \in FileKinds => block[m].path \in PolicyNames
    /\ (block[m].kind = "dir" /\ block[m].matcher = "contains") => block[m].entry \in PolicyNames

\* `passed` of every expectation, from the set of leaves that hold by themselves.
Passed(own) ==
  LET passed[n \in DOMAIN block] ==
        LET allChildrenPassed == \A m \in Children(n) : passed[m] IN
        CASE block[n].kind = "not" -> ~allChildrenPassed
          [] block[n].kind = "all" -> allChildrenPassed
          [] block[n].kind = "any" -> \E m \in Children(n) : passed[m]
          [] OTHER -> n \in own
  IN passed

-----------------------------------------------------------------------------
(* Comparing bytes.                                                        *)

Occurs(needle, bytes) ==
  \E k \in 0 .. Len(bytes) - Len(needle) : SubSeq(bytes, k + 1, k + Len(needle)) = needle

\* A wrong edit: the offset is taken past the differing byte.
FirstByteDiffPast(a, b) ==
  LET differing == {k \in DOMAIN a \cap DOMAIN b : a[k] # b[k]}
  IN IF differing # {} THEN Min(differing)
     ELSE IF Len(a) # Len(b) THEN Min({Len(a), Len(b)})
     ELSE None

\* A wrong edit: the length difference stands in for the offset.
FirstByteDiffByLength(a, b) ==
  LET differing == {k \in DOMAIN a \cap DOMAIN b : a[k] # b[k]}
  IN IF differing # {} THEN Min(differing) - 1
     ELSE IF Len(a) # Len(b) THEN Len(a) - Len(b)
     ELSE None

\* The 0-based offset of the first difference, the shorter length for a prefix.
FirstByteDiff(a, b) ==
  LET differing == {k \in DOMAIN a \cap DOMAIN b : a[k] # b[k]}
  IN IF differing # {} THEN Min(differing) - 1
     ELSE IF Len(a) # Len(b) THEN Min({Len(a), Len(b)})
     ELSE None

Compare(actual) == [actual |-> actual, expected |-> expected, offset |-> FirstByteDiff(actual, expected)]

-----------------------------------------------------------------------------
(* Sequencing.                                                             *)

ActualPhase(n) == IF block[n].kind \in ProcessKinds THEN "process" ELSE "stat"

\* Text is resolved from the script and the bindings, a reference from the file system.
FirstPhase(n) ==
  CASE block[n].source = "workspace" -> "stat_expected"
    [] block[n].source = "fixture" -> "resolve_fixture"
    [] OTHER -> ActualPhase(n)

\* The evaluation goes on with the first leaf of `later`, or has reached its end.
ContinueWith(later) ==
  /\ seen' = [p \in Paths |-> {fs[p]}]
  /\ UNCHANGED <<block, lastAction, fs, abort, disturbances>>
  /\ IF later = {}
     THEN pc' = "done" /\ expected' = None /\ UNCHANGED leaf
     ELSE LET next == Min(later) IN
          /\ leaf' = next
          /\ pc' = FirstPhase(next)
          /\ expected' = IF block[next].source = "text" THEN block[next].text ELSE None

Passing == {"match", "found", "empty", "regular_file", "directory"}
Held(rs) == {n \in DOMAIN rs : rs[n].observed \in Passing}

\* A wrong edit: the rest of an `any` is skipped once one child holds.
EvaluateNextLazily(rs) ==
  ContinueWith({m \in Leaves \ DOMAIN rs :
                  ~\E k \in Held(rs) : LET p == block[m].parent IN
                     p # 0 /\ block[p].kind = "any" /\ block[k].parent = p})

\* The next leaf is evaluated whatever the results so far.
EvaluateNext(rs) == ContinueWith(Leaves \ DOMAIN rs)

Record(observed, comparison) ==
  /\ results' = [n \in DOMAIN results \cup {leaf} |->
                   IF n = leaf THEN [observed |-> observed, comparison |-> comparison]
                   ELSE results[n]]
  /\ EvaluateNext(results')

Observe(observed) == Record(observed, None)
RecordComparison(actual) ==
  LET comparison == Compare(actual)
  IN Record(IF comparison.offset = None THEN "match" ELSE "mismatch", comparison)

At(phase) == pc = phase

GoTo(phase) ==
  /\ pc' = phase
  /\ UNCHANGED <<block, lastAction, fs, leaf, expected, results, abort, disturbances, seen>>

\* A script error: the block ends without a result.
Abort(code) ==
  /\ pc' = "aborted"
  /\ abort' = code
  /\ UNCHANGED <<block, lastAction, fs, leaf, expected, results, disturbances, seen>>

ExpectedIs(bytes) ==
  /\ expected' = bytes
  /\ pc' = ActualPhase(leaf)
  /\ UNCHANGED <<block, lastAction, fs, leaf, results, abort, disturbances, seen>>

Init ==
  /\ block \in Blocks
  /\ lastAction \in Checkpoints
  /\ fs \in [Paths -> FileStates]
  /\ pc = "validate"
  /\ leaf = 1
  /\ expected = None
  /\ results = [n \in {} |-> None]
  /\ abort = None
  /\ disturbances = 0
  /\ seen = [p \in Paths |-> {fs[p]}]

-----------------------------------------------------------------------------
(* Validation: the evidence, then the paths, of each expectation in turn.  *)

LacksEvidence(n) == RequiresAction(n) /\ lastAction = None
Refused == {n \in TopLevel : LacksEvidence(n) \/ ~PathsValid(n)}

Reject ==
  /\ At("validate")
  /\ Refused # {}
  /\ Abort(IF LacksEvidence(Min(Refused)) THEN "requires_action" ELSE "invalid_path")

Accept ==
  /\ At("validate")
  /\ Refused = {}
  /\ EvaluateNext(results)
  /\ UNCHANGED results

-----------------------------------------------------------------------------
(* The expected side: resolve_expected_contents.                           *)

Subject == fs[block[leaf].path]
Source == fs[block[leaf].from]
Readable(s) == s.kind = "file" /\ s.readable

StatExpected ==
  /\ At("stat_expected")
  /\ CASE Source.kind = "absent" -> Abort("contents_missing")
       [] Source.kind = "dir" -> Abort("contents_not_regular")
       [] OTHER -> GoTo("read_expected")

ReadExpected ==
  /\ At("read_expected")
  /\ IF Readable(Source) THEN ExpectedIs(Source.bytes) ELSE Abort("contents_unreadable")

\* resolve_fixture_source: existence, containment, then kind.
ResolveFixture ==
  /\ At("resolve_fixture")
  /\ IF Source.kind = "absent" THEN Abort("fixture_missing")
     ELSE IF block[leaf].from \in OutsidePaths THEN Abort("fixture_escapes")
     ELSE IF Source.kind = "dir" THEN Abort("fixture_not_regular")
     ELSE GoTo("recheck_fixture")

\* materialize_fixture looks at the source again just before it copies it.
RecheckFixture ==
  /\ At("recheck_fixture")
  /\ IF Source.kind = "file" THEN GoTo("copy_fixture") ELSE Abort("fixture_missing")

\* The copy lies in a fresh private directory: reading it back gives the bytes copied.
CopyFixture ==
  /\ At("copy_fixture")
  /\ IF Readable(Source) THEN ExpectedIs(Source.bytes) ELSE Abort("fixture_missing")

\* Canonicalisation, the temporary directory, the copy or its reading fails.
FixtureCallFails ==
  /\ pc \in {"resolve_fixture", "recheck_fixture", "copy_fixture"}
  /\ disturbances < MaxDisturbances
  /\ pc' = "aborted"
  /\ abort' = "fixture_missing"
  /\ disturbances' = disturbances + 1
  /\ UNCHANGED <<block, lastAction, fs, leaf, expected, results, seen>>

-----------------------------------------------------------------------------
(* The actual side.                                                        *)

Stream == IF block[leaf].kind = "stdout" THEN lastAction.stdout ELSE lastAction.stderr

ObserveExit ==
  /\ At("process")
  /\ block[leaf].kind = "exit"
  /\ Observe(IF lastAction.exit = block[leaf].code THEN "match" ELSE "mismatch")

ObserveStream ==
  /\ At("process")
  /\ block[leaf].kind \in {"stdout", "stderr"}
  /\ CASE block[leaf].matcher = "contains" ->
            Observe(IF Occurs(expected, Stream) THEN "found" ELSE "not_found")
       [] block[leaf].matcher = "empty" -> Observe(IF Stream = <<>> THEN "empty" ELSE "not_empty")
       [] OTHER -> RecordComparison(Stream)

\* observe_file_exists, and the metadata call of observe_file.
StatFile ==
  /\ At("stat")
  /\ block[leaf].kind = "file"
  /\ CASE Subject.kind = "absent" -> Observe("missing")
       [] Subject.kind = "dir" -> Observe("not_regular")
       [] OTHER -> IF block[leaf].matcher = "exists" THEN Observe("regular_file") ELSE GoTo("read")

\* A wrong edit: an actual file that cannot be read is a script error.
ReadFileOrAbort ==
  /\ At("read")
  /\ block[leaf].kind = "file"
  /\ IF ~Readable(Subject) THEN Abort("contents_unreadable")
     ELSE IF block[leaf].matcher \in Equality THEN RecordComparison(Subject.bytes)
     ELSE Observe(IF "raw" \in Range(Subject.bytes) THEN "not_utf8"
                  ELSE IF Occurs(expected, Subject.bytes) THEN "found" ELSE "not_found")

\* A wrong edit: any failure of the read is reported as a missing file.
ReadFileOrMissing ==
  /\ At("read")
  /\ block[leaf].kind = "file"
  /\ IF ~Readable(Subject) THEN Observe("missing")
     ELSE IF block[leaf].matcher \in Equality THEN RecordComparison(Subject.bytes)
     ELSE Observe(IF "raw" \in Range(Subject.bytes) THEN "not_utf8"
                  ELSE IF Occurs(expected, Subject.bytes) THEN "found" ELSE "not_found")

\* The read of observe_file, and what the matcher makes of the bytes.
ReadFile ==
  /\ At("read")
  /\ block[leaf].kind = "file"
  /\ IF ~Readable(Subject) THEN Observe("unreadable")
     ELSE IF block[leaf].matcher \in Equality THEN RecordComparison(Subject.bytes)
     ELSE Observe(IF "raw" \in Range(Subject.bytes) THEN "not_utf8"
                  ELSE IF Occurs(expected, Subject.bytes) THEN "found" ELSE "not_found")

\* observe_dir_exists, and the metadata call of observe_dir.
StatDir ==
  /\ At("stat")
  /\ block[leaf].kind = "dir"
  /\ CASE Subject.kind = "absent" -> Observe("missing")
       [] Subject.kind = "file" -> Observe("not_a_directory")
       [] OTHER -> IF block[leaf].matcher = "exists" THEN Observe("directory") ELSE GoTo("read")

\* read_dir and the search through its entries.
ReadDir ==
  /\ At("read")
  /\ block[leaf].kind = "dir"
  /\ IF Subject.kind # "dir" \/ ~Subject.readable THEN Observe("unreadable")
     ELSE Observe(IF block[leaf].entry \in Subject.entries THEN "found" ELSE "entry_missing")

-----------------------------------------------------------------------------
\* A process that outlived its action changes what is at a path.
ChangePath(p, s) ==
  /\ pc \in Evaluating
  /\ disturbances < MaxDisturbances
  /\ s # fs[p]
  /\ fs' = [fs EXCEPT ![p] = s]
  /\ disturbances' = disturbances + 1
  /\ seen' = [seen EXCEPT ![p] = @ \cup {s}]
  /\ UNCHANGED <<block, lastAction, pc, leaf, expected, results, abort>>

\* The block has been evaluated.
Over == pc \in {"done", "aborted"} /\ UNCHANGED vars

Evaluate ==
  \/ Reject \/ Accept
  \/ StatExpected \/ ReadExpected
  \/ ResolveFixture \/ RecheckFixture \/ CopyFixture
  \/ ObserveExit \/ ObserveStream
  \/ StatFile \/ ReadFile \/ StatDir \/ ReadDir

Environment == FixtureCallFails \/ \E p \in Paths, s \in FileStates : ChangePath(p, s)

Next == Evaluate \/ Environment \/ Over

Spec == Init /\ [][Next]_vars

-----------------------------------------------------------------------------
(* The report: failure_diagnostic_code and expectation_json.               *)

Verdicts == Passed(Held(results))
BlockFails == \E n \in TopLevel : ~Verdicts[n]

\* A wrong edit: only a mismatch of content has a code.
FailureReasonOfContent(n) ==
  IF results[n].observed \in {"mismatch", "not_found", "entry_missing", "not_empty"}
  THEN results[n].observed ELSE None

\* The last part of the diagnostic code of a leaf; `file contains` merges its preconditions.
FailureReason(n) ==
  CASE results[n].observed \in Passing -> None
    [] results[n].observed \in {"missing", "not_regular", "unreadable", "not_utf8"} /\
       block[n].kind = "file" /\ block[n].matcher = "contains" -> "precondition_unmet"
    [] OTHER -> results[n].observed

\* Only the expectations of the block itself may register a diagnostic.
Attributing == TopLevel

Registers(n) == IF Composition(n) THEN ~Verdicts[n] ELSE FailureReason(n) # None
Diagnostics ==
  {[expectation |-> n, reason |-> IF Composition(n) THEN None ELSE FailureReason(n)] :
     n \in {m \in Attributing : Registers(m)}}

-----------------------------------------------------------------------------
(* Properties.                                                             *)

Unevidenced == {n \in Leaves : block[n].kind \in ProcessKinds /\ lastAction = None}
OutOfPolicy ==
  {n \in Leaves : \/ block[n].kind \in FileKinds /\ block[n].path \notin PolicyNames
                  \/ /\ block[n].kind = "dir" /\ block[n].matcher = "contains"
                     /\ block[n].entry \notin PolicyNames}

(***************************************************************************)
(* Validation is complete and is not hidden by nesting: a block that gets  *)
(* to its first leaf has process evidence for every process leaf and a     *)
(* path inside the policy for every file leaf, however deep; and a block   *)
(* is only refused for a leaf that lacks one of them.                      *)
(***************************************************************************)
ValidatedFirst ==
  /\ pc \notin {"validate", "aborted"} => Unevidenced \cup OutOfPolicy = {}
  /\ abort = "requires_action" => Unevidenced # {}
  /\ abort = "invalid_path" => OutOfPolicy # {}

\* What a leaf says of its subject in state `s`, all at once, against the bytes `e`.
Matches(matcher, bytes, e) ==
  CASE matcher = "contains" -> Occurs(e, bytes)
    [] matcher = "empty" -> bytes = <<>>
    [] OTHER -> bytes = e
Truth(n, s, e) ==
  LET x == block[n] IN
  CASE x.kind = "exit" -> lastAction.exit = x.code
    [] x.kind = "stdout" -> Matches(x.matcher, lastAction.stdout, e)
    [] x.kind = "stderr" -> Matches(x.matcher, lastAction.stderr, e)
    [] x.kind = "file" ->
         IF x.matcher = "exists" THEN s.kind = "file"
         ELSE /\ Readable(s)
              /\ x.matcher = "contains" => "raw" \notin Range(s.bytes)
              /\ Matches(x.matcher, s.bytes, e)
    [] x.kind = "dir" ->
         /\ s.kind = "dir"
         /\ x.matcher = "contains" => s.readable /\ x.entry \in s.entries

\* The script error of a reference whose source is in state `s`, None if it resolves.
Unresolvable(n, s) ==
  CASE block[n].source = "workspace" ->
         IF s.kind = "absent" THEN "contents_missing"
         ELSE IF s.kind = "dir" THEN "contents_not_regular"
         ELSE IF ~s.readable THEN "contents_unreadable" ELSE None
    [] block[n].source = "fixture" ->
         IF s.kind = "absent" THEN "fixture_missing"
         ELSE IF block[n].from \in OutsidePaths THEN "fixture_escapes"
         ELSE IF s.kind = "dir" THEN "fixture_not_regular"
         ELSE IF ~s.readable THEN "fixture_missing" ELSE None
    [] OTHER -> None

\* The documented meaning of a composition: `not` holds when its conjunction does not.
ShouldHold ==
  LET holds[n \in DOMAIN block] ==
        CASE block[n].kind = "not" -> \E m \in Children(n) : ~holds[m]
          [] block[n].kind = "all" -> \A m \in Children(n) : holds[m]
          [] block[n].kind = "any" -> \E m \in Children(n) : holds[m]
          [] OTHER -> Truth(n, fs[block[n].path],
                            IF block[n].source = "text" THEN block[n].text
                            ELSE fs[block[n].from].bytes)
  IN holds

(***************************************************************************)
(* When nothing interferes, the calls of the evaluation add up to what the *)
(* language reference says of the block: the first reference, at any depth *)
(* and under any operator, that does not resolve makes it a script error   *)
(* with the code of what is wrong with it; otherwise the block fails       *)
(* exactly when an expectation of it does not hold.                        *)
(***************************************************************************)
QuietVerdict ==
  (disturbances = 0 /\ pc \in {"done", "aborted"}
   /\ abort \notin {"requires_action", "invalid_path"}) =>
    LET broken == {n \in Leaves : Unresolvable(n, fs[block[n].from]) # None} IN
    IF broken # {} THEN abort = Unresolvable(Min(broken), fs[block[Min(broken)].from])
    ELSE abort = None /\ (BlockFails <=> \E n \in TopLevel : ~ShouldHold[n])

\* What an observation claims about a file or directory, of one state it was in.
Claims(n, observed, s) ==
  CASE observed = "missing" -> s.kind = "absent"
    [] observed = "not_regular" -> s.kind = "dir"
    [] observed = "not_a_directory" -> s.kind = "file"
    [] observed = "unreadable" -> s.kind = block[n].kind
    [] observed = "not_utf8" -> Readable(s) /\ "raw" \in Range(s.bytes)
    [] observed \in {"not_found", "mismatch"} -> Readable(s) /\ ~Truth(n, s, expected)
    [] observed = "entry_missing" -> s.kind = "dir" /\ ~Truth(n, s, expected)
    [] OTHER -> Truth(n, s, expected)

(***************************************************************************)
(* Whatever changes between the calls, a result is true of some moment     *)
(* since its leaf began, and so are the expected bytes it was compared     *)
(* with.  `unreadable` takes two moments: a subject of the right kind, and *)
(* one that could not be read.                                             *)
(***************************************************************************)
TrueAtSomeMoment ==
  [][\A n \in DOMAIN results' \ DOMAIN results :
       LET observed == results'[n].observed IN
       /\ block[n].kind \in FileKinds => \E s \in seen[block[n].path] : Claims(n, observed, s)
       /\ observed = "unreadable" =>
            \E s \in seen[block[n].path] : s.kind # block[n].kind \/ ~s.readable
       /\ block[n].source \in {"workspace", "fixture"} =>
            \E s \in seen[block[n].from] : Readable(s) /\ s.bytes = expected]_vars

(***************************************************************************)
(* Only the expected side of a contents_equals can end a block as a script *)
(* error, and only with a code that was true of it: whatever is wrong with *)
(* the subject under test is a failed assertion.                           *)
(***************************************************************************)
AbortBlamesExpected ==
  abort \notin {None, "requires_action", "invalid_path"} =>
    /\ block[leaf].source \in {"workspace", "fixture"}
    /\ \E s \in seen[block[leaf].from] :
         \/ abort = Unresolvable(leaf, s)
         \/ abort = "contents_unreadable" /\ ~Readable(s)
         \/ abort = "fixture_missing" /\ (~Readable(s) \/ disturbances > 0)

(***************************************************************************)
(* A comparison is a match exactly when the bytes are the same, and its    *)
(* offset is the length of their common prefix: the rendered excerpt then  *)
(* starts at a byte that really differs, or where the shorter side ends.   *)
(***************************************************************************)
Exact(c) ==
  /\ c.offset = None <=> c.actual = c.expected
  /\ c.offset # None =>
       /\ c.offset <= Len(c.actual) /\ c.offset <= Len(c.expected)
       /\ \A k \in 1 .. c.offset : c.actual[k] = c.expected[k]
       /\ (c.offset < Len(c.actual) /\ c.offset < Len(c.expected))
            => c.actual[c.offset + 1] # c.expected[c.offset + 1]
ComparisonExact ==
  \A n \in DOMAIN results : results[n].comparison # None => Exact(results[n].comparison)

(***************************************************************************)
(* A failed block always surfaces a diagnostic and a passed one never      *)
(* does, also when a failing child is what makes a `not` hold: each failed *)
(* expectation of the block registers one, and nothing else does.          *)
(***************************************************************************)
DiagnosticPerFailure ==
  pc = "done" =>
    /\ BlockFails <=> Diagnostics # {}
    /\ \A d \in Diagnostics : d.expectation \in TopLevel /\ ~Verdicts[d.expectation]
    /\ Cardinality(Diagnostics) = Cardinality({n \in TopLevel : ~Verdicts[n]})
=============================================================================
