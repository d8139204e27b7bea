---------------------------- MODULE ScriptParser ----------------------------
(***************************************************************************)
(* From source text to the source-level model (reportage.pest, parser/     *)
(* mod.rs, document.rs, step.rs, heredoc.rs, source.rs).                   *)
(*                                                                         *)
(* The grammar is line-structured, so a source is a sequence of lines and  *)
(* a line is a record: `t`, what the line would be as code; `indent`; and, *)
(* where it has them, `block` and `name` of the block it opens, `field` of *)
(* a document block, `step`, `expectation`, `fits` (the literal has the    *)
(* kind and range its position requires), `fence` (backticks of the        *)
(* heredoc it opens), `ticks` (its own longest run of backticks), `chars`  *)
(* (its characters, one letter if nobody looks), `interpolated` (the       *)
(* heredoc it opens is), `text` (of an interpolated string) and            *)
(* `continues` (a backslash right before the line ending).                 *)
(***************************************************************************)
EXTENDS Scenario, FiniteSets, InterpolatedText

Field(line, key, default) == IF key \in DOMAIN line THEN line[key] ELSE default
Fence(line) == Field(line, "fence", 0)
Ticks(line) == Field(line, "ticks", 0)
Continues(line) == Field(line, "continues", FALSE)
Fits(line) == Field(line, "fits", TRUE)
Chars(line) == Field(line, "chars", IF line.t = "blank" THEN <<>> ELSE <<"a">>)
Interpolated(line) == "text" \in DOMAIN line \/ Field(line, "interpolated", FALSE)

BlockKinds == {"document file", "document case", "before_each", "case"}

\* What any line is like: only fields, steps and expectations hold literals, and no field but
\* a description may be a heredoc.
Lexed(line) ==
  /\ Fence(line) \in Nat /\ Ticks(line) \in Nat /\ Continues(line) \in BOOLEAN
  /\ line.t = "open" => line.block \in BlockKinds
  /\ line.t = "field" => ~Interpolated(line)
  /\ (line.t = "field" /\ Fence(line) > 0 /\ Fits(line)) => line.field = "description"
  /\ line.t \in {"open", "close", "assert", "blank", "comment"} =>
       Fits(line) /\ Fence(line) = 0 /\ ~Interpolated(line)

-----------------------------------------------------------------------------
(* Which lines are code: not the body of a heredoc, not the continuation   *)
(* of an action.                                                           *)

Code == [fence |-> 0, continued |-> FALSE, assertion |-> FALSE]

\* A heredoc ends at a line of nothing but at least as many backticks.
Closes(line, fence) == line.t = "fence" /\ Ticks(line) >= fence

After(mode, line) ==
  IF mode.fence > 0
  THEN IF Closes(line, mode.fence) THEN [mode EXCEPT !.fence = 0] ELSE mode
  ELSE IF mode.continued THEN [mode EXCEPT !.continued = Continues(line)]
  ELSE [fence |-> Fence(line),
        continued |-> line.t = "action" /\ Continues(line),
        assertion |-> line.t = "assert" \/ (mode.assertion /\ line.t # "close")]

\* The mode before each line, and after the last one.
Modes(lines) ==
  LET mode[i \in 1 .. Len(lines) + 1] ==
        IF i = 1 THEN Code ELSE After(mode[i - 1], lines[i - 1])
  IN mode

-----------------------------------------------------------------------------
(* The grammar: blocks at top level, and what each may hold.  A block is   *)
(* [kind, first, last], the lines of its pest pair.  A source, from here   *)
(* on, is its lines with their modes, its code lines and its blocks.       *)

\* A set of line numbers, in order: at k the one that k of them are not greater than.
InOrder(numbers) ==
  [k \in 1 .. Cardinality(numbers) |->
     CHOOSE i \in numbers : Cardinality({j \in numbers : j <= i}) = k]

Blocks(lines, mode, code) ==
  LET ends == {j \in code : lines[j].t = "close" /\ ~mode[j].assertion}
      opens == {i \in code : lines[i].t = "open" /\ \E j \in ends : j > i}
      EndOf(i) == Min({j \in ends : j > i})
      first == InOrder(opens)
  IN [b \in DOMAIN first |->
        [kind |-> lines[first[b]].block, first |-> first[b], last |-> EndOf(first[b])]]

Source(lines) ==
  LET mode == Modes(lines)
      code == {i \in DOMAIN lines : mode[i].fence = 0 /\ ~mode[i].continued}
  IN [lines |-> lines, mode |-> mode, code |-> code, blocks |-> Blocks(lines, mode, code)]

InBlock(source, block) == {i \in source.code : block.first < i /\ i < block.last}
StepLines == {"action", "write", "let", "assert_line"}
FileFields == {"title", "group", "order", "description"}
CaseFields == {"title", "description"}

\* The alternatives the grammar has for a line inside a block.
Permitted(kind, line, inAssertion) ==
  IF inAssertion THEN line.t \in {"comment", "expect", "close"}
  ELSE \/ line.t \in {"blank", "comment"}
       \/ kind = "document file" /\ line.t = "field" /\ line.field \in FileFields
       \/ kind = "document case" /\ line.t = "field" /\ line.field \in CaseFields
       \/ kind \in {"before_each", "case"} /\ line.t \in {"assert"} \cup StepLines

\* The expectation lines of the multi-line assertion block opened at a line.
ExpectationLines(source, i) ==
  LET last == Min({j \in source.code : j > i /\ source.lines[j].t = "close"})
  IN InOrder({k \in source.code : i < k /\ k < last /\ source.lines[k].t = "expect"})

SyntaxOk(source) ==
  /\ \A i \in source.code :
       \/ source.lines[i].t \in {"blank", "comment"}
       \/ \E b \in Range(source.blocks) : b.first <= i /\ i <= b.last
  /\ \A b \in Range(source.blocks) : \A i \in InBlock(source, b) : LET line == source.lines[i]
       IN /\ Permitted(b.kind, line, source.mode[i].assertion)
          /\ line.t = "assert" => ExpectationLines(source, i) # <<>>
          /\ "text" \in DOMAIN line => StringForm(line.text)

-----------------------------------------------------------------------------
(* Heredocs (dedent_heredoc_body): the body lines lose the indentation of  *)
(* the closing fence, blank ones lose everything.                          *)

ClosingFence(source, i) ==
  Min({j \in i + 1 .. Len(source.lines) : Closes(source.lines[j], Fence(source.lines[i]))})

Body(source, i) ==
  IF Fence(source.lines[i]) = 0 THEN <<>> ELSE SubSeq(source.lines, i + 1, ClosingFence(source, i) - 1)

Shallow(source, i) ==
  Fence(source.lines[i]) > 0 /\ \E k \in DOMAIN Body(source, i) : LET line == Body(source, i)[k]
    IN line.t # "blank" /\ line.indent < source.lines[ClosingFence(source, i)].indent

Dedented(source, i) ==
  [k \in DOMAIN Body(source, i) |-> LET line == Body(source, i)[k]
     IN IF line.t = "blank" THEN [line EXCEPT !.indent = 0]
        ELSE [line EXCEPT !.indent = @ - source.lines[ClosingFence(source, i)].indent]]

\* The interpolated literal of a line (parse_interpolated_string, parse_interpolated_heredoc).
LiteralAt(source, i) ==
  IF "text" \in DOMAIN source.lines[i]
  THEN [form |-> "string", indent |-> 0, lines |-> <<[indent |-> 0, chars |-> source.lines[i].text]>>]
  ELSE [form |-> "heredoc", indent |-> source.lines[ClosingFence(source, i)].indent,
        lines |-> [k \in DOMAIN Body(source, i) |->
                     [indent |-> Body(source, i)[k].indent, chars |-> Chars(Body(source, i)[k])]]]

-----------------------------------------------------------------------------
(* Document blocks (parse_document_file_block, parse_document_case_block). *)

FieldLines(source, block) ==
  InOrder({i \in InBlock(source, block) : source.lines[i].t = "field"})

\* The first defect of a field line, given the fields seen before it.
FieldDefect(source, i, seenFields) ==
  IF source.lines[i].field \in seenFields THEN "duplicate_field"
  ELSE IF ~Fits(source.lines[i]) THEN "invalid_field"
  ELSE IF Shallow(source, i) THEN "shallow_heredoc" ELSE "none"

FirstDefect(defects) ==
  LET wrong == {k \in DOMAIN defects : defects[k] # "none"}
  IN IF wrong = {} THEN "none" ELSE defects[Min(wrong)]

DocumentDefect(source, block) ==
  LET lines == FieldLines(source, block)
      defects == [k \in DOMAIN lines |->
        FieldDefect(source, lines[k], {source.lines[lines[j]].field : j \in 1 .. k - 1})]
  IN IF lines = <<>> THEN "empty_document" ELSE FirstDefect(defects)

\* The metadata a block declares; no fallback is filled in here.
Documentation(source, block) ==
  LET lines == FieldLines(source, block)
  IN [field \in {source.lines[lines[k]].field : k \in DOMAIN lines} |->
        LET i == CHOOSE l \in Range(lines) : source.lines[l].field = field
        IN IF Fence(source.lines[i]) > 0 THEN Dedented(source, i) ELSE source.lines[i].value]

-----------------------------------------------------------------------------
(* Step blocks.                                                            *)

BodyLines(source, block) ==
  InOrder({i \in InBlock(source, block) :
    ~source.mode[i].assertion /\ source.lines[i].t \in StepLines \cup {"assert"}})

\* A `write` or an expectation refers to what its interpolated text mentions.
Referring(source, i, what) ==
  IF Interpolated(source.lines[i]) THEN [what EXCEPT !.refs = References(LiteralAt(source, i))] ELSE what

\* The command of an action (parse_action_step): its line and those that continue it, verbatim
\* but for the spaces at the two ends.
CommandAt(source, i) ==
  LET last == Min({j \in i .. Len(source.lines) :
                     j = Len(source.lines) \/ ~source.mode[j + 1].continued})
      Trimmed(j) == j = i \/ (j = last /\ Chars(source.lines[j]) = <<>>)
  IN [k \in 1 .. last - i + 1 |-> LET j == i + k - 1
        IN [indent |-> IF Trimmed(j) THEN 0 ELSE source.lines[j].indent,
            chars |-> Chars(source.lines[j])]]

StepAt(source, i) ==
  IF source.lines[i].t = "action" THEN [kind |-> "action", command |-> CommandAt(source, i)]
  ELSE IF source.lines[i].t = "assert"
  THEN LET lines == ExpectationLines(source, i)
       IN [kind |-> "assert",
           expectations |-> [e \in DOMAIN lines |->
                               Referring(source, lines[e], source.lines[lines[e]].expectation)]]
  ELSE Referring(source, i, source.lines[i].step)

Steps(source, block) ==
  LET lines == BodyLines(source, block) IN [k \in DOMAIN lines |-> StepAt(source, lines[k])]

\* What each step says of its own lines, before the block is looked at as a whole.
StepDefect(source, i) ==
  LET lines == IF source.lines[i].t = "assert" THEN Range(ExpectationLines(source, i)) ELSE {i}
  IN IF \E l \in lines : ~Fits(source.lines[l]) THEN "invalid_step"
     ELSE IF \E l \in lines : Shallow(source, l) THEN "shallow_heredoc"
     ELSE IF \E l \in lines : Interpolated(source.lines[l]) /\ MarkerDefect(LiteralAt(source, l)) # "none"
     THEN "invalid_marker" ELSE "none"

StepsDefect(source, block) ==
  LET lines == BodyLines(source, block)
  IN FirstDefect([k \in DOMAIN lines |-> StepDefect(source, lines[k])])

\* The texts of the heredocs of a block, dedented.
HeredocTexts(source, block) ==
  LET lines == InOrder({i \in InBlock(source, block) : Fence(source.lines[i]) > 0})
  IN [k \in DOMAIN lines |-> Dedented(source, lines[k])]

BeforeEachDefect(source, block) ==
  IF StepsDefect(source, block) # "none" THEN StepsDefect(source, block)
  ELSE IF ~ValidBindings(Steps(source, block), {}) THEN "invalid_binding"
  ELSE IF Steps(source, block) = <<>> THEN "empty_before_each" ELSE "none"

CaseDefect(source, block, scope) ==
  IF StepsDefect(source, block) # "none" THEN StepsDefect(source, block)
  ELSE IF Steps(source, block) = <<>> THEN "empty_case"
  ELSE IF ~HasAssertionBlock(Steps(source, block)) THEN "missing_assertion"
  ELSE IF ~ValidBindings(Steps(source, block), scope) THEN "invalid_binding" ELSE "none"

-----------------------------------------------------------------------------
(* parse: the blocks one after the other, up to the first error.           *)

NoBlock == [kind |-> "none", first |-> 0, last |-> 0]   \* no such block
IsBlock(block) == block.kind # "none"

Start == [error |-> "none", file |-> NoBlock, setup |-> NoBlock, pending |-> NoBlock, cases |-> <<>>]

AddDocumentFile(source, state, block) ==
  IF state.cases # <<>> \/ IsBlock(state.pending) \/ IsBlock(state.setup)
  THEN [state EXCEPT !.error = "document_file_after_case"]
  ELSE IF IsBlock(state.file) THEN [state EXCEPT !.error = "duplicate_document_file"]
  ELSE [state EXCEPT !.error = DocumentDefect(source, block), !.file = block]

AddDocumentCase(source, state, block) ==
  IF IsBlock(state.pending) THEN [state EXCEPT !.error = "duplicate_document_case"]
  ELSE [state EXCEPT !.error = DocumentDefect(source, block), !.pending = block]

\* A wrong edit: a pending `document case` does not keep before_each from following it.
AddBeforeEachBetween(source, state, block) ==
  IF state.cases # <<>> THEN [state EXCEPT !.error = "before_each_after_case"]
  ELSE IF IsBlock(state.setup) THEN [state EXCEPT !.error = "duplicate_before_each"]
  ELSE [state EXCEPT !.error = BeforeEachDefect(source, block), !.setup = block]

AddBeforeEach(source, state, block) ==
  IF state.cases # <<>> \/ IsBlock(state.pending)
  THEN [state EXCEPT !.error = "before_each_after_case"]
  ELSE IF IsBlock(state.setup) THEN [state EXCEPT !.error = "duplicate_before_each"]
  ELSE [state EXCEPT !.error = BeforeEachDefect(source, block), !.setup = block]

\* BindingScope::after
Scope(source, setup) == IF IsBlock(setup) THEN DeclaredNames(Steps(source, setup)) ELSE {}

AddCase(source, state, block) ==
  [state EXCEPT
     !.error = CaseDefect(source, block, Scope(source, state.setup)),
     !.pending = NoBlock,
     !.cases = Append(@, [doc |-> state.pending, span |-> block])]

AddBlock(source, state, block) ==
  IF state.error # "none" THEN state
  ELSE IF block.kind = "document file" THEN AddDocumentFile(source, state, block)
  ELSE IF block.kind = "document case" THEN AddDocumentCase(source, state, block)
  ELSE IF block.kind = "before_each" THEN AddBeforeEach(source, state, block)
  ELSE IF block.kind = "case" THEN AddCase(source, state, block)
  ELSE IF IsBlock(state.pending) THEN [state EXCEPT !.error = "orphan_document_case"] ELSE state

EndOfInput == [kind |-> "EOI", first |-> 0, last |-> 0]

\* Apply(state, item) for each item in turn, from `base`: FoldLeft of SequencesExt,
\* as a recursive function that a proof can unfold.
Folded(Apply(_, _), base, items) ==
  LET after[n \in 0 .. Len(items)] ==
        IF n = 0 THEN base ELSE Apply(after[n - 1], items[n])
  IN after[Len(items)]

Parse(source) ==
  IF SyntaxOk(source)
  THEN Folded(LAMBDA state, block : AddBlock(source, state, block), Start,
              Append(source.blocks, EndOfInput))
  ELSE [Start EXCEPT !.error = "syntax"]

\* SourceText::slice
Slice(source, block) == SubSeq(source.lines, block.first, block.last)

-----------------------------------------------------------------------------
(* The canonical top-level form, said of a whole file at once:             *)
(* `document file? before_each? (document case? case)*`.                   *)

CanonicalOrder(kinds) ==
  /\ \A i \in DOMAIN kinds : kinds[i] = "document file" => i = 1
  /\ \A i \in DOMAIN kinds : kinds[i] = "before_each" =>
       \A j \in 1 .. i - 1 : kinds[j] = "document file"
  /\ \A i \in DOMAIN kinds : kinds[i] = "document case" =>
       i < Len(kinds) /\ kinds[i + 1] = "case"

Canonical(source) ==
  LET blocks == source.blocks
      kinds == [b \in DOMAIN blocks |-> blocks[b].kind]
      Of(kind) == {b \in Range(blocks) : b.kind = kind}
      setup == IF Of("before_each") = {} THEN <<>>
               ELSE Steps(source, CHOOSE b \in Of("before_each") : TRUE)
      heredocs == {i \in source.code : Fence(source.lines[i]) > 0}
  IN /\ SyntaxOk(source)
     /\ CanonicalOrder(kinds)
     /\ \A i \in source.code : Fits(source.lines[i])
     /\ \A i \in heredocs : ~Shallow(source, i)
     /\ \A i \in source.code :
          Interpolated(source.lines[i]) => MarkerDefect(LiteralAt(source, i)) = "none"
     /\ \A b \in Of("document file") \cup Of("document case") :
          /\ FieldLines(source, b) # <<>>
          /\ \A i, j \in Range(FieldLines(source, b)) :
               source.lines[i].field = source.lines[j].field => i = j
     /\ \A b \in Of("before_each") : Steps(source, b) # <<>> /\ ParsedBeforeEach(setup)
     /\ \A b \in Of("case") : ParsedCase([setup |-> setup, body |-> Steps(source, b)])
=============================================================================
