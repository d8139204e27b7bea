---------------------------- MODULE DocsCatalog ----------------------------
(***************************************************************************)
(* From parsed sources to the generated document (docs/catalog.rs, render. *)
(* rs, markdown.rs, plain.rs, layout.rs).  A loaded source is [path,       *)
(* source, parsed]; a document is the sequence of its blocks.              *)
(***************************************************************************)
EXTENDS Integers, ScriptParser

CONSTANTS Before(_, _),      \* the order of strings
          PathBefore(_, _),  \* the order of display paths
          Words(_),          \* the runs of ASCII letters and digits of a title, lowercased
          Untitled(_)        \* the file stem of a display path

CONSTANTS Scripts  \* what script files may hold: sequences of lines

ASSUME ScriptsAssumption ==
  \A lines \in Scripts :
    lines \in Seq(Range(lines)) /\ \A i \in DOMAIN lines : Lexed(lines[i])

\* What the scripts declare, each in one line, and what they call their blocks.
ValuesIn(lines, field) ==
  {lines[i].value : i \in {k \in DOMAIN lines :
    lines[k].t = "field" /\ lines[k].field = field /\ Fence(lines[k]) = 0}}
FieldValues(field) == UNION {ValuesIn(lines, field) : lines \in Scripts}
BlockNames == UNION {{lines[i].name : i \in {k \in DOMAIN lines : lines[k].t = "open"}} : lines \in Scripts}

\* parse_source of every script there may be.
AllSources == {Source(lines) : lines \in Scripts}
Parsed == [source \in AllSources |-> Parse(source)]
CanonicalSources == {source \in AllSources : Canonical(source)}

DefaultGroup == "Index"

Groups == {DefaultGroup} \cup FieldValues("group")
Titles == Groups \cup FieldValues("title") \cup BlockNames

\* Titles are made of words, an order is a number, and strings are totally ordered.
ASSUME TitlesAssumption ==
  /\ \A title \in Titles : Words(title) \in Seq(STRING)
  /\ FieldValues("order") \subseteq Nat
  /\ \A x, y \in Groups :
       /\ Before(x, y) <=> x # y /\ ~Before(y, x)
       /\ \A z \in Groups : Before(x, y) /\ Before(y, z) => Before(x, z)

-----------------------------------------------------------------------------
(* build_catalog.                                                          *)

DeclaredBy(source, block) == IF IsBlock(block) THEN Documentation(source, block) ELSE <<>>
FileField(loaded, field, default) ==
  Field(DeclaredBy(loaded.source, loaded.parsed.file), field, default)

GroupOf(loaded) == FileField(loaded, "group", DefaultGroup)

DocumentedCase(source, case) ==
  LET declared == DeclaredBy(source, case.doc)
  IN [title |-> Field(declared, "title", source.lines[case.span.first].name),
      described |-> "description" \in DOMAIN declared,
      source |-> Slice(source, case.span)]

DocumentedFile(loaded) ==
  LET source == loaded.source
  IN [title |-> FileField(loaded, "title", Untitled(loaded.path)),
      described |-> "description" \in DOMAIN DeclaredBy(source, loaded.parsed.file),
      path |-> loaded.path,
      setup |-> IF IsBlock(loaded.parsed.setup) THEN Slice(source, loaded.parsed.setup) ELSE <<>>,
      cases |-> [c \in DOMAIN loaded.parsed.cases |->
                   DocumentedCase(source, loaded.parsed.cases[c])]]

\* The sort key (order.is_none(), order, source_path).
FileBefore(a, b) ==
  LET Order(l) == FileField(l, "order", -1)
  IN \/ Order(a) >= 0 /\ Order(b) < 0
     \/ Order(a) >= 0 /\ Order(b) >= 0 /\ Order(a) < Order(b)
     \/ Order(a) = Order(b) /\ PathBefore(a.path, b.path)

\* A set in order: at k the member that k - 1 come before.
Sorted(S, Precedes(_, _)) ==
  [k \in 1 .. Cardinality(S) |->
     CHOOSE x \in S : Cardinality({y \in S : Precedes(y, x)}) = k - 1]

Catalog(loaded) ==
  LET names == Sorted({GroupOf(l) : l \in loaded}, Before)
      Members(name) == Sorted({l \in loaded : GroupOf(l) = name}, FileBefore)
  IN [g \in DOMAIN names |->
        [name |-> names[g],
         files |-> [f \in DOMAIN Members(names[g]) |-> DocumentedFile(Members(names[g])[f])]]]

-----------------------------------------------------------------------------
(* render::snippet_source: the setup, one empty line, the case.            *)

EmptyLine == [t |-> "blank", indent |-> 0]

\* A wrong edit: the case alone.
CaseAlone(setup, case) == case

Snippet(setup, case) == IF setup = <<>> THEN case ELSE setup \o <<EmptyLine>> \o case

\* plain::block: every line is indented but the empty ones.
Indented(lines, columns) ==
  [i \in DOMAIN lines |->
     IF lines[i] = EmptyLine THEN lines[i] ELSE [lines[i] EXCEPT !.indent = @ + columns]]

\* A wrong edit: the fences that open heredocs are not counted.
FenceLengthOfClosings(lines) == Max({3} \cup {Ticks(lines[i]) : i \in DOMAIN lines})

\* Longer than the longest run of backticks, and at least three.
FenceLength(lines) == Max({3} \cup {Ticks(lines[i]) + 1 : i \in DOMAIN lines}
                             \cup {Fence(lines[i]) + 1 : i \in DOMAIN lines})

-----------------------------------------------------------------------------
(* markdown::render.  An anchor is the sequence of the words `-` joins.    *)

AnchorId(prefix, title) == prefix \o Words(title)

GroupAnchor(g, title) == AnchorId(<<"group", g>>, title)
FileAnchor(g, f, title) == AnchorId(<<"file", g, f>>, title)
CaseAnchor(g, f, c, title) == AnchorId(<<"case", g, f, c>>, title)

TocEntry(depth, title, anchor) ==
  [what |-> "entry", depth |-> depth, title |-> title, anchor |-> anchor]
Heading(marker, title, anchor) ==
  [what |-> "heading", marker |-> marker, title |-> title, anchor |-> anchor]
Fenced(lines) == [what |-> "source", fence |-> FenceLength(lines), lines |-> lines]
Description(described) == IF described THEN <<[what |-> "description"]>> ELSE <<>>

MarkdownCase(file, g, f, c) ==
  LET case == file.cases[c]
  IN <<Heading(4, case.title, CaseAnchor(g, f, c, case.title))>>
       \o Description(case.described) \o <<Fenced(Snippet(file.setup, case.source))>>

\* A source without a case shows its setup alone.
ShowsSetup(file) == file.cases = <<>> /\ file.setup # <<>>

MarkdownFile(file, g, f) ==
  <<Heading(3, file.title, FileAnchor(g, f, file.title)), [what |-> "path", path |-> file.path]>>
    \o Description(file.described)
    \o (IF ShowsSetup(file) THEN <<Fenced(file.setup)>> ELSE <<>>)
    \o FlattenSeq([c \in DOMAIN file.cases |-> MarkdownCase(file, g, f, c)])

MarkdownSection(group, g) ==
  <<Heading(2, group.name, GroupAnchor(g, group.name))>>
    \o FlattenSeq([f \in DOMAIN group.files |-> MarkdownFile(group.files[f], g, f)])

CaseEntry(file, g, f, c) ==
  LET title == file.cases[c].title IN <<TocEntry(2, title, CaseAnchor(g, f, c, title))>>

FileEntries(file, g, f) ==
  <<TocEntry(1, file.title, FileAnchor(g, f, file.title))>>
    \o FlattenSeq([c \in DOMAIN file.cases |-> CaseEntry(file, g, f, c)])

GroupEntries(group, g) ==
  <<TocEntry(0, group.name, GroupAnchor(g, group.name))>>
    \o FlattenSeq([f \in DOMAIN group.files |-> FileEntries(group.files[f], g, f)])

Contents(catalog) == FlattenSeq([g \in DOMAIN catalog |-> GroupEntries(catalog[g], g)])
MarkdownSections(catalog) == FlattenSeq([g \in DOMAIN catalog |-> MarkdownSection(catalog[g], g)])

Markdown(catalog) == Contents(catalog) \o MarkdownSections(catalog)

-----------------------------------------------------------------------------
(* plain::render: labelled blocks, no anchors; sources are indented.       *)

Labelled(label, title) == [what |-> label, title |-> title]
PlainSource(lines) == [what |-> "source", lines |-> Indented(lines, 4)]

PlainCase(file, c) ==
  LET case == file.cases[c]
  IN <<Labelled("case", case.title)>> \o Description(case.described)
       \o <<PlainSource(Snippet(file.setup, case.source))>>

PlainFile(file) ==
  <<Labelled("file", file.title), [what |-> "path", path |-> file.path]>>
    \o Description(file.described)
    \o (IF ShowsSetup(file) THEN <<PlainSource(file.setup)>> ELSE <<>>)
    \o FlattenSeq([c \in DOMAIN file.cases |-> PlainCase(file, c)])

PlainGroup(group) ==
  <<Labelled("group", group.name)>>
    \o FlattenSeq([f \in DOMAIN group.files |-> PlainFile(group.files[f])])

Plain(catalog) == FlattenSeq([g \in DOMAIN catalog |-> PlainGroup(catalog[g])])

Rendered(catalog, format) ==
  [what |-> "document", format |-> format,
   blocks |-> IF format = "markdown" THEN Markdown(catalog) ELSE Plain(catalog)]

-----------------------------------------------------------------------------
(* What a document must be like.                                           *)

BlocksOf(document, what) == {i \in DOMAIN document.blocks : document.blocks[i].what = what}

\* The table of contents and the headings lead to each other, one to one and in order.
Navigable(document) ==
  LET entries == BlocksOf(document, "entry")
      headings == BlocksOf(document, "heading")
      Anchor(i) == document.blocks[i].anchor
  IN /\ \A h \in headings : \E i \in entries : Anchor(i) = Anchor(h)
     /\ \A i \in entries : \E h \in headings :
          /\ Anchor(i) = Anchor(h) /\ document.blocks[i].title = document.blocks[h].title
          /\ \A j \in entries, k \in headings :
               Anchor(j) = Anchor(k) => (i < j <=> h < k) /\ (i = j <=> h = k)

\* No line of a fenced source can end its fence.
Enclosed(document) ==
  \A i \in DOMAIN document.blocks : LET block == document.blocks[i]
    IN "fence" \in DOMAIN block =>
         \A k \in DOMAIN block.lines :
           Ticks(block.lines[k]) < block.fence /\ Fence(block.lines[k]) < block.fence

StepsOfSetup(source, parsed) == IF IsBlock(parsed.setup) THEN Steps(source, parsed.setup) ELSE <<>>

\* What indentation does to a command: the lines that continue it begin further right.
ShiftedCommand(command, columns) ==
  [k \in DOMAIN command |->
     IF k = 1 \/ (k = Len(command) /\ command[k].chars = <<>>) THEN command[k]
     ELSE [command[k] EXCEPT !.indent = @ + columns]]

Shifted(steps, columns) ==
  [k \in DOMAIN steps |->
     IF steps[k].kind = "action"
     THEN [steps[k] EXCEPT !.command = ShiftedCommand(@, columns)] ELSE steps[k]]

\* A rendered snippet is a module of its own, with the steps of the case it shows, the
\* commands as far right as the snippet is.
StandsAlone(lines, columns, source, parsed, case) ==
  LET alone == Source(lines)
      module == Parse(alone)
  IN /\ module.error = "none"
     /\ Len(module.cases) = 1
     /\ StepsOfSetup(alone, module) = Shifted(StepsOfSetup(source, parsed), columns)
     /\ Steps(alone, module.cases[1].span) = Shifted(Steps(source, case.span), columns)
     /\ HeredocTexts(alone, module.cases[1].span) = HeredocTexts(source, case.span)
=============================================================================
