------------------------------ MODULE MCTools ------------------------------
(***************************************************************************)
(* The file-writing commands for TLC.  A workload names the jobs of the    *)
(* two runs, the files there are, and what may happen meanwhile.           *)
(***************************************************************************)
EXTENDS Tools

CONSTANTS r1, r2

ToolRunSet == {r1, r2}
NameSet == {<<"a">>, <<"b">>}

-----------------------------------------------------------------------------
(* Paths.                                                                  *)

src == <<"t", "a.repor">>
src2 == <<"t", "b.repor">>
src3 == <<"u", "a.repor">>
notes == <<"t", "notes">>
index == <<"out", "index.md">>
internal1 == <<"j", "internal">>
internal2 == <<"k", "internal">>
public1 == <<"j", "schema">>
public2 == <<"pub", "schema">>
shim == <<"bin", "shim">>
below == <<"bin", "shim", "x">>

\* In the order of their display paths.
PathOrder ==
  <<<<"t">>, src, src2, src3, notes, <<"u">>, <<"out">>, index, <<"out", "index.txt">>,
    <<"out", "other">>, <<"j">>, <<"k">>, <<"pub">>, internal1, internal2, public1, public2,
    <<"j", ".schema.tmp">>, <<"pub", ".schema.tmp">>, <<"bin">>, shim, below,
    Append(below, "index.md"), <<"t", "index.md">>>>
PathSet == Range(PathOrder)

PublishedSet == {public1, public2, index, <<"out", "index.txt">>, <<"out", "other">>}

Repors == {"a.repor", "b.repor"}
IndexNames == [markdown |-> "index.md", plain |-> "index.txt"]

NameOrder == <<"G", "H", "Index">>
PlaceIn(order, x) == CHOOSE k \in DOMAIN order : order[k] = x
NameBefore(x, y) == PlaceIn(NameOrder, x) < PlaceIn(NameOrder, y)
DisplayBefore(x, y) == PlaceIn(PathOrder, x) < PlaceIn(PathOrder, y)
TitleWords(title) == CASE title \in {"One", "one!"} -> <<"one">> [] title = "***" -> <<>>
                       [] OTHER -> <<"other">>
Stem(path) == Last(path)

NoFiles == [p \in PathSet |-> Absent]
With(fs, path, file) ==
  [p \in PathSet |-> IF p = path THEN file
                     ELSE IF p \in PrefixesOf(Parent(path)) THEN Directory ELSE fs[p]]
Script(lines) == Regular([what |-> "script", lines |-> lines])

OneJob(job) == [r \in ToolRunSet |-> IF r = r1 THEN job ELSE None]
BothJobs(one, two) == [r \in ToolRunSet |-> IF r = r1 THEN one ELSE two]
Quiet(job, fs) ==
  [job |-> OneJob(job), files |-> fs, contested |-> {}, foreign |-> {}, budget |-> 0]
Retried(job, fs, n) ==
  [job |-> BothJobs(job, job), files |-> fs, contested |-> {}, foreign |-> {}, budget |-> n]
Contested(job, fs, paths, others) ==
  [job |-> OneJob(job), files |-> fs, contested |-> paths, foreign |-> others, budget |-> 1]

-----------------------------------------------------------------------------
(* Sources: one block after the other.                                     *)

Line(t) == [t |-> t, indent |-> 2]
Close == [t |-> "close", indent |-> 0]
Open(block, name) == [t |-> "open", indent |-> 0, block |-> block, name |-> name]
FieldLine(name, value) == [t |-> "field", indent |-> 2, field |-> name, value |-> value]
\* (the field `number` keeps TLC from comparing a number with a string)
OrderLine(k) == [number |-> TRUE] @@ FieldLine("order", k)
Action == [t |-> "action", indent |-> 2, step |-> [kind |-> "action"]]
Let(name) == [t |-> "let", indent |-> 2,
              step |-> [kind |-> "let", name |-> name, stream |-> "stdout", mode |-> "line"]]
Expects(refs) == [needsAction |-> TRUE, validPath |-> TRUE, refs |-> refs]
AssertLine(refs) ==
  [t |-> "assert_line", indent |-> 2,
   step |-> [kind |-> "assert", expectations |-> <<Expects(refs)>>]]
WriteHeredoc(ticks) ==
  [t |-> "write", indent |-> 2, fence |-> ticks, interpolated |-> TRUE,
   step |-> [kind |-> "write", refs |-> {}]]
WriteString(text) ==
  [t |-> "write", indent |-> 2, text |-> text, step |-> [kind |-> "write", refs |-> {}]]
TextLine(indent, chars) == [t |-> "text", indent |-> indent, chars |-> chars]
Ticked(indent, ticks) == [t |-> "fence", indent |-> indent, ticks |-> ticks]

FileDoc(fields) == <<Open("document file", "")>> \o fields \o <<Close>>
CaseDoc(fields) == <<Open("document case", "")>> \o fields \o <<Close>>
Setup(steps) == <<Open("before_each", "")>> \o steps \o <<Close>>
CaseOf(name, steps) == <<Open("case", name)>> \o steps \o <<Close>>

\* A case that shows a script: a heredoc that holds a fence and a line that closes a block.
ShowsScript ==
  CaseOf("***", <<Action, WriteHeredoc(4), TextLine(4, <<"a">>), [Close EXCEPT !.indent = 2],
                  Ticked(3, 3), Line("blank"), Ticked(2, 4), AssertLine({<<"a">>})>>)
\* Commands over several lines: one that looks like code, one that ends in a blank line.
Continued ==
  CaseOf("One", <<Action @@ [continues |-> TRUE], TextLine(4, <<"a">>) @@ [continues |-> TRUE],
                  [t |-> "close", indent |-> 0], Action @@ [continues |-> TRUE], Line("blank"),
                  [t |-> "assert", indent |-> 2], [t |-> "comment", indent |-> 4],
                  [t |-> "expect", indent |-> 4, expectation |-> Expects({})], [Close EXCEPT !.indent = 2]>>)

Segment ==
  {FileDoc(<<FieldLine("title", "One"), OrderLine(1)>>),
   FileDoc(<<>>),
   CaseDoc(<<FieldLine("title", "one!")>>),
   CaseDoc(<<FieldLine("description", "d"), FieldLine("description", "d")>>),
   Setup(<<Action, Let(<<"a">>)>>),
   Setup(<<Let(<<"a">>)>>),
   CaseOf("One", <<Action, AssertLine({})>>),
   CaseOf("One", <<Action, Let(<<"a">>), AssertLine({<<"a">>})>>),
   CaseOf("one!", <<Action>>),
   ShowsScript, Continued,
   <<Line("comment"), Line("blank")>>}

Usual ==
  {FileDoc(<<FieldLine("group", "G")>>),
   CaseDoc(<<FieldLine("description", "d")>>),
   Setup(<<Action, Let(<<"a">>)>>),
   ShowsScript}

Modules == {FlattenSeq(s) : s \in UNION {[1 .. n -> Segment] : n \in 0 .. 2}
                              \cup UNION {[1 .. n -> Usual] : n \in 3 .. 4}}

\* What is wrong inside a block, and a block that never ends.
Broken ==
  {<<Open("case", "One"), Action>>,
   <<Action>>,
   CaseOf("One", <<Open("case", "One")>>),
   CaseOf("One", <<[t |-> "assert", indent |-> 2], Close>>),
   CaseOf("One", <<Action, WriteHeredoc(3), TextLine(1, <<"a">>), Ticked(2, 3), AssertLine({})>>),
   CaseOf("One", <<Action @@ [fits |-> FALSE], AssertLine({})>>),
   FileDoc(<<FieldLine("title", "One") @@ [fits |-> FALSE]>>),
   FileDoc(<<[t |-> "field", indent |-> 2, field |-> "description", fence |-> 3],
             TextLine(2, <<"a">>), Ticked(2, 3)>>) \o CaseOf("One", <<Action, AssertLine({})>>)}

-----------------------------------------------------------------------------
(* Literals: every short text, in both forms.                              *)

Wide == <<"w", Rest>>   \* a letter of two bytes
Texts(letters, n) == UNION {[1 .. k -> letters] : k \in 0 .. n}
StringTexts ==
  Texts({"a", "&", "{", "}", "\\", "QUOTE"}, 3)
    \cup {<<"a", "\\", "n", "&", "{", "a", "}">>, <<"&", "{", "1", "}">>, <<"&", "{", "a", "1", "}">>,
          <<"&", "{", "}", "a">>, <<"&", "{", "b", "}", "\\", "t">>,
          Wide \o <<"&", "{", "a", "}">>, <<"&", "{">> \o Wide \o <<"}">>, Wide \o <<"&">> \o Wide}
HeredocBodies ==
  {<<TextLine(4, Wide \o text), TextLine(2, <<"&", "{", "a", "}">>)>> :
     text \in Texts({"a", "&", "{", "}", "\\"}, 3)}
  \cup {<<Line("blank"), TextLine(3, text), [t |-> "blank", indent |-> 0], TextLine(2, <<"}">>)>> :
     text \in Texts({"&", "{", "1", "}", "\\"}, 3)}
  \cup {<<>>}

LiteralCase(lines) ==
  CaseOf("One", <<Action, Let(<<"a">>)>> \o lines \o <<AssertLine({})>>)
Literals ==
  {LiteralCase(<<WriteString(text)>>) : text \in StringTexts}
    \cup {LiteralCase(<<WriteHeredoc(3)>> \o body \o <<Ticked(2, 3)>>) : body \in HeredocBodies}

-----------------------------------------------------------------------------
(* `reportage docs`.                                                       *)

DocsJob(patterns, out, name, format) ==
  [command |-> "docs", patterns |-> patterns, out |-> out, index |-> name, format |-> format]
Pattern(components, matches) ==
  [absolute |-> FALSE, components |-> components, wellFormed |-> TRUE, matches |-> matches]
AllOfT == Pattern(<<"t", "*">>, {src, src2, notes})
Everything == Pattern(<<"**", "..", "*", "*.repor">>,
                      {<<"t", "..", "t", "a.repor">>, <<"u", "..", "t", "a.repor">>, src3})
Named(parts, slash) == [components |-> parts, slash |-> slash]

PlainDocs == DocsJob(<<AllOfT>>, <<"out">>, None, "plain")
MarkdownDocs == DocsJob(<<AllOfT>>, <<"out">>, None, "markdown")

SomeCase == CaseOf("One", <<Action, AssertLine({})>>)
Ordered(k) == FileDoc(<<OrderLine(k)>>) \o SomeCase
InGroup(g) == FileDoc(<<FieldLine("group", g), FieldLine("title", "One")>>) \o ShowsScript
Several == {SomeCase, Continued, Ordered(1), Ordered(2), InGroup("G"), InGroup("H"),
            Setup(<<Action>>), Setup(<<Action, Let(<<"a">>)>>) \o ShowsScript \o ShowsScript}

TwoSources(one, two) == With(With(NoFiles, src, Script(one)), src2, Script(two))
Tree == With(With(With(TwoSources(SomeCase, Ordered(1)), src3, Script(InGroup("G"))),
                  notes, Script(<<Action>>)), <<"j">>, Directory)

OutKinds == {Absent, Directory, Symlink(<<"t">>), Script(<<>>)}
TargetKinds == {Absent, Directory, Symlink(src), Regular([what |-> "old"])}

Patterns ==
  {<<>>, <<Everything>>, <<AllOfT, Everything>>,
   <<AllOfT, Pattern(<<"..", "t">>, {src})>>,
   <<Pattern(<<"**", "..", "t">>, {src})>>, <<Pattern(<<"t", "..", "..">>, {src})>>,
   <<Pattern(<<".", "t", "*">>, {notes})>>,
   <<AllOfT, [AllOfT EXCEPT !.absolute = TRUE]>>, <<[AllOfT EXCEPT !.wellFormed = FALSE]>>}
Indexes == {None, Named(<<"other">>, FALSE), Named(<<"other">>, TRUE),
            Named(<<"out", "other">>, FALSE), Named(<<"..">>, FALSE)}

DocsQuiet ==
  {Quiet(MarkdownDocs, With(NoFiles, src, Script(m))) : m \in Modules \cup Broken \cup Literals}
  \cup {Quiet(job, TwoSources(one, two)) :
          job \in {PlainDocs, MarkdownDocs}, one \in Several, two \in Several}
  \cup {Quiet(DocsJob(patterns, <<"out">>, name, "markdown"), fs) :
          patterns \in Patterns, name \in Indexes,
          fs \in {Tree, [Tree EXCEPT ![src] = Symlink(src2)],
                  [Tree EXCEPT ![<<"u">>] = Symlink(<<"t">>), ![src3] = Absent]}}
  \cup {Quiet(DocsJob(<<AllOfT>>, <<"out">>, name, "markdown"), With(With(Tree, index, kind),
                <<"out", "other">>, kind)) : kind \in TargetKinds, name \in Indexes}
  \cup {Quiet(MarkdownDocs, [Tree EXCEPT ![<<"out">>] = kind]) : kind \in OutKinds}
  \cup {Quiet(DocsJob(<<AllOfT>>, <<"bin", "shim", "x">>, None, "markdown"),
              With(Tree, shim, Script(<<>>)))}

OneSource == With(With(NoFiles, src, Script(SomeCase)), index, Regular([what |-> "old"]))
DocsTroubled ==
  {Retried(MarkdownDocs, fs, 1) :
     fs \in {OneSource, TwoSources(SomeCase, Ordered(1)), [OneSource EXCEPT ![index] = Symlink(src)],
             [With(NoFiles, src, Script(SomeCase)) EXCEPT ![<<"out">>] = Symlink(<<"t">>)]}}
  \cup {Contested(MarkdownDocs, OneSource, {src, index},
                  {Absent, Script(<<Action>>), Symlink(src2), Directory}),
        Contested(MarkdownDocs, [OneSource EXCEPT ![index] = Absent], {<<"out">>},
                  {Absent, Symlink(<<"t">>), Script(<<>>)}),
        Contested(MarkdownDocs, With(NoFiles, src, Script(SomeCase)), {<<"out">>},
                  {Symlink(<<"t">>), Script(<<>>)})}

-----------------------------------------------------------------------------
(* `xtask schema-artifacts`.                                               *)

Pair(internal, public, locations) ==
  [internal |-> internal, public |-> public, locations |-> locations]
ContractPair ==
  <<Pair(internal1, public1, {<<"p", Annotation>>, <<"v", Annotation>>}),
    Pair(internal2, public2, {<<"v", Annotation>>})>>

Schema(members) ==
  Regular([what |-> "internal", utf8 |-> TRUE, json |-> TRUE, members |-> members])
Fine1 == {<<"p">>, <<"p", Annotation>>, <<"v">>, <<"v", Annotation>>, <<"v", Annotation, Annotation>>}
Fine2 == {<<"v">>, <<"v", Annotation>>, <<"v", Annotation, "x">>}
Garbled(utf8) == Regular([what |-> "internal", utf8 |-> utf8, json |-> FALSE, members |-> {}])
OldPublic(members) == Regular([what |-> "public", members |-> members])

Internals == {Schema(Fine2), Schema({<<"v">>}), Schema(Fine2 \cup {<<"w", Annotation>>}),
              Garbled(TRUE), Garbled(FALSE), Absent}
SchemaFiles(one, two, old1, old2) ==
  [With(With(With(NoFiles, internal1, one), internal2, two), public1, old1)
     EXCEPT ![public2] = old2, ![<<"pub">>] = IF old2 = Absent THEN Absent ELSE Directory]

Gen(dry) == [command |-> "gen", dryRun |-> dry]
CheckJob == [command |-> "check"]
Publics1 == {Absent, OldPublic({}), OldPublic({<<"p">>, <<"v">>}), Directory}
Publics2 == {Absent, OldPublic({<<"v">>}), OldPublic({}), Directory}
Standing == SchemaFiles(Schema(Fine1), Schema(Fine2), OldPublic({}), Absent)

SchemaQuiet ==
  {Quiet(job, SchemaFiles(Schema(Fine1), Schema(Fine2), old1, old2)) :
     job \in {Gen(TRUE), Gen(FALSE), CheckJob}, old1 \in Publics1, old2 \in Publics2}
  \cup {Quiet(job, SchemaFiles(one, two, OldPublic({}), Absent)) :
     job \in {Gen(FALSE), CheckJob}, one \in {Schema(Fine1), Schema(Fine2), Absent}, two \in Internals}
  \cup {Quiet(Gen(FALSE), [Standing EXCEPT ![<<"pub">>] = Script(<<>>)])}

SchemaTroubled ==
  {Retried(Gen(FALSE), Standing, 1),
   [Retried(Gen(FALSE), Standing, 0) EXCEPT !.job[r2] = CheckJob],
   [Retried(Gen(TRUE), Standing, 1) EXCEPT !.job[r2] = CheckJob],
   Contested(Gen(FALSE), Standing, {public1, <<"j", ".schema.tmp">>, <<"pub">>},
             {Absent, OldPublic({<<"v">>}), Directory})}

-----------------------------------------------------------------------------
(* `reportage shim scaffold`.                                              *)

ScaffoldJob(template, entry, force) ==
  [command |-> "scaffold", template |-> template, entry |-> entry, out |-> shim, force |-> force]
Entries == {<<>>, <<"a">>, <<"'">>, <<"a", "'", "'", "\\", "$">>, <<"a", "LF">>}
Outs == {Absent, Directory, Symlink(src), Regular([what |-> "old"])}

ScaffoldQuiet ==
  {Quiet(ScaffoldJob(template, entry, force), With(NoFiles, shim, out)) :
     template \in {"rust", "", "perl"}, entry \in Entries, force \in BOOLEAN, out \in Outs}
  \cup {Quiet([ScaffoldJob(template, <<"a">>, force) EXCEPT !.out = out], fs) :
     template \in {"rust", "perl"}, force \in BOOLEAN, out \in {<<>>, shim, below},
     fs \in {NoFiles, With(NoFiles, shim, Script(<<>>)), [NoFiles EXCEPT ![<<"bin">>] = Symlink(<<"t">>)]}}

ScaffoldTroubled ==
  {Retried(ScaffoldJob("rust", <<"a">>, force), With(NoFiles, shim, out), 1) :
     force \in BOOLEAN, out \in {Absent, Regular([what |-> "old"])}}
  \cup {Contested(ScaffoldJob("rust", <<"a">>, force), NoFiles, {shim, <<"bin">>},
                  {Absent, Symlink(src), Directory, Regular([what |-> "old"])}) : force \in BOOLEAN}

-----------------------------------------------------------------------------
(* Every script of a workload.                                             *)

ScriptSet ==
  Modules \cup Broken \cup Literals \cup Several \cup {<<>>, <<Action>>, SomeCase, InGroup("G")}

ForeignSet ==
  {Absent, Directory, Symlink(src), Symlink(src2), Symlink(<<"t">>), Script(<<Action>>), Script(<<>>),
   OldPublic({<<"v">>}), Regular([what |-> "old"])}

\* One index name of each kind.
IndexWorkloads ==
  {Quiet(DocsJob(<<AllOfT>>, <<"out">>, name, "markdown"), Tree) : name \in Indexes}

WorkloadSet ==
  DocsQuiet \cup DocsTroubled \cup SchemaQuiet \cup SchemaTroubled
    \cup ScaffoldQuiet \cup ScaffoldTroubled
=============================================================================
