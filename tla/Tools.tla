------------------------------- MODULE Tools -------------------------------
(***************************************************************************)
(* The file-writing commands together: `reportage shim scaffold`,          *)
(* `reportage docs` and `xtask schema-artifacts`, any number of each over  *)
(* one file system, with failing calls, kills and other programs.          *)
(***************************************************************************)
EXTENDS ShimScaffold, SchemaArtifacts, DocsGeneration

CONSTANTS Published,  \* the places that are published by replacement
          Foreign     \* what other programs put at a path

\* The public schemas are published; what they are staged in is not, nor is a directory.
ASSUME PublishedAssumption ==
  /\ Publics \subseteq Published /\ Published \subseteq Paths /\ Temporaries \cap Published = {}
  /\ \A p \in Publics : PrefixesOf(Parent(p)) \cap Published = {}
  /\ \A p \in Paths : PrefixesOf(Parent(p)) \cap (Publics \cup Temporaries) = {}

LinksIn(fs) == {file \in fs : file.kind = "link"}

\* No command is pointed at a file another one publishes, by its arguments or through a
\* symlink, and there is no symlink where the generator writes.
ASSUME PlacesAssumption ==
  \A w \in Workloads :
    /\ w.foreign \subseteq Foreign
    /\ \A r \in Runs : LET request == w.job[r] IN
         request # None =>
           /\ request.command = "docs" =>
                /\ request.out \in Paths /\ PrefixesOf(request.out) \cap Published = {}
                /\ ValidIndex(request.index) => Target(request) \in Paths
                /\ request.patterns \in Seq(Range(request.patterns))
                /\ \A k \in DOMAIN request.patterns : LET pattern == request.patterns[k]
                     IN /\ pattern.components \in Seq(STRING) /\ IsFiniteSet(pattern.matches)
                        /\ pattern.matches \subseteq Seq(STRING)
                        /\ \A m \in pattern.matches : Normalized(m) \in Paths \cup {<<>>}
           /\ request.command = "scaffold" =>
                /\ PrefixesOf(Parent(request.out)) \cap Published = {}
                /\ request.out = <<>> \/ request.out \in Paths \ (Published \cup Temporaries)
                /\ request.entry \in Seq(STRING)
    /\ \A file \in LinksIn(Range(w.files) \cup w.foreign) :
         file.content \in Paths \ (Published \cup Temporaries)
    /\ \A p \in UNION {PrefixesOf(q) : q \in Publics \cup Temporaries} :
         w.files[p].kind # "link" /\ (p \in w.contested => LinksIn(w.foreign) = {})

\* The places of the sources that `docs` is pointed at in a workload; what it may read, there or
\* where a symlink leads; and the files that are there from the start or put there by another
\* program.
SourcesIn(w) ==
  Paths \cap UNION {SourcePlaces(w.job[r]) :
    r \in {s \in Runs : w.job[s] # None /\ w.job[s].command = "docs"}}
LinksRead(w) ==
  LinksIn({w.files[p] : p \in SourcesIn(w)} \cup {f \in w.foreign : SourcesIn(w) \cap w.contested # {}})
PlacesRead(w) == Paths \cap (SourcesIn(w) \cup {f.content : f \in LinksRead(w)})
FilesRead(w) ==
  {file \in {w.files[p] : p \in PlacesRead(w)}
              \cup {f \in w.foreign : PlacesRead(w) \cap w.contested # {}} : file.kind = "file"}

\* They are scripts, and no command of the workload writes at these places.
ASSUME SourcesAssumption ==
  /\ {file.content.lines : file \in UNION {FilesRead(w) : w \in Workloads}} \subseteq Scripts
  /\ \A w \in Workloads : \A p \in PlacesRead(w) :
       /\ p \notin Publics \cup Temporaries
       /\ \A r \in Runs : LET request == w.job[r] IN
            request # None =>
              /\ (request.command = "docs" /\ ValidIndex(request.index)) =>
                   Last(p) # Last(Target(request))
              /\ request.command = "scaffold" =>
                   p \notin {request.out} \cup {f.content : f \in LinksIn(Range(w.files) \cup w.foreign)}

Ended ==
  /\ \A r \in Runs : Exited(r)
  /\ UNCHANGED toolVars

ToolNext ==
  \/ \E r \in Runs : ScaffoldStep(r) \/ SchemaStep(r) \/ DocsStep(r) \/ Kill(r)
  \/ Interfere
  \/ Ended

ToolSpec == ToolInit /\ [][ToolNext]_toolVars

-----------------------------------------------------------------------------
Labels ==
  {"start", "exited", "policy", "parent", "create", "fill", "chmod",
   "prepare", "gen", "check", "stage", "open", "text", "publish",
   "discover", "load", "output", "target", "stage_document", "persist"}

\* Why a command ends: it refuses its request or its sources, or does something else.
Refusals == {"invalid_request", "out_policy", "unknown_template",
             "index_file_name", "no_patterns", "absolute_pattern", "pattern_escapes",
             "invalid_pattern", "no_eligible_source", "source_load", "symlink_output",
             "not_a_directory", "traversal"} \cup Range(Severities)

Causes ==
  Refusals \cup {"io", "create_failed", "write_failed", "replace_failed", "not_replaceable",
                 "public_unreadable", "out_of_date", "killed", "done"}

\* None is no open file and no exit.
ASSUME NoneAssumption == None \notin (Runs \X Paths) \cup [code : Nat, cause : Causes]

\* Every path has one kind of file, only regular files have a node or a mode, and a
\* process has an exit code exactly when it was started and has exited.
TypeOK ==
  /\ \A r \in Runs : pc[r] \in Labels /\ met[r] \subseteq Disturbances
  /\ budget \in Nat
  /\ DOMAIN files = Paths
  /\ \A p \in Paths :
       /\ files[p].kind \in Kinds
       /\ files[p].kind # "file" => files[p].node = None /\ ~files[p].exec
  /\ \A r \in Runs : exit[r] # None =>
       Exited(r) /\ exit[r].code \in {0, 2, 3, 4, 5, 137} /\ exit[r].cause \in Causes
  /\ \A r \in Runs : Exited(r) /\ exit[r] = None => Job(r) = None

Exits(r) == pc[r] # "exited" /\ pc'[r] = "exited"

-----------------------------------------------------------------------------
(* What a run that nothing disturbs does.                                  *)

\* The promise of the command of a run about its exit, from what it found to what it left.
Promised(request, code, before, after) ==
  CASE request.command = "scaffold" -> ScaffoldPromise(request, code, before, after)
    [] request.command = "docs"     -> DocsPromise(request, code, before, after)
    [] OTHER                        -> SchemaPromise(request, code, before, after)

\* "The value must be a single file name [...]: an empty value, a value containing a path
\* separator [...] is a request validation error [...], reported before any output directory
\* is created" (docs/reference/docs-generation.md), with exit code 2.
IndexRefusedFirst ==
  [][\A r \in Runs :
       (Exits(r) /\ met'[r] = {} /\ Job(r).command = "docs" /\ ~SingleFileName(Job(r).index)) =>
         exit'[r].code = 2 /\ files' = seen'[r]]_toolVars

\* A run that meets no failure, kill, replacement or other run exits with the code its
\* input calls for and leaves exactly the files it should: refusals for each reason and
\* no other, everything written complete, nothing else touched.
QuietRun ==
  [][\A r \in Runs : (Exits(r) /\ met'[r] = {}) =>
       Promised(Job(r), exit'[r].code, seen'[r], files')]_toolVars

-----------------------------------------------------------------------------
(* What holds when calls fail.                                             *)

Preview(request) == request.command = "check" \/ (request.command = "gen" /\ request.dryRun)

\* A command that refuses its request or its sources, checks, or is asked for a dry run
\* leaves every file as it found it, whichever of its calls failed.
RefusalChangesNothing ==
  [][\A r \in Runs : (Exits(r) /\ met'[r] \subseteq {"failure", "killed"}) =>
       ((exit'[r].cause \in Refusals \/ Preview(Job(r))) => files' = seen'[r])]_toolVars

\* What a generator reports as completed is what it changed, when it fails half way too.
ReportedChangesTrue ==
  [][\A r \in Runs : (Exits(r) /\ Job(r).command = "gen" /\ met'[r] \subseteq {"failure"}) =>
       {c \in Range(work'[r].changes) : c.state = "completed"}
         = ReportedChanges(seen'[r], files')]_toolVars

Outcome(r) ==
  IF exit[r] = None THEN "running" ELSE IF exit[r].code = 0 THEN "success" ELSE "error"

\* The runs that repeat what others attempted before: all asked for the same, one at a time.
Retries(r) ==
  /\ \A s \in Runs : setting.job[s] = Job(r)
  /\ \A s \in Runs \ {r} : Exited(s) /\ met[s] \subseteq {"failure", "killed"}

Repeatable(request) ==
  CASE request.command = "scaffold" -> request.force
    [] request.command = "docs"     -> ~SlashOverlooked(request.index)
    [] OTHER                        -> TRUE

\* What a failed or killed run leaves behind does not stand in the way: the same command,
\* run again undisturbed, does what it would have done the first time (Unless an
\* earlier run did it already: a failed look at what `docs` may not replace lets it go on.)
RetryConverges ==
  [][\A r \in Runs :
       (Exits(r) /\ met'[r] = {} /\ Retries(r) /\ Repeatable(Job(r))) =>
         LET request == Job(r)
         IN CASE request.command = "scaffold" ->
                   exit'[r].code = 0 <=> ~ScaffoldRefusal(request, setting.files)
              [] request.command = "docs" ->
                   /\ \/ exit'[r].code = 2 <=> DocsRefusal(request, setting.files)
                      \/ \E s \in Runs \ {r} : Outcome(s) = "success"
                   /\ exit'[r].code = 0 =>
                        files'[Target(request)].content = Expected(request, setting.files)
              [] OTHER ->
                   SchemaPromise(request, exit'[r].code, setting.files, files')]_toolVars

-----------------------------------------------------------------------------
(* Publishing by replacement.                                              *)

Publishing == {"docs", "gen", "check"}
Publishes(r) == setting.job[r] # None /\ Job(r).command \in Publishing

\* `docs` stages under a name nobody else has; a generator under one all of them have.
Alone(r) == ~Publishes(r) \/ Job(r).command = "docs" \/ met[r] \cap {"other", "foreign"} = {}

Replacement == INSTANCE AtomicReplace WITH
  Publishers <- Runs,
  Places     <- Published,
  Torn       <- Torn,
  Others     <- Foreign,
  contents   <- [p \in Published |-> files[p]],
  outcome    <- [r \in Runs |-> Outcome(r)],
  alone      <- [r \in Runs |-> Alone(r)]

\* The target of `docs` and the public schemas are only ever replaced whole, unless two
\* generators share the temporary file of a schema.
ReplacedWhole == Replacement!Spec

-----------------------------------------------------------------------------
(* What `docs` makes of its sources.                                       *)

\* The sources a run is about to load (Parsed has no other: TLC reports one that is missing).
LoadingNow ==
  LET NextFile(r) == files[Followed(NextSource(r))]
      loading == {r \in Runs : pc[r] = "load" /\ NextFile(r).kind = "file"}
  IN AllSources \cap {Source(NextFile(r).content.lines) : r \in loading}

\* The parser, which goes from block to block and stops at the first error, accepts exactly
\* the files of the canonical form.
CanonicalForm ==
  \A source \in LoadingNow : (Parsed[source].error = "none") = (source \in CanonicalSources)

\* Every span an interpolated literal yields, of a binding reference or of an error, cuts
\* that very text out of the source the user wrote, dedented or not; and every text can
\* be written so that it is read back as itself.
LiteralsReadBack ==
  \A source \in LoadingNow : \A i \in source.code :
    (SyntaxOk(source) /\ Interpolated(source.lines[i]) /\ ~Shallow(source, i)) =>
      LET literal == LiteralAt(source, i)
      IN SpansPoint(literal) /\ Sayable(DedentedText(literal), literal.form)

RenderedBy(r) == pc[r] = "target" /\ Job(r).command = "docs"

\* The cases a document shows, each with its snippet.
Shown(r) ==
  UNION {{[loaded |-> loaded, case |-> loaded.parsed.cases[c],
           lines |-> LET file == DocumentedFile(loaded)
                     IN Snippet(file.setup, file.cases[c].source)] :
            c \in DOMAIN loaded.parsed.cases} : loaded \in work[r].loaded}

\* How far the snippets of a format are indented.
Margin(format) == IF format = "plain" THEN 4 ELSE 0

\* Every case a document shows is shown as a script that parses by itself, with the steps,
\* set-up and heredocs of the case.  In Markdown its commands are verbatim; in plain text
\* the lines that continue a command begin four columns further right, and nothing else
\* differs.
SnippetsStandAlone ==
  \A r \in Runs : RenderedBy(r) =>
    \A shown \in Shown(r) : \A columns \in {Margin("markdown"), Margin("plain")} :
      StandsAlone(Indented(shown.lines, columns), columns,
                  shown.loaded.source, shown.loaded.parsed, shown.case)

\* In a generated document every entry of the contents leads to one heading, no two to
\* the same, no source can break out of its fence, and every source file has its place.
DocumentWellFormed ==
  \A r \in Runs : RenderedBy(r) =>
    /\ Navigable(work[r].document) /\ Enclosed(work[r].document)
    /\ {work[r].document.blocks[i].path : i \in BlocksOf(work[r].document, "path")}
         = {l.path : l \in work[r].loaded}
=============================================================================
