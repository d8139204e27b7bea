--------------------------- MODULE DocsGeneration ---------------------------
(***************************************************************************)
(* `reportage docs` (docs.rs, docs/discovery.rs, loader.rs, output.rs):    *)
(* patterns are resolved, every source is read and parsed, the document is *)
(* rendered, and only after all of that is the output directory prepared   *)
(* and the document published by replacement.                              *)
(*                                                                         *)
(* A job is [command |-> "docs", patterns, out, index, format].  A pattern *)
(* is [absolute, components, wellFormed, matches]: what it may match is    *)
(* the external glob crate's business.  An index name is None or           *)
(* [components, slash], `slash` for a separator at its end.                *)
(***************************************************************************)
EXTENDS ToolRuns, DocsCatalog

CONSTANTS ReporNames,   \* the file names with the extension .repor
          DefaultIndex  \* format -> `index` with the extension of the format

\* Display paths are totally ordered.
ASSUME OrderAssumption ==
  \A p, q \in Paths :
    /\ PathBefore(p, q) <=> p # q /\ ~PathBefore(q, p)
    /\ \A s \in Paths : PathBefore(p, q) /\ PathBefore(q, s) => PathBefore(p, s)
ASSUME StemAssumption == \A p \in Paths : Words(Untitled(p)) \in Seq(STRING)

Docs(r) == pc[r] # "exited" /\ Job(r).command = "docs"

-----------------------------------------------------------------------------
(* discovery::resolve_patterns.                                            *)

\* How deep a pattern is at least, after its first k components.
Depth(components, k) ==
  LET Of(S) == Cardinality({i \in 1 .. k : components[i] \in S})
  IN k - Of({".", "**"}) - 2 * Of({".."})

Escapes(pattern) ==
  \E k \in DOMAIN pattern.components :
    pattern.components[k] = ".." /\ Depth(pattern.components, k) < 0

\* normalize_display_path
Normalized(path) ==
  LET parts[k \in 0 .. Len(path)] ==
        IF k = 0 THEN <<>>
        ELSE IF path[k] = "." THEN parts[k - 1]
        ELSE IF path[k] = ".." THEN Front(parts[k - 1]) ELSE Append(parts[k - 1], path[k])
  IN parts[Len(path)]

\* lstat of every prefix as it is written: a symlink is seen before `..` takes it away.
Eligible(path, fs) ==
  LET KindAt(k) == IF Normalized(SubSeq(path, 1, k)) = <<>> THEN "dir"
                   ELSE fs[Normalized(SubSeq(path, 1, k))].kind
  IN /\ Last(path) \in ReporNames
     /\ \A k \in DOMAIN path : KindAt(k) \notin {"link", "absent"}
     /\ KindAt(Len(path)) = "file"

Selected(pattern, fs) == {Normalized(m) : m \in {p \in pattern.matches : Eligible(p, fs)}}

\* What the patterns may select, whatever the files are.
SourcePlaces(request) ==
  {Normalized(m) : m \in {p \in UNION {request.patterns[k].matches : k \in DOMAIN request.patterns} :
                           Last(p) \in ReporNames}}

PatternError(pattern, fs) ==
  IF pattern.absolute THEN "absolute_pattern"
  ELSE IF Escapes(pattern) THEN "pattern_escapes"
  ELSE IF ~pattern.wellFormed THEN "invalid_pattern"
  ELSE IF Selected(pattern, fs) = {} THEN "no_eligible_source" ELSE "none"

\* layout::validate_index_file_name: exactly one normal component.
ValidIndex(index) ==
  index = None \/ (Len(index.components) = 1 /\ index.components[1] \notin {".", "..", "/"})

\* GenerateError::class and the exit codes of run_docs.
Infrastructure == {"traversal", "create_failed", "write_failed", "replace_failed"}
Fails(r, cause) == ExitWith(r, IF cause \in Infrastructure THEN 3 ELSE 2, cause)

-----------------------------------------------------------------------------
(* generate.  work: the next pattern, the sources still to load, those     *)
(* loaded, whether one failed, the document and where it is staged.        *)

BeginDocs(r) ==
  /\ Docs(r) /\ Begin(r)
  /\ IF ~ValidIndex(Job(r).index) THEN Fails(r, "index_file_name")
     ELSE IF Job(r).patterns = <<>> THEN Fails(r, "no_patterns")
     ELSE Goto(r, "discover") /\ UNCHANGED exit
  /\ work' = [work EXCEPT ![r] =
       [at |-> 1, todo |-> {}, loaded |-> {}, failed |-> FALSE, document |-> None,
        staged |-> None]]
  /\ UNCHANGED <<setting, files, budget>>

DiscoverPattern(r) ==
  /\ pc[r] = "discover"
  /\ LET pattern == Job(r).patterns[work[r].at]
         error == PatternError(pattern, files)
     IN IF error # "none" THEN Fails(r, error) /\ UNCHANGED work
        ELSE /\ work' = [work EXCEPT ![r].todo = @ \cup Selected(pattern, files), ![r].at = @ + 1]
             /\ Goto(r, IF work[r].at = Len(Job(r).patterns) THEN "load" ELSE "discover")
             /\ UNCHANGED exit
  /\ Undisturbed /\ UNCHANGED files

TraversalFails(r) ==
  /\ pc[r] = "discover"
  /\ CallFails(r) /\ Fails(r, "traversal")
  /\ UNCHANGED work

Target(request) ==
  Append(request.out, IF request.index = None THEN DefaultIndex[request.format]
                      ELSE request.index.components[1])

\* load_sources goes on after an error, so that all are reported; then it fails.
AfterSource(r, w) ==
  IF w.todo # {} THEN work' = [work EXCEPT ![r] = w] /\ UNCHANGED <<pc, exit>>
  ELSE IF w.failed THEN work' = [work EXCEPT ![r] = w] /\ Fails(r, "source_load")
  ELSE /\ work' = [work EXCEPT ![r] =
            [w EXCEPT !.document = Rendered(Catalog(w.loaded), Job(r).format)]]
       /\ Goto(r, "output") /\ UNCHANGED exit

NextSource(r) == CHOOSE p \in work[r].todo : \A q \in work[r].todo : p = q \/ PathBefore(p, q)

Loaded(path, lines) ==
  [path |-> path, source |-> Source(lines), parsed |-> Parsed[Source(lines)]]

LoadSource(r) ==
  /\ pc[r] = "load"
  /\ LET path == NextSource(r)
         file == files[Followed(path)]
         w == [work[r] EXCEPT !.todo = @ \ {path}]
         bad == IF file.kind = "file" THEN Parsed[Source(file.content.lines)].error # "none" ELSE TRUE
     IN AfterSource(r, IF bad THEN [w EXCEPT !.failed = TRUE]
                       ELSE [w EXCEPT !.loaded = @ \cup {Loaded(path, file.content.lines)}])
  /\ Undisturbed /\ UNCHANGED files

SourceUnreadable(r) ==
  /\ pc[r] = "load"
  /\ CallFails(r)
  /\ AfterSource(r, [work[r] EXCEPT !.todo = @ \ {NextSource(r)}, !.failed = TRUE])

-----------------------------------------------------------------------------
(* OutputDirectory: prepare, then write_document.                          *)

PrepareOutput(r) ==
  /\ pc[r] = "output"
  /\ LET out == Job(r).out
     IN CASE files[out].kind = "link" -> Fails(r, "symlink_output") /\ UNCHANGED files
          [] files[out].kind = "file" -> Fails(r, "not_a_directory") /\ UNCHANGED files
          [] files[out].kind = "dir" -> Goto(r, "target") /\ UNCHANGED <<exit, files>>
          [] OTHER ->
               IF CanMakeDirectories(out)
               THEN files' = WithDirectories(out) /\ Goto(r, "target") /\ UNCHANGED exit
               ELSE Fails(r, "create_failed") /\ UNCHANGED files
  /\ Undisturbed /\ UNCHANGED work

\* The output directory may have become a symlink since it was looked at.
TargetNow(request) == Append(Followed(request.out), Last(Target(request)))

\* What lstat says of the target, a name with a separator at its end being a directory's.
Replaceable(request, file, linked) ==
  \/ file.kind \in {"absent", "file"}
  \/ file.kind = "link" /\ request.index # None /\ request.index.slash /\ linked.kind # "dir"

CheckTarget(r) ==
  /\ pc[r] = "target"
  /\ LET target == TargetNow(Job(r))
     IN IF Replaceable(Job(r), files[target], files[Followed(target)])
        THEN Goto(r, "stage_document") /\ UNCHANGED exit
        ELSE Fails(r, "not_replaceable")
  /\ Undisturbed /\ UNCHANGED <<work, files>>

\* The temporary file has a name of its own, in the directory as it is now; it is gone when
\* this process drops it.
StageDocument(r) ==
  /\ pc[r] = "stage_document"
  /\ LET directory == Followed(Job(r).out)
     IN IF IsDirectory(directory)
        THEN /\ work' = [work EXCEPT ![r].staged = directory]
             /\ Goto(r, "persist") /\ UNCHANGED exit
        ELSE Fails(r, "write_failed") /\ UNCHANGED work
  /\ Undisturbed /\ UNCHANGED files

\* A wrong edit: the target itself is written, in place.
PersistInPlace(r) ==
  /\ pc[r] = "persist"
  /\ IF files[TargetNow(Job(r))].content = Torn
     THEN files' = [files EXCEPT ![TargetNow(Job(r))] = Regular(work[r].document)]
            /\ ExitWith(r, 0, "done")
     ELSE files' = [files EXCEPT ![TargetNow(Job(r))] = Regular(Torn)] /\ UNCHANGED <<pc, exit>>
  /\ Undisturbed /\ UNCHANGED work

Persist(r) ==
  /\ pc[r] = "persist"
  /\ LET target == TargetNow(Job(r))
         slash == Job(r).index # None /\ Job(r).index.slash
     IN IF /\ Followed(Job(r).out) = work[r].staged /\ IsDirectory(work[r].staged)
           /\ files[target].kind # "dir" /\ ~slash
        THEN files' = [files EXCEPT ![target] = Regular(work[r].document)] /\ ExitWith(r, 0, "done")
        ELSE Fails(r, "replace_failed") /\ UNCHANGED files
  /\ Undisturbed /\ UNCHANGED work

\* What lstat fails on counts as absent: create_dir_all accepts a directory that is there, or
\* a symlink to one, and the target is left to the rename.
OutputFails(r) ==
  /\ CallFails(r)
  /\ \/ /\ pc[r] = "output"
        /\ IF IsDirectory(Followed(Job(r).out)) THEN Goto(r, "target") /\ UNCHANGED exit
           ELSE Fails(r, "create_failed")
     \/ pc[r] = "target" /\ Goto(r, "stage_document") /\ UNCHANGED exit
     \/ pc[r] = "stage_document" /\ Fails(r, "write_failed")
     \/ pc[r] = "persist" /\ Fails(r, "replace_failed")
  /\ UNCHANGED work

DocsStep(r) ==
  \/ BeginDocs(r) \/ DiscoverPattern(r) \/ TraversalFails(r) \/ LoadSource(r)
  \/ SourceUnreadable(r) \/ PrepareOutput(r) \/ CheckTarget(r) \/ StageDocument(r)
  \/ Persist(r) \/ OutputFails(r)

-----------------------------------------------------------------------------
(* What the command promises, said at once.                                *)

Sources(request, fs) ==
  UNION {Selected(request.patterns[k], fs) : k \in DOMAIN request.patterns}

\* A pattern whose path leads outside at some point, whatever its wildcards match: it has
\* gone up more often than down.
LeavesWorkingDirectory(pattern) ==
  LET components == pattern.components
      Up(k) == {i \in 1 .. k : components[i] = ".."}
      Down(k) == {i \in 1 .. k : components[i] \notin {".", "**", ".."}}
  IN \E k \in DOMAIN components : Cardinality(Up(k)) > Cardinality(Down(k))

\* "A single file name [...] without a path separator" (docs-generation.md): none at its end
\* either, which ValidIndex does not see.
SingleFileName(index) == index # None => ~index.slash /\ ValidIndex(index)
SlashOverlooked(index) == ValidIndex(index) /\ ~SingleFileName(index)

\* Everything a request is refused for but its index name.
Unacceptable(request, before) ==
  \/ request.patterns = <<>>
  \/ \E k \in DOMAIN request.patterns : LET pattern == request.patterns[k]
       IN \/ pattern.absolute \/ ~pattern.wellFormed \/ LeavesWorkingDirectory(pattern)
          \/ Selected(pattern, before) = {}
  \/ \E p \in Sources(request, before) : Source(before[p].content.lines) \notin CanonicalSources
  \/ before[request.out].kind \in {"link", "file"}
  \/ LET file == before[Target(request)]
     IN ~Replaceable(request, file, before[IF file.kind = "link" THEN file.content
                                           ELSE Target(request)])

DocsRefusal(request, before) ==
  ~SingleFileName(request.index) \/ Unacceptable(request, before)

\* The document of the sources as they are in `fs`.
Expected(request, fs) ==
  Rendered(Catalog({Loaded(p, fs[p].content.lines) : p \in Sources(request, fs)}), request.format)

\* Undisturbed, from `before`: the exit code, and all that may differ in `after`.  A name with a
\* separator at its end may be refused late, when the output directory is there.
DocsPromise(request, code, before, after) ==
  /\ code = 2 => DocsRefusal(request, before) /\ after = before
  /\ DocsRefusal(request, before) =>
       code = 2 \/ (code = 3 /\ SlashOverlooked(request.index))
  /\ code = 0 => after[Target(request)] = Regular(Expected(request, before))
  /\ \A p \in Paths \ (IF code = 0 THEN {Target(request)} ELSE {}) :
       after[p] = before[p] \/ (p \in PrefixesOf(request.out) /\ after[p] = Directory)
=============================================================================
