-------------------------- MODULE SchemaArtifacts --------------------------
(***************************************************************************)
(* `xtask schema-artifacts gen` and `check` (schema_artifacts.rs): every   *)
(* public schema is its internal schema without the snapshot annotations,  *)
(* published through a sibling temporary file of a fixed name.             *)
(*                                                                         *)
(* A job is [command |-> "gen", dryRun] or [command |-> "check"].  The     *)
(* contents of an internal schema are [what |-> "internal", utf8, json,    *)
(* members], where `members` is the set of JSON pointers of the document,  *)
(* each a sequence of keys.                                                *)
(***************************************************************************)
EXTENDS ToolRuns, SequencesExt, FiniteSetsExt

CONSTANTS Contracts  \* the schema pairs in order: [internal, public, locations]

Annotation == "x-reportage-snapshot"

Schemas(r) == pc[r] # "exited" /\ Job(r).command \in {"gen", "check"}
DryRun(r) == Job(r).command = "gen" /\ Job(r).dryRun
Numbers == DOMAIN Contracts
Publics == {Contracts[n].public : n \in Numbers}

\* temporary_path: the name is fixed, so every generator uses the same file.
Temporary(public) == Parent(public) \o <<"." \o Last(public) \o ".tmp">>
Temporaries == {Temporary(p) : p \in Publics}

\* Every schema has a public file of its own, and a temporary file of its own.
ASSUME ContractsAssumption ==
  /\ Contracts \in Seq([internal : Paths, public : Paths, locations : SUBSET Seq(STRING)])
  /\ Contracts # <<>>
  /\ \A m, n \in Numbers : Contracts[m].public = Contracts[n].public => m = n
  /\ \A p, q \in Publics : Temporary(p) = Temporary(q) => p = q
  /\ Temporaries \subseteq Paths \ Publics

-----------------------------------------------------------------------------
(* public_schema_text.                                                     *)

\* A member at or below an annotation goes away; the outermost one is the removal.
Annotated(member) == \E k \in 1 .. Len(member) : member[k] = Annotation
Removed(schema) ==
  {m \in schema.members : Last(m) = Annotation /\ ~Annotated(Front(m))}
PublicText(schema) ==
  [what |-> "public", members |-> {m \in schema.members : ~Annotated(m)}]

Missing(contract, schema) == contract.locations \ Removed(schema)
Unsupported(contract, schema) == Removed(schema) \ contract.locations

\* What is wrong with an internal schema, the first of these that applies.
Defect(contract, file) ==
  IF file.kind # "file" THEN "unreadable"
  ELSE IF ~file.content.utf8 THEN "not_utf8"
  ELSE IF ~file.content.json THEN "malformed"
  ELSE IF Missing(contract, file.content) \cup Unsupported(contract, file.content) # {}
       THEN "annotations" ELSE "none"

\* Failures are reported by severity, one kind at a time.
Severities == <<"unreadable", "not_utf8", "malformed", "annotations">>
Reported(defects) == Severities[Min({i \in DOMAIN Severities : Severities[i] \in defects})]

\* A wrong edit: a stale schema is reported like any error.
CategoryCodeUniform == [usage |-> 2, input |-> 3, filesystem |-> 4, conflict |-> 1]

\* FailureCategory::exit_code
CategoryCode == [usage |-> 2, input |-> 3, filesystem |-> 4, conflict |-> 5]
SourceCode(defect) ==
  IF defect = "unreadable" THEN CategoryCode.filesystem ELSE CategoryCode.input

-----------------------------------------------------------------------------
(* prepare_all: every internal schema is looked at before anything is done.*)

\* work: the next contract, the texts made, the defects met, the changes reported.
BeginSchemas(r) ==
  /\ Schemas(r) /\ Begin(r)
  /\ work' = [work EXCEPT ![r] =
       [at |-> 1, texts |-> <<>>, defects |-> {}, changes |-> <<>>, stale |-> {},
        action |-> None, fd |-> None]]
  /\ Goto(r, "prepare")
  /\ UNCHANGED <<setting, files, exit, budget>>

Prepared(r, defect, text) ==
  LET w == [work[r] EXCEPT !.texts = Append(@, text), !.defects = @ \cup {defect}]
      wrong == w.defects \ {"none"}
  IN IF w.at < Len(Contracts)
     THEN /\ work' = [work EXCEPT ![r] = [w EXCEPT !.at = @ + 1]]
          /\ UNCHANGED <<pc, exit>>
     ELSE /\ work' = [work EXCEPT ![r] = [w EXCEPT !.at = 1]]
          /\ IF wrong # {} THEN ExitWith(r, SourceCode(Reported(wrong)), Reported(wrong))
             ELSE Goto(r, Job(r).command) /\ UNCHANGED exit

PrepareContract(r) ==
  /\ pc[r] = "prepare"
  /\ LET contract == Contracts[work[r].at]
         file == files[contract.internal]
         defect == Defect(contract, file)
     IN Prepared(r, defect, IF defect = "none" THEN PublicText(file.content) ELSE None)
  /\ Undisturbed /\ UNCHANGED files

PrepareFails(r) ==
  /\ pc[r] = "prepare"
  /\ CallFails(r)
  /\ Prepared(r, "unreadable", None)

-----------------------------------------------------------------------------
(* generate.                                                               *)

Text(r) == work[r].texts[work[r].at]
Public(r) == Contracts[work[r].at].public

\* Past the last contract the report is a success.
NextContract(r, w) ==
  /\ work' = [work EXCEPT ![r] = [w EXCEPT !.at = @ + 1]]
  /\ IF w.at < Len(Contracts) THEN Goto(r, Job(r).command) /\ UNCHANGED exit
     ELSE IF w.stale # {} THEN ExitWith(r, CategoryCode.conflict, "out_of_date")
     ELSE ExitWith(r, 0, "done")

Change(r, action, state) == [action |-> action, path |-> Public(r), state |-> state]
Reporting(w, change) == [w EXCEPT !.changes = Append(@, change)]

\* read_optional, compared byte for byte; there may be no public schema.
Committed(file, text) == file.kind # "absent" /\ file.content = text
Readable(fs, path) == fs[path].kind \in {"absent", "file"} /\ ~BelowFile(fs, path)

ComparePublic(r) ==
  /\ pc[r] = "gen"
  /\ LET file == files[Followed(Public(r))]
         action == IF file.kind = "absent" THEN "create" ELSE "modify"
     IN IF ~Readable(files, Followed(Public(r)))
        THEN ExitWith(r, CategoryCode.filesystem, "public_unreadable") /\ UNCHANGED work
        ELSE IF Committed(file, Text(r)) THEN NextContract(r, work[r])
        ELSE IF DryRun(r)
        THEN NextContract(r, Reporting(work[r], Change(r, action, "planned")))
        ELSE /\ work' = [work EXCEPT ![r].action = action]
             /\ Goto(r, "stage") /\ UNCHANGED exit
  /\ Undisturbed /\ UNCHANGED files

\* A wrong edit: the change is on the report although it failed.
WriteFailedReported(r) ==
  /\ ExitWith(r, CategoryCode.filesystem, "write_failed")
  /\ work' = [work EXCEPT ![r] = Reporting(@, Change(r, work[r].action, "completed"))]

\* write_atomically: on an error the temporary file is removed, whoever wrote it.
WriteFailed(r) ==
  /\ ExitWith(r, CategoryCode.filesystem, "write_failed")
  /\ UNCHANGED work

MakePublicParent(r) ==
  /\ pc[r] = "stage"
  /\ LET parent == Parent(Public(r))
     IN IF CanMakeDirectories(parent)
        THEN files' = WithDirectories(parent) /\ Goto(r, "open") /\ UNCHANGED <<work, exit>>
        ELSE WriteFailed(r) /\ UNCHANGED files
  /\ Undisturbed

\* A wrong edit: the temporary file must not be there yet.
StageOpensNew(r) ==
  /\ pc[r] = "open"
  /\ LET temporary == Temporary(Public(r))
     IN IF files[temporary] # Absent
        THEN WriteFailed(r) /\ UNCHANGED files
        ELSE /\ files' = Opened(temporary, <<r, temporary>>)
             /\ work' = [work EXCEPT ![r].fd = <<r, temporary>>]
             /\ Goto(r, "text") /\ UNCHANGED exit
  /\ Undisturbed

StageOpens(r) ==
  /\ pc[r] = "open"
  /\ LET temporary == Temporary(Public(r))
         node == Descriptor(temporary, <<r, temporary>>)
     IN IF CanOpen(temporary)
        THEN /\ files' = Opened(temporary, node)
             /\ work' = [work EXCEPT ![r].fd = node]
             /\ Goto(r, "text") /\ UNCHANGED exit
        ELSE WriteFailed(r) /\ files' = Unlinked(temporary)
  /\ Undisturbed

StageWrites(r) ==
  /\ pc[r] = "text"
  /\ files' = WrittenTo(work[r].fd, Text(r))
  /\ Goto(r, "publish")
  /\ Undisturbed /\ UNCHANGED <<work, exit>>

Publish(r) ==
  /\ pc[r] = "publish"
  /\ LET temporary == Temporary(Public(r))
     IN IF CanRename(temporary, Public(r))
        THEN /\ files' = Renamed(temporary, Public(r))
             /\ NextContract(r, Reporting(work[r], Change(r, work[r].action, "completed")))
        ELSE WriteFailed(r) /\ files' = Unlinked(temporary)
  /\ Undisturbed

\* A call of the publication fails.  What was staged is removed, except when it was the
\* directory that could not be made.
PublicationFails(r) ==
  /\ pc[r] \in {"stage", "open", "text", "publish"}
  /\ budget > 0 /\ budget' = budget - 1
  /\ met' = [met EXCEPT ![r] = @ \cup {"failure"}]
  /\ files' = IF pc[r] = "stage" THEN files ELSE Unlinked(Temporary(Public(r)))
  /\ WriteFailed(r)
  /\ UNCHANGED <<setting, seen>>

-----------------------------------------------------------------------------
(* check.                                                                  *)

CheckPublic(r) ==
  /\ pc[r] = "check"
  /\ LET file == files[Followed(Public(r))]
     IN IF ~Readable(files, Followed(Public(r)))
        THEN ExitWith(r, CategoryCode.filesystem, "public_unreadable") /\ UNCHANGED work
        ELSE NextContract(r, IF Committed(file, Text(r)) THEN work[r]
                             ELSE [work[r] EXCEPT !.stale = @ \cup {Public(r)}])
  /\ Undisturbed /\ UNCHANGED files

PublicUnreadable(r) ==
  /\ pc[r] \in {"gen", "check"}
  /\ CallFails(r)
  /\ ExitWith(r, CategoryCode.filesystem, "public_unreadable")
  /\ UNCHANGED work

SchemaStep(r) ==
  \/ BeginSchemas(r) \/ PrepareContract(r) \/ PrepareFails(r)
  \/ ComparePublic(r) \/ MakePublicParent(r) \/ StageOpens(r) \/ StageWrites(r) \/ Publish(r)
  \/ PublicationFails(r) \/ CheckPublic(r) \/ PublicUnreadable(r)
-----------------------------------------------------------------------------
(* What the two commands promise, said at once.                            *)

\* Undisturbed, from `before`: the exit code, and all that may differ in `after`.
SchemaPromise(request, code, before, after) ==
  LET defects == {Defect(Contracts[n], before[Contracts[n].internal]) : n \in Numbers}
      Public_(n, fs) == fs[Contracts[n].public]
      Wanted(n) == PublicText(before[Contracts[n].internal].content)
      current == {n \in Numbers : Public_(n, before).kind = "file"
                                    /\ Public_(n, before).content = Wanted(n)}
      writes == request.command = "gen" /\ ~request.dryRun
      faulty ==
        \/ \E n \in Numbers : ~Readable(before, Contracts[n].public)
        \/ writes /\ \E n \in Numbers \ current :
             before[Temporary(Contracts[n].public)].kind = "dir"
  IN IF defects # {"none"}
     THEN /\ code = (IF "unreadable" \in defects THEN 4 ELSE 3)
          /\ after = before
     ELSE /\ ~writes => after = before
          /\ faulty => code = 4
          /\ ~faulty =>
               code = (IF request.command = "check" /\ current # Numbers THEN 5 ELSE 0)
          /\ (writes /\ code = 0) =>
               /\ \A n \in Numbers :
                    /\ Public_(n, after).kind = "file" /\ Public_(n, after).content = Wanted(n)
                    /\ n \notin current =>
                         after[Temporary(Contracts[n].public)] = Absent
               /\ \A p \in Paths :
                    \/ after[p] = before[p]
                    \/ \E n \in Numbers \ current :
                         p \in {Contracts[n].public, Temporary(Contracts[n].public)}
                                \cup PrefixesOf(Contracts[n].public)

SameData(file, other) == file.kind = other.kind /\ file.content = other.content

\* What a generator may say it changed.
ReportedChanges(before, after) ==
  {[action |-> IF before[p].kind = "absent" THEN "create" ELSE "modify", path |-> p,
    state |-> "completed"] :
     p \in {Contracts[n].public : n \in Numbers} \cap
           {q \in Paths : ~SameData(before[q], after[q])}}
=============================================================================
