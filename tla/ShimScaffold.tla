---------------------------- MODULE ShimScaffold ----------------------------
(***************************************************************************)
(* `reportage shim scaffold` (shim_scaffold.rs): the arguments are checked *)
(* together, then the output path, then the template; only then is the     *)
(* file written, and only then made executable.                            *)
(*                                                                         *)
(* A job is [command |-> "scaffold", template, entry, out, force]; an      *)
(* entry point is a sequence of characters and a shim is the name of its   *)
(* template with the quoted entry point it embeds.                         *)
(***************************************************************************)
EXTENDS ToolRuns

Scaffold(r) == pc[r] \notin {"exited"} /\ Job(r).command = "scaffold"

-----------------------------------------------------------------------------
(* The request.                                                            *)

BuiltinTemplates == {"typescript-c8-tsx", "golang", "rust"}
UnsafeCharacters == {"NUL", "LF", "CR"}

Violations(request) ==
  {v \in {"empty_template", "empty_entry_point", "invalid_entry_point", "empty_out"} :
     \/ v = "empty_template" /\ request.template = ""
     \/ v = "empty_entry_point" /\ request.entry = <<>>
     \/ v = "invalid_entry_point"
          /\ \E i \in DOMAIN request.entry : request.entry[i] \in UnsafeCharacters
     \/ v = "empty_out" /\ request.out = <<>>}

\* shell_quote::single_quote: a quote leaves the quotes, is escaped, and enters them again.
SingleQuoted(word) ==
  LET escaped[i \in 0 .. Len(word)] ==
        IF i = 0 THEN <<>>
        ELSE escaped[i - 1] \o (IF word[i] = "'" THEN <<"'", "\\", "'", "'">> ELSE <<word[i]>>)
  IN <<"'">> \o escaped[Len(word)] \o <<"'">>

Shim(request) ==
  [what |-> "shim", template |-> request.template, entry |-> SingleQuoted(request.entry)]

-----------------------------------------------------------------------------
(* The steps.                                                              *)

CheckRequest(r) ==
  /\ Scaffold(r) /\ Begin(r)
  /\ IF Violations(Job(r)) # {}
     THEN ExitWith(r, 2, "invalid_request")
     ELSE Goto(r, "policy") /\ UNCHANGED exit
  /\ work' = [work EXCEPT ![r] = [violations |-> Violations(Job(r))]]
  /\ UNCHANGED <<setting, files, budget>>

\* A wrong edit: --force is taken to cover symlinks too.
OutRefusedUnlessForced(request, file) == file.kind # "absent" /\ ~request.force

\* What the output path may not be, by its own metadata (a symlink is not followed).
OutRefused(request, file) ==
  \/ file.kind \in {"link", "dir"}
  \/ file.kind = "file" /\ ~request.force

\* A wrong edit: the directories are made before the template is looked up.
CheckOutLast(r) ==
  /\ pc[r] = "policy"
  /\ LET fine == ~BelowFile(files, Job(r).out) /\ ~OutRefused(Job(r), files[Job(r).out])
                   /\ CanMakeDirectories(Parent(Job(r).out))
     IN IF ~fine THEN ExitWith(r, 3, "io") /\ UNCHANGED files
        ELSE /\ files' = WithDirectories(Parent(Job(r).out))
             /\ IF Job(r).template \notin BuiltinTemplates THEN ExitWith(r, 2, "unknown_template")
                ELSE Goto(r, "parent") /\ UNCHANGED exit
  /\ Undisturbed /\ UNCHANGED work

\* Below a file symlink_metadata fails with something else than NotFound.
CheckOut(r) ==
  /\ pc[r] = "policy"
  /\ IF BelowFile(files, Job(r).out) THEN ExitWith(r, 3, "io")
     ELSE IF OutRefused(Job(r), files[Job(r).out]) THEN ExitWith(r, 2, "out_policy")
     ELSE IF Job(r).template \notin BuiltinTemplates THEN ExitWith(r, 2, "unknown_template")
     ELSE Goto(r, "parent") /\ UNCHANGED exit
  /\ Undisturbed /\ UNCHANGED <<work, files>>

MakeParent(r) ==
  /\ pc[r] = "parent"
  /\ LET parent == Parent(Job(r).out)
     IN IF CanMakeDirectories(parent)
        THEN files' = WithDirectories(parent) /\ Goto(r, "create") /\ UNCHANGED exit
        ELSE ExitWith(r, 3, "io") /\ UNCHANGED files
  /\ Undisturbed /\ UNCHANGED work

CreateShim(r) ==
  /\ pc[r] = "create"
  /\ LET out == Job(r).out
         node == Descriptor(out, <<r, out>>)
     IN IF CanOpen(out)
        THEN /\ files' = Opened(out, node)
             /\ work' = [work EXCEPT ![r] = [fd |-> node]]
             /\ Goto(r, "fill") /\ UNCHANGED exit
        ELSE ExitWith(r, 3, "io") /\ UNCHANGED <<files, work>>
  /\ Undisturbed

FillShim(r) ==
  /\ pc[r] = "fill"
  /\ files' = WrittenTo(work[r].fd, Shim(Job(r)))
  /\ Goto(r, "chmod")
  /\ Undisturbed /\ UNCHANGED <<work, exit>>

\* metadata and set_permissions go by the path again, and follow symlinks; a directory has
\* the mode already.
MakeExecutable(r) ==
  /\ pc[r] = "chmod"
  /\ LET target == Followed(Job(r).out)
     IN IF files[target].kind = "absent"
        THEN ExitWith(r, 3, "io") /\ UNCHANGED files
        ELSE /\ files' = [files EXCEPT ![target].exec = files[target].kind = "file"]
             /\ ExitWith(r, 0, "done")
  /\ Undisturbed /\ UNCHANGED work

ScaffoldCallFails(r) ==
  /\ pc[r] \in {"policy", "parent", "create", "fill", "chmod"}
  /\ CallFails(r)
  /\ ExitWith(r, 3, "io")
  /\ UNCHANGED work

ScaffoldStep(r) ==
  \/ CheckRequest(r) \/ CheckOut(r) \/ MakeParent(r) \/ CreateShim(r) \/ FillShim(r)
  \/ MakeExecutable(r) \/ ScaffoldCallFails(r)

-----------------------------------------------------------------------------
(* What the command promises, said at once.                                *)

\* How a POSIX shell reads a word of unquoted, escaped and single-quoted characters.
AfterCharacter(state, character) ==
  IF state.within = "word" /\ character = "'" THEN [state EXCEPT !.within = "quotes"]
  ELSE IF state.within = "word" /\ character = "\\" THEN [state EXCEPT !.within = "escape"]
  ELSE IF state.within = "quotes" /\ character = "'" THEN [state EXCEPT !.within = "word"]
  ELSE [within |-> IF state.within = "escape" THEN "word" ELSE state.within,
        text |-> Append(state.text, character)]

ShellWord(word) ==
  LET read[i \in 0 .. Len(word)] ==
        IF i = 0 THEN [within |-> "word", text |-> <<>>] ELSE AfterCharacter(read[i - 1], word[i])
  IN read[Len(word)].text

IsShim(request, file) ==
  /\ file.kind = "file" /\ file.exec
  /\ file.content.template = request.template
  /\ ShellWord(file.content.entry) = request.entry

ScaffoldRefusal(request, before) ==
  \/ Violations(request) # {}
  \/ before[request.out].kind \in {"link", "dir"}
  \/ before[request.out].kind = "file" /\ ~request.force
  \/ request.template \notin BuiltinTemplates

\* From `before`, undisturbed: the exit code, and all that may differ in `after`.
ScaffoldPromise(request, code, before, after) ==
  LET early == Violations(request) = {} /\ BelowFile(before, request.out)
      stuck == \E p \in PrefixesOf(Parent(request.out)) : before[p].kind \notin {"absent", "dir"}
      refused == ScaffoldRefusal(request, before)
  IN /\ code = 2 <=> refused /\ ~early
     /\ code = 3 <=> early \/ (stuck /\ ~refused)
     /\ code = 2 => after = before
     /\ code = 0 =>
          /\ IsShim(request, after[request.out])
          /\ \A p \in Paths \ {request.out} :
               after[p] = before[p] \/ (p \in PrefixesOf(request.out) /\ after[p] = Directory)
=============================================================================
