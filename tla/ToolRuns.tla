------------------------------ MODULE ToolRuns ------------------------------
(***************************************************************************)
(* What the commands that only write files have in common: `reportage shim *)
(* scaffold`, `reportage docs` and `xtask schema-artifacts` are processes  *)
(* over one file system, each a sequence of system calls.  Any call may    *)
(* fail, any process may be killed, and another program may replace a path *)
(* between two calls; `budget` bounds how often this happens.              *)
(***************************************************************************)
EXTENDS Naturals, Sequences, FiniteSets

CONSTANTS Runs,       \* processes
          Paths,      \* the paths of the file system: sequences of components
          Workloads,  \* what the processes may be asked, over which files
          None

VARIABLES
  setting,  \* the workload: the job of each run, the first files, the contested paths
  pc,       \* the next step of each run
  work,     \* what each run has worked out so far
  files,    \* the file system
  exit,     \* the exit code and what led to it
  budget,   \* failures, kills and replacements that may still happen
  met,      \* history: what disturbed each run
  seen      \* history: the files when each run began

toolVars == <<setting, pc, work, files, exit, budget, met, seen>>

Disturbances == {"failure", "killed", "foreign", "other"}

Job(r) == setting.job[r]
Active(r) == pc[r] \notin {"start", "exited"}
Exited(r) == pc[r] = "exited"

-----------------------------------------------------------------------------
(* The file system.  A file keeps its node when it is truncated or renamed,*)
(* so a descriptor writes to the node, wherever its name went.             *)

Absent == [kind |-> "absent", content |-> None, node |-> None, exec |-> FALSE]
Directory == [Absent EXCEPT !.kind = "dir"]
Symlink(target) == [Absent EXCEPT !.kind = "link", !.content = target]
Regular(content) == [Absent EXCEPT !.kind = "file", !.content = content]

\* The contents of a file opened for writing and not yet written.
Torn == [what |-> "torn"]

Kinds == {"absent", "dir", "link", "file"}

\* A file that no process of the model has open.
Settled(file) ==
  /\ DOMAIN file = DOMAIN Absent /\ file.kind \in Kinds /\ file.node = None
  /\ file.kind = "absent" => file = Absent
  /\ file.kind # "file" => ~file.exec
  /\ file.kind = "file" => file.content # Torn

Parent(path) == SubSeq(path, 1, Len(path) - 1)
PrefixesOf(path) == {SubSeq(path, 1, k) : k \in 1 .. Len(path)}

\* What a path is below is a path.
ASSUME PathsAssumption ==
  \A p \in Paths : p \in Seq(STRING) \ {<<>>} /\ PrefixesOf(p) \subseteq Paths

\* Only below a directory is there something.
TreeShaped(fs) ==
  \A p \in Paths : fs[p].kind # "absent" => \A q \in PrefixesOf(Parent(p)) : fs[q].kind = "dir"

\* Before a command runs every file is complete.
ASSUME WorkloadAssumption ==
  \A w \in Workloads :
    /\ w.budget \in Nat /\ DOMAIN w.files = Paths /\ TreeShaped(w.files)
    /\ \A p \in Paths : Settled(w.files[p])
    /\ \A file \in w.foreign : Settled(file)
    /\ \A r \in Runs : w.job[r] # None => w.job[r].command \in {"scaffold", "docs", "gen", "check"}

IsDirectory(path) == IF path = <<>> THEN TRUE ELSE files[path].kind = "dir"

\* Looking at a path fails below a file, as it does not where there is nothing.
BelowFile(fs, path) == \E p \in PrefixesOf(Parent(path)) : fs[p].kind = "file"

\* Where a call that follows symlinks ends up.
Followed(path) == IF files[path].kind = "link" THEN files[path].content ELSE path

\* std::fs::create_dir_all
CanMakeDirectories(path) == \A p \in PrefixesOf(path) : files[p].kind \in {"absent", "dir"}
WithDirectories(path) ==
  [p \in Paths |-> IF p \in PrefixesOf(path) /\ files[p] = Absent THEN Directory ELSE files[p]]

\* std::fs::write: open(O_CREAT | O_TRUNC), then write to the descriptor.
CanOpen(path) ==
  /\ files[Followed(path)].kind \in {"absent", "file"}
  /\ IsDirectory(Parent(Followed(path)))
Descriptor(path, node) ==
  IF files[Followed(path)].kind = "file" /\ files[Followed(path)].node # None
  THEN files[Followed(path)].node ELSE node
Opened(path, descriptor) ==
  [files EXCEPT ![Followed(path)] =
     [@ EXCEPT !.kind = "file", !.content = Torn, !.node = descriptor]]
WrittenTo(node, content) ==
  [p \in Paths |->
     IF files[p].kind = "file" /\ files[p].node = node
     THEN [files[p] EXCEPT !.content = content] ELSE files[p]]

\* std::fs::rename: a directory only onto an empty one or nothing, anything else not onto one.
CanRename(from, to) ==
  IF files[from].kind = "dir" THEN files[to].kind \in {"absent", "dir"}
  ELSE files[from].kind # "absent" /\ files[to].kind # "dir"
Renamed(from, to) == [files EXCEPT ![to] = files[from], ![from] = Absent]

\* std::fs::remove_file, its failure ignored.
Unlinked(path) == [files EXCEPT ![path] = IF @.kind = "dir" THEN @ ELSE Absent]

-----------------------------------------------------------------------------
(* Steps of a process.                                                     *)

Goto(r, label) == pc' = [pc EXCEPT ![r] = label]

ExitWith(r, code, cause) ==
  /\ Goto(r, "exited")
  /\ exit' = [exit EXCEPT ![r] = [code |-> code, cause |-> cause]]

\* The first step of a process: from now on it and the others that run disturb each other.
Begin(r) ==
  LET others == {s \in Runs \ {r} : Active(s)}
  IN /\ pc[r] = "start"
     /\ seen' = [seen EXCEPT ![r] = files]
     /\ met' = [s \in Runs |->
          IF s \in others \/ (s = r /\ others # {}) THEN met[s] \cup {"other"} ELSE met[s]]

Undisturbed == UNCHANGED <<setting, budget, met, seen>>

\* A system call of this step fails.
CallFails(r) ==
  /\ budget > 0 /\ budget' = budget - 1
  /\ met' = [met EXCEPT ![r] = @ \cup {"failure"}]
  /\ UNCHANGED <<setting, seen, files>>

Kill(r) ==
  /\ budget > 0 /\ budget' = budget - 1
  /\ Active(r)
  /\ met' = [met EXCEPT ![r] = @ \cup {"killed"}]
  /\ ExitWith(r, 137, "killed")
  /\ UNCHANGED <<setting, work, files, seen>>

\* Another program replaces a path.
Interfere ==
  /\ budget > 0 /\ budget' = budget - 1
  /\ \E path \in setting.contested, file \in setting.foreign :
       /\ IsDirectory(Parent(path))
       /\ \A p \in Paths : path \in PrefixesOf(p) \ {p} => files[p] = Absent
       /\ file # files[path]
       /\ files' = [files EXCEPT ![path] = file]
  /\ met' = [r \in Runs |-> IF Active(r) THEN met[r] \cup {"foreign"} ELSE met[r]]
  /\ UNCHANGED <<setting, pc, work, exit, seen>>

ToolInit ==
  /\ \E w \in Workloads :
       /\ setting = [job |-> w.job, files |-> w.files, contested |-> w.contested, foreign |-> w.foreign]
       /\ files = w.files /\ budget = w.budget
       /\ pc = [r \in Runs |-> IF w.job[r] = None THEN "exited" ELSE "start"]
  /\ work = [r \in Runs |-> None]
  /\ exit = [r \in Runs |-> None]
  /\ met = [r \in Runs |-> {}]
  /\ seen = [r \in Runs |-> files]
=============================================================================
