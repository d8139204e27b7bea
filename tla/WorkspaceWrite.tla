--------------------------- MODULE WorkspaceWrite ---------------------------
(***************************************************************************)
(* Workspace::write_file (workspace.rs): the parent check, the parent      *)
(* directories, a temporary file beside the target, its content, its mode  *)
(* and the publication under the target's name.  Every file system call is *)
(* a step of its own, because a process an earlier action left in the      *)
(* background may change the workspace between any two of them.            *)
(*                                                                         *)
(* One target path is followed through several `write` steps.  `parents`   *)
(* is what each directory component of the path resolves to, outermost     *)
(* first; beneath a symlink the components lie outside the workspace.      *)
(***************************************************************************)
EXTENDS Naturals, Sequences

CONSTANTS Depth,            \* directory components of the path
          MaxWrites,        \* bound: `write` steps
          MaxDisturbances,  \* bound: changes made by other processes
          None

ASSUME BoundsAssumption ==
  Depth \in Nat /\ MaxWrites \in Nat /\ MaxDisturbances \in Nat

VARIABLES
  parents,       \* the directory components
  target,        \* what is at the target path
  pc,            \* the next file system call of write_file
  component,     \* the component it is about, in the two loops
  temp,          \* the temporary file, through its open handle
  linked,        \* whether the path of the temporary file leads to it
  residue,       \* the writes whose temporary file is there and nobody will remove
  outcomes,      \* how the finished writes ended
  disturbances,  \* changes made so far by other processes
  found,         \* history: parents and target when the current write began
  quiet,         \* history: nothing interfered and no call failed since then
  hindered       \* history: the writes whose temporary file could not be removed: its
                 \* directory was replaced while it was there, or its removal failed

vars ==
  <<parents, target, pc, component, temp, linked, residue, outcomes, disturbances, found, quiet,
    hindered>>

Kinds == {"absent", "dir", "file", "symlink"}
Components == 1 .. Depth
Traversable == {"dir", "symlink"}
Unpublished == [by : 1 .. MaxWrites, content : {"empty", "full"}, mode : {"private", "final"}]

Promise == INSTANCE AtomicCreate WITH
  MaxWrites <- MaxWrites, None <- None,
  target <- target, outcomes <- outcomes
Foreign == Promise!Foreign
Outcomes == Promise!Refusals \cup {"created"}
Targets == {None, Foreign} \cup {Promise!Complete(n) : n \in 1 .. MaxWrites}

ASSUME NoneAssumption ==
  /\ None # Foreign
  /\ None \notin Unpublished
  /\ \A n \in 1 .. MaxWrites : None # Promise!Complete(n)

TypeOK ==
  /\ parents \in [Components -> Kinds]
  /\ target \in Targets
  /\ pc \in {"idle", "check", "mkdir", "tempfile", "write", "chmod", "persist"}
  /\ component \in 1 .. Depth + 1
  /\ temp \in Unpublished \cup {None}
  /\ linked \in BOOLEAN
  /\ residue \subseteq 1 .. MaxWrites /\ hindered \subseteq 1 .. MaxWrites
  /\ outcomes \in Seq(Outcomes)
  /\ Len(outcomes) <= MaxWrites
  /\ disturbances \in 0 .. MaxDisturbances
  /\ found \in [parents : [Components -> Kinds], target : Targets]
  /\ quiet \in BOOLEAN

Init ==
  /\ parents \in [Components -> {"absent", "dir"}]
  /\ \A k \in Components : parents[k] = "absent" => \A j \in k .. Depth : parents[j] = "absent"
  /\ target = None
  /\ pc = "idle" /\ component = 1
  /\ temp = None /\ linked = FALSE
  /\ residue = {} /\ hindered = {}
  /\ outcomes = <<>>
  /\ disturbances = 0
  /\ found = [parents |-> parents, target |-> target]
  /\ quiet = TRUE

-----------------------------------------------------------------------------
Goto(label) == pc' = label /\ component' = 1

\* The number of the write that is under way.
Current == Len(outcomes) + 1

\* The temporary file stays: where it is, or where its directory was taken to.
LeaveTemp == residue' = residue \cup {Current}

\* Something out of this process's hands decides whether the temporary file is removed.
Hinder == hindered' = hindered \cup {Current}

\* A wrong edit: the handle is kept, so nothing removes the file.
ReturnKeepingTemp(e) ==
  /\ Goto("idle")
  /\ temp' = None /\ linked' = FALSE
  /\ outcomes' = Append(outcomes, e)
  /\ IF linked THEN LeaveTemp ELSE UNCHANGED residue
  /\ UNCHANGED <<parents, target, disturbances, found, hindered>>

\* An error returns.  Dropping the handle removes the temporary file by its path; nobody hears
\* of it if that fails.
Return(e) ==
  /\ Goto("idle")
  /\ temp' = None /\ linked' = FALSE
  /\ outcomes' = Append(outcomes, e)
  /\ \/ UNCHANGED <<residue, hindered>>
     \/ linked /\ LeaveTemp /\ Hinder
  /\ UNCHANGED <<parents, target, disturbances, found>>

\* A call of the operating system fails by itself.
Fails(label, e) ==
  /\ pc = label
  /\ Return(e)
  /\ quiet' = FALSE

BeginWrite ==
  /\ pc = "idle"
  /\ Len(outcomes) < MaxWrites
  /\ Goto("check")
  /\ found' = [parents |-> parents, target |-> target]
  /\ quiet' = TRUE
  /\ UNCHANGED <<parents, target, temp, linked, residue, outcomes, disturbances, hindered>>

\* A wrong edit: `metadata` instead of `symlink_metadata`; symlinks are followed.
BlockedUnlessTraversable(kind) == kind = "file"

Blocked(kind) == kind \in {"file", "symlink"}

\* parent_path_is_blocked, one component per call.
CheckParent ==
  /\ pc = "check"
  /\ component \in Components
  /\ IF Blocked(parents[component])
     THEN Return("parent_not_a_directory")
     ELSE /\ component' = component + 1
          /\ UNCHANGED <<parents, target, pc, temp, linked, residue, outcomes, disturbances, found, hindered>>
  /\ UNCHANGED quiet

ParentsChecked ==
  /\ pc = "check"
  /\ component > Depth
  /\ Goto("mkdir")
  /\ UNCHANGED <<parents, target, temp, linked, residue, outcomes, disturbances, found, quiet, hindered>>

Reaches(k) == \A j \in Components : j < k => parents[j] \in Traversable

\* create_dir_all: what is there already is accepted if it resolves to a directory.
MakeParent ==
  /\ pc = "mkdir"
  /\ component \in Components
  /\ IF Reaches(component) /\ parents[component] # "file"
     THEN /\ parents' =
               IF parents[component] = "absent"
               THEN [parents EXCEPT ![component] = "dir"] ELSE parents
          /\ component' = component + 1
          /\ UNCHANGED <<target, pc, temp, linked, residue, outcomes, disturbances, found, hindered>>
     ELSE Return("io")
  /\ UNCHANGED quiet

ParentsMade ==
  /\ pc = "mkdir"
  /\ component > Depth
  /\ Goto("tempfile")
  /\ UNCHANGED <<parents, target, temp, linked, residue, outcomes, disturbances, found, quiet, hindered>>

CreateTemp ==
  /\ pc = "tempfile"
  /\ IF Reaches(Depth + 1)
     THEN /\ temp' = [by |-> Len(outcomes) + 1, content |-> "empty", mode |-> "private"]
          /\ linked' = TRUE
          /\ Goto("write")
          /\ UNCHANGED <<parents, target, residue, outcomes, disturbances, found, hindered>>
     ELSE Return("io")
  /\ UNCHANGED quiet

\* write_all and chmod go through the handle, whether or not the file is still linked.
WriteContent ==
  /\ pc = "write"
  /\ temp' = [temp EXCEPT !.content = "full"]
  /\ Goto("chmod")
  /\ UNCHANGED <<parents, target, linked, residue, outcomes, disturbances, found, quiet, hindered>>

\* A wrong edit: the mode is applied only after publication, so not here.
ApplyModeLater ==
  /\ pc = "chmod"
  /\ Goto("persist")
  /\ UNCHANGED <<parents, target, temp, linked, residue, outcomes, disturbances, found, quiet, hindered>>

ApplyMode ==
  /\ pc = "chmod"
  /\ temp' = [temp EXCEPT !.mode = "final"]
  /\ Goto("persist")
  /\ UNCHANGED <<parents, target, linked, residue, outcomes, disturbances, found, quiet, hindered>>

\* A wrong edit: `persist`, which replaces what is there.
PersistOver ==
  /\ pc = "persist"
  /\ IF ~linked THEN Return("io")
     ELSE /\ target' = temp
          /\ outcomes' = Append(outcomes, "created")
          /\ Goto("idle")
          /\ temp' = None /\ linked' = FALSE
          /\ UNCHANGED <<parents, residue, disturbances, found, hindered>>
  /\ UNCHANGED quiet

\* persist_noclobber: one rename that refuses an existing name.
Persist ==
  /\ pc = "persist"
  /\ IF ~linked THEN Return("io")
     ELSE IF target # None THEN Return("target_already_exists")
     ELSE /\ target' = temp
          /\ outcomes' = Append(outcomes, "created")
          /\ Goto("idle")
          /\ temp' = None /\ linked' = FALSE
          /\ UNCHANGED <<parents, residue, disturbances, found, hindered>>
  /\ UNCHANGED quiet

CallFails ==
  \/ \E label \in {"mkdir", "tempfile", "write", "persist"} : Fails(label, "io")
  \/ Fails("chmod", "set_mode")

WriteFile ==
  \/ BeginWrite \/ CheckParent \/ ParentsChecked \/ MakeParent \/ ParentsMade
  \/ CreateTemp \/ WriteContent \/ ApplyMode \/ Persist \/ CallFails

-----------------------------------------------------------------------------
(* Another process of the case.                                            *)

Disturb ==
  /\ disturbances < MaxDisturbances
  /\ disturbances' = disturbances + 1
  /\ quiet' = (quiet /\ pc = "idle")
  /\ UNCHANGED <<pc, component, temp, outcomes, found>>

\* A component is replaced: what was beneath it is gone from the path, deleted or moved away.
ReplaceParent(k, kind) ==
  /\ Reaches(k)
  /\ kind # parents[k]
  /\ parents' = [j \in Components |->
       IF j < k THEN parents[j] ELSE IF j = k THEN kind ELSE "absent"]
  /\ target' = None
  /\ linked' = FALSE
  /\ IF linked THEN Hinder /\ (LeaveTemp \/ UNCHANGED residue)
     ELSE UNCHANGED <<residue, hindered>>
  /\ Disturb

ReplaceTarget(what) ==
  /\ Reaches(Depth + 1)
  /\ what # target
  /\ target' = what
  /\ UNCHANGED <<parents, linked, residue, hindered>>
  /\ Disturb

Environment ==
  \/ \E k \in Components, kind \in Kinds : ReplaceParent(k, kind)
  \/ \E what \in {None, Foreign} : ReplaceTarget(what)

\* The case has no `write` step left.
Over == pc = "idle" /\ Len(outcomes) = MaxWrites /\ UNCHANGED vars

Next == WriteFile \/ Environment \/ Over

Spec == Init /\ [][Next]_vars

-----------------------------------------------------------------------------
(* Properties.                                                             *)

(***************************************************************************)
(* The documented promise of write_file, under any interference: content   *)
(* and mode become visible at the target together, only where nothing was, *)
(* or the target is left alone.                                            *)
(***************************************************************************)
KeepsPromise == Promise!Spec

\* The answer a write must give when nothing interferes.
Answer(before) ==
  IF \E k \in Components : before.parents[k] \in {"file", "symlink"}
  THEN "parent_not_a_directory"
  ELSE IF before.target # None THEN "target_already_exists"
  ELSE "created"

Ended == pc = "idle" /\ outcomes # <<>>

(***************************************************************************)
(* Without interference the answer depends on what was there when the      *)
(* write began and on nothing else: a parent that is no plain directory is *)
(* told from an existing target, and neither comes back as an I/O error    *)
(* (WriteFileError).                                                       *)
(***************************************************************************)
QuietAnswer == (Ended /\ quiet) => outcomes[Len(outcomes)] = Answer(found)

(***************************************************************************)
(* No error path of write_file forgets its temporary file.  One stays in   *)
(* the workspace only because its directory was replaced while it was      *)
(* there, or its removal failed; and never beside a published file: the    *)
(* write it belongs to failed.                                             *)
(***************************************************************************)
NoResidue ==
  \A n \in residue :
    /\ n \in hindered
    /\ n \in DOMAIN outcomes => outcomes[n] # "created"
=============================================================================
