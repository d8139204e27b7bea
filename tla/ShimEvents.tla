----------------------------- MODULE ShimEvents -----------------------------
(***************************************************************************)
(* How the shim invocations of an action reach its result: execute_action  *)
(* (executor.rs), the wrapper script of a command shim (shim.rs) and       *)
(* collect_from_dir (shim_event.rs).                                       *)
(*                                                                         *)
(* The runner is sequential; the concurrency is that of the processes an   *)
(* action starts.  Some of them outlive the action: `output()` waits for   *)
(* the shell and for the end of both pipes, not for a process that         *)
(* redirected its output and was put in the background.                    *)
(***************************************************************************)
EXTENDS Naturals, Sequences

CONSTANTS Pids,             \* process ids, reused once a process is gone
          MaxActions,       \* bound: actions of the case
          MaxInvocations,   \* bound: shim invocations over all actions
          None

ASSUME BoundsAssumption == MaxActions \in Nat /\ MaxInvocations \in Nat
ASSUME NoneAssumption == None \notin Nat /\ None \notin Pids

VARIABLES
  runner,       \* "idle", "waiting" in output(), "reading", "done" or "failed"
  action,       \* how many actions were started
  open,         \* the actions whose event directory exists
  files,        \* files[a][p]: content of <p>.json in the directory of action a
  procs,        \* the live processes
  unread,       \* directory entries read_dir has still to yield
  events,       \* the invocations read so far
  warnings,     \* the files reported as unreadable or malformed so far
  results,      \* what each finished action was given
  invocations,  \* history: every shim invocation, in order
  killed        \* history: the actions in which a process was killed

runnerVars == <<runner, action, unread, events, warnings, results>>
vars == <<runnerVars, open, files, procs, invocations, killed>>

Actions == 1 .. MaxActions
Ids == 1 .. MaxInvocations

\* A file created and truncated by `>`, before printf has written.
Torn == 0

Process ==
  [action : Actions, root : BOOLEAN, piped : BOOLEAN, awaited : BOOLEAN, sees : BOOLEAN,
   waitedBy : Pids \cup {None}, at : {"program", "opening", "writing", "handover"},
   invocation : Ids \cup {None}]
ASSUME ProcessAssumption == None \notin Process

Invocation ==
  [action : Actions, pid : Pids, awaited : BOOLEAN,
   event : {"due", "written", "refused", "unset"}, target : {"due", "running", "killed"}]
Result == [events : SUBSET Ids, warnings : SUBSET Pids]

TypeOK ==
  /\ runner \in {"idle", "waiting", "reading", "done", "failed"}
  /\ action \in 0 .. MaxActions
  /\ open \subseteq Actions
  /\ files \in [Actions -> [Pids -> {None, Torn} \cup Ids]]
  /\ procs \in [Pids -> Process \cup {None}]
  /\ unread \subseteq Pids /\ events \subseteq Ids /\ warnings \subseteq Pids
  /\ results \in Seq(Result)
  /\ invocations \in Seq(Invocation)
  /\ killed \subseteq Actions

-----------------------------------------------------------------------------
Live == {p \in Pids : procs[p] # None}
Blocked(p) == \E q \in Live : procs[q].waitedBy = p
Program(p) == p \in Live /\ procs[p].at = "program" /\ ~Blocked(p)
InWrapper(p, stage) == p \in Live /\ procs[p].at = stage

Init ==
  /\ runner = "idle" /\ action = 0
  /\ open = {}
  /\ files = [a \in Actions |-> [p \in Pids |-> None]]
  /\ procs = [p \in Pids |-> None]
  /\ unread = {} /\ events = {} /\ warnings = {}
  /\ results = <<>> /\ invocations = <<>> /\ killed = {}

-----------------------------------------------------------------------------
(* The runner: execute_action.                                             *)

\* A wrong edit: one event directory serves the whole case.
EventDirOfCase(a) == 1

EventDir(a) == a

StartAction(p) ==
  /\ runner = "idle"
  /\ action < MaxActions
  /\ p \notin Live
  /\ action' = action + 1
  /\ runner' = "waiting"
  /\ open' = open \cup {EventDir(action + 1)}
  /\ procs' = [procs EXCEPT ![p] =
       [action |-> action + 1, root |-> TRUE, piped |-> TRUE, awaited |-> TRUE,
        sees |-> TRUE, waitedBy |-> None, at |-> "program", invocation |-> None]]
  /\ UNCHANGED <<unread, events, warnings, results, files, invocations, killed>>

\* The event directory or the shell could not be created: the case ends here.
CannotStart ==
  /\ runner = "idle"
  /\ action < MaxActions
  /\ runner' = "failed"
  /\ UNCHANGED <<action, unread, events, warnings, results, open, files, procs,
                 invocations, killed>>

NoMoreActions ==
  /\ runner = "idle"
  /\ runner' = "done"
  /\ UNCHANGED <<action, unread, events, warnings, results, open, files, procs,
                 invocations, killed>>

Here(p) == procs[p].action = action

\* A wrong edit: the runner waits for the shell alone, not for its pipes.
ShellExited == \A p \in Live : Here(p) => ~procs[p].root

\* A wrong edit: the runner waits for everything the action started.
AllExited == \A p \in Live : ~Here(p)

\* What output() waits for: the shell, and the end of both pipes.
OutputReturns == \A p \in Live : Here(p) => ~procs[p].root /\ ~procs[p].piped

Present(a) == {p \in Pids : files[EventDir(a)][p] # None}

StartReading ==
  /\ runner = "waiting"
  /\ OutputReturns
  /\ runner' = "reading"
  /\ unread' = Present(action)
  /\ UNCHANGED <<action, events, warnings, results, open, files, procs, invocations, killed>>

\* A wrong edit: an event file is taken as it is, parsed or not.
ReadUnparsedEntry(p, readable) ==
  /\ runner = "reading"
  /\ p \in unread
  /\ unread' = unread \ {p}
  /\ IF readable
     THEN events' = events \cup {files[EventDir(action)][p]} /\ UNCHANGED warnings
     ELSE warnings' = warnings \cup {p} /\ UNCHANGED events
  /\ UNCHANGED <<runner, action, results, open, files, procs, invocations, killed>>

\* One entry: read, then parsed.  A file that cannot be read or parsed is a warning.
ReadEntry(p, readable) ==
  /\ runner = "reading"
  /\ p \in unread
  /\ unread' = unread \ {p}
  /\ LET content == files[EventDir(action)][p]
     IN IF readable /\ content # Torn
        THEN events' = events \cup {content} /\ UNCHANGED warnings
        ELSE warnings' = warnings \cup {p} /\ UNCHANGED events
  /\ UNCHANGED <<runner, action, results, open, files, procs, invocations, killed>>

\* read_dir may or may not yield an entry created after it started.
SeeLateEntry(p) ==
  /\ runner = "reading"
  /\ p \in Present(action) \ unread
  /\ files[EventDir(action)][p] \notin events
  /\ p \notin warnings
  /\ unread' = unread \cup {p}
  /\ UNCHANGED <<runner, action, events, warnings, results, open, files, procs,
                 invocations, killed>>

\* The result is handed over and the TempDir is dropped with what it holds.
HandOver(found) ==
  /\ runner' = "idle"
  /\ results' = Append(results, found)
  /\ unread' = {} /\ events' = {} /\ warnings' = {}
  /\ open' = open \ {EventDir(action)}
  /\ files' = [files EXCEPT ![EventDir(action)] = [p \in Pids |-> None]]
  /\ UNCHANGED <<action, procs, invocations, killed>>

FinishReading ==
  /\ runner = "reading"
  /\ unread = {}
  /\ HandOver([events |-> events, warnings |-> warnings])

\* read_dir itself fails: no events, one warning for the whole directory.
DirectoryUnreadable ==
  /\ runner = "waiting"
  /\ OutputReturns
  /\ HandOver([events |-> {}, warnings |-> Pids])

-----------------------------------------------------------------------------
(* The processes of an action.  A program may start a shim as a child, in  *)
(* the foreground or not, or replace itself by one with exec.              *)

NextId == Len(invocations) + 1
Invoke(a, p, awaited) ==
  /\ NextId \in Ids
  /\ invocations' = Append(invocations,
       [action |-> a, pid |-> p, awaited |-> awaited, event |-> "due", target |-> "due"])

ForkShim(p, q, piped, foreground, sees) ==
  /\ Program(p)
  /\ q \notin Live
  /\ piped => procs[p].piped
  /\ sees => procs[p].sees
  /\ LET awaited == piped \/ (foreground /\ procs[p].awaited)
     IN /\ procs' = [procs EXCEPT ![q] =
             [action |-> procs[p].action, root |-> FALSE, piped |-> piped,
              awaited |-> awaited, sees |-> sees,
              waitedBy |-> IF foreground THEN p ELSE None,
              at |-> "opening", invocation |-> NextId]]
        /\ Invoke(procs[p].action, q, awaited)
  /\ UNCHANGED <<runnerVars, open, files, killed>>

\* exec keeps the process id: $$ of this shim is $$ of the one before it.
ExecShim(p) ==
  /\ Program(p)
  /\ Invoke(procs[p].action, p, procs[p].awaited)
  /\ procs' = [procs EXCEPT ![p].at = "opening", ![p].invocation = NextId]
  /\ UNCHANGED <<runnerVars, open, files, killed>>

Exit(p) ==
  /\ Program(p)
  /\ procs' = [procs EXCEPT ![p] = None]
  /\ UNCHANGED <<runnerVars, open, files, invocations, killed>>

\* A signal; what the process waited for in the foreground runs on alone.
Kill(p) ==
  /\ p \in Live
  /\ procs' = [q \in Pids |->
       IF q = p THEN None
       ELSE IF q \in Live /\ procs[q].waitedBy = p THEN [procs[q] EXCEPT !.waitedBy = None]
       ELSE procs[q]]
  /\ killed' = killed \cup {procs[p].action}
  /\ invocations' = [i \in DOMAIN invocations |->
       IF i = procs[p].invocation /\ invocations[i].target = "due"
       THEN [invocations[i] EXCEPT !.target = "killed"] ELSE invocations[i]]
  /\ UNCHANGED <<runnerVars, open, files>>

-----------------------------------------------------------------------------
(* The wrapper script: event first, then exec of the target.               *)

DirOf(p) == EventDir(procs[p].action)
Record(p, event) ==
  invocations' = [invocations EXCEPT ![procs[p].invocation].event = event]
Goto(p, stage) == procs' = [procs EXCEPT ![p].at = stage]
SetFile(p, content) == files' = [files EXCEPT ![DirOf(p)][p] = content]

\* REPORTAGE_SHIM_EVENT_DIR is unset or empty: no event.
SkipEvent(p) ==
  /\ InWrapper(p, "opening")
  /\ ~procs[p].sees
  /\ Record(p, "unset")
  /\ Goto(p, "handover")
  /\ UNCHANGED <<runnerVars, open, files, killed>>

\* `> "$dir/$$.json"` creates or truncates the file.
OpenEvent(p) ==
  /\ InWrapper(p, "opening")
  /\ procs[p].sees
  /\ DirOf(p) \in open
  /\ SetFile(p, Torn)
  /\ Goto(p, "writing")
  /\ UNCHANGED <<runnerVars, open, invocations, killed>>

\* printf through the open descriptor; after the directory is dropped nobody sees it.
WriteEvent(p) ==
  /\ InWrapper(p, "writing")
  /\ IF files[DirOf(p)][p] = None THEN UNCHANGED files ELSE SetFile(p, procs[p].invocation)
  /\ Record(p, "written")
  /\ Goto(p, "handover")
  /\ UNCHANGED <<runnerVars, open, killed>>

\* A wrong edit: a failed write ends the wrapper.
EventRefusedEndsShim(p) ==
  /\ InWrapper(p, "opening") \/ InWrapper(p, "writing")
  /\ procs[p].sees
  /\ Record(p, "refused")
  /\ procs' = [procs EXCEPT ![p] = None]
  /\ UNCHANGED <<runnerVars, open, files, killed>>

\* The open or the write fails: a warning on stderr, and the exec goes ahead.
EventRefused(p) ==
  /\ InWrapper(p, "opening") \/ InWrapper(p, "writing")
  /\ procs[p].sees
  /\ Record(p, "refused")
  /\ Goto(p, "handover")
  /\ UNCHANGED <<runnerVars, open, files, killed>>

ExecTarget(p) ==
  /\ InWrapper(p, "handover")
  /\ invocations' = [invocations EXCEPT ![procs[p].invocation].target = "running"]
  /\ Goto(p, "program")
  /\ UNCHANGED <<runnerVars, open, files, killed>>

-----------------------------------------------------------------------------
Wrapper(p) ==
  SkipEvent(p) \/ OpenEvent(p) \/ WriteEvent(p) \/ EventRefused(p) \/ ExecTarget(p)

Collect ==
  \/ StartReading \/ FinishReading \/ DirectoryUnreadable
  \/ \E p \in Pids, readable \in BOOLEAN : ReadEntry(p, readable)

\* The case is over: the processes that outlived it are not the runner's.
Over == runner \in {"done", "failed"} /\ UNCHANGED vars

Next ==
  \/ \E p \in Pids : StartAction(p)
  \/ CannotStart \/ NoMoreActions
  \/ Collect
  \/ \E p \in Pids : SeeLateEntry(p)
  \/ \E p, q \in Pids, piped, foreground, sees \in BOOLEAN :
       ForkShim(p, q, piped, foreground, sees)
  \/ \E p \in Pids : ExecShim(p) \/ Exit(p) \/ Kill(p)
  \/ \E p \in Pids : Wrapper(p)
  \/ Over

\* What the runner waits for comes to an end; a process in the background need not.
AwaitedExit(p) == p \in Live /\ procs[p].awaited /\ Exit(p)

Spec ==
  /\ Init /\ [][Next]_vars
  /\ WF_vars((\E p \in Pids : StartAction(p)) \/ NoMoreActions)
  /\ WF_vars(Collect)
  /\ \A p \in Pids : WF_vars(Wrapper(p)) /\ WF_vars(AwaitedExit(p))

-----------------------------------------------------------------------------
(* Properties.                                                             *)

Finished == DOMAIN results
InvokedIn(a) == {i \in DOMAIN invocations : invocations[i].action = a}

(***************************************************************************)
(* Events are isolated per action: a result, and what is being read for    *)
(* the next one, names invocations of its own action only, whatever a      *)
(* process left over from an earlier action does meanwhile.                *)
(***************************************************************************)
EventsAreOwn ==
  /\ \A a \in Finished : results[a].events \subseteq InvokedIn(a)
  /\ events \subseteq InvokedIn(action)

\* A later invocation under the same process id truncated the event file.
Overwritten(i) ==
  \E j \in DOMAIN invocations :
    /\ j > i
    /\ invocations[j].action = invocations[i].action
    /\ invocations[j].pid = invocations[i].pid

Accounted(i, a) ==
  \/ invocations[i].event \in {"refused", "unset"}
  \/ i \in results[a].events
  \/ invocations[i].pid \in results[a].warnings

(***************************************************************************)
(* No invocation the runner waited for is silently lost: unless it was     *)
(* killed, each one is in the result of its action, or a warning of that   *)
(* result names its file, or it said on stderr that it could not write,    *)
(* except that a later invocation of the same process id replaces it.      *)
(***************************************************************************)
AwaitedEventsCollected ==
  \A a \in Finished \ killed : \A i \in InvokedIn(a) :
    invocations[i].awaited => Accounted(i, a) \/ Overwritten(i)

(***************************************************************************)
(* "Each shim invocation writes one event file. [...] Event file names     *)
(* must avoid collision within the action directory."                      *)
(* (docs/reference/shim-event-protocol.md)                                 *)
(***************************************************************************)
OneEventPerInvocation ==
  \A a \in Finished \ killed : \A i \in InvokedIn(a) :
    invocations[i].awaited => Accounted(i, a)

(***************************************************************************)
(* A shim is transparent: whatever becomes of its event, the target of     *)
(* every invocation runs, unless the process is killed first, and also     *)
(* when the action and its event directory are long gone.                  *)
(***************************************************************************)
TargetReached ==
  \A i \in Ids :
    i \in DOMAIN invocations ~> (i \in DOMAIN invocations /\ invocations[i].target # "due")

(***************************************************************************)
(* The runner is never held up by a process that redirected its output and *)
(* was put in the background: the case ends although such a process may    *)
(* run for ever.                                                           *)
(***************************************************************************)
CaseNotHeldUp == <>(runner \in {"done", "failed"})
=============================================================================
