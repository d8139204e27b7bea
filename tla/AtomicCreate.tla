---------------------------- MODULE AtomicCreate ----------------------------
(***************************************************************************)
(* What a `write` step promises about its target path, whatever else       *)
(* happens in the workspace: the file appears complete, content and mode   *)
(* together, where nothing was, or the path is left alone.                 *)
(***************************************************************************)
EXTENDS Naturals, Sequences

CONSTANTS MaxWrites, None

VARIABLES target, outcomes

Refusals == {"parent_not_a_directory", "target_already_exists", "io", "set_mode"}

\* The complete file of the n-th write, and anything another process may put there.
Complete(n) == [by |-> n, content |-> "full", mode |-> "final"]
Foreign == [by |-> 0, content |-> "other", mode |-> "other"]

Init == target = None /\ outcomes = <<>>

Writing == Len(outcomes) < MaxWrites

Create ==
  /\ Writing
  /\ target = None
  /\ target' = Complete(Len(outcomes) + 1)
  /\ outcomes' = Append(outcomes, "created")

Refuse ==
  /\ Writing
  /\ \E e \in Refusals :
       /\ e = "target_already_exists" => target # None
       /\ outcomes' = Append(outcomes, e)
  /\ UNCHANGED target

\* Another process of the case removes or replaces what is at the path.
Disturb ==
  /\ target' \in {None, Foreign}
  /\ UNCHANGED outcomes

Next == Create \/ Refuse \/ Disturb

Spec == Init /\ [][Next]_<<target, outcomes>>
=============================================================================
