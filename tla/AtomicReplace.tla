--------------------------- MODULE AtomicReplace ---------------------------
(***************************************************************************)
(* What publishing by replacement promises about the published places,     *)
(* whatever fails, is killed or is replaced by others meanwhile: a place   *)
(* goes from one complete file to the next in one step, a run that ends    *)
(* with an error touches none in its last step, and only runs that do not  *)
(* have the places to themselves are excused.                              *)
(***************************************************************************)
CONSTANTS Publishers, Places, Torn, Others  \* Others: what other programs put there

VARIABLES contents, outcome, alone

Complete(file) == file.kind = "file" /\ file.content # Torn

Init ==
  /\ \A p \in Places : contents[p].kind = "file" => Complete(contents[p])
  /\ outcome = [r \in Publishers |-> "running"]

Running(r) == outcome[r] = "running"

Elsewhere(p) == \A q \in Places \ {p} : contents'[q] = contents[q]

Replace(r) ==
  /\ Running(r)
  /\ \E p \in Places : Complete(contents'[p]) /\ Elsewhere(p)
  /\ outcome' \in {outcome, [outcome EXCEPT ![r] = "success"]}

\* A run ends; it may have found everything as it should be.
End(r) ==
  /\ Running(r)
  /\ \E how \in {"success", "error"} : outcome' = [outcome EXCEPT ![r] = how]
  /\ UNCHANGED contents

Disturb ==
  /\ \E p \in Places : contents'[p] \in Others /\ Elsewhere(p)
  /\ UNCHANGED outcome

\* Two that publish at once share what they stage.
Collide(r) ==
  /\ Running(r) /\ ~alone[r]
  /\ \E p \in Places : Elsewhere(p)
  /\ outcome' \in {outcome, [outcome EXCEPT ![r] = "success"]}

Next ==
  \/ \E r \in Publishers : Replace(r) \/ End(r) \/ Collide(r)
  \/ Disturb

Spec == Init /\ [][Next]_<<contents, outcome>>
=============================================================================
