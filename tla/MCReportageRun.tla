--------------------------- MODULE MCReportageRun ---------------------------
(***************************************************************************)
(* One run with every mix of case results, and two runs competing for one  *)
(* artifact store.                                                         *)
(***************************************************************************)
EXTENDS ReportageRun

CONSTANTS a, b, id, stamp

OneRun == {a}
TwoRuns == {a, b}
MCFixedIds == {id}
MCStamps == {stamp, id}   \* a fixed id may look like a time of the clock

Result(status, actions, sideEffects, held) ==
  [status |-> status, actions |-> actions, sideEffects |-> sideEffects, held |-> held]

EveryStatus ==
  {Result("pass", 1, 0, <<TRUE>>), Result("pass", 0, 1, <<TRUE, TRUE>>),
   Result("fail", 2, 0, <<TRUE, FALSE>>), Result("fail", 1, 1, <<FALSE, FALSE>>),
   Result("script_error", 1, 0, <<>>), Result("runtime_error", 0, 0, <<>>),
   Result("runtime_error", 2, 1, <<TRUE>>)}

FewResults == {Result("pass", 1, 0, <<TRUE>>), Result("fail", 2, 0, <<FALSE>>)}
=============================================================================
