-------------------------- MODULE MCCaseExecution ---------------------------
(***************************************************************************)
(* Small scripts for CaseExecution: every setup and every body of at most  *)
(* three steps over a small alphabet, with three outputs for a command.    *)
(***************************************************************************)
EXTENDS CaseExecution

CONSTANTS x, y

MCNames == {x, y}

Action == [kind |-> "action"]
Let(n, s, m) == [kind |-> "let", name |-> n, stream |-> s, mode |-> m]
Write(refs) == [kind |-> "write", refs |-> refs]
Assert(es) == [kind |-> "assert", expectations |-> es]
Check(needs, valid, refs) == [needsAction |-> needs, validPath |-> valid, refs |-> refs]

SetupSteps ==
  {Action, Write({}), Let(x, "stdout", "line"), Assert(<<Check(FALSE, TRUE, {x})>>),
   Assert(<<Check(TRUE, TRUE, {})>>)}

BodySteps ==
  {Action, Let(x, "stderr", "exact"), Let(y, "stdout", "line"), Write({x}), Write({}),
   Assert(<<Check(FALSE, TRUE, {y})>>), Assert(<<Check(FALSE, TRUE, {})>>),
   Assert(<<Check(FALSE, TRUE, {x}), Check(TRUE, TRUE, {})>>),
   Assert(<<Check(FALSE, FALSE, {}), Check(TRUE, TRUE, {})>>)}

UpTo(n, S) == UNION {[1 .. k -> S] : k \in 0 .. n}

MCCases == [setup : UpTo(3, SetupSteps), body : UpTo(3, BodySteps)]

MCResults ==
  {[stdout |-> <<"text", "LF">>, stderr |-> <<>>],
   [stdout |-> <<"CR", "LF">>, stderr |-> <<"text", "LF">>],
   [stdout |-> <<"text", "LF", "text">>, stderr |-> <<"raw">>]}
=============================================================================
