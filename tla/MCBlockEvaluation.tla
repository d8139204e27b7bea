------------------------- MODULE MCBlockEvaluation --------------------------
(***************************************************************************)
(* Small assertion blocks for BlockEvaluation: every subject and matcher,  *)
(* compositions up to two levels deep, and files that are absent, of the   *)
(* wrong kind, unreadable, not UTF-8, equal, different or a prefix.  Of    *)
(* the two paths, `ref` is outside the path policy as a subject and `out`  *)
(* leads outside the *.repor directory as a fixture.                       *)
(***************************************************************************)
EXTENDS BlockEvaluation

CONSTANTS out, ref, name

MCPaths == {out, ref}
MCEntries == {name}
MCPolicyNames == {out, name}
MCOutsidePaths == {out}

File(bytes) == [kind |-> "file", readable |-> TRUE, bytes |-> bytes, entries |-> {}]
Other(kind, readable, entries) ==
  [kind |-> kind, readable |-> readable, bytes |-> <<>>, entries |-> entries]

MCFileStates ==
  {Other("absent", FALSE, {}), Other("dir", TRUE, {name}), Other("dir", FALSE, {name}),
   Other("file", FALSE, {}), File(<<"a">>), File(<<"a", "b">>), File(<<"b", "raw">>)}

MCCheckpoints ==
  {None, [exit |-> 0, stdout |-> <<"a">>, stderr |-> <<"a", "b">>],
   [exit |-> 1, stdout |-> <<>>, stderr |-> <<"raw">>]}

Leaf(parent, kind, matcher) ==
  [kind |-> kind, parent |-> parent, matcher |-> matcher, path |-> out, entry |-> name,
   code |-> 0, source |-> "none", text |-> <<>>, from |-> ref]
Group(parent, operator) == Leaf(parent, operator, "equals")
On(path, e) == [e EXCEPT !.path = path]
Text(bytes, e) == [e EXCEPT !.source = "text", !.text = bytes]
Workspace(path, e) == [e EXCEPT !.source = "workspace", !.from = path]
Fixture(path, e) == [e EXCEPT !.source = "fixture", !.from = path]

MCBlocks ==
  {<<Leaf(0, "exit", "equals"), Leaf(0, "dir", "exists"),
     Text(<<"b">>, Leaf(0, "stderr", "contains"))>>,
   <<Group(0, "not"), Leaf(1, "file", "exists"), Leaf(1, "dir", "contains")>>,
   <<Group(0, "any"), Text(<<"a">>, Leaf(1, "file", "contains")),
     Workspace(ref, Leaf(1, "file", "contents_equals")), Leaf(0, "stdout", "empty")>>,
   <<Fixture(ref, Leaf(0, "file", "contents_equals")),
     Group(0, "not"), Text(<<>>, Leaf(2, "stdout", "contains"))>>,
   <<Group(0, "all"), Group(1, "not"), Text(<<"a", "b">>, Leaf(2, "file", "text_equals")),
     Leaf(2, "exit", "equals"), Workspace(out, Leaf(1, "stderr", "contents_equals"))>>,
   <<Group(0, "any"), Leaf(1, "file", "exists"),
     Group(1, "not"), On(ref, Leaf(3, "dir", "exists"))>>,
   <<Group(0, "any"), Leaf(1, "file", "exists"), Group(1, "not"), Leaf(3, "exit", "equals")>>,
   <<Text(<<"a">>, Leaf(0, "stdout", "text_equals")), Workspace(ref, Leaf(0, "file", "contents_equals"))>>,
   <<Text(<<"a">>, Leaf(0, "stdout", "text_equals")),
     Fixture(out, Leaf(0, "stderr", "contents_equals"))>>}
=============================================================================
