-------------------------- MODULE ToolsQuietProofs --------------------------
(***************************************************************************)
(* What a file-writing command does when nothing disturbs it, proved for   *)
(* every set of processes, paths, workloads, contracts and scripts: each   *)
(* command keeps its promise.                                              *)
(***************************************************************************)
EXTENDS ToolsProofs, FiniteSetTheorems

-----------------------------------------------------------------------------
(* The files at large.                                                     *)

\* Where the generator writes, with all that is above.
Guarded == UNION {PrefixesOf(q) : q \in Publics \cup Temporaries}

\* Where a symlink may lead.
Linked == {file.content : file \in LinksIn(Range(setting.files) \cup setting.foreign)}

\* A tree with no symlink where the generator writes, and scripts where `docs` reads.
Orderly(fs) ==
  /\ DOMAIN fs = Paths /\ \A p \in Paths : FileAt(fs[p], p)
  /\ TreeShaped(fs)
  /\ \A p \in Guarded : fs[p].kind # "link"
  /\ \A p \in Paths : fs[p].kind = "link" => fs[p].content \in Linked
  /\ \A p \in PlacesRead(setting) :
       fs[p].node = None /\ (fs[p].kind = "file" => fs[p].content.lines \in Scripts)
  /\ \A p \in SourcesIn(setting) : fs[p].kind = "link" => fs[p].content \in PlacesRead(setting)

OrderlyInv == Orderly(files) /\ \A r \in Runs : Orderly(seen[r])

-----------------------------------------------------------------------------
(* How far an undisturbed command has come: what it has found, and what is *)
(* left of the files it saw.                                               *)

Made(fs, path) ==
  [p \in Paths |-> IF p \in PrefixesOf(path) /\ fs[p] = Absent THEN Directory ELSE fs[p]]

ScaffoldSoFar(r) ==
  LET request == Job(r)
      out == request.out
      before == seen[r]
  IN /\ Violations(request) = {}
     /\ pc[r] # "policy" =>
          /\ ~BelowFile(before, out) /\ ~OutRefused(request, before[out])
          /\ request.template \in BuiltinTemplates
     /\ pc[r] \in {"policy", "parent"} => files = before
     /\ pc[r] \in {"create", "fill", "chmod"} =>
          /\ \A p \in PrefixesOf(Parent(out)) : before[p].kind \in {"absent", "dir"}
          /\ \A p \in Paths \ {out} : files[p] = Made(before, Parent(out))[p]
     /\ pc[r] = "create" => files[out] = before[out]
     /\ pc[r] \in {"fill", "chmod"} => files[out].kind = "file" /\ files[out].node = work[r].fd
     /\ pc[r] = "chmod" => files[out].content = Shim(request)

DefectAt(fs, n) == Defect(Contracts[n], fs[Contracts[n].internal])
WantedAt(fs, n) == PublicText(fs[Contracts[n].internal].content)
CurrentIn(fs) ==
  {n \in Numbers : fs[Contracts[n].public].kind = "file"
                     /\ fs[Contracts[n].public].content = WantedAt(fs, n)}

\* The schemas before the one at `at` are published, those from it on are as they were.
WrittenUpTo(before, fs, at, staging) ==
  /\ \A n \in Numbers : n \in CurrentIn(before) \/ n >= at =>
       /\ fs[Contracts[n].public] = before[Contracts[n].public]
       /\ ~(n = at /\ staging) =>
            fs[Temporary(Contracts[n].public)] = before[Temporary(Contracts[n].public)]
  /\ \A n \in Numbers \ CurrentIn(before) : n < at =>
       /\ fs[Contracts[n].public].kind = "file"
       /\ fs[Contracts[n].public].content = WantedAt(before, n)
       /\ fs[Temporary(Contracts[n].public)] = Absent
       /\ before[Temporary(Contracts[n].public)].kind # "dir"
  /\ \A p \in Paths \ (Publics \cup Temporaries) :
       \/ fs[p] = before[p]
       \/ /\ before[p] = Absent /\ fs[p] = Directory
          /\ \E n \in Numbers \ CurrentIn(before) : p \in PrefixesOf(Contracts[n].public)

WrittenSoFar(r) == WrittenUpTo(seen[r], files, work[r].at, pc[r] \in {"text", "publish"})

SchemaSoFar(r) ==
  LET before == seen[r]
      w == work[r]
  IN /\ pc[r] = "prepare" =>
          /\ files = before /\ w.stale = {}
          /\ w.defects = {DefectAt(before, n) : n \in 1 .. w.at - 1}
          /\ \A n \in 1 .. w.at - 1 :
               DefectAt(before, n) = "none" => w.texts[n] = WantedAt(before, n)
     /\ pc[r] # "prepare" =>
          /\ {DefectAt(before, n) : n \in Numbers} = {"none"}
          /\ \A n \in Numbers : w.texts[n] = WantedAt(before, n)
          /\ \A n \in 1 .. w.at - 1 : Readable(before, Contracts[n].public)
     /\ pc[r] = "check" =>
          w.stale = {Contracts[n].public : n \in 1 .. w.at - 1 \ CurrentIn(before)}
     /\ pc[r] \in {"gen"} \cup WriteLabels =>
          IF Job(r).dryRun THEN files = before ELSE WrittenSoFar(r)
     /\ pc[r] = "check" => files = before
     /\ pc[r] \in WriteLabels => w.at \notin CurrentIn(before) /\ Readable(before, Public(r))
     /\ pc[r] \in {"open", "text", "publish"} =>
          \A p \in PrefixesOf(Parent(Public(r))) : files[p].kind = "dir"
     /\ pc[r] \in {"text", "publish"} =>
          /\ before[Temporary(Public(r))].kind # "dir"
          /\ files[Temporary(Public(r))].kind = "file"

\* The sources are found in order, all read, all good.
Good(p, fs) == Source(fs[p].content.lines) \in CanonicalSources

DocsSoFar(r) ==
  LET request == Job(r)
      before == seen[r]
      w == work[r]
      Found(k) == UNION {Selected(request.patterns[i], before) : i \in 1 .. k}
      done == Sources(request, before) \ w.todo
  IN /\ ValidIndex(request.index) /\ request.patterns # <<>>
     /\ pc[r] = "discover" =>
          /\ w.at \in DOMAIN request.patterns
          /\ \A k \in 1 .. w.at - 1 : PatternError(request.patterns[k], before) = "none"
          /\ w.todo = Found(w.at - 1) /\ w.loaded = {} /\ ~w.failed
     /\ pc[r] # "discover" =>
          \A k \in DOMAIN request.patterns : PatternError(request.patterns[k], before) = "none"
     /\ pc[r] = "load" =>
          /\ w.todo # {} /\ w.todo \subseteq Sources(request, before)
          /\ w.loaded = {Loaded(p, before[p].content.lines) : p \in {q \in done : Good(q, before)}}
          /\ w.failed <=> \E p \in done : ~Good(p, before)
     /\ pc[r] \in {"discover", "load", "output"} => files = before
     /\ pc[r] \in {"output", "target", "stage_document", "persist"} =>
          /\ w.document = Expected(request, before)
          /\ \A p \in Sources(request, before) : Good(p, before)
     /\ pc[r] \in {"target", "stage_document", "persist"} =>
          /\ before[request.out].kind \in {"absent", "dir"}
          /\ files[request.out].kind = "dir"
          /\ before[request.out].kind = "dir" => files = before
          /\ \A p \in Paths : files[p] = Made(before, request.out)[p]
     /\ pc[r] \in {"stage_document", "persist"} =>
          Replaceable(request, before[Target(request)],
            before[IF before[Target(request)].kind = "link" THEN before[Target(request)].content
                   ELSE Target(request)])
     /\ pc[r] = "persist" => w.staged = request.out

RunSoFar(r) ==
  /\ pc[r] \in ScaffoldLabels => ScaffoldSoFar(r)
  /\ pc[r] \in SchemaLabels => SchemaSoFar(r)
  /\ pc[r] \in DocsLabels => DocsSoFar(r)

SoFar == \A r \in Runs : (Active(r) /\ met[r] = {}) => RunSoFar(r)

-----------------------------------------------------------------------------
(* Paths.                                                                  *)

LEMMA Prefix ==
  ASSUME NEW path \in Seq(STRING), NEW p \in PrefixesOf(path)
  PROVE  /\ p \in Seq(STRING) /\ Len(p) \in 1 .. Len(path) /\ p # <<>>
         /\ PrefixesOf(p) \subseteq PrefixesOf(path)
<1>1. PICK k \in 1 .. Len(path) : p = SubSeq(path, 1, k)
  BY DEF PrefixesOf
<1>2. Len(path) \in Nat /\ \A i \in 1 .. k : path[i] \in STRING
  BY <1>1
<1>3. p \in Seq(STRING) /\ Len(p) = k
  BY <1>1, <1>2, SubSeqProperties
<1>4. ASSUME NEW j \in 1 .. Len(p) PROVE SubSeq(p, 1, j) \in PrefixesOf(path)
  <2>1. 1 \in 1 .. Len(path) /\ k \in 1 .. Len(path) /\ 1 \in 1 .. k - 1 + 1 /\ j \in 1 .. k - 1 + 1
    BY <1>2, <1>3, <1>4
  <2>2. SubSeq(p, 1, j) = SubSeq(path, 1, j)
    <3>1. SubSeq(SubSeq(path, 1, k), 1, j) = SubSeq(path, 1 + 1 - 1, 1 + j - 1)
      BY <2>1, SubSeqOfSubSeq
    <3>2. 1 + 1 - 1 = 1 /\ 1 + j - 1 = j
      BY <1>3
    <3> QED BY <1>1, <3>1, <3>2
  <2>3. j \in 1 .. Len(path)
    BY <1>2, <1>3
  <2> QED BY <2>2, <2>3 DEF PrefixesOf
<1> QED BY <1>2, <1>3, <1>4 DEF PrefixesOf

LEMMA ParentParts ==
  ASSUME NEW path \in Seq(STRING), path # <<>>
  PROVE  /\ Parent(path) \in Seq(STRING) /\ Len(Parent(path)) = Len(path) - 1
         /\ PrefixesOf(path) = PrefixesOf(Parent(path)) \cup {path}
         /\ path \notin PrefixesOf(Parent(path))
<1> DEFINE n == Len(path)
           parent == Parent(path)
<1>1. n \in Nat /\ n >= 1 /\ \A i \in 1 .. n - 1 : path[i] \in STRING
  BY EmptySeq, LenProperties
<1>2. parent \in Seq(STRING) /\ Len(parent) = n - 1
  <2>1. n - 1 \in Int /\ (n - 1) - 1 + 1 = n - 1 /\ (1 <= n - 1 \/ n - 1 = 0)
    <3> HIDE DEF n
    <3> QED BY <1>1
  <2>2. /\ SubSeq(path, 1, n - 1) \in Seq(STRING)
        /\ Len(SubSeq(path, 1, n - 1)) = IF 1 <= n - 1 THEN (n - 1) - 1 + 1 ELSE 0
    BY <1>1, <2>1, SubSeqProperties
  <2> QED BY <2>1, <2>2 DEF Parent
<1>3. SubSeq(path, 1, n) = path
  BY SubSeqFull
<1>4. \A j \in 1 .. n - 1 : SubSeq(parent, 1, j) = SubSeq(path, 1, j)
  <2> SUFFICES ASSUME NEW j \in 1 .. n - 1 PROVE SubSeq(parent, 1, j) = SubSeq(path, 1, j)
    OBVIOUS
  <2>1. 1 \in 1 .. n /\ n - 1 \in 1 .. n /\ 1 \in 1 .. (n - 1) - 1 + 1 /\ j \in 1 .. (n - 1) - 1 + 1
    BY <1>1
  <2>2. SubSeq(SubSeq(path, 1, n - 1), 1, j) = SubSeq(path, 1 + 1 - 1, 1 + j - 1)
    BY <2>1, SubSeqOfSubSeq
  <2>3. 1 + 1 - 1 = 1 /\ 1 + j - 1 = j
    OBVIOUS
  <2> QED BY <2>2, <2>3 DEF Parent
<1> HIDE DEF n, parent
<1>5. 1 .. n = 1 .. n - 1 \cup {n}
  BY <1>1
<1>6. PrefixesOf(path) = PrefixesOf(parent) \cup {path}
  <2>1. PrefixesOf(path) = {SubSeq(path, 1, k) : k \in 1 .. n - 1 \cup {n}}
    BY <1>5 DEF PrefixesOf, n
  <2>2. PrefixesOf(parent) = {SubSeq(path, 1, k) : k \in 1 .. n - 1}
    BY <1>2, <1>4 DEF PrefixesOf
  <2> QED BY <1>3, <2>1, <2>2
<1>7. path \notin PrefixesOf(parent)
  <2>1. \A p \in PrefixesOf(parent) : Len(p) \in 1 .. n - 1
    BY <1>2, Prefix
  <2> QED BY <1>1, <2>1 DEF n
<1> QED BY <1>2, <1>6, <1>7 DEF n, parent

\* Everything above a place is a place.
LEMMA PathsAbove ==
  ASSUME NEW p \in Paths
  PROVE  /\ Parent(p) \in Seq(STRING) /\ PrefixesOf(p) = PrefixesOf(Parent(p)) \cup {p}
         /\ PrefixesOf(Parent(p)) \subseteq Paths /\ p \notin PrefixesOf(Parent(p))
         /\ \A q \in PrefixesOf(p) : PrefixesOf(Parent(q)) \subseteq PrefixesOf(p)
<1>1. p \in Seq(STRING) /\ p # <<>> /\ PrefixesOf(p) \subseteq Paths
  BY PathsAssumption
<1>2. \A q \in PrefixesOf(p) : PrefixesOf(Parent(q)) \subseteq PrefixesOf(p)
  BY <1>1, Prefix, ParentParts
<1> QED BY <1>1, <1>2, ParentParts

\* Everything above a directory is a directory.
LEMMA AboveDirectory ==
  ASSUME DOMAIN files = Paths, TreeShaped(files), NEW path, path = <<>> \/ path \in Paths, IsDirectory(path)
  PROVE  \A q \in PrefixesOf(path) : files[q].kind = "dir"
<1>1. CASE path = <<>>
  BY <1>1 DEF PrefixesOf
<1>2. CASE path # <<>>
  BY <1>2, PathsAbove DEF IsDirectory, TreeShaped
<1> QED BY <1>1, <1>2
-----------------------------------------------------------------------------
(* The files stay in order.                                                *)

\* A step that leaves nothing below what is not a directory, makes no symlink, and does
\* not write where `docs` reads.
Tidy ==
  /\ \A p \in Paths : (files[p].kind = "dir" /\ files'[p].kind # "dir") =>
       \A q \in Paths : p \in PrefixesOf(Parent(q)) => files'[q].kind = "absent"
  /\ \A p \in Paths : (files[p].kind = "absent" /\ files'[p].kind # "absent") =>
       \A q \in PrefixesOf(Parent(p)) : files'[q].kind = "dir"
  /\ \A p \in Paths : files'[p].kind = "link" =>
       files[p].kind = "link" /\ files'[p].content = files[p].content
  /\ \A p \in PlacesRead(setting) : files'[p] = files[p] \/ files'[p] = Directory

LEMMA GuardedPaths == Guarded \subseteq Paths
BY StagedPrefixes, PathParts DEF Guarded

\* What is read is that of the workload.
LEMMA SettingReads ==
  ASSUME NEW w,
         setting = [job |-> w.job, files |-> w.files, contested |-> w.contested, foreign |-> w.foreign]
  PROVE  SourcesIn(setting) = SourcesIn(w) /\ PlacesRead(setting) = PlacesRead(w)
<1>1. /\ setting.job = w.job /\ setting.files = w.files /\ setting.contested = w.contested
      /\ setting.foreign = w.foreign
  OBVIOUS
<1>2. SourcesIn(setting) = SourcesIn(w)
  BY <1>1 DEF SourcesIn
<1>3. LinksRead(setting) = LinksRead(w)
  BY <1>1, <1>2 DEF LinksRead
<1> QED BY <1>2, <1>3 DEF PlacesRead

LEMMA TidyKeepsOrder ==
  ASSUME Orderly(files), FilesInv', setting' = setting, Tidy
  PROVE  Orderly(files)'
<1>1. DOMAIN files' = Paths /\ \A p \in Paths : FileAt(files'[p], p)
  BY DEF FilesInv
<1>2. TreeShaped(files')
  <2> SUFFICES ASSUME NEW p \in Paths, files'[p].kind # "absent", NEW q \in PrefixesOf(Parent(p))
               PROVE  files'[q].kind = "dir"
    BY DEF TreeShaped
  <2>1. q \in Paths
    BY PathsAbove
  <2>2. CASE files[p].kind # "absent"
    BY <2>1, <2>2 DEF Orderly, TreeShaped, Tidy
  <2>3. CASE files[p].kind = "absent"
    BY <2>3 DEF Tidy
  <2> QED BY <2>2, <2>3
<1>3. \A p \in Guarded : files'[p].kind # "link"
  BY GuardedPaths DEF Orderly, Tidy
<1>4. \A p \in Paths : files'[p].kind = "link" => files'[p].content \in Linked
  BY DEF Orderly, Tidy
<1>5. ASSUME NEW p \in PlacesRead(setting)
      PROVE  files'[p].node = None /\ (files'[p].kind = "file" => files'[p].content.lines \in Scripts)
  BY DEF Orderly, Tidy, Directory, Absent
<1>6. /\ Linked' = Linked /\ PlacesRead(setting)' = PlacesRead(setting)
      /\ SourcesIn(setting)' = SourcesIn(setting)
  BY DEF Linked
<1>7. \A p \in SourcesIn(setting) : files'[p].kind = "link" => files'[p].content \in PlacesRead(setting)
  BY DEF Orderly, Tidy, SourcesIn
<1> QED BY <1>1, <1>2, <1>3, <1>4, <1>5, <1>6, <1>7 DEF Orderly

LEMMA SameIsTidy ==
  ASSUME UNCHANGED files
  PROVE  Tidy
BY DEF Tidy

LEMMA DirectoriesAreTidy ==
  ASSUME Orderly(files), NEW path \in Seq(STRING), PrefixesOf(path) \subseteq Paths,
         CanMakeDirectories(path), files' = WithDirectories(path)
  PROVE  Tidy
<1>1. \A p \in Paths :
        files'[p] = IF p \in PrefixesOf(path) /\ files[p] = Absent THEN Directory ELSE files[p]
  BY DEF WithDirectories
<1>2. Directory.kind = "dir" /\ Absent.kind = "absent"
  BY DEF Directory, Absent
<1>3. \A p \in PrefixesOf(path) : files'[p].kind = "dir"
  BY <1>1, <1>2 DEF CanMakeDirectories, Orderly, FileAt
<1>4. ASSUME NEW p \in Paths, files[p].kind = "absent", files'[p].kind # "absent",
             NEW q \in PrefixesOf(Parent(p))
      PROVE  files'[q].kind = "dir"
  <2>1. p \in PrefixesOf(path)
    BY <1>1, <1>4
  <2>2. PrefixesOf(p) \subseteq PrefixesOf(path)
    BY <2>1, Prefix
  <2> QED BY <1>3, <2>2, PathsAbove
<1>5. PlacesRead(setting) \subseteq Paths
  BY DEF PlacesRead
<1> QED BY <1>1, <1>2, <1>4, <1>5 DEF Tidy, Directory

\* A file replaces nothing or a file, in a directory.
LEMMA FileIsTidy ==
  ASSUME Orderly(files), NEW q, NEW file, q \in Paths => IsDirectory(Parent(q)) /\ files[q].kind # "dir",
         file.kind = "file", q \notin PlacesRead(setting), files' = [files EXCEPT ![q] = file]
  PROVE  Tidy
<1>1. \A p \in Paths : files'[p] = IF p = q THEN file ELSE files[p]
  BY DEF Orderly
<1>2. ASSUME q \in Paths, NEW p \in PrefixesOf(Parent(q))
      PROVE  files'[p].kind = "dir"
  <2>1. Parent(q) = <<>> \/ Parent(q) \in Paths
    <3>1. Parent(q) # <<>> => Parent(q) \in PrefixesOf(Parent(q))
      <4>1. Parent(q) \in Seq(STRING)
        BY <1>2, PathsAbove
      <4> QED BY <4>1, ParentParts
    <3> QED BY <1>2, <3>1, PathsAbove
  <2>2. files[p].kind = "dir"
    BY <1>2, <2>1, AboveDirectory DEF Orderly
  <2>3. p # q /\ p \in Paths
    BY <1>2, PathsAbove
  <2> QED BY <1>1, <2>2, <2>3
<1>3. PlacesRead(setting) \subseteq Paths
  BY DEF PlacesRead
<1> QED BY <1>1, <1>2, <1>3 DEF Tidy

LEMMA OpeningIsTidy ==
  ASSUME Orderly(files), NEW path, CanOpen(path), NEW node,
         Followed(path) \notin PlacesRead(setting), Followed(path) \in Paths,
         files' = Opened(path, node)
  PROVE  Tidy
<1> DEFINE q == Followed(path)
           file == [files[q] EXCEPT !.kind = "file", !.content = Torn, !.node = node]
<1>1. files' = [files EXCEPT ![q] = file]
  BY Zenon DEF Opened
<1>2. file.kind = "file"
  BY DEF Orderly, FileAt, Absent
<1>3. files[q].kind # "dir" /\ IsDirectory(Parent(q))
  BY DEF CanOpen
<1> HIDE DEF q, file
<1> QED BY <1>1, <1>2, <1>3, FileIsTidy DEF q

LEMMA WritingIsTidy ==
  ASSUME Orderly(files), NEW node, node # None, NEW content, files' = WrittenTo(node, content)
  PROVE  Tidy
<1>1. ASSUME NEW p \in Paths
      PROVE  files'[p].kind = files[p].kind /\ (files[p].kind # "file" \/ files[p].node = None => files'[p] = files[p])
  <2>1. CASE files[p].kind = "file" /\ files[p].node = node
    <3>1. files'[p] = [files[p] EXCEPT !.content = content]
      BY <2>1 DEF WrittenTo
    <3> QED BY <2>1, <3>1 DEF Orderly, FileAt, Absent
  <2>2. CASE ~(files[p].kind = "file" /\ files[p].node = node)
    BY <2>2 DEF WrittenTo
  <2> QED BY <2>1, <2>2
<1>2. \A p \in PlacesRead(setting) : p \in Paths /\ files[p].node = None
  BY DEF PlacesRead, Orderly
<1> QED BY <1>1, <1>2 DEF Tidy

\* A publication replaces a public schema; nothing is below it or its temporary file.
\* A schema is staged beside its public file.
LEMMA ParentOfTemporary ==
  ASSUME NEW public \in Publics
  PROVE  Parent(Temporary(public)) = Parent(public)
<1> DEFINE temporary == Temporary(public)
<1>0. public \in Paths /\ temporary \in Paths
  BY PublicPlaces
<1>1. Parent(public) \in Seq(STRING) /\ public \in Seq(STRING) /\ public # <<>>
  BY <1>0, PathsAbove, PathsAssumption
<1> DEFINE name == "." \o Last(public) \o ".tmp"
           parent == Parent(public)
<1>2. temporary = parent \o <<name>>
  BY DEF Temporary
<1> HIDE DEF temporary, parent, name
<1>3. temporary \in Seq(STRING) /\ temporary # <<>>
  BY <1>0, PathsAssumption
<1>4. parent \in Seq(STRING) /\ <<name>> \in Seq({name}) /\ Len(<<name>>) = 1
  BY <1>1 DEF parent
<1>5. parent \in Seq(STRING \cup {name}) /\ <<name>> \in Seq(STRING \cup {name})
  BY <1>4
<1>6. Len(temporary) = Len(parent) + 1 /\ \A i \in 1 .. Len(parent) : temporary[i] = parent[i]
  BY <1>2, <1>4, <1>5, ConcatProperties
<1>7. SubSeq(temporary, 1, Len(parent)) = parent
  <2>1. Len(parent) \in Nat /\ \A i \in 1 .. Len(parent) : temporary[i] \in STRING
    BY <1>4, <1>6
  <2>2. SubSeq(temporary, 1, Len(parent)) \in Seq(STRING)
        /\ Len(SubSeq(temporary, 1, Len(parent))) = Len(parent)
        /\ \A i \in 1 .. Len(parent) : SubSeq(temporary, 1, Len(parent))[i] = temporary[1 + i - 1]
    <3>1. Len(parent) - 1 + 1 = Len(parent) /\ (1 <= Len(parent) \/ Len(parent) = 0)
      BY <2>1
    <3> QED BY <2>1, <3>1, SubSeqProperties
  <2>3. \A i \in 1 .. Len(parent) : SubSeq(temporary, 1, Len(parent))[i] = parent[i]
    BY <1>6, <2>1, <2>2
  <2> QED BY <1>4, <2>2, <2>3, SeqEqual
<1>8. Len(temporary) - 1 = Len(parent)
  BY <1>4, <1>6
<1> QED BY <1>7, <1>8 DEF Parent, parent, temporary

LEMMA RenamingIsTidy ==
  ASSUME Orderly(files), NEW public \in Publics, CanRename(Temporary(public), public),
         PlacesRead(setting) \cap (Publics \cup Temporaries) = {},
         files' = Renamed(Temporary(public), public)
  PROVE  Tidy
<1> DEFINE temporary == Temporary(public)
<1>1. public \in Paths /\ temporary \in Paths /\ temporary # public /\ temporary \in Temporaries
  BY PublicPlaces
<1>2. Parent(temporary) = Parent(public)
  BY ParentOfTemporary
<1> HIDE DEF temporary
<1>3. files'[public] = files[temporary] /\ files'[temporary] = Absent
      /\ \A p \in Paths \ {public, temporary} : files'[p] = files[p]
  BY <1>1 DEF Renamed, Orderly, temporary
<1>4. \A p \in Paths : public \notin PrefixesOf(Parent(p)) /\ temporary \notin PrefixesOf(Parent(p))
  BY <1>1, PublishedAssumption
<1>5. files[temporary].kind # "absent" /\ files[temporary].kind # "link"
  BY <1>1 DEF CanRename, temporary, Orderly, FileAt
<1>6. \A q \in PrefixesOf(Parent(public)) : files'[q].kind = "dir"
  <2> SUFFICES ASSUME NEW q \in PrefixesOf(Parent(public)) PROVE files'[q].kind = "dir"
    OBVIOUS
  <2>1. q \in Paths /\ q # public /\ q # temporary
    BY <1>1, <1>4, PathsAbove
  <2>2. files[q].kind = "dir"
    BY <1>1, <1>2, <1>5 DEF Orderly, TreeShaped
  <2> QED BY <1>3, <2>1, <2>2
<1>7. Absent.kind = "absent"
  BY DEF Absent
<1>8. PlacesRead(setting) \subseteq Paths \ {public, temporary}
  BY <1>1 DEF PlacesRead
<1> QED BY <1>3, <1>4, <1>5, <1>6, <1>7, <1>8 DEF Tidy

LEMMA UnlinkingIsTidy ==
  ASSUME Orderly(files), NEW path \in Paths, path \notin PlacesRead(setting), files' = Unlinked(path)
  PROVE  Tidy
<1>1. \A p \in Paths : files'[p] = files[p] \/ (p = path /\ files'[p] = Absent)
  BY DEF Unlinked, Orderly
<1>2. files[path].kind = "dir" => files'[path].kind = "dir"
  BY DEF Unlinked, Orderly
<1>3. Absent.kind = "absent" /\ PlacesRead(setting) \subseteq Paths
  BY DEF Absent, PlacesRead
<1> QED BY <1>1, <1>2, <1>3 DEF Tidy

LEMMA ModeIsTidy ==
  ASSUME Orderly(files), NEW path \in Paths, NEW x \in BOOLEAN, path \notin PlacesRead(setting),
         files' = [files EXCEPT ![path].exec = x]
  PROVE  Tidy
<1> DEFINE file == [files[path] EXCEPT !.exec = x]
<1>1. files' = [files EXCEPT ![path] = file]
  OBVIOUS
<1>2. file.kind = files[path].kind /\ file.content = files[path].content
  BY DEF Orderly, FileAt, Absent
<1> HIDE DEF file
<1>3. /\ \A p \in Paths : files'[p].kind = files[p].kind /\ files'[p].content = files[p].content
      /\ \A p \in Paths \ {path} : files'[p] = files[p]
  BY <1>1, <1>2 DEF Orderly
<1>4. PlacesRead(setting) \subseteq Paths \ {path}
  BY DEF PlacesRead
<1> QED BY <1>3, <1>4 DEF Tidy

\* Nobody writes where `docs` reads.
LEMMA SourcesAreLeft ==
  ASSUME ProcessInv
  PROVE  /\ PlacesRead(setting) \cap (Publics \cup Temporaries) = {}
         /\ \A r \in Runs : Job(r) # None => \A p \in PlacesRead(setting) :
              /\ (Job(r).command = "docs" /\ ValidIndex(Job(r).index)) => Last(p) # Last(Target(Job(r)))
              /\ Job(r).command = "scaffold" => p # Job(r).out /\ p \notin Linked
<1>1. PICK w \in Workloads :
        setting = [job |-> w.job, files |-> w.files, contested |-> w.contested, foreign |-> w.foreign]
  BY DEF ProcessInv
<1>2. PlacesRead(setting) = PlacesRead(w)
  BY <1>1, SettingReads
<1>3. Linked = {f.content : f \in LinksIn(Range(w.files) \cup w.foreign)}
  BY <1>1 DEF Linked
<1>4. \A r \in Runs : Job(r) = w.job[r]
  BY <1>1 DEF Job
<1> QED BY <1>2, <1>3, <1>4, SourcesAssumption

\* `docs` reads nothing before it has looked at its request.
ValidRequests ==
  \A r \in Runs : pc[r] \in DocsLabels => ValidIndex(Job(r).index) /\ Job(r).patterns # <<>>

LEMMA ValidKept ==
  ASSUME Inv, ValidRequests, [ToolNext]_toolVars
  PROVE  ValidRequests'
<1> USE DEF ScaffoldLabels, DocsLabels, SchemaLabels, WriteLabels
<1>1. CASE UNCHANGED toolVars \/ Ended \/ Interfere
  <2>1. pc' = pc /\ setting' = setting
    BY <1>1 DEF toolVars, Ended, Interfere
  <2> QED BY <2>1 DEF ValidRequests, Job
<1>2. ASSUME NEW s \in Runs, StepOf(s) PROVE ValidRequests'
  <2>1. Local(s) /\ s \in DOMAIN pc
    BY <1>2, StepIsLocal DEF Inv, ProcessInv
  <2>2. ASSUME pc'[s] \in DocsLabels
        PROVE  ValidIndex(Job(s).index) /\ Job(s).patterns # <<>>
    <3>1. CASE BeginDocs(s)
      BY <2>1, <2>2, <3>1 DEF BeginDocs, Fails, ExitWith, Goto
    <3>2. CASE pc[s] \in DocsLabels
      BY <3>2 DEF ValidRequests
    <3>3. CASE ScaffoldStep(s) \/ Kill(s)
      BY <2>1, <2>2, <3>3 DEF ScaffoldStep, CheckRequest, CheckOut, MakeParent, CreateShim, FillShim,
         MakeExecutable, ScaffoldCallFails, Kill, ExitWith, Goto
    <3>4. CASE SchemaStep(s)
      <4>1. pc[s] \in {"prepare", "gen", "check", "publish"} => Job(s).command \in {"gen", "check"}
        BY DEF Inv, ProcessInv, JobOf, Suits
      <4> QED
        BY <2>1, <2>2, <3>2, <3>4, <4>1 DEF SchemaStep, BeginSchemas, PrepareContract, PrepareFails,
           Prepared, ComparePublic, MakePublicParent, StageOpens, StageWrites, Publish,
           PublicationFails, CheckPublic, PublicUnreadable, NextContract, WriteFailed, ExitWith, Goto
    <3>5. CASE DocsStep(s) /\ ~BeginDocs(s)
      BY <3>2, <3>5 DEF DocsStep, DiscoverPattern, TraversalFails, LoadSource, SourceUnreadable,
         PrepareOutput, CheckTarget, StageDocument, Persist, OutputFails
    <3> QED BY <1>2, <3>1, <3>3, <3>4, <3>5 DEF StepOf
  <2> QED BY <2>1, <2>2 DEF ValidRequests, Local, Job
<1> QED BY <1>1, <1>2 DEF ToolNext, StepOf

LEMMA ScaffoldIsTidy ==
  ASSUME Inv, Orderly(files), NEW r \in Runs, ScaffoldStep(r)
  PROVE  Tidy
<1> USE DEF ScaffoldLabels
<1> DEFINE out == Job(r).out
<1>1. CASE UNCHANGED files
  BY <1>1, SameIsTidy
<1>2. pc[r] \in ScaffoldLabels =>
        /\ out \in Paths /\ Followed(out) \in Paths
        /\ out \notin PlacesRead(setting) /\ Followed(out) \notin PlacesRead(setting)
  <2> SUFFICES ASSUME pc[r] \in ScaffoldLabels
               PROVE  /\ out \in Paths /\ Followed(out) \in Paths
                      /\ out \notin PlacesRead(setting) /\ Followed(out) \notin PlacesRead(setting)
    OBVIOUS
  <2>1. out \in Paths /\ Job(r) # None /\ Job(r).command = "scaffold"
    BY PlacesOf DEF Inv, ProcessInv, JobOf, Suits
  <2>2. Followed(out) \in Paths
    BY <2>1, FollowedIsPath DEF Inv
  <2>3. Followed(out) = out \/ Followed(out) \in Linked
    BY <2>1 DEF Followed, Orderly
  <2> QED BY <2>1, <2>2, <2>3, SourcesAreLeft DEF Inv
<1>3. CASE MakeParent(r)
  <2>1. /\ pc[r] = "parent"
        /\ \/ UNCHANGED files
           \/ CanMakeDirectories(Parent(out)) /\ files' = WithDirectories(Parent(out))
    BY <1>3 DEF MakeParent
  <2>2. Parent(out) \in Seq(STRING) /\ PrefixesOf(Parent(out)) \subseteq Paths
    BY <1>2, <2>1, PathsAbove
  <2> QED BY <1>1, <2>1, <2>2, DirectoriesAreTidy
<1>4. CASE CreateShim(r)
  <2>1. /\ pc[r] = "create"
        /\ \/ UNCHANGED files
           \/ CanOpen(out) /\ files' = Opened(out, Descriptor(out, <<r, out>>))
    BY <1>4, Zenon DEF CreateShim
  <2> QED BY <1>1, <1>2, <2>1, OpeningIsTidy
<1>5. CASE FillShim(r)
  <2>1. pc[r] = "fill" /\ files' = WrittenTo(work[r].fd, Shim(Job(r)))
    BY <1>5 DEF FillShim
  <2>2. work[r].fd \in Runs \X Paths
    BY <2>1 DEF Inv, WorkInv, WorkOf
  <2>3. work[r].fd # None
    BY <2>2, NoneAssumption
  <2> QED BY <2>1, <2>3, WritingIsTidy
<1>6. CASE MakeExecutable(r)
  <2>1. /\ pc[r] = "chmod"
        /\ \/ UNCHANGED files
           \/ files' = [files EXCEPT ![Followed(out)].exec = files[Followed(out)].kind = "file"]
    BY <1>6 DEF MakeExecutable
  <2>2. (files[Followed(out)].kind = "file") \in BOOLEAN
    OBVIOUS
  <2> QED BY <1>1, <1>2, <2>1, <2>2, ModeIsTidy
<1> QED
  BY <1>1, <1>3, <1>4, <1>5, <1>6 DEF ScaffoldStep, CheckRequest, CheckOut, ScaffoldCallFails, CallFails

\* A name in a directory.
LEMMA ParentOfName ==
  ASSUME NEW path \in Seq(STRING), NEW name
  PROVE  /\ Parent(Append(path, name)) = path /\ Last(Append(path, name)) = name
         /\ Append(path, name) \in Seq(STRING) => name \in STRING
<1> DEFINE S == STRING \cup {name}
           whole == Append(path, name)
<1>1. path \in Seq(S) /\ name \in S /\ Len(path) \in Nat
  OBVIOUS
<1> HIDE DEF S
<1>2. /\ whole \in Seq(S) /\ Len(whole) = Len(path) + 1 /\ whole[Len(path) + 1] = name
      /\ \A i \in 1 .. Len(path) : whole[i] = path[i]
  BY <1>1, AppendProperties
<1> HIDE DEF whole
<1>3. /\ SubSeq(whole, 1, Len(path)) \in Seq(STRING) /\ Len(SubSeq(whole, 1, Len(path))) = Len(path)
      /\ \A i \in 1 .. Len(path) : SubSeq(whole, 1, Len(path))[i] = path[i]
  <2>1. \A i \in 1 .. Len(path) : whole[i] \in STRING
    BY <1>2
  <2>2. Len(path) - 1 + 1 = Len(path) /\ (1 <= Len(path) \/ Len(path) = 0)
    BY <1>1
  <2>3. /\ SubSeq(whole, 1, Len(path)) \in Seq(STRING)
        /\ Len(SubSeq(whole, 1, Len(path))) = Len(path)
        /\ \A i \in 1 .. Len(path) - 1 + 1 : SubSeq(whole, 1, Len(path))[i] = whole[1 + i - 1]
    BY <1>1, <2>1, <2>2, SubSeqProperties
  <2> QED BY <1>1, <1>2, <2>2, <2>3
<1>4. SubSeq(whole, 1, Len(path)) = path
  BY <1>3, SeqEqual
<1>5. Len(whole) - 1 = Len(path) /\ Len(path) + 1 \in 1 .. Len(whole)
  BY <1>1, <1>2
<1>6. whole \in Seq(STRING) => name \in STRING
  BY <1>2, <1>5
<1> QED BY <1>2, <1>4, <1>5, <1>6 DEF Parent, Last, whole

LEMMA DocsIsTidy ==
  ASSUME Inv, Orderly(files), ValidRequests, NEW r \in Runs, DocsStep(r)
  PROVE  Tidy
<1> USE DEF DocsLabels
<1> DEFINE out == Job(r).out
<1>1. CASE UNCHANGED files
  BY <1>1, SameIsTidy
<1>2. pc[r] \in DocsLabels =>
        out \in Paths /\ ValidIndex(Job(r).index) /\ Job(r) # None /\ Job(r).command = "docs"
  <2>1. PICK w \in Workloads : setting.job = w.job
    BY DEF Inv, ProcessInv
  <2> QED BY <2>1, PlacesAssumption DEF Inv, ProcessInv, JobOf, Suits, Job, ValidRequests
<1>3. CASE PrepareOutput(r)
  <2>1. /\ pc[r] = "output"
        /\ \/ UNCHANGED files
           \/ CanMakeDirectories(out) /\ files' = WithDirectories(out)
    BY <1>3 DEF PrepareOutput
  <2>2. out \in Seq(STRING) /\ PrefixesOf(out) \subseteq Paths
    BY <1>2, <2>1, PathParts
  <2> QED BY <1>1, <2>1, <2>2, DirectoriesAreTidy
<1>4. CASE Persist(r)
  <2> DEFINE target == TargetNow(Job(r))
             file == Regular(work[r].document)
  <2>1. /\ pc[r] = "persist"
        /\ \/ UNCHANGED files
           \/ /\ Followed(out) = work[r].staged /\ IsDirectory(work[r].staged) /\ files[target].kind # "dir"
              /\ files' = [files EXCEPT ![target] = file]
    BY <1>4 DEF Persist
  <2>2. Followed(out) \in Seq(STRING)
    BY <1>2, <2>1, FollowedIsPath, PathParts DEF Inv
  <2>3. Parent(target) = Followed(out) /\ Last(target) = Last(Target(Job(r)))
    BY <2>2, ParentOfName DEF TargetNow
  <2>4. target \notin PlacesRead(setting)
    BY <1>2, <2>1, <2>3, SourcesAreLeft DEF Inv
  <2>5. file.kind = "file"
    BY DEF Regular, Absent
  <2> HIDE DEF target, file
  <2> QED BY <1>1, <2>1, <2>3, <2>4, <2>5, FileIsTidy
<1> QED
  BY <1>1, <1>3, <1>4
     DEF DocsStep, BeginDocs, DiscoverPattern, TraversalFails, LoadSource, SourceUnreadable,
         CheckTarget, StageDocument, OutputFails, CallFails

LEMMA SchemaIsTidy ==
  ASSUME Inv, Orderly(files), NEW r \in Runs, SchemaStep(r)
  PROVE  Tidy
<1> USE DEF SchemaLabels, WriteLabels
<1> DEFINE public == Public(r)
           temporary == Temporary(public)
<1>1. CASE UNCHANGED files
  BY <1>1, SameIsTidy
<1>2. pc[r] \in WriteLabels =>
        /\ public \in Publics /\ public \in Paths /\ temporary \in Paths
        /\ temporary \notin PlacesRead(setting) /\ Followed(temporary) = temporary
  <2>1. pc[r] \in WriteLabels => public \in Publics
    BY PublicOf DEF Inv
  <2>2. PlacesRead(setting) \cap (Publics \cup Temporaries) = {}
    BY SourcesAreLeft DEF Inv
  <2> HIDE DEF public
  <2>3. public \in Publics =>
          temporary \in Paths /\ temporary \in Temporaries /\ public \in Paths /\ Followed(temporary) = temporary
    BY PublicPlaces, FollowedIsPath DEF Inv
  <2> QED BY <2>1, <2>2, <2>3
<1>3. CASE MakePublicParent(r)
  <2>1. /\ pc[r] = "stage"
        /\ \/ UNCHANGED files
           \/ CanMakeDirectories(Parent(public)) /\ files' = WithDirectories(Parent(public))
    BY <1>3 DEF MakePublicParent
  <2>2. Parent(public) \in Seq(STRING) /\ PrefixesOf(Parent(public)) \subseteq Paths
    BY <1>2, <2>1, PathsAbove
  <2> QED BY <1>1, <2>1, <2>2, DirectoriesAreTidy
<1>4. CASE pc[r] \in WriteLabels /\ files' = Unlinked(temporary)
  BY <1>2, <1>4, UnlinkingIsTidy
<1>5. CASE StageOpens(r)
  <2>1. /\ pc[r] = "open"
        /\ \/ files' = Unlinked(temporary)
           \/ CanOpen(temporary) /\ files' = Opened(temporary, Descriptor(temporary, <<r, temporary>>))
    BY <1>5, Zenon DEF StageOpens
  <2> HIDE DEF temporary
  <2> QED BY <1>2, <1>4, <2>1, OpeningIsTidy
<1>6. CASE StageWrites(r)
  <2>1. pc[r] = "text" /\ files' = WrittenTo(work[r].fd, Text(r))
    BY <1>6 DEF StageWrites
  <2>2. work[r].fd # None
    BY <2>1, StagedFile
  <2> QED BY <2>1, <2>2, WritingIsTidy
<1>7. CASE Publish(r)
  <2>1. /\ pc[r] = "publish"
        /\ \/ files' = Unlinked(temporary)
           \/ CanRename(temporary, public) /\ files' = Renamed(temporary, public)
    BY <1>7, Zenon DEF Publish
  <2>2. PlacesRead(setting) \cap (Publics \cup Temporaries) = {}
    BY SourcesAreLeft DEF Inv
  <2> QED BY <1>2, <1>4, <2>1, <2>2, RenamingIsTidy
<1>8. CASE PublicationFails(r)
  BY <1>1, <1>4, <1>8 DEF PublicationFails
<1> QED
  BY <1>1, <1>3, <1>5, <1>6, <1>7, <1>8
     DEF SchemaStep, BeginSchemas, PrepareContract, PrepareFails, ComparePublic, CheckPublic,
         PublicUnreadable, CallFails

\* Another program puts a file where nothing is below, in a directory.
LEMMA InterfereKeepsOrder ==
  ASSUME Inv, Orderly(files), Interfere
  PROVE  Orderly(files)'
<1>1. PICK w \in Workloads :
        setting = [job |-> w.job, files |-> w.files, contested |-> w.contested, foreign |-> w.foreign]
  BY DEF Inv, ProcessInv
<1>2. PICK path \in w.contested, file \in w.foreign :
        /\ IsDirectory(Parent(path)) /\ files' = [files EXCEPT ![path] = file]
        /\ \A p \in Paths : path \in PrefixesOf(p) \ {p} => files[p] = Absent
  BY <1>1 DEF Interfere
<1>3. \A p \in Paths : files'[p] = IF p = path THEN file ELSE files[p]
  BY <1>2 DEF Orderly
<1>4. DOMAIN files' = Paths /\ \A p \in Paths : FileAt(files'[p], p)
  BY InterfereKeepsFiles DEF FilesInv
<1>5. /\ setting' = setting /\ Linked' = Linked /\ PlacesRead(setting)' = PlacesRead(setting)
      /\ SourcesIn(setting)' = SourcesIn(setting)
  BY DEF Interfere, Linked
<1>6. TreeShaped(files')
  <2> SUFFICES ASSUME NEW p \in Paths, files'[p].kind # "absent", NEW q \in PrefixesOf(Parent(p))
               PROVE  files'[q].kind = "dir"
    BY DEF TreeShaped
  <2>1. q \in Paths /\ q # p /\ q \in PrefixesOf(p)
    BY PathsAbove
  <2>2. CASE p = path
    <3>1. Parent(p) \in Seq(STRING) /\ (Parent(p) # <<>> => Parent(p) \in PrefixesOf(Parent(p)))
      BY PathsAbove, ParentParts
    <3>2. Parent(p) = <<>> \/ Parent(p) \in Paths
      BY <3>1, PathsAbove
    <3>3. files[q].kind = "dir"
      BY <1>2, <2>2, <3>2, AboveDirectory DEF Orderly
    <3> QED BY <1>3, <2>1, <2>2, <3>3
  <2>3. CASE p # path
    <3>1. files[p].kind # "absent"
      BY <1>3, <2>3
    <3>2. files[q].kind = "dir"
      BY <3>1 DEF Orderly, TreeShaped
    <3>3. q # path
      BY <1>2, <2>1, <3>1 DEF Absent
    <3> QED BY <1>3, <2>1, <3>2, <3>3
  <2> QED BY <2>2, <2>3
<1>7. \A p \in Guarded : files'[p].kind # "link"
  <2>1. \A p \in Guarded : p \in w.contested => LinksIn(w.foreign) = {}
    BY PlacesAssumption DEF Guarded
  <2> QED BY <1>2, <1>3, <2>1, GuardedPaths DEF Orderly, LinksIn
<1>8. \A p \in Paths : files'[p].kind = "link" => files'[p].content \in Linked
  BY <1>1, <1>3 DEF Orderly, Linked, LinksIn
<1>9. ASSUME NEW p \in PlacesRead(setting)
      PROVE  files'[p].node = None /\ (files'[p].kind = "file" => files'[p].content.lines \in Scripts)
  <2>1. p \in Paths /\ PlacesRead(setting) = PlacesRead(w)
    BY <1>1, SettingReads DEF PlacesRead
  <2>2. CASE p = path
    <3>1. Settled(file)
      BY WorkloadAssumption
    <3>2. file.kind = "file" => file \in FilesRead(w)
      BY <1>9, <2>1, <2>2 DEF FilesRead
    <3>3. file.kind = "file" => file.content.lines \in Scripts
      BY <3>2, SourcesAssumption
    <3> QED BY <1>3, <2>1, <2>2, <3>1, <3>3 DEF Settled
  <2>3. CASE p # path
    BY <1>3, <2>1, <2>3 DEF Orderly
  <2> QED BY <2>2, <2>3
<1>10. ASSUME NEW p \in SourcesIn(setting), files'[p].kind = "link"
       PROVE  files'[p].content \in PlacesRead(setting)
  <2>1. p \in Paths /\ SourcesIn(setting) = SourcesIn(w) /\ PlacesRead(setting) = PlacesRead(w)
    BY <1>1, SettingReads DEF SourcesIn
  <2>2. CASE p = path
    <3>1. files'[p] = file /\ p \in SourcesIn(w) \cap w.contested
      BY <1>2, <1>3, <1>10, <2>1, <2>2
    <3>2. file \in LinksRead(w)
      BY <1>2, <1>10, <3>1 DEF LinksRead, LinksIn
    <3>3. file.content \in Paths
      BY <1>2, <1>10, <3>1, PlacesAssumption DEF LinksIn
    <3> QED BY <2>1, <3>1, <3>2, <3>3 DEF PlacesRead
  <2>3. CASE p # path
    BY <1>3, <1>10, <2>1, <2>3 DEF Orderly
  <2> QED BY <2>2, <2>3
<1> QED BY <1>4, <1>5, <1>6, <1>7, <1>8, <1>9, <1>10 DEF Orderly

LEMMA InitOrder ==
  ASSUME ToolInit
  PROVE  OrderlyInv
<1>1. PICK w \in Workloads :
        /\ setting = [job |-> w.job, files |-> w.files, contested |-> w.contested, foreign |-> w.foreign]
        /\ files = w.files
  BY DEF ToolInit
<1>2. /\ DOMAIN files = Paths /\ \A p \in Paths : FileAt(files[p], p)
      /\ \A p \in Paths : Settled(files[p]) /\ files[p] \in Range(w.files)
      /\ TreeShaped(files)
  BY <1>1, InitInv, WorkloadAssumption DEF Inv, FilesInv, Range
<1>3. \A p \in Guarded : files[p].kind # "link"
  BY <1>1, PlacesAssumption DEF Guarded
<1>4. \A p \in Paths : files[p].kind = "link" => files[p].content \in Linked
  BY <1>1, <1>2 DEF Linked, LinksIn
<1>5. ASSUME NEW p \in PlacesRead(setting)
      PROVE  files[p].node = None /\ (files[p].kind = "file" => files[p].content.lines \in Scripts)
  <2>1. p \in Paths /\ PlacesRead(setting) = PlacesRead(w)
    BY <1>1, SettingReads DEF PlacesRead
  <2>2. files[p].kind = "file" => files[p] \in FilesRead(w)
    BY <1>1, <1>5, <2>1 DEF FilesRead
  <2>3. files[p].kind = "file" => files[p].content.lines \in Scripts
    BY <2>2, SourcesAssumption
  <2> QED BY <1>2, <2>1, <2>3 DEF Settled
<1>8. ASSUME NEW p \in SourcesIn(setting), files[p].kind = "link"
      PROVE  files[p].content \in PlacesRead(setting)
  <2>1. p \in Paths /\ p \in SourcesIn(w) /\ PlacesRead(setting) = PlacesRead(w)
    BY <1>1, <1>8, SettingReads DEF SourcesIn
  <2>2. files[p] \in LinksRead(w)
    BY <1>1, <1>8, <2>1 DEF LinksRead, LinksIn
  <2>3. files[p].content \in Paths
    BY <1>1, <1>2, <1>8, <2>1, PlacesAssumption DEF LinksIn
  <2> QED BY <2>1, <2>2, <2>3 DEF PlacesRead
<1>6. Orderly(files)
  BY <1>2, <1>3, <1>4, <1>5, <1>8 DEF Orderly
<1>7. \A r \in Runs : seen[r] = files
  BY DEF ToolInit
<1> QED BY <1>6, <1>7 DEF OrderlyInv

LEMMA OrderKept ==
  ASSUME Inv, Inv', OrderlyInv, ValidRequests, [ToolNext]_toolVars
  PROVE  OrderlyInv'
<1>1. CASE UNCHANGED toolVars \/ Ended
  <2>1. files' = files /\ seen' = seen /\ setting' = setting
    BY <1>1 DEF toolVars, Ended
  <2> QED BY <2>1 DEF OrderlyInv, Orderly, Linked
<1>2. ASSUME NEW s \in Runs, StepOf(s)
      PROVE  OrderlyInv'
  <2>1. setting' = setting
    BY <1>2, StepIsLocal DEF Local, Inv
  <2>2. Tidy
    <3>1. CASE Kill(s)
      BY <3>1, SameIsTidy DEF Kill
    <3> QED BY <1>2, <3>1, ScaffoldIsTidy, DocsIsTidy, SchemaIsTidy DEF StepOf, OrderlyInv
  <2>3. Orderly(files)'
    BY <2>1, <2>2, TidyKeepsOrder DEF OrderlyInv, Inv
  <2>4. ASSUME NEW r \in Runs PROVE Orderly(seen[r])'
    <3>1. Orderly(seen[r]) => Orderly(seen[r])' \/ seen'[r] # seen[r]
      BY <2>1 DEF Orderly, Linked
    <3>2. seen'[r] = seen[r] \/ seen'[r] = files'
      BY <1>2, BeginsOrRuns DEF Begin, Inv, ProcessInv, Bookkeeping
    <3> QED BY <2>3, <3>1, <3>2 DEF OrderlyInv, Orderly
  <2> QED BY <2>3, <2>4 DEF OrderlyInv
<1>3. CASE Interfere
  <2>1. setting' = setting /\ seen' = seen
    BY <1>3 DEF Interfere
  <2>2. \A r \in Runs : Orderly(seen[r])'
    BY <2>1 DEF OrderlyInv, Orderly, Linked
  <2> QED BY <1>3, <2>2, InterfereKeepsOrder DEF OrderlyInv
<1> QED BY <1>1, <1>2, <1>3 DEF ToolNext, StepOf
-----------------------------------------------------------------------------
(* A quoted word is read as it was written.                                *)

Quoted(character) == IF character = "'" THEN <<"'", "\\", "'", "'">> ELSE <<character>>

\* A word is quoted character by character.
LEMMA QuotesFollow ==
  ASSUME NEW word, Len(word) \in Nat
  PROVE  \E m : /\ \A i \in 0 .. Len(word) : m[i] = IF i = 0 THEN <<>> ELSE m[i - 1] \o Quoted(word[i])
               /\ SingleQuoted(word) = <<"'">> \o m[Len(word)] \o <<"'">>
<1> DEFINE Next(m, i) == IF i = 0 THEN <<>> ELSE m[i - 1] \o Quoted(word[i])
           Solves(m, n) == m = [i \in 0 .. n |-> Next(m, i)]
           Failing == {n \in 0 .. Len(word) : ~\E m : Solves(m, n)}
           n == Min(Failing)
<1>1. ASSUME Failing # {} PROVE FALSE
  <2>1. n \in Failing /\ \A k \in Failing : n <= k
    <3> HIDE DEF Solves
    <3>1. Failing \in SUBSET Nat
      OBVIOUS
    <3> HIDE DEF Failing
    <3> QED BY <1>1, <3>1, FirstNumber
  <2> HIDE DEF n
  <2>2. CASE n = 0
    <3> DEFINE m == [i \in 0 .. 0 |-> Next(<<>>, 0)]
    <3>1. Solves(m, 0)
      OBVIOUS
    <3> QED BY <2>1, <2>2, <3>1
  <2>3. CASE n # 0
    <3>1. n - 1 \in 0 .. Len(word) /\ n \in 1 .. Len(word) /\ ~(n <= n - 1)
      BY <2>1, <2>3
    <3>2. n - 1 \notin Failing
      BY <2>1, <3>1
    <3>3. PICK m : Solves(m, n - 1)
      BY <3>1, <3>2
    <3> DEFINE e == [i \in 0 .. n |-> IF i = n THEN Next(m, i) ELSE m[i]]
    <3>4. \A i \in 0 .. n - 1 : m[i] = Next(m, i)
      BY <3>1, <3>3
    <3>5. \A i \in 0 .. n - 1 : e[i] = m[i]
      BY <3>1
    <3>6. \A i \in 0 .. n : Next(e, i) = Next(m, i)
      <4> TAKE i \in 0 .. n
      <4>1. i # 0 => i - 1 \in 0 .. n - 1
        BY <3>1
      <4> HIDE DEF e
      <4> QED BY <3>5, <4>1
    <3>7. \A i \in 0 .. n : e[i] = Next(e, i)
      <4> TAKE i \in 0 .. n
      <4>1. i # n => i \in 0 .. n - 1
        BY <3>1
      <4> HIDE DEF Next
      <4> QED BY <3>4, <3>6, <4>1
    <3>8. Solves(e, n)
      <4> HIDE DEF Next
      <4> QED BY <3>7
    <3> QED BY <2>1, <3>8
  <2> QED BY <2>2, <2>3
<1>2. \E m : Solves(m, Len(word))
  <2> HIDE DEF Solves
  <2>1. Len(word) \notin Failing /\ Len(word) \in 0 .. Len(word)
    BY <1>1
  <2> QED BY <2>1
<1> DEFINE chosen == CHOOSE m : Solves(m, Len(word))
<1>3. SingleQuoted(word) = <<"'">> \o chosen[Len(word)] \o <<"'">>
  BY Zenon DEF SingleQuoted, Quoted, Next
<1> HIDE DEF Solves
<1>4. Solves(chosen, Len(word))
  BY <1>2, Zenon
<1> HIDE DEF chosen
<1> USE DEF Solves
<1>5. \A i \in 0 .. Len(word) : chosen[i] = Next(chosen, i)
  <2> HIDE DEF Next
  <2> QED BY <1>4
<1> QED BY <1>3, <1>5

\* A word is read character by character.
LEMMA ReadsFollow ==
  ASSUME NEW word, Len(word) \in Nat
  PROVE  \E m : /\ \A i \in 0 .. Len(word) : m[i] = IF i = 0 THEN [within |-> "word", text |-> <<>>] ELSE AfterCharacter(m[i - 1], word[i])
               /\ ShellWord(word) = m[Len(word)].text
<1> DEFINE Next(m, i) == IF i = 0 THEN [within |-> "word", text |-> <<>>] ELSE AfterCharacter(m[i - 1], word[i])
           Solves(m, n) == m = [i \in 0 .. n |-> Next(m, i)]
           Failing == {n \in 0 .. Len(word) : ~\E m : Solves(m, n)}
           n == Min(Failing)
<1>1. ASSUME Failing # {} PROVE FALSE
  <2>1. n \in Failing /\ \A k \in Failing : n <= k
    <3> HIDE DEF Solves
    <3>1. Failing \in SUBSET Nat
      OBVIOUS
    <3> HIDE DEF Failing
    <3> QED BY <1>1, <3>1, FirstNumber
  <2> HIDE DEF n
  <2>2. CASE n = 0
    <3> DEFINE m == [i \in 0 .. 0 |-> Next(<<>>, 0)]
    <3>1. Solves(m, 0)
      OBVIOUS
    <3> QED BY <2>1, <2>2, <3>1
  <2>3. CASE n # 0
    <3>1. n - 1 \in 0 .. Len(word) /\ n \in 1 .. Len(word) /\ ~(n <= n - 1)
      BY <2>1, <2>3
    <3>2. n - 1 \notin Failing
      BY <2>1, <3>1
    <3>3. PICK m : Solves(m, n - 1)
      BY <3>1, <3>2
    <3> DEFINE e == [i \in 0 .. n |-> IF i = n THEN Next(m, i) ELSE m[i]]
    <3>4. \A i \in 0 .. n - 1 : m[i] = Next(m, i)
      BY <3>1, <3>3
    <3>5. \A i \in 0 .. n - 1 : e[i] = m[i]
      BY <3>1
    <3>6. \A i \in 0 .. n : Next(e, i) = Next(m, i)
      <4> TAKE i \in 0 .. n
      <4>1. i # 0 => i - 1 \in 0 .. n - 1
        BY <3>1
      <4> HIDE DEF e
      <4> QED BY <3>5, <4>1
    <3>7. \A i \in 0 .. n : e[i] = Next(e, i)
      <4> TAKE i \in 0 .. n
      <4>1. i # n => i \in 0 .. n - 1
        BY <3>1
      <4> HIDE DEF Next
      <4> QED BY <3>4, <3>6, <4>1
    <3>8. Solves(e, n)
      <4> HIDE DEF Next
      <4> QED BY <3>7
    <3> QED BY <2>1, <3>8
  <2> QED BY <2>2, <2>3
<1>2. \E m : Solves(m, Len(word))
  <2> HIDE DEF Solves
  <2>1. Len(word) \notin Failing /\ Len(word) \in 0 .. Len(word)
    BY <1>1
  <2> QED BY <2>1
<1> DEFINE chosen == CHOOSE m : Solves(m, Len(word))
<1>3. ShellWord(word) = chosen[Len(word)].text
  BY Zenon DEF ShellWord, Next
<1> HIDE DEF Solves
<1>4. Solves(chosen, Len(word))
  BY <1>2, Zenon
<1> HIDE DEF chosen
<1> USE DEF Solves
<1>5. \A i \in 0 .. Len(word) : chosen[i] = Next(chosen, i)
  <2> HIDE DEF Next
  <2> QED BY <1>4
<1> QED BY <1>3, <1>5

\* The characters of a sequence inside another.
LEMMA SequenceJoins ==
  ASSUME NEW S, NEW s \in Seq(S), NEW t \in Seq(S)
  PROVE  /\ s \o t \in Seq(S) /\ Len(s \o t) = Len(s) + Len(t) /\ Len(s) \in Nat /\ Len(t) \in Nat
         /\ \A i \in 1 .. Len(s) : (s \o t)[i] = s[i]
         /\ \A i \in 1 .. Len(t) : (s \o t)[Len(s) + i] = t[i]
<1>1. s \o t \in Seq(S) /\ Len(s \o t) = Len(s) + Len(t) /\ Len(s) \in Nat /\ Len(t) \in Nat
      /\ \A i \in 1 .. Len(s) : (s \o t)[i] = s[i]
  BY ConcatProperties, LenProperties
<1>2. ASSUME NEW i \in 1 .. Len(t) PROVE (s \o t)[Len(s) + i] = t[i]
  BY ConcatProperties, LenProperties
<1> QED BY <1>1, <1>2

LEMMA ShortSequences ==
  ASSUME NEW S, NEW a \in S, NEW b \in S, NEW c \in S, NEW d \in S
  PROVE  /\ <<a>> \in Seq(S) /\ Len(<<a>>) = 1 /\ <<a>>[1] = a
         /\ <<a, b, c, d>> \in Seq(S) /\ Len(<<a, b, c, d>>) = 4
         /\ <<a, b, c, d>>[1] = a /\ <<a, b, c, d>>[2] = b /\ <<a, b, c, d>>[3] = c
         /\ <<a, b, c, d>>[4] = d
OBVIOUS

\* From state to state at a quote, a backslash or what it escapes.
LEMMA AfterQuotes ==
  ASSUME NEW s
  PROVE  /\ AfterCharacter([within |-> "quotes", text |-> s], "'") = [within |-> "word", text |-> s]
         /\ AfterCharacter([within |-> "word", text |-> s], "'") = [within |-> "quotes", text |-> s]
         /\ AfterCharacter([within |-> "word", text |-> s], "\\") = [within |-> "escape", text |-> s]
         /\ \A c : AfterCharacter([within |-> "escape", text |-> s], c) = [within |-> "word", text |-> Append(s, c)]
         /\ \A c : c # "'" => AfterCharacter([within |-> "quotes", text |-> s], c) = [within |-> "quotes", text |-> Append(s, c)]
<1>1. ASSUME NEW c
      PROVE  AfterCharacter([within |-> "escape", text |-> s], c) = [within |-> "word", text |-> Append(s, c)]
  BY Zenon DEF AfterCharacter
<1>2. ASSUME NEW c, c # "'"
      PROVE  AfterCharacter([within |-> "quotes", text |-> s], c) = [within |-> "quotes", text |-> Append(s, c)]
  BY <1>2, Zenon DEF AfterCharacter
<1> QED BY <1>1, <1>2 DEF AfterCharacter

\* For words of any length, of whatever characters: what a shell makes of the quoted form of a
\* word is the word, so an entry point stays one argument of the shim (single_quote of
\* shell_quote.rs).
THEOREM QuotedIsRead ==
  ASSUME NEW word \in Seq(STRING)
  PROVE  ShellWord(SingleQuoted(word)) = word
<1> DEFINE n == Len(word)
           text == SingleQuoted(word)
           Characters == STRING \cup {"'", "\\"}
<1>0. n \in Nat
  OBVIOUS
<1>1. PICK e : /\ \A i \in 0 .. n : e[i] = IF i = 0 THEN <<>> ELSE e[i - 1] \o Quoted(word[i])
               /\ text = <<"'">> \o e[n] \o <<"'">>
  BY <1>0, QuotesFollow
<1> HIDE DEF text
<1>2. \A c \in STRING : Quoted(c) \in Seq(Characters) /\ Len(Quoted(c)) \in Nat
  <2> SUFFICES ASSUME NEW c \in STRING PROVE Quoted(c) \in Seq(Characters) /\ Len(Quoted(c)) \in Nat
    OBVIOUS
  <2>1. CASE c = "'"
    <3>1. Quoted(c) = <<"'", "\\", "'", "'">>
      BY <2>1 DEF Quoted
    <3>2. "'" \in Characters /\ "\\" \in Characters
      OBVIOUS
    <3>3. <<"'", "\\", "'", "'">> \in Seq(Characters) /\ Len(<<"'", "\\", "'", "'">>) = 4
      BY <3>2, ShortSequences
    <3> QED BY <3>1, <3>3
  <2>2. CASE c # "'"
    <3>1. Quoted(c) = <<c>>
      BY <2>2 DEF Quoted
    <3>2. <<c>> \in Seq(Characters) /\ Len(<<c>>) = 1
      <4>1. c \in Characters
        OBVIOUS
      <4> QED BY <4>1, ShortSequences
    <3> QED BY <3>1, <3>2
  <2> QED BY <2>1, <2>2
<1> HIDE DEF Characters
<1>3. ASSUME NEW i \in 0 .. n - 1, e[i] \in Seq(Characters)
      PROVE  /\ e[i + 1] \in Seq(Characters) /\ Len(e[i + 1]) = Len(e[i]) + Len(Quoted(word[i + 1]))
             /\ Len(e[i]) \in Nat
             /\ \A j \in 1 .. Len(e[i]) : e[i + 1][j] = e[i][j]
             /\ \A j \in 1 .. Len(Quoted(word[i + 1])) : e[i + 1][Len(e[i]) + j] = Quoted(word[i + 1])[j]
  <2>1. word[i + 1] \in STRING
    OBVIOUS
  <2>2. e[i + 1] = e[i] \o Quoted(word[i + 1])
    <3>1. i + 1 \in 0 .. n /\ i + 1 # 0 /\ (i + 1) - 1 = i
      BY <1>0
    <3> QED BY <1>1, <3>1
  <2> DEFINE s == e[i]
             t == Quoted(word[i + 1])
             whole == e[i + 1]
  <2>3. s \in Seq(Characters) /\ t \in Seq(Characters) /\ whole = s \o t
    BY <1>2, <1>3, <2>1, <2>2
  <2> HIDE DEF s, t, whole
  <2>4. /\ whole \in Seq(Characters) /\ Len(whole) = Len(s) + Len(t) /\ Len(s) \in Nat
        /\ \A j \in 1 .. Len(s) : whole[j] = s[j]
        /\ \A j \in 1 .. Len(t) : whole[Len(s) + j] = t[j]
    BY <2>3, SequenceJoins
  <2> QED BY <2>4 DEF s, t, whole
<1>4. \A i \in 0 .. n : e[i] \in Seq(Characters)
  <2> DEFINE Failing == {i \in 0 .. n : e[i] \notin Seq(Characters)}
  <2> SUFFICES ASSUME Failing # {} PROVE FALSE
    OBVIOUS
  <2>1. PICK i \in Failing : \A k \in Failing : i <= k
    <3>1. Failing \in SUBSET Nat
      BY <1>0
    <3> HIDE DEF Failing
    <3> QED BY <3>1, FirstNumber
  <2>2. i # 0
    <3>1. 0 \in 0 .. n
      BY <1>0
    <3>2. e[0] = <<>> /\ <<>> \in Seq(Characters)
      BY <1>1, <3>1
    <3> QED BY <3>2
  <2>3. i - 1 \in 0 .. n - 1 /\ i - 1 \in 0 .. n /\ (i - 1) + 1 = i /\ ~(i <= i - 1)
    BY <1>0, <2>2
  <2>4. e[i - 1] \in Seq(Characters)
    BY <2>1, <2>3
  <2>5. e[(i - 1) + 1] \in Seq(Characters)
    BY <1>3, <2>3, <2>4
  <2> QED BY <2>3, <2>5
<1> DEFINE Prefixed(i) == Len(e[i]) <= Len(e[n]) /\ \A j \in 1 .. Len(e[i]) : e[n][j] = e[i][j]
<1>5. \A i \in 0 .. n : Prefixed(i)
  <2> DEFINE Failing == {k \in 0 .. n : ~Prefixed(n - k)}
  <2>1. ASSUME Failing # {} PROVE FALSE
    <3>1. PICK k \in Failing : \A m \in Failing : k <= m
      <4>1. Failing \in SUBSET Nat
        BY <1>0
      <4> HIDE DEF Failing
      <4> QED BY <2>1, <4>1, FirstNumber
    <3>2. k # 0
      <4>1. Prefixed(n)
        <5>1. Len(e[n]) \in Nat
          BY <1>0, <1>4
        <5> QED BY <5>1
      <4>2. n - 0 = n
        BY <1>0
      <4> QED BY <3>1, <4>1, <4>2
    <3> DEFINE i == n - k
    <3>3. i \in 0 .. n - 1 /\ i \in 0 .. n /\ i + 1 \in 0 .. n /\ k - 1 \in 0 .. n
          /\ n - (k - 1) = i + 1 /\ ~(k <= k - 1)
      BY <1>0, <3>1, <3>2
    <3>4. Prefixed(i + 1)
      BY <3>1, <3>3
    <3>5. ~Prefixed(i)
      BY <3>1
    <3> HIDE DEF i
    <3>6. word[i + 1] \in STRING
      BY <3>3
    <3>7. e[i] \in Seq(Characters) /\ Len(e[n]) \in Nat
      BY <1>0, <1>4, <3>3
    <3>8. /\ Len(e[i + 1]) = Len(e[i]) + Len(Quoted(word[i + 1])) /\ Len(e[i]) \in Nat
          /\ \A j \in 1 .. Len(e[i]) : e[i + 1][j] = e[i][j]
      BY <1>3, <3>3, <3>7
    <3>9. Len(Quoted(word[i + 1])) \in Nat
      BY <1>2, <3>6
    <3> DEFINE a == Len(e[i])
               b == Len(e[i + 1])
               q == Len(Quoted(word[i + 1]))
               z == Len(e[n])
    <3>10. b = a + q /\ a \in Nat /\ q \in Nat /\ z \in Nat /\ b <= z
           /\ (\A j \in 1 .. a : e[i + 1][j] = e[i][j])
           /\ \A j \in 1 .. b : e[n][j] = e[i + 1][j]
      BY <3>4, <3>7, <3>8, <3>9
    <3>11. ~(a <= z /\ \A j \in 1 .. a : e[n][j] = e[i][j])
      BY <3>5
    <3> HIDE DEF a, b, q, z
    <3>12. a <= z /\ \A j \in 1 .. a : j \in 1 .. b
      BY <3>10
    <3> QED BY <3>10, <3>11, <3>12
  <2>2. ASSUME NEW i \in 0 .. n PROVE Prefixed(i)
    <3>1. n - i \in 0 .. n /\ n - (n - i) = i
      BY <1>0
    <3>2. n - i \notin Failing
      <4> HIDE DEF Failing
      <4> QED BY <2>1
    <3>3. Prefixed(n - (n - i))
      <4> HIDE DEF Prefixed
      <4> QED BY <3>1, <3>2
    <3> QED BY <3>1, <3>3
  <2> QED BY <2>2
<1>6. /\ text \in Seq(Characters) /\ Len(text) = Len(e[n]) + 2 /\ text[1] = "'" /\ text[Len(text)] = "'"
      /\ \A j \in 1 .. Len(e[n]) : text[1 + j] = e[n][j]
  <2> USE DEF Characters
  <2>1. e[n] \in Seq(Characters) /\ <<"'">> \in Seq(Characters) /\ Len(<<"'">>) = 1 /\ <<"'">>[1] = "'"
    <3>1. e[n] \in Seq(Characters)
      BY <1>0, <1>4
    <3>2. "'" \in Characters
      OBVIOUS
    <3> QED BY <3>1, <3>2, ShortSequences
  <2> DEFINE start == <<"'">> \o e[n]
  <2>2. /\ start \in Seq(Characters) /\ Len(start) = 1 + Len(e[n]) /\ start[1] = "'" /\ Len(e[n]) \in Nat
        /\ \A j \in 1 .. Len(e[n]) : start[1 + j] = e[n][j]
    BY <2>1, SequenceJoins
  <2> HIDE DEF start
  <2>3. text = start \o <<"'">>
    BY <1>1 DEF start
  <2>4. /\ text \in Seq(Characters) /\ Len(text) = Len(start) + 1
        /\ \A j \in 1 .. Len(start) : text[j] = start[j]
        /\ text[Len(start) + 1] = "'"
    BY <2>1, <2>2, <2>3, SequenceJoins
  <2> DEFINE z == Len(e[n])
             l == Len(start)
             k == Len(text)
  <2>8. l = 1 + z /\ z \in Nat /\ k = l + 1
    BY <2>2, <2>4
  <2>5. 1 \in 1 .. Len(start) /\ \A j \in 1 .. Len(e[n]) : 1 + j \in 1 .. Len(start)
    <3> HIDE DEF z, l, k
    <3>1. 1 \in 1 .. l /\ \A j \in 1 .. z : 1 + j \in 1 .. l
      BY <2>8
    <3> QED BY <3>1 DEF z, l
  <2>9. k = z + 2 /\ k = l + 1
    <3> HIDE DEF z, l, k
    <3> QED BY <2>8
  <2>6. Len(text) = Len(e[n]) + 2 /\ text[1] = "'" /\ text[Len(text)] = "'"
    <3>1. text[1] = start[1]
      BY <2>4, <2>5
    <3>2. text[k] = text[l + 1]
      BY <2>9
    <3> QED BY <2>2, <2>4, <2>9, <3>1, <3>2
  <2>7. \A j \in 1 .. Len(e[n]) : text[1 + j] = e[n][j]
    BY <2>2, <2>4, <2>5
  <2> QED BY <2>4, <2>6, <2>7
<1>7. PICK m : /\ \A i \in 0 .. Len(text) :
                    m[i] = IF i = 0 THEN [within |-> "word", text |-> <<>>]
                           ELSE AfterCharacter(m[i - 1], text[i])
               /\ ShellWord(text) = m[Len(text)].text
  <2>1. Len(text) \in Nat
    BY <1>6
  <2> QED BY <2>1, ReadsFollow, Zenon
<1>8. \A i \in 1 .. Len(text) : m[i] = AfterCharacter(m[i - 1], text[i])
  BY <1>7
<1> DEFINE Read(i) == m[1 + Len(e[i])] = [within |-> "quotes", text |-> SubSeq(word, 1, i)]
<1>9. Read(0)
  <2> DEFINE z == Len(e[n])
             k == Len(text)
  <2>0. z \in Nat /\ k = z + 2
    <3>1. e[n] \in Seq(Characters)
      BY <1>0, <1>4
    <3> QED BY <1>6, <3>1
  <2>1. 0 \in 0 .. n /\ 0 \in 0 .. Len(text) /\ 1 \in 1 .. Len(text)
    <3> HIDE DEF z, k
    <3>1. 0 \in 0 .. n /\ 0 \in 0 .. k /\ 1 \in 1 .. k
      BY <1>0, <2>0
    <3> QED BY <3>1 DEF k
  <2>2. e[0] = <<>> /\ Len(e[0]) = 0
    BY <1>1, <2>1
  <2>3. m[0] = [within |-> "word", text |-> <<>>]
    BY <1>7, <2>1
  <2>4. m[1] = AfterCharacter(m[0], "'")
    <3>1. 1 - 1 = 0
      OBVIOUS
    <3> QED BY <1>6, <1>8, <2>1, <3>1
  <2>5. AfterCharacter(m[0], "'") = [within |-> "quotes", text |-> <<>>]
    BY <2>3 DEF AfterCharacter
  <2>6. SubSeq(word, 1, 0) = <<>>
    BY SubSeqEmpty
  <2> QED BY <2>2, <2>4, <2>5, <2>6
<1>10. ASSUME NEW i \in 0 .. n - 1, Read(i) PROVE Read(i + 1)
  <2> DEFINE at == 1 + Len(e[i])
             so == SubSeq(word, 1, i)
             c == word[i + 1]
             q == Quoted(c)
  <2>1. i \in 0 .. n /\ i + 1 \in 0 .. n /\ i + 1 \in 1 .. n
    BY <1>0
  <2>2. c \in STRING /\ q \in Seq(Characters) /\ Len(q) \in Nat
    <3>1. c \in STRING
      BY <2>1
    <3> HIDE DEF c
    <3> QED BY <1>2, <3>1
  <2>3. /\ Len(e[i]) \in Nat /\ Len(e[i + 1]) = Len(e[i]) + Len(q) /\ Len(e[i + 1]) <= Len(e[n])
        /\ Len(e[n]) \in Nat
        /\ \A j \in 1 .. Len(q) : e[i + 1][Len(e[i]) + j] = q[j]
    <3>1. e[i] \in Seq(Characters) /\ e[n] \in Seq(Characters)
      BY <1>0, <1>4, <2>1
    <3>2. /\ Len(e[i]) \in Nat /\ Len(e[i + 1]) = Len(e[i]) + Len(q)
          /\ \A j \in 1 .. Len(q) : e[i + 1][Len(e[i]) + j] = q[j]
      BY <1>3, <3>1
    <3>3. Len(e[i + 1]) <= Len(e[n])
      BY <1>5, <2>1
    <3>4. Len(e[n]) \in Nat
      BY <3>1
    <3> HIDE DEF q
    <3> QED BY <3>2, <3>3, <3>4
  <2>4. ASSUME NEW j \in 1 .. Len(q)
        PROVE  at + j \in 1 .. Len(text) /\ text[at + j] = q[j]
    <3>1. Len(e[i]) + j \in 1 .. Len(e[i + 1]) /\ Len(e[i]) + j \in 1 .. Len(e[n])
          /\ at + j = 1 + (Len(e[i]) + j)
      <4> DEFINE a == Len(e[i])
                 b == Len(e[i + 1])
                 z == Len(e[n])
                 l == Len(q)
      <4>1. l \in Nat /\ a \in Nat /\ b = a + l /\ b <= z /\ z \in Nat /\ j \in 1 .. l
        BY <2>2, <2>3, <2>4
      <4> HIDE DEF a, b, z, l
      <4>2. a + j \in 1 .. b /\ a + j \in 1 .. z /\ (1 + a) + j = 1 + (a + j)
        BY <4>1
      <4> QED BY <4>2 DEF a, b, z
    <3>2. e[n][Len(e[i]) + j] = e[i + 1][Len(e[i]) + j]
      BY <1>5, <2>1, <3>1
    <3>3. text[1 + (Len(e[i]) + j)] = e[n][Len(e[i]) + j]
      BY <1>6, <3>1
    <3>4. at + j \in 1 .. Len(text)
      <4> DEFINE z == Len(e[n])
                 x == Len(e[i]) + j
                 k == Len(text)
      <4>1. k = z + 2 /\ z \in Nat /\ x \in 1 .. z /\ at + j = 1 + x
        BY <1>6, <2>3, <3>1
      <4> HIDE DEF z, x, k, at
      <4>2. at + j \in 1 .. k
        BY <4>1
      <4> QED BY <4>2 DEF k
    <3> QED BY <2>3, <3>1, <3>2, <3>3, <3>4
  <2>5. m[at] = [within |-> "quotes", text |-> so]
    BY <1>10
  <2>6. SubSeq(word, 1, i + 1) = Append(so, c)
    <3>1. 1 \in 1 .. Len(word) /\ i + 1 \in 1 .. Len(word) /\ (i + 1) - 1 = i
      BY <1>0
    <3>2. SubSeq(word, 1, i + 1) = so \o <<c>>
      <4>1. SubSeq(word, 1, i + 1) = SubSeq(word, 1, (i + 1) - 1) \o <<word[i + 1]>>
        BY <3>1, SubSeqRecursiveSecond
      <4> QED BY <3>1, <4>1
    <3>3. so \in Seq(STRING)
      <4>1. \A j \in 1 .. i : word[j] \in STRING
        BY <1>0
      <4> QED BY <4>1, SubSeqProperties
    <3> QED BY <2>2, <3>2, <3>3, AppendIsConcat
  <2> HIDE DEF q
  <2>7. \A j \in 1 .. Len(q) : m[at + j] = AfterCharacter(m[at + j - 1], q[j])
    <3> SUFFICES ASSUME NEW j \in 1 .. Len(q)
                 PROVE  m[at + j] = AfterCharacter(m[at + j - 1], q[j])
      OBVIOUS
    <3> HIDE DEF at
    <3>1. PICK x : x = at + j /\ x \in 1 .. Len(text) /\ text[x] = q[j]
      BY <2>4
    <3>2. m[x] = AfterCharacter(m[x - 1], text[x])
      BY <1>8, <3>1
    <3>3. m[x] = AfterCharacter(m[x - 1], q[j])
      <4>1. text[x] = q[j]
        BY <3>1
      <4> QED BY <3>2, <4>1, Zenon
    <3>4. x = at + j
      BY <3>1
    <3> HIDE DEF q
    <3>5. m[at + j] = m[x]
      BY <3>4
    <3>6. m[at + j - 1] = m[x - 1]
      <4>1. at \in Nat /\ j \in Nat
        BY <2>2, <2>3 DEF at
      <4> QED BY <3>4, <4>1
    <3>7. m[x] = AfterCharacter(m[at + j - 1], q[j])
      BY <3>3, <3>6, Zenon
    <3> QED BY <3>5, <3>7, Zenon
  <2>8. at \in Nat /\ 1 + Len(e[i + 1]) = at + Len(q)
    BY <2>2, <2>3
  <2> HIDE DEF at, so, c
  <2>9. CASE c # "'"
    <3>1. q = <<c>> /\ Len(q) = 1 /\ q[1] = c
      BY <2>9 DEF Quoted, q
    <3>2. m[at + 1] = AfterCharacter(m[at], c)
      <4>1. 1 \in 1 .. Len(q) /\ at + 1 - 1 = at
        BY <2>8, <3>1
      <4> QED BY <2>7, <3>1, <4>1
    <3>3. AfterCharacter(m[at], c) = [within |-> "quotes", text |-> Append(so, c)]
      BY <2>5, <2>9, AfterQuotes
    <3> QED BY <2>6, <2>8, <3>1, <3>2, <3>3
  <2>10. CASE c = "'"
    <3>1. /\ Len(q) = 4 /\ q[1] = "'" /\ q[2] = "\\" /\ q[3] = "'" /\ q[4] = "'"
      BY <2>10 DEF Quoted, q
    <3>2. at + 1 - 1 = at /\ at + 2 - 1 = at + 1 /\ at + 3 - 1 = at + 2 /\ at + 4 - 1 = at + 3
          /\ 1 \in 1 .. Len(q) /\ 2 \in 1 .. Len(q) /\ 3 \in 1 .. Len(q) /\ 4 \in 1 .. Len(q)
      BY <2>8, <3>1
    <3>3. /\ m[at + 1] = AfterCharacter(m[at], "'") /\ m[at + 2] = AfterCharacter(m[at + 1], "\\")
          /\ m[at + 3] = AfterCharacter(m[at + 2], "'") /\ m[at + 4] = AfterCharacter(m[at + 3], "'")
      BY <2>7, <3>1, <3>2
    <3>4. m[at + 1] = [within |-> "word", text |-> so]
      BY <2>5, <3>3, AfterQuotes
    <3>5. m[at + 2] = [within |-> "escape", text |-> so]
      BY <3>3, <3>4, AfterQuotes
    <3>6. m[at + 3] = [within |-> "word", text |-> Append(so, c)]
      <4>1. AfterCharacter([within |-> "escape", text |-> so], c)
              = [within |-> "word", text |-> Append(so, c)]
        BY AfterQuotes
      <4>2. m[at + 3] = AfterCharacter([within |-> "escape", text |-> so], "'")
        BY <3>3, <3>5
      <4> QED BY <2>10, <4>1, <4>2
    <3>7. m[at + 4] = [within |-> "quotes", text |-> Append(so, c)]
      BY <3>3, <3>6, AfterQuotes
    <3> QED BY <2>6, <2>8, <3>1, <3>7
  <2> QED BY <2>9, <2>10
<1>11. Read(n)
  <2> DEFINE Failing == {i \in 0 .. n : ~Read(i)}
  <2>1. ASSUME Failing # {} PROVE FALSE
    <3>1. PICK i \in Failing : \A k \in Failing : i <= k
      <4>1. Failing \in SUBSET Nat
        BY <1>0
      <4> HIDE DEF Failing
      <4> QED BY <2>1, <4>1, FirstNumber
    <3>2. i # 0
      BY <1>9, <3>1
    <3>3. i - 1 \in 0 .. n - 1 /\ i - 1 \in 0 .. n /\ (i - 1) + 1 = i /\ ~(i <= i - 1)
      BY <1>0, <3>1, <3>2
    <3> HIDE DEF Read
    <3>4. Read(i - 1)
      BY <3>1, <3>3
    <3>5. Read((i - 1) + 1)
      BY <1>10, <3>3, <3>4
    <3> QED BY <3>1, <3>3, <3>5
  <2>2. n \in 0 .. n
    BY <1>0
  <2> HIDE DEF Read
  <2> QED BY <2>1, <2>2
<1>12. m[Len(text)].text = SubSeq(word, 1, n)
  <2> DEFINE z == Len(e[n])
             k == Len(text)
  <2>0. z \in Nat /\ k = z + 2
    <3>1. e[n] \in Seq(Characters)
      BY <1>0, <1>4
    <3> QED BY <1>6, <3>1
  <2>1. Len(text) - 1 = 1 + Len(e[n]) /\ Len(text) \in 1 .. Len(text)
    <3> HIDE DEF z, k
    <3>1. k - 1 = 1 + z /\ k \in 1 .. k
      BY <2>0
    <3> QED BY <3>1 DEF z, k
  <2>2. m[Len(text)] = AfterCharacter(m[1 + Len(e[n])], "'")
    BY <1>6, <1>8, <2>1
  <2> QED BY <1>11, <2>2 DEF AfterCharacter
<1> QED BY <1>7, <1>12, SubSeqFull DEF text
-----------------------------------------------------------------------------
(* One step of a command that nothing disturbs.                            *)

LEMMA MetStays ==
  ASSUME Inv, NEW r \in Runs, met'[r] = {}
  PROVE  ~CallFails(r) /\ ~Kill(r) /\ ~(met' = [met EXCEPT ![r] = @ \cup {"failure"}])
BY DEF Inv, ProcessInv, Bookkeeping, CallFails, Kill

\* A step of another process, and a failure or a replacement, would be met.
LEMMA QuietMove ==
  ASSUME Inv, Known, [ToolNext]_toolVars, NEW r \in Runs, Active(r), met'[r] = {}
  PROVE  /\ met[r] = {}
         /\ \/ UNCHANGED toolVars
            \/ (ScaffoldStep(r) \/ SchemaStep(r) \/ DocsStep(r)) /\ seen' = seen
<1>1. UNCHANGED toolVars \/ (StepOf(r) /\ seen' = seen)
  BY AloneWhileLone DEF Lone, Inv
<1>2. CASE UNCHANGED toolVars
  BY <1>2 DEF toolVars
<1>3. CASE StepOf(r) /\ seen' = seen
  <2>1. met[r] \subseteq met'[r]
    BY <1>3, BeginsOrRuns DEF Inv, Active
  <2> QED BY <1>3, <2>1, MetStays DEF StepOf
<1> QED BY <1>1, <1>2, <1>3

-----------------------------------------------------------------------------
(* The scaffold.                                                           *)

LEMMA ShimPlace ==
  ASSUME Inv, NEW r \in Runs, pc[r] \in ScaffoldLabels
  PROVE  /\ Job(r).out \in Paths /\ Job(r).entry \in Seq(STRING)
         /\ Parent(Job(r).out) = <<>> \/ Parent(Job(r).out) \in PrefixesOf(Parent(Job(r).out))
         /\ PrefixesOf(Parent(Job(r).out)) \subseteq Paths
         /\ PrefixesOf(Parent(Job(r).out)) \subseteq PrefixesOf(Job(r).out)
         /\ Job(r).out \notin PrefixesOf(Parent(Job(r).out))
<1>1. Job(r).out \in Paths
  BY PlacesOf DEF Inv
<1>2. Job(r).entry \in Seq(STRING)
  <2>1. PICK w \in Workloads :
          setting = [job |-> w.job, files |-> w.files, contested |-> w.contested, foreign |-> w.foreign]
    BY DEF Inv, ProcessInv
  <2>2. w.job[r] # None /\ w.job[r].command = "scaffold" /\ Job(r) = w.job[r]
    BY <2>1 DEF Inv, ProcessInv, JobOf, Suits, Job
  <2>3. w.job[r].entry \in Seq(STRING)
    BY <2>2, PlacesAssumption
  <2> QED BY <2>2, <2>3
<1>3. Parent(Job(r).out) \in Seq(STRING)
  BY <1>1, PathsAbove
<1>4. Parent(Job(r).out) = <<>> \/ Parent(Job(r).out) \in PrefixesOf(Parent(Job(r).out))
  BY <1>3, ParentParts
<1> QED BY <1>1, <1>2, <1>4, PathsAbove

\* A request that has passed the checks of its output is neither refused nor below a file.
LEMMA PolicyPassed ==
  ASSUME NEW request, NEW before, Violations(request) = {},
         ~BelowFile(before, request.out), ~OutRefused(request, before[request.out]),
         request.template \in BuiltinTemplates
  PROVE  ~ScaffoldRefusal(request, before)
BY DEF ScaffoldRefusal, OutRefused

LEMMA ShimChecks ==
  ASSUME Inv, NEW r \in Runs, CheckOut(r), ScaffoldSoFar(r), seen' = seen
  PROVE  /\ pc'[r] # "exited" => ScaffoldSoFar(r)'
         /\ pc'[r] = "exited" => ScaffoldPromise(Job(r), exit'[r].code, seen[r], files')
<1> DEFINE request == Job(r)
           before == seen[r]
<1>1. /\ pc[r] = "policy" /\ files' = files /\ setting' = setting /\ work' = work
      /\ DOMAIN pc = Runs /\ DOMAIN exit = Runs
  BY DEF CheckOut, Undisturbed, Inv, ProcessInv
<1>2. files = before /\ Violations(request) = {}
  BY <1>1 DEF ScaffoldSoFar
<1>3. Job(r)' = Job(r)
  BY <1>1 DEF Job
<1>4. CASE BelowFile(files, request.out)
  <2>1. pc'[r] = "exited" /\ exit'[r].code = 3
    BY <1>1, <1>4 DEF CheckOut, ExitWith, Goto
  <2> QED BY <1>1, <1>2, <1>4, <2>1 DEF ScaffoldPromise
<1>5. CASE ~BelowFile(files, request.out) /\ (OutRefused(request, files[request.out]) \/ request.template \notin BuiltinTemplates)
  <2>1. pc'[r] = "exited" /\ exit'[r].code = 2
    BY <1>1, <1>5 DEF CheckOut, ExitWith, Goto
  <2>2. ScaffoldRefusal(request, before)
    BY <1>2, <1>5 DEF ScaffoldRefusal, OutRefused
  <2> QED BY <1>1, <1>2, <1>5, <2>1, <2>2 DEF ScaffoldPromise
<1>6. CASE ~BelowFile(files, request.out) /\ ~OutRefused(request, files[request.out]) /\ request.template \in BuiltinTemplates
  <2>1. pc'[r] = "parent"
    BY <1>1, <1>6 DEF CheckOut, Goto
  <2> QED BY <1>1, <1>2, <1>3, <1>6, <2>1 DEF ScaffoldSoFar
<1> QED BY <1>4, <1>5, <1>6

LEMMA ShimDirectory ==
  ASSUME Inv, NEW r \in Runs, MakeParent(r), ScaffoldSoFar(r), seen' = seen
  PROVE  /\ pc'[r] # "exited" => ScaffoldSoFar(r)'
         /\ pc'[r] = "exited" => ScaffoldPromise(Job(r), exit'[r].code, seen[r], files')
<1> DEFINE request == Job(r)
           out == request.out
           before == seen[r]
<1>1. /\ pc[r] = "parent" /\ setting' = setting /\ work' = work
      /\ DOMAIN pc = Runs /\ DOMAIN exit = Runs
  BY DEF MakeParent, Undisturbed, Inv, ProcessInv
<1>2. /\ files = before /\ Violations(request) = {}
      /\ ~BelowFile(before, out) /\ ~OutRefused(request, before[out]) /\ request.template \in BuiltinTemplates
  BY <1>1 DEF ScaffoldSoFar
<1>3. Job(r)' = Job(r)
  BY <1>1 DEF Job
<1>4. CASE CanMakeDirectories(Parent(out))
  <2>1. pc'[r] = "create" /\ files' = WithDirectories(Parent(out))
    BY <1>1, <1>4 DEF MakeParent, Goto
  <2>2. out \in Paths /\ out \notin PrefixesOf(Parent(out))
    BY <1>1, ShimPlace DEF ScaffoldLabels
  <2>3. files'[out] = before[out] /\ files' = Made(before, Parent(out))
    BY <1>2, <2>1, <2>2 DEF WithDirectories, Made
  <2>4. \A p \in PrefixesOf(Parent(out)) : before[p].kind \in {"absent", "dir"}
    BY <1>2, <1>4 DEF CanMakeDirectories
  <2> QED BY <1>1, <1>2, <1>3, <2>1, <2>3, <2>4 DEF ScaffoldSoFar
<1>5. CASE ~CanMakeDirectories(Parent(out))
  <2>1. pc'[r] = "exited" /\ exit'[r].code = 3
    BY <1>1, <1>5 DEF MakeParent, ExitWith, Goto
  <2>2. ~ScaffoldRefusal(request, before)
    BY <1>2, PolicyPassed
  <2>3. \E p \in PrefixesOf(Parent(out)) : before[p].kind \notin {"absent", "dir"}
    BY <1>2, <1>5 DEF CanMakeDirectories
  <2> QED BY <1>2, <2>1, <2>2, <2>3 DEF ScaffoldPromise
<1> QED BY <1>4, <1>5

LEMMA ShimOpened ==
  ASSUME Inv, OrderlyInv, NEW r \in Runs, CreateShim(r), ScaffoldSoFar(r), seen' = seen
  PROVE  pc'[r] # "exited" /\ ScaffoldSoFar(r)'
<1> DEFINE request == Job(r)
           out == request.out
           before == seen[r]
           node == Descriptor(out, <<r, out>>)
<1>1. /\ pc[r] = "create" /\ setting' = setting
      /\ DOMAIN pc = Runs /\ DOMAIN work = Runs
  BY DEF CreateShim, Undisturbed, Inv, ProcessInv, Bookkeeping
<1>2. /\ Violations(request) = {}
      /\ ~BelowFile(before, out) /\ ~OutRefused(request, before[out]) /\ request.template \in BuiltinTemplates
      /\ \A p \in PrefixesOf(Parent(out)) : before[p].kind \in {"absent", "dir"}
      /\ \A p \in Paths \ {out} : files[p] = Made(before, Parent(out))[p]
      /\ files[out] = before[out]
  BY <1>1 DEF ScaffoldSoFar
<1>3. Job(r)' = Job(r)
  BY <1>1 DEF Job
<1>4. /\ out \in Paths /\ out \notin PrefixesOf(Parent(out)) /\ PrefixesOf(Parent(out)) \subseteq Paths
      /\ Parent(out) = <<>> \/ Parent(out) \in PrefixesOf(Parent(out))
  BY <1>1, ShimPlace DEF ScaffoldLabels
<1>5. DOMAIN files = Paths /\ (\A p \in Paths : FileAt(before[p], p))
  BY DEF OrderlyInv, Orderly
<1>6. before[out].kind \in {"absent", "file"}
  BY <1>2, <1>4, <1>5 DEF OutRefused, FileAt, Kinds
<1>7. Followed(out) = out /\ files[out].kind \in {"absent", "file"}
  BY <1>2, <1>6 DEF Followed
<1>8. IsDirectory(Parent(out))
  <2>1. CASE Parent(out) \in PrefixesOf(Parent(out))
    <3>1. files[Parent(out)] = Made(before, Parent(out))[Parent(out)] /\ Parent(out) \in Paths
      BY <1>2, <1>4, <2>1
    <3>2. Made(before, Parent(out))[Parent(out)].kind = "dir"
      BY <1>2, <1>5, <2>1, <3>1 DEF Made, FileAt, Directory
    <3> QED BY <3>1, <3>2 DEF IsDirectory
  <2>2. CASE Parent(out) = <<>>
    BY <2>2 DEF IsDirectory
  <2> QED BY <1>4, <2>1, <2>2
<1>9. CanOpen(out)
  BY <1>7, <1>8 DEF CanOpen
<1>10. /\ files' = Opened(out, node) /\ work' = [work EXCEPT ![r] = [fd |-> node]]
       /\ pc' = [pc EXCEPT ![r] = "fill"]
  BY <1>9, Zenon DEF CreateShim, Goto
<1>11. /\ files'[out].kind = "file" /\ files'[out].node = node
       /\ \A p \in Paths \ {out} : files'[p] = files[p]
  <2>1. files' = [files EXCEPT ![out] = [files[out] EXCEPT !.kind = "file", !.content = Torn, !.node = node]]
    BY <1>7, <1>10 DEF Opened
  <2>2. DOMAIN files[out] = {"kind", "content", "node", "exec"}
    BY <1>2, <1>4, <1>5 DEF FileAt, Absent
  <2> HIDE DEF node
  <2> QED BY <1>4, <1>5, <2>1, <2>2
<1>12. pc'[r] = "fill" /\ work'[r].fd = node
  <2> HIDE DEF node
  <2> QED BY <1>1, <1>10
<1> HIDE DEF node
<1> QED BY <1>2, <1>3, <1>11, <1>12 DEF ScaffoldSoFar

LEMMA ShimFilled ==
  ASSUME Inv, NEW r \in Runs, FillShim(r), ScaffoldSoFar(r), seen' = seen
  PROVE  pc'[r] # "exited" /\ ScaffoldSoFar(r)'
<1> DEFINE request == Job(r)
           out == request.out
           before == seen[r]
           shim == Shim(Job(r))
<1>1. /\ pc[r] = "fill" /\ setting' = setting /\ work' = work /\ pc'[r] = "chmod"
      /\ files' = WrittenTo(work[r].fd, shim)
  BY DEF FillShim, Undisturbed, Inv, ProcessInv, Goto
<1>2. Job(r)' = Job(r) /\ shim = Shim(request)
  BY <1>1 DEF Job
<1> HIDE DEF shim
<1>3. work[r].fd # None
  <2>1. work[r].fd \in Runs \X Paths
    BY <1>1 DEF Inv, WorkInv, WorkOf
  <2> QED BY <2>1, NoneAssumption
<1>4. out \in Paths /\ files[out].kind = "file" /\ files[out].node = work[r].fd
  BY <1>1, ShimPlace DEF ScaffoldSoFar, ScaffoldLabels
<1>5. \A p \in Paths \ {out} : files'[p] = files[p]
  <2>1. \A p \in Paths \ {out} : files[p].node # work[r].fd
    BY <1>3, <1>4 DEF Inv, FilesInv
  <2> QED BY <1>1, <2>1 DEF WrittenTo
<1>6. files'[out].kind = "file" /\ files'[out].node = work[r].fd /\ files'[out].content = shim
  <2>1. files'[out] = [files[out] EXCEPT !.content = shim]
    BY <1>1, <1>4 DEF WrittenTo
  <2>2. DOMAIN files[out] = {"kind", "content", "node", "exec"}
    BY <1>4 DEF Inv, FilesInv, FileAt, Absent
  <2> QED BY <1>4, <2>1, <2>2
<1> QED BY <1>1, <1>2, <1>5, <1>6 DEF ScaffoldSoFar

LEMMA ShimDone ==
  ASSUME Inv, OrderlyInv, NEW r \in Runs, MakeExecutable(r), ScaffoldSoFar(r)
  PROVE  pc'[r] = "exited" /\ ScaffoldPromise(Job(r), exit'[r].code, seen[r], files')
<1> DEFINE request == Job(r)
           out == request.out
           before == seen[r]
<1>1. pc[r] = "chmod"
  BY DEF MakeExecutable
<1>2. /\ out \in Paths /\ request.entry \in Seq(STRING) /\ PrefixesOf(Parent(out)) \subseteq PrefixesOf(out)
      /\ DOMAIN files = Paths /\ DOMAIN files[out] = {"kind", "content", "node", "exec"}
  BY <1>1, ShimPlace DEF ScaffoldLabels, Inv, FilesInv, FileAt, Absent
<1>3. /\ Violations(request) = {}
      /\ ~BelowFile(before, out) /\ ~OutRefused(request, before[out]) /\ request.template \in BuiltinTemplates
      /\ \A p \in PrefixesOf(Parent(out)) : before[p].kind \in {"absent", "dir"}
      /\ \A p \in Paths \ {out} : files[p] = Made(before, Parent(out))[p]
      /\ files[out].kind = "file" /\ files[out].content = Shim(request)
  BY <1>1 DEF ScaffoldSoFar
<1>4. Followed(out) = out
  BY <1>3 DEF Followed
<1>5. /\ pc'[r] = "exited" /\ exit'[r].code = 0
      /\ files' = [files EXCEPT ![out].exec = files[out].kind = "file"]
  BY <1>3, <1>4 DEF MakeExecutable, ExitWith, Goto, Inv, ProcessInv
<1>6. /\ files'[out].kind = "file" /\ files'[out].exec /\ files'[out].content = Shim(request)
      /\ \A p \in Paths \ {out} : files'[p] = files[p]
  BY <1>2, <1>3, <1>5
<1>7. IsShim(request, files'[out])
  <2>1. ShellWord(SingleQuoted(request.entry)) = request.entry
    BY <1>2, QuotedIsRead
  <2> QED BY <1>6, <2>1 DEF IsShim, Shim
<1>8. \A p \in Paths \ {out} :
        files'[p] = before[p] \/ (p \in PrefixesOf(out) /\ files'[p] = Directory)
  BY <1>2, <1>3, <1>6 DEF Made
<1>9. ~ScaffoldRefusal(request, before)
  BY <1>3, PolicyPassed
<1>10. ScaffoldPromise(request, 0, before, files')
  <2>1. ~\E p \in PrefixesOf(Parent(out)) : before[p].kind \notin {"absent", "dir"}
    BY <1>3
  <2> HIDE DEF request, before
  <2> QED BY <1>3, <1>7, <1>8, <1>9, <2>1 DEF ScaffoldPromise
<1> QED BY <1>5, <1>10

LEMMA ScaffoldGoesOn ==
  ASSUME Inv, OrderlyInv, NEW r \in Runs, ScaffoldStep(r), Active(r), met'[r] = {}, seen' = seen,
         ScaffoldSoFar(r)
  PROVE  /\ pc'[r] # "exited" => ScaffoldSoFar(r)'
         /\ pc'[r] = "exited" => ScaffoldPromise(Job(r), exit'[r].code, seen[r], files')
<1>1. ~CheckRequest(r) /\ ~ScaffoldCallFails(r)
  BY MetStays DEF CheckRequest, Begin, Active, ScaffoldCallFails
<1> QED
  BY <1>1, ShimChecks, ShimDirectory, ShimOpened, ShimFilled, ShimDone DEF ScaffoldStep

LEMMA ScaffoldBegins ==
  ASSUME Inv, NEW r \in Runs, CheckRequest(r)
  PROVE  /\ pc'[r] \notin {"start", "exited"} => ScaffoldSoFar(r)'
         /\ pc'[r] = "exited" => ScaffoldPromise(Job(r), exit'[r].code, seen'[r], files')
<1>1. /\ files' = files /\ setting' = setting /\ DOMAIN pc = Runs /\ DOMAIN exit = Runs
      /\ files' = seen'[r]
  BY BeginLeavesUntouched DEF CheckRequest, Inv, ProcessInv
<1>2. Job(r)' = Job(r)
  BY <1>1 DEF Job
<1>3. CASE Violations(Job(r)) # {}
  <2>1. pc'[r] = "exited" /\ exit'[r].code = 2
    BY <1>1, <1>3 DEF CheckRequest, ExitWith, Goto
  <2>2. ScaffoldRefusal(Job(r), seen'[r])
    BY <1>3 DEF ScaffoldRefusal
  <2> QED BY <1>1, <1>3, <2>1, <2>2 DEF ScaffoldPromise
<1>4. CASE Violations(Job(r)) = {}
  <2>1. pc'[r] = "policy"
    BY <1>1, <1>4 DEF CheckRequest, Goto
  <2> QED BY <1>1, <1>2, <1>4, <2>1 DEF ScaffoldSoFar
<1> QED BY <1>3, <1>4
-----------------------------------------------------------------------------
(* The schemas.                                                            *)

LEMMA ContractPlaces ==
  ASSUME NEW n \in Numbers, NEW public, public = Contracts[n].public
  PROVE  /\ n \in Nat /\ public \in Publics /\ public \in Paths /\ Temporary(public) \in Temporaries
         /\ Temporary(public) \in Paths /\ Temporary(public) \notin Publics
         /\ Contracts[n].internal \in Paths
         /\ \A m \in Numbers : m # n =>
              /\ Contracts[m].public # public /\ Temporary(Contracts[m].public) # Temporary(public)
              /\ Temporary(Contracts[m].public) # public /\ Contracts[m].public # Temporary(public)
         /\ PrefixesOf(Parent(public)) \subseteq Paths \cap Guarded \cap PrefixesOf(public)
         /\ PrefixesOf(Parent(public)) \cap (Publics \cup Temporaries) = {}
         /\ public \in Guarded /\ Temporary(public) \in Guarded
         /\ Parent(Temporary(public)) = Parent(public)
         /\ Parent(public) = <<>> \/ Parent(public) \in PrefixesOf(Parent(public))
<1>1. public \in Publics /\ n \in Nat
  BY NumbersFacts DEF Publics
<1>2. public \in Paths /\ Temporary(public) \in Temporaries /\ Temporary(public) \in Paths
  BY <1>1, PublicPlaces
<1>3. Contracts[n].internal \in Paths /\ Temporary(public) \notin Publics
  <2> DEFINE R == [internal : Paths, public : Paths, locations : SUBSET Seq(STRING)]
  <2>3. Contracts \in Seq(R) /\ n \in 1 .. Len(Contracts)
    BY ContractsAssumption, NumbersFacts
  <2>1. Contracts[n] \in R
    <3> HIDE DEF R
    <3> QED BY <2>3
  <2>2. Contracts[n].internal \in Paths
    BY <2>1
  <2> QED BY <1>2, <2>2, ContractsAssumption
<1>4. ASSUME NEW m \in Numbers, m # n
      PROVE  /\ Contracts[m].public # public /\ Temporary(Contracts[m].public) # Temporary(public)
             /\ Temporary(Contracts[m].public) # public /\ Contracts[m].public # Temporary(public)
  <2>1. Contracts[m].public \in Publics /\ Contracts[m].public # public
    BY <1>4, ContractsAssumption DEF Publics
  <2>2. Temporary(Contracts[m].public) # Temporary(public)
    BY <1>1, <2>1, ContractsAssumption
  <2>3. Temporary(Contracts[m].public) \in Temporaries
    BY <2>1, PublicPlaces
  <2> QED BY <1>1, <1>2, <1>3, <2>1, <2>2, <2>3, ContractsAssumption
<1>5. /\ Parent(public) \in Seq(STRING) /\ PrefixesOf(Parent(public)) \subseteq Paths
      /\ PrefixesOf(Parent(public)) \subseteq PrefixesOf(public)
  BY <1>2, PathsAbove
<1>6. PrefixesOf(public) \subseteq Guarded
  BY <1>1 DEF Guarded
<1>7. PrefixesOf(Parent(public)) \cap (Publics \cup Temporaries) = {}
  BY <1>2, PublishedAssumption
<1>8. public \in Guarded /\ Temporary(public) \in Guarded
  BY <1>1, <1>2, StagedPrefixes DEF Guarded
<1>9. Parent(Temporary(public)) = Parent(public)
  BY <1>1, ParentOfTemporary
<1>10. Parent(public) = <<>> \/ Parent(public) \in PrefixesOf(Parent(public))
  BY <1>5, ParentParts
<1> QED BY <1>1, <1>2, <1>3, <1>4, <1>5, <1>6, <1>7, <1>8, <1>9, <1>10

LEMMA DefectCases ==
  ASSUME NEW contract, NEW file
  PROVE  Defect(contract, file) \in {"none", "unreadable", "not_utf8", "malformed", "annotations"}
BY Zenon DEF Defect

\* An unreadable schema is reported before all other defects.
LEMMA ReportedCode ==
  ASSUME NEW defects, defects # {}, defects \subseteq Range(Severities)
  PROVE  SourceCode(Reported(defects)) = IF "unreadable" \in defects THEN 4 ELSE 3
<1> DEFINE S == {i \in DOMAIN Severities : Severities[i] \in defects}
<1>1. /\ DOMAIN Severities = 1 .. 4 /\ Severities[1] = "unreadable"
      /\ CategoryCode.filesystem = 4 /\ CategoryCode.input = 3
  BY DEF Severities, CategoryCode
<1>2. CASE "unreadable" \in defects
  <2>1. 1 \in S /\ \A i \in S : i >= 1 /\ i \in Nat
    BY <1>1, <1>2
  <2>2. Min(S) = 1
    <3> HIDE DEF S
    <3>1. Min(S) \in S /\ \A i \in S : Min(S) <= i
      <4>1. \E x \in S : \A y \in S : x <= y
        BY <2>1
      <4> QED BY <4>1, Zenon DEF Min
    <3> QED BY <2>1, <3>1
  <2>3. Reported(defects) = "unreadable"
    BY <1>1, <2>2 DEF Reported
  <2> QED BY <1>1, <1>2, <2>3 DEF SourceCode
<1>3. CASE "unreadable" \notin defects
  <2>1. Reported(defects) # "unreadable"
    BY <1>3, ReportedIsMet
  <2> QED BY <1>1, <1>3, <2>1 DEF SourceCode
<1> QED BY <1>2, <1>3

\* Every member of a sequence and of what is appended to it.
LEMMA AppendMembers ==
  ASSUME NEW k \in Nat \ {0}, NEW s, Filled(s, k - 1), NEW text
  PROVE  Append(s, text)[k] = text /\ \A i \in 1 .. k - 1 : Append(s, text)[i] = s[i]
<1> DEFINE S == {s[i] : i \in 1 .. k - 1} \cup {text}
           n == k - 1
<1>1. n \in Nat /\ n + 1 = k /\ s = [i \in 1 .. n |-> s[i]]
  BY DEF Filled
<1>2. s \in [1 .. n -> S] /\ text \in S
  BY <1>1
<1> HIDE DEF S, n
<1>3. s \in Seq(S) /\ Len(s) = n
  BY <1>1, <1>2
<1>4. /\ \A i \in 1 .. n : Append(s, text)[i] = s[i]
      /\ Append(s, text)[n + 1] = text
  BY <1>2, <1>3, AppendProperties
<1> QED BY <1>1, <1>4 DEF n

LEMMA SchemasPrepared ==
  ASSUME Inv, NEW r \in Runs, PrepareContract(r), SchemaSoFar(r), seen' = seen
  PROVE  /\ pc'[r] # "exited" => SchemaSoFar(r)'
         /\ pc'[r] = "exited" => SchemaPromise(Job(r), exit'[r].code, seen[r], files')
<1> DEFINE before == seen[r]
           w == work[r]
           contract == Contracts[w.at]
           file == files[contract.internal]
           defect == Defect(contract, file)
           text == IF defect = "none" THEN PublicText(file.content) ELSE None
           v == [w EXCEPT !.texts = Append(@, text), !.defects = @ \cup {defect}]
           wrong == v.defects \ {"none"}
<1>1. /\ pc[r] = "prepare" /\ Prepared(r, defect, text) /\ files' = files /\ setting' = setting
      /\ DOMAIN pc = Runs /\ DOMAIN exit = Runs /\ DOMAIN work = Runs
  BY DEF PrepareContract, Undisturbed, Inv, ProcessInv, Bookkeeping
<1>2. /\ SchemaWork(w) /\ w.at \in 1 .. Len(Contracts) /\ Len(Contracts) \in Nat /\ Numbers = 1 .. Len(Contracts)
      /\ Filled(w.texts, w.at - 1) /\ Job(r).command \in {"gen", "check"}
  BY <1>1, NumbersFacts DEF Inv, WorkInv, WorkOf, SchemaWork, SchemaLabels, ProcessInv, JobOf, Suits
<1>3. /\ files = before /\ w.stale = {}
      /\ w.defects = {DefectAt(before, n) : n \in 1 .. w.at - 1}
      /\ \A n \in 1 .. w.at - 1 : DefectAt(before, n) = "none" => w.texts[n] = WantedAt(before, n)
  BY <1>1 DEF SchemaSoFar
<1>4. Job(r)' = Job(r)
  BY <1>1 DEF Job
<1>5. /\ DOMAIN v = DOMAIN w /\ v.at = w.at /\ v.stale = w.stale
      /\ v.texts = Append(w.texts, text) /\ v.defects = w.defects \cup {defect}
  <2> HIDE DEF defect, text
  <2> QED BY <1>2 DEF SchemaWork
<1>6. defect = DefectAt(before, w.at) /\ (defect = "none" => text = WantedAt(before, w.at))
  BY <1>3 DEF DefectAt, WantedAt
<1>7. /\ (w.at < Len(Contracts) =>
            /\ work' = [work EXCEPT ![r] = [v EXCEPT !.at = w.at + 1]]
            /\ UNCHANGED <<pc, exit>>)
      /\ (~(w.at < Len(Contracts)) =>
            /\ work' = [work EXCEPT ![r] = [v EXCEPT !.at = 1]]
            /\ IF wrong # {} THEN ExitWith(r, SourceCode(Reported(wrong)), Reported(wrong))
               ELSE Goto(r, Job(r).command) /\ UNCHANGED exit)
  <2> HIDE DEF defect, text
  <2> QED BY <1>1, <1>5 DEF Prepared
<1> HIDE DEF v, text, defect
<1>8. 1 .. w.at = 1 .. w.at - 1 \cup {w.at} /\ w.at \in Nat \ {0}
  BY <1>2
<1>9. /\ v.defects = {DefectAt(before, n) : n \in 1 .. w.at}
      /\ \A n \in 1 .. w.at : DefectAt(before, n) = "none" => v.texts[n] = WantedAt(before, n)
  <2>1. v.texts[w.at] = text /\ \A n \in 1 .. w.at - 1 : v.texts[n] = w.texts[n]
    <3>1. /\ Append(w.texts, text)[w.at] = text
          /\ \A n \in 1 .. w.at - 1 : Append(w.texts, text)[n] = w.texts[n]
      <4> DEFINE s == w.texts
                 at == w.at
      <4>1. Filled(s, at - 1) /\ at \in Nat \ {0}
        BY <1>2, <1>8
      <4> HIDE DEF s, at
      <4>2. \A x : Append(s, x)[at] = x /\ \A n \in 1 .. at - 1 : Append(s, x)[n] = s[n]
        BY <4>1, AppendMembers DEF Filled
      <4> QED BY <4>2 DEF s, at
    <3> QED BY <1>5, <3>1
  <2>2. v.defects = {DefectAt(before, n) : n \in 1 .. w.at - 1} \cup {DefectAt(before, w.at)}
    BY <1>3, <1>5, <1>6
  <2>3. v.defects = {DefectAt(before, n) : n \in 1 .. w.at}
    BY <1>8, <2>2
  <2> QED BY <1>3, <1>6, <1>8, <2>1, <2>3
<1>10. CASE w.at < Len(Contracts)
  <2>1. /\ work'[r].at = w.at + 1 /\ work'[r].stale = v.stale /\ work'[r].texts = v.texts
        /\ work'[r].defects = v.defects /\ pc'[r] = "prepare" /\ w.at + 1 - 1 = w.at
    BY <1>1, <1>2, <1>5, <1>7, <1>10 DEF SchemaWork
  <2> DEFINE next == work'[r].at - 1
  <2>3. next = w.at /\ files' = before /\ work'[r].stale = {}
    <3> DEFINE at == w.at
    <3>1. at \in Nat /\ work'[r].at = at + 1
      BY <1>8, <2>1
    <3> HIDE DEF at
    <3>2. work'[r].at - 1 = at
      BY <3>1
    <3> QED BY <1>1, <1>3, <1>5, <2>1, <3>2 DEF at
  <2> HIDE DEF next
  <2>4. work'[r].defects = {DefectAt(before, n) : n \in 1 .. next}
    BY <1>9, <2>1, <2>3
  <2>5. \A n \in 1 .. next : DefectAt(before, n) = "none" => work'[r].texts[n] = WantedAt(before, n)
    BY <1>9, <2>1, <2>3
  <2>2. /\ files' = before /\ work'[r].stale = {}
        /\ work'[r].defects = {DefectAt(before, n) : n \in 1 .. work'[r].at - 1}
        /\ \A n \in 1 .. work'[r].at - 1 :
             DefectAt(before, n) = "none" => work'[r].texts[n] = WantedAt(before, n)
    BY <2>3, <2>4, <2>5 DEF next
  <2> QED BY <1>4, <2>1, <2>2 DEF SchemaSoFar, WriteLabels
<1>11. CASE ~(w.at < Len(Contracts))
  <2>1. w.at = Len(Contracts) /\ 1 .. w.at = Numbers /\ w.at \in Numbers
    BY <1>2, <1>11
  <2>2. v.defects = {DefectAt(before, n) : n \in Numbers} /\ DefectAt(before, w.at) \in v.defects
    BY <1>9, <2>1
  <2>3. wrong \subseteq Range(Severities)
    <3>1. Range(Severities) = {"unreadable", "not_utf8", "malformed", "annotations"}
      BY DEF Range, Severities
    <3>2. \A n \in Numbers : DefectAt(before, n) \in {"none"} \cup Range(Severities)
      BY <3>1, DefectCases DEF DefectAt
    <3> QED BY <2>2, <3>2
  <2>4. {Defect(Contracts[n], before[Contracts[n].internal]) : n \in Numbers} = v.defects
    BY <2>2 DEF DefectAt
  <2>5. CASE wrong # {}
    <3>1. pc'[r] = "exited" /\ exit'[r].code = SourceCode(Reported(wrong))
      BY <1>1, <1>7, <1>11, <2>5 DEF ExitWith, Goto
    <3>2. exit'[r].code = IF "unreadable" \in v.defects THEN 4 ELSE 3
      BY <2>3, <2>5, <3>1, ReportedCode
    <3>3. v.defects # {"none"}
      BY <2>5
    <3> QED BY <1>1, <1>3, <2>4, <3>1, <3>2, <3>3 DEF SchemaPromise
  <2>6. CASE wrong = {}
    <3>1. /\ work'[r].at = 1 /\ work'[r].stale = {} /\ work'[r].texts = v.texts
          /\ pc'[r] = Job(r).command /\ pc'[r] \in {"gen", "check"}
      <4>1. work' = [work EXCEPT ![r] = [v EXCEPT !.at = 1]] /\ pc' = [pc EXCEPT ![r] = Job(r).command]
        BY <1>7, <1>11, <2>6 DEF Goto
      <4> HIDE DEF wrong
      <4> QED BY <1>1, <1>2, <1>3, <1>5, <4>1 DEF SchemaWork
    <3>2. {DefectAt(before, n) : n \in Numbers} = {"none"}
      BY <2>2, <2>6
    <3>3. \A n \in Numbers : v.texts[n] = WantedAt(before, n)
      BY <1>9, <2>1, <3>2
    <3>4. 1 .. 1 - 1 = {} /\ \A n \in Numbers : ~(n < 1)
      BY <1>2
    <3>5. WrittenSoFar(r)'
      BY <1>1, <1>3, <3>1, <3>4 DEF WrittenSoFar, WrittenUpTo
    <3> QED BY <1>1, <1>3, <1>4, <3>1, <3>2, <3>3, <3>4, <3>5 DEF SchemaSoFar, WriteLabels
  <2> QED BY <2>5, <2>6
<1> QED BY <1>10, <1>11

\* What a generator or a check finds at the schema it is at.
GoingAt(r, at, public, before) ==
  /\ at \in Numbers /\ public = Contracts[at].public /\ public \in Paths
  /\ Followed(public) = public /\ files[public] = before[public]
  /\ Text(r) = WantedAt(before, at) /\ {DefectAt(before, n) : n \in Numbers} = {"none"}
  /\ \A n \in Numbers : work[r].texts[n] = WantedAt(before, n)
  /\ Readable(files, public) = Readable(before, public)
  /\ \A p \in PrefixesOf(Parent(public)) : /\ files[p].kind # "link"
                                           /\ files[p] = before[p] \/ files[p] = Directory
  /\ Readable(before, public) =>
       (Committed(before[public], Text(r)) <=> at \in CurrentIn(before))

LEMMA SchemaGoing ==
  ASSUME Inv, OrderlyInv, NEW r \in Runs, pc[r] \in SchemaLabels \ {"prepare"}, SchemaSoFar(r)
  PROVE  GoingAt(r, work[r].at, Public(r), seen[r])
<1> DEFINE at == work[r].at
           public == Public(r)
           before == seen[r]
<1>1. /\ at \in Numbers /\ public = Contracts[at].public /\ public \in Publics /\ public \in Paths
      /\ Followed(public) = public
  BY PublicOf, PublicPlaces, FollowedIsPath DEF Inv
<1>2. files = before \/ WrittenUpTo(before, files, at, pc[r] \in {"text", "publish"})
  BY DEF SchemaSoFar, SchemaLabels, WrittenSoFar
<1>3. at >= at
  BY <1>1, NumbersFacts
<1>4. files[public] = before[public]
  BY <1>1, <1>2, <1>3 DEF WrittenUpTo
<1>5. Text(r) = WantedAt(before, at) /\ {DefectAt(before, n) : n \in Numbers} = {"none"}
      /\ \A n \in Numbers : work[r].texts[n] = WantedAt(before, n)
  BY <1>1 DEF SchemaSoFar, Text
<1>6. ASSUME NEW p \in PrefixesOf(Parent(public))
      PROVE  files[p].kind # "link" /\ (files[p] = before[p] \/ (before[p] = Absent /\ files[p] = Directory))
  <2>1. p \in Paths \ (Publics \cup Temporaries) /\ p \in Guarded
    BY <1>1, ContractPlaces
  <2>2. files[p].kind # "link"
    BY <2>1 DEF OrderlyInv, Orderly
  <2> QED BY <1>2, <2>1, <2>2 DEF WrittenUpTo
<1>7. BelowFile(files, public) = BelowFile(before, public)
  BY <1>6 DEF BelowFile, Directory, Absent
<1>8. Readable(files, public) = Readable(before, public)
  BY <1>4, <1>7 DEF Readable
<1>9. Readable(before, public) => (Committed(before[public], Text(r)) <=> at \in CurrentIn(before))
  BY <1>1, <1>5 DEF Readable, Committed, CurrentIn
<1> QED BY <1>1, <1>4, <1>5, <1>6, <1>8, <1>9 DEF GoingAt

LEMMA NextContractFields ==
  ASSUME Inv, NEW r \in Runs, pc[r] \in {"gen", "check", "publish"}, NEW w,
         DOMAIN w = DOMAIN work[r], w.at = work[r].at, NextContract(r, w)
  PROVE  /\ work[r].at < Len(Contracts) =>
              /\ pc'[r] = Job(r).command /\ work'[r].at = work[r].at + 1
              /\ work'[r].texts = w.texts /\ work'[r].stale = w.stale
         /\ ~(work[r].at < Len(Contracts)) =>
              /\ work[r].at = Len(Contracts) /\ pc'[r] = "exited"
              /\ exit'[r].code = IF w.stale # {} THEN 5 ELSE 0
<1>1. /\ SchemaWork(work[r]) /\ work[r].at \in 1 .. Len(Contracts) /\ Len(Contracts) \in Nat
      /\ DOMAIN pc = Runs /\ DOMAIN work = Runs /\ DOMAIN exit = Runs
  BY NumbersFacts DEF Inv, WorkInv, WorkOf, SchemaWork, SchemaLabels, WriteLabels, ProcessInv, Bookkeeping
<1>2. CategoryCode.conflict = 5
  BY DEF CategoryCode
<1>3. CASE work[r].at < Len(Contracts)
  <2>1. /\ work' = [work EXCEPT ![r] = [w EXCEPT !.at = work[r].at + 1]]
        /\ pc' = [pc EXCEPT ![r] = Job(r).command]
    BY <1>1, <1>3 DEF NextContract, Goto
  <2> QED BY <1>1, <1>3, <2>1 DEF SchemaWork
<1>4. CASE ~(work[r].at < Len(Contracts))
  BY <1>1, <1>2, <1>4 DEF NextContract, ExitWith, Goto
<1> QED BY <1>3, <1>4

\* When all the schemas are done the promise is kept.
LEMMA GeneratorDone ==
  ASSUME NEW request, request.command = "gen", NEW before, NEW after,
         {DefectAt(before, n) : n \in Numbers} = {"none"},
         \A n \in Numbers : Readable(before, Contracts[n].public),
         IF request.dryRun THEN after = before ELSE WrittenUpTo(before, after, Len(Contracts) + 1, FALSE)
  PROVE  SchemaPromise(request, 0, before, after)
<1> DEFINE defects == {Defect(Contracts[n], before[Contracts[n].internal]) : n \in Numbers}
           current == {n \in Numbers : before[Contracts[n].public].kind = "file"
                          /\ before[Contracts[n].public].content = PublicText(before[Contracts[n].internal].content)}
<1>1. defects = {"none"} /\ current = CurrentIn(before)
  BY DEF DefectAt, CurrentIn, WantedAt
<1>2. \A n \in Numbers : n < Len(Contracts) + 1 /\ n \in Nat
  BY NumbersFacts
<1>3. CASE request.dryRun
  BY <1>1, <1>3 DEF SchemaPromise
<1>4. CASE ~request.dryRun
  <2>1. /\ \A n \in CurrentIn(before) :
             /\ after[Contracts[n].public] = before[Contracts[n].public]
             /\ after[Temporary(Contracts[n].public)] = before[Temporary(Contracts[n].public)]
        /\ \A n \in Numbers \ CurrentIn(before) :
             /\ after[Contracts[n].public].kind = "file"
             /\ after[Contracts[n].public].content = WantedAt(before, n)
             /\ after[Temporary(Contracts[n].public)] = Absent
             /\ before[Temporary(Contracts[n].public)].kind # "dir"
        /\ \A p \in Paths \ (Publics \cup Temporaries) :
             after[p] = before[p] \/ \E n \in Numbers \ CurrentIn(before) : p \in PrefixesOf(Contracts[n].public)
    BY <1>2, <1>4 DEF WrittenUpTo, CurrentIn
  <2>2. \A n \in Numbers :
          /\ after[Contracts[n].public].kind = "file"
          /\ after[Contracts[n].public].content = PublicText(before[Contracts[n].internal].content)
          /\ n \notin current => after[Temporary(Contracts[n].public)] = Absent
    BY <1>1, <2>1 DEF CurrentIn, WantedAt
  <2>3. ASSUME NEW p \in Paths
        PROVE  \/ after[p] = before[p]
               \/ \E n \in Numbers \ current :
                    p \in {Contracts[n].public, Temporary(Contracts[n].public)} \cup PrefixesOf(Contracts[n].public)
    <3>1. CASE p \in Publics \cup Temporaries
      <4>1. PICK n \in Numbers : p = Contracts[n].public \/ p = Temporary(Contracts[n].public)
        BY <3>1 DEF Temporaries, Publics
      <4> QED BY <1>1, <2>1, <4>1
    <3>2. CASE p \notin Publics \cup Temporaries
      BY <1>1, <2>1, <3>2
    <3> QED BY <3>1, <3>2
  <2>4. \A n \in Numbers \ current : before[Temporary(Contracts[n].public)].kind # "dir"
    BY <1>1, <2>1
  <2>5. defects = {"none"}
    BY <1>1
  <2> QED BY <1>4, <2>2, <2>3, <2>4, <2>5 DEF SchemaPromise
<1> QED BY <1>3, <1>4

\* One schema more is done.
LEMMA GeneratorGoesOn ==
  ASSUME Inv, OrderlyInv, NEW r \in Runs, pc[r] \in {"gen", "publish"}, Job(r).command = "gen", SchemaSoFar(r),
         NEW w, DOMAIN w = DOMAIN work[r], w.at = work[r].at, w.texts = work[r].texts, w.stale = {},
         NextContract(r, w), seen' = seen, setting' = setting,
         Readable(seen[r], Public(r)),
         IF Job(r).dryRun THEN files' = seen[r] ELSE WrittenUpTo(seen[r], files', work[r].at + 1, FALSE)
  PROVE  /\ pc'[r] # "exited" => SchemaSoFar(r)'
         /\ pc'[r] = "exited" => SchemaPromise(Job(r), exit'[r].code, seen[r], files')
<1> DEFINE before == seen[r]
           at == work[r].at
           request == Job(r)
<1>1. /\ at \in 1 .. Len(Contracts) /\ Len(Contracts) \in Nat /\ Numbers = 1 .. Len(Contracts)
      /\ Public(r) = Contracts[at].public
      /\ {DefectAt(before, n) : n \in Numbers} = {"none"}
      /\ \A n \in Numbers : work[r].texts[n] = WantedAt(before, n)
  <2>1. pc[r] \in SchemaLabels \ {"prepare"}
    BY DEF SchemaLabels, WriteLabels
  <2>2. /\ at \in Numbers /\ Public(r) = Contracts[at].public
        /\ {DefectAt(before, n) : n \in Numbers} = {"none"}
        /\ \A n \in Numbers : work[r].texts[n] = WantedAt(before, n)
    BY <2>1, SchemaGoing DEF GoingAt
  <2> QED BY <2>2, NumbersFacts
<1>2. /\ at < Len(Contracts) => /\ pc'[r] = "gen" /\ work'[r].at = at + 1 /\ work'[r].texts = work[r].texts
      /\ ~(at < Len(Contracts)) => at = Len(Contracts) /\ pc'[r] = "exited" /\ exit'[r].code = 0
  BY NextContractFields
<1>3. Job(r)' = request
  BY DEF Job
<1>4. \A n \in 1 .. at : Readable(before, Contracts[n].public)
  <2>1. \A n \in 1 .. at - 1 : Readable(before, Contracts[n].public)
    BY DEF SchemaSoFar
  <2>2. 1 .. at = 1 .. at - 1 \cup {at}
    <3> HIDE DEF at
    <3> QED BY <1>1
  <2> QED BY <1>1, <2>1, <2>2
<1> HIDE DEF at, request
<1>5. CASE at < Len(Contracts)
  <2>1. pc'[r] = "gen" /\ work'[r].at = at + 1 /\ work'[r].texts = work[r].texts
    BY <1>2, <1>5
  <2>2. work'[r].at - 1 = at
    BY <1>1, <2>1
  <2>3. IF request.dryRun THEN files' = before ELSE WrittenSoFar(r)'
    <3>1. ~request.dryRun => WrittenUpTo(before, files', at + 1, FALSE)
      BY DEF request, at
    <3>2. (pc'[r] \in {"text", "publish"}) = FALSE
      BY <2>1
    <3>3. ~request.dryRun => WrittenUpTo(before, files', work'[r].at, pc'[r] \in {"text", "publish"})
      BY <2>1, <3>1, <3>2, Zenon
    <3> QED BY <3>3 DEF WrittenSoFar, request
  <2>4. \A n \in 1 .. work'[r].at - 1 : Readable(before, Contracts[n].public)
    BY <1>4, <2>2
  <2>5. seen'[r] = before
    OBVIOUS
  <2>6. \A n \in Numbers : work'[r].texts[n] = WantedAt(before, n)
    BY <1>1, <2>1
  <2> HIDE DEF before
  <2>7. /\ {DefectAt(before, n) : n \in Numbers} = {"none"} /\ pc'[r] = "gen"
        /\ IF Job(r)'.dryRun THEN files' = before ELSE WrittenSoFar(r)'
    BY <1>1, <1>3, <2>1, <2>3
  <2>8. pc'[r] \notin {"prepare", "check"} \cup WriteLabels
    BY <2>7 DEF WriteLabels
  <2>9. pc'[r] \notin {"open", "text", "publish"}
    BY <2>7
  <2> QED BY <2>4, <2>5, <2>6, <2>7, <2>8, <2>9 DEF SchemaSoFar
<1>6. CASE ~(at < Len(Contracts))
  <2>1. at = Len(Contracts) /\ pc'[r] = "exited" /\ exit'[r].code = 0
    BY <1>2, <1>6
  <2>2. SchemaPromise(request, 0, before, files')
    <3>1. request.command = "gen"
      BY DEF request
    <3>2. \A n \in Numbers : Readable(before, Contracts[n].public)
      BY <1>1, <1>4, <2>1
    <3>3. IF request.dryRun THEN files' = before ELSE WrittenUpTo(before, files', Len(Contracts) + 1, FALSE)
      BY <2>1 DEF request, at
    <3> HIDE DEF before
    <3> QED BY <1>1, <3>1, <3>2, <3>3, GeneratorDone
  <2> QED BY <2>1, <2>2 DEF request
<1> QED BY <1>5, <1>6

\* As WrittenUpTo, but for the schema at `at`.
WrittenBut(before, fs, at) ==
  /\ \A n \in Numbers : n # at /\ (n \in CurrentIn(before) \/ n >= at) =>
       /\ fs[Contracts[n].public] = before[Contracts[n].public]
       /\ fs[Temporary(Contracts[n].public)] = before[Temporary(Contracts[n].public)]
  /\ \A n \in Numbers \ CurrentIn(before) : n < at =>
       /\ fs[Contracts[n].public].kind = "file"
       /\ fs[Contracts[n].public].content = WantedAt(before, n)
       /\ fs[Temporary(Contracts[n].public)] = Absent
       /\ before[Temporary(Contracts[n].public)].kind # "dir"
  /\ \A p \in Paths \ (Publics \cup Temporaries) :
       \/ fs[p] = before[p]
       \/ /\ before[p] = Absent /\ fs[p] = Directory
          /\ \E n \in Numbers \ CurrentIn(before) : p \in PrefixesOf(Contracts[n].public)

\* What is written at one schema is written for no other.
LEMMA WrittenElsewhere ==
  ASSUME NEW before, NEW fs, NEW after, NEW at \in Numbers, NEW staging,
         WrittenUpTo(before, fs, at, staging),
         \A p \in Paths \ {Contracts[at].public, Temporary(Contracts[at].public)} : after[p] = fs[p]
  PROVE  WrittenBut(before, after, at)
<1>1. \A n \in Numbers : n # at =>
        /\ after[Contracts[n].public] = fs[Contracts[n].public]
        /\ after[Temporary(Contracts[n].public)] = fs[Temporary(Contracts[n].public)]
  BY ContractPlaces
<1>2. \A p \in Paths \ (Publics \cup Temporaries) : after[p] = fs[p]
  BY ContractPlaces
<1>3. \A n \in Numbers : n < at => n # at
  BY NumbersFacts
<1>4. \A n \in Numbers : n # at /\ (n \in CurrentIn(before) \/ n >= at) =>
         /\ fs[Contracts[n].public] = before[Contracts[n].public]
         /\ fs[Temporary(Contracts[n].public)] = before[Temporary(Contracts[n].public)]
  BY DEF WrittenUpTo
<1>5. \A n \in Numbers \ CurrentIn(before) : n < at =>
        /\ fs[Contracts[n].public].kind = "file"
        /\ fs[Contracts[n].public].content = WantedAt(before, n)
        /\ fs[Temporary(Contracts[n].public)] = Absent
        /\ before[Temporary(Contracts[n].public)].kind # "dir"
  BY DEF WrittenUpTo
<1>6. \A p \in Paths \ (Publics \cup Temporaries) :
        \/ fs[p] = before[p]
        \/ /\ before[p] = Absent /\ fs[p] = Directory
           /\ \E n \in Numbers \ CurrentIn(before) : p \in PrefixesOf(Contracts[n].public)
  BY DEF WrittenUpTo
<1>7. \A n \in Numbers \ CurrentIn(before) : n < at =>
        /\ after[Contracts[n].public].kind = "file"
        /\ after[Contracts[n].public].content = WantedAt(before, n)
        /\ after[Temporary(Contracts[n].public)] = Absent
        /\ before[Temporary(Contracts[n].public)].kind # "dir"
  BY <1>1, <1>3, <1>5
<1> QED BY <1>1, <1>2, <1>4, <1>6, <1>7 DEF WrittenBut

\* One that is up to date is passed over.
LEMMA CurrentIsWritten ==
  ASSUME NEW before, NEW fs, NEW at \in Numbers, WrittenUpTo(before, fs, at, FALSE), at \in CurrentIn(before)
  PROVE  WrittenUpTo(before, fs, at + 1, FALSE)
<1>1. \A n \in Numbers : (n >= at + 1 => n >= at) /\ (n < at + 1 => n < at \/ n = at)
  BY NumbersFacts
<1>2. \A n \in Numbers : n \in CurrentIn(before) \/ n >= at + 1 =>
         /\ fs[Contracts[n].public] = before[Contracts[n].public]
         /\ fs[Temporary(Contracts[n].public)] = before[Temporary(Contracts[n].public)]
  BY <1>1 DEF WrittenUpTo
<1> QED BY <1>1, <1>2 DEF WrittenUpTo

\* Directories are made above one that is to be written.
LEMMA DirectoriesAreWritten ==
  ASSUME NEW before, NEW fs, NEW after, NEW at \in Numbers, at \notin CurrentIn(before),
         WrittenUpTo(before, fs, at, FALSE),
         \A p \in Paths : after[p] = IF p \in PrefixesOf(Parent(Contracts[at].public)) /\ fs[p] = Absent
                                     THEN Directory ELSE fs[p]
  PROVE  WrittenUpTo(before, after, at, FALSE)
<1>1. /\ PrefixesOf(Parent(Contracts[at].public)) \subseteq PrefixesOf(Contracts[at].public)
      /\ PrefixesOf(Parent(Contracts[at].public)) \cap (Publics \cup Temporaries) = {}
  BY ContractPlaces
<1>2. \A n \in Numbers :
        /\ after[Contracts[n].public] = fs[Contracts[n].public]
        /\ after[Temporary(Contracts[n].public)] = fs[Temporary(Contracts[n].public)]
  BY <1>1, ContractPlaces
<1>3. \A p \in Paths \ (Publics \cup Temporaries) :
        \/ after[p] = before[p]
        \/ /\ before[p] = Absent /\ after[p] = Directory
           /\ \E n \in Numbers \ CurrentIn(before) : p \in PrefixesOf(Contracts[n].public)
  <2> SUFFICES ASSUME NEW p \in Paths \ (Publics \cup Temporaries), after[p] # before[p]
               PROVE  /\ before[p] = Absent /\ after[p] = Directory
                      /\ \E n \in Numbers \ CurrentIn(before) : p \in PrefixesOf(Contracts[n].public)
    OBVIOUS
  <2>1. CASE after[p] = fs[p]
    BY <2>1 DEF WrittenUpTo
  <2>2. CASE after[p] # fs[p]
    <3>1. p \in PrefixesOf(Parent(Contracts[at].public)) /\ fs[p] = Absent /\ after[p] = Directory
      BY <2>2
    <3>2. before[p] = Absent
      BY <3>1 DEF WrittenUpTo, Absent, Directory
    <3> QED BY <1>1, <3>1, <3>2
  <2> QED BY <2>1, <2>2
<1> QED BY <1>2, <1>3 DEF WrittenUpTo

\* The temporary file is written.
LEMMA StagedIsWritten ==
  ASSUME NEW before, NEW fs, NEW after, NEW at \in Numbers, NEW staging,
         WrittenUpTo(before, fs, at, staging), fs[Contracts[at].public] = before[Contracts[at].public],
         \A p \in Paths \ {Temporary(Contracts[at].public)} : after[p] = fs[p],
         at \notin CurrentIn(before)
  PROVE  WrittenUpTo(before, after, at, TRUE)
<1>1. after[Contracts[at].public] = before[Contracts[at].public]
  BY ContractPlaces
<1>2. WrittenBut(before, after, at)
  BY WrittenElsewhere
<1> QED BY <1>1, <1>2 DEF WrittenUpTo, WrittenBut

\* The temporary file takes the place of the public one.
LEMMA PublishedIsWritten ==
  ASSUME NEW before, NEW fs, NEW after, NEW at \in Numbers, NEW staging,
         WrittenUpTo(before, fs, at, staging), at \notin CurrentIn(before),
         \A p \in Paths \ {Contracts[at].public, Temporary(Contracts[at].public)} : after[p] = fs[p],
         after[Contracts[at].public].kind = "file",
         after[Contracts[at].public].content = WantedAt(before, at),
         after[Temporary(Contracts[at].public)] = Absent,
         before[Temporary(Contracts[at].public)].kind # "dir"
  PROVE  WrittenUpTo(before, after, at + 1, FALSE)
<1>1. \A n \in Numbers : /\ n >= at + 1 => n >= at /\ n # at
                         /\ n < at + 1 => n < at \/ n = at
  BY NumbersFacts
<1>2. WrittenBut(before, after, at)
  BY WrittenElsewhere
<1>3. \A n \in Numbers : n \in CurrentIn(before) \/ n >= at + 1 =>
        /\ after[Contracts[n].public] = before[Contracts[n].public]
        /\ after[Temporary(Contracts[n].public)] = before[Temporary(Contracts[n].public)]
  BY <1>1, <1>2 DEF WrittenBut
<1>4. \A n \in Numbers \ CurrentIn(before) : n < at + 1 =>
        /\ after[Contracts[n].public].kind = "file"
        /\ after[Contracts[n].public].content = WantedAt(before, n)
        /\ after[Temporary(Contracts[n].public)] = Absent
        /\ before[Temporary(Contracts[n].public)].kind # "dir"
  BY <1>1, <1>2 DEF WrittenBut
<1> QED BY <1>2, <1>3, <1>4 DEF WrittenUpTo, WrittenBut
LEMMA SchemaCompared ==
  ASSUME Inv, OrderlyInv, NEW r \in Runs, ComparePublic(r), SchemaSoFar(r), seen' = seen
  PROVE  /\ pc'[r] # "exited" => SchemaSoFar(r)'
         /\ pc'[r] = "exited" => SchemaPromise(Job(r), exit'[r].code, seen[r], files')
<1> DEFINE before == seen[r]
           at == work[r].at
           public == Public(r)
           request == Job(r)
<1>1. /\ pc[r] = "gen" /\ files' = files /\ setting' = setting /\ request.command = "gen"
      /\ SchemaWork(work[r]) /\ work[r].stale = {} /\ pc[r] \in SchemaLabels \ {"prepare"}
      /\ DOMAIN pc = Runs /\ DOMAIN exit = Runs /\ DOMAIN work = Runs
  BY DEF ComparePublic, Undisturbed, Inv, ProcessInv, Bookkeeping, JobOf, Suits, WorkInv, WorkOf,
         SchemaLabels, WriteLabels
<1>2. Job(r)' = request
  BY <1>1 DEF Job
<1>3. /\ at \in Numbers /\ public = Contracts[at].public /\ public \in Paths
      /\ Followed(public) = public /\ files[public] = before[public]
      /\ Text(r) = WantedAt(before, at) /\ {DefectAt(before, n) : n \in Numbers} = {"none"}
      /\ \A n \in Numbers : work[r].texts[n] = WantedAt(before, n)
      /\ Readable(files, public) = Readable(before, public)
      /\ Readable(before, public) =>
           (Committed(before[public], Text(r)) <=> at \in CurrentIn(before))
  BY <1>1, SchemaGoing DEF GoingAt
<1>4. IF request.dryRun THEN files' = before ELSE WrittenUpTo(before, files', at, FALSE)
  <2>1. request.dryRun => files' = before
    BY <1>1 DEF SchemaSoFar
  <2>2. ~request.dryRun => WrittenSoFar(r)
    BY <1>1 DEF SchemaSoFar
  <2>3. (pc[r] \in {"text", "publish"}) = FALSE
    BY <1>1
  <2>4. ~request.dryRun => WrittenUpTo(before, files, at, FALSE)
    <3>1. ~request.dryRun => WrittenUpTo(before, files, at, pc[r] \in {"text", "publish"})
      BY <2>2 DEF WrittenSoFar
    <3> QED BY <2>3, <3>1, Zenon
  <2> QED BY <1>1, <2>1, <2>4
<1>5. CASE ~Readable(files, public)
  <2>1. pc'[r] = "exited" /\ exit'[r].code = 4
    <3>1. ExitWith(r, CategoryCode.filesystem, "public_unreadable")
      BY <1>3, <1>5 DEF ComparePublic
    <3> QED BY <1>1, <3>1 DEF ExitWith, Goto, CategoryCode
  <2>2. \E n \in Numbers : ~Readable(before, Contracts[n].public)
    BY <1>3, <1>5
  <2>3. {Defect(Contracts[n], before[Contracts[n].internal]) : n \in Numbers} = {"none"}
    BY <1>3 DEF DefectAt
  <2>4. request.dryRun => files' = before
    BY <1>4
  <2>5. SchemaPromise(request, 4, before, files')
    <3> HIDE DEF request, before
    <3> QED BY <1>1, <2>2, <2>3, <2>4 DEF SchemaPromise
  <2> QED BY <2>1, <2>5
<1>6. CASE Readable(files, public) /\ NextContract(r, work[r]) /\ Committed(files[public], Text(r))
  <2>1. Readable(before, public) /\ at \in CurrentIn(before)
    BY <1>3, <1>6
  <2>2. IF request.dryRun THEN files' = before ELSE WrittenUpTo(before, files', at + 1, FALSE)
    BY <1>3, <1>4, <2>1, CurrentIsWritten
  <2> QED BY <1>1, <1>6, <2>1, <2>2, GeneratorGoesOn
<1>7. CASE /\ Readable(files, public) /\ DryRun(r)
           /\ \E action : NextContract(r, Reporting(work[r], Change(r, action, "planned")))
  <2>1. PICK action : NextContract(r, Reporting(work[r], Change(r, action, "planned")))
    BY <1>7
  <2> DEFINE w == Reporting(work[r], Change(r, action, "planned"))
  <2>2. DOMAIN w = DOMAIN work[r] /\ w.at = work[r].at /\ w.texts = work[r].texts /\ w.stale = {}
    BY <1>1 DEF SchemaWork, Reporting
  <2>3. NextContract(r, w)
    BY <2>1
  <2> HIDE DEF w
  <2>4. request.dryRun /\ Readable(before, public)
    BY <1>3, <1>7 DEF DryRun
  <2>5. IF request.dryRun THEN files' = before ELSE WrittenUpTo(before, files', at + 1, FALSE)
    BY <1>4, <2>4
  <2> QED BY <1>1, <2>2, <2>3, <2>4, <2>5, GeneratorGoesOn
<1>8. CASE /\ Readable(files, public) /\ ~DryRun(r) /\ ~Committed(files[public], Text(r))
           /\ \E action : work' = [work EXCEPT ![r].action = action]
           /\ pc' = [pc EXCEPT ![r] = "stage"]
  <2>1. /\ work'[r].at = at /\ work'[r].texts = work[r].texts /\ pc'[r] = "stage"
    BY <1>1, <1>8 DEF SchemaWork
  <2>2. at \notin CurrentIn(before) /\ Readable(before, public) /\ ~request.dryRun
    BY <1>1, <1>3, <1>8 DEF DryRun
  <2>3. WrittenSoFar(r)'
    <3>1. WrittenUpTo(before, files', at, FALSE) /\ seen'[r] = before
      BY <1>4, <2>2
    <3>2. (pc'[r] \in {"text", "publish"}) = FALSE
      BY <2>1
    <3>3. WrittenUpTo(seen'[r], files', work'[r].at, pc'[r] \in {"text", "publish"})
      BY <2>1, <3>1, <3>2, Zenon
    <3> QED BY <3>3 DEF WrittenSoFar
  <2>4. \A n \in 1 .. at - 1 : Readable(before, Contracts[n].public)
    BY <1>1 DEF SchemaSoFar
  <2>5. Public(r)' = public /\ seen'[r] = before
    BY <2>1 DEF Public
  <2>6. pc'[r] \notin {"prepare", "check", "open", "text", "publish"}
    BY <2>1
  <2>7. \A n \in Numbers : work'[r].texts[n] = WantedAt(before, n)
    BY <1>3, <2>1
  <2>8. ~Job(r)'.dryRun
    BY <1>2, <2>2
  <2> HIDE DEF before, at, public, request
  <2> QED BY <1>3, <2>1, <2>2, <2>3, <2>4, <2>5, <2>6, <2>7, <2>8 DEF SchemaSoFar
<1> QED
  BY <1>3, <1>5, <1>6, <1>7, <1>8, Zenon DEF ComparePublic, Goto

LEMMA SchemaChecked ==
  ASSUME Inv, OrderlyInv, NEW r \in Runs, CheckPublic(r), SchemaSoFar(r), seen' = seen
  PROVE  /\ pc'[r] # "exited" => SchemaSoFar(r)'
         /\ pc'[r] = "exited" => SchemaPromise(Job(r), exit'[r].code, seen[r], files')
<1> DEFINE before == seen[r]
           at == work[r].at
           public == Public(r)
           request == Job(r)
           w == IF Committed(files[public], Text(r)) THEN work[r] ELSE [work[r] EXCEPT !.stale = @ \cup {public}]
<1>1. /\ pc[r] = "check" /\ files' = files /\ setting' = setting /\ request.command = "check"
      /\ SchemaWork(work[r]) /\ pc[r] \in SchemaLabels \ {"prepare"}
      /\ DOMAIN pc = Runs /\ DOMAIN exit = Runs /\ DOMAIN work = Runs
  BY DEF CheckPublic, Undisturbed, Inv, ProcessInv, Bookkeeping, JobOf, Suits, WorkInv, WorkOf,
         SchemaLabels, WriteLabels
<1>2. Job(r)' = request
  BY <1>1 DEF Job
<1>3. /\ at \in Numbers /\ public = Contracts[at].public /\ public \in Paths
      /\ Followed(public) = public /\ files[public] = before[public]
      /\ Text(r) = WantedAt(before, at) /\ {DefectAt(before, n) : n \in Numbers} = {"none"}
      /\ \A n \in Numbers : work[r].texts[n] = WantedAt(before, n)
      /\ Readable(files, public) = Readable(before, public)
      /\ Readable(before, public) =>
           (Committed(before[public], Text(r)) <=> at \in CurrentIn(before))
  BY <1>1, SchemaGoing DEF GoingAt
<1>4. /\ files = before /\ work[r].stale = {Contracts[n].public : n \in 1 .. at - 1 \ CurrentIn(before)}
      /\ \A n \in 1 .. at - 1 : Readable(before, Contracts[n].public)
  BY <1>1 DEF SchemaSoFar
<1>5. {Defect(Contracts[n], before[Contracts[n].internal]) : n \in Numbers} = {"none"}
  BY <1>3 DEF DefectAt
<1>6. CASE ~Readable(files, public)
  <2>1. pc'[r] = "exited" /\ exit'[r].code = 4
    <3>1. ExitWith(r, CategoryCode.filesystem, "public_unreadable")
      BY <1>3, <1>6 DEF CheckPublic
    <3> QED BY <1>1, <3>1 DEF ExitWith, Goto, CategoryCode
  <2>2. \E n \in Numbers : ~Readable(before, Contracts[n].public)
    BY <1>3, <1>6
  <2>3. files' = before
    BY <1>1, <1>4
  <2>4. SchemaPromise(request, 4, before, files')
    <3> HIDE DEF request, before
    <3> QED BY <1>1, <1>5, <2>2, <2>3 DEF SchemaPromise
  <2> QED BY <2>1, <2>4
<1>7. CASE Readable(files, public)
  <2>1. NextContract(r, w)
    BY <1>3, <1>7, Zenon DEF CheckPublic
  <2>2. DOMAIN w = DOMAIN work[r] /\ w.at = at /\ w.texts = work[r].texts
        /\ w.stale = work[r].stale \cup (IF Committed(files[public], Text(r)) THEN {} ELSE {public})
    BY <1>1 DEF SchemaWork
  <2> HIDE DEF w
  <2>3. /\ at < Len(Contracts) => /\ pc'[r] = "check" /\ work'[r].at = at + 1
                                  /\ work'[r].texts = w.texts /\ work'[r].stale = w.stale
        /\ ~(at < Len(Contracts)) =>
             /\ at = Len(Contracts) /\ pc'[r] = "exited"
             /\ exit'[r].code = IF w.stale # {} THEN 5 ELSE 0
    <3>1. pc[r] \in {"gen", "check", "publish"}
      BY <1>1
    <3>2. DOMAIN w = DOMAIN work[r] /\ w.at = work[r].at
      BY <2>2
    <3>3. /\ work[r].at < Len(Contracts) =>
              /\ pc'[r] = Job(r).command /\ work'[r].at = work[r].at + 1
              /\ work'[r].texts = w.texts /\ work'[r].stale = w.stale
          /\ ~(work[r].at < Len(Contracts)) =>
              /\ work[r].at = Len(Contracts) /\ pc'[r] = "exited"
              /\ exit'[r].code = IF w.stale # {} THEN 5 ELSE 0
      BY <2>1, <3>1, <3>2, NextContractFields
    <3> QED BY <1>1, <3>3
  <2>4. Readable(before, public) /\ files' = before
    BY <1>1, <1>3, <1>4, <1>7
  <2>5. at \in 1 .. Len(Contracts) /\ Len(Contracts) \in Nat /\ Numbers = 1 .. Len(Contracts)
    BY <1>3, NumbersFacts
  <2>6. 1 .. at = 1 .. at - 1 \cup {at}
    <3> HIDE DEF at
    <3> QED BY <2>5
  <2>7. w.stale = {Contracts[n].public : n \in 1 .. at \ CurrentIn(before)}
    <3>1. Committed(files[public], Text(r)) <=> at \in CurrentIn(before)
      BY <1>3, <2>4
    <3>2. CASE at \in CurrentIn(before)
      <4>1. 1 .. at \ CurrentIn(before) = 1 .. at - 1 \ CurrentIn(before)
        BY <2>6, <3>2
      <4> QED BY <1>4, <2>2, <3>1, <3>2, <4>1
    <3>3. CASE at \notin CurrentIn(before)
      <4>1. 1 .. at \ CurrentIn(before) = (1 .. at - 1 \ CurrentIn(before)) \cup {at}
        BY <2>6, <3>3
      <4>2. w.stale = {Contracts[n].public : n \in 1 .. at - 1 \ CurrentIn(before)} \cup {Contracts[at].public}
        BY <1>3, <1>4, <2>2, <3>1, <3>3
      <4> QED BY <4>1, <4>2
    <3> QED BY <3>2, <3>3
  <2>8. \A n \in 1 .. at : Readable(before, Contracts[n].public)
    BY <1>3, <1>4, <2>4, <2>6
  <2>9. CASE at < Len(Contracts)
    <3>1. /\ pc'[r] = "check" /\ work'[r].at = at + 1
          /\ work'[r].texts = work[r].texts /\ work'[r].stale = w.stale
      BY <2>2, <2>3, <2>9
    <3>2. work'[r].at - 1 = at
      <4> HIDE DEF at
      <4> QED BY <2>5, <3>1
    <3>3. /\ \A n \in 1 .. work'[r].at - 1 : Readable(before, Contracts[n].public)
          /\ work'[r].stale = {Contracts[n].public : n \in 1 .. work'[r].at - 1 \ CurrentIn(before)}
      BY <2>7, <2>8, <3>1, <3>2
    <3>4. \A n \in Numbers : work'[r].texts[n] = WantedAt(before, n)
      BY <1>3, <3>1
    <3>5. pc'[r] \notin {"prepare", "gen"} \cup WriteLabels /\ pc'[r] \notin {"open", "text", "publish"}
      BY <3>1 DEF WriteLabels
    <3>6. seen'[r] = before
      OBVIOUS
    <3> HIDE DEF before, at, public, request
    <3> QED BY <1>3, <2>4, <3>1, <3>3, <3>4, <3>5, <3>6 DEF SchemaSoFar
  <2>10. CASE ~(at < Len(Contracts))
    <3>1. /\ at = Len(Contracts) /\ pc'[r] = "exited"
          /\ exit'[r].code = IF w.stale # {} THEN 5 ELSE 0
      BY <2>3, <2>10
    <3> DEFINE current == {n \in Numbers : before[Contracts[n].public].kind = "file"
                          /\ before[Contracts[n].public].content = PublicText(before[Contracts[n].internal].content)}
    <3>2. current = CurrentIn(before)
      BY DEF CurrentIn, WantedAt
    <3>3. w.stale # {} <=> current # Numbers
      BY <2>5, <2>7, <3>1, <3>2
    <3>4. \A n \in Numbers : Readable(before, Contracts[n].public)
      BY <2>5, <2>8, <3>1
    <3>5. exit'[r].code = IF current # Numbers THEN 5 ELSE 0
      BY <3>1, <3>3
    <3> DEFINE code == exit'[r].code
    <3>6. SchemaPromise(request, code, before, files')
      <4>1. code = IF current # Numbers THEN 5 ELSE 0
        BY <3>5
      <4>2. request.command = "check"
        BY <1>1
      <4> HIDE DEF request, before, code
      <4> QED BY <1>5, <2>4, <3>4, <4>1, <4>2 DEF SchemaPromise
    <3> QED BY <3>1, <3>6
  <2> QED BY <2>9, <2>10
<1> QED BY <1>6, <1>7

\* A schema is being written: what the steps leave.
LEMMA WritingGoesOn ==
  ASSUME Inv, NEW r \in Runs, pc[r] \in WriteLabels, SchemaSoFar(r), seen' = seen, setting' = setting,
         work'[r].at = work[r].at, work'[r].texts = work[r].texts, pc'[r] \in {"open", "text", "publish"},
         pc'[r] = "open" => WrittenUpTo(seen[r], files', work[r].at, FALSE),
         pc'[r] # "open" =>
           /\ WrittenUpTo(seen[r], files', work[r].at, TRUE)
           /\ seen[r][Temporary(Public(r))].kind # "dir" /\ files'[Temporary(Public(r))].kind = "file",
         \A p \in PrefixesOf(Parent(Public(r))) : files'[p].kind = "dir"
  PROVE  SchemaSoFar(r)'
<1> DEFINE before == seen[r]
           public == Public(r)
           at == work[r].at
<1>1. Job(r).command = "gen" /\ ~Job(r).dryRun /\ Job(r)' = Job(r)
  BY DEF Inv, ProcessInv, JobOf, Suits, Job
<1>2. /\ {DefectAt(before, n) : n \in Numbers} = {"none"}
      /\ \A n \in Numbers : work'[r].texts[n] = WantedAt(before, n)
      /\ \A n \in 1 .. work'[r].at - 1 : Readable(before, Contracts[n].public)
      /\ work'[r].at \notin CurrentIn(before) /\ Readable(before, public)
  <2>1. pc[r] # "prepare"
    BY DEF WriteLabels
  <2> QED BY <2>1 DEF SchemaSoFar
<1>3. Public(r)' = public /\ seen'[r] = before
  BY DEF Public
<1>4. WrittenSoFar(r)'
  <2>1. CASE pc'[r] = "open"
    <3>1. (pc'[r] \in {"text", "publish"}) = FALSE
      BY <2>1
    <3>2. WrittenUpTo(seen'[r], files', work'[r].at, pc'[r] \in {"text", "publish"})
      BY <1>3, <2>1, <3>1, Zenon
    <3> QED BY <3>2 DEF WrittenSoFar
  <2>2. CASE pc'[r] # "open"
    <3>1. (pc'[r] \in {"text", "publish"}) = TRUE
      BY <2>2
    <3>2. WrittenUpTo(seen'[r], files', work'[r].at, pc'[r] \in {"text", "publish"})
      BY <1>3, <2>2, <3>1, Zenon
    <3> QED BY <3>2 DEF WrittenSoFar
  <2> QED BY <2>1, <2>2
<1>5. pc'[r] \notin {"prepare", "check"} /\ ~Job(r)'.dryRun
  BY <1>1
<1>6. /\ \A p \in PrefixesOf(Parent(public)) : files'[p].kind = "dir"
      /\ pc'[r] # "open" => before[Temporary(public)].kind # "dir" /\ files'[Temporary(public)].kind = "file"
  OBVIOUS
<1> HIDE DEF before, public
<1> QED BY <1>2, <1>3, <1>4, <1>5, <1>6 DEF SchemaSoFar

\* What is known while a schema is written.
LEMMA WritingNow ==
  ASSUME Inv, OrderlyInv, NEW r \in Runs, pc[r] \in WriteLabels, SchemaSoFar(r)
  PROVE  /\ Job(r).command = "gen" /\ ~Job(r).dryRun /\ SchemaWork(work[r]) /\ work[r].stale = {}
         /\ work[r].at \in Numbers /\ work[r].at \notin CurrentIn(seen[r])
         /\ Readable(seen[r], Public(r)) /\ GoingAt(r, work[r].at, Public(r), seen[r])
         /\ pc[r] \in {"stage", "open"} => WrittenUpTo(seen[r], files, work[r].at, FALSE)
         /\ pc[r] \in {"text", "publish"} => WrittenUpTo(seen[r], files, work[r].at, TRUE)
         /\ {Defect(Contracts[n], seen[r][Contracts[n].internal]) : n \in Numbers} = {"none"}
<1>1. /\ pc[r] \in SchemaLabels \ {"prepare"} /\ Job(r).command = "gen" /\ ~Job(r).dryRun
      /\ SchemaWork(work[r]) /\ work[r].stale = {} /\ pc[r] # "prepare"
  BY DEF Inv, ProcessInv, JobOf, Suits, WorkInv, WorkOf, SchemaLabels, WriteLabels
<1>2. GoingAt(r, work[r].at, Public(r), seen[r])
  BY <1>1, SchemaGoing
<1>3. WrittenUpTo(seen[r], files, work[r].at, pc[r] \in {"text", "publish"})
  BY <1>1 DEF SchemaSoFar, WrittenSoFar
<1>4. pc[r] \in {"stage", "open"} => WrittenUpTo(seen[r], files, work[r].at, FALSE)
  <2> SUFFICES ASSUME pc[r] \in {"stage", "open"} PROVE WrittenUpTo(seen[r], files, work[r].at, FALSE)
    OBVIOUS
  <2>1. (pc[r] \in {"text", "publish"}) = FALSE
    OBVIOUS
  <2> QED BY <1>3, <2>1, Zenon
<1>5. pc[r] \in {"text", "publish"} => WrittenUpTo(seen[r], files, work[r].at, TRUE)
  <2> SUFFICES ASSUME pc[r] \in {"text", "publish"} PROVE WrittenUpTo(seen[r], files, work[r].at, TRUE)
    OBVIOUS
  <2>1. (pc[r] \in {"text", "publish"}) = TRUE
    OBVIOUS
  <2> QED BY <1>3, <2>1, Zenon
<1>6. work[r].at \notin CurrentIn(seen[r]) /\ Readable(seen[r], Public(r))
  BY DEF SchemaSoFar
<1>7. work[r].at \in Numbers
  BY <1>2 DEF GoingAt
<1>8. {Defect(Contracts[n], seen[r][Contracts[n].internal]) : n \in Numbers} = {"none"}
  BY <1>2 DEF GoingAt, DefectAt
<1> QED BY <1>1, <1>2, <1>4, <1>5, <1>6, <1>7, <1>8

LEMMA SchemaDirectory ==
  ASSUME Inv, OrderlyInv, NEW r \in Runs, MakePublicParent(r), SchemaSoFar(r), seen' = seen
  PROVE  pc'[r] # "exited" /\ SchemaSoFar(r)'
<1> DEFINE before == seen[r]
           public == Public(r)
           at == work[r].at
<1>1. /\ pc[r] = "stage" /\ pc[r] \in WriteLabels /\ setting' = setting /\ DOMAIN pc = Runs
  BY DEF MakePublicParent, Undisturbed, WriteLabels, Inv, ProcessInv
<1>2. /\ at \in Numbers /\ at \notin CurrentIn(before) /\ Readable(before, public)
      /\ GoingAt(r, at, public, before) /\ WrittenUpTo(before, files, at, FALSE)
  BY <1>1, WritingNow
<1>3. public = Contracts[at].public /\ Readable(files, public)
      /\ \A p \in PrefixesOf(Parent(public)) : files[p].kind # "link"
  BY <1>2 DEF GoingAt
<1>4. /\ PrefixesOf(Parent(public)) \subseteq Paths
      /\ \A p \in Paths : files[p].kind \in Kinds /\ (files[p].kind = "absent" => files[p] = Absent)
  BY <1>2, <1>3, ContractPlaces DEF Inv, FilesInv, FileAt
<1>5. CanMakeDirectories(Parent(public))
  BY <1>3, <1>4 DEF CanMakeDirectories, Readable, BelowFile, Kinds
<1>6. pc'[r] = "open" /\ files' = WithDirectories(Parent(public)) /\ work' = work
  BY <1>1, <1>5 DEF MakePublicParent, Goto
<1>7. \A p \in Paths : files'[p] = IF p \in PrefixesOf(Parent(public)) /\ files[p] = Absent
                                   THEN Directory ELSE files[p]
  BY <1>6 DEF WithDirectories
<1>8. \A p \in PrefixesOf(Parent(public)) : files'[p].kind = "dir"
  <2> SUFFICES ASSUME NEW p \in PrefixesOf(Parent(public)) PROVE files'[p].kind = "dir"
    OBVIOUS
  <2>1. p \in Paths /\ files[p].kind \in {"absent", "dir"} /\ (files[p].kind = "absent" => files[p] = Absent)
    BY <1>4, <1>5 DEF CanMakeDirectories
  <2>2. files'[p] = IF files[p] = Absent THEN Directory ELSE files[p]
    BY <1>7, <2>1
  <2>3. Directory.kind = "dir"
    BY DEF Directory, Absent
  <2> QED BY <2>1, <2>2, <2>3
<1>9. WrittenUpTo(before, files', at, FALSE)
  BY <1>2, <1>3, <1>7, DirectoriesAreWritten
<1> QED BY <1>1, <1>6, <1>8, <1>9, WritingGoesOn

LEMMA SchemaStaged ==
  ASSUME Inv, OrderlyInv, NEW r \in Runs, StageOpens(r), SchemaSoFar(r), seen' = seen
  PROVE  /\ pc'[r] # "exited" => SchemaSoFar(r)'
         /\ pc'[r] = "exited" => SchemaPromise(Job(r), exit'[r].code, seen[r], files')
<1> DEFINE before == seen[r]
           public == Public(r)
           at == work[r].at
           request == Job(r)
           temporary == Temporary(public)
           node == Descriptor(temporary, <<r, temporary>>)
<1>1. /\ pc[r] = "open" /\ pc[r] \in WriteLabels /\ setting' = setting
      /\ DOMAIN pc = Runs /\ DOMAIN exit = Runs /\ DOMAIN work = Runs
  BY DEF StageOpens, Undisturbed, WriteLabels, Inv, ProcessInv, Bookkeeping
<1>2. /\ at \in Numbers /\ at \notin CurrentIn(before) /\ Readable(before, public)
      /\ GoingAt(r, at, public, before) /\ WrittenUpTo(before, files, at, FALSE)
      /\ request.command = "gen" /\ ~request.dryRun /\ SchemaWork(work[r])
      /\ {Defect(Contracts[n], before[Contracts[n].internal]) : n \in Numbers} = {"none"}
  BY <1>1, WritingNow
<1>3. public = Contracts[at].public /\ files[public] = before[public]
  BY <1>2 DEF GoingAt
<1>4. /\ temporary \in Paths /\ temporary \in Temporaries /\ public \notin Temporaries /\ public \in Publics
      /\ temporary \in Guarded /\ Parent(temporary) = Parent(public)
      /\ Parent(public) = <<>> \/ Parent(public) \in PrefixesOf(Parent(public))
      /\ PrefixesOf(Parent(public)) \cap (Publics \cup Temporaries) = {}
      /\ PrefixesOf(Parent(public)) \subseteq Paths
  BY <1>2, <1>3, ContractPlaces, PublicPlaces
<1>5. /\ \A p \in PrefixesOf(Parent(public)) : files[p].kind = "dir"
  BY <1>1 DEF SchemaSoFar
<1>6. files[temporary] = before[temporary]
  <2>1. at >= at
    BY <1>2, NumbersFacts
  <2> QED BY <1>2, <1>3, <2>1 DEF WrittenUpTo
<1>7. /\ files[temporary].kind \in Kinds \ {"link"} /\ DOMAIN files = Paths
      /\ DOMAIN files[temporary] = {"kind", "content", "node", "exec"}
  BY <1>4 DEF OrderlyInv, Orderly, FileAt, Absent
<1>8. Followed(temporary) = temporary /\ IsDirectory(Parent(temporary))
  BY <1>4, <1>5, <1>7 DEF Followed, IsDirectory
<1> HIDE DEF temporary
<1>9. CASE files[temporary].kind = "dir"
  <2>1. ~CanOpen(temporary)
    BY <1>8, <1>9 DEF CanOpen
  <2>2. WriteFailed(r)
    BY <2>1, Zenon DEF StageOpens, temporary
  <2>3. pc'[r] = "exited" /\ exit'[r].code = 4
    BY <1>1, <2>2 DEF WriteFailed, ExitWith, Goto, CategoryCode
  <2> DEFINE current == {n \in Numbers : before[Contracts[n].public].kind = "file"
                          /\ before[Contracts[n].public].content = PublicText(before[Contracts[n].internal].content)}
  <2>4. current = CurrentIn(before)
    BY DEF CurrentIn, WantedAt
  <2>5. \E n \in Numbers \ current : before[Temporary(Contracts[n].public)].kind = "dir"
    <3>1. before[Temporary(Contracts[at].public)].kind = "dir"
      BY <1>3, <1>6, <1>9 DEF temporary
    <3> QED BY <1>2, <2>4, <3>1
  <2>6. SchemaPromise(request, 4, before, files')
    <3> HIDE DEF request, before
    <3> QED BY <1>2, <2>5 DEF SchemaPromise
  <2> QED BY <2>3, <2>6
<1>10. CASE files[temporary].kind # "dir"
  <2>1. CanOpen(temporary)
    BY <1>7, <1>8, <1>10 DEF CanOpen, Kinds
  <2>2. files' = Opened(temporary, node) /\ work' = [work EXCEPT ![r].fd = node] /\ pc' = [pc EXCEPT ![r] = "text"]
    BY <2>1, Zenon DEF StageOpens, Goto, temporary
  <2> HIDE DEF node
  <2>3. /\ pc'[r] = "text" /\ work'[r].at = at /\ work'[r].texts = work[r].texts
    BY <1>1, <1>2, <2>2 DEF SchemaWork
  <2>4. files' = [files EXCEPT ![temporary] =
                    [files[temporary] EXCEPT !.kind = "file", !.content = Torn, !.node = node]]
    BY <1>8, <2>2 DEF Opened
  <2>5. files'[temporary].kind = "file" /\ \A p \in Paths \ {temporary} : files'[p] = files[p]
    BY <1>4, <1>7, <2>4
  <2>6. \A p \in PrefixesOf(Parent(public)) : files'[p].kind = "dir"
    BY <1>4, <1>5, <2>5
  <2>7. before[temporary].kind # "dir"
    BY <1>6, <1>10
  <2>8. WrittenUpTo(before, files', at, TRUE)
    <3>1. \A p \in Paths \ {Temporary(Contracts[at].public)} : files'[p] = files[p]
      BY <1>3, <2>5 DEF temporary
    <3> QED BY <1>2, <1>3, <3>1, StagedIsWritten
  <2> QED BY <1>1, <2>3, <2>5, <2>6, <2>7, <2>8, WritingGoesOn DEF temporary
<1> QED BY <1>9, <1>10

LEMMA SchemaFilled ==
  ASSUME Inv, OrderlyInv, NEW r \in Runs, StageWrites(r), SchemaSoFar(r), Staging(r), seen' = seen
  PROVE  pc'[r] # "exited" /\ SchemaSoFar(r)'
<1> DEFINE before == seen[r]
           public == Public(r)
           at == work[r].at
           temporary == Temporary(public)
<1>1. /\ pc[r] = "text" /\ pc[r] \in WriteLabels /\ setting' = setting /\ pc'[r] = "publish" /\ work' = work
      /\ files' = WrittenTo(work[r].fd, Text(r))
  BY DEF StageWrites, Undisturbed, WriteLabels, Goto, Inv, ProcessInv
<1>2. /\ at \in Numbers /\ at \notin CurrentIn(before) /\ GoingAt(r, at, public, before)
      /\ WrittenUpTo(before, files, at, TRUE)
  BY <1>1, WritingNow
<1>3. public = Contracts[at].public /\ files[public] = before[public]
  BY <1>2 DEF GoingAt
<1>4. /\ temporary \in Paths /\ temporary \in Temporaries
      /\ PrefixesOf(Parent(public)) \subseteq Paths /\ PrefixesOf(Parent(public)) \cap (Publics \cup Temporaries) = {}
  BY <1>2, <1>3, ContractPlaces
<1>5. /\ before[temporary].kind # "dir" /\ files[temporary].kind = "file"
      /\ \A p \in PrefixesOf(Parent(public)) : files[p].kind = "dir"
  BY <1>1 DEF SchemaSoFar
<1>6. files[temporary].node = work[r].fd /\ work[r].fd # None
  BY <1>1, StagedFile DEF Staging
<1> HIDE DEF temporary
<1>7. \A p \in Paths \ {temporary} : files'[p] = files[p]
  <2>1. \A p \in Paths \ {temporary} : files[p].node # work[r].fd
    BY <1>4, <1>6 DEF Inv, FilesInv
  <2> QED BY <1>1, <2>1 DEF WrittenTo
<1>8. files'[temporary].kind = "file"
  <2>1. files'[temporary] = [files[temporary] EXCEPT !.content = Text(r)]
    BY <1>1, <1>4, <1>5, <1>6 DEF WrittenTo
  <2>2. DOMAIN files[temporary] = {"kind", "content", "node", "exec"}
    BY <1>4 DEF Inv, FilesInv, FileAt, Absent
  <2> QED BY <1>5, <2>1, <2>2
<1>9. \A p \in PrefixesOf(Parent(public)) : files'[p].kind = "dir"
  BY <1>4, <1>5, <1>7
<1>10. WrittenUpTo(before, files', at, TRUE)
  <2>1. \A p \in Paths \ {Temporary(Contracts[at].public)} : files'[p] = files[p]
    BY <1>3, <1>7 DEF temporary
  <2> QED BY <1>2, <1>3, <2>1, StagedIsWritten
<1> QED BY <1>1, <1>5, <1>8, <1>9, <1>10, WritingGoesOn DEF temporary

LEMMA SchemaPublished ==
  ASSUME Inv, OrderlyInv, NEW r \in Runs, Publish(r), SchemaSoFar(r), Staging(r), seen' = seen
  PROVE  /\ pc'[r] # "exited" => SchemaSoFar(r)'
         /\ pc'[r] = "exited" => SchemaPromise(Job(r), exit'[r].code, seen[r], files')
<1> DEFINE before == seen[r]
           public == Public(r)
           at == work[r].at
           temporary == Temporary(public)
<1>1. pc[r] = "publish" /\ pc[r] \in WriteLabels /\ setting' = setting
  BY DEF Publish, Undisturbed, WriteLabels
<1>2. /\ at \in Numbers /\ at \notin CurrentIn(before) /\ GoingAt(r, at, public, before)
      /\ WrittenUpTo(before, files, at, TRUE) /\ Readable(before, public) /\ SchemaWork(work[r])
      /\ work[r].stale = {} /\ Job(r).command = "gen" /\ ~Job(r).dryRun
  BY <1>1, WritingNow
<1>3. public = Contracts[at].public /\ files[public] = before[public] /\ Text(r) = WantedAt(before, at)
  BY <1>2 DEF GoingAt
<1>4. temporary \in Paths /\ public \in Paths /\ temporary # public
  BY <1>2, <1>3, ContractPlaces
<1>5. before[temporary].kind # "dir" /\ files[temporary].kind = "file"
  BY <1>1 DEF SchemaSoFar
<1>6. files[temporary].content = WantedAt(before, at)
  BY <1>1, <1>3 DEF Staging
<1>7. DOMAIN files = Paths
  BY DEF Inv, FilesInv
<1> HIDE DEF temporary
<1>8. CanRename(temporary, public)
  BY <1>2, <1>3, <1>5 DEF CanRename, Readable
<1>9. /\ files' = Renamed(temporary, public)
      /\ NextContract(r, Reporting(work[r], Change(r, work[r].action, "completed")))
  BY <1>8, Zenon DEF Publish, temporary
<1>10. /\ files'[public] = files[temporary] /\ files'[temporary] = Absent
       /\ \A p \in Paths \ {public, temporary} : files'[p] = files[p]
  BY <1>4, <1>7, <1>9 DEF Renamed
<1>11. WrittenUpTo(before, files', at + 1, FALSE)
  <2>1. /\ \A p \in Paths \ {Contracts[at].public, Temporary(Contracts[at].public)} : files'[p] = files[p]
        /\ files'[Contracts[at].public].kind = "file"
        /\ files'[Contracts[at].public].content = WantedAt(before, at)
        /\ files'[Temporary(Contracts[at].public)] = Absent
        /\ before[Temporary(Contracts[at].public)].kind # "dir"
    BY <1>3, <1>5, <1>6, <1>10 DEF temporary
  <2> QED BY <1>2, <2>1, PublishedIsWritten
<1> DEFINE w == Reporting(work[r], Change(r, work[r].action, "completed"))
<1>12. DOMAIN w = DOMAIN work[r] /\ w.at = work[r].at /\ w.texts = work[r].texts /\ w.stale = {}
  BY <1>2 DEF SchemaWork, Reporting
<1>13. NextContract(r, w)
  BY <1>9
<1> HIDE DEF w
<1>14. IF Job(r).dryRun THEN files' = before ELSE WrittenUpTo(before, files', at + 1, FALSE)
  BY <1>2, <1>11
<1> QED BY <1>1, <1>2, <1>12, <1>13, <1>14, GeneratorGoesOn

LEMMA SchemaGoesOn ==
  ASSUME Inv, OrderlyInv, NEW r \in Runs, SchemaStep(r), Active(r), met'[r] = {}, seen' = seen,
         Staging(r), SchemaSoFar(r)
  PROVE  /\ pc'[r] # "exited" => SchemaSoFar(r)'
         /\ pc'[r] = "exited" => SchemaPromise(Job(r), exit'[r].code, seen[r], files')
<1>1. ~BeginSchemas(r) /\ ~PrepareFails(r) /\ ~PublicationFails(r) /\ ~PublicUnreadable(r)
  BY MetStays DEF BeginSchemas, Begin, Active, PrepareFails, PublicationFails, PublicUnreadable
<1> QED
  BY <1>1, SchemasPrepared, SchemaCompared, SchemaChecked, SchemaDirectory, SchemaStaged, SchemaFilled,
     SchemaPublished DEF SchemaStep

LEMMA SchemaBegins ==
  ASSUME Inv, NEW r \in Runs, BeginSchemas(r)
  PROVE  SchemaSoFar(r)' /\ pc'[r] = "prepare"
<1>1. /\ files' = files /\ setting' = setting /\ DOMAIN pc = Runs /\ DOMAIN work = Runs
      /\ files' = seen'[r]
  BY BeginLeavesUntouched DEF BeginSchemas, Inv, ProcessInv, Bookkeeping
<1>2. pc'[r] = "prepare" /\ work'[r].at = 1 /\ work'[r].defects = {} /\ work'[r].stale = {}
  BY <1>1 DEF BeginSchemas, Goto
<1>3. 1 .. work'[r].at - 1 = {}
  BY <1>2
<1> QED BY <1>1, <1>2, <1>3 DEF SchemaSoFar, WriteLabels
-----------------------------------------------------------------------------
(* The documentation: what a request is, and what its patterns select.     *)

DocsRequest(request) ==
  /\ request.out \in Paths
  /\ ValidIndex(request.index) => Target(request) \in Paths
  /\ DOMAIN request.patterns = 1 .. Len(request.patterns) /\ Len(request.patterns) \in Nat
  /\ request.patterns # <<>> => 1 \in DOMAIN request.patterns
  /\ \A k \in DOMAIN request.patterns : LET pattern == request.patterns[k]
       IN /\ pattern.components \in Seq(STRING) /\ IsFiniteSet(pattern.matches)
          /\ pattern.matches \subseteq Seq(STRING)
          /\ \A m \in pattern.matches : Normalized(m) \in Paths \cup {<<>>}

LEMMA RequestOfDocs ==
  ASSUME ProcessInv, NEW r \in Runs, Job(r) # None, Job(r).command = "docs"
  PROVE  /\ DocsRequest(Job(r)) /\ SourcePlaces(Job(r)) \cap Paths \subseteq SourcesIn(setting)
         /\ SourcePlaces(Job(r)) \cap Paths \subseteq PlacesRead(setting)
<1> DEFINE request == Job(r)
<1>1. PICK w \in Workloads :
        setting = [job |-> w.job, files |-> w.files, contested |-> w.contested, foreign |-> w.foreign]
  BY DEF ProcessInv
<1>2. request = w.job[r] /\ SourcesIn(setting) = SourcesIn(w) /\ SourcesIn(w) \subseteq PlacesRead(w)
      /\ PlacesRead(setting) = PlacesRead(w)
  BY <1>1, SettingReads DEF Job, PlacesRead, SourcesIn
<1>3. /\ request.out \in Paths
      /\ ValidIndex(request.index) => Target(request) \in Paths
      /\ request.patterns \in Seq(Range(request.patterns))
      /\ \A k \in DOMAIN request.patterns : LET pattern == request.patterns[k]
           IN /\ pattern.components \in Seq(STRING) /\ IsFiniteSet(pattern.matches)
              /\ pattern.matches \subseteq Seq(STRING)
              /\ \A m \in pattern.matches : Normalized(m) \in Paths \cup {<<>>}
  BY <1>2, PlacesAssumption
<1>4. /\ DOMAIN request.patterns = 1 .. Len(request.patterns) /\ Len(request.patterns) \in Nat
      /\ request.patterns # <<>> => Len(request.patterns) >= 1
  <2> DEFINE S == Range(request.patterns)
  <2>1. request.patterns \in Seq(S)
    BY <1>3
  <2> HIDE DEF S
  <2> QED BY <2>1, LenProperties, EmptySeq
<1>5. SourcePlaces(request) \cap Paths \subseteq SourcesIn(w)
  <2>1. r \in {s \in Runs : w.job[s] # None /\ w.job[s].command = "docs"}
    BY <1>2
  <2> QED BY <1>2, <2>1 DEF SourcesIn
<1>6. request.patterns # <<>> => 1 \in 1 .. Len(request.patterns)
  BY <1>4
<1> QED BY <1>2, <1>3, <1>4, <1>5, <1>6 DEF DocsRequest

\* A selected source is a regular file.
LEMMA SelectedFiles ==
  ASSUME NEW pattern, IsFiniteSet(pattern.matches), pattern.matches \subseteq Seq(STRING),
         \A m \in pattern.matches : Normalized(m) \in Paths \cup {<<>>}, NEW fs
  PROVE  /\ IsFiniteSet(Selected(pattern, fs))
         /\ \A p \in Selected(pattern, fs) : p \in Paths /\ fs[p].kind = "file"
         /\ Selected(pattern, fs) \subseteq {Normalized(m) : m \in {p \in pattern.matches : Last(p) \in ReporNames}}
<1> DEFINE E == {p \in pattern.matches : Eligible(p, fs)}
<1>1. IsFiniteSet(E)
  BY FS_Subset
<1>2. IsFiniteSet(Selected(pattern, fs))
  <2> DEFINE f == [m \in E |-> Normalized(m)]
  <2>1. f \in Surjection(E, Selected(pattern, fs))
    BY DEF Surjection, Selected
  <2> HIDE DEF f, E
  <2> QED BY <1>1, <2>1, FS_Surjection DEF ExistsSurjection
<1>3. ASSUME NEW m \in E
      PROVE  Normalized(m) \in Paths /\ fs[Normalized(m)].kind = "file" /\ Last(m) \in ReporNames
  <2>1. m \in Seq(STRING) /\ SubSeq(m, 1, Len(m)) = m
    BY SubSeqFull
  <2>2. /\ Last(m) \in ReporNames
        /\ (IF Normalized(m) = <<>> THEN "dir" ELSE fs[Normalized(m)].kind) = "file"
    BY <2>1 DEF Eligible
  <2>3. Normalized(m) # <<>>
    BY <2>2
  <2> QED BY <2>2, <2>3
<1> QED BY <1>2, <1>3 DEF Selected

\* So are all the sources; they are finitely many, at places that are read.
LEMMA SourcesAreFiles ==
  ASSUME NEW request, DocsRequest(request), NEW fs
  PROVE  /\ IsFiniteSet(Sources(request, fs)) /\ Sources(request, fs) \subseteq SourcePlaces(request)
         /\ \A p \in Sources(request, fs) : p \in Paths /\ fs[p].kind = "file"
<1> DEFINE D == DOMAIN request.patterns
           S == {Selected(request.patterns[k], fs) : k \in D}
<1>1. \A k \in D :
        /\ IsFiniteSet(Selected(request.patterns[k], fs))
        /\ \A p \in Selected(request.patterns[k], fs) : p \in Paths /\ fs[p].kind = "file"
        /\ Selected(request.patterns[k], fs) \subseteq
             {Normalized(m) : m \in {p \in request.patterns[k].matches : Last(p) \in ReporNames}}
  BY SelectedFiles DEF DocsRequest
<1>2. IsFiniteSet(S)
  <2>1. IsFiniteSet(D)
    <3>1. 1 \in Int /\ Len(request.patterns) \in Int
      BY DEF DocsRequest
    <3> QED BY <3>1, FS_Interval DEF DocsRequest
  <2> DEFINE f == [k \in D |-> Selected(request.patterns[k], fs)]
  <2>2. f \in Surjection(D, S)
    BY DEF Surjection
  <2> HIDE DEF f, S, D
  <2> QED BY <2>1, <2>2, FS_Surjection DEF ExistsSurjection
<1>3. IsFiniteSet(UNION S)
  BY <1>1, <1>2, FS_UNION
<1>4. UNION S \subseteq SourcePlaces(request)
  BY <1>1 DEF SourcePlaces
<1> QED BY <1>1, <1>3, <1>4 DEF Sources

\* They are scripts.
LEMMA SourcesAreScripts ==
  ASSUME Inv, NEW r \in Runs, Orderly(seen[r]), Job(r) # None, Job(r).command = "docs"
  PROVE  /\ DocsRequest(Job(r)) /\ IsFiniteSet(Sources(Job(r), seen[r]))
         /\ \A p \in Sources(Job(r), seen[r]) :
              p \in Paths /\ seen[r][p].kind = "file" /\ seen[r][p].content.lines \in Scripts
<1>1. DocsRequest(Job(r)) /\ SourcePlaces(Job(r)) \cap Paths \subseteq PlacesRead(setting)
  BY RequestOfDocs DEF Inv
<1>2. /\ IsFiniteSet(Sources(Job(r), seen[r])) /\ Sources(Job(r), seen[r]) \subseteq SourcePlaces(Job(r))
      /\ \A p \in Sources(Job(r), seen[r]) : p \in Paths /\ seen[r][p].kind = "file"
  BY <1>1, SourcesAreFiles
<1> QED BY <1>1, <1>2 DEF Orderly

\* A script is accepted exactly when it is of the canonical form.
LEMMA AcceptedScripts ==
  ASSUME NEW lines \in Scripts
  PROVE  Parsed[Source(lines)].error = "none" <=> Source(lines) \in CanonicalSources
<1>1. ReadFrom(Source(lines), lines)
  BY ScriptsAssumption DEF ReadFrom
<1>2. Parse(Source(lines)).error = "none" <=> Canonical(Source(lines))
  BY <1>1, ParserTheorem
<1>3. Source(lines) \in AllSources
  BY DEF AllSources
<1>4. Parsed[Source(lines)] = Parse(Source(lines))
  BY <1>3 DEF Parsed
<1> QED BY <1>2, <1>3, <1>4 DEF CanonicalSources

\* There is a first of finitely many sources.
LEMMA FirstSource ==
  ASSUME NEW S \in SUBSET Paths, IsFiniteSet(S), S # {}
  PROVE  \E p \in S : \A q \in S : p = q \/ PathBefore(p, q)
<1> DEFINE n == Cardinality(S)
<1>1. n \in Nat /\ ExistsBijection(1 .. n, S)
  BY FS_CardinalityType
<1>2. n # 0
  BY FS_EmptySet
<1> HIDE DEF n
<1>3. PICK f : f \in [1 .. n -> S] /\ \A p \in S : \E i \in 1 .. n : f[i] = p
  BY <1>1 DEF ExistsBijection, Bijection, Surjection
<1> DEFINE IsFirst(i, k) == i \in 1 .. k /\ \A j \in 1 .. k : f[i] = f[j] \/ PathBefore(f[i], f[j])
           HasFirst(k) == \E i \in 1 .. k : IsFirst(i, k)
           Failing == {k \in 1 .. n : ~HasFirst(k)}
<1>4. HasFirst(1)
  <2>1. 1 .. 1 = {1}
    OBVIOUS
  <2> QED BY <2>1
<1>5. ASSUME NEW k \in 1 .. n, k + 1 \in 1 .. n, HasFirst(k)
      PROVE  HasFirst(k + 1)
  <2>1. PICK i \in 1 .. k : IsFirst(i, k)
    BY <1>5
  <2>2. 1 .. k + 1 = (1 .. k) \cup {k + 1} /\ 1 .. k \subseteq 1 .. n
    BY <1>1
  <2>3. f[i] \in Paths /\ f[k + 1] \in Paths /\ \A j \in 1 .. k : f[j] \in Paths
    BY <1>3, <1>5, <2>1, <2>2
  <2>4. CASE f[i] = f[k + 1] \/ PathBefore(f[i], f[k + 1])
    <3>1. IsFirst(i, k + 1)
      BY <2>1, <2>2, <2>4
    <3> QED BY <2>2, <3>1
  <2>5. CASE f[i] # f[k + 1] /\ ~PathBefore(f[i], f[k + 1])
    <3>1. PathBefore(f[k + 1], f[i])
      BY <2>3, <2>5, OrderAssumption
    <3>2. \A j \in 1 .. k : PathBefore(f[k + 1], f[j])
      BY <2>1, <2>3, <3>1, OrderAssumption
    <3>3. IsFirst(k + 1, k + 1)
      BY <2>2, <3>2
    <3> QED BY <2>2, <3>3
  <2> QED BY <2>4, <2>5
<1> HIDE DEF HasFirst
<1>6. ASSUME Failing # {} PROVE FALSE
  <2>1. PICK k \in Failing : \A m \in Failing : k <= m
    <3>1. Failing \in SUBSET Nat
      BY <1>1
    <3> HIDE DEF Failing
    <3> QED BY <1>6, <3>1, FirstNumber
  <2>2. k \in 1 .. n /\ ~HasFirst(k) /\ k # 1
    BY <1>4, <2>1
  <2>3. k - 1 \in 1 .. n /\ (k - 1) + 1 = k /\ ~(k <= k - 1)
    BY <1>1, <2>2
  <2>4. HasFirst(k - 1)
    BY <2>1, <2>3
  <2> QED BY <1>5, <2>2, <2>3, <2>4
<1>7. HasFirst(n)
  <2>1. n \in 1 .. n
    BY <1>1, <1>2
  <2> QED BY <1>6, <2>1
<1>8. PICK i \in 1 .. n : IsFirst(i, n)
  BY <1>7 DEF HasFirst
<1>9. f[i] \in S /\ \A q \in S : f[i] = q \/ PathBefore(f[i], q)
  BY <1>3, <1>8
<1> QED BY <1>9

\* A path that has gone up more often than down has done so with a `..`.
LEMMA EscapesByDepth ==
  ASSUME NEW pattern, pattern.components \in Seq(STRING)
  PROVE  Escapes(pattern) <=> LeavesWorkingDirectory(pattern)
<1> DEFINE components == pattern.components
           Up(k) == {i \in 1 .. k : components[i] = ".."}
           Down(k) == {i \in 1 .. k : components[i] \notin {".", "**", ".."}}
           Still(k) == {i \in 1 .. k : components[i] \in {".", "**"}}
           Out(k) == Cardinality(Up(k)) > Cardinality(Down(k))
           n == Len(components)
<1>1. DOMAIN components = 1 .. n /\ n \in Nat
  OBVIOUS
<1> HIDE DEF components, n
<1>2. ASSUME NEW k \in Nat
      PROVE  /\ IsFiniteSet(Up(k)) /\ IsFiniteSet(Down(k)) /\ IsFiniteSet(Still(k))
             /\ Cardinality(Up(k)) \in Nat /\ Cardinality(Down(k)) \in Nat /\ Cardinality(Still(k)) \in Nat
             /\ k = Cardinality(Up(k)) + Cardinality(Down(k)) + Cardinality(Still(k))
  <2>1. IsFiniteSet(1 .. k) /\ Cardinality(1 .. k) = k
    BY FS_Interval
  <2>2. IsFiniteSet(Up(k)) /\ IsFiniteSet(Down(k)) /\ IsFiniteSet(Still(k))
    BY <2>1, FS_Subset
  <2>3. Cardinality(Up(k)) \in Nat /\ Cardinality(Down(k)) \in Nat /\ Cardinality(Still(k)) \in Nat
    BY <2>2, FS_CardinalityType
  <2>4. /\ Up(k) \cap Down(k) = {} /\ (Up(k) \cup Down(k)) \cap Still(k) = {}
        /\ (Up(k) \cup Down(k)) \cup Still(k) = 1 .. k
    OBVIOUS
  <2> DEFINE U == Up(k)
             D == Down(k)
             S == Still(k)
  <2>5. IsFiniteSet(U) /\ IsFiniteSet(D) /\ IsFiniteSet(S) /\ U \cap D = {} /\ (U \cup D) \cap S = {}
    BY <2>2, <2>4
  <2> HIDE DEF U, D, S
  <2>6. IsFiniteSet(U \cup D) /\ Cardinality(U \cup D) = Cardinality(U) + Cardinality(D) - Cardinality(U \cap D)
    BY <2>5, FS_Union
  <2>7. Cardinality((U \cup D) \cup S) = Cardinality(U \cup D) + Cardinality(S) - Cardinality((U \cup D) \cap S)
    BY <2>5, <2>6, FS_Union
  <2>8. Cardinality({}) = 0
    BY FS_EmptySet
  <2>9. Cardinality((U \cup D) \cup S) = Cardinality(U) + Cardinality(D) + Cardinality(S)
    <3> DEFINE u == Cardinality(U)
               d == Cardinality(D)
               s == Cardinality(S)
               x == Cardinality(U \cup D)
               y == Cardinality((U \cup D) \cup S)
    <3>1. u \in Nat /\ d \in Nat /\ s \in Nat
      BY <2>3 DEF U, D, S
    <3>2. x = u + d - 0
      BY <2>5, <2>6, <2>8
    <3>3. y = x + s - 0
      BY <2>5, <2>7, <2>8
    <3> HIDE DEF u, d, s, x, y
    <3>4. y = u + d + s
      BY <3>1, <3>2, <3>3
    <3> QED BY <3>4 DEF u, d, s, y
  <2> QED BY <2>1, <2>2, <2>3, <2>4, <2>9 DEF U, D, S
<1>3. ASSUME NEW k \in Nat
      PROVE  Depth(components, k) < 0 <=> Out(k)
  <2>1. Depth(components, k)
          = k - Cardinality({i \in 1 .. k : components[i] \in {".", "**"}})
              - 2 * Cardinality({i \in 1 .. k : components[i] \in {".."}})
    BY Zenon DEF Depth
  <2>2. {i \in 1 .. k : components[i] \in {".."}} = Up(k)
    OBVIOUS
  <2>3. Depth(components, k) = k - Cardinality(Still(k)) - 2 * Cardinality(Up(k))
    BY <2>1, <2>2
  <2> HIDE DEF Up, Down, Still
  <2> DEFINE u == Cardinality(Up(k))
             d == Cardinality(Down(k))
             s == Cardinality(Still(k))
             x == Depth(components, k)
  <2>4. u \in Nat /\ d \in Nat /\ s \in Nat /\ k = u + d + s
    BY <1>2
  <2>5. x = k - s - 2 * u
    BY <2>3
  <2> HIDE DEF u, d, s, x
  <2>6. x < 0 <=> u > d
    BY <2>4, <2>5
  <2> QED BY <2>6 DEF u, d, x
<1>4. LeavesWorkingDirectory(pattern) <=> \E k \in DOMAIN components : Out(k)
  BY DEF LeavesWorkingDirectory, components
<1>5. Escapes(pattern) <=> \E k \in DOMAIN components : components[k] = ".." /\ Depth(components, k) < 0
  BY DEF Escapes, components
<1>6. ASSUME LeavesWorkingDirectory(pattern)
      PROVE  \E k \in DOMAIN components : components[k] = ".." /\ Out(k)
  <2> DEFINE S == {k \in 1 .. n : Out(k)}
  <2>1. PICK k \in S : \A m \in S : k <= m
    <3> HIDE DEF Out
    <3>1. S \in SUBSET Nat /\ S # {}
      BY <1>1, <1>4, <1>6
    <3> HIDE DEF S
    <3> QED BY <3>1, FirstNumber
  <2>2. k \in 1 .. n /\ Out(k) /\ k - 1 \in Nat /\ k \in Nat
    BY <1>1, <2>1
  <2>3. ASSUME components[k] # ".." PROVE FALSE
    <3>1. 1 .. k = (1 .. k - 1) \cup {k}
      BY <2>2
    <3>2. Up(k) = Up(k - 1) /\ Down(k - 1) \subseteq Down(k)
      BY <2>3, <3>1
    <3>3. Cardinality(Down(k - 1)) <= Cardinality(Down(k))
      <4>1. IsFiniteSet(Down(k))
        BY <1>2, <2>2
      <4> QED BY <3>2, <4>1, FS_Subset
    <3>4. /\ Cardinality(Up(k - 1)) \in Nat /\ Cardinality(Down(k - 1)) \in Nat
          /\ Cardinality(Up(k)) \in Nat /\ Cardinality(Down(k)) \in Nat
      BY <1>2, <2>2
    <3>5. Out(k - 1)
      <4> HIDE DEF Up, Down
      <4> QED BY <2>2, <3>2, <3>3, <3>4
    <3>6. k - 1 # 0
      <4>1. k - 1 = 0 => Up(k - 1) = {}
        OBVIOUS
      <4>2. Cardinality({}) = 0
        BY FS_EmptySet
      <4>3. ASSUME k - 1 = 0 PROVE FALSE
        <5> DEFINE d == Cardinality(Down(k - 1))
        <5>1. Cardinality(Up(k - 1)) = 0 /\ d \in Nat
          BY <3>4, <4>1, <4>2, <4>3
        <5>2. 0 > d
          BY <3>5, <5>1
        <5> HIDE DEF d
        <5> QED BY <5>1, <5>2
      <4> QED BY <4>3
    <3>7. k - 1 \in S /\ ~(k <= k - 1)
      <4>1. k - 1 \in 1 .. n
        BY <1>1, <2>2, <3>6
      <4> HIDE DEF Out
      <4> QED BY <2>2, <3>5, <4>1
    <3> QED BY <2>1, <3>7
  <2> HIDE DEF Out
  <2> QED BY <1>1, <2>2, <2>3
<1> HIDE DEF Out
<1>7. DOMAIN components \subseteq Nat
  BY <1>1
<1> QED BY <1>3, <1>4, <1>5, <1>6, <1>7

\* A pattern is turned down for what the promise calls a refusal of it.
LEMMA PatternErrors ==
  ASSUME NEW pattern, pattern.components \in Seq(STRING), NEW fs
  PROVE  /\ PatternError(pattern, fs) # "none" <=>
              \/ pattern.absolute \/ ~pattern.wellFormed \/ LeavesWorkingDirectory(pattern)
              \/ Selected(pattern, fs) = {}
         /\ PatternError(pattern, fs) \notin Infrastructure
<1>1. Escapes(pattern) <=> LeavesWorkingDirectory(pattern)
  BY EscapesByDepth
<1> DEFINE escapes == Escapes(pattern)
           leaves == LeavesWorkingDirectory(pattern)
           selected == Selected(pattern, fs)
<1>2. PatternError(pattern, fs)
        = IF pattern.absolute THEN "absolute_pattern" ELSE IF escapes THEN "pattern_escapes"
          ELSE IF ~pattern.wellFormed THEN "invalid_pattern"
          ELSE IF selected = {} THEN "no_eligible_source" ELSE "none"
  BY Zenon DEF PatternError
<1>3. escapes <=> leaves
  BY <1>1
<1> HIDE DEF escapes, leaves, selected
<1>4. /\ PatternError(pattern, fs) # "none" <=>
           pattern.absolute \/ ~pattern.wellFormed \/ leaves \/ selected = {}
      /\ PatternError(pattern, fs) \notin Infrastructure
  BY <1>2, <1>3 DEF Infrastructure
<1> QED BY <1>4 DEF leaves, selected

\* What is in the output directory, and the directory itself.
LEMMA MadeOutput ==
  ASSUME NEW request, DocsRequest(request), ValidIndex(request.index), NEW fs, Orderly(fs)
  PROVE  LET out == request.out
             target == Target(request)
         IN /\ target \in Paths /\ target # out /\ out \in Paths /\ PrefixesOf(out) \subseteq Paths
            /\ target \notin PrefixesOf(out)
            /\ Parent(target) = out /\ target = Append(out, Last(target))
            /\ fs[out].kind = "dir" => \A p \in Paths : Made(fs, out)[p] = fs[p]
            /\ fs[target].kind # "absent" => fs[out].kind = "dir"
            /\ fs[target].kind = "absent" => fs[target] = Absent
            /\ fs[target].kind \in Kinds
            /\ fs[target].kind = "link" => fs[target].content \in Paths
            /\ Made(fs, out)[target] = fs[target]
            /\ fs[out].kind \in {"absent", "dir"} => Made(fs, out)[out].kind = "dir"
<1> DEFINE out == request.out
           target == Target(request)
<1>1. out \in Paths /\ target \in Paths /\ out \in Seq(STRING) /\ out # <<>> /\ PrefixesOf(out) \subseteq Paths
  BY PathsAssumption DEF DocsRequest
<1>2. Parent(target) = out /\ target = Append(out, Last(target))
  BY <1>1, ParentOfName DEF Target
<1>3. out \in PrefixesOf(Parent(target)) /\ out \in PrefixesOf(out)
  BY <1>1, <1>2, ParentParts
<1>4. target \notin PrefixesOf(out) /\ target # out
  <2>1. target \notin PrefixesOf(Parent(target))
    BY <1>1, PathsAbove
  <2> QED BY <1>2, <1>3, <2>1
<1>5. DOMAIN fs = Paths /\ TreeShaped(fs) /\ \A p \in Paths : FileAt(fs[p], p)
  BY DEF Orderly
<1>6. fs[target].kind # "absent" => fs[out].kind = "dir"
  BY <1>1, <1>3, <1>5 DEF TreeShaped
<1>7. ASSUME fs[out].kind = "dir"
      PROVE  \A p \in Paths : Made(fs, out)[p] = fs[p]
  <2>1. \A p \in PrefixesOf(out) : fs[p].kind = "dir"
    <3>1. PrefixesOf(out) = PrefixesOf(Parent(out)) \cup {out}
      BY <1>1, PathsAbove
    <3> QED BY <1>1, <1>5, <1>7, <3>1 DEF TreeShaped
  <2>2. \A p \in PrefixesOf(out) : fs[p] # Absent
    BY <2>1 DEF Absent
  <2> QED BY <2>2 DEF Made
<1>8. /\ fs[target].kind = "absent" => fs[target] = Absent
      /\ fs[target].kind \in Kinds
      /\ fs[target].kind = "link" => fs[target].content \in Paths
  BY <1>1, <1>5 DEF FileAt
<1>9. Made(fs, out)[target] = fs[target]
  BY <1>1, <1>4 DEF Made
<1>10. fs[out].kind \in {"absent", "dir"} => Made(fs, out)[out].kind = "dir"
  <2>1. Made(fs, out)[out] = IF fs[out] = Absent THEN Directory ELSE fs[out]
    BY <1>1, <1>3 DEF Made
  <2>2. (fs[out].kind = "absent" => fs[out] = Absent) /\ Directory.kind = "dir"
    BY <1>1, <1>5 DEF FileAt, Directory, Absent
  <2> QED BY <2>1, <2>2
<1> QED BY <1>1, <1>2, <1>4, <1>6, <1>7, <1>8, <1>9, <1>10
-----------------------------------------------------------------------------
(* The documentation: one step after the other.                            *)

LEMMA DocsGoing ==
  ASSUME Inv, OrderlyInv, NEW r \in Runs, pc[r] \in DocsLabels
  PROVE  /\ DocsRequest(Job(r)) /\ IsFiniteSet(Sources(Job(r), seen[r])) /\ Orderly(seen[r])
         /\ \A p \in Sources(Job(r), seen[r]) :
              p \in Paths /\ seen[r][p].kind = "file" /\ seen[r][p].content.lines \in Scripts
         /\ DOMAIN work[r] = {"at", "todo", "loaded", "failed", "document", "staged"}
         /\ DOMAIN pc = Runs /\ DOMAIN exit = Runs /\ DOMAIN work = Runs
<1>1. Job(r) # None /\ Job(r).command = "docs"
  BY DEF Inv, ProcessInv, JobOf, Suits
<1>2. Orderly(seen[r])
  BY DEF OrderlyInv
<1> QED
  BY <1>1, <1>2, SourcesAreScripts DEF Inv, ProcessInv, Bookkeeping, WorkInv, WorkOf

\* What `docs` refuses a request for: it does not see a separator at the end of an index name.
CodeRefusal(request, before) == ~ValidIndex(request.index) \/ Unacceptable(request, before)

\* Nothing but directories on the way to the output differs.
OnlyMade(request, before, after) ==
  \A p \in Paths : after[p] = before[p] \/ (p \in PrefixesOf(request.out) /\ after[p] = Directory)

\* How a refusal that leaves every file keeps the promise, and how a failure does.
LEMMA DocsRefuses ==
  ASSUME NEW request, NEW before, NEW after
  PROVE  /\ CodeRefusal(request, before) /\ after = before => DocsPromise(request, 2, before, after)
         /\ ~CodeRefusal(request, before) /\ OnlyMade(request, before, after) =>
              DocsPromise(request, 3, before, after)
<1>1. CodeRefusal(request, before) => DocsRefusal(request, before)
  BY DEF CodeRefusal, DocsRefusal, SingleFileName, ValidIndex
<1>2. ~CodeRefusal(request, before) /\ DocsRefusal(request, before) => SlashOverlooked(request.index)
  BY DEF CodeRefusal, DocsRefusal, SlashOverlooked
<1> QED BY <1>1, <1>2 DEF DocsPromise, OnlyMade

\* Where the document goes, in the files as they are found.
TargetFits(request, fs) ==
  Replaceable(request, fs[Target(request)],
    fs[IF fs[Target(request)].kind = "link" THEN fs[Target(request)].content ELSE Target(request)])

\* All is well with a request and its sources.
Fine(request, fs) ==
  /\ ValidIndex(request.index) /\ request.patterns # <<>>
  /\ \A k \in DOMAIN request.patterns : PatternError(request.patterns[k], fs) = "none"
  /\ \A p \in Sources(request, fs) : Good(p, fs)

LEMMA FineIsNotRefused ==
  ASSUME NEW request, DocsRequest(request), NEW fs, Fine(request, fs)
  PROVE  CodeRefusal(request, fs) <=> fs[request.out].kind \in {"link", "file"} \/ ~TargetFits(request, fs)
<1>1. ASSUME NEW k \in DOMAIN request.patterns
      PROVE  LET pattern == request.patterns[k]
             IN ~(pattern.absolute \/ ~pattern.wellFormed \/ LeavesWorkingDirectory(pattern)
                    \/ Selected(pattern, fs) = {})
  <2>1. request.patterns[k].components \in Seq(STRING)
    BY DEF DocsRequest
  <2> QED BY <2>1, PatternErrors DEF Fine
<1>2. \A p \in Sources(request, fs) : Source(fs[p].content.lines) \in CanonicalSources
  BY DEF Fine, Good
<1>3. ValidIndex(request.index) /\ request.patterns # <<>>
  BY DEF Fine
<1> QED BY <1>1, <1>2, <1>3, Zenon DEF CodeRefusal, Unacceptable, TargetFits

LEMMA DocsDiscovers ==
  ASSUME Inv, OrderlyInv, NEW r \in Runs, DiscoverPattern(r), DocsSoFar(r), seen' = seen
  PROVE  /\ pc'[r] # "exited" => DocsSoFar(r)'
         /\ pc'[r] = "exited" => DocsPromise(Job(r), exit'[r].code, seen[r], files')
<1> DEFINE request == Job(r)
           before == seen[r]
           w == work[r]
           at == work[r].at
           pattern == request.patterns[at]
           error == PatternError(pattern, before)
           Found(k) == UNION {Selected(request.patterns[i], before) : i \in 1 .. k}
<1>1. pc[r] = "discover" /\ pc[r] \in DocsLabels /\ files' = files /\ setting' = setting
  BY DEF DiscoverPattern, Undisturbed, DocsLabels
<1>2. /\ DocsRequest(request) /\ Orderly(before)
      /\ DOMAIN w = {"at", "todo", "loaded", "failed", "document", "staged"}
      /\ DOMAIN pc = Runs /\ DOMAIN exit = Runs /\ DOMAIN work = Runs
  BY <1>1, DocsGoing
<1>3. /\ ValidIndex(request.index) /\ request.patterns # <<>> /\ files = before
      /\ at \in DOMAIN request.patterns
      /\ \A k \in 1 .. at - 1 : PatternError(request.patterns[k], before) = "none"
      /\ w.todo = Found(at - 1) /\ w.loaded = {} /\ ~w.failed
  BY <1>1 DEF DocsSoFar
<1>4. Job(r)' = request /\ seen'[r] = before
  BY <1>1 DEF Job
<1>5. DOMAIN request.patterns = 1 .. Len(request.patterns) /\ Len(request.patterns) \in Nat
  BY <1>2 DEF DocsRequest
<1>6. CASE error # "none"
  <2>1. CodeRefusal(request, before)
    <3>1. pattern.components \in Seq(STRING)
      BY <1>2, <1>3 DEF DocsRequest
    <3>2. pattern.absolute \/ ~pattern.wellFormed \/ LeavesWorkingDirectory(pattern) \/ Selected(pattern, before) = {}
      BY <1>6, <3>1, PatternErrors
    <3> QED BY <1>3, <3>2 DEF CodeRefusal, Unacceptable
  <2>2. error \notin Infrastructure
    <3>1. pattern.components \in Seq(STRING)
      BY <1>2, <1>3 DEF DocsRequest
    <3> QED BY <3>1, PatternErrors
  <2>3. Fails(r, error)
    BY <1>3, <1>6 DEF DiscoverPattern
  <2> HIDE DEF error
  <2>4. pc'[r] = "exited" /\ exit'[r].code = 2
    BY <1>2, <2>2, <2>3 DEF Fails, ExitWith, Goto
  <2> QED BY <1>1, <1>3, <2>1, <2>4, DocsRefuses
<1>7. CASE error = "none"
  <2>1. /\ work' = [work EXCEPT ![r].todo = @ \cup Selected(pattern, before), ![r].at = @ + 1]
        /\ pc' = [pc EXCEPT ![r] = IF at = Len(request.patterns) THEN "load" ELSE "discover"]
    BY <1>3, <1>7 DEF DiscoverPattern, Goto
  <2> DEFINE selected == Selected(pattern, before)
  <2>2. /\ work'[r].todo = w.todo \cup selected /\ work'[r].at = at + 1
        /\ work'[r].loaded = {} /\ ~work'[r].failed
        /\ pc'[r] = IF at = Len(request.patterns) THEN "load" ELSE "discover"
    <3> HIDE DEF selected
    <3>1. work' = [work EXCEPT ![r].todo = @ \cup selected, ![r].at = @ + 1]
      BY <2>1 DEF selected
    <3> QED BY <1>2, <1>3, <2>1, <3>1
  <2>3. Found(at) = Found(at - 1) \cup selected
    <3>1. 1 .. at = (1 .. at - 1) \cup {at}
      BY <1>3, <1>5
    <3> HIDE DEF before, request
    <3> QED BY <3>1
  <2>4. work'[r].todo = Found(at)
    BY <1>3, <2>2, <2>3
  <2>5. \A k \in 1 .. at : PatternError(request.patterns[k], before) = "none"
    <3>1. 1 .. at = (1 .. at - 1) \cup {at}
      BY <1>3, <1>5
    <3> QED BY <1>3, <1>7, <3>1
  <2>6. CASE at # Len(request.patterns)
    <3>1. pc'[r] = "discover" /\ at + 1 \in DOMAIN request.patterns /\ (at + 1) - 1 = at
      BY <1>3, <1>5, <2>2, <2>6
    <3>2. /\ work'[r].at \in DOMAIN request.patterns
          /\ \A k \in 1 .. work'[r].at - 1 : PatternError(request.patterns[k], before) = "none"
          /\ work'[r].todo = Found(work'[r].at - 1)
      BY <2>2, <2>4, <2>5, <3>1
    <3>3. files' = before
      BY <1>1, <1>3
    <3> HIDE DEF request, before
    <3>5. work'[r].todo = UNION {Selected(request.patterns[i], before) : i \in 1 .. work'[r].at - 1}
      BY <3>2
    <3>6. pc'[r] \notin {"load", "output", "target", "stage_document", "persist"}
      BY <3>1
    <3> HIDE DEF Found
    <3>4. DocsSoFar(r)'
      BY <1>3, <1>4, <2>2, <3>1, <3>2, <3>3, <3>5, <3>6 DEF DocsSoFar
    <3> QED BY <3>1, <3>4
  <2>7. CASE at = Len(request.patterns)
    <3>1. pc'[r] = "load"
      BY <2>2, <2>7
    <3>2. \A k \in DOMAIN request.patterns : PatternError(request.patterns[k], before) = "none"
      BY <1>5, <2>5, <2>7
    <3>3. work'[r].todo = Sources(request, before)
      BY <1>5, <2>4, <2>7 DEF Sources
    <3>4. work'[r].todo # {}
      <4>1. pattern.components \in Seq(STRING)
        BY <1>2, <1>3 DEF DocsRequest
      <4>2. selected # {}
        BY <1>7, <4>1, PatternErrors
      <4> QED BY <2>3, <2>4, <4>2
    <3>5. files' = before
      BY <1>1, <1>3
    <3>6. Sources(request, before) \ work'[r].todo = {}
      BY <3>3
    <3> HIDE DEF request, before
    <3>7. DocsSoFar(r)'
      BY <1>3, <1>4, <2>2, <3>1, <3>2, <3>3, <3>4, <3>5, <3>6 DEF DocsSoFar
    <3> QED BY <3>1, <3>7
  <2> QED BY <2>6, <2>7
<1> QED BY <1>6, <1>7
LEMMA DocsLoads ==
  ASSUME Inv, OrderlyInv, NEW r \in Runs, LoadSource(r), DocsSoFar(r), seen' = seen
  PROVE  /\ pc'[r] # "exited" => DocsSoFar(r)'
         /\ pc'[r] = "exited" => DocsPromise(Job(r), exit'[r].code, seen[r], files')
<1> DEFINE request == Job(r)
           before == seen[r]
           w == work[r]
           all == Sources(request, before)
           path == NextSource(r)
           LoadedFrom(S) == {Loaded(p, before[p].content.lines) : p \in {q \in S : Good(q, before)}}
           FailedAt(S) == \E p \in S : ~Good(p, before)
<1>1. pc[r] = "load" /\ pc[r] \in DocsLabels /\ files' = files /\ setting' = setting
  BY DEF LoadSource, Undisturbed, DocsLabels
<1>2. /\ DocsRequest(request) /\ IsFiniteSet(all)
      /\ \A p \in all : p \in Paths /\ before[p].kind = "file" /\ before[p].content.lines \in Scripts
      /\ DOMAIN w = {"at", "todo", "loaded", "failed", "document", "staged"}
      /\ DOMAIN pc = Runs /\ DOMAIN exit = Runs /\ DOMAIN work = Runs
  BY <1>1, DocsGoing
<1>3. /\ ValidIndex(request.index) /\ request.patterns # <<>> /\ files = before
      /\ \A k \in DOMAIN request.patterns : PatternError(request.patterns[k], before) = "none"
      /\ w.todo # {} /\ w.todo \subseteq all
      /\ w.loaded = LoadedFrom(all \ w.todo)
      /\ w.failed <=> FailedAt(all \ w.todo)
  BY <1>1 DEF DocsSoFar
<1>4. Job(r)' = request /\ seen'[r] = before
  BY <1>1 DEF Job
<1>5. path \in w.todo
  <2> DEFINE T == w.todo
  <2>1. T \in SUBSET Paths /\ T # {}
    BY <1>2, <1>3
  <2>2. IsFiniteSet(T)
    BY <1>2, <1>3, FS_Subset
  <2> HIDE DEF T
  <2>3. \E p \in T : \A q \in T : p = q \/ PathBefore(p, q)
    BY <2>1, <2>2, FirstSource
  <2>4. path = CHOOSE p \in T : \A q \in T : p = q \/ PathBefore(p, q)
    BY DEF NextSource, T
  <2>5. path \in T
    BY <2>3, <2>4
  <2> QED BY <2>5 DEF T
<1>6. path \in all /\ before[path].kind = "file" /\ before[path].content.lines \in Scripts
  BY <1>2, <1>3, <1>5
<1>7. files[Followed(path)] = before[path]
  BY <1>3, <1>6 DEF Followed
<1> DEFINE lines == before[path].content.lines
           bad == ~Good(path, before)
           W == IF bad THEN [[w EXCEPT !.todo = @ \ {path}] EXCEPT !.failed = TRUE]
                ELSE [[w EXCEPT !.todo = @ \ {path}] EXCEPT !.loaded = @ \cup {Loaded(path, lines)}]
<1>8. AfterSource(r, W)
  <2> DEFINE file == files[Followed(path)]
             v == [work[r] EXCEPT !.todo = @ \ {path}]
             wrong == IF file.kind = "file" THEN Parsed[Source(file.content.lines)].error # "none" ELSE TRUE
  <2>1. AfterSource(r, IF wrong THEN [v EXCEPT !.failed = TRUE]
                       ELSE [v EXCEPT !.loaded = @ \cup {Loaded(path, file.content.lines)}])
    BY Zenon DEF LoadSource
  <2>2. Parsed[Source(lines)].error = "none" <=> Good(path, before)
    BY <1>6, AcceptedScripts DEF Good
  <2>3. file = before[path] /\ file.kind = "file" /\ file.content.lines = lines
    BY <1>6, <1>7
  <2> HIDE DEF file
  <2>4. CASE bad
    <3>1. wrong
      BY <2>2, <2>3, <2>4
    <3> HIDE DEF wrong, bad
    <3> QED BY <2>1, <2>4, <3>1
  <2>5. CASE ~bad
    <3>1. ~wrong
      BY <2>2, <2>3, <2>5
    <3> HIDE DEF wrong, bad
    <3> QED BY <2>1, <2>3, <2>5, <3>1
  <2> QED BY <2>4, <2>5
<1> HIDE DEF path, lines
<1>9. DOMAIN W = DOMAIN w /\ W.todo = w.todo \ {path}
  <2> HIDE DEF bad
  <2> QED BY <1>2
<1>10. all \ W.todo = (all \ w.todo) \cup {path}
  BY <1>3, <1>6, <1>9
<1>11. W.loaded = LoadedFrom(all \ W.todo)
  <2> DEFINE done == all \ w.todo
  <2>1. W.loaded = IF bad THEN w.loaded ELSE w.loaded \cup {Loaded(path, lines)}
    <3> HIDE DEF bad
    <3> QED BY <1>2
  <2>2. LoadedFrom(done \cup {path}) = IF bad THEN LoadedFrom(done) ELSE LoadedFrom(done) \cup {Loaded(path, lines)}
    <3> HIDE DEF done
    <3> QED BY DEF lines
  <2> QED BY <1>3, <1>10, <2>1, <2>2
<1>12. W.failed <=> FailedAt(all \ W.todo)
  <2>1. W.failed <=> bad \/ w.failed
    <3> HIDE DEF bad
    <3> QED BY <1>2
  <2> QED BY <1>3, <1>10, <2>1
<1> HIDE DEF W, bad
<1>13. files' = before
  BY <1>1, <1>3
<1>14. CASE W.todo # {}
  <2>1. work'[r] = W /\ pc'[r] = "load"
    BY <1>1, <1>2, <1>8, <1>14 DEF AfterSource
  <2>2. W.todo \subseteq all
    BY <1>3, <1>9
  <2>3. pc'[r] \notin {"discover", "output", "target", "stage_document", "persist"}
    BY <2>1
  <2> HIDE DEF request, before
  <2>4. DocsSoFar(r)'
    BY <1>3, <1>4, <1>11, <1>12, <1>13, <1>14, <2>1, <2>2, <2>3 DEF DocsSoFar
  <2> QED BY <2>1, <2>4
<1>15. CASE W.todo = {} /\ W.failed
  <2>1. Fails(r, "source_load")
    BY <1>8, <1>15 DEF AfterSource
  <2>2. pc'[r] = "exited" /\ exit'[r].code = 2
    BY <1>2, <2>1 DEF Fails, ExitWith, Goto, Infrastructure
  <2>3. CodeRefusal(request, before)
    BY <1>12, <1>15 DEF CodeRefusal, Unacceptable, Good
  <2> QED BY <1>13, <2>2, <2>3, DocsRefuses
<1>16. CASE W.todo = {} /\ ~W.failed
  <2> DEFINE document == Rendered(Catalog(W.loaded), request.format)
  <2>1. /\ work' = [work EXCEPT ![r] = [W EXCEPT !.document = document]]
        /\ pc' = [pc EXCEPT ![r] = "output"]
    BY <1>8, <1>16 DEF AfterSource, Goto
  <2>2. \A p \in all : Good(p, before)
    BY <1>12, <1>16
  <2>3. document = Expected(request, before)
    <3>1. all \ W.todo = all /\ {q \in all : Good(q, before)} = all
      BY <1>16, <2>2
    <3>2. W.loaded = {Loaded(p, before[p].content.lines) : p \in all}
      BY <1>11, <3>1
    <3> QED BY <3>2 DEF Expected
  <2> HIDE DEF document
  <2>4. work'[r].document = document /\ pc'[r] = "output"
    BY <1>2, <1>9, <2>1
  <2>5. pc'[r] \notin {"discover", "load", "target", "stage_document", "persist"}
    BY <2>4
  <2> HIDE DEF request, before
  <2>6. DocsSoFar(r)'
    BY <1>3, <1>4, <1>13, <2>2, <2>3, <2>4, <2>5 DEF DocsSoFar
  <2> QED BY <2>4, <2>6
<1> QED BY <1>14, <1>15, <1>16

LEMMA DocsPrepares ==
  ASSUME Inv, OrderlyInv, NEW r \in Runs, PrepareOutput(r), DocsSoFar(r), seen' = seen
  PROVE  /\ pc'[r] # "exited" => DocsSoFar(r)'
         /\ pc'[r] = "exited" => DocsPromise(Job(r), exit'[r].code, seen[r], files')
<1> DEFINE request == Job(r)
           before == seen[r]
           out == request.out
           kind == before[request.out].kind
<1>1. pc[r] = "output" /\ pc[r] \in DocsLabels /\ setting' = setting /\ work' = work
  BY DEF PrepareOutput, Undisturbed, DocsLabels
<1>2. DocsRequest(request) /\ Orderly(before) /\ DOMAIN pc = Runs /\ DOMAIN exit = Runs
  BY <1>1, DocsGoing
<1>3. files = before /\ Fine(request, before) /\ work[r].document = Expected(request, before)
  BY <1>1 DEF DocsSoFar, Fine
<1>4. Job(r)' = request /\ seen'[r] = before
  BY <1>1 DEF Job
<1>5. /\ out \in Paths /\ kind \in Kinds
      /\ kind \in {"absent", "dir"} => Made(before, out)[out].kind = "dir"
      /\ kind = "dir" => \A p \in Paths : Made(before, out)[p] = before[p]
      /\ before[Target(request)].kind # "absent" => kind = "dir"
  <2>1. ValidIndex(request.index)
    BY <1>3 DEF Fine
  <2>2. out \in Paths /\ FileAt(before[out], out)
    BY <1>2 DEF DocsRequest, Orderly
  <2> QED BY <1>2, <2>1, <2>2, MadeOutput DEF FileAt
<1>6. CASE kind \in {"link", "file"}
  <2>1. files' = files /\ pc'[r] = "exited" /\ exit'[r].code = 2
    <3>1. files[out].kind = kind
      BY <1>3
    <3>2. (Fails(r, "symlink_output") \/ Fails(r, "not_a_directory")) /\ UNCHANGED files
      BY <1>6, <3>1 DEF PrepareOutput
    <3> QED BY <1>2, <3>2 DEF Fails, ExitWith, Goto, Infrastructure
  <2>2. CodeRefusal(request, before)
    BY <1>6 DEF CodeRefusal, Unacceptable
  <2> QED BY <1>3, <2>1, <2>2, DocsRefuses
<1>7. CASE kind = "dir" \/ (kind = "absent" /\ CanMakeDirectories(out))
  <2>1. pc'[r] = "target" /\ files' = IF kind = "dir" THEN files ELSE WithDirectories(out)
    <3>1. files[out].kind = kind
      BY <1>3
    <3>2. Goto(r, "target") /\ files' = IF kind = "dir" THEN files ELSE WithDirectories(out)
      BY <1>7, <3>1 DEF PrepareOutput
    <3> QED BY <1>2, <3>2 DEF Goto
  <2>2. /\ kind = "dir" => files' = before
        /\ \A p \in Paths : files'[p] = Made(before, out)[p]
        /\ files'[out].kind = "dir" /\ kind \in {"absent", "dir"}
    <3>1. kind = "dir" => files' = before
      BY <1>3, <2>1
    <3>2. kind # "dir" => files' = Made(before, out)
      BY <1>3, <2>1 DEF WithDirectories, Made
    <3>3. \A p \in Paths : files'[p] = Made(before, out)[p]
      BY <1>5, <3>1, <3>2
    <3> QED BY <1>5, <1>7, <3>1, <3>3
  <2>3. pc'[r] \notin {"discover", "load", "output", "stage_document", "persist"} /\ work'[r] = work[r]
    BY <1>1, <2>1
  <2>4. Fine(request, before) /\ work'[r].document = Expected(request, before)
    BY <1>3, <2>3
  <2> HIDE DEF request, before
  <2>5. DocsSoFar(r)'
    BY <1>4, <2>1, <2>2, <2>3, <2>4 DEF DocsSoFar, Fine
  <2> QED BY <2>1, <2>5
<1>8. CASE kind = "absent" /\ ~CanMakeDirectories(out)
  <2>1. pc'[r] = "exited" /\ exit'[r].code = 3 /\ files' = before
    <3>1. files[out].kind = kind
      BY <1>3
    <3>2. Fails(r, "create_failed") /\ UNCHANGED files
      BY <1>8, <3>1 DEF PrepareOutput
    <3> QED BY <1>2, <1>3, <3>2 DEF Fails, ExitWith, Goto, Infrastructure
  <2>2. TargetFits(request, before)
    <3>1. before[Target(request)].kind = "absent"
      BY <1>5, <1>8
    <3> QED BY <3>1 DEF TargetFits, Replaceable
  <2>3. ~CodeRefusal(request, before)
    BY <1>2, <1>3, <1>8, <2>2, FineIsNotRefused
  <2> QED BY <2>1, <2>3, DocsRefuses DEF OnlyMade
<1> QED BY <1>5, <1>6, <1>7, <1>8 DEF Kinds

\* The output directory is there; the target is as it was found.
LEMMA DocsTarget ==
  ASSUME Inv, OrderlyInv, NEW r \in Runs, DocsSoFar(r), pc[r] \in {"target", "stage_document", "persist"}
  PROVE  LET request == Job(r)
             before == seen[r]
             out == request.out
             target == Target(request)
         IN /\ DocsRequest(request) /\ Fine(request, before) /\ work[r].document = Expected(request, before)
            /\ out \in Paths /\ before[out].kind \in {"absent", "dir"}
            /\ files[out].kind = "dir" /\ Followed(out) = out /\ IsDirectory(out)
            /\ before[out].kind = "dir" => files = before
            /\ \A p \in Paths : files[p] = Made(before, out)[p]
            /\ target \in Paths /\ TargetNow(request) = target /\ target \notin PrefixesOf(out)
            /\ files[target] = before[target] /\ before[target].kind \in Kinds
            /\ before[target].kind # "absent" => files = before
            /\ DOMAIN files = Paths /\ DOMAIN pc = Runs /\ DOMAIN exit = Runs /\ DOMAIN work = Runs
            /\ DOMAIN work[r] = {"at", "todo", "loaded", "failed", "document", "staged"}
<1> DEFINE request == Job(r)
           before == seen[r]
           out == request.out
           target == Target(request)
<1>1. pc[r] \in DocsLabels /\ pc[r] # "discover"
  BY DEF DocsLabels
<1>2. /\ DocsRequest(request) /\ Orderly(before) /\ DOMAIN pc = Runs /\ DOMAIN exit = Runs
      /\ DOMAIN work = Runs /\ DOMAIN files = Paths
      /\ DOMAIN work[r] = {"at", "todo", "loaded", "failed", "document", "staged"}
  BY <1>1, DocsGoing DEF Inv, FilesInv
<1>3. /\ Fine(request, before) /\ work[r].document = Expected(request, before)
      /\ before[out].kind \in {"absent", "dir"} /\ files[out].kind = "dir"
      /\ before[out].kind = "dir" => files = before
      /\ \A p \in Paths : files[p] = Made(before, out)[p]
  BY <1>1 DEF DocsSoFar, Fine
<1>4. Followed(out) = out
  BY <1>3 DEF Followed
<1>5. /\ target \in Paths /\ out \in Paths /\ target \notin PrefixesOf(out) /\ target = Append(out, Last(target))
      /\ before[target].kind # "absent" => before[out].kind = "dir"
      /\ before[target].kind \in Kinds
      /\ Made(before, out)[target] = before[target]
  <2>1. ValidIndex(request.index)
    BY <1>3 DEF Fine
  <2> QED BY <1>2, <2>1, MadeOutput
<1>6. TargetNow(request) = target
  BY <1>4, <1>5 DEF TargetNow
<1>7. IsDirectory(out)
  BY <1>3 DEF IsDirectory
<1> QED BY <1>2, <1>3, <1>4, <1>5, <1>6, <1>7

LEMMA DocsChecks ==
  ASSUME Inv, OrderlyInv, NEW r \in Runs, CheckTarget(r), DocsSoFar(r), seen' = seen
  PROVE  /\ pc'[r] # "exited" => DocsSoFar(r)'
         /\ pc'[r] = "exited" => DocsPromise(Job(r), exit'[r].code, seen[r], files')
<1> DEFINE request == Job(r)
           before == seen[r]
           out == request.out
           target == Target(request)
<1>1. pc[r] = "target" /\ setting' = setting /\ work' = work /\ files' = files
  BY DEF CheckTarget, Undisturbed
<1>2. /\ DocsRequest(request) /\ Fine(request, before) /\ work[r].document = Expected(request, before)
      /\ out \in Paths /\ before[out].kind \in {"absent", "dir"} /\ files[out].kind = "dir"
      /\ before[out].kind = "dir" => files = before
      /\ \A p \in Paths : files[p] = Made(before, out)[p]
      /\ target \in Paths /\ TargetNow(request) = target
      /\ files[target] = before[target] /\ before[target].kind \in Kinds
      /\ before[target].kind # "absent" => files = before
      /\ DOMAIN pc = Runs /\ DOMAIN exit = Runs
  BY <1>1, DocsTarget
<1>3. Job(r)' = request /\ seen'[r] = before
  BY <1>1 DEF Job
<1>4. Replaceable(request, files[target], files[Followed(target)]) <=> TargetFits(request, before)
  <2>1. CASE before[target].kind # "absent"
    <3>1. files = before
      BY <1>2, <2>1
    <3> QED BY <3>1 DEF TargetFits, Followed
  <2>2. CASE before[target].kind = "absent"
    BY <1>2, <2>2 DEF TargetFits, Replaceable
  <2> QED BY <2>1, <2>2
<1>5. CASE TargetFits(request, before)
  <2>1. pc'[r] = "stage_document"
    BY <1>2, <1>4, <1>5 DEF CheckTarget, Goto
  <2>2. pc'[r] \notin {"discover", "load", "output", "persist"} /\ work'[r] = work[r]
    BY <1>1, <2>1
  <2>3. /\ files'[out].kind = "dir" /\ (before[out].kind = "dir" => files' = before)
        /\ \A p \in Paths : files'[p] = Made(before, out)[p]
        /\ work'[r].document = Expected(request, before)
    BY <1>1, <1>2
  <2>4. Replaceable(request, before[Target(request)],
          before[IF before[Target(request)].kind = "link" THEN before[Target(request)].content
                 ELSE Target(request)])
    BY <1>5 DEF TargetFits
  <2> HIDE DEF request, before, target
  <2>5. DocsSoFar(r)'
    BY <1>2, <1>3, <2>1, <2>2, <2>3, <2>4 DEF DocsSoFar, Fine
  <2> QED BY <2>1, <2>5
<1>6. CASE ~TargetFits(request, before)
  <2>1. Fails(r, "not_replaceable")
    BY <1>2, <1>4, <1>6 DEF CheckTarget
  <2>2. pc'[r] = "exited" /\ exit'[r].code = 2
    BY <1>2, <2>1 DEF Fails, ExitWith, Goto, Infrastructure
  <2>3. CodeRefusal(request, before)
    BY <1>2, <1>6, FineIsNotRefused
  <2>4. files' = before
    <3>1. before[target].kind # "absent"
      BY <1>6 DEF TargetFits, Replaceable
    <3> QED BY <1>1, <1>2, <3>1
  <2> QED BY <2>2, <2>3, <2>4, DocsRefuses
<1> QED BY <1>5, <1>6

LEMMA DocsStages ==
  ASSUME Inv, OrderlyInv, NEW r \in Runs, StageDocument(r), DocsSoFar(r), seen' = seen
  PROVE  pc'[r] # "exited" /\ DocsSoFar(r)'
<1> DEFINE request == Job(r)
           before == seen[r]
           out == request.out
<1>1. pc[r] = "stage_document" /\ setting' = setting /\ files' = files
  BY DEF StageDocument, Undisturbed
<1>2. /\ Fine(request, before) /\ work[r].document = Expected(request, before)
      /\ before[out].kind \in {"absent", "dir"} /\ files[out].kind = "dir"
      /\ Followed(out) = out /\ IsDirectory(out)
      /\ before[out].kind = "dir" => files = before
      /\ \A p \in Paths : files[p] = Made(before, out)[p]
      /\ DOMAIN pc = Runs /\ DOMAIN work = Runs
      /\ DOMAIN work[r] = {"at", "todo", "loaded", "failed", "document", "staged"}
  BY <1>1, DocsTarget
<1>3. Job(r)' = request /\ seen'[r] = before
  BY <1>1 DEF Job
<1>4. work' = [work EXCEPT ![r].staged = out] /\ pc' = [pc EXCEPT ![r] = "persist"]
  BY <1>2 DEF StageDocument, Goto
<1>5. work'[r].staged = out /\ work'[r].document = work[r].document /\ pc'[r] = "persist"
  <2> HIDE DEF out
  <2> QED BY <1>2, <1>4
<1>6. pc'[r] \notin {"discover", "load", "output"}
  BY <1>5
<1>7. /\ files'[out].kind = "dir" /\ (before[out].kind = "dir" => files' = before)
      /\ \A p \in Paths : files'[p] = Made(before, out)[p]
      /\ work'[r].document = Expected(request, before)
  BY <1>1, <1>2, <1>5
<1>8. Replaceable(request, before[Target(request)],
        before[IF before[Target(request)].kind = "link" THEN before[Target(request)].content
               ELSE Target(request)])
  BY <1>1 DEF DocsSoFar
<1> HIDE DEF request, before
<1>9. DocsSoFar(r)'
  BY <1>2, <1>3, <1>5, <1>6, <1>7, <1>8 DEF DocsSoFar, Fine
<1> QED BY <1>5, <1>9

LEMMA DocsPersists ==
  ASSUME Inv, OrderlyInv, NEW r \in Runs, Persist(r), DocsSoFar(r)
  PROVE  pc'[r] = "exited" /\ DocsPromise(Job(r), exit'[r].code, seen[r], files')
<1> DEFINE request == Job(r)
           before == seen[r]
           out == request.out
           target == Target(request)
           document == Expected(request, before)
           slash == request.index # None /\ request.index.slash
<1>1. pc[r] = "persist"
  BY DEF Persist
<1>2. /\ DocsRequest(request) /\ Fine(request, before) /\ work[r].document = document
      /\ before[out].kind \in {"absent", "dir"}
      /\ Followed(out) = out /\ IsDirectory(out)
      /\ \A p \in Paths : files[p] = Made(before, out)[p]
      /\ target \in Paths /\ TargetNow(request) = target
      /\ files[target] = before[target]
      /\ DOMAIN files = Paths /\ DOMAIN pc = Runs /\ DOMAIN exit = Runs
  BY <1>1, DocsTarget
<1>3. TargetFits(request, before) /\ work[r].staged = out
  BY <1>1 DEF DocsSoFar, TargetFits
<1>4. files[target].kind # "dir"
  BY <1>2, <1>3 DEF TargetFits, Replaceable
<1>5. ~CodeRefusal(request, before)
  BY <1>2, <1>3, FineIsNotRefused
<1>6. CASE slash
  <2>1. Fails(r, "replace_failed") /\ UNCHANGED files
    BY <1>6, Zenon DEF Persist
  <2>2. pc'[r] = "exited" /\ exit'[r].code = 3
    BY <1>2, <2>1 DEF Fails, ExitWith, Goto, Infrastructure
  <2>3. OnlyMade(request, before, files')
    BY <1>2, <2>1 DEF Made, OnlyMade
  <2> HIDE DEF request, before
  <2>4. DocsPromise(request, 3, before, files')
    BY <1>5, <2>3, DocsRefuses
  <2> QED BY <2>2, <2>4 DEF request, before
<1>7. CASE ~slash
  <2>1. files' = [files EXCEPT ![target] = Regular(document)] /\ ExitWith(r, 0, "done")
    <3> DEFINE now == TargetNow(request)
    <3>1. IF /\ Followed(out) = work[r].staged /\ IsDirectory(work[r].staged)
             /\ files[now].kind # "dir" /\ ~slash
          THEN files' = [files EXCEPT ![now] = Regular(work[r].document)] /\ ExitWith(r, 0, "done")
          ELSE Fails(r, "replace_failed") /\ UNCHANGED files
      BY Zenon DEF Persist
    <3>2. now = target
      BY <1>2
    <3> HIDE DEF slash, now, document
    <3> QED BY <1>2, <1>3, <1>4, <1>7, <3>1, <3>2
  <2>2. pc'[r] = "exited" /\ exit'[r].code = 0
    BY <1>2, <2>1 DEF ExitWith, Goto
  <2>3. /\ files'[target] = Regular(document)
        /\ \A p \in Paths \ {target} : files'[p] = Made(before, out)[p]
    <3> HIDE DEF document
    <3> QED BY <1>2, <2>1
  <2>4. \A p \in Paths \ {target} :
          files'[p] = before[p] \/ (p \in PrefixesOf(out) /\ files'[p] = Directory)
    BY <2>3 DEF Made
  <2> HIDE DEF request, before
  <2>5. ~DocsRefusal(request, before)
    BY <1>2, <1>5, <1>7 DEF CodeRefusal, DocsRefusal, SingleFileName, Fine
  <2>6. DocsPromise(request, 0, before, files')
    BY <2>3, <2>4, <2>5 DEF DocsPromise
  <2> QED BY <2>2, <2>6 DEF request, before
<1> QED BY <1>6, <1>7

LEMMA DocsGoesOn ==
  ASSUME Inv, OrderlyInv, NEW r \in Runs, DocsStep(r), Active(r), met'[r] = {}, seen' = seen,
         DocsSoFar(r)
  PROVE  /\ pc'[r] # "exited" => DocsSoFar(r)'
         /\ pc'[r] = "exited" => DocsPromise(Job(r), exit'[r].code, seen[r], files')
<1>1. ~BeginDocs(r) /\ ~TraversalFails(r) /\ ~SourceUnreadable(r) /\ ~OutputFails(r)
  BY MetStays DEF BeginDocs, Begin, Active, TraversalFails, SourceUnreadable, OutputFails
<1> QED
  BY <1>1, DocsDiscovers, DocsLoads, DocsPrepares, DocsChecks, DocsStages, DocsPersists DEF DocsStep

LEMMA DocsBegins ==
  ASSUME Inv, NEW r \in Runs, BeginDocs(r)
  PROVE  /\ pc'[r] \notin {"start", "exited"} => DocsSoFar(r)'
         /\ pc'[r] = "exited" => DocsPromise(Job(r), exit'[r].code, seen'[r], files')
<1> DEFINE request == Job(r)
           before == seen'[r]
<1>1. /\ setting' = setting /\ DOMAIN pc = Runs /\ DOMAIN exit = Runs /\ DOMAIN work = Runs
      /\ files' = before /\ request.command = "docs" /\ pc[r] = "start" /\ request # None
  BY BeginLeavesUntouched DEF BeginDocs, Begin, Docs, Inv, ProcessInv, Bookkeeping, JobOf
<1>2. Job(r)' = request
  BY <1>1 DEF Job
<1>3. CASE ~ValidIndex(request.index) \/ request.patterns = <<>>
  <2>1. Fails(r, "index_file_name") \/ Fails(r, "no_patterns")
    BY <1>3 DEF BeginDocs
  <2>2. pc'[r] = "exited" /\ exit'[r].code = 2
    BY <1>1, <2>1 DEF Fails, ExitWith, Goto, Infrastructure
  <2>3. CodeRefusal(request, before)
    BY <1>3 DEF CodeRefusal, Unacceptable
  <2> QED BY <1>1, <2>2, <2>3, DocsRefuses
<1>4. CASE ValidIndex(request.index) /\ request.patterns # <<>>
  <2>1. pc'[r] = "discover"
    BY <1>1, <1>4 DEF BeginDocs, Goto
  <2>2. work'[r] = [at |-> 1, todo |-> {}, loaded |-> {}, failed |-> FALSE, document |-> None, staged |-> None]
    BY <1>1 DEF BeginDocs
  <2>3. 1 \in DOMAIN request.patterns
    BY <1>1, <1>4, RequestOfDocs DEF DocsRequest, Inv
  <2>4. 1 .. 1 - 1 = {}
    OBVIOUS
  <2>5. /\ work'[r].at = 1 /\ work'[r].loaded = {} /\ ~work'[r].failed
        /\ work'[r].todo = UNION {Selected(request.patterns[i], before) : i \in 1 .. work'[r].at - 1}
        /\ \A k \in 1 .. work'[r].at - 1 : PatternError(request.patterns[k], before) = "none"
    BY <2>2, <2>4
  <2>6. pc'[r] \notin {"load", "output", "target", "stage_document", "persist"}
    BY <2>1
  <2> HIDE DEF request, before
  <2>7. DocsSoFar(r)'
    BY <1>1, <1>2, <1>4, <2>1, <2>3, <2>5, <2>6 DEF DocsSoFar, before
  <2> QED BY <2>1, <2>7
<1> QED BY <1>3, <1>4
-----------------------------------------------------------------------------
(* All the commands.                                                       *)

\* A process takes the steps of its command, and is where that command may be.
LEMMA StepsOfCommand ==
  ASSUME Inv, NEW r \in Runs
  PROVE  /\ ScaffoldStep(r) => Job(r).command = "scaffold"
         /\ SchemaStep(r) => Job(r).command \in {"gen", "check"}
         /\ DocsStep(r) => Job(r).command = "docs"
<1> USE DEF ScaffoldLabels, DocsLabels, SchemaLabels, WriteLabels
<1>1. Suits(Job(r), pc[r])
  BY DEF Inv, ProcessInv, JobOf
<1>2. ScaffoldStep(r) => Job(r).command = "scaffold"
  BY <1>1 DEF Suits, ScaffoldStep, CheckRequest, Scaffold, CheckOut, MakeParent, CreateShim, FillShim,
     MakeExecutable, ScaffoldCallFails
<1>3. SchemaStep(r) => Job(r).command \in {"gen", "check"}
  BY <1>1 DEF Suits, SchemaStep, BeginSchemas, Schemas, PrepareContract, PrepareFails, ComparePublic,
     MakePublicParent, StageOpens, StageWrites, Publish, PublicationFails, CheckPublic, PublicUnreadable
<1>4. DocsStep(r) => Job(r).command = "docs"
  BY <1>1 DEF Suits, DocsStep, BeginDocs, Docs, DiscoverPattern, TraversalFails, LoadSource,
     SourceUnreadable, PrepareOutput, CheckTarget, StageDocument, Persist, OutputFails
<1> QED BY <1>2, <1>3, <1>4

LEMMA LabelsOfCommand ==
  ASSUME Inv, NEW r \in Runs, Active(r)
  PROVE  /\ pc[r] \in ScaffoldLabels <=> Job(r).command = "scaffold"
         /\ pc[r] \in SchemaLabels <=> Job(r).command \in {"gen", "check"}
         /\ pc[r] \in DocsLabels <=> Job(r).command = "docs"
<1>1. Suits(Job(r), pc[r]) /\ pc[r] \in Labels \ {"start", "exited"}
  BY DEF Inv, ProcessInv, JobOf, Active
<1>2. pc[r] \in ScaffoldLabels \/ pc[r] \in SchemaLabels \/ pc[r] \in DocsLabels
  BY <1>1 DEF Labels, ScaffoldLabels, SchemaLabels, WriteLabels, DocsLabels
<1> QED BY <1>1, <1>2 DEF Suits

\* The first step of a process is the first of its command.
LEMMA FirstSteps ==
  ASSUME NEW r \in Runs, StepOf(r), pc[r] = "start"
  PROVE  CheckRequest(r) \/ BeginSchemas(r) \/ BeginDocs(r)
<1>1. ~Kill(r)
  BY DEF Kill, Active
<1>2. ScaffoldStep(r) => CheckRequest(r)
  BY DEF ScaffoldStep, CheckOut, MakeParent, CreateShim, FillShim, MakeExecutable, ScaffoldCallFails
<1>3. SchemaStep(r) => BeginSchemas(r)
  BY DEF SchemaStep, PrepareContract, PrepareFails, ComparePublic,
     MakePublicParent, StageOpens, StageWrites, Publish, PublicationFails, CheckPublic, PublicUnreadable,
     WriteLabels
<1>4. DocsStep(r) => BeginDocs(r)
  BY DEF DocsStep, DiscoverPattern, TraversalFails, LoadSource,
     SourceUnreadable, PrepareOutput, CheckTarget, StageDocument, Persist, OutputFails
<1> QED BY <1>1, <1>2, <1>3, <1>4 DEF StepOf

QuietInv ==
  Inv /\ Known /\ StagedByLone /\ ValidRequests /\ OrderlyInv /\ SoFar

LEMMA NothingHappens ==
  ASSUME NEW r \in Runs, RunSoFar(r), UNCHANGED toolVars
  PROVE  RunSoFar(r)'
<1>1. setting' = setting /\ pc' = pc /\ work' = work /\ files' = files /\ seen' = seen
  BY DEF toolVars
<1>2. Job(r)' = Job(r) /\ Public(r)' = Public(r) /\ WrittenSoFar(r)' = WrittenSoFar(r)
  BY <1>1, Zenon DEF Job, Public, WrittenSoFar
<1>3. ScaffoldSoFar(r) => ScaffoldSoFar(r)'
  BY <1>1, <1>2 DEF ScaffoldSoFar
<1>4. SchemaSoFar(r) => SchemaSoFar(r)'
  BY <1>1, <1>2 DEF SchemaSoFar
<1>5. DocsSoFar(r) => DocsSoFar(r)'
  BY <1>1, <1>2 DEF DocsSoFar
<1> QED BY <1>1, <1>3, <1>4, <1>5 DEF RunSoFar

LEMMA QuietStep ==
  ASSUME QuietInv, Inv', [ToolNext]_toolVars, NEW r \in Runs, met'[r] = {}
  PROVE  /\ Active(r)' => RunSoFar(r)'
         /\ Exits(r) => Promised(Job(r), exit'[r].code, seen'[r], files')
<1> USE DEF QuietInv
<1>1. CASE Active(r)
  <2>1. /\ met[r] = {}
        /\ \/ UNCHANGED toolVars
           \/ (ScaffoldStep(r) \/ SchemaStep(r) \/ DocsStep(r)) /\ seen' = seen
    BY <1>1, QuietMove
  <2>2. RunSoFar(r) /\ Staging(r)
    BY <1>1, <2>1 DEF SoFar, StagedByLone, Lone
  <2>3. CASE UNCHANGED toolVars
    BY <2>2, <2>3, NothingHappens DEF toolVars, Exits
  <2>4. ASSUME StepOf(r), seen' = seen
        PROVE  setting' = setting /\ Job(r)' = Job(r)
    BY <2>4, StepIsLocal DEF Local, Job, Inv
  <2>5. Active(r)' \/ pc'[r] = "exited" \/ pc'[r] = "start"
    BY DEF Active
  <2>6. CASE ScaffoldStep(r) /\ seen' = seen
    <3>1. Job(r)' = Job(r) /\ Job(r).command = "scaffold"
      BY <2>4, <2>6, StepsOfCommand DEF StepOf
    <3>2. ScaffoldSoFar(r)
      BY <1>1, <2>2, <3>1, LabelsOfCommand DEF RunSoFar
    <3>3. /\ pc'[r] # "exited" => ScaffoldSoFar(r)'
          /\ pc'[r] = "exited" => ScaffoldPromise(Job(r), exit'[r].code, seen[r], files')
      BY <1>1, <2>6, <3>2, ScaffoldGoesOn
    <3>4. Active(r)' => pc'[r] # "exited" /\ pc'[r] \notin SchemaLabels /\ pc'[r] \notin DocsLabels
      BY <3>1, LabelsOfCommand DEF Active, Inv, ProcessInv, JobOf, Suits
    <3> QED BY <2>6, <3>1, <3>3, <3>4 DEF RunSoFar, Exits, Promised
  <2>7. CASE SchemaStep(r) /\ seen' = seen
    <3>1. Job(r)' = Job(r) /\ Job(r).command \in {"gen", "check"}
      BY <2>4, <2>7, StepsOfCommand DEF StepOf
    <3>2. SchemaSoFar(r)
      BY <1>1, <2>2, <3>1, LabelsOfCommand DEF RunSoFar
    <3>3. /\ pc'[r] # "exited" => SchemaSoFar(r)'
          /\ pc'[r] = "exited" => SchemaPromise(Job(r), exit'[r].code, seen[r], files')
      BY <1>1, <2>1, <2>2, <2>7, <3>2, SchemaGoesOn
    <3>4. Active(r)' => pc'[r] # "exited" /\ pc'[r] \notin ScaffoldLabels /\ pc'[r] \notin DocsLabels
      BY <3>1, LabelsOfCommand DEF Active, Inv, ProcessInv, JobOf, Suits
    <3> QED BY <2>7, <3>1, <3>3, <3>4 DEF RunSoFar, Exits, Promised
  <2>8. CASE DocsStep(r) /\ seen' = seen
    <3>1. Job(r)' = Job(r) /\ Job(r).command = "docs"
      BY <2>4, <2>8, StepsOfCommand DEF StepOf
    <3>2. DocsSoFar(r)
      BY <1>1, <2>2, <3>1, LabelsOfCommand DEF RunSoFar
    <3>3. /\ pc'[r] # "exited" => DocsSoFar(r)'
          /\ pc'[r] = "exited" => DocsPromise(Job(r), exit'[r].code, seen[r], files')
      BY <1>1, <2>8, <3>2, DocsGoesOn
    <3>4. Active(r)' => pc'[r] # "exited" /\ pc'[r] \notin ScaffoldLabels /\ pc'[r] \notin SchemaLabels
      BY <3>1, LabelsOfCommand DEF Active, Inv, ProcessInv, JobOf, Suits
    <3> QED BY <2>8, <3>1, <3>3, <3>4 DEF RunSoFar, Exits, Promised
  <2> QED BY <2>1, <2>3, <2>6, <2>7, <2>8
<1>2. CASE ~Active(r)
  <2>0. SUFFICES ASSUME Active(r)' \/ Exits(r)
                 PROVE  /\ Active(r)' => RunSoFar(r)'
                        /\ Exits(r) => Promised(Job(r), exit'[r].code, seen'[r], files')
    OBVIOUS
  <2>1. pc'[r] # pc[r]
    BY <1>2, <2>0 DEF Active, Exits
  <2>2. StepOf(r)
    <3>1. ASSUME NEW s \in Runs, StepOf(s) PROVE s = r
      BY <2>1, <3>1, StepIsLocal DEF Local, Inv
    <3>2. ~(UNCHANGED toolVars) /\ ~Ended /\ ~Interfere
      BY <2>1 DEF toolVars, Ended, Interfere
    <3> QED BY <3>1, <3>2 DEF ToolNext, StepOf
  <2>3. pc[r] = "start" /\ (CheckRequest(r) \/ BeginSchemas(r) \/ BeginDocs(r))
    BY <1>2, <2>2, BeginsOrRuns, FirstSteps DEF Inv
  <2>4. Job(r)' = Job(r)
    BY <2>2, StepIsLocal DEF Local, Job, Inv
  <2>5. CASE CheckRequest(r)
    <3>1. Job(r).command = "scaffold"
      BY <2>5, StepsOfCommand DEF ScaffoldStep
    <3>2. /\ pc'[r] \notin {"start", "exited"} => ScaffoldSoFar(r)'
          /\ pc'[r] = "exited" => ScaffoldPromise(Job(r), exit'[r].code, seen'[r], files')
      BY <2>5, ScaffoldBegins
    <3>3. Active(r)' => pc'[r] \notin SchemaLabels /\ pc'[r] \notin DocsLabels
      BY <2>4, <3>1 DEF Active, Inv, ProcessInv, JobOf, Suits
    <3> QED BY <3>1, <3>2, <3>3 DEF RunSoFar, Exits, Promised, Active
  <2>6. CASE BeginSchemas(r)
    <3>1. Job(r).command \in {"gen", "check"}
      BY <2>6, StepsOfCommand DEF SchemaStep
    <3>2. SchemaSoFar(r)' /\ pc'[r] = "prepare"
      BY <2>6, SchemaBegins
    <3> QED BY <3>2 DEF RunSoFar, Exits, ScaffoldLabels, DocsLabels
  <2>7. CASE BeginDocs(r)
    <3>1. Job(r).command = "docs"
      BY <2>7, StepsOfCommand DEF DocsStep
    <3>2. /\ pc'[r] \notin {"start", "exited"} => DocsSoFar(r)'
          /\ pc'[r] = "exited" => DocsPromise(Job(r), exit'[r].code, seen'[r], files')
      BY <2>7, DocsBegins
    <3>3. Active(r)' => pc'[r] \notin SchemaLabels /\ pc'[r] \notin ScaffoldLabels
      BY <2>4, <3>1 DEF Active, Inv, ProcessInv, JobOf, Suits
    <3> QED BY <3>1, <3>2, <3>3 DEF RunSoFar, Exits, Promised, Active
  <2> QED BY <2>3, <2>5, <2>6, <2>7
<1> QED BY <1>1, <1>2

\* However often commands run, fail or are killed: the files stay a tree, no symlink comes to
\* be where the generator writes, and what `docs` reads is a script nobody has open.
THEOREM ReachableOrder == ToolSpec => [](Inv /\ ValidRequests /\ OrderlyInv)
<1>1. ToolInit => ValidRequests /\ OrderlyInv
  <2>1. ToolInit => ValidRequests
    BY DEF ToolInit, ValidRequests, DocsLabels
  <2> QED BY <2>1, InitOrder
<1>2. Inv /\ Inv' /\ ValidRequests /\ OrderlyInv /\ [ToolNext]_toolVars => ValidRequests' /\ OrderlyInv'
  BY ValidKept, OrderKept
<1> QED BY <1>1, <1>2, Reachable, PTL DEF ToolSpec

LEMMA ReachableQuiet == ToolSpec => []QuietInv
<1>1. ToolInit => Known /\ StagedByLone /\ SoFar
  <2>1. ToolInit => \A r \in Runs : ~Active(r)
    BY DEF ToolInit, Active
  <2>2. ToolInit => Known
    BY <2>1 DEF Known
  <2> QED BY <2>1, <2>2, InitReplaces DEF SoFar
<1>2. QuietInv /\ Inv' /\ [ToolNext]_toolVars => Known' /\ StagedByLone' /\ SoFar'
  <2>1. QuietInv /\ Inv' /\ [ToolNext]_toolVars => SoFar'
    BY QuietStep DEF SoFar
  <2>2. QuietInv /\ [ToolNext]_toolVars => Known' /\ StagedByLone'
    BY KnownKept, StagedKept DEF QuietInv, Inv
  <2> QED BY <2>1, <2>2
<1> QED BY <1>1, <1>2, Reachable, ReachableOrder, PTL DEF ToolSpec, QuietInv

\* For every set of processes and paths, every workload, any contracts and any scripts: a run
\* that meets no failure, kill, replacement or other run exits with the code its input calls
\* for, and leaves exactly the files it should (Tools!QuietRun).
THEOREM QuietTheorem == ToolSpec => QuietRun
<1>1. QuietInv /\ Inv' /\ [ToolNext]_toolVars =>
        [\A r \in Runs : (Exits(r) /\ met'[r] = {}) =>
           Promised(Job(r), exit'[r].code, seen'[r], files')]_toolVars
  BY QuietStep
<1> QED BY <1>1, Reachable, ReachableQuiet, PTL DEF ToolSpec, QuietRun

-----------------------------------------------------------------------------
(* What `docs` has loaded, whatever disturbs it.                           *)

\* Each source has been read at most once, what was kept is what the parser accepted, and
\* the document is that of all that was kept.
Held(request, w, label) ==
  /\ IsFiniteSet(w.todo) /\ w.todo \subseteq SourcePlaces(request) \cap Paths
  /\ IsFiniteSet(w.loaded)
  /\ \A l \in w.loaded : l.path \in Paths \ w.todo /\ AcceptedFile(l)
  /\ \A l, m \in w.loaded : l.path = m.path => l = m
  /\ label = "discover" => w.loaded = {} /\ w.at \in DOMAIN request.patterns
  /\ label = "load" => w.todo # {}
  /\ label \in {"output", "target", "stage_document", "persist"} =>
       w.document = Rendered(Catalog(w.loaded), request.format)

HeldInv == \A r \in Runs : pc[r] \in DocsLabels => Held(Job(r), work[r], pc[r])

\* What the parser accepts is a loaded source.
LEMMA LoadedIsAccepted ==
  ASSUME NEW path, NEW lines \in Scripts, Parsed[Source(lines)].error = "none"
  PROVE  AcceptedFile(Loaded(path, lines)) /\ Loaded(path, lines).path = path
<1>1. Source(lines) \in AllSources
  BY DEF AllSources
<1>2. Parsed[Source(lines)] = Parse(Source(lines))
  BY <1>1 DEF Parsed
<1>3. /\ Loaded(path, lines).source = Source(lines) /\ Loaded(path, lines).path = path
      /\ Loaded(path, lines).parsed = Parse(Source(lines))
  BY <1>2 DEF Loaded
<1>4. Accepted(Source(lines), lines)
  BY <1>2 DEF Accepted
<1> QED BY <1>3, <1>4 DEF AcceptedFile

\* The document of what is held is as it must be.
LEMMA HeldIsFine ==
  ASSUME NEW request, NEW w, NEW label, Held(request, w, label)
  PROVE  AcceptedFiles(w.loaded)
<1>1. InOrderOf({l.path : l \in w.loaded})
  <2>1. {l.path : l \in w.loaded} \subseteq Paths
    BY DEF Held
  <2> QED BY <2>1, OrderAssumption DEF InOrderOf
<1>2. \A l \in w.loaded : AcceptedFile(l) /\ Words(Untitled(l.path)) \in Seq(STRING)
  BY StemAssumption DEF Held
<1> QED BY <1>1, <1>2 DEF Held, AcceptedFiles

\* A pattern adds what it selects.
LEMMA DiscoverHolds ==
  ASSUME Inv, NEW r \in Runs, DiscoverPattern(r), Held(Job(r), work[r], pc[r]), pc'[r] # "exited"
  PROVE  Held(Job(r), work'[r], pc'[r])
<1> DEFINE request == Job(r)
           w == work[r]
           pattern == request.patterns[w.at]
           S == Selected(pattern, files)
<1>1. /\ pc[r] = "discover" /\ DOMAIN work = Runs /\ DOMAIN pc = Runs /\ request # None
      /\ request.command = "docs"
      /\ DOMAIN w = {"at", "todo", "loaded", "failed", "document", "staged"}
  BY DEF DiscoverPattern, Inv, ProcessInv, Bookkeeping, JobOf, Suits, DocsLabels, WorkInv, WorkOf
<1>2. DocsRequest(request) /\ w.at \in DOMAIN request.patterns /\ w.loaded = {}
  BY <1>1, RequestOfDocs DEF Inv, Held
<1>3. PatternError(pattern, files) = "none"
  BY <1>1 DEF DiscoverPattern, Fails, ExitWith, Goto
<1>4. S # {}
  BY <1>3 DEF PatternError
<1>5. /\ IsFiniteSet(S) /\ S \subseteq Paths
      /\ S \subseteq {Normalized(m) : m \in {p \in pattern.matches : Last(p) \in ReporNames}}
  <2>1. /\ IsFiniteSet(pattern.matches) /\ pattern.matches \subseteq Seq(STRING)
        /\ \A m \in pattern.matches : Normalized(m) \in Paths \cup {<<>>}
    BY <1>2 DEF DocsRequest
  <2> HIDE DEF pattern
  <2> QED BY <2>1, SelectedFiles
<1>6. S \subseteq SourcePlaces(request)
  BY <1>2, <1>5 DEF SourcePlaces
<1>7. /\ work' = [work EXCEPT ![r].todo = @ \cup S, ![r].at = @ + 1]
      /\ pc'[r] = IF w.at = Len(request.patterns) THEN "load" ELSE "discover"
  BY <1>1, <1>3 DEF DiscoverPattern, Goto
<1>8. work'[r].todo = w.todo \cup S /\ work'[r].at = w.at + 1 /\ work'[r].loaded = {}
  BY <1>1, <1>2, <1>7
<1> HIDE DEF S, pattern
<1>9. IsFiniteSet(work'[r].todo) /\ work'[r].todo \subseteq SourcePlaces(request) \cap Paths
      /\ work'[r].todo # {}
  <2>1. IsFiniteSet(w.todo) /\ w.todo \subseteq SourcePlaces(request) \cap Paths
    BY DEF Held
  <2>2. IsFiniteSet(w.todo \cup S)
    BY <1>5, <2>1, FS_Union
  <2> QED BY <1>4, <1>5, <1>6, <1>8, <2>1, <2>2
<1>10. pc'[r] = "discover" => work'[r].at \in DOMAIN request.patterns
  <2>1. PICK n \in Nat : DOMAIN request.patterns = 1 .. n /\ Len(request.patterns) = n
    BY <1>2 DEF DocsRequest
  <2>2. w.at \in 1 .. n /\ (pc'[r] = "discover" => w.at # n)
    BY <1>2, <1>7, <2>1
  <2> QED BY <1>8, <2>1, <2>2
<1>11. IsFiniteSet({})
  BY FS_EmptySet
<1> QED BY <1>7, <1>8, <1>9, <1>10, <1>11 DEF Held

\* After a source is read.
LEMMA AfterSourceHolds ==
  ASSUME Inv, NEW r \in Runs, pc[r] = "load", NEW w, AfterSource(r, w), pc'[r] # "exited",
         DOMAIN w = DOMAIN work[r],
         IsFiniteSet(w.todo), w.todo \subseteq SourcePlaces(Job(r)) \cap Paths, IsFiniteSet(w.loaded),
         \A l \in w.loaded : l.path \in Paths \ w.todo /\ AcceptedFile(l),
         \A l, m \in w.loaded : l.path = m.path => l = m
  PROVE  Held(Job(r), work'[r], pc'[r])
<1>1. /\ DOMAIN work = Runs /\ DOMAIN pc = Runs
      /\ DOMAIN w = {"at", "todo", "loaded", "failed", "document", "staged"}
  BY DEF Inv, ProcessInv, Bookkeeping, DocsLabels, WorkInv, WorkOf
<1>2. CASE w.todo # {}
  <2>1. work'[r] = w /\ pc'[r] = "load"
    BY <1>1, <1>2 DEF AfterSource
  <2> QED BY <1>2, <2>1 DEF Held
<1>3. CASE w.todo = {}
  <2> DEFINE document == Rendered(Catalog(w.loaded), Job(r).format)
  <2>1. ~w.failed
    BY <1>1, <1>3 DEF AfterSource, Fails, ExitWith, Goto
  <2>2. work' = [work EXCEPT ![r] = [w EXCEPT !.document = document]] /\ pc' = [pc EXCEPT ![r] = "output"]
    BY <1>3, <2>1 DEF AfterSource, Goto
  <2> HIDE DEF document
  <2>3. /\ work'[r].document = document /\ work'[r].loaded = w.loaded /\ work'[r].todo = w.todo
        /\ pc'[r] = "output"
    BY <1>1, <2>2
  <2> QED BY <2>3 DEF Held, document
<1> QED BY <1>2, <1>3

LEMMA LoadHolds ==
  ASSUME Inv, OrderlyInv, NEW r \in Runs, LoadSource(r) \/ SourceUnreadable(r),
         Held(Job(r), work[r], pc[r]), pc'[r] # "exited"
  PROVE  Held(Job(r), work'[r], pc'[r])
<1> DEFINE request == Job(r)
           old == work[r]
           path == NextSource(r)
           w == [work[r] EXCEPT !.todo = @ \ {path}]
           file == files[Followed(path)]
<1>1. /\ pc[r] = "load" /\ DOMAIN work = Runs /\ DOMAIN pc = Runs /\ request # None
      /\ request.command = "docs"
      /\ DOMAIN old = {"at", "todo", "loaded", "failed", "document", "staged"}
  BY DEF LoadSource, SourceUnreadable, Inv, ProcessInv, Bookkeeping, JobOf, Suits, DocsLabels, WorkInv, WorkOf
<1>2. SourcePlaces(request) \cap Paths \subseteq SourcesIn(setting)
  BY <1>1, RequestOfDocs DEF Inv
<1>3. /\ IsFiniteSet(old.todo) /\ old.todo \subseteq SourcePlaces(request) \cap Paths /\ old.todo # {}
      /\ IsFiniteSet(old.loaded)
      /\ \A l \in old.loaded : l.path \in Paths \ old.todo /\ AcceptedFile(l)
      /\ \A l, m \in old.loaded : l.path = m.path => l = m
  BY <1>1 DEF Held
<1>4. path \in old.todo
  <2> DEFINE T == old.todo
  <2>1. T \in SUBSET Paths /\ T # {} /\ IsFiniteSet(T)
    BY <1>3
  <2> HIDE DEF T
  <2>2. \E p \in T : \A q \in T : p = q \/ PathBefore(p, q)
    BY <2>1, FirstSource
  <2>3. path = CHOOSE p \in T : \A q \in T : p = q \/ PathBefore(p, q)
    BY DEF NextSource, T
  <2>4. path \in T
    BY <2>2, <2>3
  <2> QED BY <2>4 DEF T
<1>5. path \in SourcesIn(setting) /\ path \in Paths
  BY <1>2, <1>3, <1>4
<1>6. file.kind = "file" => file.content.lines \in Scripts
  <2>1. path \in PlacesRead(setting)
    BY <1>5 DEF PlacesRead
  <2>2. Followed(path) \in PlacesRead(setting)
    BY <1>5, <2>1 DEF Followed, OrderlyInv, Orderly
  <2> QED BY <2>2 DEF OrderlyInv, Orderly
<1> DEFINE left == old.todo \ {path}
<1>7. IsFiniteSet(left) /\ left \subseteq SourcePlaces(request) \cap Paths
  BY <1>3, FS_Subset
<1>8. ASSUME NEW v, AfterSource(r, v), DOMAIN v = DOMAIN old, v.todo = left, v.loaded = old.loaded
      PROVE  Held(request, work'[r], pc'[r])
  <2>1. \A l \in v.loaded : l.path \in Paths \ v.todo /\ AcceptedFile(l)
    BY <1>3, <1>8
  <2>2. IsFiniteSet(v.todo) /\ v.todo \subseteq SourcePlaces(request) \cap Paths /\ IsFiniteSet(v.loaded)
    BY <1>3, <1>7, <1>8
  <2>3. \A l, m \in v.loaded : l.path = m.path => l = m
    BY <1>3, <1>8
  <2> HIDE DEF left, path, w, file
  <2> QED BY <1>1, <1>8, <2>1, <2>2, <2>3, AfterSourceHolds
<1>9. ASSUME NEW v, AfterSource(r, v), DOMAIN v = DOMAIN old, v.todo = left,
             NEW l, v.loaded = old.loaded \cup {l}, AcceptedFile(l), l.path = path
      PROVE  Held(request, work'[r], pc'[r])
  <2>1. \A m \in v.loaded : m.path \in Paths \ v.todo /\ AcceptedFile(m)
    BY <1>3, <1>5, <1>9
  <2>2. IsFiniteSet(v.todo) /\ v.todo \subseteq SourcePlaces(request) \cap Paths /\ IsFiniteSet(v.loaded)
    <3>1. IsFiniteSet(old.loaded \cup {l})
      BY <1>3, FS_AddElement
    <3> QED BY <1>7, <1>9, <3>1
  <2>3. \A k, m \in v.loaded : k.path = m.path => k = m
    BY <1>3, <1>4, <1>9
  <2> HIDE DEF left, path, w, file
  <2> QED BY <1>1, <1>9, <2>1, <2>2, <2>3, AfterSourceHolds
<1>10. CASE SourceUnreadable(r)
  <2> DEFINE v == [work[r] EXCEPT !.todo = @ \ {path}, !.failed = TRUE]
  <2>1. AfterSource(r, v)
    BY <1>10, Zenon DEF SourceUnreadable
  <2>2. DOMAIN v = DOMAIN old /\ v.todo = left /\ v.loaded = old.loaded
    BY <1>1
  <2> HIDE DEF v, left, path, w, file
  <2> QED BY <1>8, <2>1, <2>2
<1>11. CASE LoadSource(r)
  <2> DEFINE bad == IF file.kind = "file" THEN Parsed[Source(file.content.lines)].error # "none" ELSE TRUE
             l == Loaded(path, file.content.lines)
             u == [w EXCEPT !.failed = TRUE]
             v == [w EXCEPT !.loaded = @ \cup {l}]
  <2>1. AfterSource(r, IF bad THEN u ELSE v)
    BY <1>11, Zenon DEF LoadSource
  <2>2. /\ DOMAIN u = DOMAIN old /\ u.todo = left /\ u.loaded = old.loaded
        /\ DOMAIN v = DOMAIN old /\ v.todo = left /\ v.loaded = old.loaded \cup {l}
    <3> HIDE DEF l
    <3> QED BY <1>1
  <2>3. CASE bad
    <3> HIDE DEF bad, u, v, left, path, w, file
    <3> QED BY <1>8, <2>1, <2>2, <2>3
  <2>4. CASE ~bad
    <3>1. AcceptedFile(l) /\ l.path = path
      <4>1. file.content.lines \in Scripts /\ Parsed[Source(file.content.lines)].error = "none"
        BY <1>6, <2>4
      <4> HIDE DEF file, path
      <4> QED BY <4>1, LoadedIsAccepted
    <3> HIDE DEF bad, u, v, left, path, w, file, l
    <3> QED BY <1>9, <2>1, <2>2, <2>4, <3>1
  <2> QED BY <2>3, <2>4
<1> QED BY <1>10, <1>11

\* Nothing is read once the document is made.
LEMMA OutputHolds ==
  ASSUME Inv, NEW r \in Runs,
         PrepareOutput(r) \/ CheckTarget(r) \/ StageDocument(r) \/ Persist(r) \/ OutputFails(r),
         Held(Job(r), work[r], pc[r]), pc'[r] # "exited"
  PROVE  Held(Job(r), work'[r], pc'[r])
<1>1. /\ DOMAIN work = Runs /\ DOMAIN pc = Runs /\ pc[r] \in {"output", "target", "stage_document", "persist"}
      /\ DOMAIN work[r] = {"at", "todo", "loaded", "failed", "document", "staged"}
  BY DEF PrepareOutput, CheckTarget, StageDocument, Persist, OutputFails, Inv, ProcessInv,
     Bookkeeping, DocsLabels, WorkInv, WorkOf
<1>2. /\ pc'[r] \in {"target", "stage_document", "persist"}
      /\ work'[r].todo = work[r].todo /\ work'[r].loaded = work[r].loaded
      /\ work'[r].document = work[r].document
  BY <1>1 DEF PrepareOutput, CheckTarget, StageDocument, Persist, OutputFails, Fails, ExitWith, Goto
<1> QED BY <1>1, <1>2 DEF Held

LEMMA BeginHolds ==
  ASSUME Inv, NEW r \in Runs, BeginDocs(r), pc'[r] # "exited"
  PROVE  Held(Job(r), work'[r], pc'[r])
<1>1. /\ DOMAIN work = Runs /\ DOMAIN pc = Runs /\ Job(r) # None /\ Job(r).command = "docs"
  BY DEF BeginDocs, Docs, Begin, Inv, ProcessInv, Bookkeeping, JobOf
<1>2. pc'[r] = "discover" /\ Job(r).patterns # <<>>
  BY <1>1 DEF BeginDocs, Fails, ExitWith, Goto
<1>3. work'[r] = [at |-> 1, todo |-> {}, loaded |-> {}, failed |-> FALSE, document |-> None, staged |-> None]
  BY <1>1 DEF BeginDocs
<1>4. work'[r].at = 1 /\ work'[r].todo = {} /\ work'[r].loaded = {}
  BY <1>3
<1>5. 1 \in DOMAIN Job(r).patterns
  BY <1>1, <1>2, RequestOfDocs DEF DocsRequest, Inv
<1>6. IsFiniteSet({})
  BY FS_EmptySet
<1> QED BY <1>2, <1>4, <1>5, <1>6 DEF Held

LEMMA HeldKept ==
  ASSUME Inv, Inv', OrderlyInv, HeldInv, [ToolNext]_toolVars
  PROVE  HeldInv'
<1>1. CASE UNCHANGED toolVars \/ Ended \/ Interfere
  <2>1. pc' = pc /\ setting' = setting /\ work' = work
    BY <1>1 DEF toolVars, Ended, Interfere
  <2> QED BY <2>1 DEF HeldInv, Job
<1>2. ASSUME NEW s \in Runs, StepOf(s) PROVE HeldInv'
  <2>1. Local(s) /\ Job(s)' = Job(s)
    BY <1>2, StepIsLocal DEF Inv, Local, Job
  <2>2. ASSUME NEW r \in Runs \ {s}, pc'[r] \in DocsLabels PROVE Held(Job(r), work[r], pc[r])'
    BY <2>1, <2>2 DEF HeldInv, Local, Job
  <2>3. ASSUME pc'[s] \in DocsLabels PROVE Held(Job(s), work'[s], pc'[s])
    <3>1. pc'[s] # "exited" /\ pc'[s] # "start" /\ Job(s).command = "docs"
      BY <2>1, <2>3 DEF DocsLabels, Inv, ProcessInv, JobOf, Suits
    <3>2. DocsStep(s)
      <4>1. ~Kill(s)
        BY <3>1 DEF Kill, ExitWith, Goto, Inv, ProcessInv
      <4> QED BY <1>2, <3>1, <4>1, StepsOfCommand DEF StepOf
    <3>3. CASE BeginDocs(s)
      BY <3>1, <3>3, BeginHolds
    <3>4. CASE ~BeginDocs(s)
      <4>1. pc[s] \in DocsLabels
        BY <3>2, <3>4 DEF DocsLabels, DocsStep, DiscoverPattern, TraversalFails, LoadSource,
           SourceUnreadable, PrepareOutput, CheckTarget, StageDocument, Persist, OutputFails
      <4>2. Held(Job(s), work[s], pc[s])
        BY <4>1 DEF HeldInv
      <4>3. ~TraversalFails(s)
        BY <3>1 DEF TraversalFails, Fails, ExitWith, Goto, Inv, ProcessInv
      <4> QED BY <3>1, <3>2, <3>4, <4>2, <4>3, DiscoverHolds, LoadHolds, OutputHolds DEF DocsStep
    <3> QED BY <3>3, <3>4
  <2> QED BY <2>1, <2>2, <2>3 DEF HeldInv
<1> QED BY <1>1, <1>2 DEF ToolNext, StepOf

\* A document that is being written is well formed.
LEMMA HeldDocuments ==
  ASSUME HeldInv
  PROVE  DocumentWellFormed
<1> SUFFICES ASSUME NEW r \in Runs, RenderedBy(r)
             PROVE  FineDocument(work[r].document, {l.path : l \in work[r].loaded})
  BY DEF DocumentWellFormed, FineDocument
<1>1. Held(Job(r), work[r], pc[r]) /\ pc[r] = "target"
  BY DEF HeldInv, RenderedBy, DocsLabels
<1>2. work[r].document = Rendered(Catalog(work[r].loaded), Job(r).format)
  BY <1>1 DEF Held
<1>3. AcceptedFiles(work[r].loaded)
  BY <1>1, HeldIsFine
<1> QED BY <1>2, <1>3, AcceptedDocument

\* For every set of scripts and whatever disturbs the runs, in a document that `docs` is about
\* to write every entry of the contents leads to one heading and no two to the same, no source
\* ends its fence, and every source has its place (Tools!DocumentWellFormed).
THEOREM RenderedTheorem == ToolSpec => []DocumentWellFormed
<1>1. ToolInit => HeldInv
  BY DEF ToolInit, HeldInv, DocsLabels
<1>2. Inv /\ Inv' /\ OrderlyInv /\ HeldInv /\ [ToolNext]_toolVars => HeldInv'
  BY HeldKept
<1>3. HeldInv => DocumentWellFormed
  BY HeldDocuments
<1> QED BY <1>1, <1>2, <1>3, Reachable, ReachableOrder, PTL DEF ToolSpec
=============================================================================
