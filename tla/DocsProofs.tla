------------------------------ MODULE DocsProofs ------------------------------
(***************************************************************************)
(* The parser against the canonical form, for sources of any length, and   *)
(* the document that is made of the sources it accepts, for any number of  *)
(* them.  The parser goes from line to line and from block to block, so an *)
(* induction over a source is written as a search for the first line or    *)
(* block at which a claim fails.                                           *)
(***************************************************************************)
EXTENDS DocsCatalog, FiniteSetTheorems, NaturalsInduction, SequenceTheorems, WellFoundedInduction, TLAPS

LEMMA FirstNumber ==
  ASSUME NEW S \in SUBSET Nat, S # {}
  PROVE  Min(S) \in S /\ \A k \in S : Min(S) <= k
<1>1. PICK m \in S : \A k \in S : <<k, m>> \notin OpToRel(<, Nat)
  BY NatLessThanWellFounded, WFMin
<1>2. ASSUME NEW k \in S PROVE m <= k
  <2>1. <<k, m>> \in Nat \X Nat
    OBVIOUS
  <2>2. ~(k < m)
    BY <1>1, <2>1 DEF OpToRel
  <2> QED BY <2>2
<1> QED BY <1>2 DEF Min

-----------------------------------------------------------------------------
(* A set of line numbers in order.                                         *)

\* Every number of the set, each once, from the least on.
LEMMA InOrderIsOrder ==
  ASSUME NEW S \in SUBSET Nat, IsFiniteSet(S)
  PROVE  /\ Cardinality(S) \in Nat /\ DOMAIN InOrder(S) = 1 .. Cardinality(S)
         /\ Range(InOrder(S)) = S
         /\ \A j, k \in DOMAIN InOrder(S) : j < k => InOrder(S)[j] < InOrder(S)[k]
<1> DEFINE UpTo(i) == {j \in S : j <= i}
           rank == [i \in S |-> Cardinality(UpTo(i))]
           n == Cardinality(S)
<1>1. n \in Nat
  BY FS_CardinalityType
<1>2. \A i \in S : IsFiniteSet(UpTo(i)) /\ rank[i] \in Nat /\ rank[i] <= n
  BY FS_Subset, FS_CardinalityType
<1>3. ASSUME NEW i \in S, NEW j \in S, i < j
      PROVE  rank[i] < rank[j]
  <2>1. UpTo(i) \in SUBSET UpTo(j) /\ UpTo(i) # UpTo(j)
    <3>1. j \in UpTo(j) /\ j \notin UpTo(i)
      BY <1>3
    <3>2. \A k \in S : k <= i => k <= j
      BY <1>3
    <3> QED BY <3>1, <3>2
  <2>2. Cardinality(UpTo(i)) <= Cardinality(UpTo(j)) /\ Cardinality(UpTo(i)) # Cardinality(UpTo(j))
    BY <1>2, <2>1, FS_Subset
  <2> QED BY <1>2, <2>2
<1>4. \A i \in S : rank[i] \in 1 .. n
  <2>1. ASSUME NEW i \in S PROVE rank[i] # 0
    <3>1. i \in UpTo(i)
      OBVIOUS
    <3> QED BY <1>2, <3>1, FS_EmptySet
  <2> QED BY <1>1, <1>2, <2>1
<1>5. rank \in Injection(S, 1 .. n)
  <2>1. \A i, j \in S : rank[i] = rank[j] => i = j
    <3> SUFFICES ASSUME NEW i \in S, NEW j \in S, rank[i] = rank[j], i # j PROVE FALSE
      OBVIOUS
    <3>1. i < j \/ j < i
      OBVIOUS
    <3>2. rank[i] < rank[j] \/ rank[j] < rank[i]
      BY <1>3, <3>1
    <3>3. rank[i] \in Nat /\ rank[j] \in Nat
      BY <1>2
    <3> HIDE DEF rank
    <3> QED BY <3>2, <3>3
  <2>2. rank \in [S -> 1 .. n]
    BY <1>4
  <2> HIDE DEF rank
  <2> QED BY <2>1, <2>2 DEF Injection, IsInjective
<1>6. rank \in Surjection(S, 1 .. n)
  <2>1. IsFiniteSet(1 .. n) /\ Cardinality(1 .. n) = n
    BY <1>1, FS_Interval
  <2> HIDE DEF rank
  <2> QED BY <1>5, <2>1, FS_Injection
<1>7. \A k \in 1 .. n : \E i \in S : rank[i] = k
  <2> HIDE DEF rank
  <2> QED BY <1>6 DEF Surjection
<1>8. \A k \in 1 .. n : InOrder(S)[k] \in S /\ rank[InOrder(S)[k]] = k
  BY <1>7 DEF InOrder
<1>9. DOMAIN InOrder(S) = 1 .. n
  BY DEF InOrder
<1> HIDE DEF rank, n
<1>10. \A i \in S : InOrder(S)[rank[i]] = i
  BY <1>4, <1>5, <1>8 DEF Injection, IsInjective
<1>11. Range(InOrder(S)) = S
  BY <1>4, <1>8, <1>9, <1>10 DEF Range
<1>12. ASSUME NEW j \in 1 .. n, NEW k \in 1 .. n, j < k
       PROVE  InOrder(S)[j] < InOrder(S)[k]
  <2> DEFINE a == InOrder(S)[j]
             b == InOrder(S)[k]
  <2>1. a \in S /\ b \in S /\ rank[a] = j /\ rank[b] = k
    BY <1>8
  <2> HIDE DEF a, b
  <2>2. a \in Nat /\ b \in Nat /\ j \in Nat /\ k \in Nat
    BY <1>1, <2>1 DEF n
  <2>3. a # b /\ ~(b < a)
    BY <1>3, <1>12, <2>1, <2>2
  <2>4. a < b
    BY <2>2, <2>3
  <2> QED BY <2>4 DEF a, b
<1> QED BY <1>1, <1>9, <1>11, <1>12 DEF n

-----------------------------------------------------------------------------
(* Which lines are code.                                                   *)

\* The modes are those the definition asks for; by the first line up to which there are none.
LEMMA ModesFollow ==
  ASSUME NEW lines, Len(lines) \in Nat
  PROVE  /\ DOMAIN Modes(lines) = 1 .. Len(lines) + 1 /\ Modes(lines)[1] = Code
         /\ \A i \in 1 .. Len(lines) : Modes(lines)[i + 1] = After(Modes(lines)[i], lines[i])
<1> DEFINE Next(m, i) == IF i = 1 THEN Code ELSE After(m[i - 1], lines[i - 1])
           Solves(m, n) == m = [i \in 1 .. n + 1 |-> Next(m, i)]
           Failing == {n \in 0 .. Len(lines) : ~\E m : Solves(m, n)}
           n == Min(Failing)
<1>1. ASSUME Failing # {} PROVE FALSE
  <2>1. n \in Failing /\ \A k \in Failing : n <= k
    <3>1. Failing \in SUBSET Nat
      OBVIOUS
    <3> HIDE DEF Failing
    <3> QED BY <1>1, <3>1, FirstNumber
  <2> HIDE DEF n
  <2>2. CASE n = 0
    <3> DEFINE m == [i \in 1 .. 1 |-> Code]
    <3>1. Solves(m, 0)
      OBVIOUS
    <3> QED BY <2>1, <2>2, <3>1
  <2>3. CASE n # 0
    <3>1. n - 1 \in 0 .. Len(lines) /\ n \in 1 .. Len(lines) /\ ~(n <= n - 1)
      BY <2>1, <2>3
    <3>2. n - 1 \notin Failing
      BY <2>1, <3>1
    <3>3. PICK m : Solves(m, n - 1)
      BY <3>1, <3>2
    <3> DEFINE e == [i \in 1 .. n + 1 |-> IF i = n + 1 THEN Next(m, i) ELSE m[i]]
    <3>4. \A i \in 1 .. n : m[i] = Next(m, i)
      BY <3>1, <3>3
    <3>5. \A i \in 1 .. n : e[i] = m[i]
      BY <3>1
    <3>6. \A i \in 1 .. n + 1 : Next(e, i) = Next(m, i)
      <4> TAKE i \in 1 .. n + 1
      <4>1. i # 1 => i - 1 \in 1 .. n
        BY <3>1
      <4> HIDE DEF e
      <4> QED BY <3>5, <4>1
    <3>7. \A i \in 1 .. n + 1 : e[i] = Next(e, i)
      <4> TAKE i \in 1 .. n + 1
      <4>1. i # n + 1 => i \in 1 .. n
        BY <3>1
      <4> HIDE DEF Next
      <4> QED BY <3>4, <3>6, <4>1
    <3>8. Solves(e, n)
      <4> HIDE DEF Next
      <4> QED BY <3>7
    <3> QED BY <2>1, <3>8
  <2> QED BY <2>2, <2>3
<1>2. \E m : Solves(m, Len(lines))
  BY <1>1
<1>3. Modes(lines) = CHOOSE m : Solves(m, Len(lines))
  BY Zenon DEF Modes, Next
<1> HIDE DEF Solves
<1>4. Solves(Modes(lines), Len(lines))
  BY <1>2, <1>3, Zenon
<1> USE DEF Solves
<1>5. \A i \in 1 .. Len(lines) + 1 : Modes(lines)[i] = Next(Modes(lines), i)
  <2> HIDE DEF Next
  <2> QED BY <1>4
<1>6. DOMAIN Modes(lines) = 1 .. Len(lines) + 1
  <2> HIDE DEF Next
  <2> QED BY <1>4
<1>7. Modes(lines)[1] = Code
  BY <1>5
<1>8. ASSUME NEW i \in 1 .. Len(lines)
      PROVE  Modes(lines)[i + 1] = After(Modes(lines)[i], lines[i])
  <2>1. i + 1 \in 1 .. Len(lines) + 1 /\ i + 1 # 1 /\ (i + 1) - 1 = i
    OBVIOUS
  <2> QED BY <1>5, <2>1
<1> QED BY <1>6, <1>7, <1>8
-----------------------------------------------------------------------------
(* The states of the parser, one block after the other.                    *)

Follows(source, after) ==
  LET blocks == Append(source.blocks, EndOfInput)
  IN /\ after[0] = Start
     /\ \A n \in 1 .. Len(blocks) : after[n] = AddBlock(source, after[n - 1], blocks[n])

\* As for the modes.
LEMMA ParseFollows ==
  ASSUME NEW source, SyntaxOk(source), Len(Append(source.blocks, EndOfInput)) \in Nat
  PROVE  \E after : /\ Follows(source, after)
                    /\ Parse(source) = after[Len(Append(source.blocks, EndOfInput))]
<1> DEFINE blocks == Append(source.blocks, EndOfInput)
           Next(m, i) == IF i = 0 THEN Start ELSE AddBlock(source, m[i - 1], blocks[i])
           Solves(m, n) == m = [i \in 0 .. n |-> Next(m, i)]
           Failing == {n \in 0 .. Len(blocks) : ~\E m : Solves(m, n)}
           n == Min(Failing)
<1>1. ASSUME Failing # {} PROVE FALSE
  <2>1. n \in Failing /\ \A k \in Failing : n <= k
    <3>1. Failing \in SUBSET Nat
      OBVIOUS
    <3> HIDE DEF Failing
    <3> QED BY <1>1, <3>1, FirstNumber
  <2> HIDE DEF n
  <2>2. CASE n = 0
    <3> DEFINE m == [i \in 0 .. 0 |-> Start]
    <3>1. Solves(m, 0)
      OBVIOUS
    <3> QED BY <2>1, <2>2, <3>1
  <2>3. CASE n # 0
    <3>1. n - 1 \in 0 .. Len(blocks) /\ n \in 1 .. Len(blocks) /\ ~(n <= n - 1)
      BY <2>1, <2>3
    <3>2. n - 1 \notin Failing
      BY <2>1, <3>1
    <3>3. PICK m : Solves(m, n - 1)
      BY <3>1, <3>2
    <3> DEFINE e == [i \in 0 .. n |-> IF i = n THEN Next(m, i) ELSE m[i]]
    <3>4. \A i \in 0 .. n - 1 : m[i] = Next(m, i)
      BY <3>1, <3>3
    <3>5. \A i \in 0 .. n - 1 : e[i] = m[i]
      BY <3>1
    <3>6. \A i \in 0 .. n : Next(e, i) = Next(m, i)
      <4> TAKE i \in 0 .. n
      <4>1. i # 0 => i - 1 \in 0 .. n - 1
        BY <3>1
      <4> HIDE DEF e
      <4> QED BY <3>5, <4>1
    <3>7. \A i \in 0 .. n : e[i] = Next(e, i)
      <4> TAKE i \in 0 .. n
      <4>1. i # n => i \in 0 .. n - 1
        BY <3>1
      <4> HIDE DEF Next
      <4> QED BY <3>4, <3>6, <4>1
    <3>8. Solves(e, n)
      <4> HIDE DEF Next
      <4> QED BY <3>7
    <3> QED BY <2>1, <3>8
  <2> QED BY <2>2, <2>3
<1>2. \E m : Solves(m, Len(blocks))
  <2>1. Len(blocks) \in Nat
    OBVIOUS
  <2> HIDE DEF Solves, blocks
  <2>2. Len(blocks) \notin Failing
    BY <1>1
  <2> QED BY <2>1, <2>2
<1> DEFINE after == CHOOSE m : Solves(m, Len(blocks))
<1>3. Parse(source) = after[Len(blocks)]
  BY Zenon DEF Parse, Folded, Next
<1> HIDE DEF Solves, blocks
<1>4. Solves(after, Len(blocks))
  BY <1>2, Zenon
<1> HIDE DEF after
<1> USE DEF Solves
<1>5. \A i \in 0 .. Len(blocks) : after[i] = Next(after, i)
  <2> HIDE DEF Next
  <2> QED BY <1>4
<1>6. after[0] = Start
  <2>1. 0 \in 0 .. Len(blocks)
    BY DEF blocks
  <2> QED BY <1>5, <2>1
<1>7. \A k \in 1 .. Len(blocks) : after[k] = AddBlock(source, after[k - 1], blocks[k])
  <2>1. \A k \in 1 .. Len(blocks) : k \in 0 .. Len(blocks) /\ k # 0
    OBVIOUS
  <2> QED BY <1>5, <2>1
<1> QED BY <1>3, <1>6, <1>7 DEF Follows, blocks

-----------------------------------------------------------------------------
(* Code lines, and the lines of a multi-line assertion block.              *)

\* A source that was read from lines the grammar's way.
ReadFrom(source, lines) ==
  /\ lines \in Seq(Range(lines)) /\ \A i \in DOMAIN lines : Lexed(lines[i])
  /\ source = Source(lines)

ModeOf == [fence : Nat, continued : BOOLEAN, assertion : BOOLEAN]

LEMMA SourceParts ==
  ASSUME NEW source, NEW lines, ReadFrom(source, lines)
  PROVE  /\ source.lines = lines /\ source.mode = Modes(lines)
         /\ Len(lines) \in Nat /\ DOMAIN lines = 1 .. Len(lines)
         /\ source.code = {i \in DOMAIN lines : Modes(lines)[i].fence = 0 /\ ~Modes(lines)[i].continued}
         /\ source.blocks = Blocks(lines, source.mode, source.code)
<1> DEFINE code == {i \in DOMAIN lines : Modes(lines)[i].fence = 0 /\ ~Modes(lines)[i].continued}
<1>1. Len(lines) \in Nat /\ DOMAIN lines = 1 .. Len(lines)
  <2>1. lines \in Seq(Range(lines))
    BY DEF ReadFrom
  <2> QED BY <2>1
<1>2. source = [lines |-> lines, mode |-> Modes(lines), code |-> code,
                blocks |-> Blocks(lines, Modes(lines), code)]
  BY Zenon DEF ReadFrom, Source
<1> HIDE DEF code
<1>3. /\ source.lines = lines /\ source.mode = Modes(lines) /\ source.code = code
      /\ source.blocks = Blocks(lines, Modes(lines), code)
  BY <1>2
<1> QED BY <1>1, <1>3 DEF code

LEMMA AfterTyped ==
  ASSUME NEW mode \in ModeOf, NEW line, Lexed(line)
  PROVE  /\ After(mode, line) \in ModeOf
         /\ After(mode, line).assertion =>
              \/ mode.assertion /\ ~(mode.fence = 0 /\ ~mode.continued /\ line.t = "close")
              \/ mode.fence = 0 /\ ~mode.continued /\ line.t = "assert"
BY DEF After, ModeOf, Lexed

LEMMA ModesTyped ==
  ASSUME NEW source, NEW lines, ReadFrom(source, lines)
  PROVE  \A i \in 1 .. Len(lines) + 1 : Modes(lines)[i] \in ModeOf
<1> DEFINE Failing == {i \in 1 .. Len(lines) + 1 : Modes(lines)[i] \notin ModeOf}
           i == Min(Failing)
<1>1. SUFFICES ASSUME Failing # {} PROVE FALSE
  OBVIOUS
<1>2. i \in Failing /\ \A k \in Failing : i <= k
  <2>1. Failing \in SUBSET Nat
    OBVIOUS
  <2> HIDE DEF Failing
  <2> QED BY <1>1, <2>1, FirstNumber
<1> HIDE DEF i
<1>3. Len(lines) \in Nat /\ DOMAIN lines = 1 .. Len(lines)
  BY SourceParts
<1>4. Modes(lines)[1] \in ModeOf
  <2>1. Code \in ModeOf
    BY DEF Code, ModeOf
  <2> QED BY <1>3, <2>1, ModesFollow
<1>5. i - 1 \in 1 .. Len(lines) /\ ~(i <= i - 1) /\ (i - 1) + 1 = i
  BY <1>2, <1>3, <1>4
<1>6. Modes(lines)[i - 1] \in ModeOf
  BY <1>2, <1>5
<1>7. Modes(lines)[i] = After(Modes(lines)[i - 1], lines[i - 1])
  BY <1>3, <1>5, ModesFollow
<1>8. Lexed(lines[i - 1])
  BY <1>3, <1>5 DEF ReadFrom
<1> QED BY <1>2, <1>6, <1>7, <1>8, AfterTyped

\* Within an assertion block, its opening line comes before, and no line that closes it.
OpenedAt(source, i, a) ==
  /\ a \in source.code /\ a < i /\ source.lines[a].t = "assert"
  /\ \A k \in source.code : a < k /\ k < i => source.lines[k].t # "close"

LEMMA AssertionOpened ==
  ASSUME NEW source, NEW lines, ReadFrom(source, lines)
  PROVE  \A i \in 1 .. Len(lines) + 1 : source.mode[i].assertion => \E a : OpenedAt(source, i, a)
<1> DEFINE Failing == {i \in 1 .. Len(lines) + 1 :
                         source.mode[i].assertion /\ ~\E a : OpenedAt(source, i, a)}
           i == Min(Failing)
<1>1. SUFFICES ASSUME Failing # {} PROVE FALSE
  OBVIOUS
<1>2. i \in Failing /\ \A k \in Failing : i <= k
  <2>1. Failing \in SUBSET Nat
    OBVIOUS
  <2> HIDE DEF Failing
  <2> QED BY <1>1, <2>1, FirstNumber
<1> HIDE DEF i
<1> DEFINE j == i - 1
           mode == source.mode[j]
<1>3. /\ Len(lines) \in Nat /\ DOMAIN lines = 1 .. Len(lines) /\ source.mode = Modes(lines)
      /\ source.lines = lines
      /\ \A k \in DOMAIN lines : k \in source.code <=> source.mode[k].fence = 0 /\ ~source.mode[k].continued
  BY SourceParts
<1>4. ~source.mode[1].assertion
  BY <1>3, ModesFollow DEF Code
<1>5. j \in 1 .. Len(lines) /\ ~(i <= j) /\ j + 1 = i /\ j < i
  BY <1>2, <1>3, <1>4
<1>6. source.mode[i] = After(mode, lines[j]) /\ mode \in ModeOf /\ Lexed(lines[j])
  <2>1. mode = Modes(lines)[j] /\ mode \in ModeOf
    BY <1>3, <1>5, ModesTyped
  <2>2. Modes(lines)[j + 1] = After(Modes(lines)[j], lines[j])
    BY <1>3, <1>5, ModesFollow
  <2> QED BY <1>3, <1>5, <2>1, <2>2 DEF ReadFrom
<1>7. j \in source.code <=> mode.fence = 0 /\ ~mode.continued
  BY <1>3, <1>5
<1>8. source.mode[i].assertion
  BY <1>2
<1>9. \/ mode.assertion /\ ~(j \in source.code /\ source.lines[j].t = "close")
      \/ j \in source.code /\ source.lines[j].t = "assert"
  BY <1>3, <1>6, <1>7, <1>8, AfterTyped
<1>10. source.code \subseteq Nat
  BY SourceParts
<1>11. CASE j \in source.code /\ source.lines[j].t = "assert"
  <2>1. \A k \in source.code : ~(j < k /\ k < i)
    BY <1>5, <1>10
  <2>2. OpenedAt(source, i, j)
    BY <1>5, <1>11, <2>1 DEF OpenedAt
  <2> QED BY <1>2, <2>2
<1>12. CASE mode.assertion /\ ~(j \in source.code /\ source.lines[j].t = "close")
  <2>1. PICK a : OpenedAt(source, j, a)
    BY <1>2, <1>3, <1>5, <1>12
  <2>2. \A k \in source.code : k < i => k < j \/ k = j
    BY <1>5, <1>10
  <2>3. a < i
    BY <1>5, <1>10, <2>1 DEF OpenedAt
  <2>4. OpenedAt(source, i, a)
    BY <1>12, <2>1, <2>2, <2>3 DEF OpenedAt
  <2> QED BY <1>2, <2>4
<1> QED BY <1>9, <1>11, <1>12

-----------------------------------------------------------------------------
(* Where the lines of a source are.                                        *)

Documents == {"document file", "document case"}
StepKinds == {"before_each", "case"}

\* From a line that opens a block to one that closes it.
Encloses(source, b) ==
  /\ b.kind \in BlockKinds
  /\ b.first \in source.code /\ b.last \in source.code /\ b.first < b.last
  /\ source.lines[b.first].t = "open" /\ source.lines[b.last].t = "close"
  /\ ~source.mode[b.last].assertion

LEMMA CodeIsFinite ==
  ASSUME NEW source, NEW lines, ReadFrom(source, lines), NEW S \in SUBSET source.code
  PROVE  S \in SUBSET Nat /\ IsFiniteSet(S)
<1>1. S \subseteq 1 .. Len(lines) /\ Len(lines) \in Nat
  BY SourceParts
<1>2. IsFiniteSet(1 .. Len(lines))
  BY <1>1, FS_Interval
<1>3. IsFiniteSet(S)
  BY <1>1, <1>2, FS_Subset, Zenon
<1> QED BY <1>1, <1>3

LEMMA BlocksEnclose ==
  ASSUME NEW source, NEW lines, ReadFrom(source, lines)
  PROVE  /\ Len(source.blocks) \in Nat /\ DOMAIN source.blocks = 1 .. Len(source.blocks)
         /\ source.blocks \in Seq(Range(source.blocks))
         /\ \A n \in DOMAIN source.blocks : Encloses(source, source.blocks[n])
<1> DEFINE code == source.code
           ends == {j \in code : lines[j].t = "close" /\ ~source.mode[j].assertion}
           opens == {i \in code : lines[i].t = "open" /\ \E j \in ends : j > i}
           EndOf(i) == Min({j \in ends : j > i})
           first == InOrder(opens)
           Block(n) == [kind |-> lines[first[n]].block, first |-> first[n], last |-> EndOf(first[n])]
<1>1. source.blocks = [n \in DOMAIN first |-> Block(n)] /\ source.lines = lines
  <2>1. source.blocks = Blocks(lines, source.mode, code) /\ source.lines = lines
    BY SourceParts
  <2> QED BY <2>1, Zenon DEF Blocks
<1>2. code \in SUBSET Nat /\ opens \in SUBSET Nat /\ IsFiniteSet(opens)
  BY CodeIsFinite
<1>3. /\ Cardinality(opens) \in Nat /\ DOMAIN first = 1 .. Cardinality(opens)
      /\ Range(first) = opens
  BY <1>2, InOrderIsOrder
<1> HIDE DEF first
<1>4. ASSUME NEW n \in DOMAIN first
      PROVE  Encloses(source, Block(n))
  <2> DEFINE i == first[n]
  <2>1. i \in opens
    BY <1>3 DEF Range
  <2> HIDE DEF i
  <2>2. EndOf(i) \in {j \in ends : j > i}
    <3> DEFINE S == {j \in ends : j > i}
    <3>1. S \in SUBSET Nat /\ S # {}
      BY <1>2, <2>1
    <3> HIDE DEF S
    <3>2. Min(S) \in S
      BY <3>1, FirstNumber
    <3> QED BY <3>2 DEF S
  <2>3. Lexed(lines[i])
    BY <2>1, SourceParts DEF ReadFrom
  <2> HIDE DEF EndOf
  <2>4. /\ EndOf(i) \in code /\ lines[EndOf(i)].t = "close" /\ ~source.mode[EndOf(i)].assertion
        /\ i < EndOf(i)
    BY <1>2, <2>1, <2>2
  <2>5. lines[i].t = "open" /\ lines[i].block \in BlockKinds /\ i \in code
    BY <2>1, <2>3 DEF Lexed
  <2> QED BY <1>1, <2>4, <2>5 DEF Encloses, i
<1> HIDE DEF Block
<1>5. DOMAIN source.blocks = 1 .. Cardinality(opens)
  BY <1>1, <1>3
<1>6. source.blocks \in Seq(Range(source.blocks)) /\ Len(source.blocks) = Cardinality(opens)
  <2>1. source.blocks \in [1 .. Cardinality(opens) -> Range(source.blocks)]
    BY <1>1, <1>5 DEF Range
  <2> HIDE DEF opens
  <2> QED BY <1>3, <1>5, <2>1
<1> QED BY <1>1, <1>3, <1>4, <1>5, <1>6

\* The lines a block is read from, each once and in order.
LEMMA FieldLinesAre ==
  ASSUME NEW source, NEW lines, ReadFrom(source, lines), NEW b
  PROVE  /\ \E n \in Nat : DOMAIN FieldLines(source, b) = 1 .. n
         /\ Range(FieldLines(source, b)) = {i \in InBlock(source, b) : source.lines[i].t = "field"}
         /\ \A j, k \in DOMAIN FieldLines(source, b) :
              j < k => FieldLines(source, b)[j] < FieldLines(source, b)[k]
<1> DEFINE S == {i \in InBlock(source, b) : source.lines[i].t = "field"}
<1>1. S \in SUBSET source.code
  BY DEF InBlock
<1> HIDE DEF S
<1>2. S \in SUBSET Nat /\ IsFiniteSet(S)
  BY <1>1, CodeIsFinite
<1>3. FieldLines(source, b) = InOrder(S)
  BY DEF FieldLines, S
<1>4. Range(InOrder(S)) = S
  BY <1>2, InOrderIsOrder
<1> QED BY <1>2, <1>3, <1>4, InOrderIsOrder DEF S

LEMMA BodyLinesAre ==
  ASSUME NEW source, NEW lines, ReadFrom(source, lines), NEW b
  PROVE  /\ \E n \in Nat : DOMAIN BodyLines(source, b) = 1 .. n
         /\ Range(BodyLines(source, b)) =
              {i \in InBlock(source, b) :
                 ~source.mode[i].assertion /\ source.lines[i].t \in StepLines \cup {"assert"}}
<1> DEFINE S == {i \in InBlock(source, b) :
                   ~source.mode[i].assertion /\ source.lines[i].t \in StepLines \cup {"assert"}}
<1>1. S \in SUBSET source.code
  BY DEF InBlock
<1> HIDE DEF S
<1>2. S \in SUBSET Nat /\ IsFiniteSet(S)
  BY <1>1, CodeIsFinite
<1>3. BodyLines(source, b) = InOrder(S)
  BY DEF BodyLines, S
<1>4. Range(InOrder(S)) = S
  BY <1>2, InOrderIsOrder
<1> QED BY <1>2, <1>3, <1>4, InOrderIsOrder DEF S

LEMMA ExpectationLinesAre ==
  ASSUME NEW source, NEW lines, ReadFrom(source, lines), NEW a,
         NEW end \in source.code, end > a, source.lines[end].t = "close"
  PROVE  /\ Range(ExpectationLines(source, a)) \subseteq source.code
         /\ \A i \in source.code :
              (/\ a < i /\ i < end /\ source.lines[i].t = "expect"
               /\ \A k \in source.code : a < k /\ k < i => source.lines[k].t # "close")
                => i \in Range(ExpectationLines(source, a))
<1> DEFINE closing == {j \in source.code : j > a /\ source.lines[j].t = "close"}
           last == Min(closing)
           S == {k \in source.code : a < k /\ k < last /\ source.lines[k].t = "expect"}
<1>1. S \in SUBSET source.code /\ closing \in SUBSET source.code /\ closing # {}
  OBVIOUS
<1>2. last \in closing
  <2> HIDE DEF closing
  <2>1. closing \in SUBSET Nat
    BY <1>1, CodeIsFinite
  <2> QED BY <1>1, <2>1, FirstNumber
<1>3. ExpectationLines(source, a) = InOrder(S)
  BY DEF ExpectationLines
<1> HIDE DEF last
<1>4. Range(InOrder(S)) = S
  <2> HIDE DEF S
  <2> QED BY <1>1, CodeIsFinite, InOrderIsOrder
<1>5. ASSUME NEW i \in source.code, a < i, i < end, source.lines[i].t = "expect",
             \A k \in source.code : a < k /\ k < i => source.lines[k].t # "close"
      PROVE  i \in S
  <2>1. last \in source.code /\ a < last /\ source.lines[last].t = "close"
    BY <1>2
  <2>2. last \in Nat /\ i \in Nat /\ ~(last < i) /\ last # i
    BY <1>5, <2>1, CodeIsFinite
  <2> QED BY <1>5, <2>2
<1> QED BY <1>1, <1>3, <1>4, <1>5

\* A line with a literal is a field, a step, or an expectation of a step.
Placed(source, i) ==
  \E b \in Range(source.blocks) :
    \/ b.kind \in Documents /\ i \in Range(FieldLines(source, b))
    \/ b.kind \in StepKinds /\ i \in Range(BodyLines(source, b)) /\ source.lines[i].t # "assert"
    \/ /\ b.kind \in StepKinds
       /\ \E a \in Range(BodyLines(source, b)) :
            source.lines[a].t = "assert" /\ i \in Range(ExpectationLines(source, a))

LEMMA InsideIsPermitted ==
  ASSUME NEW source, SyntaxOk(source), NEW b \in Range(source.blocks), NEW i \in InBlock(source, b)
  PROVE  Permitted(b.kind, source.lines[i], source.mode[i].assertion)
BY Zenon DEF SyntaxOk

LEMMA BlockAround ==
  ASSUME NEW source, SyntaxOk(source), NEW i \in source.code, source.lines[i].t \notin {"blank", "comment"}
  PROVE  \E b \in Range(source.blocks) : b.first <= i /\ i <= b.last
BY DEF SyntaxOk

LEMMA CodeLinePlaced ==
  ASSUME NEW source, NEW lines, ReadFrom(source, lines), SyntaxOk(source), NEW i \in source.code,
         source.lines[i].t \notin {"open", "close", "assert", "blank", "comment"}
  PROVE  Placed(source, i)
<1>1. PICK b \in Range(source.blocks) : b.first <= i /\ i <= b.last
  BY BlockAround
<1>2. \A c \in Range(source.blocks) : Encloses(source, c)
  BY BlocksEnclose DEF Range
<1>3. source.code \subseteq Nat /\ source.code \subseteq 1 .. Len(lines) + 1
  BY SourceParts
<1>4. b.first < i /\ i < b.last
  BY <1>1, <1>2, <1>3 DEF Encloses
<1>5. i \in InBlock(source, b)
  BY <1>4 DEF InBlock
<1>6. Permitted(b.kind, source.lines[i], source.mode[i].assertion)
  BY <1>5, InsideIsPermitted
<1>7. CASE source.mode[i].assertion
  <2>1. source.lines[i].t = "expect"
    BY <1>6, <1>7 DEF Permitted
  <2>2. PICK a : OpenedAt(source, i, a)
    BY <1>3, <1>7, AssertionOpened
  <2>3. /\ a \in source.code /\ a < i /\ source.lines[a].t = "assert"
        /\ \A k \in source.code : a < k /\ k < i => source.lines[k].t # "close"
    BY <2>2 DEF OpenedAt
  <2>4. b.first < a
    <3> SUFFICES ASSUME ~(b.first < a) PROVE FALSE
      OBVIOUS
    <3>1. PICK c \in Range(source.blocks) : c.first <= a /\ a <= c.last
      BY <2>3, BlockAround
    <3>2. Encloses(source, b) /\ Encloses(source, c)
      BY <1>2
    <3>3. a < b.first /\ c.first < a /\ a < c.last
      BY <1>3, <2>3, <3>1, <3>2 DEF Encloses
    <3>4. ~(c.last < i)
      BY <2>3, <3>2, <3>3 DEF Encloses
    <3>5. c.first < b.first /\ b.first < c.last
      BY <1>3, <1>4, <2>3, <3>2, <3>3, <3>4 DEF Encloses
    <3>6. b.first \in InBlock(source, c) /\ source.lines[b.first].t = "open"
      BY <3>2, <3>5 DEF Encloses, InBlock
    <3>7. Permitted(c.kind, source.lines[b.first], source.mode[b.first].assertion)
      BY <3>6, InsideIsPermitted
    <3> QED BY <3>6, <3>7 DEF Permitted, StepLines
  <2>5. a \in InBlock(source, b)
    BY <1>2, <1>3, <1>4, <2>3, <2>4 DEF InBlock, Encloses
  <2>6. Permitted(b.kind, source.lines[a], source.mode[a].assertion)
    BY <2>5, InsideIsPermitted
  <2>7. ~source.mode[a].assertion /\ b.kind \in StepKinds
    BY <2>3, <2>6 DEF Permitted, StepKinds
  <2>8. a \in Range(BodyLines(source, b))
    BY <2>3, <2>5, <2>7, BodyLinesAre
  <2>9. i \in Range(ExpectationLines(source, a))
    <3>1. b.last \in source.code /\ source.lines[b.last].t = "close" /\ b.last > a
      BY <1>2, <1>3, <1>4, <2>3 DEF Encloses
    <3> QED BY <1>4, <2>1, <2>3, <3>1, ExpectationLinesAre
  <2> QED BY <2>3, <2>7, <2>8, <2>9 DEF Placed
<1>8. CASE ~source.mode[i].assertion
  <2>1. CASE b.kind \in Documents /\ source.lines[i].t = "field"
    BY <1>5, <2>1, FieldLinesAre DEF Placed
  <2>2. CASE b.kind \in StepKinds /\ source.lines[i].t \in StepLines
    <3>1. i \in Range(BodyLines(source, b)) /\ source.lines[i].t # "assert"
      BY <1>5, <1>8, <2>2, BodyLinesAre DEF StepLines
    <3> QED BY <2>2, <3>1 DEF Placed
  <2> QED BY <1>6, <1>8, <2>1, <2>2 DEF Permitted, Documents, StepKinds
<1> QED BY <1>7, <1>8

-----------------------------------------------------------------------------
(* What is wrong with a block, and with its lines.                         *)

\* What a line with a literal must be like, wherever it is.
Sound(source, i) ==
  /\ Fits(source.lines[i]) /\ ~Shallow(source, i)
  /\ Interpolated(source.lines[i]) => MarkerDefect(LiteralAt(source, i)) = "none"

LEMMA NoFirstDefect ==
  ASSUME NEW defects, NEW n \in Nat, DOMAIN defects = 1 .. n
  PROVE  FirstDefect(defects) = "none" <=> \A k \in 1 .. n : defects[k] = "none"
<1> DEFINE wrong == {k \in DOMAIN defects : defects[k] # "none"}
<1>1. CASE wrong = {}
  <2>1. FirstDefect(defects) = "none"
    BY <1>1, Zenon DEF FirstDefect
  <2> QED BY <1>1, <2>1
<1>2. CASE wrong # {}
  <2>1. FirstDefect(defects) = defects[Min(wrong)]
    BY <1>2, Zenon DEF FirstDefect
  <2>2. Min(wrong) \in wrong
    <3>1. wrong \in SUBSET Nat
      OBVIOUS
    <3> HIDE DEF wrong
    <3> QED BY <1>2, <3>1, FirstNumber
  <2> QED BY <2>1, <2>2
<1> QED BY <1>1, <1>2

Documented(source, block) ==
  /\ FieldLines(source, block) # <<>>
  /\ \A i, j \in Range(FieldLines(source, block)) :
       source.lines[i].field = source.lines[j].field => i = j
  /\ \A i \in Range(FieldLines(source, block)) : Fits(source.lines[i]) /\ ~Shallow(source, i)

LEMMA NoDocumentDefect ==
  ASSUME NEW source, NEW lines, ReadFrom(source, lines), NEW block
  PROVE  DocumentDefect(source, block) = "none" <=> Documented(source, block)
<1> DEFINE numbers == FieldLines(source, block)
           Seen(k) == {source.lines[numbers[j]].field : j \in 1 .. k - 1}
           defects == [k \in DOMAIN numbers |-> FieldDefect(source, numbers[k], Seen(k))]
<1>1. PICK n \in Nat : DOMAIN numbers = 1 .. n
  BY FieldLinesAre
<1>2. \A j, k \in DOMAIN numbers : j < k => numbers[j] < numbers[k]
  BY FieldLinesAre
<1>3. DocumentDefect(source, block) = IF numbers = <<>> THEN "empty_document" ELSE FirstDefect(defects)
  BY Zenon DEF DocumentDefect
<1>4. FirstDefect(defects) = "none" <=> \A k \in 1 .. n : defects[k] = "none"
  <2>1. DOMAIN defects = 1 .. n
    BY <1>1
  <2> HIDE DEF defects
  <2> QED BY <2>1, NoFirstDefect
<1> HIDE DEF numbers
<1>5. ASSUME NEW k \in 1 .. n
      PROVE  defects[k] = "none" <=>
               /\ \A j \in 1 .. k - 1 : source.lines[numbers[j]].field # source.lines[numbers[k]].field
               /\ Fits(source.lines[numbers[k]]) /\ ~Shallow(source, numbers[k])
  <2>1. defects[k] = FieldDefect(source, numbers[k], Seen(k))
    BY <1>1
  <2>2. source.lines[numbers[k]].field \in Seen(k) <=>
          \E j \in 1 .. k - 1 : source.lines[numbers[j]].field = source.lines[numbers[k]].field
    OBVIOUS
  <2> HIDE DEF defects, Seen
  <2> QED BY <2>1, <2>2 DEF FieldDefect
<1> HIDE DEF defects
<1>6. Range(numbers) = {numbers[k] : k \in 1 .. n}
  BY <1>1 DEF Range
<1>7. (\A k \in 1 .. n : \A j \in 1 .. k - 1 :
         source.lines[numbers[j]].field # source.lines[numbers[k]].field)
        <=> \A i, j \in Range(numbers) : source.lines[i].field = source.lines[j].field => i = j
  <2>1. ASSUME \A i, j \in Range(numbers) : source.lines[i].field = source.lines[j].field => i = j,
               NEW k \in 1 .. n, NEW j \in 1 .. k - 1
        PROVE  source.lines[numbers[j]].field # source.lines[numbers[k]].field
    <3>1. j \in 1 .. n /\ j < k
      BY <2>1
    <3>2. numbers[j] \in Range(numbers) /\ numbers[k] \in Range(numbers) /\ numbers[j] # numbers[k]
      <4>1. numbers[j] < numbers[k]
        BY <1>1, <1>2, <3>1
      <4>2. numbers[j] \in Nat
        <5>1. Range(numbers) \subseteq source.code
          BY FieldLinesAre DEF numbers, InBlock
        <5>2. numbers[j] \in Range(numbers)
          BY <1>6, <3>1
        <5> QED BY <5>1, <5>2, CodeIsFinite
      <4> QED BY <1>6, <3>1, <4>1, <4>2
    <3> QED BY <2>1, <3>2
  <2>2. ASSUME \A k \in 1 .. n : \A j \in 1 .. k - 1 :
                 source.lines[numbers[j]].field # source.lines[numbers[k]].field,
               NEW k \in 1 .. n, NEW j \in 1 .. n,
               source.lines[numbers[j]].field = source.lines[numbers[k]].field
        PROVE  numbers[j] = numbers[k]
    <3>1. ~(j \in 1 .. k - 1) /\ ~(k \in 1 .. j - 1)
      BY <2>2
    <3>2. j = k
      BY <3>1
    <3> QED BY <3>2
  <2> QED BY <1>6, <2>1, <2>2
<1> QED BY <1>3, <1>4, <1>5, <1>6, <1>7 DEF Documented, numbers

LinesOf(source, i) ==
  IF source.lines[i].t = "assert" THEN Range(ExpectationLines(source, i)) ELSE {i}

LEMMA NoStepDefect ==
  ASSUME NEW source, NEW i
  PROVE  StepDefect(source, i) = "none" <=> \A l \in LinesOf(source, i) : Sound(source, l)
BY DEF StepDefect, LinesOf, Sound

LEMMA NoStepsDefect ==
  ASSUME NEW source, NEW lines, ReadFrom(source, lines), NEW block
  PROVE  StepsDefect(source, block) = "none" <=>
           \A i \in Range(BodyLines(source, block)) : \A l \in LinesOf(source, i) : Sound(source, l)
<1> DEFINE numbers == BodyLines(source, block)
           defects == [k \in DOMAIN numbers |-> StepDefect(source, numbers[k])]
<1>1. PICK n \in Nat : DOMAIN numbers = 1 .. n
  BY BodyLinesAre
<1>2. StepsDefect(source, block) = FirstDefect(defects)
  BY Zenon DEF StepsDefect
<1>3. FirstDefect(defects) = "none" <=> \A k \in 1 .. n : defects[k] = "none"
  <2>1. DOMAIN defects = 1 .. n
    BY <1>1
  <2> HIDE DEF defects
  <2> QED BY <2>1, NoFirstDefect
<1> HIDE DEF numbers
<1>4. \A k \in 1 .. n : defects[k] = StepDefect(source, numbers[k])
  BY <1>1
<1> HIDE DEF defects
<1>5. Range(numbers) = {numbers[k] : k \in 1 .. n}
  BY <1>1 DEF Range
<1> QED BY <1>2, <1>3, <1>4, <1>5, NoStepDefect DEF numbers

\* The blocks of a source are free of defects exactly when its lines are.
Clean(source, block) ==
  /\ block.kind \in Documents => Documented(source, block)
  /\ block.kind \in StepKinds => StepsDefect(source, block) = "none"

LEMMA CleanBlocksSoundLines ==
  ASSUME NEW source, NEW lines, ReadFrom(source, lines), SyntaxOk(source),
         \A b \in Range(source.blocks) : Clean(source, b)
  PROVE  \A i \in source.code : Sound(source, i)
<1> TAKE i \in source.code
<1>1. Lexed(source.lines[i])
  BY SourceParts DEF ReadFrom
<1>2. CASE source.lines[i].t \in {"open", "close", "assert", "blank", "comment"}
  BY <1>1, <1>2 DEF Lexed, Sound, Shallow
<1>3. CASE source.lines[i].t \notin {"open", "close", "assert", "blank", "comment"}
  <2>1. PICK b \in Range(source.blocks) :
          \/ b.kind \in Documents /\ i \in Range(FieldLines(source, b))
          \/ b.kind \in StepKinds /\ i \in Range(BodyLines(source, b)) /\ source.lines[i].t # "assert"
          \/ /\ b.kind \in StepKinds
             /\ \E a \in Range(BodyLines(source, b)) :
                  source.lines[a].t = "assert" /\ i \in Range(ExpectationLines(source, a))
    BY <1>3, CodeLinePlaced DEF Placed
  <2>2. CASE b.kind \in Documents /\ i \in Range(FieldLines(source, b))
    <3>1. Fits(source.lines[i]) /\ ~Shallow(source, i)
      BY <2>2 DEF Clean, Documented
    <3>2. source.lines[i].t = "field"
      BY <2>2, FieldLinesAre
    <3> QED BY <1>1, <3>1, <3>2 DEF Sound, Lexed
  <2>3. CASE b.kind \in StepKinds /\ i \in Range(BodyLines(source, b)) /\ source.lines[i].t # "assert"
    <3>1. \A l \in LinesOf(source, i) : Sound(source, l)
      BY <2>3, NoStepsDefect DEF Clean
    <3> QED BY <2>3, <3>1 DEF LinesOf
  <2>4. ASSUME b.kind \in StepKinds, NEW a \in Range(BodyLines(source, b)),
               source.lines[a].t = "assert", i \in Range(ExpectationLines(source, a))
        PROVE  Sound(source, i)
    <3>1. \A l \in LinesOf(source, a) : Sound(source, l)
      BY <2>4, NoStepsDefect DEF Clean
    <3> QED BY <2>4, <3>1 DEF LinesOf
  <2> QED BY <2>1, <2>2, <2>3, <2>4
<1> QED BY <1>2, <1>3

LEMMA SoundLinesCleanSteps ==
  ASSUME NEW source, NEW lines, ReadFrom(source, lines), NEW b \in Range(source.blocks),
         \A i \in source.code : Sound(source, i)
  PROVE  StepsDefect(source, b) = "none"
<1>1. ASSUME NEW i \in Range(BodyLines(source, b)), NEW l \in LinesOf(source, i)
      PROVE  Sound(source, l)
  <2>1. i \in InBlock(source, b)
    BY BodyLinesAre
  <2>2. CASE source.lines[i].t # "assert"
    BY <1>1, <2>1, <2>2 DEF LinesOf, InBlock
  <2>3. CASE source.lines[i].t = "assert"
    <3>1. Encloses(source, b)
      BY BlocksEnclose DEF Range
    <3>2. b.last \in source.code /\ source.lines[b.last].t = "close" /\ b.last > i
      BY <2>1, <3>1, CodeIsFinite DEF Encloses, InBlock
    <3>3. Range(ExpectationLines(source, i)) \subseteq source.code
      BY <3>2, ExpectationLinesAre
    <3> QED BY <1>1, <2>3, <3>3 DEF LinesOf
  <2> QED BY <2>2, <2>3
<1> QED BY <1>1, NoStepsDefect

-----------------------------------------------------------------------------
(* What the parser remembers of the blocks behind it.                      *)

Kind(source, n) == source.blocks[n].kind

EndsInDocumentCase(source) ==
  Len(source.blocks) > 0 /\ Kind(source, Len(source.blocks)) = "document case"

\* The state after the first n blocks, if none was refused.
Remembers(source, state, n) ==
  LET Met(kind) == \E m \in 1 .. n : Kind(source, m) = kind
      B == Range(source.blocks) \cup {NoBlock}
  IN /\ state \in [error : {"none"}, file : B, setup : B, pending : B,
                    cases : Seq([doc : B, span : Range(source.blocks)])]
     /\ IsBlock(state.file) <=> Met("document file")
     /\ \/ state.setup = NoBlock /\ ~Met("before_each")
        \/ \E m \in 1 .. n : Kind(source, m) = "before_each" /\ state.setup = source.blocks[m]
     /\ IsBlock(state.pending) <=> n > 0 /\ Kind(source, n) = "document case"
     /\ state.cases # <<>> <=> Met("case")

\* What the parser asks of the next block.
Accepts(source, state, block) ==
  /\ block.kind = "document file" =>
       state.cases = <<>> /\ ~IsBlock(state.pending) /\ ~IsBlock(state.setup) /\ ~IsBlock(state.file)
  /\ block.kind = "document case" => ~IsBlock(state.pending)
  /\ block.kind \in Documents => Documented(source, block)
  /\ block.kind = "before_each" =>
       /\ state.cases = <<>> /\ ~IsBlock(state.pending) /\ ~IsBlock(state.setup)
       /\ BeforeEachDefect(source, block) = "none"
  /\ block.kind = "case" => CaseDefect(source, block, Scope(source, state.setup)) = "none"

LEMMA NextState ==
  ASSUME NEW source, NEW lines, ReadFrom(source, lines), NEW n \in 1 .. Len(source.blocks),
         NEW state, Remembers(source, state, n - 1), NEW next,
         next = AddBlock(source, state, source.blocks[n])
  PROVE  /\ next.error = "none" <=> Accepts(source, state, source.blocks[n])
         /\ next.error = "none" => Remembers(source, next, n)
<1> DEFINE block == source.blocks[n]
           B == Range(source.blocks) \cup {NoBlock}
           C == Range(source.blocks)
<1>1. block \in B /\ block \in C /\ Encloses(source, block) /\ Len(source.blocks) \in Nat
  BY BlocksEnclose DEF Range
<1>2. block.kind \in BlockKinds /\ IsBlock(block) /\ ~IsBlock(NoBlock)
  BY <1>1 DEF Encloses, BlockKinds, IsBlock, NoBlock
<1>3. /\ state \in [error : {"none"}, file : B, setup : B, pending : B,
                     cases : Seq([doc : B, span : C])]
      /\ state.error = "none"
  BY DEF Remembers
<1>4. ASSUME NEW kind
      PROVE  (\E m \in 1 .. n : Kind(source, m) = kind) <=>
               block.kind = kind \/ \E m \in 1 .. n - 1 : Kind(source, m) = kind
  <2>1. \A m \in 1 .. n : m = n \/ m \in 1 .. n - 1
    BY <1>1
  <2>2. n \in 1 .. n /\ \A m \in 1 .. n - 1 : m \in 1 .. n
    BY <1>1
  <2> QED BY <2>1, <2>2 DEF Kind
<1>5. \A m \in 1 .. n - 1 : m \in 1 .. n
  BY <1>1
<1>6. n \in 1 .. n /\ n > 0
  BY <1>1
<1> HIDE DEF B, C
<1>7. CASE block.kind = "document file"
  <2>1. next = AddDocumentFile(source, state, block)
    BY <1>3, <1>7 DEF AddBlock
  <2>2. next.error = "none" <=> Accepts(source, state, block)
    BY <1>3, <1>7, <2>1, NoDocumentDefect DEF AddDocumentFile, Accepts, Documents
  <2>3. ASSUME next.error = "none" PROVE Remembers(source, next, n)
    <3>1. next = [state EXCEPT !.error = DocumentDefect(source, block), !.file = block]
      BY <1>3, <2>1, <2>3 DEF AddDocumentFile
    <3>2. /\ next \in [error : {"none"}, file : B, setup : B, pending : B,
                        cases : Seq([doc : B, span : C])]
          /\ next.file = block /\ next.setup = state.setup /\ next.pending = state.pending
          /\ next.cases = state.cases
      BY <1>1, <1>3, <2>3, <3>1
    <3>3. ~IsBlock(state.pending)
      BY <1>7, <2>2, <2>3 DEF Accepts
    <3> QED BY <1>2, <1>4, <1>5, <1>6, <1>7, <3>2, <3>3 DEF Remembers, B, C, Kind
  <2> QED BY <2>2, <2>3
<1>8. CASE block.kind = "document case"
  <2>1. next = AddDocumentCase(source, state, block)
    BY <1>3, <1>8 DEF AddBlock
  <2>2. next.error = "none" <=> Accepts(source, state, block)
    BY <1>3, <1>8, <2>1, NoDocumentDefect DEF AddDocumentCase, Accepts, Documents
  <2>3. ASSUME next.error = "none" PROVE Remembers(source, next, n)
    <3>1. next = [state EXCEPT !.error = DocumentDefect(source, block), !.pending = block]
      BY <1>3, <2>1, <2>3 DEF AddDocumentCase
    <3>2. /\ next \in [error : {"none"}, file : B, setup : B, pending : B,
                        cases : Seq([doc : B, span : C])]
          /\ next.file = state.file /\ next.setup = state.setup /\ next.pending = block
          /\ next.cases = state.cases
      BY <1>1, <1>3, <2>3, <3>1
    <3>3. /\ IsBlock(next.file) <=> \E m \in 1 .. n : Kind(source, m) = "document file"
          /\ next.cases # <<>> <=> \E m \in 1 .. n : Kind(source, m) = "case"
      BY <1>4, <1>8, <3>2 DEF Remembers
    <3>4. \/ next.setup = NoBlock /\ ~\E m \in 1 .. n : Kind(source, m) = "before_each"
          \/ \E m \in 1 .. n : Kind(source, m) = "before_each" /\ next.setup = source.blocks[m]
      BY <1>4, <1>5, <1>8, <3>2 DEF Remembers
    <3>5. IsBlock(next.pending) <=> n > 0 /\ Kind(source, n) = "document case"
      BY <1>2, <1>6, <1>8, <3>2 DEF Kind
    <3> QED BY <3>2, <3>3, <3>4, <3>5 DEF Remembers, B, C
  <2> QED BY <2>2, <2>3
<1>9. CASE block.kind = "before_each"
  <2>1. next = AddBeforeEach(source, state, block)
    BY <1>3, <1>9 DEF AddBlock
  <2>2. next.error = "none" <=> Accepts(source, state, block)
    BY <1>3, <1>9, <2>1 DEF AddBeforeEach, Accepts, Documents
  <2>3. ASSUME next.error = "none" PROVE Remembers(source, next, n)
    <3>1. next = [state EXCEPT !.error = BeforeEachDefect(source, block), !.setup = block]
      BY <1>3, <2>1, <2>3 DEF AddBeforeEach
    <3>2. /\ next \in [error : {"none"}, file : B, setup : B, pending : B,
                        cases : Seq([doc : B, span : C])]
          /\ next.file = state.file /\ next.setup = block /\ next.pending = state.pending
          /\ next.cases = state.cases
      BY <1>1, <1>3, <2>3, <3>1
    <3>3. ~IsBlock(state.pending)
      BY <1>9, <2>2, <2>3 DEF Accepts
    <3> QED BY <1>2, <1>4, <1>5, <1>6, <1>9, <3>2, <3>3 DEF Remembers, B, C, Kind
  <2> QED BY <2>2, <2>3
<1>10. CASE block.kind = "case"
  <2>1. next = AddCase(source, state, block)
    BY <1>3, <1>10 DEF AddBlock
  <2>2. /\ next.error = CaseDefect(source, block, Scope(source, state.setup))
        /\ next.file = state.file /\ next.setup = state.setup /\ next.pending = NoBlock
        /\ next.cases = Append(state.cases, [doc |-> state.pending, span |-> block])
    BY <1>3, <2>1 DEF AddCase
  <2>3. next.error = "none" <=> Accepts(source, state, block)
    BY <1>10, <2>2 DEF Accepts, Documents
  <2>4. ASSUME next.error = "none" PROVE Remembers(source, next, n)
    <3>1. [doc |-> state.pending, span |-> block] \in [doc : B, span : C]
      BY <1>1, <1>3
    <3>2. next.cases \in Seq([doc : B, span : C]) /\ next.cases # <<>>
      BY <1>3, <2>2, <3>1
    <3>3. next \in [error : {"none"}, file : B, setup : B, pending : B,
                    cases : Seq([doc : B, span : C])]
      <4>1. NoBlock \in B
        BY DEF B
      <4> QED BY <1>3, <2>1, <2>2, <2>4, <3>2, <4>1 DEF AddCase
    <3> QED BY <1>2, <1>4, <1>5, <1>6, <1>10, <2>2, <3>2, <3>3 DEF Remembers, B, C, Kind
  <2> QED BY <2>3, <2>4
<1> QED BY <1>2, <1>7, <1>8, <1>9, <1>10 DEF BlockKinds

LEMMA StartRemembers ==
  ASSUME NEW source
  PROVE  Remembers(source, Start, 0)
<1>1. ~IsBlock(NoBlock)
  BY DEF IsBlock, NoBlock
<1>2. <<>> \in Seq([doc : Range(source.blocks) \cup {NoBlock}, span : Range(source.blocks)])
  OBVIOUS
<1> HIDE DEF NoBlock
<1> QED BY <1>1, <1>2 DEF Remembers, Start

\* The end of the input is a block of its own to the parser.
LEMMA BlocksFollowed ==
  ASSUME NEW source, NEW lines, ReadFrom(source, lines), NEW after, Follows(source, after)
  PROVE  /\ Len(source.blocks) \in Nat
         /\ Len(Append(source.blocks, EndOfInput)) = Len(source.blocks) + 1
         /\ after[0] = Start
         /\ \A n \in 1 .. Len(source.blocks) : after[n] = AddBlock(source, after[n - 1], source.blocks[n])
         /\ after[Len(source.blocks) + 1] = AddBlock(source, after[Len(source.blocks)], EndOfInput)
<1> DEFINE blocks == Append(source.blocks, EndOfInput)
           last == Len(source.blocks)
<1>1. source.blocks \in Seq(Range(source.blocks)) /\ last \in Nat
  BY BlocksEnclose
<1>2. source.blocks \in Seq(Range(source.blocks) \cup {EndOfInput})
  BY <1>1
<1>3. /\ Len(blocks) = last + 1 /\ blocks[last + 1] = EndOfInput
      /\ \A n \in 1 .. last : blocks[n] = source.blocks[n]
  BY <1>1, <1>2
<1>4. after[0] = Start /\ \A n \in 1 .. Len(blocks) : after[n] = AddBlock(source, after[n - 1], blocks[n])
  BY Zenon DEF Follows
<1> HIDE DEF blocks
<1>5. last + 1 \in 1 .. Len(blocks) /\ (last + 1) - 1 = last /\ \A n \in 1 .. last : n \in 1 .. Len(blocks)
  BY <1>1, <1>3
<1>6. after[last + 1] = AddBlock(source, after[last], EndOfInput)
  BY <1>3, <1>4, <1>5
<1> QED BY <1>1, <1>3, <1>4, <1>5, <1>6 DEF blocks

LEMMA StatesRemembered ==
  ASSUME NEW source, NEW lines, ReadFrom(source, lines), NEW after, Follows(source, after),
         NEW n \in 0 .. Len(source.blocks), \A k \in 1 .. n : after[k].error = "none"
  PROVE  Remembers(source, after[n], n)
<1> DEFINE failing == {k \in 0 .. n : ~Remembers(source, after[k], k)}
           k == Min(failing)
<1>1. ASSUME failing # {} PROVE FALSE
  <2>1. k \in failing /\ \A j \in failing : k <= j
    <3>1. failing \in SUBSET Nat
      BY BlocksFollowed
    <3> HIDE DEF failing
    <3> QED BY <1>1, <3>1, FirstNumber
  <2> HIDE DEF k
  <2>2. k # 0
    BY <2>1, StartRemembers, BlocksFollowed
  <2>3. k \in 1 .. n /\ k \in 1 .. Len(source.blocks) /\ k - 1 \in 0 .. n /\ ~(k <= k - 1)
    BY <2>1, <2>2, BlocksFollowed
  <2>4. Remembers(source, after[k - 1], k - 1)
    BY <2>1, <2>3
  <2>5. after[k] = AddBlock(source, after[k - 1], source.blocks[k])
    BY <2>3, BlocksFollowed
  <2>6. Remembers(source, after[k], k)
    BY <2>3, <2>4, <2>5, NextState
  <2> QED BY <2>1, <2>6
<1>2. n \in 0 .. n
  BY BlocksFollowed
<1> QED BY <1>1, <1>2

\* The parser stops at the first error.
LEMMA ErrorsStay ==
  ASSUME NEW source, NEW lines, ReadFrom(source, lines), NEW after, Follows(source, after),
         after[Len(source.blocks) + 1].error = "none", NEW n \in 0 .. Len(source.blocks)
  PROVE  after[n].error = "none"
<1> DEFINE last == Len(source.blocks)
           failing == {k \in 0 .. last : after[last - k].error # "none"}
           k == Min(failing)
<1>1. last \in Nat
  BY BlocksFollowed
<1>2. ASSUME failing # {} PROVE FALSE
  <2>1. k \in failing /\ \A j \in failing : k <= j
    <3>1. failing \in SUBSET Nat
      BY <1>1
    <3> HIDE DEF failing
    <3> QED BY <1>2, <3>1, FirstNumber
  <2> HIDE DEF k
  <2>2. k \in 0 .. last /\ after[last - k].error # "none"
    BY <2>1
  <2>3. CASE k = 0
    <3>1. after[last + 1] = AddBlock(source, after[last], EndOfInput)
      BY BlocksFollowed
    <3>2. last - k = last
      BY <1>1, <2>3
    <3>3. after[last + 1] = after[last]
      BY <2>2, <3>1, <3>2 DEF AddBlock
    <3> QED BY <2>2, <3>2, <3>3
  <2>4. CASE k # 0
    <3>1. /\ k - 1 \in 0 .. last /\ ~(k <= k - 1) /\ last - (k - 1) \in 1 .. last
          /\ (last - (k - 1)) - 1 = last - k
      BY <1>1, <2>2, <2>4
    <3>2. after[last - (k - 1)].error = "none"
      BY <2>1, <3>1
    <3>3. after[last - (k - 1)] = AddBlock(source, after[last - k], source.blocks[last - (k - 1)])
      BY <3>1, BlocksFollowed
    <3>4. after[last - (k - 1)] = after[last - k]
      BY <2>2, <3>3 DEF AddBlock
    <3> QED BY <2>2, <3>2, <3>4
  <2> QED BY <2>3, <2>4
<1>3. last - n \in 0 .. last /\ last - (last - n) = n
  BY <1>1
<1> QED BY <1>2, <1>3

\* The parser accepts a source exactly when it accepts every block after those before it.
LEMMA BlockByBlock ==
  ASSUME NEW source, NEW lines, ReadFrom(source, lines), NEW after, Follows(source, after)
  PROVE  after[Len(source.blocks) + 1].error = "none" <=>
           /\ \A n \in 1 .. Len(source.blocks) :
                /\ Remembers(source, after[n - 1], n - 1)
                /\ Accepts(source, after[n - 1], source.blocks[n])
           /\ ~EndsInDocumentCase(source)
<1> DEFINE last == Len(source.blocks)
           Accepted(n) == /\ Remembers(source, after[n - 1], n - 1)
                          /\ Accepts(source, after[n - 1], source.blocks[n])
<1>1. /\ last \in Nat /\ after[last + 1] = AddBlock(source, after[last], EndOfInput)
      /\ \A n \in 1 .. last : after[n] = AddBlock(source, after[n - 1], source.blocks[n])
  BY BlocksFollowed
<1>2. ASSUME \A k \in 1 .. last : after[k].error = "none"
      PROVE  after[last + 1].error = "none" <=> ~EndsInDocumentCase(source)
  <2>1. Remembers(source, after[last], last)
    <3>1. last \in 0 .. last
      BY <1>1
    <3> QED BY <1>2, <3>1, StatesRemembered
  <2>2. after[last].error = "none"
    BY <2>1 DEF Remembers
  <2>3. IsBlock(after[last].pending) <=> last > 0 /\ Kind(source, last) = "document case"
    BY <2>1 DEF Remembers
  <2>4. EndOfInput.kind = "EOI"
    BY DEF EndOfInput
  <2>5. after[last + 1] = IF IsBlock(after[last].pending)
                          THEN [after[last] EXCEPT !.error = "orphan_document_case"] ELSE after[last]
    BY <1>1, <2>2, <2>4 DEF AddBlock
  <2>6. after[last] \in [error : {"none"}, file : Range(source.blocks) \cup {NoBlock},
                         setup : Range(source.blocks) \cup {NoBlock},
                         pending : Range(source.blocks) \cup {NoBlock},
                         cases : Seq([doc : Range(source.blocks) \cup {NoBlock},
                                      span : Range(source.blocks)])]
    BY <2>1 DEF Remembers
  <2> QED BY <2>2, <2>3, <2>5, <2>6 DEF EndsInDocumentCase
<1>3. ASSUME after[last + 1].error = "none"
      PROVE  /\ \A n \in 1 .. last : Accepted(n)
             /\ ~EndsInDocumentCase(source)
  <2>1. \A k \in 0 .. last : after[k].error = "none"
    BY <1>3, ErrorsStay
  <2>2. ASSUME NEW n \in 1 .. last PROVE Accepted(n)
    <3>1. n - 1 \in 0 .. last /\ \A k \in 1 .. n - 1 : k \in 0 .. last
      BY <1>1
    <3>2. Remembers(source, after[n - 1], n - 1)
      BY <2>1, <3>1, StatesRemembered
    <3>3. after[n].error = "none"
      BY <1>1, <2>1
    <3> QED BY <1>1, <3>2, <3>3, NextState
  <2>3. \A k \in 1 .. last : k \in 0 .. last
    BY <1>1
  <2> QED BY <1>2, <1>3, <2>1, <2>2, <2>3
<1>4. ASSUME \A n \in 1 .. last : Accepted(n), ~EndsInDocumentCase(source)
      PROVE  after[last + 1].error = "none"
  <2>1. ASSUME NEW n \in 1 .. last PROVE after[n].error = "none"
    <3>1. Accepted(n)
      BY <1>4
    <3> QED BY <1>1, <3>1, NextState
  <2> QED BY <1>2, <1>4, <2>1
<1> QED BY <1>3, <1>4
-----------------------------------------------------------------------------
(* The canonical form, block by block.                                     *)

\* The order of the blocks.
Ordered(source) ==
  \A n \in 1 .. Len(source.blocks) :
    /\ Kind(source, n) = "document file" => n = 1
    /\ Kind(source, n) = "before_each" =>
         \A m \in 1 .. n - 1 : Kind(source, m) = "document file"
    /\ Kind(source, n) = "document case" =>
         n < Len(source.blocks) /\ Kind(source, n + 1) = "case"

BeforeEachBlocks(source) == {b \in Range(source.blocks) : b.kind = "before_each"}

SetupSteps(source) ==
  IF BeforeEachBlocks(source) = {} THEN <<>>
  ELSE Steps(source, CHOOSE b \in BeforeEachBlocks(source) : TRUE)

\* What the steps of a block are like as a whole.
Fitting(source, b) ==
  /\ b.kind = "before_each" => Steps(source, b) # <<>> /\ ParsedBeforeEach(SetupSteps(source))
  /\ b.kind = "case" =>
       /\ HasAssertionBlock(Steps(source, b))
       /\ ValidBindings(Steps(source, b), DeclaredNames(SetupSteps(source)))

LEMMA CanonicalParts ==
  ASSUME NEW source, NEW lines, ReadFrom(source, lines)
  PROVE  Canonical(source) <=>
           /\ SyntaxOk(source) /\ Ordered(source)
           /\ \A i \in source.code : Sound(source, i)
           /\ \A b \in Range(source.blocks) : Clean(source, b) /\ Fitting(source, b)
<1> DEFINE Titled(b) ==
             /\ FieldLines(source, b) # <<>>
             /\ \A i, j \in Range(FieldLines(source, b)) :
                  source.lines[i].field = source.lines[j].field => i = j
           Whole(b) ==
             /\ b.kind \in Documents => Titled(b)
             /\ b.kind = "before_each" => Steps(source, b) # <<>> /\ ParsedBeforeEach(SetupSteps(source))
             /\ b.kind = "case" => ParsedCase([setup |-> SetupSteps(source), body |-> Steps(source, b)])
           kinds == [b \in DOMAIN source.blocks |-> source.blocks[b].kind]
<1>1. Canonical(source) <=>
        /\ SyntaxOk(source) /\ CanonicalOrder(kinds)
        /\ \A i \in source.code : Sound(source, i)
        /\ \A b \in Range(source.blocks) : Whole(b)
  <2> DEFINE Of(kind) == {b \in Range(source.blocks) : b.kind = kind}
             setup == IF Of("before_each") = {} THEN <<>>
                      ELSE Steps(source, CHOOSE b \in Of("before_each") : TRUE)
  <2>1. setup = SetupSteps(source)
    BY Zenon DEF SetupSteps, BeforeEachBlocks
  <2>2. Canonical(source) <=>
          /\ SyntaxOk(source)
          /\ CanonicalOrder(kinds)
          /\ \A i \in source.code : Fits(source.lines[i])
          /\ \A i \in {i \in source.code : Fence(source.lines[i]) > 0} : ~Shallow(source, i)
          /\ \A i \in source.code :
               Interpolated(source.lines[i]) => MarkerDefect(LiteralAt(source, i)) = "none"
          /\ \A b \in Of("document file") \cup Of("document case") : Titled(b)
          /\ \A b \in Of("before_each") : Steps(source, b) # <<>> /\ ParsedBeforeEach(setup)
          /\ \A b \in Of("case") : ParsedCase([setup |-> setup, body |-> Steps(source, b)])
    BY Zenon DEF Canonical
  <2> HIDE DEF setup
  <2>3. (\A i \in {i \in source.code : Fence(source.lines[i]) > 0} : ~Shallow(source, i))
          <=> \A i \in source.code : ~Shallow(source, i)
    BY DEF Shallow
  <2> HIDE DEF Titled
  <2>4. /\ (\A b \in Of("document file") \cup Of("document case") : Titled(b))
             <=> \A b \in Range(source.blocks) : b.kind \in Documents => Titled(b)
        /\ (\A b \in Of("before_each") : Steps(source, b) # <<>> /\ ParsedBeforeEach(setup))
             <=> \A b \in Range(source.blocks) :
                   b.kind = "before_each" => Steps(source, b) # <<>> /\ ParsedBeforeEach(setup)
        /\ (\A b \in Of("case") : ParsedCase([setup |-> setup, body |-> Steps(source, b)]))
             <=> \A b \in Range(source.blocks) :
                   b.kind = "case" => ParsedCase([setup |-> setup, body |-> Steps(source, b)])
    BY DEF Documents
  <2> HIDE DEF Of, kinds
  <2> QED BY <2>1, <2>2, <2>3, <2>4 DEF Sound
<1>2. CanonicalOrder(kinds) <=> Ordered(source)
  <2>1. source.blocks \in Seq(Range(source.blocks)) /\ Len(source.blocks) \in Nat
    BY BlocksEnclose
  <2>2. /\ DOMAIN kinds = 1 .. Len(source.blocks) /\ Len(kinds) = Len(source.blocks)
        /\ \A n \in 1 .. Len(source.blocks) : kinds[n] = Kind(source, n)
    <3>1. kinds = [n \in 1 .. Len(source.blocks) |-> source.blocks[n].kind]
      BY <2>1
    <3>2. kinds \in Seq({source.blocks[n].kind : n \in 1 .. Len(source.blocks)})
      BY <2>1, <3>1
    <3> QED BY <2>1, <3>1, <3>2 DEF Kind
  <2> HIDE DEF kinds
  <2>3. \A n \in 1 .. Len(source.blocks) :
          /\ \A m \in 1 .. n - 1 : m \in 1 .. Len(source.blocks)
          /\ n < Len(source.blocks) => n + 1 \in 1 .. Len(source.blocks)
    BY <2>1
  <2> QED BY <2>2, <2>3 DEF CanonicalOrder, Ordered
<1>3. ASSUME \A i \in source.code : Sound(source, i)
      PROVE  (\A b \in Range(source.blocks) : Whole(b)) <=>
               \A b \in Range(source.blocks) : Clean(source, b) /\ Fitting(source, b)
  <2>1. ASSUME NEW b \in Range(source.blocks)
        PROVE  /\ StepsDefect(source, b) = "none"
               /\ Titled(b) <=> Documented(source, b)
    <3>1. StepsDefect(source, b) = "none"
      BY <1>3, SoundLinesCleanSteps
    <3>2. \A i \in Range(FieldLines(source, b)) : Fits(source.lines[i]) /\ ~Shallow(source, i)
      <4>1. Range(FieldLines(source, b)) \subseteq source.code
        BY FieldLinesAre DEF InBlock
      <4> QED BY <1>3, <4>1 DEF Sound
    <3> QED BY <3>1, <3>2 DEF Documented
  <2>2. /\ DeclaredNames(<<>>) = {} /\ ParsedBeforeEach(<<>>)
    BY DEF DeclaredNames, DeclaredBefore, ParsedBeforeEach, ValidBindings
  <2>3. ASSUME NEW c, ParsedBeforeEach(SetupSteps(source))
        PROVE  ParsedCase([setup |-> SetupSteps(source), body |-> Steps(source, c)]) <=>
                 /\ HasAssertionBlock(Steps(source, c))
                 /\ ValidBindings(Steps(source, c), DeclaredNames(SetupSteps(source)))
    BY <2>3 DEF ParsedCase
  <2>4. ASSUME NEW c, ParsedCase([setup |-> SetupSteps(source), body |-> Steps(source, c)])
        PROVE  /\ HasAssertionBlock(Steps(source, c))
               /\ ValidBindings(Steps(source, c), DeclaredNames(SetupSteps(source)))
    BY <2>4 DEF ParsedCase
  <2>5. ASSUME \A b \in Range(source.blocks) : Fitting(source, b)
        PROVE  ParsedBeforeEach(SetupSteps(source))
    <3>1. CASE BeforeEachBlocks(source) = {}
      BY <2>2, <3>1 DEF SetupSteps
    <3>2. CASE BeforeEachBlocks(source) # {}
      BY <2>5, <3>2 DEF BeforeEachBlocks, Fitting
    <3> QED BY <3>1, <3>2
  <2> HIDE DEF Titled
  <2> QED BY <2>1, <2>3, <2>4, <2>5 DEF Clean, Fitting
<1> HIDE DEF Whole, kinds
<1> QED BY <1>1, <1>2, <1>3
-----------------------------------------------------------------------------
(* The parser against the canonical form.                                  *)

\* What is asked of every block makes the order of all of them.
LEMMA AcceptedIsOrdered ==
  ASSUME NEW source, NEW lines, ReadFrom(source, lines), NEW after,
         \A n \in 1 .. Len(source.blocks) :
           /\ Remembers(source, after[n - 1], n - 1)
           /\ Accepts(source, after[n - 1], source.blocks[n]),
         ~EndsInDocumentCase(source)
  PROVE  Ordered(source)
<1> DEFINE last == Len(source.blocks)
           Met(n, kind) == \E m \in 1 .. n - 1 : Kind(source, m) = kind
<1>1. last \in Nat
  BY BlocksEnclose
<1>0. \A k \in 1 .. last : /\ Kind(source, k) \in BlockKinds /\ IsBlock(source.blocks[k])
                        /\ Kind(source, k) = source.blocks[k].kind
  <2>1. last \in Nat /\ DOMAIN source.blocks = 1 .. last
        /\ \A n \in DOMAIN source.blocks : Encloses(source, source.blocks[n])
    BY BlocksEnclose
  <2> QED BY <2>1 DEF Encloses, BlockKinds, IsBlock, Kind
<1>2. ASSUME NEW n \in 1 .. last
      PROVE  /\ IsBlock(after[n - 1].file) <=> Met(n, "document file")
             /\ IsBlock(after[n - 1].setup) <=> Met(n, "before_each")
             /\ IsBlock(after[n - 1].pending) <=> n > 1 /\ Kind(source, n - 1) = "document case"
             /\ after[n - 1].cases # <<>> <=> Met(n, "case")
  <2>1. Remembers(source, after[n - 1], n - 1)
    OBVIOUS
  <2>2. IsBlock(after[n - 1].setup) <=> Met(n, "before_each")
    <3>1. \A m \in 1 .. n - 1 : m \in 1 .. last
      BY <1>1
    <3>2. ~IsBlock(NoBlock)
      BY DEF IsBlock, NoBlock
    <3>3. \/ after[n - 1].setup = NoBlock /\ ~Met(n, "before_each")
          \/ \E m \in 1 .. n - 1 : /\ Kind(source, m) = "before_each"
                                   /\ after[n - 1].setup = source.blocks[m]
      BY <2>1 DEF Remembers
    <3> QED BY <1>1, <1>0, <3>1, <3>2, <3>3
  <2>3. n - 1 > 0 <=> n > 1
    BY <1>1
  <2> QED BY <2>1, <2>2, <2>3 DEF Remembers
<1> HIDE DEF Met
<1>3. ASSUME NEW n \in 1 .. last, Kind(source, n) = "document case"
      PROVE  n < last /\ Kind(source, n + 1) = "case"
  <2>1. n < last /\ n + 1 \in 1 .. last /\ (n + 1) - 1 = n /\ n + 1 > 1
    <3>1. n > 0 /\ (n # last => n < last /\ n + 1 \in 1 .. last /\ (n + 1) - 1 = n /\ n + 1 > 1)
      BY <1>1
    <3>2. n # last
      BY <1>3, <3>1, Zenon DEF EndsInDocumentCase
    <3> QED BY <3>1, <3>2
  <2>2. IsBlock(after[(n + 1) - 1].pending)
    BY <1>2, <1>3, <2>1
  <2>3. Accepts(source, after[(n + 1) - 1], source.blocks[n + 1])
    BY <2>1
  <2>4. Kind(source, n + 1) \notin {"document file", "document case", "before_each"}
    BY <1>1, <1>0, <2>1, <2>2, <2>3 DEF Accepts
  <2> QED BY <1>1, <1>0, <2>1, <2>4 DEF BlockKinds
\* Neither a case nor a block that waits for one stands before these.
<1>4. ASSUME NEW n \in 1 .. last, Kind(source, n) \in {"document file", "before_each"}, NEW m \in 1 .. n - 1
      PROVE  Kind(source, m) = "document file"
  <2>1. Accepts(source, after[n - 1], source.blocks[n])
    OBVIOUS
  <2>2. after[n - 1].cases = <<>> /\ ~IsBlock(after[n - 1].setup)
    BY <1>1, <1>0, <1>4, <2>1 DEF Accepts
  <2>3. m \in 1 .. last /\ ~Met(n, "case") /\ ~Met(n, "before_each")
    <3>1. m \in 1 .. last
      BY <1>1
    <3> QED BY <1>2, <2>2, <3>1
  <2>4. Kind(source, m) # "case" /\ Kind(source, m) # "before_each"
    BY <2>3 DEF Met
  <2>5. Kind(source, m) # "document case"
    <3>1. SUFFICES ASSUME Kind(source, m) = "document case" PROVE FALSE
      OBVIOUS
    <3>2. Kind(source, m + 1) = "case"
      BY <1>3, <2>3, <3>1
    <3>3. m + 1 \in 1 .. n - 1 \/ m + 1 = n
      BY <1>1
    <3> QED BY <1>4, <2>3, <3>2, <3>3 DEF Met
  <2> QED BY <1>1, <1>0, <2>3, <2>4, <2>5 DEF BlockKinds
<1>5. ASSUME NEW n \in 1 .. last, Kind(source, n) = "document file" PROVE n = 1
  <2>1. SUFFICES ASSUME n # 1 PROVE FALSE
    OBVIOUS
  <2>2. 1 \in 1 .. n - 1
    BY <1>1, <2>1
  <2>3. Kind(source, 1) = "document file"
    BY <1>4, <1>5, <2>2
  <2>4. Met(n, "document file")
    BY <2>2, <2>3 DEF Met
  <2>5. Accepts(source, after[n - 1], source.blocks[n])
    OBVIOUS
  <2>6. ~IsBlock(after[n - 1].file)
    BY <1>1, <1>0, <1>5, <2>5 DEF Accepts
  <2> QED BY <1>2, <2>4, <2>6
<1>6. ASSUME NEW n \in 1 .. last, Kind(source, n) = "before_each", NEW m \in 1 .. n - 1
      PROVE  Kind(source, m) = "document file"
  BY <1>4, <1>6
<1> QED BY <1>3, <1>5, <1>6 DEF Ordered

\* In a file in order, what is asked of a block is what the canonical form says of it.
LEMMA OrderedAccepts ==
  ASSUME NEW source, NEW lines, ReadFrom(source, lines), Ordered(source),
         NEW n \in 1 .. Len(source.blocks), NEW state, Remembers(source, state, n - 1)
  PROVE  Accepts(source, state, source.blocks[n]) <=>
           Clean(source, source.blocks[n]) /\ Fitting(source, source.blocks[n])
<1> DEFINE block == source.blocks[n]
           last == Len(source.blocks)
           Met(kind) == \E m \in 1 .. n - 1 : Kind(source, m) = kind
<1>1. /\ last \in Nat /\ \A k \in 1 .. n - 1 : k \in 1 .. last
      /\ \A k \in 1 .. last : /\ source.blocks[k] \in Range(source.blocks)
                              /\ Kind(source, k) = source.blocks[k].kind
      /\ \A c \in Range(source.blocks) : \E k \in 1 .. last : c = source.blocks[k]
  <2>1. last \in Nat /\ DOMAIN source.blocks = 1 .. last
    BY BlocksEnclose
  <2> QED BY <2>1 DEF Kind, Range
<1>2. block.kind \in BlockKinds
  <2>1. Encloses(source, block)
    BY BlocksEnclose
  <2> QED BY <2>1 DEF Encloses
<1>3. /\ IsBlock(state.file) <=> Met("document file")
      /\ \/ state.setup = NoBlock /\ ~Met("before_each")
         \/ \E m \in 1 .. n - 1 : Kind(source, m) = "before_each" /\ state.setup = source.blocks[m]
      /\ IsBlock(state.pending) <=> n - 1 > 0 /\ Kind(source, n - 1) = "document case"
      /\ state.cases # <<>> <=> Met("case")
  BY DEF Remembers
<1>4. /\ ~IsBlock(NoBlock)
      /\ \A k \in 1 .. last : Kind(source, k) = "before_each" => IsBlock(source.blocks[k])
  BY <1>1 DEF IsBlock, NoBlock
<1>5. block.kind # "case" => ~IsBlock(state.pending)
  <2>1. n - 1 > 0 => n - 1 \in 1 .. last /\ (n - 1) + 1 = n
    BY <1>1
  <2> QED BY <1>1, <1>3, <2>1 DEF Ordered
\* All the blocks before one of these are `document file`, and there is none before the latter.
<1>6. block.kind \in {"document file", "before_each"} =>
        state.cases = <<>> /\ ~IsBlock(state.setup)
  <2>1. ASSUME block.kind \in {"document file", "before_each"}, NEW m \in 1 .. n - 1
        PROVE  Kind(source, m) = "document file"
    <3>1. block.kind = "document file" => n = 1
      BY <1>1 DEF Ordered
    <3>2. block.kind = "before_each" => Kind(source, m) = "document file"
      BY <1>1 DEF Ordered
    <3>3. n # 1
      BY <1>1
    <3> QED BY <2>1, <3>1, <3>2, <3>3, Zenon
  <2>2. ASSUME block.kind \in {"document file", "before_each"} PROVE ~Met("case") /\ ~Met("before_each")
    BY <2>1, <2>2
  <2> QED BY <1>3, <1>4, <2>2
<1>7. block.kind = "document file" => ~IsBlock(state.file)
  <2>1. block.kind = "document file" => n = 1
    BY <1>1 DEF Ordered
  <2>2. n = 1 => \A k \in 1 .. n - 1 : FALSE
    BY <1>1
  <2> QED BY <1>3, <2>1, <2>2
<1>8. ASSUME NEW m \in 1 .. last, Kind(source, m) = "before_each"
      PROVE  SetupSteps(source) = Steps(source, source.blocks[m])
  <2>1. ASSUME NEW k \in 1 .. last, Kind(source, k) = "before_each" PROVE k = m
    <3>1. ~(k \in 1 .. m - 1) /\ ~(m \in 1 .. k - 1)
      BY <1>8, <2>1 DEF Ordered
    <3> QED BY <1>1, <3>1
  <2>2. BeforeEachBlocks(source) = {source.blocks[m]}
    <3>1. \A b \in Range(source.blocks) : b.kind = "before_each" <=> b = source.blocks[m]
      <4>1. ASSUME NEW b \in Range(source.blocks), b.kind = "before_each" PROVE b = source.blocks[m]
        <5>1. PICK k \in 1 .. last : b = source.blocks[k]
          BY <1>1
        <5>2. Kind(source, k) = "before_each"
          BY <1>1, <4>1, <5>1, Zenon
        <5> QED BY <2>1, <5>1, <5>2
      <4>2. source.blocks[m].kind = "before_each"
        BY <1>1, <1>8, Zenon
      <4> QED BY <4>1, <4>2, Zenon
    <3> QED BY <1>1, <3>1, Zenon DEF BeforeEachBlocks
  <2> HIDE DEF last
  <2> QED BY <2>2 DEF SetupSteps
<1>9. block.kind = "case" => Scope(source, state.setup) = DeclaredNames(SetupSteps(source))
  <2>1. SUFFICES ASSUME block.kind = "case"
                 PROVE  Scope(source, state.setup) = DeclaredNames(SetupSteps(source))
    OBVIOUS
  <2>2. CASE state.setup = NoBlock /\ ~Met("before_each")
    <3>1. BeforeEachBlocks(source) = {}
      <4> SUFFICES ASSUME NEW b \in Range(source.blocks), b.kind = "before_each" PROVE FALSE
        BY DEF BeforeEachBlocks
      <4>0. PICK m \in 1 .. last : b = source.blocks[m]
        BY <1>1
      <4>1. Kind(source, m) = "before_each"
        BY <1>1, <4>0, Zenon
      <4>2. ~(m \in 1 .. n - 1) /\ m # n
        BY <1>1, <2>1, <2>2, <4>1
      <4>3. n \in 1 .. m - 1
        BY <1>1, <4>2
      <4>4. Kind(source, n) = "document file"
        BY <4>1, <4>3 DEF Ordered
      <4> QED BY <1>1, <2>1, <4>4
    <3>2. SetupSteps(source) = <<>>
      BY <3>1 DEF SetupSteps
    <3>3. DeclaredNames(<<>>) = {}
      BY DEF DeclaredNames, DeclaredBefore
    <3> QED BY <1>4, <2>2, <3>2, <3>3 DEF Scope
  <2>3. ASSUME NEW m \in 1 .. n - 1, Kind(source, m) = "before_each", state.setup = source.blocks[m]
        PROVE  Scope(source, state.setup) = DeclaredNames(SetupSteps(source))
    BY <1>1, <1>4, <1>8, <2>3 DEF Scope
  <2> QED BY <1>3, <2>2, <2>3
<1>10. CASE block.kind \in Documents
  <2>1. block.kind \notin StepKinds
    BY <1>10 DEF Documents, StepKinds
  <2> QED BY <1>5, <1>6, <1>7, <1>10, <2>1 DEF Accepts, Clean, Fitting, Documents, StepKinds
<1>11. CASE block.kind = "before_each"
  <2>1. SetupSteps(source) = Steps(source, block)
    BY <1>1, <1>8, <1>11
  <2>2. BeforeEachDefect(source, block) = "none" <=>
          /\ StepsDefect(source, block) = "none"
          /\ ParsedBeforeEach(Steps(source, block)) /\ Steps(source, block) # <<>>
    BY Zenon DEF BeforeEachDefect, ParsedBeforeEach
  <2> QED BY <1>5, <1>6, <1>11, <2>1, <2>2 DEF Accepts, Clean, Fitting, Documents, StepKinds
<1>12. CASE block.kind = "case"
  <2>1. HasAssertionBlock(Steps(source, block)) => Steps(source, block) # <<>>
    BY DEF HasAssertionBlock
  <2>2. CaseDefect(source, block, Scope(source, state.setup)) = "none" <=>
          /\ StepsDefect(source, block) = "none" /\ Steps(source, block) # <<>>
          /\ HasAssertionBlock(Steps(source, block))
          /\ ValidBindings(Steps(source, block), Scope(source, state.setup))
    BY DEF CaseDefect
  <2> QED BY <1>9, <1>12, <2>1, <2>2 DEF Accepts, Clean, Fitting, Documents, StepKinds
<1> QED BY <1>2, <1>10, <1>11, <1>12 DEF BlockKinds, Documents

\* parse.rs accepts a source, block after block and each by what it remembers of those
\* before it, exactly when the whole has the canonical top-level form, its literals fit
\* where they stand and its steps bind what they mention: for sources of any length.
THEOREM ParserTheorem ==
  ASSUME NEW source, NEW lines, ReadFrom(source, lines)
  PROVE  Parse(source).error = "none" <=> Canonical(source)
<1>1. CASE ~SyntaxOk(source)
  <2>1. Parse(source) = [Start EXCEPT !.error = "syntax"]
    BY <1>1, Zenon DEF Parse
  <2>2. Parse(source).error = "syntax"
    BY <2>1 DEF Start
  <2>3. ~Canonical(source)
    BY <1>1, CanonicalParts
  <2> QED BY <2>2, <2>3
<1>2. CASE SyntaxOk(source)
  <2> DEFINE last == Len(source.blocks)
  <2>1. source.blocks \in Seq(Range(source.blocks)) /\ last \in Nat
    BY BlocksEnclose
  <2>2. source.blocks \in Seq(Range(source.blocks) \cup {EndOfInput})
    BY <2>1
  <2>3. Len(Append(source.blocks, EndOfInput)) = last + 1 /\ last + 1 \in Nat
    BY <2>1, <2>2
  <2>4. PICK after : Follows(source, after) /\ Parse(source) = after[last + 1]
    BY <1>2, <2>3, ParseFollows
  <2> DEFINE Accepted(n) == /\ Remembers(source, after[n - 1], n - 1)
                            /\ Accepts(source, after[n - 1], source.blocks[n])
  <2>5. Parse(source).error = "none" <=>
          /\ \A n \in 1 .. last : Accepted(n)
          /\ ~EndsInDocumentCase(source)
    BY <2>4, BlockByBlock
  <2>6. Range(source.blocks) = {source.blocks[n] : n \in 1 .. last}
    BY BlocksEnclose DEF Range
  <2>7. ASSUME Parse(source).error = "none" PROVE Canonical(source)
    <3>1. \A n \in 1 .. last : Accepted(n)
      BY <2>5, <2>7
    <3>2. Ordered(source)
      BY <2>5, <2>7, AcceptedIsOrdered
    <3>3. \A b \in Range(source.blocks) : Clean(source, b) /\ Fitting(source, b)
      BY <2>6, <3>1, <3>2, OrderedAccepts
    <3>4. \A i \in source.code : Sound(source, i)
      BY <1>2, <3>3, CleanBlocksSoundLines
    <3> QED BY <1>2, <3>2, <3>3, <3>4, CanonicalParts
  <2>8. ASSUME Canonical(source) PROVE Parse(source).error = "none"
    <3>1. /\ Ordered(source)
          /\ \A b \in Range(source.blocks) : Clean(source, b) /\ Fitting(source, b)
      BY <2>8, CanonicalParts
    <3> DEFINE refused == {n \in 1 .. last : ~Accepted(n)}
               n == Min(refused)
    <3>2. ASSUME refused # {} PROVE FALSE
      <4>1. n \in refused /\ \A m \in refused : n <= m
        <5>1. refused \in SUBSET Nat
          OBVIOUS
        <5> HIDE DEF refused
        <5> QED BY <3>2, <5>1, FirstNumber
      <4> HIDE DEF n
      <4>2. n \in 1 .. last /\ n - 1 \in 0 .. last
        BY <2>1, <4>1
      <4>3. ASSUME NEW k \in 1 .. n - 1 PROVE after[k].error = "none"
        <5>1. k \in 1 .. last /\ ~(n <= k)
          BY <2>1, <4>2
        <5>2. Accepted(k)
          BY <4>1, <5>1
        <5>3. after[k] = AddBlock(source, after[k - 1], source.blocks[k])
          BY <2>4, <5>1, BlocksFollowed
        <5> QED BY <5>1, <5>2, <5>3, NextState
      <4>4. Remembers(source, after[n - 1], n - 1)
        BY <2>4, <4>2, <4>3, StatesRemembered
      <4>5. Accepts(source, after[n - 1], source.blocks[n])
        BY <2>6, <3>1, <4>2, <4>4, OrderedAccepts
      <4> QED BY <4>1, <4>4, <4>5
    <3>3. ~EndsInDocumentCase(source)
      <4>1. last > 0 => last \in 1 .. last /\ ~(last < last)
        BY <2>1
      <4> QED BY <3>1, <4>1 DEF Ordered, EndsInDocumentCase
    <3> QED BY <2>5, <3>2, <3>3
  <2> QED BY <2>7, <2>8
<1> QED BY <1>1, <1>2

-----------------------------------------------------------------------------
(* Sequences joined one after the other.                                   *)

IsSeq(s) == s \in Seq(Range(s))

LEMMA SeqFacts ==
  ASSUME NEW s, IsSeq(s)
  PROVE  /\ Len(s) \in Nat /\ DOMAIN s = 1 .. Len(s)
         /\ \A x : x \in Range(s) <=> \E i \in 1 .. Len(s) : s[i] = x
<1>1. Len(s) \in Nat /\ DOMAIN s = 1 .. Len(s)
  BY DEF IsSeq
<1> QED BY <1>1 DEF Range

LEMMA SeqMade ==
  ASSUME NEW n \in Nat, NEW s, s = [i \in 1 .. n |-> s[i]]
  PROVE  IsSeq(s) /\ Len(s) = n
<1>1. DOMAIN s = 1 .. n
  OBVIOUS
<1>2. \A i \in 1 .. n : s[i] \in Range(s)
  BY <1>1 DEF Range
<1>3. s \in [1 .. n -> Range(s)]
  BY <1>2
<1>4. s \in Seq(Range(s))
  BY <1>3
<1> QED BY <1>1, <1>4 DEF IsSeq

\* What is in a sequence of one element, or of two, or joined from two others.
LEMMA JoinedSeq ==
  ASSUME NEW s, IsSeq(s), NEW t, IsSeq(t)
  PROVE  /\ IsSeq(s \o t) /\ Len(s \o t) = Len(s) + Len(t)
         /\ \A i \in 1 .. Len(s) : (s \o t)[i] = s[i]
         /\ \A i \in 1 .. Len(t) : (s \o t)[Len(s) + i] = t[i]
         /\ Range(s \o t) = Range(s) \cup Range(t)
<1> DEFINE U == Range(s) \cup Range(t)
           j == s \o t
<1>1. s \in Seq(U) /\ t \in Seq(U)
  <2>1. s \in Seq(Range(s)) /\ t \in Seq(Range(t))
    BY DEF IsSeq
  <2> HIDE DEF U
  <2>2. Range(s) \subseteq U /\ Range(t) \subseteq U
    BY DEF U
  <2> QED BY <2>1, <2>2
<1> HIDE DEF U
<1>2. /\ j \in Seq(U) /\ Len(j) = Len(s) + Len(t) /\ Len(s) \in Nat /\ Len(t) \in Nat
      /\ DOMAIN s = 1 .. Len(s) /\ DOMAIN t = 1 .. Len(t) /\ DOMAIN j = 1 .. Len(j)
      /\ \A i \in 1 .. Len(s) : j[i] = s[i]
      /\ \A i \in 1 .. Len(t) : j[Len(s) + i] = t[i]
  BY <1>1
<1> HIDE DEF j
<1>3. IsSeq(j)
  <2>1. j \in [1 .. Len(j) -> U]
    BY <1>2
  <2>2. j = [i \in 1 .. Len(j) |-> j[i]]
    BY <2>1
  <2> QED BY <1>2, <2>2, SeqMade
<1>4. Range(j) = Range(s) \cup Range(t)
  <2>1. ASSUME NEW x \in Range(j) PROVE x \in Range(s) \cup Range(t)
    <3>1. PICK i \in 1 .. Len(j) : j[i] = x
      BY <1>2, <2>1 DEF Range
    <3>2. CASE i \in 1 .. Len(s)
      BY <1>2, <3>1, <3>2 DEF Range
    <3>3. CASE i \notin 1 .. Len(s)
      <4>1. i - Len(s) \in 1 .. Len(t) /\ Len(s) + (i - Len(s)) = i
        BY <1>2, <3>1, <3>3
      <4>2. j[i] = t[i - Len(s)]
        BY <1>2, <4>1
      <4> QED BY <1>2, <3>1, <4>1, <4>2 DEF Range
    <3> QED BY <3>2, <3>3
  <2>2. ASSUME NEW x \in Range(s) PROVE x \in Range(j)
    <3>1. PICK i \in 1 .. Len(s) : s[i] = x
      BY <1>2, <2>2 DEF Range
    <3>2. i \in 1 .. Len(j) /\ j[i] = x
      BY <1>2, <3>1
    <3> QED BY <1>2, <3>2 DEF Range
  <2>3. ASSUME NEW x \in Range(t) PROVE x \in Range(j)
    <3>1. PICK i \in 1 .. Len(t) : t[i] = x
      BY <1>2, <2>3 DEF Range
    <3>2. Len(s) + i \in 1 .. Len(j) /\ j[Len(s) + i] = x
      BY <1>2, <3>1
    <3> QED BY <1>2, <3>2 DEF Range
  <2> QED BY <2>1, <2>2, <2>3
<1> QED BY <1>2, <1>3, <1>4 DEF j

LEMMA OneSeq ==
  ASSUME NEW x
  PROVE  IsSeq(<<x>>) /\ Len(<<x>>) = 1 /\ <<x>>[1] = x /\ Range(<<x>>) = {x}
<1>1. DOMAIN <<x>> = 1 .. 1 /\ <<x>>[1] = x /\ Len(<<x>>) = 1
  OBVIOUS
<1>2. Range(<<x>>) = {x}
  BY <1>1 DEF Range
<1>3. <<x>> \in Seq({x})
  OBVIOUS
<1> QED BY <1>1, <1>2, <1>3 DEF IsSeq

LEMMA NoneSeq == IsSeq(<<>>) /\ Len(<<>>) = 0 /\ Range(<<>>) = {}
<1>1. DOMAIN <<>> = {} /\ Len(<<>>) = 0 /\ \A S : <<>> \in Seq(S)
  OBVIOUS
<1> QED BY <1>1 DEF IsSeq, Range

\* The sequences a sequence of sequences is joined from, one after the other.
Joins(parts, f) ==
  /\ f[0] = <<>>
  /\ \A k \in 1 .. Len(parts) : f[k] = f[k - 1] \o parts[k]
  /\ FlattenSeq(parts) = f[Len(parts)]

LEMMA FlattenFollows ==
  ASSUME NEW parts, IsSeq(parts), \A k \in 1 .. Len(parts) : IsSeq(parts[k])
  PROVE  \E f : Joins(parts, f)
<1> DEFINE last == Len(parts)
           Next(m, i) == IF i = 1 THEN parts[i] ELSE m[i - 1] \o parts[i]
           Solves(m, n) == m = [i \in 1 .. n |-> Next(m, i)]
           Failing == {n \in 1 .. last : ~\E m : Solves(m, n)}
           n == Min(Failing)
<1>0. last \in Nat /\ DOMAIN parts = 1 .. last
  BY SeqFacts
<1> HIDE DEF last
<1>1. ASSUME Failing # {} PROVE FALSE
  <2>1. n \in Failing /\ \A k \in Failing : n <= k
    <3> HIDE DEF Solves
    <3>1. Failing \in SUBSET Nat
      BY <1>0
    <3> HIDE DEF Failing
    <3> QED BY <1>1, <3>1, FirstNumber
  <2> HIDE DEF n
  <2>2. CASE n = 1
    <3> DEFINE m == [i \in 1 .. 1 |-> Next(<<>>, 1)]
    <3>1. Solves(m, 1)
      OBVIOUS
    <3> QED BY <2>1, <2>2, <3>1
  <2>3. CASE n # 1
    <3>1. n - 1 \in 1 .. last /\ n \in 1 .. last /\ ~(n <= n - 1)
      BY <1>0, <2>1, <2>3
    <3>2. n - 1 \notin Failing
      BY <2>1, <3>1
    <3>3. PICK m : Solves(m, n - 1)
      BY <3>1, <3>2
    <3> DEFINE e == [i \in 1 .. n |-> IF i = n THEN Next(m, i) ELSE m[i]]
    <3>4. \A i \in 1 .. n - 1 : m[i] = Next(m, i)
      BY <3>1, <3>3
    <3>5. \A i \in 1 .. n - 1 : e[i] = m[i]
      BY <3>1
    <3>6. \A i \in 1 .. n : Next(e, i) = Next(m, i)
      <4> TAKE i \in 1 .. n
      <4>1. i # 1 => i - 1 \in 1 .. n - 1
        BY <3>1
      <4> HIDE DEF e
      <4> QED BY <3>5, <4>1
    <3>7. \A i \in 1 .. n : e[i] = Next(e, i)
      <4> TAKE i \in 1 .. n
      <4>1. i # n => i \in 1 .. n - 1
        BY <3>1
      <4> HIDE DEF Next
      <4> QED BY <3>4, <3>6, <4>1
    <3>8. Solves(e, n)
      <4> HIDE DEF Next
      <4> QED BY <3>7
    <3> QED BY <2>1, <3>8
  <2> QED BY <2>2, <2>3
<1> DEFINE chosen == CHOOSE m : Solves(m, last)
           f == [k \in 0 .. last |-> IF k = 0 THEN <<>> ELSE chosen[k]]
<1>2. CASE last = 0
  <2>1. FlattenSeq(parts) = parts
    BY <1>2, Zenon DEF FlattenSeq, last
  <2>2. parts = <<>>
    BY <1>2 DEF IsSeq, last
  <2>3. f[0] = <<>>
    BY <1>0
  <2> HIDE DEF f
  <2>4. Joins(parts, f)
    BY <1>2, <2>1, <2>2, <2>3 DEF Joins, last
  <2> QED BY <2>4
<1>3. CASE last # 0
  <2>1. \E m : Solves(m, last)
    <3> HIDE DEF Solves
    <3>1. last \notin Failing /\ last \in 1 .. last
      BY <1>0, <1>1, <1>3
    <3> QED BY <3>1
  <2>2. FlattenSeq(parts) = chosen[last]
    BY <1>3, Zenon DEF FlattenSeq, Next, last
  <2>3. Solves(chosen, last)
    <3> HIDE DEF Solves
    <3> QED BY <2>1, Zenon
  <2> HIDE DEF chosen
  <2>4. \A k \in 1 .. last : chosen[k] = Next(chosen, k)
    <3> HIDE DEF Next
    <3> QED BY <2>3
  <2>5. f[0] = <<>> /\ \A k \in 1 .. last : f[k] = chosen[k]
    BY <1>0
  <2>6. ASSUME NEW k \in 1 .. last PROVE f[k] = f[k - 1] \o parts[k]
    <3>1. CASE k = 1
      <4>1. parts[1] = <<>> \o parts[1]
        <5>1. IsSeq(parts[1])
          BY <2>6, <3>1 DEF last
        <5> QED BY <5>1 DEF IsSeq
      <4>2. f[k] = parts[1] /\ f[k - 1] = <<>>
        BY <2>4, <2>5, <3>1
      <4> QED BY <3>1, <4>1, <4>2
    <3>2. CASE k # 1
      <4>1. k - 1 \in 1 .. last
        BY <1>0, <3>2
      <4>2. f[k] = chosen[k] /\ f[k - 1] = chosen[k - 1]
        BY <2>5, <4>1
      <4> HIDE DEF f
      <4> QED BY <2>4, <3>2, <4>2
    <3> QED BY <3>1, <3>2
  <2>7. f[last] = chosen[last]
    BY <1>0, <1>3, <2>5
  <2> HIDE DEF f
  <2>8. Joins(parts, f)
    BY <2>2, <2>5, <2>6, <2>7 DEF Joins, last
  <2> QED BY <2>8
<1> QED BY <1>2, <1>3

LEMMA FlattenMembers ==
  ASSUME NEW parts, IsSeq(parts), \A k \in 1 .. Len(parts) : IsSeq(parts[k]),
         NEW f, Joins(parts, f)
  PROVE  \A k \in 0 .. Len(parts) :
           IsSeq(f[k]) /\ Range(f[k]) = UNION {Range(parts[l]) : l \in 1 .. k}
<1> DEFINE Members(k) == IsSeq(f[k]) /\ Range(f[k]) = UNION {Range(parts[l]) : l \in 1 .. k}
           Failing == {k \in 0 .. Len(parts) : ~Members(k)}
<1>1. Len(parts) \in Nat
  BY SeqFacts
<1>2. Members(0)
  <2>1. 1 .. 0 = {} /\ f[0] = <<>>
    BY DEF Joins
  <2> QED BY <2>1, NoneSeq
<1>3. ASSUME NEW k \in 1 .. Len(parts), Members(k - 1) PROVE Members(k)
  <2>1. f[k] = f[k - 1] \o parts[k] /\ IsSeq(parts[k])
    BY DEF Joins
  <2>2. IsSeq(f[k]) /\ Range(f[k]) = Range(f[k - 1]) \cup Range(parts[k])
    BY <1>3, <2>1, JoinedSeq
  <2>3. 1 .. k = (1 .. k - 1) \cup {k}
    BY <1>1
  <2> QED BY <1>3, <2>2, <2>3
<1>4. ASSUME Failing # {} PROVE FALSE
  <2> HIDE DEF Members
  <2>1. PICK k \in Failing : \A l \in Failing : k <= l
    <3>1. Failing \in SUBSET Nat
      BY <1>1
    <3> HIDE DEF Failing
    <3> QED BY <1>4, <3>1, FirstNumber
  <2>2. k # 0 /\ k \in 0 .. Len(parts) /\ ~Members(k)
    BY <1>2, <2>1
  <2>3. k \in 1 .. Len(parts) /\ k - 1 \in 0 .. Len(parts) /\ ~(k <= k - 1)
    BY <1>1, <2>2
  <2>4. Members(k - 1)
    BY <2>1, <2>3
  <2> QED BY <1>3, <2>2, <2>3, <2>4
<1> HIDE DEF Members
<1>5. \A k \in 0 .. Len(parts) : Members(k)
  BY <1>4
<1> QED BY <1>5 DEF Members

LEMMA Flattened ==
  ASSUME NEW parts, IsSeq(parts), \A k \in 1 .. Len(parts) : IsSeq(parts[k])
  PROVE  /\ IsSeq(FlattenSeq(parts))
         /\ Range(FlattenSeq(parts)) = UNION {Range(parts[k]) : k \in 1 .. Len(parts)}
<1>1. PICK f : Joins(parts, f)
  BY FlattenFollows
<1>2. Len(parts) \in 0 .. Len(parts)
  BY SeqFacts
<1>3. IsSeq(f[Len(parts)]) /\ Range(f[Len(parts)]) = UNION {Range(parts[k]) : k \in 1 .. Len(parts)}
  BY <1>1, <1>2, FlattenMembers
<1>4. FlattenSeq(parts) = f[Len(parts)]
  BY <1>1 DEF Joins
<1> QED BY <1>3, <1>4, Zenon

-----------------------------------------------------------------------------
(* The contents and the headings they lead to.                             *)

Headings(D) == {h \in 1 .. Len(D) : D[h].what = "heading"}
Anchors(E) == {block.anchor : block \in Range(E)}

\* The entries E and the headings in D lead to each other, in the same order.
Mirrors(E, D) ==
  /\ IsSeq(E) /\ IsSeq(D)
  /\ \A i \in 1 .. Len(E) : E[i].what = "entry"
  /\ \A h \in 1 .. Len(D) : D[h].what # "entry"
  /\ \A h \in Headings(D) : \E i \in 1 .. Len(E) : E[i].anchor = D[h].anchor
  /\ \A i \in 1 .. Len(E) : \E h \in Headings(D) :
       D[h].anchor = E[i].anchor /\ D[h].title = E[i].title
  /\ \A i, j \in 1 .. Len(E), h, k \in Headings(D) :
       E[i].anchor = D[h].anchor /\ E[j].anchor = D[k].anchor => (i < j <=> h < k)

\* Where an element of a joined sequence comes from.
Splits(j, s, t) ==
  \A i \in 1 .. Len(j) :
    \/ i \in 1 .. Len(s) /\ j[i] = s[i]
    \/ \E k \in 1 .. Len(t) : i = Len(s) + k /\ j[i] = t[k]

LEMMA JoinedIndex ==
  ASSUME NEW s, IsSeq(s), NEW t, IsSeq(t), NEW j, j = s \o t
  PROVE  Splits(j, s, t)
<1>0. SUFFICES ASSUME NEW i \in 1 .. Len(j)
               PROVE  \/ i \in 1 .. Len(s) /\ j[i] = s[i]
                      \/ \E k \in 1 .. Len(t) : i = Len(s) + k /\ j[i] = t[k]
  BY DEF Splits
<1>1. Len(s) \in Nat /\ Len(t) \in Nat
  BY SeqFacts
<1>2. /\ Len(j) = Len(s) + Len(t)
      /\ \A k \in 1 .. Len(s) : j[k] = s[k]
      /\ \A k \in 1 .. Len(t) : j[Len(s) + k] = t[k]
  BY JoinedSeq
<1>3. CASE i \in 1 .. Len(s)
  BY <1>2, <1>3
<1>4. CASE i \notin 1 .. Len(s)
  <2>1. i - Len(s) \in 1 .. Len(t) /\ i = Len(s) + (i - Len(s))
    BY <1>1, <1>2, <1>4
  <2> QED BY <1>2, <2>1
<1> QED BY <1>3, <1>4

LEMMA MirrorsJoined ==
  ASSUME NEW E, NEW D, Mirrors(E, D), NEW F, NEW G, Mirrors(F, G), Anchors(E) \cap Anchors(F) = {}
  PROVE  Mirrors(E \o F, D \o G)
<1>0. PICK X, Y : X = E \o F /\ Y = D \o G
  OBVIOUS
<1>1. /\ IsSeq(E) /\ IsSeq(D) /\ IsSeq(F) /\ IsSeq(G)
      /\ Len(E) \in Nat /\ Len(D) \in Nat /\ Len(F) \in Nat /\ Len(G) \in Nat
  BY SeqFacts DEF Mirrors
<1>2. /\ IsSeq(X) /\ Len(X) = Len(E) + Len(F)
      /\ \A i \in 1 .. Len(E) : X[i] = E[i]
      /\ \A i \in 1 .. Len(F) : X[Len(E) + i] = F[i]
      /\ \A i \in 1 .. Len(X) :
           i \in 1 .. Len(E) \/ \E k \in 1 .. Len(F) : i = Len(E) + k
  <2>1. /\ IsSeq(X) /\ Len(X) = Len(E) + Len(F)
        /\ \A i \in 1 .. Len(E) : X[i] = E[i]
        /\ \A i \in 1 .. Len(F) : X[Len(E) + i] = F[i]
    BY <1>0, <1>1, JoinedSeq
  <2>2. ASSUME NEW i \in 1 .. Len(X)
        PROVE  i \in 1 .. Len(E) \/ \E k \in 1 .. Len(F) : i = Len(E) + k
    <3>1. IsSeq(E) /\ IsSeq(F) /\ X = E \o F
      BY <1>0, <1>1
    <3>2. Splits(X, E, F)
      BY <3>1, JoinedIndex
    <3> QED BY <2>2, <3>2 DEF Splits
  <2> QED BY <2>1, <2>2
<1>3. /\ IsSeq(Y) /\ Len(Y) = Len(D) + Len(G)
      /\ \A i \in 1 .. Len(D) : Y[i] = D[i]
      /\ \A i \in 1 .. Len(G) : Y[Len(D) + i] = G[i]
      /\ \A i \in 1 .. Len(Y) :
           i \in 1 .. Len(D) \/ \E k \in 1 .. Len(G) : i = Len(D) + k
  <2>1. /\ IsSeq(Y) /\ Len(Y) = Len(D) + Len(G)
        /\ \A i \in 1 .. Len(D) : Y[i] = D[i]
        /\ \A i \in 1 .. Len(G) : Y[Len(D) + i] = G[i]
    BY <1>0, <1>1, JoinedSeq
  <2>2. ASSUME NEW i \in 1 .. Len(Y)
        PROVE  i \in 1 .. Len(D) \/ \E k \in 1 .. Len(G) : i = Len(D) + k
    <3>1. IsSeq(D) /\ IsSeq(G) /\ Y = D \o G
      BY <1>0, <1>1
    <3>2. Splits(Y, D, G)
      BY <3>1, JoinedIndex
    <3> QED BY <2>2, <3>2 DEF Splits
  <2> QED BY <2>1, <2>2
<1>4. /\ \A i \in 1 .. Len(E) : i \in 1 .. Len(X)
      /\ \A i \in 1 .. Len(F) : Len(E) + i \in 1 .. Len(X)
      /\ \A h \in Headings(D) : h \in Headings(Y) /\ h \in 1 .. Len(D)
      /\ \A h \in Headings(G) : Len(D) + h \in Headings(Y) /\ h \in 1 .. Len(G)
  BY <1>1, <1>2, <1>3 DEF Headings
<1>5. \A h \in Headings(Y) : h \in Headings(D) \/ \E k \in Headings(G) : h = Len(D) + k
  BY <1>1, <1>3 DEF Headings
<1>6. \A i \in 1 .. Len(E), j \in 1 .. Len(F) : E[i].anchor # F[j].anchor
  <2> TAKE i \in 1 .. Len(E), j \in 1 .. Len(F)
  <2>1. E[i] \in Range(E) /\ F[j] \in Range(F)
    BY <1>1, SeqFacts
  <2>2. E[i].anchor \in Anchors(E) /\ F[j].anchor \in Anchors(F)
    BY <2>1 DEF Anchors
  <2> QED BY <2>2
<1>7. ASSUME NEW i \in 1 .. Len(X) PROVE X[i].what = "entry"
  <2>1. /\ \A k \in 1 .. Len(E) : E[k].what = "entry"
        /\ \A k \in 1 .. Len(F) : F[k].what = "entry"
    BY DEF Mirrors
  <2>2. CASE i \in 1 .. Len(E)
    BY <1>2, <2>1, <2>2
  <2>3. ASSUME NEW k \in 1 .. Len(F), i = Len(E) + k PROVE X[i].what = "entry"
    BY <1>2, <2>1, <2>3
  <2> QED BY <1>2, <2>2, <2>3
<1>8. ASSUME NEW h \in 1 .. Len(Y) PROVE Y[h].what # "entry"
  <2>1. /\ \A k \in 1 .. Len(D) : D[k].what # "entry"
        /\ \A k \in 1 .. Len(G) : G[k].what # "entry"
    BY DEF Mirrors
  <2>2. CASE h \in 1 .. Len(D)
    BY <1>3, <2>1, <2>2
  <2>3. ASSUME NEW k \in 1 .. Len(G), h = Len(D) + k PROVE Y[h].what # "entry"
    BY <1>3, <2>1, <2>3
  <2> QED BY <1>3, <2>2, <2>3
<1>9. ASSUME NEW h \in Headings(Y) PROVE \E i \in 1 .. Len(X) : X[i].anchor = Y[h].anchor
  <2>1. CASE h \in Headings(D)
    <3>1. PICK i \in 1 .. Len(E) : E[i].anchor = D[h].anchor
      BY <2>1 DEF Mirrors
    <3> QED BY <1>2, <1>3, <1>4, <2>1, <3>1
  <2>2. ASSUME NEW k \in Headings(G), h = Len(D) + k PROVE \E i \in 1 .. Len(X) : X[i].anchor = Y[h].anchor
    <3>1. PICK i \in 1 .. Len(F) : F[i].anchor = G[k].anchor
      BY <2>2 DEF Mirrors
    <3>2. X[Len(E) + i].anchor = Y[h].anchor /\ Len(E) + i \in 1 .. Len(X)
      BY <1>2, <1>3, <1>4, <2>2, <3>1
    <3> QED BY <3>2
  <2> QED BY <1>5, <2>1, <2>2
<1>10. ASSUME NEW i \in 1 .. Len(X)
       PROVE  \E h \in Headings(Y) : Y[h].anchor = X[i].anchor /\ Y[h].title = X[i].title
  <2>1. CASE i \in 1 .. Len(E)
    <3>1. PICK h \in Headings(D) : D[h].anchor = E[i].anchor /\ D[h].title = E[i].title
      BY <2>1 DEF Mirrors
    <3> QED BY <1>2, <1>3, <1>4, <2>1, <3>1
  <2>2. ASSUME NEW k \in 1 .. Len(F), i = Len(E) + k
        PROVE  \E h \in Headings(Y) : Y[h].anchor = X[i].anchor /\ Y[h].title = X[i].title
    <3>1. PICK h \in Headings(G) : G[h].anchor = F[k].anchor /\ G[h].title = F[k].title
      BY <2>2 DEF Mirrors
    <3>2. /\ Len(D) + h \in Headings(Y) /\ Y[Len(D) + h].anchor = X[i].anchor
          /\ Y[Len(D) + h].title = X[i].title
      BY <1>2, <1>3, <1>4, <2>2, <3>1
    <3> QED BY <3>2
  <2> QED BY <1>2, <2>1, <2>2
\* An entry and a heading that meet are of the same part.
<1>11. ASSUME NEW i \in 1 .. Len(X), NEW h \in Headings(Y), X[i].anchor = Y[h].anchor
       PROVE  \/ i \in 1 .. Len(E) /\ h \in Headings(D) /\ E[i].anchor = D[h].anchor
              \/ \E k \in 1 .. Len(F), l \in Headings(G) :
                   i = Len(E) + k /\ h = Len(D) + l /\ F[k].anchor = G[l].anchor
  <2>1. ASSUME NEW k \in 1 .. Len(F), i = Len(E) + k, h \in Headings(D) PROVE FALSE
    <3>1. PICK j \in 1 .. Len(E) : E[j].anchor = D[h].anchor
      BY <2>1 DEF Mirrors
    <3>2. X[i].anchor = F[k].anchor /\ Y[h].anchor = D[h].anchor
      BY <1>2, <1>3, <1>4, <2>1
    <3> QED BY <1>6, <1>11, <2>1, <3>1, <3>2
  <2>2. ASSUME i \in 1 .. Len(E), NEW l \in Headings(G), h = Len(D) + l PROVE FALSE
    <3>1. PICK j \in 1 .. Len(F) : F[j].anchor = G[l].anchor
      BY <2>2 DEF Mirrors
    <3>2. X[i].anchor = E[i].anchor /\ Y[h].anchor = G[l].anchor
      BY <1>2, <1>3, <1>4, <2>2
    <3> QED BY <1>6, <1>11, <2>2, <3>1, <3>2
  <2>3. CASE i \in 1 .. Len(E) /\ h \in Headings(D)
    BY <1>2, <1>3, <1>4, <1>11, <2>3
  <2>4. ASSUME NEW k \in 1 .. Len(F), i = Len(E) + k, NEW l \in Headings(G), h = Len(D) + l
        PROVE  F[k].anchor = G[l].anchor
    BY <1>2, <1>3, <1>4, <1>11, <2>4
  <2> QED BY <1>2, <1>5, <2>1, <2>2, <2>3, <2>4
<1>12. ASSUME NEW i \in 1 .. Len(X), NEW j \in 1 .. Len(X), NEW h \in Headings(Y), NEW k \in Headings(Y),
              X[i].anchor = Y[h].anchor, X[j].anchor = Y[k].anchor
       PROVE  i < j <=> h < k
  <2>1. CASE i \in 1 .. Len(E) /\ h \in Headings(D) /\ E[i].anchor = D[h].anchor
    <3>1. CASE j \in 1 .. Len(E) /\ k \in Headings(D) /\ E[j].anchor = D[k].anchor
      BY <2>1, <3>1 DEF Mirrors
    <3>2. ASSUME NEW b \in 1 .. Len(F), NEW l \in Headings(G), j = Len(E) + b, k = Len(D) + l
          PROVE  i < j /\ h < k
      BY <1>1, <1>4, <2>1, <3>2
    <3> QED BY <1>11, <1>12, <3>1, <3>2
  <2>2. ASSUME NEW a \in 1 .. Len(F), NEW m \in Headings(G),
               i = Len(E) + a, h = Len(D) + m, F[a].anchor = G[m].anchor
        PROVE  i < j <=> h < k
    <3>0. m \in 1 .. Len(G)
      BY <1>4
    <3>1. CASE j \in 1 .. Len(E) /\ k \in Headings(D)
      BY <1>1, <1>4, <2>2, <3>0, <3>1
    <3>2. ASSUME NEW b \in 1 .. Len(F), NEW l \in Headings(G), j = Len(E) + b, k = Len(D) + l,
                 F[b].anchor = G[l].anchor
          PROVE  i < j <=> h < k
      <4>1. a < b <=> m < l
        BY <2>2, <3>2 DEF Mirrors
      <4>2. l \in 1 .. Len(G)
        BY <1>4
      <4> QED BY <1>1, <2>2, <3>0, <3>2, <4>1, <4>2
    <3> QED BY <1>11, <1>12, <3>1, <3>2
  <2> QED BY <1>11, <1>12, <2>1, <2>2
<1>13. Mirrors(X, Y)
  BY <1>2, <1>3, <1>7, <1>8, <1>9, <1>10, <1>12 DEF Mirrors
<1> QED BY <1>0, <1>13
\* An entry and its heading.
LEMMA MirrorsOne ==
  ASSUME NEW e, NEW h, e.what = "entry", h.what = "heading", h.anchor = e.anchor, h.title = e.title
  PROVE  Mirrors(<<e>>, <<h>>) /\ Anchors(<<e>>) = {e.anchor}
<1>1. /\ IsSeq(<<e>>) /\ Len(<<e>>) = 1 /\ <<e>>[1] = e /\ Range(<<e>>) = {e}
      /\ IsSeq(<<h>>) /\ Len(<<h>>) = 1 /\ <<h>>[1] = h
  BY OneSeq
<1>2. 1 .. 1 = {1}
  OBVIOUS
<1>3. Headings(<<h>>) = {1}
  BY <1>1, <1>2 DEF Headings
<1>4. Anchors(<<e>>) = {e.anchor}
  BY <1>1 DEF Anchors
<1> QED BY <1>1, <1>2, <1>3, <1>4 DEF Mirrors

\* Blocks that are neither.
Aside(N) == IsSeq(N) /\ \A block \in Range(N) : block.what \notin {"entry", "heading"}

LEMMA MirrorsPadded ==
  ASSUME NEW E, NEW D, Mirrors(E, D), NEW N, Aside(N)
  PROVE  Mirrors(E, D \o N)
<1>1. \A i \in 1 .. Len(N) : N[i] \in Range(N)
  BY SeqFacts DEF Aside
<1>2. Mirrors(<<>>, N)
  <2>1. Headings(N) = {} /\ IsSeq(N) /\ \A i \in 1 .. Len(N) : N[i].what # "entry"
    BY <1>1 DEF Headings, Aside
  <2>2. 1 .. 0 = {}
    OBVIOUS
  <2> QED BY <2>1, <2>2, NoneSeq DEF Mirrors
<1>3. Anchors(<<>>) = {}
  BY NoneSeq DEF Anchors
<1>4. Mirrors(E \o <<>>, D \o N)
  BY <1>2, <1>3, MirrorsJoined
<1>5. E \o <<>> = E
  <2>1. IsSeq(E)
    BY DEF Mirrors
  <2> QED BY <2>1 DEF IsSeq
<1> QED BY <1>4, <1>5

LEMMA AsideParts ==
  /\ Aside(<<>>)
  /\ \A x : x.what \notin {"entry", "heading"} => Aside(<<x>>)
<1>1. Aside(<<>>)
  BY NoneSeq DEF Aside
<1>2. ASSUME NEW x, x.what \notin {"entry", "heading"} PROVE Aside(<<x>>)
  BY <1>2, OneSeq DEF Aside
<1> QED BY <1>1, <1>2

LEMMA AsideJoined ==
  ASSUME NEW s, Aside(s), NEW t, Aside(t)
  PROVE  Aside(s \o t)
BY JoinedSeq DEF Aside

LEMMA AsideFlattened ==
  ASSUME NEW parts, IsSeq(parts), \A k \in 1 .. Len(parts) : Aside(parts[k])
  PROVE  Aside(FlattenSeq(parts))
<1>1. \A k \in 1 .. Len(parts) : IsSeq(parts[k])
  BY DEF Aside
<1>2. /\ IsSeq(FlattenSeq(parts))
      /\ Range(FlattenSeq(parts)) = UNION {Range(parts[k]) : k \in 1 .. Len(parts)}
  BY <1>1, Flattened
<1> QED BY <1>2 DEF Aside

LEMMA AnchorsJoined ==
  ASSUME NEW s, IsSeq(s), NEW t, IsSeq(t)
  PROVE  Anchors(s \o t) = Anchors(s) \cup Anchors(t)
<1>1. Range(s \o t) = Range(s) \cup Range(t)
  BY JoinedSeq
<1> QED BY <1>1 DEF Anchors

LEMMA AnchorsFlattened ==
  ASSUME NEW parts, IsSeq(parts), \A k \in 1 .. Len(parts) : IsSeq(parts[k])
  PROVE  Anchors(FlattenSeq(parts)) = UNION {Anchors(parts[k]) : k \in 1 .. Len(parts)}
<1>1. Range(FlattenSeq(parts)) = UNION {Range(parts[k]) : k \in 1 .. Len(parts)}
  BY Flattened
<1> QED BY <1>1 DEF Anchors

LEMMA MirrorsFlattened ==
  ASSUME NEW Es, IsSeq(Es), NEW Ds, IsSeq(Ds), Len(Es) = Len(Ds),
         \A k \in 1 .. Len(Es) : Mirrors(Es[k], Ds[k]),
         \A k, l \in 1 .. Len(Es) : k # l => Anchors(Es[k]) \cap Anchors(Es[l]) = {}
  PROVE  Mirrors(FlattenSeq(Es), FlattenSeq(Ds))
<1> DEFINE n == Len(Es)
<1>1. n \in Nat /\ n = Len(Ds)
  BY SeqFacts
<1>2. \A k \in 1 .. n : IsSeq(Es[k]) /\ IsSeq(Ds[k])
  BY DEF Mirrors
<1>3. PICK f : Joins(Es, f)
  BY <1>2, FlattenFollows
<1>4. PICK g : Joins(Ds, g)
  BY <1>1, <1>2, FlattenFollows
<1>5. \A k \in 0 .. n : IsSeq(f[k]) /\ Range(f[k]) = UNION {Range(Es[l]) : l \in 1 .. k}
  BY <1>2, <1>3, FlattenMembers
<1> DEFINE Good(k) == Mirrors(f[k], g[k])
           Failing == {k \in 0 .. n : ~Good(k)}
<1>6. Good(0)
  <2>1. f[0] = <<>> /\ g[0] = <<>>
    BY <1>3, <1>4 DEF Joins
  <2>2. Headings(<<>>) = {} /\ 1 .. 0 = {}
    BY NoneSeq DEF Headings
  <2> QED BY <2>1, <2>2, NoneSeq DEF Mirrors
<1>7. ASSUME NEW k \in 1 .. n, Good(k - 1) PROVE Good(k)
  <2>1. f[k] = f[k - 1] \o Es[k] /\ g[k] = g[k - 1] \o Ds[k]
    BY <1>1, <1>3, <1>4 DEF Joins
  <2>2. ASSUME NEW a \in Anchors(f[k - 1]), a \in Anchors(Es[k]) PROVE FALSE
    <3>1. k - 1 \in 0 .. n
      BY <1>1
    <3>2. Range(f[k - 1]) = UNION {Range(Es[l]) : l \in 1 .. k - 1}
      BY <1>5, <3>1
    <3>3. PICK block \in Range(f[k - 1]) : block.anchor = a
      BY <2>2 DEF Anchors
    <3>4. PICK l \in 1 .. k - 1 : block \in Range(Es[l])
      BY <3>2, <3>3
    <3>5. l \in 1 .. n /\ l # k
      BY <1>1, <3>4
    <3>6. a \in Anchors(Es[l])
      BY <3>3, <3>4 DEF Anchors
    <3> QED BY <2>2, <3>5, <3>6
  <2>3. Anchors(f[k - 1]) \cap Anchors(Es[k]) = {}
    BY <2>2
  <2>4. Mirrors(f[k - 1], g[k - 1]) /\ Mirrors(Es[k], Ds[k])
    BY <1>7
  <2>5. Mirrors(f[k - 1] \o Es[k], g[k - 1] \o Ds[k])
    BY <2>3, <2>4, MirrorsJoined
  <2> QED BY <2>1, <2>5
<1> HIDE DEF Good
<1>8. ASSUME Failing # {} PROVE FALSE
  <2>1. PICK k \in Failing : \A l \in Failing : k <= l
    <3>1. Failing \in SUBSET Nat
      BY <1>1
    <3> HIDE DEF Failing
    <3> QED BY <1>8, <3>1, FirstNumber
  <2>2. k \in 0 .. n /\ k # 0 /\ ~Good(k)
    BY <1>6, <2>1
  <2>3. k \in 1 .. n /\ k - 1 \in 0 .. n /\ ~(k <= k - 1)
    BY <1>1, <2>2
  <2>4. Good(k - 1)
    BY <2>1, <2>3
  <2> QED BY <1>7, <2>2, <2>3, <2>4
<1>9. Mirrors(f[n], g[n])
  <2>1. n \in 0 .. n
    BY <1>1
  <2> QED BY <1>8, <2>1 DEF Good
<1>10. FlattenSeq(Es) = f[n] /\ FlattenSeq(Ds) = g[n]
  BY <1>1, <1>3, <1>4 DEF Joins
<1> QED BY <1>9, <1>10, Zenon

-----------------------------------------------------------------------------
(* What the blocks of a document show, and of which paths.                 *)

PathsIn(s) == {block.path : block \in {b \in Range(s) : b.what = "path"}}

\* No line of a fenced source ends its fence.
Tight(block) ==
  "fence" \in DOMAIN block =>
    \A k \in DOMAIN block.lines :
      Ticks(block.lines[k]) < block.fence /\ Fence(block.lines[k]) < block.fence

Lists(s, paths) == IsSeq(s) /\ PathsIn(s) = paths /\ \A block \in Range(s) : Tight(block)

LEMMA ListsOne ==
  ASSUME NEW block, Tight(block)
  PROVE  Lists(<<block>>, IF block.what = "path" THEN {block.path} ELSE {})
BY OneSeq DEF Lists, PathsIn

LEMMA ListsNone == Lists(<<>>, {})
BY NoneSeq DEF Lists, PathsIn

LEMMA ListsJoined ==
  ASSUME NEW s, NEW p, Lists(s, p), NEW t, NEW q, Lists(t, q)
  PROVE  Lists(s \o t, p \cup q)
<1>1. IsSeq(s \o t) /\ Range(s \o t) = Range(s) \cup Range(t)
  BY JoinedSeq DEF Lists
<1>2. PathsIn(s \o t) = PathsIn(s) \cup PathsIn(t)
  BY <1>1 DEF PathsIn
<1> QED BY <1>1, <1>2 DEF Lists

LEMMA ListsFlattened ==
  ASSUME NEW parts, IsSeq(parts), NEW paths, \A k \in 1 .. Len(parts) : Lists(parts[k], paths[k])
  PROVE  Lists(FlattenSeq(parts), UNION {paths[k] : k \in 1 .. Len(parts)})
<1>1. \A k \in 1 .. Len(parts) : IsSeq(parts[k])
  BY DEF Lists
<1>2. /\ IsSeq(FlattenSeq(parts))
      /\ Range(FlattenSeq(parts)) = UNION {Range(parts[k]) : k \in 1 .. Len(parts)}
  BY <1>1, Flattened
<1>3. PathsIn(FlattenSeq(parts)) = UNION {PathsIn(parts[k]) : k \in 1 .. Len(parts)}
  BY <1>2 DEF PathsIn
<1>4. UNION {PathsIn(parts[k]) : k \in 1 .. Len(parts)} = UNION {paths[k] : k \in 1 .. Len(parts)}
  BY DEF Lists
<1>5. \A block \in Range(FlattenSeq(parts)) : Tight(block)
  BY <1>2 DEF Lists
<1> QED BY <1>2, <1>3, <1>4, <1>5 DEF Lists
-----------------------------------------------------------------------------
(* Fences.                                                                 *)

LEMMA LastNumber ==
  ASSUME NEW S \in SUBSET Nat, IsFiniteSet(S), S # {}
  PROVE  Max(S) \in S /\ \A k \in S : k <= Max(S)
<1> DEFINE n == Cardinality(S)
           last == InOrder(S)[n]
<1>1. /\ n \in Nat /\ DOMAIN InOrder(S) = 1 .. n /\ Range(InOrder(S)) = S
      /\ \A j, k \in 1 .. n : j < k => InOrder(S)[j] < InOrder(S)[k]
  BY InOrderIsOrder
<1>2. n # 0
  BY FS_EmptySet
<1>3. \A x : x \in S <=> \E j \in 1 .. n : InOrder(S)[j] = x
  BY <1>1 DEF Range
<1> HIDE DEF n
<1>4. n \in 1 .. n
  BY <1>1, <1>2
<1>5. last \in S
  BY <1>3, <1>4
<1>6. ASSUME NEW x \in S PROVE x <= last
  <2>1. PICK j \in 1 .. n : InOrder(S)[j] = x
    BY <1>3
  <2>2. j = n \/ j < n
    BY <1>1
  <2>3. j < n => x < last
    BY <1>1, <1>4, <2>1
  <2>4. x \in Nat /\ last \in Nat
    BY <1>5
  <2> HIDE DEF last
  <2>5. j = n => x = last
    BY <2>1 DEF last
  <2> QED BY <2>2, <2>3, <2>4, <2>5
<1> HIDE DEF last
<1>7. \E x \in S : \A y \in S : x >= y
  BY <1>5, <1>6
<1>8. Max(S) \in S /\ \A y \in S : Max(S) >= y
  BY <1>7 DEF Max
<1> QED BY <1>8

LEMMA FiniteImage ==
  ASSUME NEW S, IsFiniteSet(S), NEW f
  PROVE  IsFiniteSet({f[x] : x \in S})
<1> DEFINE T == {f[x] : x \in S}
           g == [x \in S |-> f[x]]
<1>1. g \in Surjection(S, T)
  BY DEF Surjection
<1> HIDE DEF g, T
<1>2. IsFiniteSet(T)
  BY <1>1, FS_Surjection DEF ExistsSurjection
<1> QED BY <1>2 DEF T

Listed(lines) ==
  IsSeq(lines) /\ \A k \in DOMAIN lines : Ticks(lines[k]) \in Nat /\ Fence(lines[k]) \in Nat

\* A fence is longer than the backticks of every line it encloses.
LEMMA FencedIsTight ==
  ASSUME NEW lines, Listed(lines)
  PROVE  Tight(Fenced(lines))
<1> DEFINE one == [k \in DOMAIN lines |-> Ticks(lines[k]) + 1]
           two == [k \in DOMAIN lines |-> Fence(lines[k]) + 1]
           A == {one[k] : k \in DOMAIN lines}
           B == {two[k] : k \in DOMAIN lines}
           S == {3} \cup A \cup B
<1>1. IsFiniteSet(DOMAIN lines)
  BY SeqFacts, FS_Interval DEF Listed
<1>2. IsFiniteSet(S)
  <2>1. IsFiniteSet(A) /\ IsFiniteSet(B)
    <3> HIDE DEF one, two
    <3> QED BY <1>1, FiniteImage
  <2>2. IsFiniteSet({3})
    BY FS_Singleton
  <2> HIDE DEF A, B
  <2> QED BY <2>1, <2>2, FS_Union
<1>3. S \in SUBSET Nat /\ S # {}
  BY DEF Listed
<1>4. \A k \in S : k <= Max(S)
  BY <1>2, <1>3, LastNumber
<1>5. FenceLength(lines) = Max(S)
  BY DEF FenceLength
<1>6. Max(S) \in Nat
  BY <1>2, <1>3, LastNumber
<1>7. \A k \in DOMAIN lines : one[k] \in S /\ two[k] \in S
  OBVIOUS
<1> HIDE DEF S
<1>8. \A k \in DOMAIN lines : Ticks(lines[k]) < Max(S) /\ Fence(lines[k]) < Max(S)
  BY <1>4, <1>6, <1>7 DEF Listed
<1> QED BY <1>5, <1>8 DEF Tight, Fenced

LEMMA SnippetListed ==
  ASSUME NEW setup, Listed(setup), NEW case, Listed(case)
  PROVE  Listed(Snippet(setup, case))
<1>1. Listed(<<EmptyLine>>)
  <2>1. Ticks(EmptyLine) = 0 /\ Fence(EmptyLine) = 0
    BY DEF Ticks, Fence, Field, EmptyLine
  <2>2. \A k \in DOMAIN <<EmptyLine>> : <<EmptyLine>>[k] = EmptyLine
    OBVIOUS
  <2> QED BY <2>1, <2>2, OneSeq DEF Listed
<1>2. ASSUME NEW s, Listed(s), NEW t, Listed(t), NEW j, j = s \o t PROVE Listed(j)
  <2>1. IsSeq(s) /\ IsSeq(t) /\ IsSeq(j)
    BY <1>2, JoinedSeq DEF Listed
  <2>2. DOMAIN s = 1 .. Len(s) /\ DOMAIN t = 1 .. Len(t) /\ DOMAIN j = 1 .. Len(j)
    BY <2>1, SeqFacts
  <2>3. ASSUME NEW k \in 1 .. Len(j)
        PROVE  (\E i \in 1 .. Len(s) : j[k] = s[i]) \/ (\E i \in 1 .. Len(t) : j[k] = t[i])
    <3>1. Splits(j, s, t)
      BY <1>2, <2>1, JoinedIndex
    <3> QED BY <2>3, <3>1 DEF Splits
  <2> QED BY <1>2, <2>1, <2>2, <2>3 DEF Listed
<1>3. Listed(setup \o <<EmptyLine>> \o case)
  BY <1>1, <1>2
<1> QED BY <1>3 DEF Snippet

-----------------------------------------------------------------------------
(* The document, part by part.                                             *)

Worded(title) == Words(title) \in Seq(STRING)
FineCase(case) == Worded(case.title) /\ Listed(case.source)
FineFile(file) ==
  /\ Worded(file.title) /\ Listed(file.setup)
  /\ IsSeq(file.cases) /\ \A c \in DOMAIN file.cases : FineCase(file.cases[c])
FineGroup(group) ==
  /\ Worded(group.name)
  /\ IsSeq(group.files) /\ \A f \in DOMAIN group.files : FineFile(group.files[f])
FineCatalog(catalog) ==
  IsSeq(catalog) /\ \A g \in DOMAIN catalog : FineGroup(catalog[g])

\* An anchor begins with its kind and its place.
LEMMA AnchorParts ==
  ASSUME NEW title, Worded(title), NEW g, NEW f, NEW c
  PROVE  /\ GroupAnchor(g, title)[1] = "group" /\ GroupAnchor(g, title)[2] = g
         /\ FileAnchor(g, f, title)[1] = "file" /\ FileAnchor(g, f, title)[2] = g
         /\ FileAnchor(g, f, title)[3] = f
         /\ CaseAnchor(g, f, c, title)[1] = "case" /\ CaseAnchor(g, f, c, title)[2] = g
         /\ CaseAnchor(g, f, c, title)[3] = f /\ CaseAnchor(g, f, c, title)[4] = c
<1>1. ASSUME NEW prefix, IsSeq(prefix), NEW i \in 1 .. Len(prefix)
      PROVE  AnchorId(prefix, title)[i] = prefix[i]
  <2>1. IsSeq(Words(title))
    <3>1. /\ Len(Words(title)) \in Nat
          /\ Words(title) = [k \in 1 .. Len(Words(title)) |-> Words(title)[k]]
      BY DEF Worded
    <3> QED BY <3>1, SeqMade
  <2> QED BY <1>1, <2>1, JoinedSeq DEF AnchorId
<1> DEFINE P == <<"group", g>>
           Q == <<"file", g, f>>
           R == <<"case", g, f, c>>
<1>2. IsSeq(P) /\ Len(P) = 2 /\ P[1] = "group" /\ P[2] = g
  <2>1. P = [k \in 1 .. 2 |-> P[k]]
    OBVIOUS
  <2> QED BY <2>1, SeqMade
<1>3. IsSeq(Q) /\ Len(Q) = 3 /\ Q[1] = "file" /\ Q[2] = g /\ Q[3] = f
  <2>1. Q = [k \in 1 .. 3 |-> Q[k]]
    OBVIOUS
  <2> QED BY <2>1, SeqMade
<1>4. IsSeq(R) /\ Len(R) = 4 /\ R[1] = "case" /\ R[2] = g /\ R[3] = f /\ R[4] = c
  <2>1. R = [k \in 1 .. 4 |-> R[k]]
    OBVIOUS
  <2> QED BY <2>1, SeqMade
<1>5. GroupAnchor(g, title) = AnchorId(P, title) /\ FileAnchor(g, f, title) = AnchorId(Q, title)
      /\ CaseAnchor(g, f, c, title) = AnchorId(R, title)
  BY DEF GroupAnchor, FileAnchor, CaseAnchor
<1> HIDE DEF P, Q, R
<1>6. 1 \in 1 .. 2 /\ 2 \in 1 .. 2 /\ 1 \in 1 .. 3 /\ 2 \in 1 .. 3 /\ 3 \in 1 .. 3
      /\ 1 \in 1 .. 4 /\ 2 \in 1 .. 4 /\ 3 \in 1 .. 4 /\ 4 \in 1 .. 4
  OBVIOUS
<1>7. AnchorId(P, title)[1] = "group" /\ AnchorId(P, title)[2] = g
  BY <1>1, <1>2, <1>6
<1>8. AnchorId(Q, title)[1] = "file" /\ AnchorId(Q, title)[2] = g /\ AnchorId(Q, title)[3] = f
  BY <1>1, <1>3, <1>6
<1>9. AnchorId(R, title)[1] = "case" /\ AnchorId(R, title)[2] = g /\ AnchorId(R, title)[3] = f
      /\ AnchorId(R, title)[4] = c
  BY <1>1, <1>4, <1>6
<1> QED BY <1>5, <1>7, <1>8, <1>9

LEMMA DescriptionParts ==
  ASSUME NEW described
  PROVE  Aside(Description(described)) /\ Lists(Description(described), {})
<1> DEFINE block == [what |-> "description"]
<1>1. Tight(block) /\ block.what = "description"
  BY DEF Tight
<1> HIDE DEF block
<1>2. Lists(<<block>>, {}) /\ Aside(<<block>>)
  BY <1>1, ListsOne, AsideParts
<1>3. Lists(<<>>, {}) /\ Aside(<<>>)
  BY ListsNone, AsideParts
<1> QED BY <1>2, <1>3 DEF Description, block

LEMMA ShownSource ==
  ASSUME NEW lines, Listed(lines)
  PROVE  /\ Aside(<<Fenced(lines)>>) /\ Lists(<<Fenced(lines)>>, {})
         /\ Aside(<<PlainSource(lines)>>) /\ Lists(<<PlainSource(lines)>>, {})
<1>1. Fenced(lines).what = "source" /\ PlainSource(lines).what = "source" /\ Tight(PlainSource(lines))
  BY DEF Fenced, PlainSource, Tight
<1>2. Tight(Fenced(lines))
  BY FencedIsTight
<1> QED BY <1>1, <1>2, ListsOne, AsideParts

LEMMA HeadingParts ==
  ASSUME NEW depth, NEW marker, NEW title, NEW anchor
  PROVE  /\ Mirrors(<<TocEntry(depth, title, anchor)>>, <<Heading(marker, title, anchor)>>)
         /\ Anchors(<<TocEntry(depth, title, anchor)>>) = {anchor}
         /\ Lists(<<TocEntry(depth, title, anchor)>>, {}) /\ Lists(<<Heading(marker, title, anchor)>>, {})
<1> DEFINE e == TocEntry(depth, title, anchor)
           h == Heading(marker, title, anchor)
<1>1. /\ e.what = "entry" /\ h.what = "heading" /\ h.anchor = e.anchor /\ h.title = e.title
      /\ e.anchor = anchor /\ Tight(e) /\ Tight(h)
  BY DEF TocEntry, Heading, Tight
<1> HIDE DEF e, h
<1>2. Mirrors(<<e>>, <<h>>) /\ Anchors(<<e>>) = {anchor}
  BY <1>1, MirrorsOne
<1>3. Lists(<<e>>, {}) /\ Lists(<<h>>, {})
  BY <1>1, ListsOne
<1> QED BY <1>2, <1>3 DEF e, h
\* A block that only names something, and one that names a path.
LEMMA PlainParts ==
  /\ \A title : \A label \in {"case", "file", "group"} :
       Lists(<<Labelled(label, title)>>, {}) /\ Aside(<<Labelled(label, title)>>)
  /\ \A path : Lists(<<[what |-> "path", path |-> path]>>, {path}) /\ Aside(<<[what |-> "path", path |-> path]>>)
<1>1. ASSUME NEW title, NEW label \in {"case", "file", "group"}
      PROVE  Lists(<<Labelled(label, title)>>, {}) /\ Aside(<<Labelled(label, title)>>)
  <2>1. /\ Tight(Labelled(label, title)) /\ Labelled(label, title).what \notin {"path", "entry", "heading"}
    BY DEF Tight, Labelled
  <2> QED BY <2>1, ListsOne, AsideParts
<1>2. ASSUME NEW path
      PROVE  Lists(<<[what |-> "path", path |-> path]>>, {path}) /\ Aside(<<[what |-> "path", path |-> path]>>)
  <2> DEFINE block == [what |-> "path", path |-> path]
  <2>1. Tight(block) /\ block.what = "path" /\ block.path = path
    BY DEF Tight
  <2> HIDE DEF block
  <2>2. Lists(<<block>>, {path}) /\ Aside(<<block>>)
    BY <2>1, ListsOne, AsideParts
  <2> QED BY <2>2 DEF block
<1> QED BY <1>1, <1>2

LEMMA CaseParts ==
  ASSUME NEW file, FineFile(file), NEW g \in Nat, NEW f \in Nat, NEW c \in DOMAIN file.cases
  PROVE  /\ Mirrors(CaseEntry(file, g, f, c), MarkdownCase(file, g, f, c))
         /\ \A a \in Anchors(CaseEntry(file, g, f, c)) :
              a[1] = "case" /\ a[2] = g /\ a[3] = f /\ a[4] = c
         /\ Lists(CaseEntry(file, g, f, c), {}) /\ Lists(MarkdownCase(file, g, f, c), {})
         /\ Lists(PlainCase(file, c), {}) /\ Aside(PlainCase(file, c))
<1> DEFINE case == file.cases[c]
           anchor == CaseAnchor(g, f, c, case.title)
           heading == <<Heading(4, case.title, anchor)>>
           label == <<Labelled("case", case.title)>>
           told == Description(case.described)
           lines == Snippet(file.setup, case.source)
           fenced == <<Fenced(lines)>>
           plain == <<PlainSource(lines)>>
<1>1. Worded(case.title) /\ Listed(case.source) /\ Listed(file.setup) /\ c \in Nat
  BY SeqFacts DEF FineFile, FineCase
<1>2. anchor[1] = "case" /\ anchor[2] = g /\ anchor[3] = f /\ anchor[4] = c
  <2>1. PICK title : title = case.title
    OBVIOUS
  <2>2. Worded(title)
    BY <1>1, <2>1
  <2>3. CaseAnchor(g, f, c, title)[1] = "case" /\ CaseAnchor(g, f, c, title)[2] = g
        /\ CaseAnchor(g, f, c, title)[3] = f /\ CaseAnchor(g, f, c, title)[4] = c
    BY <2>2, AnchorParts
  <2> QED BY <2>1, <2>3
<1>3. Listed(lines)
  BY <1>1, SnippetListed
<1>4. Aside(told) /\ Lists(told, {})
  BY DescriptionParts
<1>5. CaseEntry(file, g, f, c) = <<TocEntry(2, case.title, anchor)>>
  BY DEF CaseEntry
<1> DEFINE entry == <<TocEntry(2, case.title, anchor)>>
<1>6. Lists(label, {}) /\ Aside(label)
  BY PlainParts
<1>7. MarkdownCase(file, g, f, c) = heading \o told \o fenced
  BY DEF MarkdownCase
<1>8. PlainCase(file, c) = label \o told \o plain
  BY DEF PlainCase
<1> HIDE DEF case, anchor, lines
<1>9. /\ Mirrors(entry, heading) /\ Anchors(entry) = {anchor}
      /\ Lists(entry, {}) /\ Lists(heading, {})
  BY HeadingParts
<1>10. Aside(fenced) /\ Aside(plain) /\ Lists(fenced, {}) /\ Lists(plain, {})
  BY <1>3, ShownSource
<1> HIDE DEF entry, heading, label, told, fenced, plain
<1>11. Mirrors(entry, heading \o told \o fenced)
  BY <1>4, <1>9, <1>10, MirrorsPadded
<1>12. Lists(heading \o told \o fenced, {})
  <2>1. Lists(heading \o told, {} \cup {})
    BY <1>4, <1>9, ListsJoined
  <2>2. Lists(heading \o told \o fenced, {} \cup {} \cup {})
    BY <2>1, <1>10, ListsJoined
  <2> QED BY <2>2
<1>13. Lists(label \o told \o plain, {})
  <2>1. Lists(label \o told, {} \cup {})
    BY <1>4, <1>6, ListsJoined
  <2>2. Lists(label \o told \o plain, {} \cup {} \cup {})
    BY <2>1, <1>10, ListsJoined
  <2> QED BY <2>2
<1>14. CaseEntry(file, g, f, c) = entry
  BY <1>5 DEF entry
<1>15. Aside(label \o told \o plain)
  BY <1>4, <1>6, <1>10, AsideJoined
<1> QED BY <1>2, <1>7, <1>8, <1>9, <1>11, <1>12, <1>13, <1>14, <1>15

LEMMA FileParts ==
  ASSUME NEW file, FineFile(file), NEW g \in Nat, NEW f \in Nat
  PROVE  /\ Mirrors(FileEntries(file, g, f), MarkdownFile(file, g, f))
         /\ \A a \in Anchors(FileEntries(file, g, f)) :
              a[1] \in {"file", "case"} /\ a[2] = g /\ a[3] = f
         /\ Lists(FileEntries(file, g, f), {}) /\ Lists(MarkdownFile(file, g, f), {file.path})
         /\ Lists(PlainFile(file), {file.path}) /\ Aside(PlainFile(file))
<1> DEFINE anchor == FileAnchor(g, f, file.title)
           entry == <<TocEntry(1, file.title, anchor)>>
           heading == <<Heading(3, file.title, anchor)>>
           path == <<[what |-> "path", path |-> file.path]>>
           label == <<Labelled("file", file.title)>>
           told == Description(file.described)
           fenced == IF ShowsSetup(file) THEN <<Fenced(file.setup)>> ELSE <<>>
           plain == IF ShowsSetup(file) THEN <<PlainSource(file.setup)>> ELSE <<>>
           entries == [c \in DOMAIN file.cases |-> CaseEntry(file, g, f, c)]
           cases == [c \in DOMAIN file.cases |-> MarkdownCase(file, g, f, c)]
           plains == [c \in DOMAIN file.cases |-> PlainCase(file, c)]
           n == Len(file.cases)
<1>1. /\ Worded(file.title) /\ Listed(file.setup)
      /\ n \in Nat /\ DOMAIN file.cases = 1 .. n
  BY SeqFacts DEF FineFile
<1>2. anchor[1] = "file" /\ anchor[2] = g /\ anchor[3] = f
  <2>1. PICK title : title = file.title
    OBVIOUS
  <2>2. Worded(title)
    BY <1>1, <2>1
  <2>3. FileAnchor(g, f, title)[1] = "file" /\ FileAnchor(g, f, title)[2] = g
        /\ FileAnchor(g, f, title)[3] = f
    BY <2>2, AnchorParts
  <2> QED BY <2>1, <2>3
<1>3. Aside(told) /\ Lists(told, {})
  BY DescriptionParts
<1>4. Aside(path) /\ Lists(path, {file.path}) /\ Lists(label, {}) /\ Aside(label)
  BY PlainParts
<1>5. Aside(fenced) /\ Aside(plain) /\ Lists(fenced, {}) /\ Lists(plain, {})
  BY <1>1, ShownSource, AsideParts, ListsNone
<1>6. \A c \in 1 .. n :
        /\ Mirrors(CaseEntry(file, g, f, c), MarkdownCase(file, g, f, c))
        /\ \A a \in Anchors(CaseEntry(file, g, f, c)) :
             a[1] = "case" /\ a[2] = g /\ a[3] = f /\ a[4] = c
        /\ Lists(CaseEntry(file, g, f, c), {}) /\ Lists(MarkdownCase(file, g, f, c), {})
        /\ Lists(PlainCase(file, c), {}) /\ Aside(PlainCase(file, c))
  BY <1>1, CaseParts
<1>7. /\ MarkdownFile(file, g, f) = heading \o path \o told \o fenced \o FlattenSeq(cases)
      /\ PlainFile(file) = label \o path \o told \o plain \o FlattenSeq(plains)
      /\ FileEntries(file, g, f) = entry \o FlattenSeq(entries)
  <2>1. /\ <<Heading(3, file.title, anchor), [what |-> "path", path |-> file.path]>> = heading \o path
        /\ <<Labelled("file", file.title), [what |-> "path", path |-> file.path]>> = label \o path
    OBVIOUS
  <2> QED BY <2>1 DEF MarkdownFile, PlainFile, FileEntries
<1>8. /\ Mirrors(entry, heading) /\ Anchors(entry) = {anchor}
      /\ Lists(entry, {}) /\ Lists(heading, {})
  BY HeadingParts
<1>9. /\ IsSeq(entries) /\ Len(entries) = n /\ IsSeq(cases) /\ Len(cases) = n
      /\ IsSeq(plains) /\ Len(plains) = n
      /\ \A c \in 1 .. n : /\ entries[c] = CaseEntry(file, g, f, c)
                           /\ cases[c] = MarkdownCase(file, g, f, c)
                           /\ plains[c] = PlainCase(file, c)
  <2>1. /\ entries = [c \in 1 .. n |-> entries[c]] /\ cases = [c \in 1 .. n |-> cases[c]]
        /\ plains = [c \in 1 .. n |-> plains[c]]
    BY <1>1
  <2>2. \A c \in 1 .. n : /\ entries[c] = CaseEntry(file, g, f, c)
                          /\ cases[c] = MarkdownCase(file, g, f, c)
                          /\ plains[c] = PlainCase(file, c)
    BY <1>1
  <2> HIDE DEF entries, cases, plains, n
  <2>3. IsSeq(entries) /\ Len(entries) = n
    BY <1>1, <2>1, SeqMade
  <2>4. IsSeq(cases) /\ Len(cases) = n
    BY <1>1, <2>1, SeqMade
  <2>5. IsSeq(plains) /\ Len(plains) = n
    BY <1>1, <2>1, SeqMade
  <2> QED BY <2>2, <2>3, <2>4, <2>5
<1> HIDE DEF anchor, entry, heading, path, label, told, fenced, plain, entries, cases, plains, n
<1>10. Mirrors(FlattenSeq(entries), FlattenSeq(cases))
  <2>1. \A c \in 1 .. Len(entries) : Mirrors(entries[c], cases[c])
    BY <1>6, <1>9
  <2>2. ASSUME NEW c \in 1 .. Len(entries), NEW d \in 1 .. Len(entries), c # d
        PROVE  Anchors(entries[c]) \cap Anchors(entries[d]) = {}
    BY <1>6, <1>9, <2>2
  <2> QED BY <1>9, <2>1, <2>2, MirrorsFlattened
<1>11. \A a \in Anchors(FlattenSeq(entries)) : a[1] = "case" /\ a[2] = g /\ a[3] = f
  <2>1. \A c \in 1 .. Len(entries) : IsSeq(entries[c])
    BY <1>6, <1>9 DEF Lists
  <2>2. Anchors(FlattenSeq(entries)) = UNION {Anchors(entries[c]) : c \in 1 .. Len(entries)}
    BY <1>9, <2>1, AnchorsFlattened
  <2> QED BY <1>6, <1>9, <2>2
<1>12. /\ Lists(FlattenSeq(entries), {}) /\ Lists(FlattenSeq(cases), {})
       /\ Lists(FlattenSeq(plains), {})
  <2> DEFINE none == [c \in 1 .. n |-> {}]
  <2>1. \A c \in 1 .. n : none[c] = {}
    OBVIOUS
  <2>2. UNION {none[c] : c \in 1 .. n} = {}
    BY <2>1
  <2> HIDE DEF none
  <2>3. Lists(FlattenSeq(entries), UNION {none[c] : c \in 1 .. n})
    <3>1. ASSUME NEW c \in 1 .. n PROVE Lists(entries[c], none[c])
      <4>1. entries[c] = CaseEntry(file, g, f, c) /\ none[c] = {}
        BY <1>9, <2>1
      <4>2. Lists(CaseEntry(file, g, f, c), {})
        BY <1>6
      <4> QED BY <4>1, <4>2
    <3> QED BY <1>9, <3>1, ListsFlattened
  <2>4. Lists(FlattenSeq(cases), UNION {none[c] : c \in 1 .. n})
    <3>1. ASSUME NEW c \in 1 .. n PROVE Lists(cases[c], none[c])
      <4>1. cases[c] = MarkdownCase(file, g, f, c) /\ none[c] = {}
        BY <1>9, <2>1
      <4>2. Lists(MarkdownCase(file, g, f, c), {})
        BY <1>6
      <4> QED BY <4>1, <4>2
    <3> QED BY <1>9, <3>1, ListsFlattened
  <2>5. Lists(FlattenSeq(plains), UNION {none[c] : c \in 1 .. n})
    <3>1. ASSUME NEW c \in 1 .. n PROVE Lists(plains[c], none[c])
      <4>1. plains[c] = PlainCase(file, c) /\ none[c] = {}
        BY <1>9, <2>1
      <4>2. Lists(PlainCase(file, c), {})
        BY <1>6
      <4> QED BY <4>1, <4>2
    <3> QED BY <1>9, <3>1, ListsFlattened
  <2> QED BY <2>2, <2>3, <2>4, <2>5
<1>13. Mirrors(FileEntries(file, g, f), MarkdownFile(file, g, f))
  <2>1. Mirrors(entry, heading \o path \o told \o fenced)
    BY <1>3, <1>4, <1>5, <1>8, MirrorsPadded
  <2>2. Anchors(entry) \cap Anchors(FlattenSeq(entries)) = {}
    BY <1>2, <1>8, <1>11
  <2> QED BY <1>7, <1>10, <2>1, <2>2, MirrorsJoined
<1>14. \A a \in Anchors(FileEntries(file, g, f)) : a[1] \in {"file", "case"} /\ a[2] = g /\ a[3] = f
  <2>1. Anchors(FileEntries(file, g, f)) = Anchors(entry) \cup Anchors(FlattenSeq(entries))
    BY <1>7, <1>8, <1>12, AnchorsJoined DEF Lists
  <2> QED BY <1>2, <1>8, <1>11, <2>1
<1>15. Lists(FileEntries(file, g, f), {})
  <2>1. Lists(entry \o FlattenSeq(entries), {} \cup {})
    BY <1>8, <1>12, ListsJoined
  <2> QED BY <1>7, <2>1
<1>16. Lists(MarkdownFile(file, g, f), {file.path})
  <2>1. Lists(heading \o path, {} \cup {file.path})
    BY <1>4, <1>8, ListsJoined
  <2>2. Lists(heading \o path \o told, {} \cup {file.path} \cup {})
    BY <1>3, <2>1, ListsJoined
  <2>3. Lists(heading \o path \o told \o fenced, {} \cup {file.path} \cup {} \cup {})
    BY <1>5, <2>2, ListsJoined
  <2>4. Lists(heading \o path \o told \o fenced \o FlattenSeq(cases), {} \cup {file.path} \cup {} \cup {} \cup {})
    BY <1>12, <2>3, ListsJoined
  <2>5. {} \cup {file.path} \cup {} \cup {} \cup {} = {file.path}
    OBVIOUS
  <2> QED BY <1>7, <2>4, <2>5
<1>17. Lists(PlainFile(file), {file.path})
  <2>1. Lists(label \o path, {} \cup {file.path})
    BY <1>4, ListsJoined
  <2>2. Lists(label \o path \o told, {} \cup {file.path} \cup {})
    BY <1>3, <2>1, ListsJoined
  <2>3. Lists(label \o path \o told \o plain, {} \cup {file.path} \cup {} \cup {})
    BY <1>5, <2>2, ListsJoined
  <2>4. Lists(label \o path \o told \o plain \o FlattenSeq(plains), {} \cup {file.path} \cup {} \cup {} \cup {})
    BY <1>12, <2>3, ListsJoined
  <2>5. {} \cup {file.path} \cup {} \cup {} \cup {} = {file.path}
    OBVIOUS
  <2> QED BY <1>7, <2>4, <2>5
<1>18. Aside(PlainFile(file))
  <2>1. \A c \in 1 .. n : Aside(plains[c])
    BY <1>6, <1>9
  <2>2. Aside(FlattenSeq(plains))
    BY <1>9, <2>1, AsideFlattened
  <2>3. Aside(label \o path \o told \o plain \o FlattenSeq(plains))
    BY <1>3, <1>4, <1>5, <2>2, AsideJoined
  <2> QED BY <1>7, <2>3
<1> QED BY <1>13, <1>14, <1>15, <1>16, <1>17, <1>18
GroupPaths(group) == {group.files[f].path : f \in DOMAIN group.files}

LEMMA GroupParts ==
  ASSUME NEW group, FineGroup(group), NEW g \in Nat
  PROVE  /\ Mirrors(GroupEntries(group, g), MarkdownSection(group, g))
         /\ \A a \in Anchors(GroupEntries(group, g)) : a[2] = g
         /\ Lists(GroupEntries(group, g), {}) /\ Lists(MarkdownSection(group, g), GroupPaths(group))
         /\ Lists(PlainGroup(group), GroupPaths(group)) /\ Aside(PlainGroup(group))
<1> DEFINE anchor == GroupAnchor(g, group.name)
           entry == <<TocEntry(0, group.name, anchor)>>
           heading == <<Heading(2, group.name, anchor)>>
           label == <<Labelled("group", group.name)>>
           n == Len(group.files)
           entries == [f \in DOMAIN group.files |-> FileEntries(group.files[f], g, f)]
           sections == [f \in DOMAIN group.files |-> MarkdownFile(group.files[f], g, f)]
           plains == [f \in DOMAIN group.files |-> PlainFile(group.files[f])]
           paths == [f \in 1 .. n |-> {group.files[f].path}]
<1>1. /\ Worded(group.name) /\ n \in Nat /\ DOMAIN group.files = 1 .. n
      /\ \A f \in 1 .. n : FineFile(group.files[f])
  BY SeqFacts DEF FineGroup
<1>2. anchor[1] = "group" /\ anchor[2] = g
  <2>1. PICK title : title = group.name
    OBVIOUS
  <2>2. Worded(title)
    BY <1>1, <2>1
  <2>3. GroupAnchor(g, title)[1] = "group" /\ GroupAnchor(g, title)[2] = g
    BY <2>2, AnchorParts
  <2> QED BY <2>1, <2>3
<1>3. Lists(label, {}) /\ Aside(label)
  BY PlainParts
<1>4. ASSUME NEW f \in 1 .. n
      PROVE  /\ Mirrors(FileEntries(group.files[f], g, f), MarkdownFile(group.files[f], g, f))
             /\ \A a \in Anchors(FileEntries(group.files[f], g, f)) :
                  a[1] \in {"file", "case"} /\ a[2] = g /\ a[3] = f
             /\ Lists(FileEntries(group.files[f], g, f), {})
             /\ Lists(MarkdownFile(group.files[f], g, f), {group.files[f].path})
             /\ Lists(PlainFile(group.files[f]), {group.files[f].path})
             /\ Aside(PlainFile(group.files[f]))
  <2>1. PICK k \in Nat : k = f
    BY <1>1
  <2>2. PICK file : file = group.files[f]
    OBVIOUS
  <2>3. FineFile(file)
    BY <1>1, <1>4, <2>2
  <2>4. /\ Mirrors(FileEntries(file, g, k), MarkdownFile(file, g, k))
        /\ \A a \in Anchors(FileEntries(file, g, k)) :
             a[1] \in {"file", "case"} /\ a[2] = g /\ a[3] = k
        /\ Lists(FileEntries(file, g, k), {}) /\ Lists(MarkdownFile(file, g, k), {file.path})
        /\ Lists(PlainFile(file), {file.path}) /\ Aside(PlainFile(file))
    BY <2>3, FileParts
  <2> QED BY <2>1, <2>2, <2>4
<1>5. /\ MarkdownSection(group, g) = heading \o FlattenSeq(sections)
      /\ PlainGroup(group) = label \o FlattenSeq(plains)
      /\ GroupEntries(group, g) = entry \o FlattenSeq(entries)
  BY DEF MarkdownSection, PlainGroup, GroupEntries
<1>6. /\ Mirrors(entry, heading) /\ Anchors(entry) = {anchor}
      /\ Lists(entry, {}) /\ Lists(heading, {})
  BY HeadingParts
<1>7. /\ IsSeq(entries) /\ Len(entries) = n /\ IsSeq(sections) /\ Len(sections) = n
      /\ IsSeq(plains) /\ Len(plains) = n
      /\ \A f \in 1 .. n : /\ entries[f] = FileEntries(group.files[f], g, f)
                           /\ sections[f] = MarkdownFile(group.files[f], g, f)
                           /\ plains[f] = PlainFile(group.files[f])
                           /\ paths[f] = {group.files[f].path}
  <2>1. /\ entries = [f \in 1 .. n |-> entries[f]] /\ sections = [f \in 1 .. n |-> sections[f]]
        /\ plains = [f \in 1 .. n |-> plains[f]]
    BY <1>1
  <2>2. \A f \in 1 .. n : /\ entries[f] = FileEntries(group.files[f], g, f)
                          /\ sections[f] = MarkdownFile(group.files[f], g, f)
                          /\ plains[f] = PlainFile(group.files[f])
                          /\ paths[f] = {group.files[f].path}
    BY <1>1
  <2> HIDE DEF entries, sections, plains, paths, n
  <2>3. IsSeq(entries) /\ Len(entries) = n
    BY <1>1, <2>1, SeqMade
  <2>4. IsSeq(sections) /\ Len(sections) = n
    BY <1>1, <2>1, SeqMade
  <2>5. IsSeq(plains) /\ Len(plains) = n
    BY <1>1, <2>1, SeqMade
  <2> QED BY <2>2, <2>3, <2>4, <2>5
<1>8. UNION {paths[f] : f \in 1 .. n} = GroupPaths(group)
  BY <1>1 DEF GroupPaths
<1> HIDE DEF anchor, entry, heading, label, entries, sections, plains, paths, n
<1>9. ASSUME NEW f \in 1 .. n, NEW a \in Anchors(entries[f])
       PROVE  a[1] # "group" /\ a[2] = g /\ a[3] = f
  <2>1. a \in Anchors(FileEntries(group.files[f], g, f))
    BY <1>7, <1>9
  <2>2. a[1] \in {"file", "case"} /\ a[2] = g /\ a[3] = f
    BY <1>4, <2>1
  <2> QED BY <2>2
<1>10. Mirrors(FlattenSeq(entries), FlattenSeq(sections))
  <2>1. \A f \in 1 .. Len(entries) : Mirrors(entries[f], sections[f])
    BY <1>4, <1>7
  <2>2. ASSUME NEW f \in 1 .. Len(entries), NEW d \in 1 .. Len(entries), f # d
        PROVE  Anchors(entries[f]) \cap Anchors(entries[d]) = {}
    BY <1>7, <1>9, <2>2
  <2> QED BY <1>7, <2>1, <2>2, MirrorsFlattened
<1>11. \A a \in Anchors(FlattenSeq(entries)) : a[1] # "group" /\ a[2] = g
  <2>1. \A f \in 1 .. Len(entries) : IsSeq(entries[f])
    BY <1>4, <1>7 DEF Lists
  <2>2. Anchors(FlattenSeq(entries)) = UNION {Anchors(entries[f]) : f \in 1 .. Len(entries)}
    BY <1>7, <2>1, AnchorsFlattened
  <2> QED BY <1>7, <1>9, <2>2
<1>12. Lists(FlattenSeq(entries), {})
  <2> DEFINE none == [f \in 1 .. n |-> {}]
  <2>1. \A f \in 1 .. n : none[f] = {}
    OBVIOUS
  <2>2. UNION {none[f] : f \in 1 .. n} = {}
    BY <2>1
  <2> HIDE DEF none
  <2>3. ASSUME NEW f \in 1 .. n PROVE Lists(entries[f], none[f])
    <3>1. entries[f] = FileEntries(group.files[f], g, f) /\ none[f] = {}
      BY <1>7, <2>1
    <3> QED BY <1>4, <3>1
  <2>4. Lists(FlattenSeq(entries), UNION {none[f] : f \in 1 .. n})
    BY <1>7, <2>3, ListsFlattened
  <2> QED BY <2>2, <2>4
<1>13. Lists(FlattenSeq(sections), GroupPaths(group)) /\ Lists(FlattenSeq(plains), GroupPaths(group))
  <2>1. ASSUME NEW f \in 1 .. n PROVE Lists(sections[f], paths[f]) /\ Lists(plains[f], paths[f])
    <3>1. /\ sections[f] = MarkdownFile(group.files[f], g, f) /\ plains[f] = PlainFile(group.files[f])
          /\ paths[f] = {group.files[f].path}
      BY <1>7
    <3> QED BY <1>4, <3>1
  <2>2. Lists(FlattenSeq(sections), UNION {paths[f] : f \in 1 .. n})
    BY <1>7, <2>1, ListsFlattened
  <2>3. Lists(FlattenSeq(plains), UNION {paths[f] : f \in 1 .. n})
    BY <1>7, <2>1, ListsFlattened
  <2> QED BY <1>8, <2>2, <2>3
<1>14. Mirrors(GroupEntries(group, g), MarkdownSection(group, g))
  <2>1. Anchors(entry) \cap Anchors(FlattenSeq(entries)) = {}
    BY <1>2, <1>6, <1>11
  <2> QED BY <1>5, <1>6, <1>10, <2>1, MirrorsJoined
<1>15. \A a \in Anchors(GroupEntries(group, g)) : a[2] = g
  <2>1. Anchors(GroupEntries(group, g)) = Anchors(entry) \cup Anchors(FlattenSeq(entries))
    BY <1>5, <1>6, <1>12, AnchorsJoined DEF Lists
  <2> QED BY <1>2, <1>6, <1>11, <2>1
<1>16. Lists(GroupEntries(group, g), {})
  <2>1. Lists(entry \o FlattenSeq(entries), {} \cup {})
    BY <1>6, <1>12, ListsJoined
  <2> QED BY <1>5, <2>1
<1>17. Lists(MarkdownSection(group, g), GroupPaths(group)) /\ Lists(PlainGroup(group), GroupPaths(group))
  <2>1. Lists(heading \o FlattenSeq(sections), {} \cup GroupPaths(group))
    BY <1>6, <1>13, ListsJoined
  <2>2. Lists(label \o FlattenSeq(plains), {} \cup GroupPaths(group))
    BY <1>3, <1>13, ListsJoined
  <2>3. {} \cup GroupPaths(group) = GroupPaths(group)
    OBVIOUS
  <2> QED BY <1>5, <2>1, <2>2, <2>3
<1>18. Aside(PlainGroup(group))
  <2>1. ASSUME NEW f \in 1 .. n PROVE Aside(plains[f])
    <3>1. plains[f] = PlainFile(group.files[f])
      BY <1>7
    <3> QED BY <1>4, <3>1
  <2>2. Aside(FlattenSeq(plains))
    BY <1>7, <2>1, AsideFlattened
  <2>3. Aside(label \o FlattenSeq(plains))
    BY <1>3, <2>2, AsideJoined
  <2> QED BY <1>5, <2>3
<1> QED BY <1>14, <1>15, <1>16, <1>17, <1>18

CatalogPaths(catalog) == UNION {GroupPaths(catalog[g]) : g \in DOMAIN catalog}

LEMMA CatalogParts ==
  ASSUME NEW catalog, FineCatalog(catalog)
  PROVE  /\ Mirrors(Contents(catalog), MarkdownSections(catalog))
         /\ Lists(Contents(catalog), {}) /\ Lists(MarkdownSections(catalog), CatalogPaths(catalog))
         /\ Lists(Plain(catalog), CatalogPaths(catalog)) /\ Aside(Plain(catalog))
<1> DEFINE n == Len(catalog)
           entries == [g \in DOMAIN catalog |-> GroupEntries(catalog[g], g)]
           sections == [g \in DOMAIN catalog |-> MarkdownSection(catalog[g], g)]
           plains == [g \in DOMAIN catalog |-> PlainGroup(catalog[g])]
           paths == [g \in 1 .. n |-> GroupPaths(catalog[g])]
<1>1. /\ n \in Nat /\ DOMAIN catalog = 1 .. n
      /\ \A g \in 1 .. n : FineGroup(catalog[g])
  BY SeqFacts DEF FineCatalog
<1>2. ASSUME NEW g \in 1 .. n
      PROVE  /\ Mirrors(GroupEntries(catalog[g], g), MarkdownSection(catalog[g], g))
             /\ \A a \in Anchors(GroupEntries(catalog[g], g)) : a[2] = g
             /\ Lists(GroupEntries(catalog[g], g), {})
             /\ Lists(MarkdownSection(catalog[g], g), GroupPaths(catalog[g]))
             /\ Lists(PlainGroup(catalog[g]), GroupPaths(catalog[g])) /\ Aside(PlainGroup(catalog[g]))
  <2>1. PICK k \in Nat : k = g
    BY <1>1
  <2>2. PICK group : group = catalog[g]
    OBVIOUS
  <2>3. FineGroup(group)
    BY <1>1, <1>2, <2>2
  <2>4. /\ Mirrors(GroupEntries(group, k), MarkdownSection(group, k))
        /\ \A a \in Anchors(GroupEntries(group, k)) : a[2] = k
        /\ Lists(GroupEntries(group, k), {}) /\ Lists(MarkdownSection(group, k), GroupPaths(group))
        /\ Lists(PlainGroup(group), GroupPaths(group)) /\ Aside(PlainGroup(group))
    BY <2>3, GroupParts
  <2> QED BY <2>1, <2>2, <2>4
<1>3. /\ Contents(catalog) = FlattenSeq(entries) /\ MarkdownSections(catalog) = FlattenSeq(sections)
      /\ Plain(catalog) = FlattenSeq(plains)
  BY DEF Contents, MarkdownSections, Plain
<1>4. /\ IsSeq(entries) /\ Len(entries) = n /\ IsSeq(sections) /\ Len(sections) = n
      /\ IsSeq(plains) /\ Len(plains) = n
      /\ \A g \in 1 .. n : /\ entries[g] = GroupEntries(catalog[g], g)
                           /\ sections[g] = MarkdownSection(catalog[g], g)
                           /\ plains[g] = PlainGroup(catalog[g])
                           /\ paths[g] = GroupPaths(catalog[g])
  <2>1. /\ entries = [g \in 1 .. n |-> entries[g]] /\ sections = [g \in 1 .. n |-> sections[g]]
        /\ plains = [g \in 1 .. n |-> plains[g]]
    BY <1>1
  <2>2. \A g \in 1 .. n : /\ entries[g] = GroupEntries(catalog[g], g)
                          /\ sections[g] = MarkdownSection(catalog[g], g)
                          /\ plains[g] = PlainGroup(catalog[g])
                          /\ paths[g] = GroupPaths(catalog[g])
    BY <1>1
  <2> HIDE DEF entries, sections, plains, paths, n
  <2>3. IsSeq(entries) /\ Len(entries) = n
    BY <1>1, <2>1, SeqMade
  <2>4. IsSeq(sections) /\ Len(sections) = n
    BY <1>1, <2>1, SeqMade
  <2>5. IsSeq(plains) /\ Len(plains) = n
    BY <1>1, <2>1, SeqMade
  <2> QED BY <2>2, <2>3, <2>4, <2>5
<1>5. UNION {paths[g] : g \in 1 .. n} = CatalogPaths(catalog)
  BY <1>1 DEF CatalogPaths
<1> HIDE DEF entries, sections, plains, paths, n
<1>6. Mirrors(FlattenSeq(entries), FlattenSeq(sections))
  <2>1. \A g \in 1 .. Len(entries) : Mirrors(entries[g], sections[g])
    BY <1>2, <1>4
  <2>2. ASSUME NEW g \in 1 .. Len(entries), NEW d \in 1 .. Len(entries), g # d
        PROVE  Anchors(entries[g]) \cap Anchors(entries[d]) = {}
    BY <1>2, <1>4, <2>2
  <2> QED BY <1>4, <2>1, <2>2, MirrorsFlattened
<1>7. Lists(FlattenSeq(entries), {})
  <2> DEFINE none == [g \in 1 .. n |-> {}]
  <2>1. \A g \in 1 .. n : none[g] = {}
    OBVIOUS
  <2>2. UNION {none[g] : g \in 1 .. n} = {}
    BY <2>1
  <2> HIDE DEF none
  <2>3. ASSUME NEW g \in 1 .. n PROVE Lists(entries[g], none[g])
    <3>1. entries[g] = GroupEntries(catalog[g], g) /\ none[g] = {}
      BY <1>4, <2>1
    <3> QED BY <1>2, <3>1
  <2>4. Lists(FlattenSeq(entries), UNION {none[g] : g \in 1 .. n})
    BY <1>4, <2>3, ListsFlattened
  <2> QED BY <2>2, <2>4
<1>8. Lists(FlattenSeq(sections), CatalogPaths(catalog)) /\ Lists(FlattenSeq(plains), CatalogPaths(catalog))
  <2>1. ASSUME NEW g \in 1 .. n PROVE Lists(sections[g], paths[g]) /\ Lists(plains[g], paths[g])
    <3>1. /\ sections[g] = MarkdownSection(catalog[g], g) /\ plains[g] = PlainGroup(catalog[g])
          /\ paths[g] = GroupPaths(catalog[g])
      BY <1>4
    <3> QED BY <1>2, <3>1
  <2>2. Lists(FlattenSeq(sections), UNION {paths[g] : g \in 1 .. n})
    BY <1>4, <2>1, ListsFlattened
  <2>3. Lists(FlattenSeq(plains), UNION {paths[g] : g \in 1 .. n})
    BY <1>4, <2>1, ListsFlattened
  <2> QED BY <1>5, <2>2, <2>3
<1>9. Aside(FlattenSeq(plains))
  <2>1. ASSUME NEW g \in 1 .. n PROVE Aside(plains[g])
    <3>1. plains[g] = PlainGroup(catalog[g])
      BY <1>4
    <3> QED BY <1>2, <3>1
  <2> QED BY <1>4, <2>1, AsideFlattened
<1> QED BY <1>3, <1>6, <1>7, <1>8, <1>9

\* A document of a fine catalog is as a document must be.
LEMMA DocumentIsFine ==
  ASSUME NEW catalog, FineCatalog(catalog), NEW format
  PROVE  LET document == Rendered(catalog, format)
         IN /\ Navigable(document) /\ Enclosed(document)
            /\ {document.blocks[i].path : i \in BlocksOf(document, "path")} = CatalogPaths(catalog)
<1> DEFINE document == Rendered(catalog, format)
<1>0. document.blocks = IF format = "markdown" THEN Markdown(catalog) ELSE Plain(catalog)
  BY DEF Rendered
<1> HIDE DEF document
<1>1. PICK blocks : blocks = document.blocks
  OBVIOUS
<1>2. PICK E, D : E = Contents(catalog) /\ D = MarkdownSections(catalog)
  OBVIOUS
<1>3. Mirrors(E, D) /\ Lists(E, {}) /\ Lists(D, CatalogPaths(catalog))
  BY <1>2, CatalogParts
<1>4. Lists(blocks, CatalogPaths(catalog))
  <2>1. Lists(E \o D, {} \cup CatalogPaths(catalog))
    BY <1>3, ListsJoined
  <2>2. {} \cup CatalogPaths(catalog) = CatalogPaths(catalog)
    OBVIOUS
  <2> QED BY <1>0, <1>1, <1>2, <2>1, <2>2, CatalogParts DEF Markdown
<1>5. /\ DOMAIN blocks = 1 .. Len(blocks) /\ IsSeq(blocks)
      /\ \A x : x \in Range(blocks) <=> \E i \in 1 .. Len(blocks) : blocks[i] = x
  BY <1>4, SeqFacts DEF Lists
<1>6. Enclosed(document)
  <2>1. ASSUME NEW i \in DOMAIN blocks PROVE Tight(blocks[i])
    BY <1>4, <1>5 DEF Lists
  <2> QED BY <1>1, <2>1 DEF Enclosed, Tight
<1>7. {document.blocks[i].path : i \in BlocksOf(document, "path")} = CatalogPaths(catalog)
  <2>1. PathsIn(blocks) = CatalogPaths(catalog)
    BY <1>4 DEF Lists
  <2>2. BlocksOf(document, "path") = {i \in 1 .. Len(blocks) : blocks[i].what = "path"}
    BY <1>1, <1>5 DEF BlocksOf
  <2> QED BY <1>1, <1>5, <2>1, <2>2 DEF PathsIn
<1>8. CASE format # "markdown"
  <2>1. Aside(blocks)
    BY <1>0, <1>1, <1>8, CatalogParts
  <2>2. \A i \in DOMAIN blocks : blocks[i].what \notin {"entry", "heading"}
    BY <1>5, <2>1 DEF Aside
  <2>3. BlocksOf(document, "entry") = {} /\ BlocksOf(document, "heading") = {}
    BY <1>1, <2>2 DEF BlocksOf
  <2> QED BY <1>6, <1>7, <2>3 DEF Navigable, document
<1>9. CASE format = "markdown"
  <2>0. blocks = E \o D
    BY <1>0, <1>1, <1>2, <1>9 DEF Markdown
  <2>1. /\ IsSeq(E) /\ IsSeq(D) /\ Len(E) \in Nat /\ Len(D) \in Nat
    BY <1>3, SeqFacts DEF Mirrors
  <2>2. /\ Len(blocks) = Len(E) + Len(D)
        /\ \A i \in 1 .. Len(E) : blocks[i] = E[i]
        /\ \A i \in 1 .. Len(D) : blocks[Len(E) + i] = D[i]
    BY <2>0, <2>1, JoinedSeq
  <2>3. ASSUME NEW i \in DOMAIN blocks
        PROVE  i \in 1 .. Len(E) \/ \E k \in 1 .. Len(D) : i = Len(E) + k
    <3>1. i \in 1 .. Len(blocks)
      BY <1>5
    <3>2. IsSeq(E) /\ IsSeq(D)
      BY <2>1
    <3>3. Splits(blocks, E, D)
      BY <2>0, <3>2, JoinedIndex
    <3> QED BY <3>1, <3>3 DEF Splits
  <2>4. BlocksOf(document, "entry") = 1 .. Len(E)
    <3>1. \A i \in 1 .. Len(E) : blocks[i].what = "entry" /\ i \in DOMAIN blocks
      <4>1. \A i \in 1 .. Len(E) : E[i].what = "entry"
        BY <1>3 DEF Mirrors
      <4> QED BY <1>5, <2>1, <2>2, <4>1
    <3>2. ASSUME NEW k \in 1 .. Len(D), NEW i, i = Len(E) + k PROVE blocks[i].what # "entry"
      <4>1. D[k].what # "entry"
        BY <1>3 DEF Mirrors
      <4> QED BY <2>2, <3>2, <4>1
    <3> QED BY <1>1, <2>3, <3>1, <3>2 DEF BlocksOf
  <2>5. /\ \A h \in Headings(D) : Len(E) + h \in BlocksOf(document, "heading") /\ h \in 1 .. Len(D)
        /\ \A i \in BlocksOf(document, "heading") : \E h \in Headings(D) : i = Len(E) + h
    <3>1. ASSUME NEW h \in Headings(D)
          PROVE  Len(E) + h \in BlocksOf(document, "heading") /\ h \in 1 .. Len(D)
      <4>1. h \in 1 .. Len(D) /\ D[h].what = "heading"
        BY DEF Headings
      <4>2. Len(E) + h \in 1 .. Len(blocks) /\ blocks[Len(E) + h].what = "heading"
        BY <2>1, <2>2, <4>1
      <4> QED BY <1>1, <1>5, <4>1, <4>2 DEF BlocksOf
    <3>2. ASSUME NEW i \in BlocksOf(document, "heading") PROVE \E h \in Headings(D) : i = Len(E) + h
      <4>1. i \in DOMAIN blocks /\ blocks[i].what = "heading"
        BY <1>1 DEF BlocksOf
      <4>2. i \notin 1 .. Len(E)
        <5>1. \A k \in 1 .. Len(E) : E[k].what = "entry"
          BY <1>3 DEF Mirrors
        <5> QED BY <2>2, <4>1, <5>1
      <4>3. PICK k \in 1 .. Len(D) : i = Len(E) + k
        BY <2>3, <4>1, <4>2
      <4>4. D[k].what = "heading"
        BY <2>2, <4>1, <4>3
      <4> QED BY <4>3, <4>4 DEF Headings
    <3> QED BY <3>1, <3>2
  <2>6. ASSUME NEW i \in BlocksOf(document, "heading")
        PROVE  \E j \in BlocksOf(document, "entry") : blocks[j].anchor = blocks[i].anchor
    <3>1. PICK h \in Headings(D) : i = Len(E) + h
      BY <2>5
    <3>2. PICK j \in 1 .. Len(E) : E[j].anchor = D[h].anchor
      BY <1>3 DEF Mirrors
    <3> QED BY <2>2, <2>4, <2>5, <3>1, <3>2
  <2>7. ASSUME NEW i \in BlocksOf(document, "entry")
        PROVE  \E h \in BlocksOf(document, "heading") :
                 /\ blocks[i].anchor = blocks[h].anchor /\ blocks[i].title = blocks[h].title
                 /\ \A j \in BlocksOf(document, "entry"), k \in BlocksOf(document, "heading") :
                      blocks[j].anchor = blocks[k].anchor => (i < j <=> h < k) /\ (i = j <=> h = k)
    <3>1. i \in 1 .. Len(E)
      BY <2>4
    <3>2. PICK m \in Headings(D) : D[m].anchor = E[i].anchor /\ D[m].title = E[i].title
      BY <1>3, <3>1 DEF Mirrors
    <3>3. PICK h : h = Len(E) + m
      OBVIOUS
    <3>4. /\ h \in BlocksOf(document, "heading") /\ m \in 1 .. Len(D)
          /\ blocks[i].anchor = blocks[h].anchor /\ blocks[i].title = blocks[h].title
      BY <2>2, <2>5, <3>1, <3>2, <3>3
    <3>5. ASSUME NEW j \in BlocksOf(document, "entry"), NEW k \in BlocksOf(document, "heading"),
                 blocks[j].anchor = blocks[k].anchor
          PROVE  (i < j <=> h < k) /\ (i = j <=> h = k)
      <4>1. j \in 1 .. Len(E)
        BY <2>4
      <4>2. PICK l \in Headings(D) : k = Len(E) + l
        BY <2>5
      <4>3. l \in 1 .. Len(D) /\ E[j].anchor = D[l].anchor
        BY <2>2, <2>5, <3>5, <4>1, <4>2
      <4>4. (i < j <=> m < l) /\ (j < i <=> l < m)
        BY <1>3, <3>1, <3>2, <4>1, <4>3 DEF Mirrors
      <4> QED BY <2>1, <3>1, <3>3, <3>4, <4>1, <4>2, <4>3, <4>4
    <3> QED BY <3>4, <3>5
  <2>8. Navigable(document)
    BY <1>1, <2>6, <2>7 DEF Navigable
  <2> QED BY <1>6, <1>7, <2>8 DEF document
<1> QED BY <1>8, <1>9

-----------------------------------------------------------------------------
(* A set in order.                                                         *)

\* A sequence that has at k a member that k - 1 come before, if there is one.
Ranks(s, S, R) ==
  /\ s = [k \in 1 .. Cardinality(S) |-> s[k]]
  /\ \A k \in 1 .. Cardinality(S) :
       (\E x \in S : Cardinality({y \in S : <<y, x>> \in R}) = k - 1)
         => s[k] \in S /\ Cardinality({y \in S : <<y, s[k]>> \in R}) = k - 1

Total(S, R) ==
  /\ \A x, y \in S : <<x, y>> \in R <=> x # y /\ <<y, x>> \notin R
  /\ \A x, y, z \in S : <<x, y>> \in R /\ <<y, z>> \in R => <<x, z>> \in R

\* Every member of the set has its place in it.
LEMMA RankedHasAll ==
  ASSUME NEW S, IsFiniteSet(S), NEW R, Total(S, R), NEW s, Ranks(s, S, R)
  PROVE  IsSeq(s) /\ Range(s) = S
<1> DEFINE Below(x) == {y \in S : <<y, x>> \in R}
           rank == [x \in S |-> Cardinality(Below(x)) + 1]
           n == Cardinality(S)
<1>1. n \in Nat
  BY FS_CardinalityType
<1>2. ASSUME NEW x \in S
      PROVE  /\ IsFiniteSet(Below(x)) /\ Cardinality(Below(x)) \in Nat
             /\ Cardinality(Below(x)) < n
  <2>1. Below(x) \in SUBSET S /\ Below(x) # S
    BY DEF Total
  <2> HIDE DEF Below
  <2>2. IsFiniteSet(Below(x)) /\ Cardinality(Below(x)) <= n /\ Cardinality(Below(x)) # n
    BY <2>1, FS_Subset
  <2>3. Cardinality(Below(x)) \in Nat
    BY <2>2, FS_CardinalityType
  <2> QED BY <1>1, <2>2, <2>3
<1>3. ASSUME NEW x \in S, NEW y \in S, <<x, y>> \in R
      PROVE  rank[x] < rank[y]
  <2>1. Below(x) \in SUBSET Below(y) /\ Below(x) # Below(y)
    <3>1. x \in Below(y) /\ x \notin Below(x)
      BY <1>3 DEF Total
    <3>2. \A z \in S : <<z, x>> \in R => <<z, y>> \in R
      BY <1>3 DEF Total
    <3> QED BY <3>1, <3>2
  <2>2. Cardinality(Below(x)) <= Cardinality(Below(y)) /\ Cardinality(Below(x)) # Cardinality(Below(y))
    <3>1. IsFiniteSet(Below(y))
      BY <1>2
    <3> HIDE DEF Below
    <3> QED BY <2>1, <3>1, FS_Subset
  <2>3. Cardinality(Below(x)) \in Nat /\ Cardinality(Below(y)) \in Nat
    BY <1>2
  <2> HIDE DEF Below
  <2> QED BY <2>2, <2>3
<1>4. \A x \in S : rank[x] \in 1 .. n
  <2> HIDE DEF Below
  <2> QED BY <1>1, <1>2
<1>5. rank \in Injection(S, 1 .. n)
  <2>1. \A x, y \in S : rank[x] = rank[y] => x = y
    <3> SUFFICES ASSUME NEW x \in S, NEW y \in S, rank[x] = rank[y], x # y PROVE FALSE
      OBVIOUS
    <3>1. <<x, y>> \in R \/ <<y, x>> \in R
      BY DEF Total
    <3>2. rank[x] < rank[y] \/ rank[y] < rank[x]
      BY <1>3, <3>1
    <3>3. rank[x] \in Nat /\ rank[y] \in Nat
      BY <1>4
    <3> HIDE DEF rank
    <3> QED BY <3>2, <3>3
  <2>2. rank \in [S -> 1 .. n]
    BY <1>4
  <2> HIDE DEF rank
  <2> QED BY <2>1, <2>2 DEF Injection, IsInjective
<1>6. rank \in Surjection(S, 1 .. n)
  <2>1. IsFiniteSet(1 .. n) /\ Cardinality(1 .. n) = n
    BY <1>1, FS_Interval
  <2> HIDE DEF rank
  <2> QED BY <1>5, <2>1, FS_Injection
<1>7. \A k \in 1 .. n : \E x \in S : rank[x] = k
  <2> HIDE DEF rank
  <2> QED BY <1>6 DEF Surjection
<1>8. ASSUME NEW k \in 1 .. n PROVE s[k] \in S /\ rank[s[k]] = k
  <2>1. PICK x \in S : rank[x] = k
    BY <1>7
  <2>2. \A z \in S : Cardinality(Below(z)) = k - 1 <=> rank[z] = k
    <3>1. ASSUME NEW z \in S PROVE Cardinality(Below(z)) = k - 1 <=> rank[z] = k
      <4>1. Cardinality(Below(z)) \in Nat /\ rank[z] = Cardinality(Below(z)) + 1 /\ k \in Nat
        BY <1>1, <1>2
      <4> HIDE DEF rank, Below
      <4> QED BY <4>1
    <3> QED BY <3>1
  <2>3. (\E z \in S : Cardinality(Below(z)) = k - 1)
          => s[k] \in S /\ Cardinality(Below(s[k])) = k - 1
    BY DEF Ranks
  <2> HIDE DEF rank, Below
  <2> QED BY <2>1, <2>2, <2>3
<1>9. s = [k \in 1 .. n |-> s[k]] /\ DOMAIN s = 1 .. n
  <2>1. s = [k \in 1 .. n |-> s[k]]
    BY DEF Ranks
  <2> QED BY <2>1
<1> HIDE DEF rank, n
<1>10. \A x \in S : rank[x] \in 1 .. n /\ s[rank[x]] = x
  BY <1>4, <1>5, <1>8 DEF Injection, IsInjective
<1>11. Range(s) = S
  BY <1>8, <1>9, <1>10 DEF Range
<1>12. IsSeq(s)
  BY <1>1, <1>9, SeqMade DEF n
<1> QED BY <1>11, <1>12

-----------------------------------------------------------------------------
(* What an accepted source declares.                                       *)

\* The state the parser ends in is made of blocks of the source.
LEMMA AcceptedBlocks ==
  ASSUME NEW source, NEW lines, ReadFrom(source, lines), NEW parsed, parsed = Parse(source),
         parsed.error = "none"
  PROVE  LET B == Range(source.blocks) \cup {NoBlock}
         IN /\ parsed.file \in B /\ parsed.setup \in B
            /\ parsed.cases \in Seq([doc : B, span : Range(source.blocks)])
<1> DEFINE last == Len(source.blocks)
<1>1. SyntaxOk(source)
  <2>1. Canonical(source)
    BY ParserTheorem
  <2> QED BY <2>1, CanonicalParts
<1>2. source.blocks \in Seq(Range(source.blocks)) /\ last \in Nat
  BY BlocksEnclose
<1>3. Len(Append(source.blocks, EndOfInput)) = last + 1 /\ last + 1 \in Nat
  <2>1. source.blocks \in Seq(Range(source.blocks) \cup {EndOfInput})
    BY <1>2
  <2> QED BY <1>2, <2>1
<1>4. PICK after : Follows(source, after) /\ parsed = after[last + 1]
  BY <1>1, <1>3, ParseFollows
<1>5. \A n \in 0 .. last : after[n].error = "none"
  BY <1>4, ErrorsStay
<1>6. Remembers(source, after[last], last)
  <2>1. last \in 0 .. last /\ \A k \in 1 .. last : k \in 0 .. last
    BY <1>2
  <2> QED BY <1>4, <1>5, <2>1, StatesRemembered
<1>7. after[last + 1] = AddBlock(source, after[last], EndOfInput)
  BY <1>4, BlocksFollowed
<1>8. parsed = after[last]
  <2>1. after[last].error = "none"
    BY <1>6 DEF Remembers
  <2>2. parsed = IF IsBlock(after[last].pending)
                 THEN [after[last] EXCEPT !.error = "orphan_document_case"] ELSE after[last]
    BY <1>4, <1>7, <2>1 DEF AddBlock, EndOfInput
  <2>3. "error" \in DOMAIN after[last]
    BY <1>6 DEF Remembers
  <2>4. [after[last] EXCEPT !.error = "orphan_document_case"].error = "orphan_document_case"
    BY <2>3
  <2> QED BY <2>2, <2>4
<1> QED BY <1>6, <1>8 DEF Remembers

\* A script the parser accepted.
Accepted(source, lines) ==
  lines \in Scripts /\ source = Source(lines) /\ Parse(source).error = "none"

LEMMA AcceptedParts ==
  ASSUME NEW source, NEW lines, Accepted(source, lines)
  PROVE  /\ ReadFrom(source, lines) /\ source.lines = lines /\ Len(lines) \in Nat
         /\ DOMAIN lines = 1 .. Len(lines) /\ source.code \subseteq DOMAIN lines
         /\ \A i \in DOMAIN lines : Lexed(lines[i])
         /\ \A i \in source.code : Fits(lines[i])
<1>1. ReadFrom(source, lines)
  BY ScriptsAssumption DEF Accepted, ReadFrom
<1>2. Canonical(source)
  BY <1>1, ParserTheorem DEF Accepted
<1>3. \A i \in source.code : Fits(source.lines[i])
  BY <1>1, <1>2, CanonicalParts DEF Sound
<1>4. \A i \in DOMAIN lines : Lexed(lines[i])
  BY <1>1 DEF ReadFrom
<1> QED BY <1>1, <1>3, <1>4, SourceParts

LEMMA SeqIsSeq ==
  ASSUME NEW T, NEW s \in Seq(T)
  PROVE  IsSeq(s)
<1>1. Len(s) \in Nat /\ s \in [1 .. Len(s) -> T]
  OBVIOUS
<1>2. s = [k \in 1 .. Len(s) |-> s[k]]
  BY <1>1
<1> QED BY <1>1, <1>2, SeqMade

\* The lines of a block.
LEMMA SliceListed ==
  ASSUME NEW source, NEW lines, Accepted(source, lines), NEW b \in Range(source.blocks)
  PROVE  /\ Listed(Slice(source, b))
         /\ source.lines[b.first].name \in BlockNames
<1>1. /\ ReadFrom(source, lines) /\ source.lines = lines /\ Len(lines) \in Nat
      /\ DOMAIN lines = 1 .. Len(lines) /\ source.code \subseteq DOMAIN lines
      /\ \A i \in DOMAIN lines : Lexed(lines[i])
  BY AcceptedParts
<1>2. Encloses(source, b)
  BY <1>1, BlocksEnclose DEF Range
<1>3. b.first \in 1 .. Len(lines) /\ b.last \in 1 .. Len(lines) /\ b.first < b.last
  BY <1>1, <1>2 DEF Encloses
<1> DEFINE n == b.last - b.first + 1
           slice == SubSeq(lines, b.first, b.last)
<1>4. /\ slice \in Seq(Range(lines)) /\ Len(slice) = n /\ n \in Nat
      /\ \A k \in 1 .. n : slice[k] = lines[b.first + k - 1]
  <2>1. PICK m \in Nat, l \in Nat : m = b.first /\ l = b.last
    BY <1>3
  <2>2. \A i \in m .. l : lines[i] \in Range(lines)
    BY <1>1, <1>3, <2>1 DEF Range
  <2>3. /\ SubSeq(lines, m, l) \in Seq(Range(lines)) /\ Len(SubSeq(lines, m, l)) = l - m + 1
        /\ \A k \in 1 .. l - m + 1 : SubSeq(lines, m, l)[k] = lines[m + k - 1]
    BY <1>3, <2>1, <2>2, SubSeqProperties
  <2>4. l - m + 1 \in Nat /\ l - m + 1 = n
    BY <1>3, <2>1
  <2> HIDE DEF n
  <2> QED BY <2>1, <2>3, <2>4
<1>5. ASSUME NEW k \in 1 .. n PROVE Ticks(slice[k]) \in Nat /\ Fence(slice[k]) \in Nat
  <2>1. slice[k] = lines[b.first + k - 1]
    BY <1>4, <1>5
  <2>2. PICK m \in Nat, l \in Nat : m = b.first /\ l = b.last /\ l <= Len(lines) /\ 1 <= m
    BY <1>3
  <2>3. k \in 1 .. l - m + 1
    BY <1>5, <2>2
  <2>4. m + k - 1 \in 1 .. Len(lines)
    BY <1>1, <2>2, <2>3
  <2>5. Lexed(slice[k])
    BY <1>1, <2>1, <2>2, <2>4
  <2> QED BY <2>5 DEF Lexed
<1>6. DOMAIN slice = 1 .. n
  BY <1>4
<1> HIDE DEF n
<1>7. IsSeq(slice)
  <2> HIDE DEF slice
  <2> QED BY <1>4, SeqIsSeq
<1>8. Listed(Slice(source, b))
  BY <1>1, <1>5, <1>6, <1>7 DEF Listed, Slice
<1>9. lines[b.first].name \in BlockNames
  <2>1. lines[b.first].t = "open" /\ b.first \in DOMAIN lines
    BY <1>1, <1>2, <1>3 DEF Encloses
  <2> QED BY <2>1 DEF Accepted, BlockNames
<1> QED BY <1>1, <1>8, <1>9

\* A declared title, group or order is the literal of its line.
LEMMA DeclaredValue ==
  ASSUME NEW source, NEW lines, Accepted(source, lines),
         NEW b \in Range(source.blocks) \cup {NoBlock}, NEW field, field # "description", NEW default
  PROVE  Field(DeclaredBy(source, b), field, default) \in FieldValues(field) \cup {default}
<1> DEFINE numbers == FieldLines(source, b)
           fields == {source.lines[numbers[k]].field : k \in DOMAIN numbers}
<1>1. CASE ~IsBlock(b)
  BY <1>1 DEF DeclaredBy, Field
<1>2. CASE IsBlock(b) /\ field \notin fields
  <2>1. field \notin DOMAIN Documentation(source, b)
    BY <1>2 DEF Documentation
  <2> QED BY <1>2, <2>1 DEF DeclaredBy, Field
<1>3. CASE IsBlock(b) /\ field \in fields
  <2> DEFINE i == CHOOSE l \in Range(numbers) : source.lines[l].field = field
  <2>1. ReadFrom(source, lines) /\ source.lines = lines /\ source.code \subseteq DOMAIN lines
    BY AcceptedParts
  <2>2. Field(DeclaredBy(source, b), field, default) =
          IF Fence(source.lines[i]) > 0 THEN Dedented(source, i) ELSE source.lines[i].value
    BY <1>3 DEF DeclaredBy, Field, Documentation
  <2>3. \E l \in Range(numbers) : source.lines[l].field = field
    BY <1>3 DEF Range
  <2>4. i \in Range(numbers) /\ source.lines[i].field = field
    BY <2>3
  <2> HIDE DEF i
  <2>5. i \in InBlock(source, b) /\ source.lines[i].t = "field"
    BY <2>1, <2>4, FieldLinesAre
  <2>6. i \in source.code /\ i \in DOMAIN lines /\ lines[i].t = "field" /\ lines[i].field = field
    BY <2>1, <2>4, <2>5 DEF InBlock
  <2>7. Fits(lines[i]) /\ Lexed(lines[i])
    BY <2>6, AcceptedParts
  <2>8. Fence(lines[i]) = 0
    BY <2>6, <2>7 DEF Lexed
  <2>9. Field(DeclaredBy(source, b), field, default) = lines[i].value
    BY <2>1, <2>2, <2>8
  <2>10. lines[i].value \in ValuesIn(lines, field)
    BY <2>6, <2>8 DEF ValuesIn
  <2> QED BY <2>9, <2>10 DEF FieldValues, Accepted
<1> QED BY <1>1, <1>2, <1>3

-----------------------------------------------------------------------------
(* The catalog of accepted sources.                                        *)

\* A source that was loaded from a script the parser accepted.
AcceptedFile(l) == \E lines \in Scripts : Accepted(l.source, lines) /\ l.parsed = Parse(l.source)

LEMMA TitlesAreWorded ==
  ASSUME NEW title \in Titles
  PROVE  Worded(title)
BY TitlesAssumption DEF Worded

LEMMA NothingListed == Listed(<<>>)
<1>1. IsSeq(<<>>) /\ DOMAIN <<>> = {}
  BY DEF IsSeq
<1> QED BY <1>1 DEF Listed

LEMMA FileIsFine ==
  ASSUME NEW l, AcceptedFile(l), Words(Untitled(l.path)) \in Seq(STRING)
  PROVE  /\ FineFile(DocumentedFile(l)) /\ DocumentedFile(l).path = l.path
         /\ GroupOf(l) \in Groups /\ FileField(l, "order", -1) \in Nat \cup {-1}
<1> DEFINE source == l.source
           B == Range(source.blocks) \cup {NoBlock}
           file == DocumentedFile(l)
<1>1. PICK lines \in Scripts : Accepted(source, lines) /\ l.parsed = Parse(source)
  BY DEF AcceptedFile
<1>2. ReadFrom(source, lines) /\ l.parsed.error = "none"
  BY <1>1, AcceptedParts DEF Accepted
<1>3. /\ l.parsed.file \in B /\ l.parsed.setup \in B
      /\ l.parsed.cases \in Seq([doc : B, span : Range(source.blocks)])
  BY <1>1, <1>2, AcceptedBlocks
<1>4. ASSUME NEW field, field # "description", NEW default
      PROVE  FileField(l, field, default) \in FieldValues(field) \cup {default}
  <2>1. Field(DeclaredBy(source, l.parsed.file), field, default) \in FieldValues(field) \cup {default}
    BY <1>1, <1>3, <1>4, DeclaredValue
  <2> QED BY <2>1 DEF FileField
<1>5. GroupOf(l) \in Groups
  BY <1>4 DEF GroupOf, Groups
<1>6. FileField(l, "order", -1) \in Nat \cup {-1}
  BY <1>4, TitlesAssumption
<1>7. Worded(file.title)
  <2>1. FileField(l, "title", Untitled(l.path)) \in FieldValues("title") \cup {Untitled(l.path)}
    BY <1>4
  <2>2. Worded(FileField(l, "title", Untitled(l.path)))
    BY <2>1, TitlesAreWorded DEF Worded, Titles
  <2> QED BY <2>2 DEF DocumentedFile
<1>8. Listed(file.setup)
  <2>1. file.setup = IF IsBlock(l.parsed.setup) THEN Slice(source, l.parsed.setup) ELSE <<>>
    BY DEF DocumentedFile
  <2>2. ~IsBlock(NoBlock)
    BY DEF IsBlock, NoBlock
  <2> QED BY <1>1, <1>3, <2>1, <2>2, SliceListed, NothingListed
<1>9. /\ IsSeq(file.cases) /\ DOMAIN file.cases = DOMAIN l.parsed.cases
      /\ \A c \in DOMAIN file.cases : file.cases[c] = DocumentedCase(source, l.parsed.cases[c])
  <2>1. file.cases = [c \in DOMAIN l.parsed.cases |-> DocumentedCase(source, l.parsed.cases[c])]
    BY DEF DocumentedFile
  <2>2. Len(l.parsed.cases) \in Nat /\ DOMAIN l.parsed.cases = 1 .. Len(l.parsed.cases)
    BY <1>3
  <2> HIDE DEF file
  <2>3. file.cases = [c \in 1 .. Len(l.parsed.cases) |-> file.cases[c]]
    BY <2>1, <2>2
  <2> QED BY <2>1, <2>2, <2>3, SeqMade
<1>10. ASSUME NEW c \in DOMAIN file.cases PROVE FineCase(file.cases[c])
  <2>1. PICK case : case = l.parsed.cases[c]
    OBVIOUS
  <2>2. case \in [doc : B, span : Range(source.blocks)]
    <3>1. PICK cases : cases = l.parsed.cases
      OBVIOUS
    <3>2. cases \in Seq([doc : B, span : Range(source.blocks)]) /\ c \in DOMAIN cases
      BY <1>3, <1>9, <3>1
    <3>3. cases[c] \in [doc : B, span : Range(source.blocks)]
      <4>1. PICK T : T = [doc : B, span : Range(source.blocks)]
        OBVIOUS
      <4>2. cases \in Seq(T)
        BY <3>2, <4>1, Zenon
      <4>3. cases[c] \in T
        BY <3>2, <4>2
      <4> QED BY <4>1, <4>3, Zenon
    <3> QED BY <2>1, <3>1, <3>3
  <2>3. Listed(Slice(source, case.span)) /\ source.lines[case.span.first].name \in BlockNames
    BY <1>1, <2>2, SliceListed
  <2>4. PICK name : name = source.lines[case.span.first].name
    OBVIOUS
  <2>5. Field(DeclaredBy(source, case.doc), "title", name) \in FieldValues("title") \cup {name}
    BY <1>1, <2>2, DeclaredValue
  <2>6. Worded(Field(DeclaredBy(source, case.doc), "title", name))
    BY <2>3, <2>4, <2>5, TitlesAreWorded DEF Titles
  <2>7. /\ file.cases[c].title = Field(DeclaredBy(source, case.doc), "title", name)
        /\ file.cases[c].source = Slice(source, case.span)
    <3>1. file.cases[c] = DocumentedCase(source, case)
      BY <1>9, <2>1
    <3> QED BY <2>4, <3>1 DEF DocumentedCase
  <2> QED BY <2>3, <2>6, <2>7 DEF FineCase
<1>11. file.path = l.path
  BY DEF DocumentedFile
<1> HIDE DEF file
<1> QED BY <1>5, <1>6, <1>7, <1>8, <1>9, <1>10, <1>11 DEF FineFile, file

\* The order that display paths have.
InOrderOf(P) ==
  \A p, q \in P :
    /\ PathBefore(p, q) <=> p # q /\ ~PathBefore(q, p)
    /\ \A s \in P : PathBefore(p, q) /\ PathBefore(q, s) => PathBefore(p, s)

\* Accepted sources, one for each of some display paths.
AcceptedFiles(S) ==
  /\ IsFiniteSet(S) /\ InOrderOf({l.path : l \in S})
  /\ \A l \in S : AcceptedFile(l) /\ Words(Untitled(l.path)) \in Seq(STRING)
  /\ \A l, m \in S : l.path = m.path => l = m

LEMMA FilesAreTotal ==
  ASSUME NEW S, AcceptedFiles(S), NEW T \in SUBSET S
  PROVE  Total(T, {p \in T \X T : FileBefore(p[1], p[2])})
<1> DEFINE R == {p \in T \X T : FileBefore(p[1], p[2])}
           order == [l \in S |-> FileField(l, "order", -1)]
<1>1. \A l \in S : order[l] \in Nat \cup {-1}
  BY FileIsFine DEF AcceptedFiles
<1>2. \A l, m \in S :
        FileBefore(l, m) <=> \/ order[l] >= 0 /\ order[m] < 0
                             \/ order[l] >= 0 /\ order[m] >= 0 /\ order[l] < order[m]
                             \/ order[l] = order[m] /\ PathBefore(l.path, m.path)
  BY DEF FileBefore
<1>3. \A l, m \in T : <<l, m>> \in R <=> FileBefore(l, m)
  OBVIOUS
<1> HIDE DEF order, R
<1>4. ASSUME NEW l \in T, NEW m \in T
      PROVE  FileBefore(l, m) <=> l # m /\ ~FileBefore(m, l)
  <2>1. l = m <=> l.path = m.path
    BY DEF AcceptedFiles
  <2>2. PathBefore(l.path, m.path) <=> l.path # m.path /\ ~PathBefore(m.path, l.path)
    BY DEF AcceptedFiles, InOrderOf
  <2>3. PathBefore(m.path, l.path) <=> l.path # m.path /\ ~PathBefore(l.path, m.path)
    BY DEF AcceptedFiles, InOrderOf
  <2>4. /\ order[l] \in Nat \cup {-1} /\ order[m] \in Nat \cup {-1}
        /\ l = m => order[l] = order[m]
    BY <1>1
  <2>5. FileBefore(l, m) <=> \/ order[l] >= 0 /\ order[m] < 0
                             \/ order[l] >= 0 /\ order[m] >= 0 /\ order[l] < order[m]
                             \/ order[l] = order[m] /\ PathBefore(l.path, m.path)
    BY <1>2
  <2>6. FileBefore(m, l) <=> \/ order[m] >= 0 /\ order[l] < 0
                             \/ order[m] >= 0 /\ order[l] >= 0 /\ order[m] < order[l]
                             \/ order[m] = order[l] /\ PathBefore(m.path, l.path)
    BY <1>2
  <2> QED BY <2>1, <2>2, <2>3, <2>4, <2>5, <2>6
<1>5. ASSUME NEW l \in T, NEW m \in T, NEW n \in T, FileBefore(l, m), FileBefore(m, n)
      PROVE  FileBefore(l, n)
  <2>1. PathBefore(l.path, m.path) /\ PathBefore(m.path, n.path) => PathBefore(l.path, n.path)
    BY DEF AcceptedFiles, InOrderOf
  <2>2. order[l] \in Nat \cup {-1} /\ order[m] \in Nat \cup {-1} /\ order[n] \in Nat \cup {-1}
    BY <1>1
  <2> QED BY <1>2, <1>5, <2>1, <2>2
<1> QED BY <1>3, <1>4, <1>5 DEF Total, R

\* The sources of a set in order, and the groups.
LEMMA FilesSorted ==
  ASSUME NEW S, AcceptedFiles(S), NEW T \in SUBSET S
  PROVE  IsSeq(Sorted(T, FileBefore)) /\ Range(Sorted(T, FileBefore)) = T
<1> DEFINE R == {p \in T \X T : FileBefore(p[1], p[2])}
           s == Sorted(T, FileBefore)
<1>1. Total(T, R)
  BY FilesAreTotal
<1>2. IsFiniteSet(T)
  BY FS_Subset DEF AcceptedFiles
<1>3. \A x \in T : {y \in T : <<y, x>> \in R} = {y \in T : FileBefore(y, x)}
  OBVIOUS
<1> DEFINE Place(k) == CHOOSE x \in T : Cardinality({y \in T : FileBefore(y, x)}) = k - 1
<1>4. s = [k \in 1 .. Cardinality(T) |-> Place(k)]
  BY DEF Sorted
<1> HIDE DEF s, R
<1>5. Ranks(s, T, R)
  <2>1. ASSUME NEW k \in 1 .. Cardinality(T),
               NEW x \in T, Cardinality({y \in T : <<y, x>> \in R}) = k - 1
        PROVE  s[k] \in T /\ Cardinality({y \in T : <<y, s[k]>> \in R}) = k - 1
    <3>1. \E z \in T : Cardinality({y \in T : FileBefore(y, z)}) = k - 1
      BY <1>3, <2>1
    <3>2. s[k] = CHOOSE z \in T : Cardinality({y \in T : FileBefore(y, z)}) = k - 1
      BY <1>4
    <3>3. s[k] \in T /\ Cardinality({y \in T : FileBefore(y, s[k])}) = k - 1
      BY <3>1, <3>2
    <3> QED BY <1>3, <3>3
  <2>2. s = [k \in 1 .. Cardinality(T) |-> s[k]]
    <3> HIDE DEF Place
    <3> QED BY <1>4
  <2> QED BY <2>1, <2>2 DEF Ranks
<1>6. IsSeq(s) /\ Range(s) = T
  BY <1>1, <1>2, <1>5, RankedHasAll
<1> QED BY <1>6 DEF s

LEMMA GroupsSorted ==
  ASSUME NEW T \in SUBSET Groups, IsFiniteSet(T)
  PROVE  IsSeq(Sorted(T, Before)) /\ Range(Sorted(T, Before)) = T
<1> DEFINE R == {p \in T \X T : Before(p[1], p[2])}
           s == Sorted(T, Before)
<1>1. Total(T, R)
  <2>1. \A x, y \in T : <<x, y>> \in R <=> Before(x, y)
    OBVIOUS
  <2> HIDE DEF R
  <2> QED BY <2>1, TitlesAssumption DEF Total
<1>3. \A x \in T : {y \in T : <<y, x>> \in R} = {y \in T : Before(y, x)}
  OBVIOUS
<1> DEFINE Place(k) == CHOOSE x \in T : Cardinality({y \in T : Before(y, x)}) = k - 1
<1>4. s = [k \in 1 .. Cardinality(T) |-> Place(k)]
  BY DEF Sorted
<1> HIDE DEF s, R
<1>5. Ranks(s, T, R)
  <2>1. ASSUME NEW k \in 1 .. Cardinality(T),
               NEW x \in T, Cardinality({y \in T : <<y, x>> \in R}) = k - 1
        PROVE  s[k] \in T /\ Cardinality({y \in T : <<y, s[k]>> \in R}) = k - 1
    <3>1. \E z \in T : Cardinality({y \in T : Before(y, z)}) = k - 1
      BY <1>3, <2>1
    <3>2. s[k] = CHOOSE z \in T : Cardinality({y \in T : Before(y, z)}) = k - 1
      BY <1>4
    <3>3. s[k] \in T /\ Cardinality({y \in T : Before(y, s[k])}) = k - 1
      BY <3>1, <3>2
    <3> QED BY <1>3, <3>3
  <2>2. s = [k \in 1 .. Cardinality(T) |-> s[k]]
    <3> HIDE DEF Place
    <3> QED BY <1>4
  <2> QED BY <2>1, <2>2 DEF Ranks
<1>6. IsSeq(s) /\ Range(s) = T
  BY <1>1, <1>5, RankedHasAll
<1> QED BY <1>6 DEF s

LEMMA CatalogIsFine ==
  ASSUME NEW S, AcceptedFiles(S)
  PROVE  FineCatalog(Catalog(S)) /\ CatalogPaths(Catalog(S)) = {l.path : l \in S}
<1> DEFINE T == {GroupOf(l) : l \in S}
           Members(name) == {l \in S : GroupOf(l) = name}
           names == Sorted(T, Before)
           Files(name) == Sorted(Members(name), FileBefore)
           catalog == Catalog(S)
<1>1. T \in SUBSET Groups /\ IsFiniteSet(T)
  <2>1. T \in SUBSET Groups
    BY FileIsFine DEF AcceptedFiles
  <2> DEFINE group == [l \in S |-> GroupOf(l)]
  <2>2. IsFiniteSet({group[l] : l \in S})
    <3> HIDE DEF group
    <3> QED BY FiniteImage DEF AcceptedFiles
  <2>3. {group[l] : l \in S} = T
    OBVIOUS
  <2> QED BY <2>1, <2>2, <2>3
<1>2. IsSeq(names) /\ Range(names) = T
  BY <1>1, GroupsSorted
<1>3. \A name : IsSeq(Files(name)) /\ Range(Files(name)) = Members(name)
  <2>1. \A name : Members(name) \in SUBSET S
    OBVIOUS
  <2> HIDE DEF Members
  <2> QED BY <2>1, FilesSorted
<1> DEFINE Group(name) == [name |-> name,
                           files |-> [f \in DOMAIN Files(name) |-> DocumentedFile(Files(name)[f])]]
<1>4. catalog = [g \in DOMAIN names |-> Group(names[g])]
  BY DEF Catalog
<1> HIDE DEF names, catalog, T
<1>5. DOMAIN names = 1 .. Len(names) /\ Len(names) \in Nat
  BY <1>2, SeqFacts
<1>6. IsSeq(catalog) /\ DOMAIN catalog = DOMAIN names
      /\ \A g \in DOMAIN names : catalog[g] = Group(names[g])
  <2> HIDE DEF Group
  <2>1. catalog = [g \in 1 .. Len(names) |-> catalog[g]]
    BY <1>4, <1>5
  <2> QED BY <1>4, <1>5, <2>1, SeqMade
<1>7. ASSUME NEW name \in T
      PROVE  FineGroup(Group(name)) /\ GroupPaths(Group(name)) = {l.path : l \in Members(name)}
  <2>1. PICK s : s = Files(name)
    OBVIOUS
  <2>2. IsSeq(s) /\ Range(s) = Members(name)
    BY <1>3, <2>1
  <2>3. Len(s) \in Nat /\ DOMAIN s = 1 .. Len(s) /\ \A x : x \in Range(s) <=> \E i \in 1 .. Len(s) : s[i] = x
    BY <2>2, SeqFacts
  <2>4. PICK files : files = [f \in DOMAIN s |-> DocumentedFile(s[f])]
    OBVIOUS
  <2>5. Group(name).files = files /\ Group(name).name = name
    BY <2>1, <2>4
  <2> HIDE DEF Group
  <2>6. IsSeq(files) /\ DOMAIN files = DOMAIN s
    <3>1. files = [f \in 1 .. Len(s) |-> files[f]]
      BY <2>3, <2>4
    <3> QED BY <2>3, <2>4, <3>1, SeqMade
  <2>7. ASSUME NEW f \in DOMAIN s
        PROVE  s[f] \in Members(name) /\ FineFile(files[f]) /\ files[f].path = s[f].path
    <3>1. s[f] \in Members(name) /\ s[f] \in S
      BY <2>2, <2>7 DEF Range
    <3>2. AcceptedFile(s[f]) /\ Words(Untitled(s[f].path)) \in Seq(STRING)
      BY <3>1 DEF AcceptedFiles
    <3>3. FineFile(DocumentedFile(s[f])) /\ DocumentedFile(s[f]).path = s[f].path
      BY <3>2, FileIsFine
    <3> QED BY <2>4, <2>7, <3>1, <3>3
  <2>8. Worded(name)
    BY <1>1, TitlesAreWorded DEF Titles
  <2>9. FineGroup(Group(name))
    BY <2>5, <2>6, <2>7, <2>8 DEF FineGroup
  <2>10. {files[f].path : f \in DOMAIN files} = {l.path : l \in Members(name)}
    <3>1. ASSUME NEW f \in DOMAIN files PROVE files[f].path \in {l.path : l \in Members(name)}
      BY <2>6, <2>7
    <3>2. ASSUME NEW l \in Members(name) PROVE \E f \in DOMAIN files : files[f].path = l.path
      <4>1. PICK f \in 1 .. Len(s) : s[f] = l
        BY <2>2, <2>3
      <4> QED BY <2>3, <2>6, <2>7, <4>1
    <3> QED BY <3>1, <3>2
  <2> QED BY <2>5, <2>9, <2>10 DEF GroupPaths
<1> HIDE DEF Group
<1>8. \A g \in DOMAIN names : names[g] \in T
  BY <1>2 DEF Range
<1>9. FineCatalog(catalog)
  BY <1>6, <1>7, <1>8 DEF FineCatalog
<1>10. CatalogPaths(catalog) = {l.path : l \in S}
  <2>1. ASSUME NEW p \in CatalogPaths(catalog) PROVE \E l \in S : p = l.path
    <3>1. PICK g \in DOMAIN names : p \in GroupPaths(Group(names[g]))
      BY <1>6, <2>1 DEF CatalogPaths
    <3> QED BY <1>7, <1>8, <3>1
  <2>2. ASSUME NEW l \in S PROVE l.path \in CatalogPaths(catalog)
    <3>1. GroupOf(l) \in T /\ l \in Members(GroupOf(l))
      BY DEF T
    <3>2. PICK g \in DOMAIN names : names[g] = GroupOf(l)
      BY <1>2, <3>1 DEF Range
    <3>3. l.path \in GroupPaths(catalog[g])
      BY <1>6, <1>7, <3>1, <3>2
    <3> QED BY <1>6, <3>3 DEF CatalogPaths
  <2> QED BY <2>1, <2>2
<1> QED BY <1>9, <1>10 DEF catalog

\* What is asked of the document of files at these places.
FineDocument(document, places) ==
  /\ Navigable(document) /\ Enclosed(document)
  /\ {document.blocks[i].path : i \in BlocksOf(document, "path")} = places

\* The document of accepted sources is as a document must be.
LEMMA AcceptedDocument ==
  ASSUME NEW S, AcceptedFiles(S), NEW format
  PROVE  FineDocument(Rendered(Catalog(S), format), {l.path : l \in S})
BY CatalogIsFine, DocumentIsFine DEF FineDocument
=============================================================================
