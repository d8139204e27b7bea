-------------------------- MODULE ShimEventsProofs --------------------------
(***************************************************************************)
(* Theorems about the event channel for every set of process ids and every *)
(* number of actions and shim invocations.                                 *)
(***************************************************************************)
EXTENDS ShimEvents, WellFoundedInduction, TLAPS

Busy == runner \in {"waiting", "reading"}

\* How far the runner is with its actions and with the directory of the current one.
Progress ==
  /\ Busy => action \in Actions /\ Len(results) = action - 1
  /\ ~Busy => Len(results) = action /\ events = {}
  /\ runner = "reading" => \A p \in unread : files[action][p] # None

\* Every process but the shell that has not become a shim yet serves an invocation.
Serving ==
  \A p \in Live : procs[p].invocation = None => procs[p].root /\ procs[p].at = "program"

TInv == TypeOK /\ Progress /\ Serving

-----------------------------------------------------------------------------
(* Type correctness.                                                       *)

LEMMA ProcessTyped ==
  ASSUME TypeOK, NEW p \in Live
  PROVE  p \in Pids /\ procs[p] \in Process
BY DEF TypeOK, Live

LEMMA InvocationAdded ==
  ASSUME TypeOK, NEW a \in Actions, NEW p \in Pids, NEW awaited \in BOOLEAN, Invoke(a, p, awaited)
  PROVE  /\ invocations' \in Seq(Invocation)
         /\ NextId \in Ids
         /\ Len(invocations) \in Nat
         /\ NextId = Len(invocations) + 1
         /\ DOMAIN invocations = 1 .. Len(invocations)
         /\ DOMAIN invocations' = 1 .. NextId
         /\ \A i \in DOMAIN invocations : invocations'[i] = invocations[i]
         /\ invocations'[NextId] =
              [action |-> a, pid |-> p, awaited |-> awaited, event |-> "due", target |-> "due"]
<1> DEFINE new == [action |-> a, pid |-> p, awaited |-> awaited, event |-> "due", target |-> "due"]
<1>1. new \in Invocation
  BY DEF Invocation
<1>2. invocations \in Seq(Invocation) /\ invocations' = Append(invocations, new) /\ NextId \in Ids
  BY DEF TypeOK, Invoke
<1>. HIDE DEF new
<1>3. invocations' \in Seq(Invocation) /\ Len(invocations') = Len(invocations) + 1
  BY <1>1, <1>2
<1>4. /\ \A i \in DOMAIN invocations : invocations'[i] = invocations[i]
      /\ invocations'[NextId] = new
  BY <1>1, <1>2 DEF NextId
<1>. QED BY <1>2, <1>3, <1>4 DEF new, NextId

LEMMA Recorded ==
  ASSUME TypeOK, NEW p \in Pids, NEW event \in {"written", "refused", "unset"}, Record(p, event)
  PROVE  /\ invocations' \in Seq(Invocation)
         /\ DOMAIN invocations' = DOMAIN invocations
         /\ \A i \in DOMAIN invocations :
              /\ invocations'[i].action = invocations[i].action
              /\ invocations'[i].pid = invocations[i].pid
              /\ invocations'[i].awaited = invocations[i].awaited
              /\ invocations'[i].event =
                   IF i = procs[p].invocation THEN event ELSE invocations[i].event
<1>1. /\ invocations \in Seq(Invocation)
      /\ invocations' = [invocations EXCEPT ![procs[p].invocation].event = event]
  BY DEF TypeOK, Record
<1>2. \A i \in DOMAIN invocations : invocations[i] \in Invocation
  BY <1>1
<1>3. \A i \in DOMAIN invocations :
        invocations'[i] = IF i = procs[p].invocation
                          THEN [invocations[i] EXCEPT !.event = event] ELSE invocations[i]
  BY <1>1
<1>4. DOMAIN invocations' = DOMAIN invocations /\ DOMAIN invocations = 1 .. Len(invocations)
      /\ Len(invocations) \in Nat
  BY <1>1
<1>5. \A i \in DOMAIN invocations :
        /\ invocations'[i] \in Invocation
        /\ invocations'[i].action = invocations[i].action
        /\ invocations'[i].pid = invocations[i].pid
        /\ invocations'[i].awaited = invocations[i].awaited
        /\ invocations'[i].event = IF i = procs[p].invocation THEN event ELSE invocations[i].event
  <2> TAKE i \in DOMAIN invocations
  <2>1. CASE i = procs[p].invocation
    <3>1. invocations[i] \in Invocation /\ invocations'[i] = [invocations[i] EXCEPT !.event = event]
      BY <1>2, <1>3, <2>1
    <3>. QED BY <2>1, <3>1 DEF Invocation
  <2>2. CASE i # procs[p].invocation
    BY <1>2, <1>3, <2>2
  <2>. QED BY <2>1, <2>2
<1>6. invocations' \in [1 .. Len(invocations) -> Invocation]
  BY <1>1, <1>4, <1>5
<1>7. invocations' \in Seq(Invocation)
  BY <1>4, <1>6
<1>. QED BY <1>4, <1>5, <1>7

\* A killed process marks the target of its invocation, and nothing else of any.
LEMMA KillMarks ==
  ASSUME TypeOK, NEW p \in Pids, Kill(p)
  PROVE  /\ invocations' \in Seq(Invocation)
         /\ DOMAIN invocations' = DOMAIN invocations
         /\ \A i \in DOMAIN invocations :
              /\ invocations'[i].action = invocations[i].action
              /\ invocations'[i].pid = invocations[i].pid
              /\ invocations'[i].awaited = invocations[i].awaited
              /\ invocations'[i].event = invocations[i].event
<1>1. invocations \in Seq(Invocation)
  BY DEF TypeOK
<1>2. \A i \in DOMAIN invocations : invocations[i] \in Invocation
  BY <1>1
<1>3. /\ DOMAIN invocations' = DOMAIN invocations
      /\ \A i \in DOMAIN invocations :
           invocations'[i] \in {invocations[i], [invocations[i] EXCEPT !.target = "killed"]}
  BY DEF Kill
<1>4. DOMAIN invocations = 1 .. Len(invocations) /\ Len(invocations) \in Nat
  BY <1>1
<1>5. \A i \in DOMAIN invocations : invocations'[i] \in Invocation
  BY <1>2, <1>3 DEF Invocation
<1>6. invocations' \in [1 .. Len(invocations) -> Invocation]
  BY <1>3, <1>4, <1>5 DEF Kill
<1>7. invocations' \in Seq(Invocation)
  BY <1>4, <1>6
<1>8. \A i \in DOMAIN invocations :
        /\ invocations'[i].action = invocations[i].action
        /\ invocations'[i].pid = invocations[i].pid
        /\ invocations'[i].awaited = invocations[i].awaited
        /\ invocations'[i].event = invocations[i].event
  BY <1>2, <1>3 DEF Invocation
<1>. QED BY <1>3, <1>7, <1>8

LEMMA ExecMarks ==
  ASSUME TypeOK, NEW p \in Pids, ExecTarget(p)
  PROVE  /\ invocations' \in Seq(Invocation)
         /\ DOMAIN invocations' = DOMAIN invocations
         /\ \A i \in DOMAIN invocations :
              /\ invocations'[i].action = invocations[i].action
              /\ invocations'[i].pid = invocations[i].pid
              /\ invocations'[i].awaited = invocations[i].awaited
              /\ invocations'[i].event = invocations[i].event
<1>1. /\ invocations \in Seq(Invocation)
      /\ invocations' = [invocations EXCEPT ![procs[p].invocation].target = "running"]
  BY DEF TypeOK, ExecTarget
<1>2. \A i \in DOMAIN invocations : invocations[i] \in Invocation
  BY <1>1
<1>3. /\ DOMAIN invocations' = DOMAIN invocations
      /\ \A i \in DOMAIN invocations :
           invocations'[i] \in {invocations[i], [invocations[i] EXCEPT !.target = "running"]}
  BY <1>1
<1>4. DOMAIN invocations = 1 .. Len(invocations) /\ Len(invocations) \in Nat
  BY <1>1
<1>5. \A i \in DOMAIN invocations : invocations'[i] \in Invocation
  BY <1>2, <1>3 DEF Invocation
<1>6. invocations' \in [1 .. Len(invocations) -> Invocation]
  BY <1>1, <1>3, <1>4, <1>5
<1>7. invocations' \in Seq(Invocation)
  BY <1>4, <1>6
<1>8. \A i \in DOMAIN invocations :
        /\ invocations'[i].action = invocations[i].action
        /\ invocations'[i].pid = invocations[i].pid
        /\ invocations'[i].awaited = invocations[i].awaited
        /\ invocations'[i].event = invocations[i].event
  BY <1>2, <1>3 DEF Invocation
<1>. QED BY <1>3, <1>7, <1>8

\* A stage of the wrapper changes `at` of one process only.
LEMMA StageTyped ==
  ASSUME TypeOK, NEW p \in Live, NEW stage \in {"program", "opening", "writing", "handover"},
         Goto(p, stage)
  PROVE  /\ procs' \in [Pids -> Process \cup {None}]
         /\ Live' = Live
         /\ procs'[p] = [procs[p] EXCEPT !.at = stage]
         /\ procs'[p].at = stage
         /\ \A q \in Live : q # p => procs'[q] = procs[q]
         /\ procs[p].invocation # None /\ Serving => Serving'
<1>1. p \in Pids /\ procs[p] \in Process /\ None \notin Process
  BY ProcessTyped, ProcessAssumption
<1> DEFINE moved == [procs[p] EXCEPT !.at = stage]
<1>2. moved \in Process /\ moved.at = stage
  BY <1>1 DEF Process
<1>3. procs' = [procs EXCEPT ![p] = moved] /\ procs \in [Pids -> Process \cup {None}]
  BY DEF Goto, TypeOK
<1>. HIDE DEF moved
<1>4. /\ procs' \in [Pids -> Process \cup {None}]
      /\ procs'[p] = moved
      /\ \A q \in Pids : q # p => procs'[q] = procs[q]
  BY <1>1, <1>2, <1>3
<1>5. Live' = Live
  BY <1>1, <1>2, <1>4 DEF Live
<1>6. /\ procs'[p] = [procs[p] EXCEPT !.at = stage]
      /\ procs'[p].at = stage
      /\ \A q \in Live : q # p => procs'[q] = procs[q]
  BY <1>2, <1>4 DEF moved, Live
<1>7. procs'[p].invocation = procs[p].invocation
  BY <1>1, <1>6 DEF Process
<1>8. procs[p].invocation # None /\ Serving => Serving'
  BY <1>5, <1>6, <1>7 DEF Serving
<1>. QED BY <1>4, <1>5, <1>6, <1>8

LEMMA HandOverTyped ==
  ASSUME TInv, Busy, NEW found \in Result, HandOver(found)
  PROVE  TInv'
<1>1. results \in Seq(Result) /\ results' = Append(results, found)
  BY DEF TInv, TypeOK, HandOver
<1>2. results' \in Seq(Result) /\ Len(results') = Len(results) + 1
  BY <1>1
<1>3. action \in Actions /\ Len(results) = action - 1 /\ action \in Nat
  BY DEF TInv, Progress, Actions
<1>4. files' \in [Actions -> [Pids -> {None, Torn} \cup Ids]]
  BY <1>3 DEF TInv, TypeOK, HandOver, EventDir
<1>5. Progress'
  BY <1>2, <1>3 DEF HandOver, Progress, Busy
<1>6. TypeOK'
  BY <1>2, <1>4 DEF HandOver, TInv, TypeOK
<1>7. Serving'
  BY DEF HandOver, TInv, Serving, Live
<1>. QED BY <1>5, <1>6, <1>7 DEF TInv

LEMMA InitTyped == Init => TInv
BY BoundsAssumption DEF Init, TInv, TypeOK, Progress, Busy, Serving, Live

\* A step of a process: the runner and its directories are left alone.
LEMMA ProcessKeepsProgress ==
  ASSUME TInv, UNCHANGED runnerVars,
         \A p \in Pids : \A a \in Actions : files[a][p] # None => files'[a][p] # None
  PROVE  Progress'
BY DEF TInv, TypeOK, Progress, Busy, runnerVars

LEMMA ForkTyped ==
  ASSUME TInv, NEW p \in Pids, NEW q \in Pids, NEW piped \in BOOLEAN,
         NEW foreground \in BOOLEAN, NEW sees \in BOOLEAN, ForkShim(p, q, piped, foreground, sees)
  PROVE  TInv'
<1> DEFINE awaited == piped \/ (foreground /\ procs[p].awaited)
           child == [action |-> procs[p].action, root |-> FALSE, piped |-> piped,
                     awaited |-> awaited, sees |-> sees,
                     waitedBy |-> IF foreground THEN p ELSE None,
                     at |-> "opening", invocation |-> NextId]
<1>1. p \in Live /\ procs[p] \in Process
  BY ProcessTyped DEF ForkShim, Program, TInv
<1>2. procs[p].action \in Actions /\ awaited \in BOOLEAN
  BY <1>1 DEF Process
<1>3. invocations' \in Seq(Invocation) /\ NextId \in Ids
  BY <1>2, InvocationAdded DEF ForkShim, TInv
<1>4. child \in Process
  BY <1>1, <1>2, <1>3 DEF Process
<1>5. procs' = [procs EXCEPT ![q] = child]
  BY DEF ForkShim
<1>6. procs' \in [Pids -> Process \cup {None}]
  BY <1>4, <1>5 DEF TInv, TypeOK
<1>7. UNCHANGED <<runnerVars, open, files, killed>>
  BY DEF ForkShim
<1>8. TypeOK'
  BY <1>3, <1>6, <1>7 DEF TInv, TypeOK, runnerVars
<1>9. Serving'
  BY <1>3, <1>5, NoneAssumption DEF TInv, TypeOK, Serving, Live, Ids
<1>. QED BY <1>7, <1>8, <1>9, ProcessKeepsProgress DEF TInv

LEMMA ExecTyped ==
  ASSUME TInv, NEW p \in Pids, ExecShim(p)
  PROVE  TInv'
<1> DEFINE shim == [procs[p] EXCEPT !.at = "opening", !.invocation = NextId]
<1>1. p \in Live /\ procs[p] \in Process
  BY ProcessTyped DEF ExecShim, Program, TInv
<1>2. procs[p].action \in Actions /\ procs[p].awaited \in BOOLEAN
  BY <1>1 DEF Process
<1>3. invocations' \in Seq(Invocation) /\ NextId \in Ids
  BY <1>2, InvocationAdded DEF ExecShim, TInv
<1>4. shim \in Process
  BY <1>1, <1>3 DEF Process
<1>5. procs' = [procs EXCEPT ![p] = shim]
  BY DEF ExecShim
<1>6. procs' \in [Pids -> Process \cup {None}]
  BY <1>4, <1>5 DEF TInv, TypeOK
<1>7. UNCHANGED <<runnerVars, open, files, killed>>
  BY DEF ExecShim
<1>8. TypeOK'
  BY <1>3, <1>6, <1>7 DEF TInv, TypeOK, runnerVars
<1>9. shim.invocation # None
  BY <1>1, <1>3, NoneAssumption DEF Process, Ids
<1>10. Serving'
  <2> HIDE DEF shim
  <2>. QED BY <1>5, <1>9 DEF TInv, TypeOK, Serving, Live
<1>. QED BY <1>7, <1>8, <1>10, ProcessKeepsProgress DEF TInv

\* What a kill leaves of the other processes.
LEMMA KillLeaves ==
  ASSUME TypeOK, NEW p \in Pids, Kill(p)
  PROVE  /\ procs' \in [Pids -> Process \cup {None}]
         /\ p \in Live /\ Live' = Live \ {p}
         /\ \A q \in Live' :
              /\ procs'[q].action = procs[q].action /\ procs'[q].root = procs[q].root
              /\ procs'[q].piped = procs[q].piped /\ procs'[q].awaited = procs[q].awaited
              /\ procs'[q].at = procs[q].at /\ procs'[q].invocation = procs[q].invocation
              /\ procs[q].waitedBy # p => procs'[q].waitedBy = procs[q].waitedBy
<1>1. /\ p \in Live /\ None \notin Process
      /\ procs \in [Pids -> Process \cup {None}]
  BY ProcessAssumption DEF Kill, TypeOK
<1>2. /\ procs' \in [Pids -> Process \cup {None}]
      /\ procs'[p] = None
      /\ \A q \in Pids \ {p} :
           \/ procs'[q] = procs[q] /\ (q \in Live => procs[q].waitedBy # p)
           \/ q \in Live /\ procs[q].waitedBy = p /\ procs'[q] = [procs[q] EXCEPT !.waitedBy = None]
  <2> DEFINE left(q) == IF q = p THEN None
                        ELSE IF q \in Live /\ procs[q].waitedBy = p
                        THEN [procs[q] EXCEPT !.waitedBy = None] ELSE procs[q]
  <2>1. procs' = [q \in Pids |-> left(q)]
    BY DEF Kill
  <2>2. \A q \in Pids : left(q) \in Process \cup {None}
    <3> TAKE q \in Pids
    <3>1. CASE q \in Live /\ procs[q].waitedBy = p /\ q # p
      <4>1. procs[q] \in Process
        BY <3>1, ProcessTyped
      <4>2. [procs[q] EXCEPT !.waitedBy = None] \in Process
        BY <4>1 DEF Process
      <4>. QED BY <3>1, <4>2
    <3>2. CASE ~(q \in Live /\ procs[q].waitedBy = p /\ q # p)
      BY <1>1, <3>2
    <3>. QED BY <3>1, <3>2
  <2>. QED BY <2>1, <2>2
<1>3. \A q \in Live \ {p} : procs[q] \in Process /\ procs'[q] # None
  BY <1>1, <1>2, ProcessTyped DEF Live, Process
<1>4. Live' = Live \ {p}
  BY <1>1, <1>2, <1>3 DEF Live
<1>. QED
  <2> SUFFICES ASSUME NEW q \in Live' PROVE
              /\ procs'[q].action = procs[q].action /\ procs'[q].root = procs[q].root
              /\ procs'[q].piped = procs[q].piped /\ procs'[q].awaited = procs[q].awaited
              /\ procs'[q].at = procs[q].at /\ procs'[q].invocation = procs[q].invocation
              /\ procs[q].waitedBy # p => procs'[q].waitedBy = procs[q].waitedBy
    BY <1>1, <1>2, <1>4
  <2>1. q \in Pids \ {p} /\ procs[q] \in Process
    BY <1>3, <1>4 DEF Live
  <2>2. CASE procs'[q] = procs[q]
    BY <2>2
  <2>3. CASE procs[q].waitedBy = p /\ procs'[q] = [procs[q] EXCEPT !.waitedBy = None]
    BY <2>1, <2>3 DEF Process
  <2>. QED BY <1>2, <2>1, <2>2, <2>3

LEMMA StartTyped ==
  ASSUME TInv, NEW p \in Pids, StartAction(p)
  PROVE  TInv'
<1> DEFINE shell == [action |-> action + 1, root |-> TRUE, piped |-> TRUE, awaited |-> TRUE,
                     sees |-> TRUE, waitedBy |-> None, at |-> "program", invocation |-> None]
<1>1. action \in Nat /\ action + 1 \in Actions /\ action' = action + 1
  BY BoundsAssumption DEF StartAction, TInv, TypeOK, Actions
<1>2. shell \in Process
  BY <1>1 DEF Process
<1>3. procs' = [procs EXCEPT ![p] = shell]
  BY DEF StartAction
<1>4. procs' \in [Pids -> Process \cup {None}]
  BY <1>2, <1>3 DEF TInv, TypeOK
<1>5. open' \subseteq Actions
  BY <1>1 DEF StartAction, TInv, TypeOK, EventDir
<1>6. TypeOK'
  BY <1>1, <1>4, <1>5 DEF StartAction, TInv, TypeOK, Actions
<1>7. Progress'
  BY <1>1 DEF StartAction, TInv, TypeOK, Progress, Busy
<1>8. Serving'
  BY <1>3 DEF TInv, TypeOK, Serving, Live
<1>. QED BY <1>6, <1>7, <1>8 DEF TInv

\* A stage of the wrapper that reports what became of the event.
LEMMA ReportTyped ==
  ASSUME TInv, NEW p \in Live, NEW event \in {"written", "refused", "unset"},
         Record(p, event), Goto(p, "handover"), procs[p].invocation # None,
         UNCHANGED <<runnerVars, open, killed>>,
         files' \in [Actions -> [Pids -> {None, Torn} \cup Ids]],
         \A q \in Pids : \A a \in Actions : files[a][q] # None => files'[a][q] # None
  PROVE  TInv'
<1>1. procs' \in [Pids -> Process \cup {None}] /\ Serving'
  BY StageTyped DEF TInv
<1>2. invocations' \in Seq(Invocation)
  BY Recorded, ProcessTyped DEF TInv
<1>3. TypeOK'
  BY <1>1, <1>2 DEF TInv, TypeOK, runnerVars
<1>. QED BY <1>1, <1>3, ProcessKeepsProgress DEF TInv

LEMMA NextKeepsType == TInv /\ [Next]_vars => TInv'
<1> SUFFICES ASSUME TInv, [Next]_vars PROVE TInv'
  OBVIOUS
<1>0. TypeOK /\ Progress /\ Serving
  BY DEF TInv
<1>1. ASSUME NEW p \in Pids, StartAction(p) PROVE TInv'
  BY <1>1, StartTyped
<1>2. CASE CannotStart \/ NoMoreActions
  BY <1>0, <1>2 DEF CannotStart, NoMoreActions, TInv, TypeOK, Progress, Busy, Serving, Live
<1>3. CASE StartReading
  BY <1>0, <1>3 
    DEF StartReading, TInv, TypeOK, Progress, Busy, Present, EventDir, Serving, Live
<1>4. ASSUME NEW p \in Pids, NEW readable \in BOOLEAN, ReadEntry(p, readable) PROVE TInv'
  <2>1. action \in Actions /\ files[action][p] # None /\ files[action][p] \in {None, Torn} \cup Ids
    BY <1>0, <1>4 DEF ReadEntry, TypeOK, Progress, Busy
  <2>2. events' \subseteq Ids /\ warnings' \subseteq Pids /\ unread' \subseteq unread
    BY <1>0, <1>4, <2>1 DEF ReadEntry, TypeOK, EventDir
  <2>. QED BY <1>0, <1>4, <2>2 DEF ReadEntry, TInv, TypeOK, Progress, Busy, Serving, Live
<1>5. CASE FinishReading
  <2>1. [events |-> events, warnings |-> warnings] \in Result /\ Busy
    BY <1>0, <1>5 DEF FinishReading, TypeOK, Result, Busy
  <2>. QED BY <1>5, <2>1, HandOverTyped DEF FinishReading
<1>6. CASE DirectoryUnreadable
  <2>1. [events |-> {}, warnings |-> Pids] \in Result /\ Busy
    BY <1>6 DEF DirectoryUnreadable, Result, Busy
  <2>. QED BY <1>6, <2>1, HandOverTyped DEF DirectoryUnreadable
<1>7. ASSUME NEW p \in Pids, SeeLateEntry(p) PROVE TInv'
  BY <1>0, <1>7 
    DEF SeeLateEntry, Present, EventDir, TInv, TypeOK, Progress, Busy, Serving, Live
<1>8. ASSUME NEW p \in Pids, NEW q \in Pids, NEW piped \in BOOLEAN, NEW foreground \in BOOLEAN,
             NEW sees \in BOOLEAN, ForkShim(p, q, piped, foreground, sees)
      PROVE  TInv'
  BY <1>8, ForkTyped
<1>9. ASSUME NEW p \in Pids, ExecShim(p) PROVE TInv'
  BY <1>9, ExecTyped
<1>10. ASSUME NEW p \in Pids, Exit(p) PROVE TInv'
  <2>1. TypeOK'
    BY <1>0, <1>10 DEF Exit, TypeOK, runnerVars
  <2>2. Serving'
    BY <1>0, <1>10 DEF Exit, TypeOK, Serving, Live
  <2>. QED BY <1>10, <2>1, <2>2, ProcessKeepsProgress DEF Exit, TInv
<1>11. ASSUME NEW p \in Pids, Kill(p) PROVE TInv'
  <2>1. procs' \in [Pids -> Process \cup {None}] /\ invocations' \in Seq(Invocation)
    BY <1>0, <1>11, KillLeaves, KillMarks
  <2>2. procs[p].action \in Actions
    BY <1>0, <1>11, ProcessTyped DEF Kill, Process
  <2>3. UNCHANGED <<runnerVars, open, files>> /\ killed' = killed \cup {procs[p].action}
    BY <1>11 DEF Kill
  <2>4. TypeOK'
    BY <1>0, <2>1, <2>2, <2>3 DEF TypeOK, runnerVars
  <2>5. Serving'
    BY <1>0, <1>11, KillLeaves DEF Serving
  <2>. QED BY <2>3, <2>4, <2>5, ProcessKeepsProgress DEF TInv
<1>12. ASSUME NEW p \in Pids, SkipEvent(p) \/ EventRefused(p) PROVE TInv'
  <2>1. /\ p \in Live /\ procs[p].invocation # None
        /\ Goto(p, "handover") /\ UNCHANGED <<runnerVars, open, files, killed>>
    BY <1>0, <1>12 DEF SkipEvent, EventRefused, InWrapper, Serving
  <2>2. \E event \in {"written", "refused", "unset"} : Record(p, event)
    BY <1>12 DEF SkipEvent, EventRefused
  <2>. QED BY <1>0, <2>1, <2>2, ReportTyped DEF TypeOK
<1>13. ASSUME NEW p \in Pids, OpenEvent(p) PROVE TInv'
  <2>1. p \in Live /\ procs[p].action \in Actions /\ procs[p].invocation # None
    BY <1>0, <1>13, ProcessTyped DEF OpenEvent, InWrapper, Process, Serving
  <2>2. procs' \in [Pids -> Process \cup {None}] /\ Serving'
    BY <1>0, <1>13, <2>1, StageTyped DEF OpenEvent
  <2>3. /\ files' = [files EXCEPT ![procs[p].action][p] = Torn]
        /\ UNCHANGED <<runnerVars, open, invocations, killed>>
    BY <1>13 DEF OpenEvent, SetFile, DirOf, EventDir
  <2>4. Torn # None
    BY NoneAssumption DEF Torn
  <2>5. files' \in [Actions -> [Pids -> {None, Torn} \cup Ids]]
    BY <1>0, <2>1, <2>3 DEF TypeOK
  <2>6. \A q \in Pids : \A a \in Actions : files[a][q] # None => files'[a][q] # None
    BY <1>0, <2>1, <2>3, <2>4 DEF TypeOK
  <2>7. TypeOK'
    BY <1>0, <2>2, <2>3, <2>5 DEF TypeOK, runnerVars
  <2>. QED BY <2>2, <2>3, <2>6, <2>7, ProcessKeepsProgress DEF TInv
<1>14. ASSUME NEW p \in Pids, WriteEvent(p) PROVE TInv'
  <2>1. p \in Live /\ procs[p].action \in Actions /\ procs[p].invocation \in Ids
    BY <1>0, <1>14, ProcessTyped DEF WriteEvent, InWrapper, Process, Serving
  <2>2. Record(p, "written") /\ Goto(p, "handover") /\ UNCHANGED <<runnerVars, open, killed>>
    BY <1>14 DEF WriteEvent
  <2>3. \/ UNCHANGED files
        \/ files' = [files EXCEPT ![procs[p].action][p] = procs[p].invocation]
    BY <1>14 DEF WriteEvent, SetFile, DirOf, EventDir
  <2>4. procs[p].invocation # None
    BY <2>1, NoneAssumption DEF Ids
  <2>5. files' \in [Actions -> [Pids -> {None, Torn} \cup Ids]]
    BY <1>0, <2>1, <2>3 DEF TypeOK
  <2>6. \A q \in Pids : \A a \in Actions : files[a][q] # None => files'[a][q] # None
    BY <1>0, <2>1, <2>3, <2>4 DEF TypeOK
  <2>. QED BY <2>1, <2>2, <2>4, <2>5, <2>6, ReportTyped
<1>15. ASSUME NEW p \in Pids, ExecTarget(p) PROVE TInv'
  <2>1. /\ p \in Live /\ procs[p].invocation # None
        /\ Goto(p, "program") /\ UNCHANGED <<runnerVars, open, files, killed>>
    BY <1>0, <1>15 DEF ExecTarget, InWrapper, Serving
  <2>2. procs' \in [Pids -> Process \cup {None}] /\ Serving'
    BY <1>0, <2>1, StageTyped
  <2>3. invocations' \in Seq(Invocation)
    BY <1>0, <1>15, ExecMarks
  <2>4. TypeOK'
    BY <1>0, <2>1, <2>2, <2>3 DEF TypeOK, runnerVars
  <2>. QED BY <2>1, <2>2, <2>4, ProcessKeepsProgress DEF TInv
<1>16. CASE UNCHANGED vars
  BY <1>0, <1>16 DEF vars, runnerVars, TInv, TypeOK, Progress, Busy, Serving, Live
<1>. QED
  BY <1>1, <1>2, <1>3, <1>4, <1>5, <1>6, <1>7, <1>8, <1>9, <1>10, <1>11, <1>12, <1>13, <1>14,
     <1>15, <1>16 DEF Next, Collect, Wrapper, Over

LEMMA TypeInvariant == Spec => []TInv
BY InitTyped, NextKeepsType, PTL DEF Spec

(***************************************************************************)
(* Every state of the event channel (execute_action, its files and its     *)
(* processes) is well typed, however processes fork, exec and end.         *)
(***************************************************************************)
THEOREM TypeCorrect == Spec => []TypeOK
<1>1. TInv => TypeOK
  BY DEF TInv
<1>. QED BY <1>1, TypeInvariant, PTL

-----------------------------------------------------------------------------
(* Events stay with their action.                                          *)

\* A process serves the latest invocation under its id, of its own action.
Linked(p) ==
  LET i == procs[p].invocation
  IN /\ i \in DOMAIN invocations
     /\ invocations[i].action = procs[p].action
     /\ invocations[i].pid = p
     /\ invocations[i].awaited = procs[p].awaited
     /\ procs[p].at \in {"opening", "writing"} => invocations[i].event = "due"
     /\ \A j \in DOMAIN invocations : invocations[j].pid = p => j <= i

LinkedInv == \A p \in Live : procs[p].invocation # None => Linked(p)

\* Nothing belongs to an action that has not begun.
Begun ==
  /\ \A p \in Live : procs[p].action <= action
  /\ \A i \in DOMAIN invocations : invocations[i].action <= action

FilesOwn ==
  \A a \in Actions : \A p \in Pids : files[a][p] \in Ids => files[a][p] \in InvokedIn(a)

OInv == LinkedInv /\ Begun /\ FilesOwn /\ EventsAreOwn

\* Invocations are only added, and keep what was said of them first.
Grown ==
  /\ DOMAIN invocations \subseteq DOMAIN invocations'
  /\ \A i \in DOMAIN invocations :
       /\ invocations'[i].action = invocations[i].action
       /\ invocations'[i].pid = invocations[i].pid
       /\ invocations'[i].awaited = invocations[i].awaited

LEMMA GrowthKeepsOwn ==
  ASSUME TInv, OInv, Grown, UNCHANGED runnerVars
  PROVE  /\ \A a \in Actions : InvokedIn(a) \subseteq InvokedIn(a)'
         /\ EventsAreOwn'
<1>1. \A a : InvokedIn(a) \subseteq InvokedIn(a)'
  BY DEF Grown, InvokedIn
<1>2. UNCHANGED <<action, events, results>>
  BY DEF runnerVars
<1>. QED BY <1>1, <1>2 DEF OInv, EventsAreOwn, Finished

\* A step of the runner: processes and invocations are left alone.
LEMMA RunnerKeepsLinks ==
  ASSUME OInv, UNCHANGED <<action, procs, invocations>>
  PROVE  LinkedInv' /\ Begun'
BY DEF OInv, LinkedInv, Linked, Begun, Live

LEMMA HandOverOwn ==
  ASSUME TInv, OInv, Busy, NEW found \in Result, found.events \subseteq InvokedIn(action),
         HandOver(found)
  PROVE  OInv'
<1>1. /\ results \in Seq(Result) /\ results' = Append(results, found)
      /\ Len(results) + 1 = action /\ action \in Actions
      /\ UNCHANGED <<action, procs, invocations>> /\ events' = {}
      /\ files' = [files EXCEPT ![action] = [p \in Pids |-> None]]
  BY DEF TInv, TypeOK, Progress, HandOver, EventDir, Actions
<1>2. /\ DOMAIN results' = 1 .. action /\ results'[action] = found
      /\ \A a \in DOMAIN results : a # action /\ results'[a] = results[a]
      /\ DOMAIN results' = DOMAIN results \cup {action}
  BY <1>1
<1>3. EventsAreOwn'
  BY <1>1, <1>2 DEF OInv, EventsAreOwn, Finished, InvokedIn
<1>4. FilesOwn'
  <2> SUFFICES ASSUME NEW a \in Actions, NEW p \in Pids, files'[a][p] \in Ids
               PROVE  files'[a][p] \in InvokedIn(a)
    BY <1>1 DEF FilesOwn, InvokedIn
  <2>1. files \in [Actions -> [Pids -> {None, Torn} \cup Ids]] /\ None \notin Ids
    BY NoneAssumption DEF TInv, TypeOK, Ids
  <2>2. a # action /\ files'[a][p] = files[a][p]
    BY <1>1, <2>1
  <2>. QED BY <2>2 DEF OInv, FilesOwn
<1>. QED BY <1>1, <1>3, <1>4, RunnerKeepsLinks DEF OInv

\* A new invocation, of an action that has begun, by a process that had none or an earlier one.
LEMMA InvocationGrows ==
  ASSUME TInv, OInv, NEW a \in Actions, NEW p \in Pids, NEW awaited \in BOOLEAN,
         Invoke(a, p, awaited), a <= action, UNCHANGED <<runnerVars, files>>
  PROVE  /\ Grown /\ EventsAreOwn' /\ FilesOwn'
         /\ \A i \in DOMAIN invocations' : invocations'[i].action <= action'
<1>0. TypeOK
  BY DEF TInv
<1>a. /\ NextId = Len(invocations) + 1 /\ Len(invocations) \in Nat
      /\ DOMAIN invocations = 1 .. Len(invocations)
      /\ DOMAIN invocations' = 1 .. NextId
      /\ \A i \in DOMAIN invocations : invocations'[i] = invocations[i]
      /\ invocations'[NextId] =
           [action |-> a, pid |-> p, awaited |-> awaited, event |-> "due", target |-> "due"]
  BY <1>0, InvocationAdded
<1>1. /\ DOMAIN invocations' = DOMAIN invocations \cup {NextId}
      /\ \A i \in DOMAIN invocations : invocations'[i] = invocations[i]
      /\ invocations'[NextId].action = a
  BY <1>a
<1>2. Grown
  BY <1>1 DEF Grown
<1>3. UNCHANGED action
  BY DEF runnerVars
<1>. QED BY <1>1, <1>2, <1>3, GrowthKeepsOwn DEF OInv, FilesOwn, Begun

LEMMA ForkOwn ==
  ASSUME TInv, OInv, NEW p \in Pids, NEW q \in Pids, NEW piped \in BOOLEAN,
         NEW foreground \in BOOLEAN, NEW sees \in BOOLEAN, ForkShim(p, q, piped, foreground, sees)
  PROVE  OInv'
<1> DEFINE awaited == piped \/ (foreground /\ procs[p].awaited)
           child == [action |-> procs[p].action, root |-> FALSE, piped |-> piped,
                     awaited |-> awaited, sees |-> sees,
                     waitedBy |-> IF foreground THEN p ELSE None,
                     at |-> "opening", invocation |-> NextId]
<1>1. p \in Live /\ procs[p] \in Process /\ q \notin Live
  BY ProcessTyped DEF ForkShim, Program, TInv
<1>2. /\ procs[p].action \in Actions /\ awaited \in BOOLEAN
      /\ procs[p].action <= action /\ action \in Nat
  BY <1>1 DEF Process, OInv, Begun, TInv, TypeOK
<1>3. /\ Invoke(procs[p].action, q, awaited) /\ UNCHANGED <<runnerVars, files>>
      /\ procs' = [procs EXCEPT ![q] = child]
  BY DEF ForkShim
<1>. HIDE DEF awaited
<1>4. /\ NextId \in Ids
      /\ DOMAIN invocations = 1 .. Len(invocations) /\ NextId = Len(invocations) + 1
      /\ Len(invocations) \in Nat
      /\ DOMAIN invocations' = 1 .. NextId
      /\ \A i \in DOMAIN invocations : invocations'[i] = invocations[i]
      /\ invocations'[NextId] = [action |-> procs[p].action, pid |-> q, awaited |-> awaited,
                                 event |-> "due", target |-> "due"]
  BY <1>2, <1>3, InvocationAdded DEF TInv
<1>5. /\ Grown /\ EventsAreOwn' /\ FilesOwn'
      /\ \A i \in DOMAIN invocations' : invocations'[i].action <= action'
  BY <1>2, <1>3, InvocationGrows
<1>6. /\ procs'[q] = child /\ \A o \in Pids \ {q} : procs'[o] = procs[o]
      /\ Live' \subseteq Live \cup {q}
  BY <1>3 DEF TInv, TypeOK, Live
<1>7. LinkedInv'
  <2> SUFFICES ASSUME NEW o \in Live', procs'[o].invocation # None PROVE Linked(o)'
    BY DEF LinkedInv
  <2>1. CASE o = q
    BY <1>4, <1>6, <2>1 DEF Linked
  <2>2. CASE o # q
    <3>1. o \in Live /\ procs'[o] = procs[o] /\ Linked(o)
      BY <1>6, <2>2 DEF Live, OInv, LinkedInv
    <3>. QED BY <1>4, <2>2, <3>1 DEF Linked
  <2>. QED BY <2>1, <2>2
<1>8. Begun'
  <2>1. \A o \in Live' : procs'[o].action <= action'
    BY <1>1, <1>2, <1>3, <1>6 DEF OInv, Begun, Live, runnerVars
  <2>. QED BY <1>5, <2>1 DEF Begun
<1>. QED BY <1>5, <1>7, <1>8 DEF OInv

LEMMA ExecOwn ==
  ASSUME TInv, OInv, NEW p \in Pids, ExecShim(p)
  PROVE  OInv'
<1> DEFINE shim == [procs[p] EXCEPT !.at = "opening", !.invocation = NextId]
<1>1. p \in Live /\ procs[p] \in Process
  BY ProcessTyped DEF ExecShim, Program, TInv
<1>2. /\ procs[p].action \in Actions /\ procs[p].awaited \in BOOLEAN
      /\ procs[p].action <= action /\ action \in Nat
  BY <1>1 DEF Process, OInv, Begun, TInv, TypeOK
<1>3. /\ Invoke(procs[p].action, p, procs[p].awaited) /\ UNCHANGED <<runnerVars, files>>
      /\ procs' = [procs EXCEPT ![p] = shim]
  BY DEF ExecShim
<1>4. /\ NextId \in Ids
      /\ DOMAIN invocations = 1 .. Len(invocations) /\ NextId = Len(invocations) + 1
      /\ Len(invocations) \in Nat
      /\ DOMAIN invocations' = 1 .. NextId
      /\ \A i \in DOMAIN invocations : invocations'[i] = invocations[i]
      /\ invocations'[NextId] = [action |-> procs[p].action, pid |-> p, awaited |-> procs[p].awaited,
                                 event |-> "due", target |-> "due"]
  BY <1>2, <1>3, InvocationAdded DEF TInv
<1>5. /\ Grown /\ EventsAreOwn' /\ FilesOwn'
      /\ \A i \in DOMAIN invocations' : invocations'[i].action <= action'
  BY <1>2, <1>3, InvocationGrows
<1>6. /\ shim.action = procs[p].action /\ shim.awaited = procs[p].awaited
      /\ shim.invocation = NextId
  BY <1>1 DEF Process
<1>. HIDE DEF shim
<1>7. /\ procs'[p] = shim /\ \A o \in Pids \ {p} : procs'[o] = procs[o]
      /\ Live' \subseteq Live
  BY <1>1, <1>3 DEF TInv, TypeOK, Live
<1>8. LinkedInv'
  <2> SUFFICES ASSUME NEW o \in Live', procs'[o].invocation # None PROVE Linked(o)'
    BY DEF LinkedInv
  <2>1. CASE o = p
    BY <1>4, <1>6, <1>7, <2>1 DEF Linked
  <2>2. CASE o # p
    <3>1. o \in Live /\ procs'[o] = procs[o] /\ Linked(o)
      BY <1>7, <2>2 DEF Live, OInv, LinkedInv
    <3>. QED BY <1>4, <2>2, <3>1 DEF Linked
  <2>. QED BY <2>1, <2>2
<1>9. Begun'
  <2>1. \A o \in Live' : procs'[o].action <= action'
    BY <1>2, <1>3, <1>6, <1>7 DEF OInv, Begun, Live, runnerVars
  <2>. QED BY <1>5, <2>1 DEF Begun
<1>. QED BY <1>5, <1>8, <1>9 DEF OInv

\* A step after which every process is as it was, except that `p` stands elsewhere and is
\* not before its event, and every invocation is, except for events of this process.
LEMMA StepKeepsLinks ==
  ASSUME TInv, OInv, UNCHANGED runnerVars, Grown, DOMAIN invocations' = DOMAIN invocations,
         Live' \subseteq Live,
         \A q \in Live' : /\ procs'[q].action = procs[q].action
                          /\ procs'[q].awaited = procs[q].awaited
                          /\ procs'[q].invocation = procs[q].invocation
                          /\ \/ procs'[q].at = procs[q].at
                             \/ procs'[q].at \in {"handover", "program"}
                             \/ procs[q].at = "opening",
         \A i \in DOMAIN invocations :
           \/ invocations'[i].event = invocations[i].event
           \/ \E p \in Live' : i = procs[p].invocation /\ procs'[p].at = "handover"
  PROVE  LinkedInv' /\ Begun'
<1>1. ASSUME NEW q \in Live', procs'[q].invocation # None PROVE Linked(q)'
  <2>1. q \in Live /\ procs'[q].invocation = procs[q].invocation /\ Linked(q)
    BY <1>1 DEF OInv, LinkedInv
  <2> DEFINE i == procs[q].invocation
  <2>2. i \in DOMAIN invocations /\ invocations[i].pid = q
    BY <2>1 DEF Linked
  <2>3. ASSUME procs'[q].at \in {"opening", "writing"} PROVE invocations'[i].event = "due"
    <3>1. procs[q].at \in {"opening", "writing"}
      BY <1>1, <2>3
    <3>2. invocations[i].event = "due"
      BY <2>1, <3>1 DEF Linked
    <3>3. ASSUME NEW p \in Live', i = procs[p].invocation, procs'[p].at = "handover" PROVE FALSE
      <4>1. p \in Live /\ procs[p].invocation # None
        BY <1>1, <2>1, <3>3
      <4>2. invocations[i].pid = p
        BY <3>3, <4>1 DEF OInv, LinkedInv, Linked
      <4>. QED BY <2>2, <2>3, <3>3, <4>2
    <3>. QED BY <2>2, <3>2, <3>3
  <2>4. \A j \in DOMAIN invocations' : invocations'[j].pid = q => j <= i
    BY <2>1 DEF Linked, Grown
  <2>. QED BY <1>1, <2>1, <2>2, <2>3, <2>4 DEF Linked, Grown
<1>2. Begun'
  BY DEF OInv, Begun, Grown, runnerVars
<1>. QED BY <1>1, <1>2 DEF LinkedInv

\* A stage of the wrapper that reports what became of the event.
LEMMA ReportOwn ==
  ASSUME TInv, OInv, NEW p \in Live, NEW event \in {"written", "refused", "unset"},
         Record(p, event), Goto(p, "handover"), UNCHANGED runnerVars
  PROVE  /\ LinkedInv' /\ Begun' /\ EventsAreOwn' /\ Grown
         /\ procs[p].invocation # None => procs[p].invocation \in InvokedIn(procs[p].action)
<1>1. TypeOK /\ p \in Pids /\ \A q \in Live : procs[q] \in Process
  BY ProcessTyped DEF TInv, Live
<1>2. /\ Live' = Live /\ procs'[p] = [procs[p] EXCEPT !.at = "handover"]
      /\ procs'[p].at = "handover" /\ \A q \in Live : q # p => procs'[q] = procs[q]
  BY <1>1, StageTyped
<1>3. /\ procs'[p].action = procs[p].action /\ procs'[p].awaited = procs[p].awaited
      /\ procs'[p].invocation = procs[p].invocation
  BY <1>1, <1>2 DEF Process
<1>4. /\ DOMAIN invocations' = DOMAIN invocations
      /\ Grown
      /\ \A i \in DOMAIN invocations :
           invocations'[i].event = IF i = procs[p].invocation THEN event ELSE invocations[i].event
  BY <1>1, Recorded DEF Grown
<1>5. LinkedInv' /\ Begun'
  BY <1>2, <1>3, <1>4, StepKeepsLinks
<1>6. procs[p].invocation # None => procs[p].invocation \in InvokedIn(procs[p].action)
  BY DEF OInv, LinkedInv, Linked, InvokedIn
<1>. QED BY <1>4, <1>5, <1>6, GrowthKeepsOwn

LEMMA FilesStayOwn ==
  ASSUME TInv, OInv, Grown, UNCHANGED <<runnerVars, files>>
  PROVE  FilesOwn'
BY GrowthKeepsOwn DEF OInv, FilesOwn

LEMMA NextKeepsOwn == TInv /\ OInv /\ [Next]_vars => OInv'
<1> SUFFICES ASSUME TInv, OInv, [Next]_vars PROVE OInv'
  OBVIOUS
<1>0. /\ TypeOK /\ Progress /\ Serving
      /\ LinkedInv /\ Begun /\ FilesOwn /\ EventsAreOwn
  BY DEF TInv, OInv
<1>1. ASSUME NEW p \in Pids, StartAction(p) PROVE OInv'
  <2> DEFINE shell == [action |-> action + 1, root |-> TRUE, piped |-> TRUE, awaited |-> TRUE,
                       sees |-> TRUE, waitedBy |-> None, at |-> "program", invocation |-> None]
  <2>1. /\ procs' = [procs EXCEPT ![p] = shell] /\ action' = action + 1 /\ action \in Nat
        /\ UNCHANGED <<events, results, files, invocations>> /\ events = {}
    BY <1>0, <1>1 DEF StartAction, Progress, Busy, TypeOK
  <2>2. procs'[p] = shell /\ \A q \in Pids \ {p} : procs'[q] = procs[q]
    BY <1>0, <2>1 DEF TypeOK
  <2>3. \A q \in Live' : q = p \/ (q \in Live /\ procs'[q] = procs[q])
    BY <2>2 DEF Live
  <2>4. LinkedInv'
    <3> SUFFICES ASSUME NEW q \in Live', procs'[q].invocation # None PROVE Linked(q)'
      BY DEF LinkedInv
    <3>1. q \in Live /\ procs'[q] = procs[q]
      BY <2>2, <2>3
    <3>. QED BY <1>0, <2>1, <3>1 DEF LinkedInv, Linked
  <2>5. Begun'
    <3>1. \A q \in Live : procs[q].action \in Nat
      BY <1>0, ProcessTyped DEF Process, Actions
    <3>2. \A i \in DOMAIN invocations : invocations[i].action \in Nat
      <4>1. \A i \in DOMAIN invocations : invocations[i] \in Invocation
        BY <1>0 DEF TypeOK
      <4>. QED BY <4>1 DEF Invocation, Actions
    <3>. QED BY <1>0, <2>1, <2>2, <2>3, <3>1, <3>2 DEF Begun
  <2>6. FilesOwn' /\ EventsAreOwn'
    BY <1>0, <2>1 DEF FilesOwn, EventsAreOwn, InvokedIn, Finished
  <2>. QED BY <2>4, <2>5, <2>6 DEF OInv
<1>2. CASE CannotStart \/ NoMoreActions \/ StartReading \/ \E p \in Pids : SeeLateEntry(p)
  <2>1. UNCHANGED <<action, procs, invocations, files, events, results>>
    BY <1>2 DEF CannotStart, NoMoreActions, StartReading, SeeLateEntry
  <2>2. FilesOwn' /\ EventsAreOwn'
    BY <1>0, <2>1 DEF FilesOwn, EventsAreOwn, InvokedIn, Finished
  <2>. QED BY <2>1, <2>2, RunnerKeepsLinks DEF OInv
<1>3. ASSUME NEW p \in Pids, NEW readable \in BOOLEAN, ReadEntry(p, readable) PROVE OInv'
  <2>1. action \in Actions /\ files[action][p] # None /\ files[action][p] \in {None, Torn} \cup Ids
    BY <1>0, <1>3 DEF ReadEntry, TypeOK, Progress, Busy
  <2>2. /\ UNCHANGED <<action, procs, invocations, files, results>>
        /\ events' = events \/ (files[action][p] # Torn /\ events' = events \cup {files[action][p]})
    BY <1>3 DEF ReadEntry, EventDir
  <2>3. FilesOwn' /\ EventsAreOwn'
    BY <1>0, <2>1, <2>2 DEF FilesOwn, EventsAreOwn, InvokedIn, Finished
  <2>. QED BY <2>2, <2>3, RunnerKeepsLinks DEF OInv
<1>4. CASE FinishReading
  <2> DEFINE found == [events |-> events, warnings |-> warnings]
  <2>1. found \in Result /\ Busy /\ found.events \subseteq InvokedIn(action)
    BY <1>0, <1>4 DEF FinishReading, TypeOK, Result, Busy, EventsAreOwn
  <2>. QED BY <1>4, <2>1, HandOverOwn DEF FinishReading
<1>5. CASE DirectoryUnreadable
  <2> DEFINE found == [events |-> {}, warnings |-> Pids]
  <2>1. found \in Result /\ Busy /\ found.events \subseteq InvokedIn(action)
    BY <1>5 DEF DirectoryUnreadable, Result, Busy
  <2>. QED BY <1>5, <2>1, HandOverOwn DEF DirectoryUnreadable
<1>6. ASSUME NEW p \in Pids, NEW q \in Pids, NEW piped \in BOOLEAN, NEW foreground \in BOOLEAN,
             NEW sees \in BOOLEAN, ForkShim(p, q, piped, foreground, sees)
      PROVE  OInv'
  BY <1>6, ForkOwn
<1>7. ASSUME NEW p \in Pids, ExecShim(p) PROVE OInv'
  BY <1>7, ExecOwn
<1>8. ASSUME NEW p \in Pids, Exit(p) PROVE OInv'
  <2>1. /\ UNCHANGED <<runnerVars, files, invocations>>
        /\ \A q \in Live' : q \in Live /\ procs'[q] = procs[q]
    BY <1>0, <1>8 DEF Exit, TypeOK, Live
  <2>2. Grown
    BY <2>1 DEF Grown
  <2>3. LinkedInv' /\ Begun'
    BY <2>1, <2>2, StepKeepsLinks
  <2>. QED BY <2>1, <2>2, <2>3, FilesStayOwn, GrowthKeepsOwn DEF OInv
<1>9. ASSUME NEW p \in Pids, Kill(p) PROVE OInv'
  <2>1. UNCHANGED <<runnerVars, files>>
    BY <1>9 DEF Kill
  <2>2. /\ Grown /\ DOMAIN invocations' = DOMAIN invocations
        /\ \A i \in DOMAIN invocations : invocations'[i].event = invocations[i].event
    BY <1>0, <1>9, KillMarks DEF Grown
  <2>3. /\ Live' \subseteq Live
        /\ \A q \in Live' : /\ procs'[q].action = procs[q].action
                            /\ procs'[q].awaited = procs[q].awaited
                            /\ procs'[q].invocation = procs[q].invocation
                            /\ procs'[q].at = procs[q].at
    BY <1>0, <1>9, KillLeaves
  <2>4. LinkedInv' /\ Begun'
    BY <2>1, <2>2, <2>3, StepKeepsLinks
  <2>. QED BY <2>1, <2>2, <2>4, FilesStayOwn, GrowthKeepsOwn DEF OInv
<1>10. ASSUME NEW p \in Pids, SkipEvent(p) \/ EventRefused(p) PROVE OInv'
  <2>1. p \in Live /\ Goto(p, "handover") /\ UNCHANGED <<runnerVars, files>>
    BY <1>10 DEF SkipEvent, EventRefused, InWrapper
  <2>2. \E event \in {"written", "refused", "unset"} : Record(p, event)
    BY <1>10 DEF SkipEvent, EventRefused
  <2>3. LinkedInv' /\ Begun' /\ EventsAreOwn' /\ Grown
    BY <2>1, <2>2, ReportOwn
  <2>. QED BY <2>1, <2>3, FilesStayOwn DEF OInv
<1>11. ASSUME NEW p \in Pids, OpenEvent(p) PROVE OInv'
  <2>1. /\ p \in Live /\ procs[p] \in Process /\ procs[p].at = "opening"
        /\ \A q \in Live : procs[q] \in Process
    BY <1>0, <1>11, ProcessTyped DEF OpenEvent, InWrapper
  <2>2. /\ files' = [files EXCEPT ![procs[p].action][p] = Torn]
        /\ UNCHANGED <<runnerVars, invocations>>
    BY <1>11 DEF OpenEvent, SetFile, DirOf, EventDir
  <2>3. /\ Live' = Live /\ procs'[p] = [procs[p] EXCEPT !.at = "writing"]
        /\ \A q \in Live : q # p => procs'[q] = procs[q]
    BY <1>0, <1>11, <2>1, StageTyped DEF OpenEvent
  <2>4. Grown
    BY <2>2 DEF Grown
  <2>5. /\ procs'[p].action = procs[p].action /\ procs'[p].awaited = procs[p].awaited
        /\ procs'[p].invocation = procs[p].invocation
    BY <2>1, <2>3 DEF Process
  <2>6. LinkedInv' /\ Begun'
    BY <2>1, <2>2, <2>3, <2>4, <2>5, StepKeepsLinks
  <2>7. FilesOwn'
    <3>1. Torn \notin Ids
      BY DEF Torn, Ids
    <3>2. \A a \in Actions : \A q \in Pids : files'[a][q] = files[a][q] \/ files'[a][q] = Torn
      BY <1>0, <2>2 DEF TypeOK
    <3>. QED BY <1>0, <2>2, <3>1, <3>2 DEF FilesOwn, InvokedIn
  <2>. QED BY <2>2, <2>4, <2>6, <2>7, GrowthKeepsOwn DEF OInv
<1>12. ASSUME NEW p \in Pids, WriteEvent(p) PROVE OInv'
  <2>1. /\ p \in Live /\ procs[p] \in Process /\ procs[p].invocation # None
    BY <1>0, <1>12, ProcessTyped DEF WriteEvent, InWrapper, Serving
  <2>2. Record(p, "written") /\ Goto(p, "handover") /\ UNCHANGED runnerVars
    BY <1>12 DEF WriteEvent
  <2>3. \/ UNCHANGED files
        \/ files' = [files EXCEPT ![procs[p].action][p] = procs[p].invocation]
    BY <1>12 DEF WriteEvent, SetFile, DirOf, EventDir
  <2>4. /\ LinkedInv' /\ Begun' /\ EventsAreOwn' /\ Grown
        /\ procs[p].invocation \in InvokedIn(procs[p].action)
    BY <2>1, <2>2, ReportOwn
  <2>5. FilesOwn'
    <3>1. \A a \in Actions : \A q \in Pids :
            files'[a][q] = files[a][q] \/ (a = procs[p].action /\ files'[a][q] = procs[p].invocation)
      BY <1>0, <2>3 DEF TypeOK
    <3>2. \A a \in Actions : InvokedIn(a) \subseteq InvokedIn(a)'
      BY <2>2, <2>4, GrowthKeepsOwn
    <3>. QED BY <1>0, <2>4, <3>1, <3>2 DEF FilesOwn
  <2>. QED BY <2>4, <2>5 DEF OInv
<1>13. ASSUME NEW p \in Pids, ExecTarget(p) PROVE OInv'
  <2>1. p \in Live /\ Goto(p, "program") /\ UNCHANGED <<runnerVars, files>>
    BY <1>13 DEF ExecTarget, InWrapper
  <2>2. /\ Live' = Live /\ procs'[p] = [procs[p] EXCEPT !.at = "program"]
        /\ procs'[p].at = "program"
        /\ \A q \in Live : q # p => procs'[q] = procs[q]
    BY <1>0, <2>1, StageTyped
  <2>3. /\ procs'[p].action = procs[p].action /\ procs'[p].awaited = procs[p].awaited
        /\ procs'[p].invocation = procs[p].invocation
    BY <1>0, <2>1, <2>2, ProcessTyped DEF Process
  <2>4. /\ Grown /\ DOMAIN invocations' = DOMAIN invocations
        /\ \A i \in DOMAIN invocations : invocations'[i].event = invocations[i].event
    BY <1>0, <1>13, ExecMarks DEF Grown
  <2>5. LinkedInv' /\ Begun'
    BY <2>1, <2>2, <2>3, <2>4, StepKeepsLinks
  <2>. QED BY <2>1, <2>4, <2>5, FilesStayOwn, GrowthKeepsOwn DEF OInv
<1>14. CASE UNCHANGED vars
  <2>1. UNCHANGED <<action, procs, invocations, files, events, results>>
    BY <1>14 DEF vars, runnerVars
  <2>2. FilesOwn' /\ EventsAreOwn'
    BY <1>0, <2>1 DEF FilesOwn, EventsAreOwn, InvokedIn, Finished
  <2>. QED BY <2>1, <2>2, RunnerKeepsLinks DEF OInv
<1>. QED
  BY <1>1, <1>2, <1>3, <1>4, <1>5, <1>6, <1>7, <1>8, <1>9, <1>10, <1>11, <1>12, <1>13, <1>14
  DEF Next, Collect, Wrapper, Over

LEMMA InitOwn == Init => OInv
BY NoneAssumption DEF Init, OInv, LinkedInv, Begun, FilesOwn, EventsAreOwn, Live, InvokedIn, Finished, Ids

(***************************************************************************)
(* Events are isolated per action (TempDir per action, executor.rs): a     *)
(* result, and what is being read for the next, names invocations of its   *)
(* own action only, however long processes of earlier actions live on.     *)
(***************************************************************************)
THEOREM EventsOwnTheorem == Spec => []EventsAreOwn
<1>1. OInv => EventsAreOwn
  BY DEF OInv
<1>. QED BY <1>1, InitOwn, NextKeepsOwn, TypeInvariant, PTL DEF Spec

-----------------------------------------------------------------------------
(* What keeps the runner waiting.                                          *)

Attached(p) == procs[p].awaited /\ procs[p].action \notin killed

\* `p` runs in the foreground of a program that is awaited itself and came first.
Held(p) ==
  LET q == procs[p].waitedBy
  IN /\ q \in Live /\ procs[q].at = "program"
     /\ procs[q].awaited /\ procs[q].action = procs[p].action
     /\ procs[q].invocation # None => procs[q].invocation < procs[p].invocation

Waits(p) ==
  /\ runner = "waiting" /\ procs[p].action = action
  /\ procs[p].root \/ procs[p].piped \/ Held(p)

WInv ==
  /\ \A p \in Live : procs[p].piped => procs[p].awaited
  /\ \A p \in Live : Attached(p) => Waits(p)

LEMMA LeastNumber ==
  ASSUME NEW S \in SUBSET Nat, S # {}
  PROVE  \E least \in S : \A k \in S : least <= k
<1>1. PICK least \in S : \A k \in S : <<k, least>> \notin OpToRel(<, Nat)
  BY NatLessThanWellFounded, WFMin
<1>2. \A k \in S : least <= k
  <2> TAKE k \in S
  <2>1. <<k, least>> \in Nat \X Nat
    OBVIOUS
  <2>2. ~(k < least)
    BY <1>1, <2>1 DEF OpToRel
  <2>. QED BY <2>2
<1>. QED BY <1>2

\* When the shell has ended and nobody holds its pipes, nothing that is awaited is left: of
\* the awaited processes, the one with the earliest invocation would be in the foreground of
\* one with an earlier invocation still.
LEMMA NoneAttached ==
  ASSUME TInv, WInv, OutputReturns
  PROVE  \A p \in Live : ~Attached(p)
<1> SUFFICES ASSUME NEW p \in Live, Attached(p) PROVE FALSE
  OBVIOUS
<1> DEFINE Left == {q \in Live : Attached(q)}
           S == {procs[q].invocation : q \in Left}
<1>1. \A q \in Left : /\ Held(q) /\ procs[q].invocation \in Nat /\ procs[q].invocation # None
                     /\ procs[q].waitedBy \in Left
  <2> TAKE q \in Left
  <2>1. q \in Live /\ Attached(q) /\ Waits(q) /\ ~procs[q].root /\ ~procs[q].piped
    BY DEF WInv, Waits, OutputReturns, Here
  <2>2. Held(q)
    BY <2>1 DEF Waits
  <2>3. procs[q].waitedBy \in Left
    BY <2>1, <2>2 DEF Held, Attached
  <2>4. procs[q].invocation # None
    BY <2>1 DEF TInv, Serving
  <2>5. procs[q].invocation \in Nat
    BY <2>1, <2>4, ProcessTyped DEF TInv, Process, Ids
  <2>. QED BY <2>2, <2>3, <2>4, <2>5
<1>2. S \in SUBSET Nat /\ S # {}
  BY <1>1
<1>3. PICK least \in S : \A k \in S : least <= k
  BY <1>2, LeastNumber
<1>4. PICK q \in Left : least = procs[q].invocation
  BY <1>3
<1> DEFINE w == procs[q].waitedBy
<1>5. w \in Left /\ procs[w].invocation \in S /\ procs[w].invocation # None
  BY <1>1, <1>4
<1>6. procs[w].invocation < least
  BY <1>1, <1>4, <1>5 DEF Held
<1>7. least \in Nat /\ procs[w].invocation \in Nat /\ least <= procs[w].invocation
  BY <1>2, <1>3, <1>5
<1>. HIDE DEF w
<1>. QED BY <1>6, <1>7

\* A step of the runner while nothing is attached.
LEMMA LooseKeepsWaits ==
  ASSUME WInv, \A p \in Live : ~Attached(p), UNCHANGED <<procs, killed>>
  PROVE  WInv'
BY DEF WInv, Attached, Live

\* The new process waits for no one, and whoever waits for its parent stays.
LEMMA ForkWaits ==
  ASSUME TInv, OInv, WInv, NEW p \in Pids, NEW q \in Pids, NEW piped \in BOOLEAN,
         NEW foreground \in BOOLEAN, NEW sees \in BOOLEAN, ForkShim(p, q, piped, foreground, sees)
  PROVE  WInv'
<1> DEFINE awaited == piped \/ (foreground /\ procs[p].awaited)
           child == [action |-> procs[p].action, root |-> FALSE, piped |-> piped,
                     awaited |-> awaited, sees |-> sees,
                     waitedBy |-> IF foreground THEN p ELSE None,
                     at |-> "opening", invocation |-> NextId]
<1>1. p \in Live /\ procs[p].at = "program" /\ q \notin Live /\ (piped => procs[p].piped)
  BY DEF ForkShim, Program
<1>2. procs' = [procs EXCEPT ![q] = child] /\ UNCHANGED <<runner, action, killed>>
  BY DEF ForkShim, runnerVars
<1>3. /\ procs'[q] = child /\ \A o \in Live : procs'[o] = procs[o]
      /\ Live' = Live \cup {q}
  <2>1. child # None
    <3>1. TypeOK /\ procs[p] \in Process
      BY <1>1, ProcessTyped DEF TInv
    <3>2. procs[p].action \in Actions /\ awaited \in BOOLEAN /\ NextId \in Ids
      BY <3>1 DEF Process, ForkShim, Invoke
    <3>3. child \in Process
      BY <3>2 DEF Process
    <3>. QED BY <3>3, ProcessAssumption
  <2>2. procs \in [Pids -> Process \cup {None}] /\ p # q
    BY <1>1 DEF TInv, TypeOK
  <2>. HIDE DEF child
  <2>. QED BY <1>1, <1>2, <2>1, <2>2 DEF Live
<1>4. procs[p].invocation # None => procs[p].invocation < NextId
  <2>1. Len(invocations) \in Nat /\ DOMAIN invocations = 1 .. Len(invocations)
    BY DEF TInv, TypeOK
  <2>. QED BY <1>1, <2>1 DEF OInv, LinkedInv, Linked, NextId
<1>5. ASSUME Attached(q)' PROVE Waits(q)'
  <2>1. awaited /\ procs[p].action \notin killed
    BY <1>2, <1>3, <1>5 DEF Attached
  <2>2. Attached(p) /\ Waits(p)
    BY <1>1, <2>1 DEF WInv, Attached
  <2>3. p \in Live' /\ procs'[p] = procs[p]
    BY <1>1, <1>3
  <2>4. CASE piped
    BY <1>2, <1>3, <2>2, <2>4 DEF Waits
  <2>5. CASE ~piped
    <3>1. foreground /\ procs'[q].waitedBy = p
      BY <1>3, <2>1, <2>5
    <3>2. Held(q)'
      BY <1>1, <1>3, <1>4, <2>2, <2>3, <3>1 DEF Held, Attached
    <3>. QED BY <1>2, <1>3, <2>2, <3>2 DEF Waits
  <2>. QED BY <2>4, <2>5
<1>6. \A o \in Live' : procs'[o].piped => procs'[o].awaited
  BY <1>3 DEF WInv
<1>. HIDE DEF child
<1>7. ASSUME NEW o \in Live, Attached(o)' PROVE Waits(o)'
  <2>1. procs'[o] = procs[o] /\ Attached(o) /\ Waits(o)
    BY <1>2, <1>3, <1>7 DEF WInv, Attached
  <2>2. Held(o) => Held(o)'
    BY <1>3, <2>1 DEF Held
  <2>. QED BY <1>2, <2>1, <2>2 DEF Waits
<1>. QED BY <1>3, <1>5, <1>6, <1>7 DEF WInv

\* A step in which process `p`, which nobody in the foreground holds up, moves on.
LEMMA MoveWaits ==
  ASSUME TInv, WInv, NEW p \in Live, UNCHANGED <<runner, action, killed>>,
         Live' = Live, \A o \in Live : o # p => procs'[o] = procs[o],
         procs'[p].action = procs[p].action, procs'[p].root = procs[p].root,
         procs'[p].piped = procs[p].piped, procs'[p].awaited = procs[p].awaited,
         procs'[p].waitedBy = procs[p].waitedBy,
         procs[p].invocation \in Nat => procs'[p].invocation \in Nat /\ procs[p].invocation <= procs'[p].invocation,
         procs[p].invocation \notin Nat => procs[p].root,
         procs[p].at # "program" \/ ~Blocked(p)
  PROVE  WInv'
<1>1. ASSUME NEW o \in Live, Attached(o)' PROVE Waits(o)'
  <2>1. Attached(o) /\ Waits(o)
    BY <1>1 DEF WInv, Attached
  <2>2. ASSUME Held(o), ~procs[o].root PROVE Held(o)'
    <3> DEFINE w == procs[o].waitedBy
    <3>1. w \in Live /\ procs[w].at = "program" /\ procs'[o].waitedBy = w
      BY <2>2 DEF Held
    <3>2. w # p
      BY <3>1 DEF Blocked
    <3>3. procs'[w] = procs[w]
      BY <3>1, <3>2
    <3>4. procs[w].invocation # None => procs[w].invocation < procs'[o].invocation
      <4>1. CASE o = p
        <5>1. procs[w].invocation # None => procs[w].invocation \in Nat
          BY <3>1, ProcessTyped DEF TInv, Process, Ids
        <5>. QED BY <2>2, <4>1, <5>1 DEF Held
      <4>2. CASE o # p
        BY <2>2, <4>2 DEF Held
      <4>. QED BY <4>1, <4>2
    <3>. QED BY <2>2, <3>1, <3>3, <3>4 DEF Held
  <2>. QED BY <2>1, <2>2 DEF Waits
<1>. QED BY <1>1 DEF WInv

LEMMA NextKeepsWaits == TInv /\ OInv /\ WInv /\ [Next]_vars => WInv'
<1> SUFFICES ASSUME TInv, OInv, WInv, [Next]_vars PROVE WInv'
  OBVIOUS
<1>0. TypeOK /\ Serving /\ procs \in [Pids -> Process \cup {None}]
  BY DEF TInv, TypeOK
<1>l. runner # "waiting" => \A p \in Live : ~Attached(p)
  BY DEF WInv, Waits
<1>1. ASSUME NEW p \in Pids, StartAction(p) PROVE WInv'
  <2> DEFINE shell == [action |-> action + 1, root |-> TRUE, piped |-> TRUE, awaited |-> TRUE,
                       sees |-> TRUE, waitedBy |-> None, at |-> "program", invocation |-> None]
  <2>1. /\ procs' = [procs EXCEPT ![p] = shell] /\ action' = action + 1
        /\ runner = "idle" /\ runner' = "waiting" /\ UNCHANGED killed
    BY <1>1 DEF StartAction
  <2>2. /\ procs'[p] = shell
        /\ \A q \in Live' : q = p \/ (q \in Live /\ procs'[q] = procs[q])
    BY <1>0, <2>1 DEF Live
  <2>3. Waits(p)'
    BY <2>1, <2>2 DEF Waits
  <2>4. \A q \in Live' : q # p => ~Attached(q)'
    BY <1>l, <2>1, <2>2 DEF Attached
  <2>5. \A q \in Live' : procs'[q].piped => procs'[q].awaited
    BY <2>2 DEF WInv
  <2>. QED BY <2>3, <2>4, <2>5 DEF WInv
<1>2. CASE CannotStart \/ NoMoreActions \/ (\E p \in Pids : SeeLateEntry(p)) \/ FinishReading
           \/ (\E p \in Pids, readable \in BOOLEAN : ReadEntry(p, readable))
  <2>1. runner # "waiting" /\ UNCHANGED <<procs, killed>>
    BY <1>2 DEF CannotStart, NoMoreActions, SeeLateEntry, FinishReading, ReadEntry, HandOver
  <2>. QED BY <1>l, <2>1, LooseKeepsWaits
<1>3. CASE StartReading \/ DirectoryUnreadable
  <2>1. OutputReturns /\ UNCHANGED <<procs, killed>>
    BY <1>3 DEF StartReading, DirectoryUnreadable, HandOver
  <2>. QED BY <2>1, NoneAttached, LooseKeepsWaits
<1>4. ASSUME NEW p \in Pids, NEW q \in Pids, NEW piped \in BOOLEAN, NEW foreground \in BOOLEAN,
             NEW sees \in BOOLEAN, ForkShim(p, q, piped, foreground, sees)
      PROVE  WInv'
  BY <1>4, ForkWaits
<1>5. ASSUME NEW p \in Pids, ExecShim(p) PROVE WInv'
  <2> DEFINE shim == [procs[p] EXCEPT !.at = "opening", !.invocation = NextId]
  <2>1. p \in Live /\ procs[p] \in Process /\ ~Blocked(p) /\ procs' = [procs EXCEPT ![p] = shim]
        /\ UNCHANGED <<runner, action, killed>>
    BY <1>5, ProcessTyped, <1>0 DEF ExecShim, Program, runnerVars
  <2>2. /\ shim.action = procs[p].action /\ shim.root = procs[p].root
        /\ shim.piped = procs[p].piped /\ shim.awaited = procs[p].awaited
        /\ shim.waitedBy = procs[p].waitedBy /\ shim.invocation = NextId
    BY <2>1 DEF Process
  <2>3. /\ Len(invocations) \in Nat /\ NextId \in Ids /\ NextId \in Nat
        /\ DOMAIN invocations = 1 .. Len(invocations)
    BY <1>0, <1>5 DEF ExecShim, Invoke, TypeOK, Ids
  <2>4. shim \in Process
    BY <2>1, <2>3 DEF Process
  <2>. HIDE DEF shim
  <2>5. procs'[p] = shim /\ Live' = Live /\ \A o \in Live : o # p => procs'[o] = procs[o]
    BY <1>0, <2>1, <2>4, ProcessAssumption DEF Live
  <2>6. /\ procs[p].invocation \in Nat => procs[p].invocation <= NextId
        /\ procs[p].invocation \notin Nat => procs[p].root
    BY <1>0, <2>1, <2>3, NoneAssumption DEF OInv, LinkedInv, Linked, Serving, Process, Ids, NextId
  <2>. QED BY <2>1, <2>2, <2>3, <2>5, <2>6, MoveWaits
<1>6. ASSUME NEW p \in Pids, Exit(p) PROVE WInv'
  <2>1. /\ ~Blocked(p) /\ UNCHANGED <<runner, action, killed>>
        /\ Live' = Live \ {p} /\ \A o \in Live' : procs'[o] = procs[o]
    BY <1>0, <1>6 DEF Exit, Program, runnerVars, Live
  <2>2. \A o \in Live' : o \in Live /\ procs[o].waitedBy # p
    BY <2>1 DEF Blocked
  <2>. QED BY <2>1, <2>2 DEF WInv, Attached, Waits, Held
<1>7. ASSUME NEW p \in Pids, Kill(p) PROVE WInv'
  <2>1. UNCHANGED <<runner, action>> /\ killed' = killed \cup {procs[p].action}
    BY <1>7 DEF Kill, runnerVars
  <2>2. ASSUME NEW o \in Live', Attached(o)' PROVE Waits(o)'
    <3>1. /\ o \in Live /\ procs'[o].action = procs[o].action
          /\ procs'[o].root = procs[o].root /\ procs'[o].piped = procs[o].piped
          /\ procs'[o].awaited = procs[o].awaited /\ procs'[o].invocation = procs[o].invocation
          /\ procs[o].waitedBy # p => procs'[o].waitedBy = procs[o].waitedBy
      BY <1>0, <1>7, KillLeaves
    <3>2. Attached(o) /\ Waits(o) /\ procs[o].action # procs[p].action
      BY <2>1, <2>2, <3>1 DEF WInv, Attached
    <3>3. ASSUME Held(o) PROVE Held(o)'
      <4> DEFINE w == procs[o].waitedBy
      <4>1. w \in Live /\ w # p
        BY <3>2, <3>3 DEF Held
      <4>2. /\ w \in Live' /\ procs'[w].action = procs[w].action /\ procs'[w].at = procs[w].at
            /\ procs'[w].awaited = procs[w].awaited /\ procs'[w].invocation = procs[w].invocation
        BY <1>0, <1>7, <4>1, KillLeaves
      <4>. QED BY <3>1, <3>3, <4>1, <4>2 DEF Held
    <3>. QED BY <2>1, <3>1, <3>2, <3>3 DEF Waits
  <2>3. \A o \in Live' : procs'[o].piped => procs'[o].awaited
    BY <1>0, <1>7, KillLeaves DEF WInv
  <2>. QED BY <2>2, <2>3 DEF WInv
<1>8. ASSUME NEW p \in Pids, Wrapper(p) PROVE WInv'
  <2>1. /\ p \in Live /\ procs[p].at # "program" /\ procs[p] \in Process
        /\ UNCHANGED <<runner, action, killed>>
    BY <1>0, <1>8, ProcessTyped
    DEF Wrapper, SkipEvent, OpenEvent, WriteEvent, EventRefused, ExecTarget, InWrapper, runnerVars
  <2>2. PICK stage \in {"program", "opening", "writing", "handover"} : Goto(p, stage)
    BY <1>8 DEF Wrapper, SkipEvent, OpenEvent, WriteEvent, EventRefused, ExecTarget
  <2>3. /\ Live' = Live /\ procs'[p] = [procs[p] EXCEPT !.at = stage]
        /\ \A o \in Live : o # p => procs'[o] = procs[o]
    BY <1>0, <2>1, <2>2, StageTyped
  <2>4. /\ procs'[p].action = procs[p].action /\ procs'[p].root = procs[p].root
        /\ procs'[p].piped = procs[p].piped /\ procs'[p].awaited = procs[p].awaited
        /\ procs'[p].waitedBy = procs[p].waitedBy /\ procs'[p].invocation = procs[p].invocation
    BY <2>1, <2>3 DEF Process
  <2>5. procs[p].invocation \in Nat
    BY <1>0, <2>1 DEF Serving, Process, Ids
  <2>6. procs[p].invocation <= procs'[p].invocation /\ procs'[p].invocation \in Nat
    BY <2>4, <2>5
  <2>. QED BY <2>1, <2>3, <2>4, <2>5, <2>6, MoveWaits
<1>9. CASE UNCHANGED vars
  BY <1>9 DEF vars, runnerVars, WInv, Attached, Waits, Held, Live
<1>. QED
  BY <1>1, <1>2, <1>3, <1>4, <1>5, <1>6, <1>7, <1>8, <1>9 DEF Next, Collect, Over

LEMMA InitWaits == Init => WInv
BY DEF Init, WInv, Live

LEMMA WaitInvariant == Spec => [](TInv /\ OInv /\ WInv)
BY InitTyped, InitOwn, InitWaits, NextKeepsType, NextKeepsOwn, NextKeepsWaits, PTL DEF Spec

-----------------------------------------------------------------------------
(* Nothing that was waited for is lost.                                    *)

Waited(i) == invocations[i].awaited /\ invocations[i].action \notin killed

\* An event that is still due has its process before it.
InFlight(i) ==
  invocations[i].event = "due" =>
    LET p == invocations[i].pid
    IN p \in Live /\ procs[p].invocation = i /\ procs[p].at \in {"opening", "writing"}

\* An event that was written is in its file, unless a later invocation took the file.
Filed(i) ==
  invocations[i].event = "written" =>
    Overwritten(i) \/ files[invocations[i].action][invocations[i].pid] = i

\* While the directory is read, it is still to be read, was read, or is warned about.
Found(i) ==
  invocations[i].event = "written" =>
    Overwritten(i) \/ invocations[i].pid \in unread \/ i \in events \/ invocations[i].pid \in warnings

KeptInv == Busy => \A i \in InvokedIn(action) : Waited(i) => InFlight(i) /\ Filed(i)
FoundInv == runner = "reading" => \A i \in InvokedIn(action) : Waited(i) => Found(i)

\* A file that a process of the current action is writing is not taken away from it.
DraftInv ==
  Busy => \A p \in Live : (procs[p].at = "writing" /\ procs[p].action = action)
                            => files[action][p] # None

CInv == KeptInv /\ FoundInv /\ DraftInv /\ AwaitedEventsCollected
BaseInv == TInv /\ OInv /\ WInv

LEMMA OverwrittenStays ==
  ASSUME Grown, NEW i \in DOMAIN invocations, Overwritten(i)
  PROVE  Overwritten(i)'
BY DEF Grown, Overwritten

\* An invocation that is waited for and still has its process is of the current action,
\* and the runner waits.
LEMMA ServedIsCurrent ==
  ASSUME BaseInv, NEW p \in Live, procs[p].invocation # None, Waited(procs[p].invocation)
  PROVE  runner = "waiting" /\ procs[p].action = action
BY DEF BaseInv, OInv, LinkedInv, Linked, WInv, Attached, Waits, Waited

\* The directory of an action is dropped when everything waited for is in `found`.
LEMMA HandOverCollects ==
  ASSUME BaseInv, CInv, Busy, NEW found \in Result, HandOver(found),
         \A i \in InvokedIn(action) : Waited(i) =>
           \/ invocations[i].event \in {"refused", "unset"}
           \/ i \in found.events \/ invocations[i].pid \in found.warnings
           \/ Overwritten(i)
  PROVE  CInv'
<1>1. /\ results \in Seq(Result) /\ results' = Append(results, found)
      /\ Len(results) + 1 = action /\ action \in Actions
      /\ runner' = "idle" /\ UNCHANGED <<invocations, killed>>
  BY DEF BaseInv, TInv, TypeOK, Progress, HandOver, Actions
<1>2. /\ results'[action] = found
      /\ \A a \in DOMAIN results : results'[a] = results[a]
      /\ DOMAIN results' = DOMAIN results \cup {action}
  BY <1>1
<1>3. AwaitedEventsCollected'
  <2> SUFFICES ASSUME NEW a \in Finished' \ killed', NEW i \in InvokedIn(a)', invocations'[i].awaited
               PROVE  Accounted(i, a)' \/ Overwritten(i)'
    BY DEF AwaitedEventsCollected
  <2>0. i \in InvokedIn(a) /\ invocations[i].awaited /\ a \notin killed
        /\ (Overwritten(i) => Overwritten(i)')
    BY <1>1 DEF InvokedIn, Overwritten
  <2>1. CASE a = action
    <3>1. Waited(i)
      BY <2>0 DEF Waited, InvokedIn
    <3>. QED BY <1>1, <1>2, <2>0, <2>1, <3>1 DEF Accounted
  <2>2. CASE a # action
    <3>1. a \in DOMAIN results /\ results'[a] = results[a]
      BY <1>2, <2>2 DEF Finished
    <3>2. Accounted(i, a) \/ Overwritten(i)
      BY <2>0, <3>1 DEF CInv, AwaitedEventsCollected, Finished
    <3>. QED BY <1>1, <2>0, <3>1, <3>2 DEF Accounted
  <2>. QED BY <2>1, <2>2
<1>. QED BY <1>1, <1>3 DEF CInv, KeptInv, FoundInv, DraftInv, Busy

LEMMA ServedIsCurrentNext ==
  ASSUME BaseInv', NEW p \in Live', procs'[p].invocation # None, Waited(procs[p].invocation)'
  PROVE  runner' = "waiting" /\ procs'[p].action = action'
BY DEF BaseInv, OInv, LinkedInv, Linked, WInv, Attached, Waits, Waited

\* A new invocation: it is in flight, and no process had its number.
LEMMA InvocationCollects ==
  ASSUME BaseInv, BaseInv', CInv, NEW a \in Actions, NEW q \in Pids, NEW awaited \in BOOLEAN,
         NEW new, new = NextId, Invoke(a, q, awaited), UNCHANGED <<runnerVars, files, killed>>,
         q \in Live', procs'[q].invocation = new, procs'[q].action = a, procs'[q].at = "opening",
         q \notin Live \/ procs[q].at = "program",
         \A p \in Live' : p # q => p \in Live /\ procs'[p] = procs[p],
         Live \subseteq Live'
  PROVE  CInv'
<1>1. /\ new = Len(invocations) + 1 /\ Len(invocations) \in Nat
      /\ DOMAIN invocations = 1 .. Len(invocations)
      /\ DOMAIN invocations' = 1 .. new
      /\ new \in Ids
      /\ \A i \in DOMAIN invocations : invocations'[i] = invocations[i]
      /\ invocations'[new] =
           [action |-> a, pid |-> q, awaited |-> awaited, event |-> "due", target |-> "due"]
  BY InvocationAdded DEF BaseInv, TInv
<1>a. new \in DOMAIN invocations'
  BY <1>1
<1>2. /\ Grown
      /\ DOMAIN invocations' = DOMAIN invocations \cup {new}
  BY <1>1 DEF Grown
<1>3. UNCHANGED <<runner, action, unread, events, warnings, results, files, killed>>
  BY DEF runnerVars
<1>4. Waited(new)' => runner = "waiting" /\ a = action
  <2>1. procs'[q].invocation # None
    BY <1>1, NoneAssumption DEF Ids
  <2>2. BaseInv' /\ q \in Live' /\ procs'[q].invocation # None
    BY <2>1
  <2>3. Waited(new)' => runner' = "waiting" /\ procs'[q].action = action'
    BY <2>2, ServedIsCurrentNext DEF Waited
  <2>. QED BY <1>3, <2>3
<1>5. \A i \in DOMAIN invocations :
        /\ Waited(i)' <=> Waited(i)
        /\ InFlight(i) => InFlight(i)'
        /\ Filed(i) => Filed(i)'
        /\ Found(i) => Found(i)'
  <2> TAKE i \in DOMAIN invocations
  <2>1. invocations'[i] = invocations[i] /\ (Overwritten(i) => Overwritten(i)')
    BY <1>1, <1>2, OverwrittenStays
  <2>2. InFlight(i) => InFlight(i)'
    BY <2>1 DEF InFlight
  <2>. QED BY <1>3, <2>1, <2>2 DEF Waited, Filed, Found
<1>6. InFlight(new)' /\ Filed(new)' /\ Found(new)'
  BY <1>1 DEF InFlight, Filed, Found
<1>b. \A i \in InvokedIn(action)' :
        i = new \/ (i \in DOMAIN invocations /\ i \in InvokedIn(action))
  BY <1>2, <1>3 DEF InvokedIn, Grown
<1>c. KeptInv'
  <2> SUFFICES ASSUME Busy', NEW i \in InvokedIn(action)', Waited(i)' PROVE InFlight(i)' /\ Filed(i)'
    BY DEF KeptInv
  <2>1. CASE i = new
    BY <1>6, <2>1
  <2>2. CASE i # new
    <3>1. Busy /\ i \in DOMAIN invocations /\ i \in InvokedIn(action) /\ Waited(i)
      BY <1>3, <1>5, <1>b, <2>2 DEF Busy
    <3>2. InFlight(i) /\ Filed(i)
      BY <3>1 DEF CInv, KeptInv
    <3>. QED BY <1>5, <3>1, <3>2
  <2>. QED BY <2>1, <2>2
<1>d. FoundInv'
  <2> SUFFICES ASSUME runner' = "reading", NEW i \in InvokedIn(action)', Waited(i)' PROVE Found(i)'
    BY DEF FoundInv
  <2>1. CASE i = new
    BY <1>6, <2>1
  <2>2. CASE i # new
    <3>1. runner = "reading" /\ i \in DOMAIN invocations /\ i \in InvokedIn(action) /\ Waited(i)
      BY <1>3, <1>5, <1>b, <2>2
    <3>2. Found(i)
      BY <3>1 DEF CInv, FoundInv
    <3>. QED BY <1>5, <3>1, <3>2
  <2>. QED BY <2>1, <2>2
<1>7. KeptInv' /\ FoundInv'
  BY <1>c, <1>d
<1>8. DraftInv'
  BY <1>3 DEF CInv, DraftInv, Busy
<1>9. AwaitedEventsCollected'
  <2> SUFFICES ASSUME NEW b \in Finished' \ killed', NEW i \in InvokedIn(b)', invocations'[i].awaited
               PROVE  Accounted(i, b)' \/ Overwritten(i)'
    BY DEF AwaitedEventsCollected
  <2>1. i # new
    <3>1. b \in DOMAIN results
      BY <1>3 DEF Finished
    <3>2. Busy => b # action
      <4>1. results \in Seq(Result) /\ (Busy => Len(results) = action - 1 /\ action \in Nat)
        BY DEF BaseInv, TInv, TypeOK, Progress, Actions
      <4>. QED BY <3>1, <4>1
    <3>3. i = new => Waited(new)' /\ a = b
      BY <1>1 DEF Waited, InvokedIn
    <3>. QED BY <1>4, <3>2, <3>3 DEF Busy
  <2>2. i \in DOMAIN invocations /\ invocations'[i] = invocations[i] /\ i \in InvokedIn(b)
    BY <1>1, <1>2, <2>1 DEF InvokedIn
  <2>3. Accounted(i, b) \/ Overwritten(i)
    BY <1>3, <2>2 DEF CInv, AwaitedEventsCollected, Finished
  <2>. QED BY <1>2, <1>3, <2>2, <2>3, OverwrittenStays DEF Accounted
<1>. QED BY <1>7, <1>8, <1>9 DEF CInv

\* A step after which nothing is different for an invocation that is waited for, but perhaps
\* where its process stands.
LEMMA QuietCollects ==
  ASSUME BaseInv, CInv, UNCHANGED <<runnerVars, files>>, killed \subseteq killed',
         DOMAIN invocations' = DOMAIN invocations, Grown,
         \A i \in DOMAIN invocations : invocations'[i].event = invocations[i].event,
         \A i \in DOMAIN invocations : (Waited(i)' /\ InFlight(i)) => InFlight(i)',
         \A p \in Live' : /\ p \in Live /\ procs'[p].action = procs[p].action
                          /\ procs'[p].at = "writing" => procs[p].at = "writing"
  PROVE  CInv'
<1>1. UNCHANGED <<runner, action, unread, events, warnings, results>>
  BY DEF runnerVars
<1>2. \A i \in DOMAIN invocations :
        /\ Waited(i)' => Waited(i)
        /\ Overwritten(i) => Overwritten(i)'
        /\ invocations'[i].action = invocations[i].action
        /\ invocations'[i].pid = invocations[i].pid
  BY OverwrittenStays DEF Waited, Grown
<1>3. \A i \in DOMAIN invocations : (Filed(i) => Filed(i)') /\ (Found(i) => Found(i)')
  BY <1>1, <1>2 DEF Filed, Found
<1>4. KeptInv' /\ FoundInv'
  BY <1>1, <1>2, <1>3 DEF CInv, KeptInv, FoundInv, InvokedIn, Busy
<1>5. DraftInv'
  BY <1>1 DEF CInv, DraftInv, Busy
<1>6. AwaitedEventsCollected'
  <2> SUFFICES ASSUME NEW b \in Finished' \ killed', NEW i \in InvokedIn(b)', invocations'[i].awaited
               PROVE  Accounted(i, b)' \/ Overwritten(i)'
    BY DEF AwaitedEventsCollected
  <2>1. /\ i \in InvokedIn(b) /\ b \in Finished \ killed /\ invocations[i].awaited
        /\ i \in DOMAIN invocations
    BY <1>1, <1>2 DEF InvokedIn, Grown, Finished
  <2>. QED BY <1>1, <1>2, <2>1 DEF CInv, AwaitedEventsCollected, Accounted
<1>. QED BY <1>4, <1>5, <1>6 DEF CInv

\* The wrapper of process `p` is done with its event: its invocation is no longer due, and
\* the file of an event that was written holds it.
LEMMA RecordCollects ==
  ASSUME BaseInv, CInv, NEW p \in Live, procs[p].at \in {"opening", "writing"},
         NEW event \in {"written", "refused", "unset"}, Record(p, event), Goto(p, "handover"),
         UNCHANGED <<runnerVars, killed>>,
         \A a \in Actions : \A q \in Pids :
           files'[a][q] = files[a][q] \/ (q = p /\ a = procs[p].action /\ event = "written"),
         \A a \in Actions : \A q \in Pids : files[a][q] # None => files'[a][q] # None,
         (event = "written" /\ Busy /\ procs[p].action = action) => files'[action][p] = procs[p].invocation
  PROVE  CInv'
<1> DEFINE n == procs[p].invocation
<1>1. /\ TypeOK /\ p \in Pids /\ procs[p] \in Process /\ n # None
      /\ n \in DOMAIN invocations
      /\ invocations[n].pid = p /\ invocations[n].action = procs[p].action
      /\ invocations[n].event = "due"
      /\ \A j \in DOMAIN invocations : invocations[j].pid = p => j <= n
  BY ProcessTyped DEF BaseInv, TInv, Serving, OInv, LinkedInv, Linked, Live
<1>2. /\ DOMAIN invocations' = DOMAIN invocations /\ Grown
      /\ \A i \in DOMAIN invocations :
           invocations'[i].event = IF i = n THEN event ELSE invocations[i].event
      /\ DOMAIN invocations \subseteq Nat
  BY <1>1, Recorded DEF Grown, TypeOK
<1>3. /\ Live' = Live /\ procs'[p] = [procs[p] EXCEPT !.at = "handover"]
      /\ procs'[p].at = "handover" /\ \A q \in Live : q # p => procs'[q] = procs[q]
  BY <1>1, StageTyped
<1>4. /\ UNCHANGED <<runner, action, unread, events, warnings, results, killed>>
      /\ procs'[p].action = procs[p].action
  BY <1>1, <1>3 DEF runnerVars, Process
<1>5. Waited(n) => runner = "waiting" /\ procs[p].action = action
  BY <1>1, ServedIsCurrent
<1>. HIDE DEF n
<1>6. \A i \in DOMAIN invocations :
        /\ Waited(i)' <=> Waited(i)
        /\ Overwritten(i) => Overwritten(i)'
        /\ invocations'[i].action = invocations[i].action
        /\ invocations'[i].pid = invocations[i].pid
        /\ invocations'[i].awaited = invocations[i].awaited
  BY <1>2, <1>4, OverwrittenStays DEF Waited, Grown
<1>7. ASSUME NEW i \in DOMAIN invocations, i # n, invocations[i].event = "written", Busy,
             invocations[i].action = action, Filed(i)
      PROVE  Filed(i)'
  <2>1. Overwritten(i) \/ files[action][invocations[i].pid] = i
    BY <1>7 DEF Filed
  <2>2. CASE invocations[i].pid = p /\ action = procs[p].action
    <3>1. i < n
      BY <1>1, <1>2, <1>7, <2>2
    <3>2. Overwritten(i)
      BY <1>1, <1>7, <2>2, <3>1 DEF Overwritten
    <3>. QED BY <1>6, <3>2 DEF Filed
  <2>3. CASE ~(invocations[i].pid = p /\ action = procs[p].action)
    <3>1. action \in Actions /\ invocations[i].pid \in Pids
      <4>1. invocations[i] \in Invocation
        BY <1>1 DEF TypeOK
      <4>. QED BY <1>7, <4>1 DEF BaseInv, TInv, Progress, Invocation
    <3>2. files'[action][invocations[i].pid] = files[action][invocations[i].pid]
      BY <2>3, <3>1
    <3>. QED BY <1>6, <1>7, <2>1, <3>2 DEF Filed
  <2>. QED BY <2>2, <2>3
<1>8. KeptInv'
  <2> SUFFICES ASSUME Busy', NEW i \in InvokedIn(action)', Waited(i)' PROVE InFlight(i)' /\ Filed(i)'
    BY DEF KeptInv
  <2>1. /\ Busy /\ i \in InvokedIn(action) /\ i \in DOMAIN invocations /\ Waited(i)
        /\ invocations[i].action = action
    BY <1>2, <1>4, <1>6 DEF Busy, InvokedIn
  <2>2. InFlight(i) /\ Filed(i)
    BY <2>1 DEF CInv, KeptInv
  <2>3. CASE i = n
    <3>1. invocations'[i].event = event
      BY <1>2, <2>1, <2>3
    <3>2. InFlight(i)'
      BY <3>1 DEF InFlight
    <3>3. Filed(i)'
      BY <1>1, <1>4, <1>6, <2>1, <2>3, <3>1 DEF Filed, n
    <3>. QED BY <3>2, <3>3
  <2>4. CASE i # n
    <3>1. invocations'[i].event = invocations[i].event
      BY <1>2, <2>1, <2>4
    <3>2. InFlight(i)'
      BY <1>3, <1>6, <2>1, <2>2, <2>4, <3>1 DEF InFlight, n
    <3>3. Filed(i)'
      BY <1>7, <2>1, <2>2, <2>4, <3>1 DEF Filed
    <3>. QED BY <3>2, <3>3
  <2>. QED BY <2>3, <2>4
<1>9. FoundInv'
  <2> SUFFICES ASSUME runner' = "reading", NEW i \in InvokedIn(action)', Waited(i)' PROVE Found(i)'
    BY DEF FoundInv
  <2>1. /\ runner = "reading" /\ i \in InvokedIn(action) /\ i \in DOMAIN invocations /\ Waited(i)
    BY <1>2, <1>4, <1>6 DEF InvokedIn
  <2>2. i # n /\ Found(i)
    BY <1>5, <2>1 DEF CInv, FoundInv
  <2>3. invocations'[i].event = invocations[i].event
    BY <1>2, <2>1, <2>2
  <2>. QED BY <1>4, <1>6, <2>1, <2>2, <2>3 DEF Found
<1>10. DraftInv'
  <2> SUFFICES ASSUME Busy', NEW q \in Live', procs'[q].at = "writing", procs'[q].action = action'
               PROVE  files'[action'][q] # None
    BY DEF DraftInv
  <2>1. q # p /\ q \in Live /\ procs'[q] = procs[q] /\ q \in Pids /\ Busy /\ action \in Actions
    BY <1>3, <1>4 DEF Live, Busy, BaseInv, TInv, Progress
  <2>2. files[action][q] # None
    BY <1>4, <2>1 DEF CInv, DraftInv
  <2>. QED BY <1>4, <2>1, <2>2
<1>11. AwaitedEventsCollected'
  <2> SUFFICES ASSUME NEW b \in Finished' \ killed', NEW i \in InvokedIn(b)', invocations'[i].awaited
               PROVE  Accounted(i, b)' \/ Overwritten(i)'
    BY DEF AwaitedEventsCollected
  <2>1. /\ i \in InvokedIn(b) /\ b \in Finished \ killed /\ invocations[i].awaited
        /\ i \in DOMAIN invocations
    BY <1>2, <1>4, <1>6 DEF InvokedIn, Finished
  <2>2. i # n
    <3>1. i = n => Waited(n) /\ procs[p].action = b
      BY <1>1, <2>1 DEF Waited, InvokedIn
    <3>2. Busy => b # action
      <4>1. results \in Seq(Result) /\ (Busy => Len(results) = action - 1 /\ action \in Nat)
        BY DEF BaseInv, TInv, TypeOK, Progress, Actions
      <4>. QED BY <2>1, <4>1 DEF Finished
    <3>. QED BY <1>5, <3>1, <3>2 DEF Busy
  <2>3. invocations'[i].event = invocations[i].event
    BY <1>2, <2>1, <2>2
  <2>4. Accounted(i, b) \/ Overwritten(i)
    BY <2>1 DEF CInv, AwaitedEventsCollected
  <2>. QED BY <1>4, <1>6, <2>1, <2>3, <2>4 DEF Accounted
<1>. QED BY <1>8, <1>9, <1>10, <1>11 DEF CInv

LEMMA NextKeepsCollected == BaseInv /\ BaseInv' /\ CInv /\ [Next]_vars => CInv'
<1> SUFFICES ASSUME BaseInv, BaseInv', CInv, [Next]_vars PROVE CInv'
  OBVIOUS
<1>0. /\ TInv /\ TypeOK /\ Progress /\ Serving /\ OInv /\ WInv
      /\ KeptInv /\ FoundInv /\ DraftInv /\ AwaitedEventsCollected
  BY DEF BaseInv, TInv, CInv
<1>b. \A i \in DOMAIN invocations : i \in Nat /\ invocations[i].pid \in Pids /\ i # None /\ i # Torn
  <2>1. invocations \in Seq(Invocation)
    BY <1>0 DEF TypeOK
  <2>2. \A i \in DOMAIN invocations : invocations[i] \in Invocation /\ i \in Nat /\ i > 0
    BY <2>1
  <2>. QED BY <2>2, NoneAssumption DEF Invocation, Torn
<1>1. ASSUME NEW p \in Pids, StartAction(p) PROVE CInv'
  <2> DEFINE shell == [action |-> action + 1, root |-> TRUE, piped |-> TRUE, awaited |-> TRUE,
                       sees |-> TRUE, waitedBy |-> None, at |-> "program", invocation |-> None]
  <2>1. /\ procs' = [procs EXCEPT ![p] = shell] /\ action' = action + 1 /\ action \in Nat
        /\ runner' = "waiting" /\ UNCHANGED <<results, invocations, killed>>
    BY <1>0, <1>1 DEF StartAction, TypeOK
  <2>2. /\ procs'[p] = shell
        /\ \A q \in Live' : q = p \/ (q \in Live /\ procs'[q] = procs[q])
    BY <1>0, <2>1 DEF TypeOK, Live
  <2>3. \A i \in DOMAIN invocations : invocations[i].action # action + 1
    <3>1. \A i \in DOMAIN invocations : invocations[i].action \in Nat
      <4>1. \A i \in DOMAIN invocations : invocations[i] \in Invocation
        BY <1>0 DEF TypeOK
      <4>. QED BY <4>1 DEF Invocation, Actions
    <3>. QED BY <1>0, <2>1, <3>1 DEF OInv, Begun
  <2>4. \A q \in Live : procs[q].action # action + 1
    <3>1. \A q \in Live : procs[q].action \in Nat
      BY <1>0, ProcessTyped DEF Process, Actions
    <3>. QED BY <1>0, <2>1, <3>1 DEF OInv, Begun
  <2>5. KeptInv' /\ FoundInv'
    BY <2>1, <2>3 DEF KeptInv, FoundInv, InvokedIn
  <2>6. DraftInv'
    BY <2>1, <2>2, <2>4 DEF DraftInv
  <2>7. AwaitedEventsCollected'
    BY <1>0, <2>1 DEF AwaitedEventsCollected, Finished, InvokedIn, Accounted, Overwritten
  <2>. QED BY <2>5, <2>6, <2>7 DEF CInv
<1>2. CASE CannotStart \/ NoMoreActions
  <2>1. runner' \in {"failed", "done"} /\ UNCHANGED <<results, invocations, killed>>
    BY <1>2 DEF CannotStart, NoMoreActions
  <2>2. AwaitedEventsCollected'
    BY <1>0, <2>1 DEF AwaitedEventsCollected, Finished, InvokedIn, Accounted, Overwritten
  <2>. QED BY <2>1, <2>2 DEF CInv, KeptInv, FoundInv, DraftInv, Busy
<1>r. ASSUME UNCHANGED <<action, results, files, procs, invocations, killed>>, Busy, FoundInv'
      PROVE  CInv'
  <2>1. KeptInv' /\ DraftInv'
    BY <1>0, <1>r DEF KeptInv, DraftInv, InvokedIn, Waited, InFlight, Filed, Overwritten, Live
  <2>2. AwaitedEventsCollected'
    BY <1>0, <1>r DEF AwaitedEventsCollected, Finished, InvokedIn, Accounted, Overwritten
  <2>. QED BY <1>r, <2>1, <2>2 DEF CInv
<1>3. CASE StartReading
  <2>1. /\ Busy /\ unread' = {q \in Pids : files[action][q] # None}
        /\ UNCHANGED <<action, results, files, procs, invocations, killed>>
    BY <1>3 DEF StartReading, Busy, Present, EventDir
  <2>2. FoundInv'
    <3> SUFFICES ASSUME NEW i \in InvokedIn(action), Waited(i), invocations[i].event = "written",
                        ~Overwritten(i)
                 PROVE  invocations[i].pid \in unread'
      BY <2>1 DEF FoundInv, InvokedIn, Waited, Found, Overwritten
    <3>1. files[action][invocations[i].pid] = i /\ i \in DOMAIN invocations
      BY <1>0, <2>1 DEF KeptInv, Filed, InvokedIn
    <3>. QED BY <1>b, <2>1, <3>1
  <2>. QED BY <1>r, <2>1, <2>2
<1>4. ASSUME NEW p \in Pids, NEW readable \in BOOLEAN, ReadEntry(p, readable) PROVE CInv'
  <2>1. /\ Busy /\ runner = "reading" /\ UNCHANGED <<action, results, files, procs, invocations, killed>>
        /\ unread' = unread \ {p} /\ events \subseteq events' /\ warnings \subseteq warnings'
        /\ p \in warnings' \/ files[action][p] \in events'
    BY <1>4 DEF ReadEntry, Busy, EventDir
  <2>2. FoundInv'
    <3> SUFFICES ASSUME NEW i \in InvokedIn(action), Waited(i), invocations[i].event = "written",
                        ~Overwritten(i)
                 PROVE  \/ invocations[i].pid \in unread' \/ i \in events'
                        \/ invocations[i].pid \in warnings'
      BY <2>1 DEF FoundInv, InvokedIn, Waited, Found, Overwritten
    <3>1. files[action][invocations[i].pid] = i
      BY <1>0, <2>1 DEF KeptInv, Filed, InvokedIn
    <3>2. invocations[i].pid \in unread \/ i \in events \/ invocations[i].pid \in warnings
      BY <1>0, <2>1 DEF FoundInv, Found
    <3>. QED BY <2>1, <3>1, <3>2
  <2>. QED BY <1>r, <2>1, <2>2
<1>5. ASSUME NEW p \in Pids, SeeLateEntry(p) PROVE CInv'
  <2>1. /\ Busy /\ runner = "reading" /\ UNCHANGED <<action, results, files, procs, invocations, killed>>
        /\ unread \subseteq unread' /\ UNCHANGED <<events, warnings>>
    BY <1>5 DEF SeeLateEntry, Busy
  <2>2. FoundInv'
    BY <1>0, <2>1 DEF FoundInv, InvokedIn, Waited, Found, Overwritten
  <2>. QED BY <1>r, <2>1, <2>2
<1>n. ASSUME NEW i \in InvokedIn(action), Busy, Waited(i), \A q \in Live : ~Attached(q)
      PROVE  invocations[i].event # "due"
  <2> SUFFICES ASSUME invocations[i].event = "due" PROVE FALSE
    OBVIOUS
  <2> DEFINE q == invocations[i].pid
  <2>1. q \in Live /\ procs[q].invocation = i /\ i \in DOMAIN invocations
    BY <1>0, <1>n DEF KeptInv, InFlight, InvokedIn
  <2>2. Linked(q)
    BY <1>0, <1>b, <2>1 DEF OInv, LinkedInv
  <2>3. Attached(q)
    BY <1>n, <2>1, <2>2 DEF Linked, Attached, Waited
  <2>. QED BY <1>n, <2>1, <2>3
<1>e. \A i \in DOMAIN invocations : invocations[i].event \in {"due", "written", "refused", "unset"}
  <2>1. \A i \in DOMAIN invocations : invocations[i] \in Invocation
    BY <1>0 DEF TypeOK
  <2>. QED BY <2>1 DEF Invocation
<1>6. CASE FinishReading
  <2> DEFINE found == [events |-> events, warnings |-> warnings]
  <2>1. found \in Result /\ Busy /\ runner = "reading" /\ unread = {} /\ HandOver(found)
    BY <1>0, <1>6 DEF FinishReading, TypeOK, Result, Busy
  <2>2. \A q \in Live : ~Attached(q)
    BY <1>0, <2>1 DEF WInv, Waits
  <2>3. ASSUME NEW i \in InvokedIn(action), Waited(i)
        PROVE  \/ invocations[i].event \in {"refused", "unset"}
               \/ i \in found.events \/ invocations[i].pid \in found.warnings \/ Overwritten(i)
    <3>1. invocations[i].event # "due" /\ i \in DOMAIN invocations
      BY <1>n, <2>1, <2>2, <2>3 DEF InvokedIn
    <3>2. Found(i)
      BY <1>0, <2>1, <2>3 DEF FoundInv
    <3>. QED BY <1>e, <2>1, <3>1, <3>2 DEF Found
  <2>. HIDE DEF found
  <2>. QED BY <2>1, <2>3, HandOverCollects
<1>7. CASE DirectoryUnreadable
  <2> DEFINE found == [events |-> {}, warnings |-> Pids]
  <2>1. found \in Result /\ Busy /\ HandOver(found)
    BY <1>7 DEF DirectoryUnreadable, Result, Busy
  <2>2. \A i \in InvokedIn(action) : invocations[i].pid \in found.warnings
    BY <1>b DEF InvokedIn
  <2>. HIDE DEF found
  <2>. QED BY <2>1, <2>2, HandOverCollects
<1>8. ASSUME NEW p \in Pids, NEW q \in Pids, NEW piped \in BOOLEAN, NEW foreground \in BOOLEAN,
             NEW sees \in BOOLEAN, ForkShim(p, q, piped, foreground, sees)
      PROVE  CInv'
  <2> DEFINE awaited == piped \/ (foreground /\ procs[p].awaited)
             child == [action |-> procs[p].action, root |-> FALSE, piped |-> piped,
                       awaited |-> awaited, sees |-> sees,
                       waitedBy |-> IF foreground THEN p ELSE None,
                       at |-> "opening", invocation |-> NextId]
  <2>1. p \in Live /\ procs[p] \in Process /\ q \notin Live
    BY <1>0, <1>8, ProcessTyped DEF ForkShim, Program
  <2>2. /\ procs[p].action \in Actions /\ awaited \in BOOLEAN
        /\ Invoke(procs[p].action, q, awaited) /\ UNCHANGED <<runnerVars, files, killed>>
        /\ procs' = [procs EXCEPT ![q] = child]
    BY <1>8, <2>1 DEF ForkShim, Process
  <2>3. child # None
    <3>1. NextId \in Ids
      BY <2>2 DEF Invoke
    <3>2. child \in Process
      BY <2>1, <2>2, <3>1 DEF Process
    <3>. QED BY <3>2, ProcessAssumption
  <2>4. /\ procs'[q] = child /\ q \in Live' /\ Live \subseteq Live'
        /\ \A o \in Live' : o # q => o \in Live /\ procs'[o] = procs[o]
    <3>. HIDE DEF child
    <3>. QED BY <1>0, <2>1, <2>2, <2>3 DEF TypeOK, Live
  <2>5. /\ procs'[q].invocation = NextId /\ procs'[q].action = procs[p].action
        /\ procs'[q].at = "opening"
    BY <2>4
  <2>. HIDE DEF child, awaited
  <2>. QED BY <2>1, <2>2, <2>4, <2>5, InvocationCollects
<1>9. ASSUME NEW p \in Pids, ExecShim(p) PROVE CInv'
  <2> DEFINE shim == [procs[p] EXCEPT !.at = "opening", !.invocation = NextId]
  <2>1. p \in Live /\ procs[p] \in Process /\ procs[p].at = "program"
    BY <1>0, <1>9, ProcessTyped DEF ExecShim, Program
  <2>2. /\ procs[p].action \in Actions /\ procs[p].awaited \in BOOLEAN
        /\ Invoke(procs[p].action, p, procs[p].awaited) /\ UNCHANGED <<runnerVars, files, killed>>
        /\ procs' = [procs EXCEPT ![p] = shim] /\ NextId \in Ids
    BY <1>9, <2>1 DEF ExecShim, Process, Invoke
  <2>3. /\ shim \in Process /\ shim.invocation = NextId /\ shim.action = procs[p].action
        /\ shim.at = "opening"
    BY <2>1, <2>2 DEF Process
  <2>. HIDE DEF shim
  <2>4. /\ procs'[p] = shim /\ p \in Live' /\ Live \subseteq Live'
        /\ \A o \in Live' : o # p => o \in Live /\ procs'[o] = procs[o]
    BY <1>0, <2>1, <2>2, <2>3, ProcessAssumption DEF TypeOK, Live
  <2>. QED BY <2>1, <2>2, <2>3, <2>4, InvocationCollects
<1>10. ASSUME NEW p \in Pids, Exit(p) PROVE CInv'
  <2>1. /\ UNCHANGED <<runnerVars, files, invocations, killed>> /\ procs[p].at = "program"
        /\ Live' = Live \ {p} /\ \A q \in Live' : q \in Live /\ procs'[q] = procs[q]
    BY <1>0, <1>10 DEF Exit, Program, TypeOK, Live
  <2>2. Grown
    BY <2>1 DEF Grown
  <2>3. \A i \in DOMAIN invocations : (Waited(i)' /\ InFlight(i)) => InFlight(i)'
    BY <2>1 DEF InFlight
  <2>. QED BY <2>1, <2>2, <2>3, QuietCollects
<1>11. ASSUME NEW p \in Pids, Kill(p) PROVE CInv'
  <2>1. UNCHANGED <<runnerVars, files>> /\ killed' = killed \cup {procs[p].action}
    BY <1>11 DEF Kill
  <2>2. /\ Grown /\ DOMAIN invocations' = DOMAIN invocations
        /\ \A i \in DOMAIN invocations :
             /\ invocations'[i].event = invocations[i].event /\ invocations'[i].pid = invocations[i].pid
             /\ invocations'[i].action = invocations[i].action
    BY <1>0, <1>11, KillMarks DEF Grown
  <2>3. /\ p \in Live /\ Live' = Live \ {p}
        /\ \A q \in Live' : /\ procs'[q].action = procs[q].action
                            /\ procs'[q].invocation = procs[q].invocation
                            /\ procs'[q].at = procs[q].at
    BY <1>0, <1>11, KillLeaves
  <2>4. ASSUME NEW i \in DOMAIN invocations, Waited(i)', InFlight(i), invocations[i].event = "due"
        PROVE  InFlight(i)'
    <3> DEFINE q == invocations[i].pid
    <3>1. q \in Live /\ procs[q].invocation = i /\ procs[q].at \in {"opening", "writing"}
      BY <2>4 DEF InFlight
    <3>2. procs[q].action = invocations[i].action
      BY <1>0, <1>b, <3>1 DEF OInv, LinkedInv, Linked
    <3>3. q # p
      BY <2>1, <2>2, <2>4, <3>2 DEF Waited
    <3>. QED BY <2>2, <2>3, <3>1, <3>3 DEF InFlight
  <2>5. \A i \in DOMAIN invocations : (Waited(i)' /\ InFlight(i)) => InFlight(i)'
    BY <2>2, <2>4 DEF InFlight
  <2>. QED BY <2>1, <2>2, <2>3, <2>5, QuietCollects
<1>12. ASSUME NEW p \in Pids, SkipEvent(p) \/ EventRefused(p) PROVE CInv'
  <2>1. /\ p \in Live /\ procs[p].at \in {"opening", "writing"}
        /\ Goto(p, "handover") /\ UNCHANGED <<runnerVars, files, killed>>
    BY <1>12 DEF SkipEvent, EventRefused, InWrapper
  <2>2. PICK event \in {"refused", "unset"} : Record(p, event)
    BY <1>12 DEF SkipEvent, EventRefused
  <2>3. UNCHANGED runnerVars /\ UNCHANGED killed /\ event # "written"
    BY <2>1
  <2>. QED BY <2>1, <2>2, <2>3, RecordCollects
<1>13. ASSUME NEW p \in Pids, WriteEvent(p) PROVE CInv'
  <2>1. /\ p \in Live /\ procs[p].at = "writing" /\ procs[p] \in Process
        /\ procs[p].invocation # None /\ procs[p].invocation \in Ids /\ procs[p].action \in Actions
    BY <1>0, <1>13, ProcessTyped DEF WriteEvent, InWrapper, Serving, Process
  <2>2. /\ Record(p, "written") /\ Goto(p, "handover") /\ UNCHANGED <<runnerVars, killed>>
        /\ IF files[procs[p].action][p] = None THEN UNCHANGED files
           ELSE files' = [files EXCEPT ![procs[p].action][p] = procs[p].invocation]
    BY <1>13 DEF WriteEvent, SetFile, DirOf, EventDir
  <2>3. \A a \in Actions : \A q \in Pids : files'[a][q] = files[a][q] \/ (q = p /\ a = procs[p].action)
    BY <1>0, <2>1, <2>2 DEF TypeOK
  <2>4. \A a \in Actions : \A q \in Pids : files[a][q] # None => files'[a][q] # None
    BY <1>0, <2>1, <2>2 DEF TypeOK
  <2>5. Busy /\ procs[p].action = action => files'[action][p] = procs[p].invocation
    <3>1. Busy /\ procs[p].action = action => files[procs[p].action][p] # None
      BY <1>0, <2>1 DEF DraftInv
    <3>. QED BY <1>0, <2>1, <2>2, <3>1 DEF TypeOK
  <2>. QED BY <2>1, <2>2, <2>3, <2>4, <2>5, RecordCollects
<1>14. ASSUME NEW p \in Pids, OpenEvent(p) PROVE CInv'
  <2> DEFINE n == procs[p].invocation
  <2>1. /\ p \in Live /\ procs[p].at = "opening" /\ procs[p] \in Process /\ procs[p].action \in Actions
        /\ n # None /\ Linked(p)
    BY <1>0, <1>14, ProcessTyped DEF OpenEvent, InWrapper, Serving, Process, OInv, LinkedInv
  <2>2. /\ files' = [files EXCEPT ![procs[p].action][p] = Torn]
        /\ UNCHANGED <<runnerVars, invocations, killed>>
    BY <1>14 DEF OpenEvent, SetFile, DirOf, EventDir
  <2>3. UNCHANGED <<runner, action, unread, events, warnings, results>>
    BY <2>2 DEF runnerVars
  <2>4. /\ Live' = Live /\ procs'[p] = [procs[p] EXCEPT !.at = "writing"]
        /\ procs'[p].at = "writing"
        /\ \A q \in Live : q # p => procs'[q] = procs[q]
    BY <1>0, <1>14, <2>1, StageTyped DEF OpenEvent
  <2>5. procs'[p].invocation = n /\ procs'[p].action = procs[p].action
    BY <2>1, <2>4 DEF Process
  <2>6. /\ files'[procs[p].action][p] = Torn /\ Torn # None
        /\ \A a \in Actions : \A q \in Pids :
             files'[a][q] = files[a][q] \/ (q = p /\ a = procs[p].action /\ files'[a][q] = Torn)
    BY <1>0, <2>1, <2>2, NoneAssumption DEF TypeOK, Torn
  <2>7. KeptInv'
    <3> SUFFICES ASSUME Busy, NEW i \in InvokedIn(action), Waited(i) PROVE InFlight(i)' /\ Filed(i)'
      BY <2>2, <2>3 DEF KeptInv, Busy, InvokedIn, Waited
    <3>1. InFlight(i) /\ Filed(i) /\ i \in DOMAIN invocations /\ action \in Actions
          /\ invocations[i].action = action
      BY <1>0 DEF KeptInv, Progress, InvokedIn
    <3>2. InFlight(i)'
      <4>. HIDE DEF n
      <4>. QED BY <2>2, <2>4, <2>5, <3>1 DEF InFlight, n
    <3>3. ASSUME invocations[i].event = "written", ~Overwritten(i)
          PROVE  files'[action][invocations[i].pid] = i
      <4>1. files[action][invocations[i].pid] = i
        BY <3>1, <3>3 DEF Filed
      <4>2. ~(invocations[i].pid = p /\ action = procs[p].action)
        <5> SUFFICES ASSUME invocations[i].pid = p, action = procs[p].action PROVE FALSE
          OBVIOUS
        <5>1. /\ n \in DOMAIN invocations /\ invocations[n].event = "due" /\ i <= n
              /\ invocations[n].pid = p /\ invocations[n].action = action
          BY <2>1, <3>1 DEF Linked
        <5>. HIDE DEF n
        <5>2. i < n
          BY <1>b, <3>1, <3>3, <5>1
        <5>. QED BY <3>1, <3>3, <5>1, <5>2 DEF Overwritten
      <4>. QED BY <1>b, <2>6, <3>1, <4>1, <4>2
    <3>4. Filed(i)'
      BY <2>2, <3>1, <3>3 DEF Filed, Overwritten
    <3>. QED BY <3>2, <3>4
  <2>8. FoundInv'
    BY <1>0, <2>2, <2>3 DEF FoundInv, InvokedIn, Waited, Found, Overwritten
  <2>9. DraftInv'
    <3> SUFFICES ASSUME Busy, NEW q \in Live, procs'[q].at = "writing", procs'[q].action = action
                 PROVE  files'[action][q] # None
      BY <2>3, <2>4 DEF DraftInv, Busy
    <3>1. action \in Actions /\ q \in Pids
      BY <1>0 DEF Progress, Live
    <3>2. CASE q = p
      BY <2>5, <2>6, <3>2
    <3>3. CASE q # p
      BY <1>0, <2>4, <2>6, <3>1, <3>3 DEF DraftInv
    <3>. QED BY <3>2, <3>3
  <2>10. AwaitedEventsCollected'
    BY <1>0, <2>2, <2>3 DEF AwaitedEventsCollected, Finished, InvokedIn, Accounted, Overwritten
  <2>. QED BY <2>7, <2>8, <2>9, <2>10 DEF CInv
<1>15. ASSUME NEW p \in Pids, ExecTarget(p) PROVE CInv'
  <2>1. /\ p \in Live /\ procs[p].at = "handover" /\ procs[p] \in Process
        /\ Goto(p, "program") /\ UNCHANGED <<runnerVars, files, killed>>
    BY <1>0, <1>15, ProcessTyped DEF ExecTarget, InWrapper
  <2>2. /\ Live' = Live /\ procs'[p] = [procs[p] EXCEPT !.at = "program"]
        /\ procs'[p].at = "program"
        /\ \A q \in Live : q # p => procs'[q] = procs[q]
    BY <1>0, <2>1, StageTyped
  <2>3. procs'[p].action = procs[p].action
    BY <2>1, <2>2 DEF Process
  <2>4. /\ Grown /\ DOMAIN invocations' = DOMAIN invocations
        /\ \A i \in DOMAIN invocations :
             invocations'[i].event = invocations[i].event /\ invocations'[i].pid = invocations[i].pid
    BY <1>0, <1>15, ExecMarks DEF Grown
  <2>5. \A i \in DOMAIN invocations : (Waited(i)' /\ InFlight(i)) => InFlight(i)'
    BY <2>1, <2>2, <2>4 DEF InFlight
  <2>. QED BY <2>1, <2>2, <2>3, <2>4, <2>5, QuietCollects
<1>16. CASE UNCHANGED vars
  <2>1. /\ UNCHANGED <<runner, action, unread, events, warnings, results>>
        /\ UNCHANGED <<files, procs, invocations, killed>>
    BY <1>16 DEF vars, runnerVars
  <2>2. Live' = Live
    BY <2>1 DEF Live
  <2>3. KeptInv' /\ FoundInv' /\ DraftInv'
    BY <1>0, <2>1, <2>2
    DEF KeptInv, FoundInv, DraftInv, Busy, InvokedIn, Waited, InFlight, Filed, Found, Overwritten
  <2>4. AwaitedEventsCollected'
    BY <1>0, <2>1 DEF AwaitedEventsCollected, Finished, InvokedIn, Accounted, Overwritten
  <2>. QED BY <2>3, <2>4 DEF CInv
<1>. QED
  BY <1>1, <1>2, <1>3, <1>4, <1>5, <1>6, <1>7, <1>8, <1>9, <1>10, <1>11, <1>12, <1>13, <1>14,
     <1>15, <1>16 DEF Next, Collect, Wrapper, Over

LEMMA InitCollected == Init => CInv
BY DEF Init, CInv, KeptInv, FoundInv, DraftInv, AwaitedEventsCollected, Busy, Finished

(***************************************************************************)
(* No invocation the runner waited for is silently lost (executor.rs,      *)
(* shim_event.rs): each is in the result of its action, or warned about,   *)
(* or said itself that it could not be written, or was replaced by a later *)
(* one under its process id; however the processes fork, exec, end and     *)
(* reuse each other's ids, unless one of the action was killed.            *)
(***************************************************************************)
THEOREM CollectedTheorem == Spec => []AwaitedEventsCollected
<1>1. BaseInv <=> TInv /\ OInv /\ WInv
  BY DEF BaseInv
<1>2. CInv => AwaitedEventsCollected
  BY DEF CInv
<1>. QED BY <1>1, <1>2, InitCollected, NextKeepsCollected, WaitInvariant, PTL DEF Spec
=============================================================================
