------------------------------ MODULE SandboxProofs -----------------------------
(***************************************************************************)
(* Theorems about Sandbox, for every set of processes and ids and every    *)
(* kind and number of faults and of changes behind falsiq's back.          *)
(***************************************************************************)
EXTENDS Sandbox, TLAPS

-----------------------------------------------------------------------------
\* The inductive invariant

Making == {"add", "adding", "untree", "unbranch", "forget"}
Reaping == {"pick", "remove", "branch"}

\* A job of the kind that the process is at.
JobFits(p) ==
    /\ pc[p] \in Making \cup {"create"} => job[p].op = "create"
    /\ pc[p] \in Reaping \cup {"reap"} => job[p].op # "create"
    /\ job[p].op = "create" => job[p].id \in Id
    /\ pc[p] \in {"lock", "create", "reap"} => job[p].reaped = {}
    /\ pc[p] \in {"remove", "branch"} => job[p].id \in job[p].entries

\* Files are only in a registered worktree, and git checks out what it has registered.
TreeFits(i) ==
    /\ adding[i] = "checkout" => reg[i] = "locked" /\ tree[i] = "partial"
    /\ tree[i] \in {"partial", "clean", "dirty"} => reg[i] \in {"locked", "ok", "switched"}

Present(i) == i \in branch \/ reg[i] # "none" \/ adding[i] # "none"

Managed(i) == \A m \in onDisk : i \in m

\* Whatever git has, or is adding, is in the manifest for sure.
AllManaged == \A i \in Id \ abandoned : Present(i) => Managed(i)

\* What a creation knows of its id: nobody else works on it, unless it was abandoned.
Makes(p, i) ==
    /\ pc[p] \in {"add", "adding", "untree"} => tree[i] # "dirty"
    /\ i \notin abandoned =>
        /\ Managed(i)
        /\ reg[i] \in {"none", "locked", "ok"}
        /\ pc[p] = "add" => ~Present(i)
        /\ pc[p] # "adding" => adding[i] = "none"
        /\ pc[p] = "unbranch" /\ ~job[p].errors => reg[i] = "none"
        /\ pc[p] = "forget" => reg[i] = "none" /\ i \notin branch

\* What a reap knows of an id that git was not adding when it began: what it has
\* read of it is true unless somebody changed it, what it cleared is gone, and what
\* a forced reap leaves could not be cleared.
Reaps(p, i) ==
    LET j == job[p]
    IN  /\ adding[i] = "none"
        /\ j.seen[i] = "none" => reg[i] = "none"
        /\ i \in j.reaped => i \notin branch /\ reg[i] = "none"
        /\ pc[p] = "branch" /\ i = j.id => reg[i] = "none"
        /\ (i \in j.left \/ (pc[p] = "remove" /\ i = j.id)) /\ i \notin j.excused => reg[i] = j.seen[i]
        /\ j.op = "force" /\ i \in j.entries \ (j.reaped \cup j.left \cup j.excused) =>
            \/ pc[p] \in {"remove", "branch"} /\ i = j.id
            \/ reg[i] \in {"locked", "moved", "switched"} \/ tree[i] \in {"empty", "foreign"}

ReapFits(p) ==
    LET j == job[p]
    IN  /\ j.entries = manifest
        /\ j.left \subseteq j.entries
        /\ j.reaped \cap j.orphans \subseteq abandoned
        /\ pc[p] \in {"remove", "branch"} => j.id \notin j.left
        /\ pc[p] = "remove" => j.seen[j.id] \notin {"none", "moved"}
        /\ \A i \in Id \ j.orphans : Reaps(p, i)

SInv ==
    /\ TypeOK
    /\ \A p \in Proc : JobFits(p)
    /\ \A i \in Id : TreeFits(i)
    /\ AllManaged
    /\ \A p \in Proc : pc[p] \in Making => Makes(p, job[p].id)
    /\ \A p \in Proc : pc[p] \in Reaping => ReapFits(p)

-----------------------------------------------------------------------------
\* Types

StoreTypes == manifest \in SUBSET Id /\ manifest \in onDisk /\ onDisk \subseteq SUBSET Id

GitTypes ==
    /\ branch \subseteq Id
    /\ tree \in [Id -> Trees] /\ reg \in [Id -> Registrations] /\ adding \in [Id -> Stages]

ControlTypes ==
    /\ lock \in Proc \cup {NoProc}
    /\ pc \in [Proc -> Labels]
    /\ \A p \in Proc : pc[p] = "idle" => job[p] = NoJob
    /\ \A p \in Proc : pc[p] \notin {"idle", "lock"} <=> lock = p

HistoryTypes == abandoned \subseteq Id /\ faults \in 0 .. MaxFaults /\ touches \in 0 .. MaxTouches

\* The type invariant, part by part.
LEMMA TypeParts ==
    /\ TypeOK <=> StoreTypes /\ GitTypes /\ ControlTypes /\ HistoryTypes /\ job \in [Proc -> Jobs]
    /\ TypeOK' <=> /\ StoreTypes' /\ GitTypes' /\ ControlTypes' /\ HistoryTypes'
                   /\ job' \in [Proc -> Jobs]
BY DEF TypeOK, StoreTypes, GitTypes, ControlTypes, HistoryTypes

\* What does not change keeps its types.
LEMMA Unchanged ==
    ASSUME TypeOK
    PROVE  /\ UNCHANGED store => StoreTypes'
           /\ UNCHANGED git => GitTypes'
           /\ UNCHANGED <<lock, pc, job>> => ControlTypes'
           /\ UNCHANGED history => HistoryTypes'
BY DEF TypeOK, store, git, history, StoreTypes, GitTypes, ControlTypes, HistoryTypes

\* A manifest that is written, perhaps with an error.
LEMMA WriteTypes ==
    ASSUME TypeOK, NEW m \in SUBSET Id, Write(m) \/ WriteFails(m)
    PROVE  StoreTypes'
BY DEF TypeOK, Write, WriteFails, store, StoreTypes

\* A fault is counted and changes no other history.
LEMMA FaultTypes ==
    ASSUME TypeOK, NEW kind, Fault(kind)
    PROVE  HistoryTypes'
<1>1. faults \in 0 .. MaxFaults /\ faults < MaxFaults /\ faults' = faults + 1 /\ MaxFaults \in Nat
  BY SandboxAssumption DEF TypeOK, Fault
<1>2. faults' \in 0 .. MaxFaults
  BY <1>1
<1>3. QED
  BY <1>2 DEF TypeOK, Fault, HistoryTypes

\* The job of a process that does nothing.
LEMMA NoJobType == NoJob \in Jobs
BY DEF NoJob, Jobs, Registrations

\* A process that ends or is killed gives the lock back.
LEMMA LeaveTypes ==
    ASSUME TypeOK, NEW p \in Proc, Leave(p)
    PROVE  /\ ControlTypes' /\ job' \in [Proc -> Jobs]
           /\ pc'[p] = "idle" /\ job'[p] = NoJob
           /\ \A q \in Proc \ {p} : pc'[q] = pc[q] /\ job'[q] = job[q]
<1>1. /\ pc' = [pc EXCEPT ![p] = "idle"] /\ job' = [job EXCEPT ![p] = NoJob]
      /\ lock' = IF lock = p THEN NoProc ELSE lock
  BY DEF Leave, Goto
<1>2. /\ pc \in [Proc -> Labels] /\ job \in [Proc -> Jobs]
      /\ pc'[p] = "idle" /\ job'[p] = NoJob
      /\ \A q \in Proc \ {p} : pc'[q] = pc[q] /\ job'[q] = job[q]
  BY <1>1 DEF TypeOK
<1>3. pc' \in [Proc -> Labels] /\ job' \in [Proc -> Jobs]
  BY <1>1, <1>2, NoJobType DEF Labels
<1>4. QED
  BY <1>1, <1>2, <1>3, SandboxAssumption DEF TypeOK, ControlTypes

\* A process that goes on keeps it.
LEMMA GoTypes ==
    ASSUME TypeOK, NEW p \in Proc, NEW label \in Labels \ {"idle", "lock"}, Goto(p, label),
           lock = p, lock' = lock, NEW j \in Jobs, job' = [job EXCEPT ![p] = j]
    PROVE  /\ ControlTypes' /\ job' \in [Proc -> Jobs]
           /\ pc'[p] = label /\ job'[p] = j
           /\ \A q \in Proc \ {p} : pc'[q] = pc[q] /\ job'[q] = job[q]
<1>1. /\ pc' = [pc EXCEPT ![p] = label]
      /\ pc \in [Proc -> Labels] /\ job \in [Proc -> Jobs]
  BY DEF Goto, TypeOK
<1>2. /\ pc'[p] = label /\ job'[p] = j
      /\ \A q \in Proc \ {p} : pc'[q] = pc[q] /\ job'[q] = job[q]
      /\ pc' \in [Proc -> Labels] /\ job' \in [Proc -> Jobs]
  BY <1>1
<1>3. QED
  BY <1>2 DEF TypeOK, ControlTypes

\* The same when the job does not change.
LEMMA GoOnTypes ==
    ASSUME TypeOK, NEW p \in Proc, NEW label \in Labels \ {"idle", "lock"}, Goto(p, label),
           lock = p, UNCHANGED <<lock, job>>
    PROVE  /\ ControlTypes' /\ job' \in [Proc -> Jobs]
           /\ pc'[p] = label /\ job'[p] = job[p]
           /\ \A q \in Proc \ {p} : pc'[q] = pc[q] /\ job'[q] = job[q]
<1>1. job[p] \in Jobs /\ job' = [job EXCEPT ![p] = job[p]]
  BY DEF TypeOK
<1>2. QED
  BY <1>1, GoTypes

-----------------------------------------------------------------------------
\* One process at a time

\* A process that is not waiting for the lock is alone.
LEMMA Alone ==
    ASSUME TypeOK, NEW p \in Proc, pc[p] \notin {"idle", "lock"}
    PROVE  /\ lock = p
           /\ \A q \in Proc \ {p} : pc[q] \in {"idle", "lock"}
BY SandboxAssumption DEF TypeOK

\* What has to be shown of a step of a process that has the lock.
LEMMA ProcStep ==
    ASSUME SInv, NEW p \in Proc, pc[p] \notin {"idle", "lock"},
           \A q \in Proc \ {p} : pc'[q] = pc[q] /\ job'[q] = job[q],
           TypeOK', JobFits(p)', \A i \in Id : TreeFits(i)', AllManaged',
           pc'[p] \in Making => Makes(p, job[p].id)',
           pc'[p] \in Reaping => ReapFits(p)'
    PROVE  SInv'
<1>1. \A q \in Proc \ {p} : pc'[q] \in {"idle", "lock"}
  BY Alone DEF SInv
<1>2. \A q \in Proc : JobFits(q)'
  BY DEF SInv, JobFits
<1>3. /\ \A q \in Proc : pc'[q] \in Making => Makes(q, job[q].id)'
      /\ \A q \in Proc : pc'[q] \in Reaping => ReapFits(q)'
  BY <1>1 DEF Making, Reaping
<1>4. QED
  BY <1>2, <1>3 DEF SInv

\* The step that ends its operation.
LEMMA LeaveStep ==
    ASSUME SInv, NEW p \in Proc, pc[p] \notin {"idle", "lock"}, Leave(p),
           StoreTypes', GitTypes', HistoryTypes', \A i \in Id : TreeFits(i)', AllManaged'
    PROVE  SInv'
<1>1. TypeOK /\ ControlTypes' /\ job' \in [Proc -> Jobs]
  BY LeaveTypes DEF SInv
<1>2. /\ pc'[p] = "idle" /\ job'[p] = NoJob
      /\ \A q \in Proc \ {p} : pc'[q] = pc[q] /\ job'[q] = job[q]
  BY LeaveTypes DEF SInv
<1>3. TypeOK'
  BY <1>1, TypeParts
<1>4. JobFits(p)'
  BY <1>2 DEF JobFits, Making, Reaping, NoJob
<1>5. QED
  BY <1>2, <1>3, <1>4, ProcStep DEF Making, Reaping

\* What git and the manifest have does not change.
LEMMA SameGit ==
    ASSUME SInv, UNCHANGED git
    PROVE  /\ GitTypes' /\ \A i \in Id : TreeFits(i)'
           /\ UNCHANGED abandoned /\ (\A i \in Id : Managed(i) => Managed(i)') => AllManaged'
<1>1. TypeOK /\ (\A i \in Id : TreeFits(i)) /\ AllManaged
  BY DEF SInv
<1>2. UNCHANGED <<branch, tree, reg, adding>>
  BY DEF git
<1>3. QED
  BY <1>1, <1>2, Unchanged DEF git, TreeFits, AllManaged, Present

-----------------------------------------------------------------------------
\* sandbox new

\* An operation waits for the lock.
LEMMA StartStep ==
    ASSUME SInv, NEW p \in Proc, New(p) \/ Reap(p)
    PROVE  SInv'
<1>1. PICK op \in {"create", "reap", "force"}, i \in Id \cup {NoId} :
        Start(p, op, i) /\ (op = "create" => i \in Id)
  BY DEF New, Reap
<1> DEFINE j == [NoJob EXCEPT !.op = op, !.id = i]
<1>2. /\ TypeOK /\ pc[p] = "idle" /\ pc' = [pc EXCEPT ![p] = "lock"] /\ job' = [job EXCEPT ![p] = j]
      /\ UNCHANGED <<store, lock, git, history>>
  BY <1>1 DEF SInv, Start, Goto
<1>3. j \in Jobs /\ j.op = op /\ j.id = i /\ j.reaped = {}
  BY NoJobType DEF NoJob, Jobs
<1> HIDE DEF j
<1>4. /\ pc'[p] = "lock" /\ job'[p] = j
      /\ \A q \in Proc \ {p} : pc'[q] = pc[q] /\ job'[q] = job[q]
      /\ pc' \in [Proc -> Labels] /\ job' \in [Proc -> Jobs]
  BY <1>2, <1>3 DEF TypeOK, Labels
<1>5. ControlTypes'
  BY <1>2, <1>4 DEF TypeOK, ControlTypes
<1>6. TypeOK'
  BY <1>2, <1>4, <1>5, TypeParts, Unchanged
<1>7. (\A i_1 \in Id : TreeFits(i_1)') /\ AllManaged'
  BY <1>2, SameGit DEF Managed, store, history
<1>8. \A q \in Proc : JobFits(q)'
  BY <1>1, <1>3, <1>4 DEF SInv, JobFits, Making, Reaping
<1>9. \A q \in Proc : pc'[q] \in Making => Makes(q, job[q].id)'
  BY <1>2, <1>4 DEF SInv, Makes, Making, Present, Managed, store, git, history
<1>10. \A q \in Proc : pc'[q] \in Reaping => ReapFits(q)'
  BY <1>2, <1>4 DEF SInv, ReapFits, Reaps, Reaping, store, git, history
<1>11. QED
  BY <1>6, <1>7, <1>8, <1>9, <1>10 DEF SInv

\* The lock is taken when nobody is inside.
LEMMA LockStep ==
    ASSUME SInv, NEW p \in Proc, Lock(p)
    PROVE  SInv'
<1>1. /\ TypeOK /\ pc[p] = "lock" /\ lock = NoProc /\ lock' = p
      /\ pc' = [pc EXCEPT ![p] = AfterLock(p)] /\ UNCHANGED <<store, git, job, history>>
  BY DEF SInv, Lock, Goto
<1>2. /\ pc'[p] = AfterLock(p) /\ AfterLock(p) \in {"create", "reap"}
      /\ AfterLock(p) = "create" <=> job[p].op = "create"
      /\ \A q \in Proc \ {p} : pc'[q] = pc[q]
      /\ pc' \in [Proc -> Labels]
  BY <1>1 DEF TypeOK, Labels, AfterLock
<1>3. \A q \in Proc : pc[q] \in {"idle", "lock"}
  BY <1>1, SandboxAssumption DEF TypeOK
<1>4. ControlTypes'
  BY <1>1, <1>2, <1>3 DEF TypeOK, ControlTypes
<1>5. TypeOK'
  BY <1>1, <1>4, TypeParts, Unchanged DEF TypeOK
<1>6. (\A i \in Id : TreeFits(i)') /\ AllManaged'
  BY <1>1, SameGit DEF Managed, store, history
<1>7. \A q \in Proc : JobFits(q)'
  BY <1>1, <1>2 DEF SInv, JobFits, Making, Reaping
<1>8. \A q \in Proc : pc'[q] \notin Making \cup Reaping
  BY <1>2, <1>3 DEF Making, Reaping
<1>9. QED
  BY <1>5, <1>6, <1>7, <1>8 DEF SInv

\* A creation is refused, or its entry is in the manifest before git is started.
LEMMA CreateStep ==
    ASSUME SInv, NEW p \in Proc, Create(p)
    PROVE  SInv'
<1> DEFINE i == job[p].id
           m == manifest \cup {i}
<1>1. /\ TypeOK /\ pc[p] = "create" /\ UNCHANGED git /\ lock = p /\ JobFits(p)
      /\ i \in Id /\ m \in SUBSET Id /\ manifest \in onDisk
      /\ GitTypes' /\ \A k \in Id : TreeFits(k)'
  BY Alone, SameGit DEF SInv, Create, JobFits, TypeOK
<1>2. CASE Leave(p) /\ UNCHANGED <<store, history>>
  BY <1>1, <1>2, LeaveStep, SameGit, Unchanged DEF Managed, store, history
<1>3. CASE WriteFails(m) /\ Leave(p)
  <2>1. UNCHANGED abandoned /\ \A k \in Id : Managed(k) => Managed(k)'
    BY <1>1, <1>3 DEF WriteFails, Fault, Managed, store
  <2>2. HistoryTypes'
    BY <1>1, <1>3, FaultTypes DEF WriteFails
  <2>3. QED
    BY <1>1, <1>3, <2>1, <2>2, LeaveStep, SameGit, WriteTypes
<1>4. CASE /\ ~(i \in manifest \/ Exists(i) \/ reg[i] \notin {"none", "moved"} \/ i \in branch)
           /\ Write(m) /\ Goto(p, "add") /\ UNCHANGED <<lock, job, history>>
  <2>1. /\ abandoned' = abandoned /\ (\A k \in Id : Managed(k) => Managed(k)') /\ Managed(i)'
    BY <1>1, <1>4 DEF Write, Managed, history
  <2>2. /\ ControlTypes' /\ job' \in [Proc -> Jobs] /\ pc'[p] = "add" /\ job'[p] = job[p]
        /\ \A q \in Proc \ {p} : pc'[q] = pc[q] /\ job'[q] = job[q]
    BY <1>1, <1>4, GoOnTypes DEF Labels
  <2>3. TypeOK'
    BY <1>1, <1>4, <2>2, WriteTypes, Unchanged, TypeParts
  <2>4. JobFits(p)'
    BY <1>1, <2>2 DEF JobFits, Making, Reaping
  <2>5. Makes(p, i)'
    <3>1. i \notin abandoned => ~Present(i)
      BY <1>1, <1>4 DEF SInv, AllManaged, Managed
    <3>2. tree[i] # "dirty"
      BY <1>4 DEF Exists
    <3>3. i \notin abandoned => reg[i] = "none" /\ adding[i] = "none" /\ i \notin branch
      BY <3>1 DEF Present
    <3>4. UNCHANGED <<branch, tree, reg, adding, abandoned>>
      BY <1>1, <2>1 DEF git
    <3>5. QED
      BY <2>1, <2>2, <3>2, <3>3, <3>4 DEF Makes, Present
  <2>6. AllManaged'
    BY <1>1, <2>1, SameGit
  <2> HIDE DEF m
  <2>7. QED
    BY <1>1, <2>2, <2>3, <2>4, <2>5, <2>6, ProcStep DEF Reaping
<1>5. QED
  BY <1>1, <1>2, <1>3, <1>4 DEF Create

\* git starts to add an id that the manifest has.
LEMMA AddStep ==
    ASSUME SInv, NEW p \in Proc, Add(p)
    PROVE  SInv'
<1> DEFINE i == job[p].id
<1>1. /\ TypeOK /\ pc[p] = "add" /\ lock = p /\ JobFits(p) /\ i \in Id /\ Makes(p, i)
      /\ UNCHANGED <<store, lock, branch, tree, reg, job, history>>
      /\ adding[i] = "none" /\ adding' = [adding EXCEPT ![i] = "branch"] /\ Goto(p, "adding")
  BY Alone DEF SInv, Add, JobFits, TypeOK, Making
<1>2. GitTypes' /\ StoreTypes' /\ HistoryTypes'
  BY <1>1, Unchanged DEF GitTypes, TypeOK, Stages
<1>3. /\ ControlTypes' /\ job' \in [Proc -> Jobs] /\ pc'[p] = "adding" /\ job'[p] = job[p]
      /\ \A q \in Proc \ {p} : pc'[q] = pc[q] /\ job'[q] = job[q]
  BY <1>1, GoOnTypes DEF Labels
<1>4. TypeOK'
  BY <1>1, <1>2, <1>3, TypeParts
<1>5. JobFits(p)'
  BY <1>1, <1>3 DEF JobFits, Making, Reaping
<1>6. /\ adding'[i] = "branch" /\ \A k \in Id \ {i} : adding'[k] = adding[k]
      /\ \A k \in Id : Managed(k)' <=> Managed(k)
      /\ abandoned' = abandoned
  BY <1>1 DEF TypeOK, Managed, store, history
<1>7. \A k \in Id : TreeFits(k)'
  BY <1>1, <1>6 DEF SInv, TreeFits
<1>8. AllManaged'
  BY <1>1, <1>6 DEF SInv, AllManaged, Present, Makes
<1>9. Makes(p, i)'
  BY <1>1, <1>3, <1>6 DEF Makes
<1>10. QED
  BY <1>1, <1>3, <1>4, <1>5, <1>7, <1>8, <1>9, ProcStep DEF Reaping

\* git has ended: the creation is over, or is rolled back.
LEMMA CreatedStep ==
    ASSUME SInv, NEW p \in Proc, Created(p)
    PROVE  SInv'
<1> DEFINE i == job[p].id
<1>1. /\ TypeOK /\ pc[p] = "adding" /\ lock = p /\ JobFits(p) /\ i \in Id /\ Makes(p, i)
      /\ UNCHANGED <<store, branch, tree, reg>>
      /\ adding[i] \in {"ok", "failed"} /\ adding' = [adding EXCEPT ![i] = "none"]
  BY Alone DEF SInv, Created, JobFits, TypeOK, Making
<1>2. GitTypes' /\ StoreTypes'
  BY <1>1, Unchanged DEF GitTypes, TypeOK, Stages
<1>3. HistoryTypes' /\ abandoned' = abandoned
  BY <1>1, Unchanged, FaultTypes DEF Created, history, Fault
<1>4. /\ adding'[i] = "none" /\ \A k \in Id \ {i} : adding'[k] = adding[k]
      /\ \A k \in Id : Managed(k)' <=> Managed(k)
  BY <1>1 DEF TypeOK, Managed, store
<1>5. \A k \in Id : TreeFits(k)'
  BY <1>1, <1>4 DEF SInv, TreeFits
<1>6. AllManaged'
  BY <1>1, <1>3, <1>4 DEF SInv, AllManaged, Present
<1>7. CASE Leave(p)
  BY <1>1, <1>2, <1>3, <1>5, <1>6, <1>7, LeaveStep
<1>8. CASE Goto(p, "untree") /\ UNCHANGED <<lock, job>>
  <2>1. /\ ControlTypes' /\ job' \in [Proc -> Jobs] /\ pc'[p] = "untree" /\ job'[p] = job[p]
        /\ \A q \in Proc \ {p} : pc'[q] = pc[q] /\ job'[q] = job[q]
    BY <1>1, <1>8, GoOnTypes DEF Labels
  <2>2. TypeOK'
    BY <1>1, <1>2, <1>3, <2>1, TypeParts
  <2>3. JobFits(p)'
    BY <1>1, <2>1 DEF JobFits, Making, Reaping
  <2>4. Makes(p, i)'
    BY <1>1, <1>3, <1>4, <2>1 DEF Makes
  <2>5. QED
    BY <1>1, <1>5, <1>6, <2>1, <2>2, <2>3, <2>4, ProcStep DEF Reaping
<1>9. QED
  BY <1>7, <1>8 DEF Created

\* The worktree is removed and its branch still there, or an error is noted.
LEMMA UndoTreeStep ==
    ASSUME SInv, NEW p \in Proc, UndoTree(p)
    PROVE  SInv'
<1>0. PICK i \in Id : i = job[p].id
  BY DEF SInv, UndoTree, JobFits, Making
<1>1. /\ TypeOK /\ pc[p] = "untree" /\ lock = p /\ JobFits(p) /\ Makes(p, i)
      /\ UNCHANGED <<store, lock, branch, adding>> /\ Goto(p, "unbranch")
      /\ job[p] \in Jobs
  BY <1>0, Alone DEF SInv, UndoTree, TypeOK, Making
<1>2. PICK e \in BOOLEAN : job' = [job EXCEPT ![p].errors = e]
  BY DEF UndoTree
<1>3. HistoryTypes' /\ abandoned' = abandoned
  BY <1>1, Unchanged, FaultTypes DEF UndoTree, history, Fault
<1>4. /\ \A k \in Id \ {i} : tree'[k] = tree[k] /\ reg'[k] = reg[k]
      /\ tree'[i] \in {tree[i], "none"} /\ reg'[i] \in {reg[i], "none"}
      /\ reg'[i] # reg[i] => tree'[i] = "none" /\ Forcible(i)
      /\ tree'[i] # tree[i] => tree[i] = "empty" \/ Forcible(i)
      /\ reg[i] \in {"none", "locked", "ok"} /\ ~job'[p].errors => reg'[i] = "none"
      /\ GitTypes'
  <2>1. tree \in [Id -> Trees] /\ reg \in [Id -> Registrations] /\ job \in [Proc -> Jobs]
    BY <1>1 DEF TypeOK
  <2>2. "none" \in Trees /\ "none" \in Registrations
    BY DEF Trees, Registrations
  <2>3. CASE Forcible(i) /\ Unregister(i)
    BY <1>1, <2>1, <2>2, <2>3 DEF Unregister, GitTypes, TypeOK
  <2>4. CASE /\ reg[i] \notin {"locked", "ok", "switched"} /\ tree[i] \in {"none", "empty"}
             /\ tree' = [tree EXCEPT ![i] = "none"] /\ reg' = reg
    BY <1>1, <2>1, <2>2, <2>4 DEF GitTypes, TypeOK
  <2>5. CASE job' = [job EXCEPT ![p].errors = TRUE] /\ UNCHANGED <<tree, reg>>
    <3>1. job'[p].errors = TRUE
      BY <1>1, <2>1, <2>5 DEF Jobs
    <3>2. QED
      BY <1>1, <2>5, <3>1 DEF GitTypes, TypeOK
  <2>6. QED
    BY <1>0, <2>3, <2>4, <2>5 DEF UndoTree
<1> DEFINE j == [job[p] EXCEPT !.errors = e]
<1>5. job' = [job EXCEPT ![p] = j] /\ j \in Jobs
  BY <1>1, <1>2 DEF Jobs, TypeOK
<1>6. j.op = job[p].op /\ j.id = i /\ j.entries = job[p].entries /\ j.reaped = job[p].reaped
  BY <1>0, <1>1 DEF Jobs
<1> HIDE DEF j
<1>7. /\ ControlTypes' /\ job' \in [Proc -> Jobs] /\ pc'[p] = "unbranch" /\ job'[p] = j
      /\ \A q \in Proc \ {p} : pc'[q] = pc[q] /\ job'[q] = job[q]
  BY <1>1, <1>5, GoTypes DEF Labels
<1>8. TypeOK'
  BY <1>1, <1>3, <1>4, <1>7, TypeParts, Unchanged
<1>9. JobFits(p)'
  BY <1>0, <1>1, <1>6, <1>7 DEF JobFits, Making, Reaping
<1>10. \A k \in Id : TreeFits(k)'
  <2>1. \A k \in Id : TreeFits(k)
    BY DEF SInv
  <2>2. TreeFits(i)'
    BY <1>1, <1>4, <2>1 DEF TreeFits, Forcible
  <2>3. QED
    BY <1>1, <1>4, <2>1, <2>2 DEF TreeFits
<1>11. AllManaged'
  BY <1>1, <1>3, <1>4 DEF SInv, AllManaged, Present, Managed, store
<1>12. Makes(p, i)'
  BY <1>1, <1>3, <1>4, <1>7 DEF Makes, Managed, store
<1>13. job'[p].id = i
  BY <1>6, <1>7
<1>14. QED
  BY <1>1, <1>7, <1>8, <1>9, <1>10, <1>11, <1>12, <1>13, ProcStep DEF Reaping

\* The branch goes; with an error the entry stays.
LEMMA UndoBranchStep ==
    ASSUME SInv, NEW p \in Proc, UndoBranch(p)
    PROVE  SInv'
<1> DEFINE i == job[p].id
<1>1. /\ TypeOK /\ pc[p] = "unbranch" /\ lock = p /\ JobFits(p) /\ i \in Id /\ Makes(p, i)
      /\ UNCHANGED <<store, tree, reg, adding>>
      /\ branch' \in {branch, branch \ {i}}
  BY Alone DEF SInv, UndoBranch, JobFits, TypeOK, Making
<1>2. GitTypes' /\ StoreTypes'
  BY <1>1, Unchanged DEF GitTypes, TypeOK
<1>3. HistoryTypes' /\ abandoned' = abandoned
  BY <1>1, Unchanged, FaultTypes DEF UndoBranch, history, Fault
<1>4. \A k \in Id : TreeFits(k)'
  BY <1>1 DEF SInv, TreeFits
<1>5. AllManaged'
  BY <1>1, <1>3 DEF SInv, AllManaged, Present, Managed, store
<1>6. CASE Leave(p)
  BY <1>1, <1>2, <1>3, <1>4, <1>5, <1>6, LeaveStep
<1>7. CASE /\ ~job[p].errors /\ Goto(p, "forget") /\ UNCHANGED <<lock, job>>
           /\ branch' = branch \ {i}
  <2>1. /\ ControlTypes' /\ job' \in [Proc -> Jobs] /\ pc'[p] = "forget" /\ job'[p] = job[p]
        /\ \A q \in Proc \ {p} : pc'[q] = pc[q] /\ job'[q] = job[q]
    BY <1>1, <1>7, GoOnTypes DEF Labels
  <2>2. TypeOK'
    BY <1>2, <1>3, <2>1, TypeParts
  <2>3. JobFits(p)'
    BY <1>1, <2>1 DEF JobFits, Making, Reaping
  <2>4. Makes(p, i)'
    BY <1>1, <1>3, <1>7, <2>1 DEF Makes, Managed, store
  <2>5. QED
    BY <1>1, <1>4, <1>5, <2>1, <2>2, <2>3, <2>4, ProcStep DEF Reaping
<1>8. QED
  BY <1>6, <1>7 DEF UndoBranch

\* An entry leaves the manifest of an id that git does not have.
LEMMA ForgetStep ==
    ASSUME SInv, NEW p \in Proc, Forget(p)
    PROVE  SInv'
<1> DEFINE i == job[p].id
           m == manifest \ {i}
<1>1. /\ TypeOK /\ pc[p] = "forget" /\ lock = p /\ JobFits(p) /\ i \in Id /\ Makes(p, i)
      /\ UNCHANGED git /\ Leave(p) /\ m \in SUBSET Id /\ manifest \in onDisk
      /\ (Write(m) /\ UNCHANGED history) \/ WriteFails(m)
  BY Alone DEF SInv, Forget, JobFits, TypeOK, Making
<1>2. StoreTypes' /\ GitTypes' /\ \A k \in Id : TreeFits(k)'
  BY <1>1, SameGit, WriteTypes
<1>3. HistoryTypes' /\ abandoned' = abandoned
  BY <1>1, Unchanged, FaultTypes DEF WriteFails, history, Fault
<1>4. \A k \in Id \ {i} : Managed(k) => Managed(k)'
  BY <1>1 DEF Write, WriteFails, Managed, store
<1>5. i \notin abandoned => ~Present(i)
  BY <1>1 DEF Makes, Present
<1>6. UNCHANGED <<branch, tree, reg, adding>>
  BY <1>1 DEF git
<1>7. AllManaged'
  BY <1>3, <1>4, <1>5, <1>6 DEF SInv, AllManaged, Present
<1> HIDE DEF m
<1>8. QED
  BY <1>1, <1>2, <1>3, <1>7, LeaveStep

-----------------------------------------------------------------------------
\* sandbox reap

\* A reap knows the entries and the registrations that it has read.
LEMMA LoadStep ==
    ASSUME SInv, NEW p \in Proc, Load(p)
    PROVE  SInv'
<1>1. /\ TypeOK /\ pc[p] = "reap" /\ lock = p /\ JobFits(p) /\ UNCHANGED <<store, git>>
      /\ job[p] \in Jobs /\ manifest \in SUBSET Id /\ reg \in [Id -> Registrations]
  BY Alone DEF SInv, Load, TypeOK
<1>2. StoreTypes' /\ GitTypes' /\ \A k \in Id : TreeFits(k)'
  BY <1>1, SameGit, Unchanged
<1>3. HistoryTypes' /\ abandoned' = abandoned
  BY <1>1, Unchanged, FaultTypes DEF Load, history, Fault
<1>4. AllManaged'
  BY <1>1, <1>3, SameGit DEF Managed, store
<1>5. CASE Leave(p)
  BY <1>1, <1>2, <1>3, <1>4, <1>5, LeaveStep
<1> DEFINE j == [job[p] EXCEPT !.entries = manifest, !.seen = reg, !.left = manifest,
                               !.orphans = {i \in Id : adding[i] # "none"}]
<1>6. CASE /\ job' = [job EXCEPT ![p].entries = manifest, ![p].seen = reg, ![p].left = manifest,
                                 ![p].orphans = {i \in Id : adding[i] # "none"}]
           /\ Goto(p, "pick") /\ UNCHANGED <<lock, history>>
  <2>1. j \in Jobs
    BY <1>1 DEF Jobs
  <2>2. /\ j.entries = manifest /\ j.seen = reg /\ j.left = manifest /\ j.op = job[p].op
        /\ j.id = job[p].id /\ j.reaped = job[p].reaped
        /\ j.orphans = {i \in Id : adding[i] # "none"}
    BY <1>1 DEF Jobs
  <2>3. job' = [job EXCEPT ![p] = j]
    BY <1>1, <1>6 DEF TypeOK, Jobs
  <2> HIDE DEF j
  <2>4. /\ ControlTypes' /\ job' \in [Proc -> Jobs] /\ pc'[p] = "pick" /\ job'[p] = j
        /\ \A q \in Proc \ {p} : pc'[q] = pc[q] /\ job'[q] = job[q]
    BY <1>1, <1>6, <2>1, <2>3, GoTypes DEF Labels
  <2>5. TypeOK'
    BY <1>2, <1>3, <2>4, TypeParts
  <2>6. JobFits(p)' /\ j.reaped = {}
    BY <1>1, <2>2, <2>4 DEF JobFits, Making, Reaping
  <2>7. ReapFits(p)'
    BY <1>1, <2>2, <2>4, <2>6 DEF ReapFits, Reaps, store, git
  <2>8. QED
    BY <1>1, <1>2, <1>4, <2>4, <2>5, <2>6, <2>7, ProcStep DEF Making
<1>7. QED
  BY <1>5, <1>6 DEF Load

\* A step within a reap.
LEMMA ReapStep ==
    ASSUME SInv, NEW p \in Proc, pc[p] \in Reaping, NEW label \in Reaping, Goto(p, label),
           UNCHANGED <<store, lock, adding>>, GitTypes', HistoryTypes',
           \A i \in Id : TreeFits(i)', AllManaged',
           NEW j \in Jobs, job' = [job EXCEPT ![p] = j],
           j.op = job[p].op, j.entries = job[p].entries, j.orphans = job[p].orphans,
           j.left \subseteq job[p].left, j.reaped \cap j.orphans \subseteq abandoned',
           label \in {"remove", "branch"} => j.id \in j.entries \ j.left,
           label = "remove" => j.seen[j.id] \notin {"none", "moved"},
           \A i \in Id \ j.orphans : Reaps(p, i)'
    PROVE  SInv'
<1>1. /\ TypeOK /\ lock = p /\ label \in Labels \ {"idle", "lock"} /\ JobFits(p) /\ ReapFits(p)
      /\ pc[p] \notin {"idle", "lock", "create", "reap"}
  BY Alone DEF SInv, Reaping, Labels
<1>2. /\ ControlTypes' /\ job' \in [Proc -> Jobs] /\ pc'[p] = label /\ job'[p] = j
      /\ \A q \in Proc \ {p} : pc'[q] = pc[q] /\ job'[q] = job[q]
  BY <1>1, GoTypes
<1>3. TypeOK'
  BY <1>1, <1>2, TypeParts, Unchanged
<1>4. JobFits(p)'
  BY <1>1, <1>2 DEF JobFits, Making, Reaping
<1>5. ReapFits(p)'
  BY <1>1, <1>2 DEF ReapFits, store
<1>6. QED
  BY <1>1, <1>2, <1>3, <1>4, <1>5, ProcStep DEF Making, Reaping

\* An entry is kept, or its worktree or branch is to go.
LEMMA PickStep ==
    ASSUME SInv, NEW p \in Proc, Pick(p)
    PROVE  SInv'
<1>1. /\ TypeOK /\ pc[p] = "pick" /\ JobFits(p) /\ ReapFits(p) /\ (\A k \in Id : TreeFits(k))
      /\ UNCHANGED <<store, lock, branch, reg, adding>>
      /\ job[p] \in Jobs
  BY DEF SInv, Pick, TypeOK, Reaping
<1>2. HistoryTypes' /\ abandoned' = abandoned
  BY <1>1, Unchanged, FaultTypes DEF Pick, history, Fault
<1>3. AllManaged'
  BY <1>1, <1>2 DEF SInv, AllManaged, Present, Managed, store
<1> DEFINE J == job[p]
<1>4. /\ J.left \subseteq Id /\ J.entries = manifest /\ J.left \subseteq J.entries
      /\ \A k \in Id \ J.orphans : Reaps(p, k)
  BY <1>1 DEF ReapFits, Jobs
<1>5. ASSUME NEW i \in J.left, NEW e \in SUBSET Id,
             job' = [job EXCEPT ![p] = [J EXCEPT !.left = @ \ {i}, !.excused = e]]
             \/ job' = [job EXCEPT ![p] = [J EXCEPT !.id = NoId, !.left = @ \ {i}, !.excused = e]],
             Goto(p, "pick"), tree' = tree, J.excused \subseteq e,
             i \in J.orphans \/ J.op # "force" \/ i \in e
               \/ reg[i] \in {"locked", "moved", "switched"} \/ tree[i] \in {"empty", "foreign"}
      PROVE  SInv'
  <2>1. PICK j \in Jobs :
          /\ job' = [job EXCEPT ![p] = j]
          /\ j.op = J.op /\ j.entries = J.entries /\ j.orphans = J.orphans /\ j.seen = J.seen
          /\ j.reaped = J.reaped /\ j.left = J.left \ {i} /\ j.excused = e
    <3>1. CASE job' = [job EXCEPT ![p] = [J EXCEPT !.left = @ \ {i}, !.excused = e]]
      <4>1. [J EXCEPT !.left = @ \ {i}, !.excused = e] \in Jobs
        BY <1>1 DEF Jobs
      <4>2. QED
        BY <1>1, <3>1, <4>1 DEF Jobs
    <3>2. CASE job' = [job EXCEPT ![p] = [J EXCEPT !.id = NoId, !.left = @ \ {i}, !.excused = e]]
      <4>1. [J EXCEPT !.id = NoId, !.left = @ \ {i}, !.excused = e] \in Jobs
        BY <1>1 DEF Jobs
      <4>2. QED
        BY <1>1, <3>2, <4>1 DEF Jobs
    <3>3. QED
      BY <1>5, <3>1, <3>2
  <2>2. pc'[p] = "pick" /\ job'[p] = j
    BY <1>1, <1>5, <2>1 DEF Goto, TypeOK
  <2>3. GitTypes' /\ \A k \in Id : TreeFits(k)'
    BY <1>1, <1>5 DEF GitTypes, TypeOK, TreeFits
  <2>4. ASSUME NEW k \in Id \ j.orphans PROVE Reaps(p, k)'
    <3>1. Reaps(p, k)
      BY <1>4, <2>1
    <3>2. QED
      BY <1>1, <1>5, <2>1, <2>2, <3>1 DEF Reaps
  <2>5. j.reaped \cap j.orphans \subseteq abandoned'
    BY <1>1, <1>2, <2>1 DEF ReapFits
  <2> HIDE DEF J
  <2>6. j.op = job[p].op /\ j.entries = job[p].entries /\ j.orphans = job[p].orphans
        /\ j.left \subseteq job[p].left
    BY <2>1 DEF J
  <2>7. QED
    BY <1>1, <1>2, <1>3, <1>5, <2>1, <2>3, <2>4, <2>5, <2>6, ReapStep DEF Reaping
<1>6. ASSUME NEW i \in J.left, NEW label \in {"remove", "branch"},
             job' = [job EXCEPT ![p] = [J EXCEPT !.id = i, !.left = @ \ {i}]],
             Goto(p, label),
             tree' = tree \/ (tree[i] = "empty" /\ tree' = [tree EXCEPT ![i] = "none"]),
             IF label = "remove" THEN J.seen[i] \notin {"none", "moved"} ELSE J.seen[i] = "none"
      PROVE  SInv'
  <2> DEFINE j == [J EXCEPT !.id = i, !.left = @ \ {i}]
  <2>1. /\ j \in Jobs
        /\ j.op = J.op /\ j.entries = J.entries /\ j.orphans = J.orphans /\ j.seen = J.seen
        /\ j.reaped = J.reaped /\ j.left = J.left \ {i} /\ j.excused = J.excused /\ j.id = i
    BY <1>1, <1>4 DEF Jobs
  <2>2. PICK jj \in Jobs :
          /\ job' = [job EXCEPT ![p] = jj]
          /\ jj.op = J.op /\ jj.entries = J.entries /\ jj.orphans = J.orphans /\ jj.seen = J.seen
          /\ jj.reaped = J.reaped /\ jj.left = J.left \ {i} /\ jj.excused = J.excused /\ jj.id = i
    BY <1>6, <2>1
  <2> HIDE DEF j
  <2>3. pc'[p] = label /\ job'[p] = jj
    BY <1>1, <1>6, <2>2 DEF Goto, TypeOK
  <2>4. /\ GitTypes' /\ (\A k \in Id : TreeFits(k)')
        /\ \A k \in Id \ {i} : tree'[k] = tree[k]
    <3>1. tree \in [Id -> Trees] /\ "none" \in Trees /\ i \in Id
      BY <1>1, <1>4 DEF TypeOK, Trees
    <3>2. /\ tree' \in [Id -> Trees] /\ (\A k \in Id \ {i} : tree'[k] = tree[k])
          /\ tree'[i] = tree[i] \/ (tree'[i] = "none" /\ tree[i] = "empty")
      BY <1>6, <3>1
    <3>3. QED
      BY <1>1, <3>2 DEF GitTypes, TypeOK, TreeFits
  <2>5. ASSUME NEW k \in Id \ jj.orphans PROVE Reaps(p, k)'
    <3>1. Reaps(p, k)
      BY <1>4, <2>2
    <3>2. CASE k = i
      BY <1>1, <1>6, <2>2, <2>3, <3>1, <3>2 DEF Reaps
    <3>3. CASE k # i
      BY <1>1, <1>6, <2>2, <2>3, <2>4, <3>1, <3>3 DEF Reaps
    <3>4. QED
      BY <3>2, <3>3
  <2>6. /\ jj.reaped \cap jj.orphans \subseteq abandoned'
        /\ jj.id \in jj.entries \ jj.left
    BY <1>1, <1>2, <1>4, <2>2 DEF ReapFits
  <2>7. /\ jj.op = job[p].op /\ jj.entries = job[p].entries /\ jj.orphans = job[p].orphans
        /\ jj.left \subseteq job[p].left
        /\ label = "remove" => jj.seen[jj.id] \notin {"none", "moved"}
    BY <1>6, <2>2
  <2>8. label \in Reaping /\ pc[p] \in Reaping /\ Goto(p, label)
    BY <1>1, <1>6 DEF Reaping
  <2> HIDE DEF J
  <2>9. QED
    BY <1>1, <1>2, <1>3, <2>2, <2>4, <2>5, <2>6, <2>7, <2>8, ReapStep
<1>7. PICK i \in J.left : 
        \/ Elsewhere(p, i) /\ Preserve(p, i) /\ tree' = tree
        \/ /\ J.seen[i] = "none" /\ Exists(i) /\ tree[i] = "empty"
           /\ Goto(p, "branch") /\ job' = [job EXCEPT ![p].id = i, ![p].left = @ \ {i}]
           /\ tree' = [tree EXCEPT ![i] = "none"]
        \/ /\ J.seen[i] = "none" /\ Exists(i) /\ tree[i] # "empty"
           /\ Preserve(p, i) /\ tree' = tree
        \/ /\ J.seen[i] \notin {"none", "moved"} /\ Exists(i)
           /\ Goto(p, "remove") /\ job' = [job EXCEPT ![p].id = i, ![p].left = @ \ {i}]
           /\ tree' = tree
        \/ /\ J.seen[i] \notin {"none", "moved"} /\ ~(IsOurs(i) /\ (Dirty(i) => J.op = "force"))
           /\ Preserve(p, i) /\ tree' = tree
        \/ /\ ~Elsewhere(p, i)
           /\ Goto(p, IF J.seen[i] \notin {"none", "moved"} THEN "remove" ELSE "branch")
           /\ job' = [job EXCEPT ![p].id = i, ![p].left = @ \ {i}]
           /\ tree' = tree
        \/ /\ Goto(p, "pick") /\ tree' = tree
           /\ job' = [job EXCEPT ![p].left = @ \ {i}, ![p].excused = @ \cup {i}]
  BY DEF Pick
<1>8. i \in Id /\ i \in J.left /\ TreeFits(i) /\ J.excused \in SUBSET Id /\ (i \notin J.orphans => Reaps(p, i))
  BY <1>1, <1>4 DEF Jobs
<1>9. J.seen[i] \notin {"none", "moved"} \/ J.seen[i] = "moved" \/ J.seen[i] = "none"
  OBVIOUS
<1>10. CASE /\ Preserve(p, i) /\ tree' = tree
            /\ \/ J.seen[i] = "moved"
               \/ J.seen[i] = "none" /\ tree[i] \notin {"none", "empty"}
               \/ J.seen[i] \notin {"none", "moved"} /\ ~(IsOurs(i) /\ (Dirty(i) => J.op = "force"))
  <2>1. /\ job' = [job EXCEPT ![p] = [J EXCEPT !.id = NoId, !.left = @ \ {i}, !.excused = J.excused]]
        /\ Goto(p, "pick")
    <3>1. [J EXCEPT !.id = NoId, !.left = @ \ {i}] =
            [J EXCEPT !.id = NoId, !.left = @ \ {i}, !.excused = J.excused]
      BY <1>1 DEF Jobs
    <3>2. /\ job' = [job EXCEPT ![p] = [J EXCEPT !.id = NoId, !.left = @ \ {i}]]
          /\ Goto(p, "pick")
      BY <1>1, <1>10 DEF Preserve
    <3>3. QED
      BY <3>1, <3>2
  <2>2. tree[i] \in Trees /\ reg[i] \in Registrations
    BY <1>1, <1>8 DEF TypeOK
  <2>3. \/ i \in J.orphans \/ J.op # "force" \/ i \in J.excused
        \/ reg[i] \in {"locked", "moved", "switched"} \/ tree[i] \in {"empty", "foreign"}
    BY <1>8, <1>10, <2>2 DEF Reaps, TreeFits, IsOurs, Trees, Registrations
  <2> HIDE DEF J
  <2>4. QED
    BY <1>5, <1>8, <1>10, <2>1, <2>3
<1>11. ASSUME NEW label \in {"remove", "branch"}, Goto(p, label),
              job' = [job EXCEPT ![p].id = i, ![p].left = @ \ {i}],
              tree' = tree \/ (tree[i] = "empty" /\ tree' = [tree EXCEPT ![i] = "none"]),
              IF label = "remove" THEN J.seen[i] \notin {"none", "moved"} ELSE J.seen[i] = "none"
       PROVE  SInv'
  <2>1. job' = [job EXCEPT ![p] = [J EXCEPT !.id = i, !.left = @ \ {i}]]
    BY <1>1, <1>11
  <2> HIDE DEF J
  <2>2. QED
    BY <1>6, <1>8, <1>11, <2>1
<1>12. CASE /\ Goto(p, "pick") /\ tree' = tree
            /\ job' = [job EXCEPT ![p].left = @ \ {i}, ![p].excused = @ \cup {i}]
  <2>1. job' = [job EXCEPT ![p] = [J EXCEPT !.left = @ \ {i}, !.excused = J.excused \cup {i}]]
    BY <1>1, <1>12
  <2>2. J.excused \cup {i} \in SUBSET Id
    BY <1>8
  <2> HIDE DEF J
  <2>3. QED
    BY <1>5, <1>8, <1>12, <2>1, <2>2
<1>13. QED
  BY <1>7, <1>9, <1>10, <1>11, <1>12 DEF Elsewhere, Exists

\* git removes the worktree of an entry, or refuses.
LEMMA RemoveStep ==
    ASSUME SInv, NEW p \in Proc, Remove(p)
    PROVE  SInv'
<1>0. PICK i \in Id : i = job[p].id /\ i \in job[p].entries
  BY DEF SInv, Remove, JobFits, ReapFits, Reaping, TypeOK
<1>1. /\ TypeOK /\ pc[p] = "remove" /\ pc[p] \in Reaping /\ ReapFits(p) /\ TreeFits(i)
      /\ UNCHANGED <<store, lock, branch, adding>>
      /\ job[p] \in Jobs
  BY DEF SInv, Remove, TypeOK, Reaping
<1>2. HistoryTypes' /\ abandoned' = abandoned
  BY <1>1, Unchanged, FaultTypes DEF Remove, Hindered, history, Fault
<1> DEFINE J == job[p]
<1>3. /\ J.entries = manifest /\ J.id = i /\ i \notin J.left /\ J.left \subseteq J.entries
      /\ J.reaped \cap J.orphans \subseteq abandoned
      /\ J.seen[i] \notin {"none", "moved"}
      /\ \A k \in Id \ J.orphans : Reaps(p, k)
  BY <1>0, <1>1 DEF ReapFits
<1>4. CASE Forcible(i) /\ Unregister(i) /\ Goto(p, "branch") /\ UNCHANGED job
  <2>1. /\ tree'[i] = "none" /\ reg'[i] = "none"
        /\ \A k \in Id \ {i} : tree'[k] = tree[k] /\ reg'[k] = reg[k]
        /\ GitTypes'
    BY <1>1, <1>4 DEF Unregister, TypeOK, GitTypes, Trees, Registrations
  <2>2. \A k \in Id : TreeFits(k)'
    BY <1>1, <1>4, <2>1 DEF SInv, TreeFits, Forcible
  <2>3. AllManaged'
    BY <1>1, <1>2, <2>1 DEF SInv, AllManaged, Present, Managed, store
  <2>4. job' = [job EXCEPT ![p] = J] /\ pc'[p] = "branch"
    BY <1>1, <1>4 DEF TypeOK, Goto
  <2>5. ASSUME NEW k \in Id \ J.orphans PROVE Reaps(p, k)'
    <3>1. Reaps(p, k)
      BY <1>3
    <3>2. CASE k = i
      BY <1>0, <1>1, <1>3, <1>4, <2>1, <2>4, <3>1, <3>2 DEF Reaps
    <3>3. CASE k # i
      BY <1>0, <1>1, <1>4, <2>1, <2>4, <3>1, <3>3 DEF Reaps
    <3>4. QED
      BY <3>2, <3>3
  <2>6. "branch" \in Reaping /\ i \in J.entries \ J.left
    BY <1>0, <1>3 DEF Reaping
  <2>7. QED
    BY <1>1, <1>2, <1>3, <1>4, <2>1, <2>2, <2>3, <2>4, <2>5, <2>6, ReapStep
<1>5. ASSUME NEW e \in SUBSET Id, Goto(p, "pick"), UNCHANGED <<tree, reg>>, J.excused \subseteq e,
             job' = [job EXCEPT ![p] = [J EXCEPT !.id = NoId, !.left = @ \ {i}, !.excused = e]],
             i \in J.orphans \/ J.op # "force" \/ i \in e
               \/ reg[i] \in {"locked", "moved", "switched"} \/ tree[i] \in {"empty", "foreign"}
      PROVE  SInv'
  <2>1. PICK j \in Jobs :
          /\ job' = [job EXCEPT ![p] = j]
          /\ j.op = J.op /\ j.entries = J.entries /\ j.orphans = J.orphans /\ j.seen = J.seen
          /\ j.reaped = J.reaped /\ j.left = J.left \ {i} /\ j.excused = e
    <3>1. [J EXCEPT !.id = NoId, !.left = @ \ {i}, !.excused = e] \in Jobs
      BY <1>1 DEF Jobs
    <3>2. QED
      BY <1>1, <1>5, <3>1 DEF Jobs
  <2>2. pc'[p] = "pick" /\ job'[p] = j
    BY <1>1, <1>5, <2>1 DEF Goto, TypeOK
  <2>3. GitTypes' /\ (\A k \in Id : TreeFits(k)') /\ AllManaged'
    BY <1>1, <1>2, <1>5 DEF SInv, GitTypes, TypeOK, TreeFits, AllManaged, Present, Managed, store
  <2>4. ASSUME NEW k \in Id \ j.orphans PROVE Reaps(p, k)'
    <3>1. Reaps(p, k)
      BY <1>3, <2>1
    <3>2. QED
      BY <1>0, <1>1, <1>3, <1>5, <2>1, <2>2, <3>1 DEF Reaps
  <2>5. /\ j.reaped \cap j.orphans \subseteq abandoned' /\ "pick" \in Reaping
        /\ j.op = job[p].op /\ j.entries = job[p].entries /\ j.orphans = job[p].orphans
        /\ j.left \subseteq job[p].left
    BY <1>2, <1>3, <2>1 DEF Reaping
  <2>6. Goto(p, "pick") /\ \A k \in Id \ j.orphans : Reaps(p, k)'
    BY <1>5, <2>4
  <2> HIDE DEF J
  <2>7. QED
    BY <1>1, <1>2, <2>1, <2>3, <2>5, <2>6, ReapStep
<1>6. /\ J.excused \subseteq Id /\ reg[i] \in Registrations
      /\ i \notin J.orphans => Reaps(p, i)
  BY <1>1, <1>3 DEF TypeOK, Jobs
<1>7. CASE Preserve(p, i) /\ UNCHANGED <<tree, reg>> /\ (J.op = "force" => ~Forcible(i))
  <2>1. /\ job' = [job EXCEPT ![p] = [J EXCEPT !.id = NoId, !.left = @ \ {i}]]
        /\ Goto(p, "pick")
    BY <1>1, <1>7 DEF Preserve
  <2>2. [J EXCEPT !.id = NoId, !.left = @ \ {i}] =
          [J EXCEPT !.id = NoId, !.left = @ \ {i}, !.excused = J.excused]
    BY <1>1 DEF Jobs
  <2>3. i \in J.orphans \/ J.op # "force" \/ i \in J.excused
        \/ reg[i] \in {"locked", "moved", "switched"} \/ tree[i] \in {"empty", "foreign"}
    BY <1>0, <1>1, <1>3, <1>6, <1>7 DEF Reaps, Forcible, Registrations
  <2> HIDE DEF J
  <2>4. QED
    BY <1>5, <1>6, <1>7, <2>1, <2>2, <2>3
<1>8. CASE Hindered(p) /\ UNCHANGED <<tree, reg>>
  <2>1. /\ job' = [job EXCEPT ![p] = [J EXCEPT !.id = NoId, !.excused = @ \cup {i}]]
        /\ Goto(p, "pick")
    BY <1>0, <1>1, <1>8 DEF Hindered, Current
  <2>2. [J EXCEPT !.id = NoId, !.excused = @ \cup {i}] =
          [J EXCEPT !.id = NoId, !.left = @ \ {i}, !.excused = J.excused \cup {i}]
    <3>1. J.left \ {i} = J.left
      BY <1>3
    <3>2. QED
      BY <1>1, <3>1 DEF Jobs
  <2>3. J.excused \cup {i} \in SUBSET Id
    BY <1>6
  <2> HIDE DEF J
  <2>4. QED
    BY <1>5, <1>8, <2>1, <2>2, <2>3
<1>9. QED
  BY <1>0, <1>4, <1>7, <1>8 DEF Remove, Current, Removable

\* The branch of an entry goes once its worktree has.
LEMMA DropBranchStep ==
    ASSUME SInv, NEW p \in Proc, DropBranch(p)
    PROVE  SInv'
<1>0. PICK i \in Id : i = job[p].id /\ i \in job[p].entries
  BY DEF SInv, DropBranch, JobFits, ReapFits, Reaping, TypeOK
<1>1. /\ TypeOK /\ pc[p] = "branch" /\ pc[p] \in Reaping /\ ReapFits(p)
      /\ UNCHANGED <<store, lock, tree, reg, adding>> /\ branch' \in {branch, branch \ {i}}
      /\ job[p] \in Jobs
  BY <1>0 DEF SInv, DropBranch, Current, TypeOK, Reaping
<1>2. HistoryTypes' /\ abandoned \subseteq abandoned'
  BY <1>0, <1>1, FaultTypes DEF DropBranch, Hindered, Current, Fault, TypeOK, HistoryTypes
<1>3. GitTypes' /\ (\A k \in Id : TreeFits(k)') /\ AllManaged'
  BY <1>1, <1>2 DEF SInv, GitTypes, TypeOK, TreeFits, AllManaged, Present, Managed, store
<1> DEFINE J == job[p]
<1>4. /\ J.entries = manifest /\ J.id = i /\ i \notin J.left /\ J.left \subseteq J.entries
      /\ J.reaped \cap J.orphans \subseteq abandoned
      /\ \A k \in Id \ J.orphans : Reaps(p, k)
  BY <1>0, <1>1 DEF ReapFits
<1>5. ASSUME NEW e \in SUBSET Id, NEW r \in SUBSET Id, Goto(p, "pick"),
             job' = [job EXCEPT ![p] = [J EXCEPT !.id = NoId, !.excused = e, !.reaped = r]],
             r \cap J.orphans \subseteq abandoned',
             \/ r = J.reaped /\ e = J.excused \cup {i}
             \/ r = J.reaped \cup {i} /\ e = J.excused /\ branch' = branch \ {i}
      PROVE  SInv'
  <2>1. PICK j \in Jobs :
          /\ job' = [job EXCEPT ![p] = j]
          /\ j.op = J.op /\ j.entries = J.entries /\ j.orphans = J.orphans /\ j.seen = J.seen
          /\ j.reaped = r /\ j.left = J.left /\ j.excused = e
    <3>1. [J EXCEPT !.id = NoId, !.excused = e, !.reaped = r] \in Jobs
      BY <1>1 DEF Jobs
    <3>2. QED
      BY <1>1, <1>5, <3>1 DEF Jobs
  <2>2. pc'[p] = "pick" /\ job'[p] = j
    BY <1>1, <1>5, <2>1 DEF Goto, TypeOK
  <2>3. ASSUME NEW k \in Id \ j.orphans PROVE Reaps(p, k)'
    <3>1. Reaps(p, k)
      BY <1>4, <2>1
    <3>2. CASE r = J.reaped /\ e = J.excused \cup {i}
      BY <1>0, <1>1, <1>4, <2>1, <2>2, <3>1, <3>2 DEF Reaps
    <3>3. CASE r = J.reaped \cup {i} /\ e = J.excused /\ branch' = branch \ {i}
      BY <1>0, <1>1, <1>4, <2>1, <2>2, <3>1, <3>3 DEF Reaps
    <3>4. QED
      BY <1>5, <3>2, <3>3
  <2>4. /\ j.reaped \cap j.orphans \subseteq abandoned' /\ "pick" \in Reaping
        /\ j.op = job[p].op /\ j.entries = job[p].entries /\ j.orphans = job[p].orphans
        /\ j.left \subseteq job[p].left
    BY <1>5, <2>1 DEF Reaping
  <2>5. Goto(p, "pick") /\ \A k \in Id \ j.orphans : Reaps(p, k)'
    BY <1>5, <2>3
  <2> HIDE DEF J
  <2>6. QED
    BY <1>1, <1>2, <1>3, <2>1, <2>4, <2>5, ReapStep
<1>6. J.excused \subseteq Id /\ J.reaped \subseteq Id
  BY <1>1 DEF Jobs
<1>7. CASE Hindered(p)
  <2>1. /\ job' = [job EXCEPT ![p] = [J EXCEPT !.id = NoId, !.excused = @ \cup {i}]]
        /\ Goto(p, "pick")
    BY <1>0, <1>1, <1>7 DEF Hindered, Current
  <2>2. [J EXCEPT !.id = NoId, !.excused = @ \cup {i}] =
          [J EXCEPT !.id = NoId, !.excused = J.excused \cup {i}, !.reaped = J.reaped]
    BY <1>1 DEF Jobs
  <2>3. J.excused \cup {i} \in SUBSET Id /\ J.reaped \cap J.orphans \subseteq abandoned'
    BY <1>2, <1>4, <1>6
  <2> HIDE DEF J
  <2>4. QED
    BY <1>5, <1>6, <2>1, <2>2, <2>3
<1>8. CASE /\ branch' = branch \ {i} /\ Goto(p, "pick")
           /\ job' = [job EXCEPT ![p].id = NoId, ![p].reaped = @ \cup {i}]
           /\ abandoned' = abandoned \cup ({i} \cap J.orphans)
  <2>1. job' = [job EXCEPT ![p] = [J EXCEPT !.id = NoId, !.reaped = @ \cup {i}]]
    BY <1>1, <1>8
  <2>2. [J EXCEPT !.id = NoId, !.reaped = @ \cup {i}] =
          [J EXCEPT !.id = NoId, !.excused = J.excused, !.reaped = J.reaped \cup {i}]
    BY <1>1 DEF Jobs
  <2>3. J.reaped \cup {i} \in SUBSET Id /\ (J.reaped \cup {i}) \cap J.orphans \subseteq abandoned'
    BY <1>4, <1>6, <1>8
  <2>4. /\ job' = [job EXCEPT ![p] = [J EXCEPT !.id = NoId, !.excused = J.excused,
                                             !.reaped = J.reaped \cup {i}]]
        /\ Goto(p, "pick") /\ branch' = branch \ {i} /\ J.excused \in SUBSET Id
    BY <1>6, <1>8, <2>1, <2>2
  <2> HIDE DEF J
  <2>5. QED
    BY <1>5, <2>3, <2>4
<1>9. QED
  BY <1>0, <1>7, <1>8 DEF DropBranch, Current

\* The entries that are dropped are of ids that git does not have.
LEMMA DropEntriesStep ==
    ASSUME SInv, NEW p \in Proc, DropEntries(p)
    PROVE  SInv'
<1> DEFINE J == job[p]
           m == J.entries \ J.reaped
<1>1. /\ TypeOK /\ pc[p] = "pick" /\ ReapFits(p) /\ UNCHANGED git /\ Leave(p)
      /\ m \in SUBSET Id /\ manifest \in onDisk /\ manifest \subseteq Id
      /\ UNCHANGED <<store, history>> \/ (Write(m) /\ UNCHANGED history) \/ WriteFails(m)
  BY DEF SInv, DropEntries, TypeOK, Reaping, Jobs
<1>2. GitTypes' /\ \A k \in Id : TreeFits(k)'
  BY <1>1, SameGit
<1>3. StoreTypes'
  BY <1>1, WriteTypes, Unchanged
<1>4. HistoryTypes' /\ abandoned' = abandoned
  BY <1>1, Unchanged, FaultTypes DEF WriteFails, history, Fault
<1>5. ASSUME NEW k \in Id, k \notin abandoned, Present(k), Managed(k) PROVE Managed(k)'
  <2>1. k \in J.entries
    BY <1>1, <1>5 DEF ReapFits, Managed
  <2>2. k \notin J.reaped
    BY <1>1, <1>5 DEF ReapFits, Reaps, Present
  <2>3. k \in m
    BY <2>1, <2>2
  <2> HIDE DEF m
  <2>4. QED
    BY <1>1, <1>5, <2>3 DEF Write, WriteFails, Managed, store
<1>6. UNCHANGED <<branch, tree, reg, adding>>
  BY <1>1 DEF git
<1>7. AllManaged'
  BY <1>4, <1>5, <1>6 DEF SInv, AllManaged, Present
<1> HIDE DEF m
<1>8. QED
  BY <1>1, <1>2, <1>3, <1>4, <1>7, LeaveStep

-----------------------------------------------------------------------------
\* git and the surroundings

\* git only works on an id that it is adding.
LEMMA GitStep ==
    ASSUME SInv, NEW i \in Id, Git(i)
    PROVE  SInv'
<1>1. /\ TypeOK /\ UNCHANGED <<store, lock, pc, job>> /\ TreeFits(i)
      /\ adding[i] \in {"branch", "register", "checkout"}
  BY DEF SInv, Git, AddBranch, AddRegister, AddCheckout, AddFails
<1>2. HistoryTypes' /\ abandoned' = abandoned
  BY <1>1, Unchanged, FaultTypes
     DEF Git, AddBranch, AddRegister, AddCheckout, AddFails, history, Fault
<1>3. /\ branch' \in {branch, branch \cup {i}}
      /\ adding' \in [Id -> Stages] /\ \A k \in Id \ {i} : adding'[k] = adding[k]
      /\ adding'[i] = "checkout" => adding[i] = "register" /\ AddRegister(i)
  <2>1. CASE \E result \in {"ok", "failed"} : AddEnds(i, result) /\ branch' = branch
    BY <1>1, <2>1 DEF AddEnds, TypeOK, Stages
  <2>2. CASE /\ adding[i] = "branch" /\ branch' = branch \cup {i}
             /\ adding' = [adding EXCEPT ![i] = "register"]
    BY <1>1, <2>2 DEF TypeOK, Stages
  <2>3. CASE AddRegister(i) /\ branch' = branch /\ adding' = [adding EXCEPT ![i] = "checkout"]
    BY <1>1, <2>3 DEF TypeOK, Stages, AddRegister
  <2>4. QED
    BY <2>1, <2>2, <2>3 DEF Git, AddBranch, AddRegister, AddCheckout, AddFails
<1>4. /\ tree' \in [Id -> Trees] /\ reg' \in [Id -> Registrations]
      /\ \A k \in Id \ {i} : tree'[k] = tree[k] /\ reg'[k] = reg[k]
      /\ reg'[i] \in {reg[i], "none", "locked", "ok"}
      /\ tree'[i] # tree[i] => tree'[i] # "dirty"
      /\ TreeFits(i)'
  <2>1. tree \in [Id -> Trees] /\ reg \in [Id -> Registrations]
    BY <1>1 DEF TypeOK
  <2>2. CASE UNCHANGED <<tree, reg>> /\ adding'[i] # "checkout"
    BY <1>1, <2>1, <2>2 DEF TreeFits
  <2>3. CASE tree' = [tree EXCEPT ![i] = "partial"] /\ reg' = [reg EXCEPT ![i] = "locked"]
    BY <2>1, <2>3 DEF TreeFits, Trees, Registrations
  <2>4. CASE AddCheckout(i)
    <3>1. /\ tree' = [tree EXCEPT ![i] = "clean"] /\ reg' = [reg EXCEPT ![i] = "ok"]
          /\ adding'[i] # "checkout"
      BY <1>1, <1>3, <2>4 DEF AddCheckout
    <3>2. QED
      BY <2>1, <3>1 DEF TreeFits, Trees, Registrations
  <2>5. CASE Unregister(i) /\ adding'[i] # "checkout"
    BY <2>1, <2>5 DEF TreeFits, Trees, Registrations, Unregister
  <2>6. CASE AddBranch(i)
    BY <1>3, <2>2, <2>6 DEF AddBranch
  <2>7. CASE AddRegister(i)
    <3>1. CASE AddEnds(i, "failed") /\ UNCHANGED <<tree, reg>>
      BY <1>1, <2>2, <3>1 DEF AddEnds, TypeOK
    <3>2. QED
      BY <2>3, <2>7, <3>1 DEF AddRegister
  <2>8. CASE AddFails(i)
    <3>1. adding'[i] # "checkout"
      BY <1>1, <2>8 DEF AddFails, AddEnds, TypeOK
    <3>2. QED
      BY <2>2, <2>5, <2>8, <3>1 DEF AddFails
  <2>9. QED
    BY <2>4, <2>6, <2>7, <2>8 DEF Git
<1>5. GitTypes'
  BY <1>1, <1>3, <1>4 DEF GitTypes, TypeOK
<1>6. TypeOK'
  BY <1>1, <1>2, <1>5, TypeParts, Unchanged DEF TypeOK
<1>7. \A k \in Id : TreeFits(k)'
  <2>1. ASSUME NEW k \in Id, k # i PROVE TreeFits(k)'
    BY <1>3, <1>4, <2>1 DEF SInv, TreeFits
  <2>2. QED
    BY <1>4, <2>1
<1>8. AllManaged'
  <2>1. i \notin abandoned => Managed(i)
    BY <1>1 DEF SInv, AllManaged, Present
  <2>2. ASSUME NEW k \in Id, k # i, Present(k)' PROVE Present(k)
    BY <1>3, <1>4, <2>2 DEF Present
  <2>3. QED
    BY <1>1, <1>2, <2>1, <2>2 DEF SInv, AllManaged, Managed, store
<1>9. \A p \in Proc : JobFits(p)'
  BY <1>1 DEF SInv, JobFits
<1>10. ASSUME NEW p \in Proc, pc[p] \in Making PROVE Makes(p, job[p].id)'
  <2>1. Makes(p, job[p].id) /\ job[p].id \in Id
    BY <1>10 DEF SInv, JobFits
  <2>2. CASE job[p].id = i
    BY <1>1, <1>2, <1>4, <2>1, <2>2 DEF Makes, Managed, store
  <2>3. CASE job[p].id # i
    BY <1>1, <1>2, <1>3, <1>4, <2>1, <2>3 DEF Makes, Managed, store, Present
  <2>4. QED
    BY <2>2, <2>3
<1>11. ASSUME NEW p \in Proc, pc[p] \in Reaping PROVE ReapFits(p)'
  <2>1. ReapFits(p)
    BY <1>11 DEF SInv
  <2>2. ASSUME NEW k \in Id \ job[p].orphans PROVE Reaps(p, k)'
    <3>1. Reaps(p, k)
      BY <2>1, <2>2 DEF ReapFits
    <3>2. k # i
      BY <1>1, <3>1 DEF Reaps
    <3>3. QED
      BY <1>1, <1>3, <1>4, <3>1, <3>2 DEF Reaps
  <2>3. QED
    BY <1>1, <1>2, <2>1, <2>2 DEF ReapFits, store
<1>12. QED
  BY <1>1, <1>6, <1>7, <1>8, <1>9, <1>10, <1>11 DEF SInv

\* A process that is killed gives the lock back, with git going on.
LEMMA KillStep ==
    ASSUME SInv, NEW p \in Proc, Kill(p)
    PROVE  SInv'
<1>1. /\ TypeOK /\ pc[p] # "idle" /\ Leave(p) /\ UNCHANGED <<store, branch, tree, reg>>
      /\ adding' = [i \in Id |-> IF pc[p] = "adding" /\ job[p].id = i /\ adding[i] \in {"ok", "failed"}
                                 THEN "none" ELSE adding[i]]
  BY DEF SInv, Kill
<1>2. HistoryTypes' /\ abandoned' = abandoned
  BY <1>1, FaultTypes DEF Kill, Fault
<1>3. \A i \in Id : adding'[i] \in {adding[i], "none"}
  BY <1>1
<1>4. StoreTypes' /\ GitTypes'
  BY <1>1, Unchanged DEF GitTypes, TypeOK, Stages
<1>5. \A i \in Id : TreeFits(i)'
  BY <1>1, <1>3 DEF SInv, TreeFits
<1>6. AllManaged'
  BY <1>1, <1>2, <1>3 DEF SInv, AllManaged, Present, Managed, store
<1>7. CASE pc[p] # "lock"
  BY <1>1, <1>2, <1>4, <1>5, <1>6, <1>7, LeaveStep
<1>8. CASE pc[p] = "lock"
  <2>1. adding' = adding
    BY <1>1, <1>8 DEF TypeOK
  <2>2. /\ ControlTypes' /\ job' \in [Proc -> Jobs]
        /\ pc'[p] = "idle" /\ job'[p] = NoJob
        /\ \A q \in Proc \ {p} : pc'[q] = pc[q] /\ job'[q] = job[q]
    BY <1>1, LeaveTypes
  <2>3. TypeOK'
    BY <1>2, <1>4, <2>2, TypeParts
  <2>4. \A q \in Proc : JobFits(q)'
    BY <2>2 DEF SInv, JobFits, Making, Reaping, NoJob
  <2>5. \A q \in Proc : pc'[q] \in Making => Makes(q, job[q].id)'
    BY <1>1, <1>2, <2>1, <2>2 DEF SInv, Makes, Making, Present, Managed, store
  <2>6. \A q \in Proc : pc'[q] \in Reaping => ReapFits(q)'
    BY <1>1, <1>2, <2>1, <2>2 DEF SInv, ReapFits, Reaps, Reaping, store
  <2>7. QED
    BY <1>5, <1>6, <2>3, <2>4, <2>5, <2>6 DEF SInv
<1>9. QED
  BY <1>7, <1>8

\* The manifest is one that the disk may hold, each of which accounts for git.
LEMMA PowerLossStep ==
    ASSUME SInv, PowerLoss
    PROVE  SInv'
<1>1. PICK m \in onDisk : Write(m)
  BY DEF PowerLoss
<1>2. /\ TypeOK /\ UNCHANGED <<branch, tree, reg>>
      /\ pc' = [p \in Proc |-> "idle"] /\ job' = [p \in Proc |-> NoJob] /\ lock' = NoProc
      /\ adding' = [i \in Id |-> "none"] /\ m \in SUBSET Id
  BY DEF SInv, PowerLoss, TypeOK
<1>3. HistoryTypes' /\ abandoned' = abandoned
  BY <1>2, FaultTypes DEF PowerLoss, Fault
<1>4. GitTypes' /\ StoreTypes'
  BY <1>1, <1>2, WriteTypes DEF GitTypes, TypeOK, Stages
<1>5. ControlTypes' /\ job' \in [Proc -> Jobs]
  BY <1>2, NoJobType, SandboxAssumption DEF ControlTypes, Labels
<1>6. TypeOK'
  BY <1>3, <1>4, <1>5, TypeParts
<1>7. \A p \in Proc : pc'[p] = "idle" /\ job'[p] = NoJob
  BY <1>2
<1>8. \A p \in Proc : JobFits(p)'
  BY <1>7 DEF JobFits, Making, Reaping, NoJob
<1>9. \A i \in Id : TreeFits(i)'
  BY <1>2 DEF SInv, TreeFits
<1>10. AllManaged'
  BY <1>1, <1>2, <1>3 DEF SInv, AllManaged, Present, Managed, Write
<1>11. QED
  BY <1>6, <1>7, <1>8, <1>9, <1>10 DEF SInv, Making, Reaping

\* A worktree that is used is not one that a creation still works on.
LEMMA NotMade ==
    ASSUME SInv, NEW i \in Id, HandedOver(i), NEW p \in Proc, pc[p] \in Making
    PROVE  job[p].id \in Id \ {i}
BY DEF SInv, JobFits, HandedOver, Making

\* Files change in a worktree that was handed over.
LEMMA WorkStep ==
    ASSUME SInv, NEW i \in Id, Work(i)
    PROVE  SInv'
<1>1. /\ TypeOK /\ HandedOver(i) /\ reg[i] \in {"ok", "switched"} /\ tree[i] \in {"clean", "dirty"}
      /\ UNCHANGED <<store, lock, branch, reg, adding, pc, job, history>> /\ adding[i] = "none"
      /\ tree' \in [Id -> Trees]
      /\ tree'[i] \in {"clean", "dirty"} /\ \A k \in Id \ {i} : tree'[k] = tree[k]
  BY DEF SInv, Work, HandedOver, TypeOK, Trees
<1>2. TypeOK'
  BY <1>1, TypeParts, Unchanged DEF TypeOK, GitTypes
<1>3. \A k \in Id : TreeFits(k)'
  BY <1>1 DEF SInv, TreeFits
<1>4. AllManaged'
  BY <1>1 DEF SInv, AllManaged, Present, Managed, store, history
<1>5. \A p \in Proc : JobFits(p)'
  BY <1>1 DEF SInv, JobFits
<1>6. \A p \in Proc : pc[p] \in Making => Makes(p, job[p].id)'
  BY <1>1, NotMade DEF SInv, Makes, Present, Managed, store, history
<1>7. ASSUME NEW p \in Proc, pc[p] \in Reaping PROVE ReapFits(p)'
  <2>1. ReapFits(p)
    BY <1>7 DEF SInv
  <2>2. ASSUME NEW k \in Id \ job[p].orphans PROVE Reaps(p, k)'
    BY <1>1, <2>1, <2>2 DEF ReapFits, Reaps
  <2>3. QED
    BY <1>1, <2>1, <2>2 DEF ReapFits, store, history
<1>8. QED
  BY <1>1, <1>2, <1>3, <1>4, <1>5, <1>6, <1>7 DEF SInv

\* What is changed behind the back of a running reap is excused.
LEMMA TouchStep ==
    ASSUME SInv, NEW i \in Id, Touch(i)
    PROVE  SInv'
<1>1. /\ TypeOK /\ HandedOver(i) /\ adding[i] = "none" /\ TreeFits(i)
      /\ UNCHANGED <<store, lock, branch, adding, pc, abandoned, faults>>
      /\ touches < MaxTouches /\ touches' = touches + 1
      /\ job' = [p \in Proc |-> [job[p] EXCEPT !.excused = @ \cup ({i} \cap job[p].entries)]]
  BY DEF SInv, Touch, HandedOver
<1>2. /\ tree' \in [Id -> Trees] /\ reg' \in [Id -> Registrations]
      /\ \A k \in Id \ {i} : tree'[k] = tree[k] /\ reg'[k] = reg[k]
      /\ reg[i] = "none" => reg'[i] = "none"
      /\ TreeFits(i)'
  <2>1. tree \in [Id -> Trees] /\ reg \in [Id -> Registrations]
    BY <1>1 DEF TypeOK
  <2>2. CASE tree' = [tree EXCEPT ![i] = "none"] /\ UNCHANGED reg
    BY <1>1, <2>1, <2>2 DEF TreeFits, Trees
  <2>3. CASE tree[i] = "none" /\ reg' = [reg EXCEPT ![i] = "none"] /\ UNCHANGED tree
    BY <1>1, <2>1, <2>3 DEF TreeFits, Registrations
  <2>4. CASE reg[i] = "ok" /\ tree' = [tree EXCEPT ![i] = "none"] /\ reg' = [reg EXCEPT ![i] = "moved"]
    BY <1>1, <2>1, <2>4 DEF TreeFits, Trees, Registrations
  <2>5. CASE reg[i] = "ok" /\ reg' = [reg EXCEPT ![i] = "switched"] /\ UNCHANGED tree
    BY <1>1, <2>1, <2>5 DEF TreeFits, Registrations
  <2>6. CASE (\E t \in {"empty", "foreign"} : tree' = [tree EXCEPT ![i] = t]) /\ UNCHANGED reg
    BY <1>1, <2>1, <2>6 DEF TreeFits, Trees
  <2>7. QED
    BY <2>2, <2>3, <2>4, <2>5, <2>6 DEF Touch
<1>3. ASSUME NEW p \in Proc
      PROVE  /\ job'[p] \in Jobs /\ job'[p].op = job[p].op /\ job'[p].id = job[p].id
             /\ job'[p].errors = job[p].errors /\ job'[p].entries = job[p].entries
             /\ job'[p].seen = job[p].seen /\ job'[p].left = job[p].left
             /\ job'[p].reaped = job[p].reaped /\ job'[p].orphans = job[p].orphans
             /\ job'[p].excused = job[p].excused \cup ({i} \cap job[p].entries)
             /\ job[p].entries = {} => job'[p] = job[p]
  <2>1. job[p] \in Jobs /\ job'[p] = [job[p] EXCEPT !.excused = @ \cup ({i} \cap job[p].entries)]
    BY <1>1, <1>3 DEF TypeOK
  <2>2. job[p].entries = {} => job[p].excused \cup ({i} \cap job[p].entries) = job[p].excused
    OBVIOUS
  <2>3. job[p].entries = {} => job'[p] = job[p]
    BY <2>1, <2>2 DEF Jobs
  <2>4. QED
    BY <2>1, <2>3 DEF Jobs
<1>4. ControlTypes'
  <2>1. \A p \in Proc : pc[p] = "idle" => job'[p] = NoJob
    <3> SUFFICES ASSUME NEW p \in Proc, pc[p] = "idle" PROVE job'[p] = NoJob
      OBVIOUS
    <3>1. job[p] = NoJob
      BY <1>1 DEF TypeOK
    <3>2. job[p].entries = {}
      BY <3>1 DEF NoJob
    <3>3. job'[p] = job[p]
      BY <1>3, <3>2
    <3>4. QED
      BY <3>1, <3>3
  <2>2. QED
    BY <1>1, <2>1 DEF TypeOK, ControlTypes
<1>5. TypeOK'
  <2>1. job' \in [Proc -> Jobs]
    BY <1>1, <1>3
  <2>2. touches' \in 0 .. MaxTouches
    BY <1>1, SandboxAssumption DEF TypeOK
  <2>3. QED
    BY <1>1, <1>2, <1>4, <2>1, <2>2, TypeParts, Unchanged DEF TypeOK, GitTypes, HistoryTypes
<1>6. \A k \in Id : TreeFits(k)'
  BY <1>1, <1>2 DEF SInv, TreeFits
<1>7. AllManaged'
  BY <1>1, <1>2 DEF SInv, AllManaged, Present, Managed, store
<1>8. \A p \in Proc : JobFits(p)'
  BY <1>1, <1>3 DEF SInv, JobFits
<1>9. ASSUME NEW p \in Proc, pc[p] \in Making PROVE Makes(p, job[p].id)'
  <2>1. Makes(p, job[p].id) /\ job[p].id \in Id \ {i}
    BY <1>1, <1>9, NotMade DEF SInv
  <2>2. QED
    BY <1>1, <1>2, <1>3, <2>1 DEF Makes, Present, Managed, store
<1>10. ASSUME NEW p \in Proc, pc[p] \in Reaping PROVE ReapFits(p)'
  <2>1. ReapFits(p)
    BY <1>10 DEF SInv
  <2>2. ASSUME NEW k \in Id \ job[p].orphans PROVE Reaps(p, k)'
    <3>1. Reaps(p, k)
      BY <2>1, <2>2 DEF ReapFits
    <3>2. CASE k = i
      <4>1. i \in job[p].left \/ (pc[p] = "remove" /\ i = job[p].id) => i \in job[p].entries
        BY <1>10, <2>1 DEF SInv, ReapFits, JobFits
      <4>2. QED
        BY <1>1, <1>2, <1>3, <3>1, <3>2, <4>1 DEF Reaps
    <3>3. CASE k # i
      BY <1>1, <1>2, <1>3, <3>1, <3>3 DEF Reaps
    <3>4. QED
      BY <3>2, <3>3
  <2>3. QED
    BY <1>1, <1>3, <2>1, <2>2 DEF ReapFits, store
<1>11. QED
  BY <1>1, <1>5, <1>6, <1>7, <1>8, <1>9, <1>10 DEF SInv

-----------------------------------------------------------------------------
\* The invariant is inductive

\* The invariant holds at first.
LEMMA InitSInv == Init => SInv
<1> SUFFICES ASSUME Init PROVE SInv
  OBVIOUS
<1>1. \A p \in Proc : pc[p] = "idle" /\ job[p] = NoJob
  BY DEF Init
<1>2. TypeOK
  <2>1. /\ pc \in [Proc -> Labels] /\ job \in [Proc -> Jobs]
        /\ tree \in [Id -> Trees] /\ reg \in [Id -> Registrations] /\ adding \in [Id -> Stages]
    BY NoJobType DEF Init, Labels, Trees, Registrations, Stages
  <2>2. \A p \in Proc : pc[p] \notin {"idle", "lock"} <=> lock = p
    BY <1>1, SandboxAssumption DEF Init
  <2>3. faults \in 0 .. MaxFaults /\ touches \in 0 .. MaxTouches
    BY SandboxAssumption DEF Init
  <2>4. QED
    BY <1>1, <2>1, <2>2, <2>3 DEF Init, TypeOK
<1>3. \A p \in Proc : JobFits(p)
  BY <1>1 DEF JobFits, Making, Reaping, NoJob
<1>4. (\A i \in Id : TreeFits(i)) /\ AllManaged
  BY DEF Init, TreeFits, AllManaged, Present
<1>5. QED
  BY <1>1, <1>2, <1>3, <1>4 DEF SInv, Making, Reaping

\* Every step preserves it.
LEMMA Inductive == SInv /\ [Next]_vars => SInv'
<1> SUFFICES ASSUME SInv, [Next]_vars PROVE SInv'
  OBVIOUS
<1>1. CASE UNCHANGED vars
  <2>1. UNCHANGED <<manifest, onDisk, lock, branch, tree, reg, adding, pc, job, abandoned, faults, touches>>
    BY <1>1 DEF vars, store, git, history
  <2>2. TypeOK'
    BY <2>1 DEF SInv, TypeOK
  <2>3. \A p \in Proc : JobFits(p)'
    BY <2>1 DEF SInv, JobFits
  <2>4. (\A i \in Id : TreeFits(i)') /\ AllManaged'
    BY <2>1 DEF SInv, TreeFits, AllManaged, Present, Managed
  <2>5. \A p \in Proc : pc'[p] \in Making => Makes(p, job[p].id)'
    BY <2>1 DEF SInv, Makes, Present, Managed
  <2>6. \A p \in Proc : pc'[p] \in Reaping => ReapFits(p)'
    BY <2>1 DEF SInv, ReapFits, Reaps
  <2>7. QED
    BY <2>2, <2>3, <2>4, <2>5, <2>6 DEF SInv
<1>2. ASSUME NEW p \in Proc, Falsiq(p) PROVE SInv'
  BY <1>2, StartStep, LockStep, CreateStep, AddStep, CreatedStep, UndoTreeStep, UndoBranchStep,
     ForgetStep, LoadStep, PickStep, RemoveStep, DropBranchStep, DropEntriesStep DEF Falsiq
<1>3. ASSUME NEW p \in Proc, Kill(p) PROVE SInv'
  BY <1>3, KillStep
<1>4. ASSUME NEW i \in Id, Git(i) \/ Work(i) \/ Touch(i) PROVE SInv'
  BY <1>4, GitStep, WorkStep, TouchStep
<1>5. QED
  BY <1>1, <1>2, <1>3, <1>4, PowerLossStep DEF Next

-----------------------------------------------------------------------------
\* Theorems

\* Every reachable state has the types: among others, that at most one process is
\* between reading the manifest and giving the lock back (_manifest_lock).
THEOREM TypeCorrect == Spec => []TypeOK
<1>1. SInv => TypeOK
  BY DEF SInv
<1>2. QED
  BY <1>1, InitSInv, Inductive, PTL DEF Spec

\* What git has of a sandbox is in every manifest that a loss of power may leave,
\* whatever fails and whoever is killed in between.
THEOREM AlwaysAccounted == Spec => []NothingUnmanaged
<1>1. SInv => NothingUnmanaged
  BY DEF SInv, NothingUnmanaged, AllManaged, Present, Managed
<1>2. QED
  BY <1>1, InitSInv, Inductive, PTL DEF Spec

\* A forced reap leaves only what it was hindered on or what git refuses (reap_worktrees).
THEOREM ForcedReapIsThorough == Spec => []ForcedReapClears
<1>1. SInv => ForcedReapClears
  <2> SUFFICES ASSUME SInv, NEW p \in Proc, pc[p] = "pick", job[p].op = "force", job[p].left = {},
                      NEW i \in job[p].entries \ (job[p].excused \cup job[p].orphans)
               PROVE  IF i \in job[p].reaped THEN i \notin branch /\ reg[i] = "none"
                      ELSE reg[i] \in {"locked", "moved", "switched"} \/ tree[i] \in {"empty", "foreign"}
    BY DEF ForcedReapClears
  <2>1. ReapFits(p) /\ i \in Id
    BY DEF SInv, Reaping, TypeOK, Jobs
  <2>2. Reaps(p, i)
    BY <2>1 DEF ReapFits
  <2>3. QED
    BY <2>2 DEF Reaps
<1>2. QED
  BY <1>1, InitSInv, Inductive, PTL DEF Spec

\* Neither a creation that rolls back nor a reap without --force takes uncommitted work.
THEOREM WorkIsKept == Spec => DirtyKept
<1> DEFINE Kept == \A p \in Proc, i \in Id :
        pc'[p] # pc[p] /\ tree[i] = "dirty" /\ tree'[i] # "dirty" => job[p].op = "force"
<1>1. SInv /\ [Next]_vars => Kept
  <2> SUFFICES ASSUME SInv, [Next]_vars, NEW p \in Proc, NEW i \in Id,
                      pc'[p] # pc[p], tree[i] = "dirty", tree'[i] # "dirty"
               PROVE  job[p].op = "force"
    OBVIOUS
  <2>1. TypeOK /\ (\A q \in Proc : JobFits(q)) /\ pc \in [Proc -> Labels] /\ tree \in [Id -> Trees]
    BY DEF SInv, TypeOK
  <2>2. ASSUME NEW q \in Proc, UndoTree(q) PROVE FALSE
    <3>1. Makes(q, job[q].id) /\ pc[q] = "untree"
      BY <2>2 DEF SInv, UndoTree, Making
    <3>2. \A k \in Id \ {job[q].id} : tree'[k] = tree[k]
      BY <2>1, <2>2 DEF UndoTree, Unregister
    <3>3. QED
      BY <3>1, <3>2 DEF Makes
  <2>3. ASSUME NEW q \in Proc, Pick(q) PROVE FALSE
    <3>1. tree' = tree \/ \E k \in Id : tree[k] = "empty" /\ tree' = [tree EXCEPT ![k] = "none"]
      <4>1. job[q].left \subseteq Id
        BY DEF SInv, TypeOK, Jobs
      <4>2. QED
        BY <2>3, <4>1 DEF Pick
    <3>2. QED
      BY <2>1, <3>1
  <2>4. ASSUME NEW q \in Proc, Remove(q) PROVE job[p].op = "force"
    <3>1. q = p /\ pc[q] = "remove"
      BY <2>1, <2>4 DEF Remove, Goto, Preserve, Hindered
    <3>2. job[q].op \in {"reap", "force"}
      BY <2>1, <3>1 DEF JobFits, Reaping, TypeOK, Jobs
    <3>3. CASE job[q].op # "force"
      <4>1. Removable(job[q].id) /\ Unregister(job[q].id)
        BY <2>4, <3>3 DEF Remove, Current
      <4>2. tree[job[q].id] # "dirty" /\ \A k \in Id \ {job[q].id} : tree'[k] = tree[k]
        BY <2>1, <4>1 DEF Removable, Dirty, Unregister
      <4>3. QED
        BY <4>2
    <3>4. QED
      BY <3>1, <3>3
  <2>5. ASSUME NEW q \in Proc, Falsiq(q), ~UndoTree(q), ~Pick(q), ~Remove(q) PROVE FALSE
    BY <2>5 DEF Falsiq, New, Reap, Start, Lock, Create, Add, Created, UndoBranch, Forget, Load,
                DropBranch, DropEntries, git
  <2>6. ASSUME NEW k \in Id, Git(k) \/ Work(k) \/ Touch(k) PROVE FALSE
    BY <2>6 DEF Git, AddBranch, AddRegister, AddCheckout, AddFails, Work, Touch
  <2>7. ASSUME NEW q \in Proc, Kill(q) PROVE FALSE
    BY <2>7 DEF Kill
  <2>8. CASE PowerLoss
    BY <2>8 DEF PowerLoss
  <2>9. CASE UNCHANGED vars
    BY <2>9 DEF vars, git
  <2>10. QED
    BY <2>2, <2>3, <2>4, <2>5, <2>6, <2>7, <2>8, <2>9 DEF Next
<1>2. QED
  BY <1>1, InitSInv, Inductive, PTL DEF Spec, DirtyKept

\* What is not the managed worktree stays, and so does a branch that is used elsewhere.
THEOREM OthersAreKept == Spec => ForeignKept
<1> DEFINE Kept(i) ==
        /\ tree[i] = "foreign" => tree'[i] = "foreign"
        /\ reg[i] = "moved" => reg'[i] = "moved" /\ (i \in branch => i \in branch')
<1>1. ASSUME SInv, [Next]_vars, NEW i \in Id \ abandoned' PROVE Kept(i)
  <2>1. /\ TypeOK /\ (\A q \in Proc : JobFits(q)) /\ TreeFits(i)
        /\ tree \in [Id -> Trees] /\ reg \in [Id -> Registrations]
    BY <1>1 DEF SInv, TypeOK
  <2>2. ASSUME NEW q \in Proc, UndoTree(q) PROVE Kept(i)
    BY <2>1, <2>2 DEF UndoTree, Forcible, Unregister
  <2>3. ASSUME NEW q \in Proc, UndoBranch(q) PROVE Kept(i)
    <3>1. Makes(q, job[q].id)
      BY <1>1, <2>3 DEF SInv, UndoBranch, Making
    <3>2. UNCHANGED <<tree, reg, abandoned>> /\ branch' \in {branch, branch \ {job[q].id}}
      BY <2>3 DEF UndoBranch, history, Fault
    <3>3. QED
      BY <3>1, <3>2 DEF Makes
  <2>4. ASSUME NEW q \in Proc, Pick(q) PROVE Kept(i)
    <3>1. /\ UNCHANGED <<branch, reg>>
          /\ tree' = tree \/ \E k \in Id : tree[k] = "empty" /\ tree' = [tree EXCEPT ![k] = "none"]
      <4>1. job[q].left \subseteq Id
        BY <1>1 DEF SInv, TypeOK, Jobs
      <4>2. QED
        BY <2>4, <4>1 DEF Pick
    <3>2. QED
      BY <2>1, <3>1
  <2>5. ASSUME NEW q \in Proc, Remove(q) PROVE Kept(i)
    BY <2>1, <2>5 DEF Remove, Removable, Forcible, Unregister
  <2>6. ASSUME NEW q \in Proc, DropBranch(q) PROVE Kept(i)
    <3>1. ReapFits(q) /\ pc[q] = "branch" /\ UNCHANGED <<tree, reg>>
      BY <1>1, <2>6 DEF SInv, DropBranch, Reaping
    <3>2. CASE branch' = branch
      BY <3>1, <3>2
    <3>3. CASE /\ branch' = branch \ {job[q].id}
               /\ abandoned' = abandoned \cup ({job[q].id} \cap job[q].orphans)
      <4>1. i = job[q].id => reg[i] = "none"
        BY <1>1, <3>1, <3>3 DEF ReapFits, Reaps
      <4>2. QED
        BY <3>1, <3>3, <4>1
    <3>4. QED
      BY <2>6, <3>2, <3>3 DEF DropBranch, Current
  <2>7. ASSUME NEW q \in Proc, Falsiq(q), ~UndoTree(q), ~UndoBranch(q), ~Pick(q), ~Remove(q), ~DropBranch(q)
        PROVE  Kept(i)
    BY <2>7 DEF Falsiq, New, Reap, Start, Lock, Create, Add, Created, Forget, Load, DropEntries, git
  <2>8. ASSUME NEW k \in Id, Git(k) PROVE Kept(i)
    <3>1. CASE AddBranch(k)
      BY <3>1 DEF AddBranch
    <3>2. CASE AddRegister(k)
      BY <2>1, <3>2 DEF AddRegister
    <3>3. CASE AddCheckout(k)
      BY <2>1, <3>3 DEF AddCheckout, TreeFits
    <3>4. CASE AddFails(k)
      BY <2>1, <3>4 DEF AddFails, TreeFits, Unregister
    <3>5. QED
      BY <2>8, <3>1, <3>2, <3>3, <3>4 DEF Git
  <2>9. ASSUME NEW k \in Id, Work(k) PROVE Kept(i)
    BY <2>1, <2>9 DEF Work
  <2>10. ASSUME NEW k \in Id, Touch(k) PROVE Kept(i)
    BY <2>1, <2>10 DEF Touch
  <2>11. ASSUME NEW q \in Proc, Kill(q) PROVE Kept(i)
    BY <2>11 DEF Kill
  <2>12. CASE PowerLoss
    BY <2>12 DEF PowerLoss
  <2>13. CASE UNCHANGED vars
    BY <2>13 DEF vars, git
  <2>14. QED
    BY <1>1, <2>2, <2>3, <2>4, <2>5, <2>6, <2>7, <2>8, <2>9, <2>10, <2>11, <2>12, <2>13 DEF Next
<1>2. SInv /\ [Next]_vars => \A i \in Id \ abandoned' : Kept(i)
  BY <1>1
<1>3. QED
  BY <1>2, InitSInv, Inductive, PTL DEF Spec, ForeignKept

=============================================================================
