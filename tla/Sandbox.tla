------------------------------- MODULE Sandbox -------------------------------
(***************************************************************************)
(* falsiq sandbox new and sandbox reap: disposable Git worktrees that a    *)
(* manifest accounts for.  A creation writes its manifest entry, runs git  *)
(* worktree add and rolls back when git or the validation fails; a reap    *)
(* looks at every entry and drops those it cleared in one manifest write.  *)
(* Both run under the lock of the manifest.                                *)
(*                                                                         *)
(* git is a process of its own: it goes on when the falsiq process that    *)
(* started it is killed and the lock is free again.  What git has done is  *)
(* taken to be on disk; only the manifest can be lost with the power.      *)
(* Worktrees are used, edited and removed behind falsiq's back once they   *)
(* exist.  One git worktree add runs per sandbox id at a time.             *)
(***************************************************************************)
EXTENDS FiniteSets, Naturals, TLC

CONSTANTS
    Proc,       \* falsiq processes
    NoProc,     \* the lock of the manifest is free
    Id,         \* sandbox ids
    NoId,       \* a process that creates nothing
    Faults,     \* the kinds of fault a behaviour may contain
    MaxFaults,  \* how many
    MaxTouches  \* how often a worktree is removed, moved, switched or replaced

ASSUME SandboxAssumption ==
    /\ NoProc \notin Proc
    /\ NoId \notin Id
    /\ IsFiniteSet(Id)
    /\ Faults \subseteq {"write", "git", "gitkill", "kill", "head", "power"}
    /\ MaxFaults \in Nat /\ MaxTouches \in Nat

VARIABLES
    manifest,   \* the ids that the manifest names
    onDisk,     \* the manifests that a loss of power may leave
    lock,       \* holder of .lock
    branch,     \* the ids whose managed branch exists
    tree,       \* what is at the managed path of each id
    reg,        \* how git has registered the worktree of each id
    adding,     \* how far git worktree add has come for each id
    pc,         \* what each process does next
    job,        \* its operation, and what it has found and done so far
    abandoned,  \* ids that were reaped while git was still adding them
    faults,     \* how many faults so far
    touches     \* how many times a worktree was changed behind falsiq's back

store == <<manifest, onDisk>>
git == <<branch, tree, reg, adding>>
history == <<abandoned, faults, touches>>
vars == <<store, lock, git, pc, job, history>>

Labels == {"idle", "lock", "create", "add", "adding", "untree", "unbranch", "forget",
           "reap", "pick", "remove", "branch", "drop"}

Stages == {"none", "branch", "register", "checkout", "ok", "failed"}

Trees == {"none", "empty", "partial", "clean", "dirty", "foreign"}

\* Registered at the managed path on the managed branch, by a git that has not
\* finished or that has; at another path; on another branch
Registrations == {"none", "locked", "ok", "moved", "switched"}

\* errors: of a creation, that its rollback failed.  Of a reap, the manifest and
\* registrations it has read, the ids it has not looked at and those it cleared,
\* those that git was still adding when it began, and those that something hindered
Jobs == [op : {"create", "reap", "force"}, id : Id \cup {NoId}, errors : BOOLEAN,
         entries : SUBSET Id, seen : [Id -> Registrations], left : SUBSET Id,
         reaped : SUBSET Id, orphans : SUBSET Id, excused : SUBSET Id]

NoJob == [op |-> "reap", id |-> NoId, errors |-> FALSE, entries |-> {},
          seen |-> [i \in Id |-> "none"], left |-> {}, reaped |-> {}, orphans |-> {},
          excused |-> {}]

-----------------------------------------------------------------------------
\* Steps shared by the operations

Fault(kind) ==
    /\ kind \in Faults /\ faults < MaxFaults
    /\ faults' = faults + 1
    /\ UNCHANGED <<abandoned, touches>>

Goto(p, label) == pc' = [pc EXCEPT ![p] = label]

Leave(p) ==
    /\ Goto(p, "idle")
    /\ job' = [job EXCEPT ![p] = NoJob]
    /\ lock' = IF lock = p THEN NoProc ELSE lock

\* _write_manifest: replaced, and its directory synced
Write(m) == manifest' = m /\ onDisk' = {m}

\* It fails before the replacement, or after it and before the directory is synced
WriteFails(m) ==
    /\ Fault("write")
    /\ \/ UNCHANGED store
       \/ manifest' = m /\ onDisk' = onDisk \cup {m}

Exists(i) == tree[i] # "none"

\* git status on a worktree of the managed branch; without the branch all files
\* are new
Dirty(i) == tree[i] \in {"dirty", "partial"} \/ i \notin branch

\* What git worktree remove --force accepts, and what it accepts without --force
Forcible(i) == reg[i] \in {"ok", "switched"} /\ tree[i] \notin {"empty", "foreign"}
Removable(i) == Forcible(i) /\ (tree[i] = "none" \/ ~Dirty(i))

Unregister(i) ==
    /\ tree' = [tree EXCEPT ![i] = "none"]
    /\ reg' = [reg EXCEPT ![i] = "none"]

-----------------------------------------------------------------------------
\* sandbox new

Start(p, op, i) ==
    /\ pc[p] = "idle"
    /\ Goto(p, "lock")
    /\ job' = [job EXCEPT ![p] = [NoJob EXCEPT !.op = op, !.id = i]]
    /\ UNCHANGED <<store, lock, git, history>>

New(p) == \E i \in Id : Start(p, "create", i)
Reap(p) == \E op \in {"reap", "force"} : Start(p, op, NoId)

AfterLock(p) == IF job[p].op = "create" THEN "create" ELSE "reap"

\* Variant: the transactions are not serialized
LockShared(p) ==
    /\ pc[p] = "lock"
    /\ lock' = p
    /\ Goto(p, AfterLock(p))
    /\ UNCHANGED <<store, git, job, history>>

Lock(p) ==
    /\ pc[p] = "lock" /\ lock = NoProc
    /\ lock' = p
    /\ Goto(p, AfterLock(p))
    /\ UNCHANGED <<store, git, job, history>>

\* Refuse an id that is known in any way, or a repository with other changes; else
\* write the entry
Create(p) ==
    /\ pc[p] = "create"
    /\ LET i == job[p].id
           known == i \in manifest \/ Exists(i) \/ reg[i] \notin {"none", "moved"} \/ i \in branch
       IN  \/ Leave(p) /\ UNCHANGED <<store, history>>
           \/ ~known /\ Write(manifest \cup {i}) /\ Goto(p, "add") /\ UNCHANGED <<lock, job, history>>
           \/ ~known /\ WriteFails(manifest \cup {i}) /\ Leave(p)
    /\ UNCHANGED git

Add(p) ==
    /\ pc[p] = "add" /\ adding[job[p].id] = "none"
    /\ adding' = [adding EXCEPT ![job[p].id] = "branch"]
    /\ Goto(p, "adding")
    /\ UNCHANGED <<store, lock, branch, tree, reg, job, history>>

Awaited(i) == \E p \in Proc : pc[p] = "adding" /\ job[p].id = i

\* git ends with this result, which somebody may be waiting for
AddEnds(i, result) ==
    adding' = [adding EXCEPT ![i] = IF Awaited(i) THEN result ELSE "none"]

\* git worktree add: the branch, then a locked registration with its directory,
\* then the files
AddBranch(i) ==
    /\ adding[i] = "branch"
    /\ IF i \in branch THEN AddEnds(i, "failed") /\ UNCHANGED branch
       ELSE branch' = branch \cup {i} /\ adding' = [adding EXCEPT ![i] = "register"]
    /\ UNCHANGED <<store, lock, tree, reg, pc, job, history>>

AddRegister(i) ==
    /\ adding[i] = "register"
    /\ IF tree[i] \notin {"none", "empty"} \/ reg[i] # "none"
       THEN AddEnds(i, "failed") /\ UNCHANGED <<tree, reg>>
       ELSE /\ tree' = [tree EXCEPT ![i] = "partial"]
            /\ reg' = [reg EXCEPT ![i] = "locked"]
            /\ adding' = [adding EXCEPT ![i] = "checkout"]
    /\ UNCHANGED <<store, lock, branch, pc, job, history>>

AddCheckout(i) ==
    /\ adding[i] = "checkout"
    /\ tree' = [tree EXCEPT ![i] = "clean"]
    /\ reg' = [reg EXCEPT ![i] = "ok"]
    /\ AddEnds(i, "ok")
    /\ UNCHANGED <<store, lock, branch, pc, job, history>>

\* git fails by itself and takes the registration and the directory away, never
\* the branch; or it is killed and leaves everything
AddFails(i) ==
    /\ adding[i] \in {"branch", "register", "checkout"}
    /\ AddEnds(i, "failed")
    /\ \/ Fault("git") /\ IF adding[i] = "checkout" THEN Unregister(i) ELSE UNCHANGED <<tree, reg>>
       \/ Fault("gitkill") /\ UNCHANGED <<tree, reg>>
    /\ UNCHANGED <<store, lock, branch, pc, job>>

\* _validate_created_worktree refuses when HEAD has moved since the lock was taken
Created(p) ==
    /\ pc[p] = "adding" /\ adding[job[p].id] \in {"ok", "failed"}
    /\ adding' = [adding EXCEPT ![job[p].id] = "none"]
    /\ \/ adding[job[p].id] = "ok" /\ Leave(p) /\ UNCHANGED history
       \/ adding[job[p].id] = "ok" /\ Fault("head") /\ Goto(p, "untree") /\ UNCHANGED <<lock, job>>
       \/ adding[job[p].id] = "failed" /\ Goto(p, "untree") /\ UNCHANGED <<lock, job, history>>
    /\ UNCHANGED <<store, branch, tree, reg>>

\* _rollback_creation: the worktree or an empty directory, where the listing of
\* the worktrees or git may fail
UndoTree(p) ==
    /\ pc[p] = "untree"
    /\ LET i == job[p].id
           listed == reg[i] \in {"locked", "ok", "switched"}
           errors(e) == job' = [job EXCEPT ![p].errors = e]
       IN  \/ /\ listed /\ Forcible(i)
              /\ Unregister(i) /\ errors(FALSE) /\ UNCHANGED history
           \/ /\ ~listed /\ tree[i] \in {"none", "empty"}
              /\ tree' = [tree EXCEPT ![i] = "none"] /\ errors(FALSE)
              /\ UNCHANGED <<reg, history>>
           \/ /\ IF listed THEN ~Forcible(i) ELSE tree[i] \notin {"none", "empty"}
              /\ errors(TRUE) /\ UNCHANGED <<tree, reg, history>>
           \/ Fault("git") /\ errors(TRUE) /\ UNCHANGED <<tree, reg>>
    /\ Goto(p, "unbranch")
    /\ UNCHANGED <<store, lock, branch, adding>>

\* Variant: the entry is forgotten although something stayed
UndoAndForget(p) ==
    /\ pc[p] = "unbranch"
    /\ branch' = branch \ {job[p].id}
    /\ Goto(p, "forget")
    /\ UNCHANGED <<store, lock, tree, reg, adding, job, history>>

\* The branch is deleted even when the worktree was not
UndoBranch(p) ==
    /\ pc[p] = "unbranch"
    /\ \/ /\ branch' = branch \ {job[p].id}
          /\ IF job[p].errors THEN Leave(p) ELSE Goto(p, "forget") /\ UNCHANGED <<lock, job>>
          /\ UNCHANGED history
       \/ Fault("git") /\ Leave(p) /\ UNCHANGED branch
    /\ UNCHANGED <<store, tree, reg, adding>>

\* Only a complete rollback takes the entry out of the manifest
Forget(p) ==
    /\ pc[p] = "forget"
    /\ LET m == manifest \ {job[p].id}
       IN  \/ Write(m) /\ UNCHANGED history
           \/ WriteFails(m)
    /\ Leave(p)
    /\ UNCHANGED git

-----------------------------------------------------------------------------
\* sandbox reap

\* Read the manifest and, once for all entries, the registered worktrees
Load(p) ==
    /\ pc[p] = "reap"
    /\ \/ /\ job' = [job EXCEPT ![p].entries = manifest, ![p].seen = reg, ![p].left = manifest,
                                ![p].orphans = {i \in Id : adding[i] # "none"}]
          /\ Goto(p, "pick")
          /\ UNCHANGED <<lock, history>>
       \/ Fault("git") /\ Leave(p)
    /\ UNCHANGED <<store, git>>

Current(p) == job[p].id

\* Variant: the first error ends the loop
StopAtFirst(p, i) ==
    /\ Goto(p, "pick")
    /\ job' = [job EXCEPT ![p].id = NoId, ![p].left = {}]

\* An error ends the work on one entry, not on the others
Preserve(p, i) ==
    /\ Goto(p, "pick")
    /\ job' = [job EXCEPT ![p].id = NoId, ![p].left = @ \ {i}]

\* Where git fails, or cannot be run
Hindered(p) ==
    /\ Fault("git")
    /\ Goto(p, "pick")
    /\ job' = [job EXCEPT ![p].id = NoId, ![p].excused = @ \cup {Current(p)}]

\* The worktree at the managed path is ours and on the managed branch
IsOurs(i) == reg[i] \in {"locked", "ok"} /\ tree[i] \notin {"empty", "foreign"}

\* The managed branch is registered at an unexpected path
\* Variant: that is not looked for
NowhereElse(p, i) == FALSE
Elsewhere(p, i) == job[p].seen[i] = "moved"

\* Look at an entry: refuse it, or go on with its worktree or its branch
Pick(p) ==
    /\ pc[p] = "pick" /\ job[p].left # {}
    /\ \E i \in job[p].left :
        LET seen == job[p].seen[i]
            take(label) == Goto(p, label) /\ job' = [job EXCEPT ![p].id = i, ![p].left = @ \ {i}]
            registered == seen \notin {"none", "moved"}
        IN  \/ /\ Elsewhere(p, i)
               /\ Preserve(p, i) /\ UNCHANGED <<tree, history>>
            \/ /\ seen = "none" /\ Exists(i)
               /\ IF tree[i] = "empty"
                  THEN take("branch") /\ tree' = [tree EXCEPT ![i] = "none"]
                  ELSE Preserve(p, i) /\ UNCHANGED tree
               /\ UNCHANGED history
            \/ /\ registered /\ Exists(i)
               /\ IF IsOurs(i) /\ (Dirty(i) => job[p].op = "force") THEN take("remove") ELSE Preserve(p, i)
               /\ UNCHANGED <<tree, history>>
            \/ /\ ~Elsewhere(p, i) /\ ~Exists(i)
               /\ take(IF registered THEN "remove" ELSE "branch")
               /\ UNCHANGED <<tree, history>>
            \/ /\ registered /\ Exists(i)
               /\ Fault("git")
               /\ Goto(p, "pick")
               /\ job' = [job EXCEPT ![p].left = @ \ {i}, ![p].excused = @ \cup {i}]
               /\ UNCHANGED tree
    /\ UNCHANGED <<store, lock, branch, reg, adding>>

\* git worktree remove, with --force on a forced reap; git looks for itself
\* whether the worktree is registered, locked, ours and clean
Remove(p) ==
    /\ pc[p] = "remove"
    /\ LET i == Current(p)
           accepted == IF job[p].op = "force" THEN Forcible(i) ELSE Removable(i)
       IN  \/ accepted /\ Unregister(i) /\ Goto(p, "branch") /\ UNCHANGED <<job, history>>
           \/ ~accepted /\ Preserve(p, i) /\ UNCHANGED <<tree, reg, history>>
           \/ Hindered(p) /\ UNCHANGED <<tree, reg>>
    /\ UNCHANGED <<store, lock, branch, adding>>

\* update-ref -d
DropBranch(p) ==
    /\ pc[p] = "branch"
    /\ \/ /\ branch' = branch \ {Current(p)}
          /\ Goto(p, "pick")
          /\ job' = [job EXCEPT ![p].id = NoId, ![p].reaped = @ \cup {Current(p)}]
          /\ abandoned' = abandoned \cup ({Current(p)} \cap job[p].orphans)
          /\ UNCHANGED <<faults, touches>>
       \/ Hindered(p) /\ UNCHANGED branch
    /\ UNCHANGED <<store, lock, tree, reg, adding>>

\* One write drops the entries that were reaped from the manifest that was read
DropEntries(p) ==
    /\ pc[p] = "pick" /\ job[p].left = {}
    /\ LET m == job[p].entries \ job[p].reaped
       IN  \/ job[p].reaped = {} /\ UNCHANGED <<store, history>>
           \/ job[p].reaped # {} /\ Write(m) /\ UNCHANGED history
           \/ job[p].reaped # {} /\ WriteFails(m)
    /\ Leave(p)
    /\ UNCHANGED git

-----------------------------------------------------------------------------
\* The surroundings

\* A process dies: the lock is free, git goes on
Kill(p) ==
    /\ pc[p] # "idle"
    /\ Fault("kill")
    /\ Leave(p)
    /\ adding' = [i \in Id |-> IF pc[p] = "adding" /\ job[p].id = i /\ adding[i] \in {"ok", "failed"}
                               THEN "none" ELSE adding[i]]
    /\ UNCHANGED <<store, branch, tree, reg>>

\* Everything stops, and the manifest is one that the disk may hold
PowerLoss ==
    /\ Fault("power")
    /\ \E m \in onDisk : Write(m)
    /\ pc' = [p \in Proc |-> "idle"]
    /\ job' = [p \in Proc |-> NoJob]
    /\ lock' = NoProc
    /\ adding' = [i \in Id |-> "none"]
    /\ UNCHANGED <<branch, tree, reg>>

\* A worktree is handed over once its creation has ended
HandedOver(i) ==
    /\ adding[i] = "none"
    /\ \A p \in Proc : job[p].op = "create" /\ job[p].id = i => pc[p] \in {"lock", "create"}

\* Its user changes files, or commits
Work(i) ==
    /\ HandedOver(i) /\ reg[i] \in {"ok", "switched"} /\ tree[i] \in {"clean", "dirty"}
    /\ tree' = [tree EXCEPT ![i] = IF @ = "clean" THEN "dirty" ELSE "clean"]
    /\ UNCHANGED <<store, lock, branch, reg, adding, pc, job, history>>

\* The worktree is removed, and its registration pruned; it is moved, or switched
\* to another branch; something else is put at its path
Touch(i) ==
    /\ HandedOver(i) /\ touches < MaxTouches
    /\ \/ tree[i] \in {"clean", "dirty"} /\ tree' = [tree EXCEPT ![i] = "none"] /\ UNCHANGED reg
       \/ tree[i] = "none" /\ reg[i] \in {"ok", "switched"}
          /\ reg' = [reg EXCEPT ![i] = "none"] /\ UNCHANGED tree
       \/ tree[i] \in {"clean", "dirty"} /\ reg[i] = "ok"
          /\ tree' = [tree EXCEPT ![i] = "none"] /\ reg' = [reg EXCEPT ![i] = "moved"]
       \/ tree[i] \in {"clean", "dirty"} /\ reg[i] = "ok"
          /\ reg' = [reg EXCEPT ![i] = "switched"] /\ UNCHANGED tree
       \/ tree[i] = "none" /\ \E t \in {"empty", "foreign"} : tree' = [tree EXCEPT ![i] = t]
          /\ UNCHANGED reg
    /\ touches' = touches + 1
    /\ job' = [p \in Proc |-> [job[p] EXCEPT !.excused = @ \cup ({i} \cap job[p].entries)]]
    /\ UNCHANGED <<store, lock, branch, adding, pc, abandoned, faults>>

-----------------------------------------------------------------------------
Init ==
    /\ manifest = {} /\ onDisk = {{}}
    /\ lock = NoProc
    /\ branch = {}
    /\ tree = [i \in Id |-> "none"]
    /\ reg = [i \in Id |-> "none"]
    /\ adding = [i \in Id |-> "none"]
    /\ pc = [p \in Proc |-> "idle"]
    /\ job = [p \in Proc |-> NoJob]
    /\ abandoned = {} /\ faults = 0 /\ touches = 0

Falsiq(p) ==
    \/ New(p) \/ Lock(p) \/ Create(p) \/ Add(p) \/ Created(p)
    \/ UndoTree(p) \/ UndoBranch(p) \/ Forget(p)
    \/ Reap(p) \/ Load(p) \/ Pick(p) \/ Remove(p) \/ DropBranch(p) \/ DropEntries(p)

Git(i) == AddBranch(i) \/ AddRegister(i) \/ AddCheckout(i) \/ AddFails(i)

Next ==
    \/ \E p \in Proc : Falsiq(p) \/ Kill(p)
    \/ \E i \in Id : Git(i) \/ Work(i) \/ Touch(i)
    \/ PowerLoss

Spec == Init /\ [][Next]_vars

-----------------------------------------------------------------------------
\* Properties

\* The type invariant.  A job is empty when its process is idle, and the manifest
\* is one of those that may be on disk; the lock is held from reading the manifest
\* on, so that no two processes are inside at once (_manifest_lock).
TypeOK ==
    /\ manifest \in SUBSET Id /\ manifest \in onDisk /\ onDisk \subseteq SUBSET Id
    /\ lock \in Proc \cup {NoProc}
    /\ branch \subseteq Id
    /\ tree \in [Id -> Trees] /\ reg \in [Id -> Registrations] /\ adding \in [Id -> Stages]
    /\ pc \in [Proc -> Labels] /\ job \in [Proc -> Jobs]
    /\ abandoned \subseteq Id
    /\ faults \in 0 .. MaxFaults /\ touches \in 0 .. MaxTouches
    /\ \A p \in Proc : pc[p] = "idle" => job[p] = NoJob
    /\ \A p \in Proc : pc[p] \notin {"idle", "lock"} <=> lock = p

\* A managed branch or a registered worktree is in the manifest, whatever a loss of
\* power leaves of it, so that a reap can find it: the entry is durable before git
\* starts, and goes only after a complete rollback or reap.  Excepted are the ids
\* that were reaped while the git of a killed process was still adding them.
NothingUnmanaged ==
    \A i \in Id \ abandoned :
        i \in branch \/ reg[i] # "none" => \A m \in onDisk : i \in m

\* A forced reap that has looked at every entry has cleared each one that git could
\* clear: nothing stays but what is not ours or locked by a git that was killed,
\* what git failed on, and what somebody changed or was still adding meanwhile.
\* The failure of one entry does not keep another.
ForcedReapClears ==
    \A p \in Proc :
        pc[p] = "pick" /\ job[p].op = "force" /\ job[p].left = {} =>
            \A i \in job[p].entries \ (job[p].excused \cup job[p].orphans) :
                IF i \in job[p].reaped THEN i \notin branch /\ reg[i] = "none"
                ELSE reg[i] \in {"locked", "moved", "switched"} \/ tree[i] \in {"empty", "foreign"}

\* A step of falsiq takes uncommitted work only in a forced reap: also when the
\* files were changed between its look at the worktree and git's removal of it
\* (README: normal reap leaves dirty prototype worktrees in place).
DirtyKept ==
    [][\A p \in Proc, i \in Id :
        pc'[p] # pc[p] /\ tree[i] = "dirty" /\ tree'[i] # "dirty" => job[p].op = "force"]_vars

\* No step of falsiq removes a worktree that was moved, its branch, or what was put
\* in a worktree's place (reap does not remove unrelated worktrees or branches).  The
\* ids that were reaped while git was still adding them are excepted again.
ForeignKept ==
    [][\A i \in Id \ abandoned' :
        /\ tree[i] = "foreign" => tree'[i] = "foreign"
        /\ reg[i] = "moved" => reg'[i] = "moved" /\ (i \in branch => i \in branch')]_vars

=============================================================================
