---------------------------- MODULE CorpusRelease ----------------------------
(***************************************************************************)
(* The corpus of the evaluation.  eval/prepare_corpus.py splits an         *)
(* approved corpus and publishes two directories, the held-out tasks at a  *)
(* private path and the others, with a manifest of the held-out ones, at a *)
(* public path; the evaluation reads a held-out task after it has logged   *)
(* the access.                                                             *)
(*                                                                         *)
(* A release is one run of prepare_corpus_release and a reader one call of *)
(* read_private_holdout_task.  Each rename and each directory sync is a    *)
(* step, and so is what may go wrong between them.  Files are synced while *)
(* they are staged, so that a tree is complete wherever its name is.  The  *)
(* access log is appended to and synced, but the directory of a new one is *)
(* not.                                                                    *)
(***************************************************************************)
EXTENDS FiniteSets, Naturals, Sequences

CONSTANTS
    Release,       \* runs that publish
    Reader,        \* calls that read a held-out task
    None,          \* no release
    PublicPath,    \* where public directories may be published
    PrivatePath,   \* and private ones, which never overlap them
    Task,          \* task ids
    Strata,        \* the strata of a corpus
    Corpora,       \* what a source directory may hold: for each task its stratum,
                   \* whether it is human-curated, and its body
    CorpusPolicy,  \* how many tasks each stratum has
    SplitPolicy,   \* and how many of them are held out
    Faults,        \* the kinds of fault a behaviour may contain
    MaxFaults      \* how many

\* What a run has prepared
Plans ==
    [corpus : Corpora, held : SUBSET Task, public : PublicPath, private : PrivatePath]

ASSUME CorpusAssumption ==
    /\ None \notin Release \cup Plans
    /\ PublicPath \cap PrivatePath = {}
    /\ SplitPolicy \in [Strata -> Nat]
    /\ Faults \subseteq {"publish", "undo", "log", "kill", "power"}
    /\ MaxFaults \in Nat

VARIABLES
    step,      \* what each run does next, and on which of its two trees
    made,      \* the corpus it has read, its held-out tasks and its two targets
    staged,    \* its staging directories, by side
    place,     \* the release whose tree is at each path
    durable,   \* those that a loss of power may leave there
    unclean,   \* the runs that asked for manual cleanup
    reading,   \* what each reader does next
    access,    \* the task it reads, and the manifest that lists it
    opened,    \* whether it has read a body
    log,       \* the access log: its name, what was written to it, and how much is synced
    lost,      \* history: the readers whose events went with a log and its name
    faults     \* how many faults so far

publication == <<step, made, staged, place, durable, unclean>>
reads == <<reading, access, opened, log, lost>>
vars == <<publication, reads, faults>>

Sides == {"public", "private"}
Path == PublicPath \cup PrivatePath

\* In order: both staging directories, both trees, the private one, the public one
Forward == <<
    <<"mkdir", "public">>, <<"mkdir", "private">>, <<"fill", "public">>, <<"fill", "private">>,
    <<"rename", "private">>, <<"sync", "private">>, <<"rename", "public">>, <<"sync", "public">> >>

\* Public first, and each as far as it gets
Backward == <<
    <<"withdraw", "public">>, <<"resync", "public">>, <<"discard", "public">>,
    <<"withdraw", "private">>, <<"resync", "private">>, <<"discard", "private">> >>

Ends == {"idle", "done", "failed", "dead"}

-----------------------------------------------------------------------------
\* The split

InStratum(c, s) == {t \in DOMAIN c : c[t].stratum = s}

\* _require_approved_corpus
Approved(c) ==
    /\ \A s \in Strata : Cardinality(InStratum(c, s)) = CorpusPolicy[s]
    /\ \A t \in DOMAIN c : c[t].curated

\* select_holdout: the seed decides which, the policy how many of each stratum
Splits(c) ==
    {held \in SUBSET DOMAIN c :
        \A s \in Strata : Cardinality(held \cap InStratum(c, s)) = SplitPolicy[s]}

\* _prepare_release: the tasks of a tree.  The manifest in the public one names
\* the held-out tasks with the hashes of their bodies.
Tasks(r, side) ==
    IF side = "private" THEN made[r].held ELSE DOMAIN made[r].corpus \ made[r].held

Body(r, t) == made[r].corpus[t].body

-----------------------------------------------------------------------------
\* prepare_corpus_release

Fault(kind) == kind \in Faults /\ faults < MaxFaults /\ faults' = faults + 1

Target(r, side) == IF side = "public" THEN made[r].public ELSE made[r].private

Side(r) == step[r][2]
At(r, name) == step[r][1] = name

After(order, s) ==
    LET i == CHOOSE i \in DOMAIN order : order[i] = s IN order[i + 1]

\* The step succeeded
Proceed(r) ==
    step' = [step EXCEPT ![r] = IF @ = <<"sync", "public">> THEN <<"done", "public">>
                                ELSE After(Forward, @)]

\* Variant: the public output is taken to be the last step, with nothing to undo
FailsPrivate(r) == step' = [step EXCEPT ![r] = Backward[4]]

\* An OSError: both outputs are rolled back
Fails(r) == step' = [step EXCEPT ![r] = Backward[1]]

\* Variant: the counts and the curation of the corpus are not checked
AcceptsAny(plan) == plan.held \in Splits(plan.corpus)

Accepts(plan) == Approved(plan.corpus) /\ plan.held \in Splits(plan.corpus)

\* Validate paths and corpus; a dry run ends here
Prepare(r) ==
    /\ At(r, "idle")
    /\ \E plan \in Plans :
        /\ Accepts(plan)
        /\ place[plan.public] = None /\ place[plan.private] = None
        /\ made' = [made EXCEPT ![r] = plan]
    /\ \E next \in {Forward[1], <<"done", "public">>} : step' = [step EXCEPT ![r] = next]
    /\ UNCHANGED <<staged, place, durable, unclean, reads, faults>>

\* mkdtemp
Mkdir(r) ==
    /\ At(r, "mkdir")
    /\ \/ Proceed(r) /\ staged' = [staged EXCEPT ![r][Side(r)] = "part"] /\ UNCHANGED faults
       \/ Fault("publish") /\ Fails(r) /\ UNCHANGED staged
    /\ UNCHANGED <<made, place, durable, unclean, reads>>

\* _write_release_tree
Fill(r) ==
    /\ At(r, "fill")
    /\ \/ Proceed(r) /\ staged' = [staged EXCEPT ![r][Side(r)] = "full"] /\ UNCHANGED faults
       \/ Fault("publish") /\ Fails(r) /\ UNCHANGED staged
    /\ UNCHANGED <<made, place, durable, unclean, reads>>

\* A name changes; it is durable once its directory is synced
Name(x, r) ==
    /\ place' = [place EXCEPT ![x] = r]
    /\ durable' = [durable EXCEPT ![x] = @ \cup {r}]

\* _publish_directory: a target that has appeared is refused, by lstat or by rename
Rename(r) ==
    /\ At(r, "rename")
    /\ LET x == Target(r, Side(r))
       IN  \/ /\ place[x] = None
              /\ Name(x, r) /\ staged' = [staged EXCEPT ![r][Side(r)] = "moved"]
              /\ Proceed(r) /\ UNCHANGED faults
           \/ place[x] # None /\ Fails(r) /\ UNCHANGED <<staged, place, durable, faults>>
           \/ Fault("publish") /\ Fails(r) /\ UNCHANGED <<staged, place, durable>>
    /\ UNCHANGED <<made, unclean, reads>>

\* Variant: the directory is not synced
SkipSync(r) ==
    /\ At(r, "sync")
    /\ Proceed(r)
    /\ UNCHANGED <<made, staged, place, durable, unclean, reads, faults>>

Sync(r) ==
    /\ At(r, "sync")
    /\ LET x == Target(r, Side(r))
       IN  \/ Proceed(r) /\ durable' = [durable EXCEPT ![x] = {place[x]}] /\ UNCHANGED faults
           \/ Fault("publish") /\ Fails(r) /\ UNCHANGED durable
    /\ UNCHANGED <<made, staged, place, unclean, reads>>

-----------------------------------------------------------------------------
\* _rollback_output, of the public and then of the private side

Backs(r, name) ==
    step' = [step EXCEPT ![r] = IF name = "end" THEN
                IF @[2] = "public" THEN <<"withdraw", "private">> ELSE <<"failed", "public">>
             ELSE <<name, @[2]>>]

\* An error ends the rollback of this side, not of the other
Stuck(r) == Fault("undo") /\ unclean' = unclean \cup {r} /\ Backs(r, "end")

\* Variant: whatever is at the target goes
AtTarget(r, side) == place[Target(r, side)] # None

\* Only what was moved to the target is moved back
IsOut(r, side) == staged[r][side] = "moved" /\ place[Target(r, side)] # None

Withdraw(r) ==
    /\ At(r, "withdraw")
    /\ LET side == Side(r)
       IN  \/ /\ staged[r][side] = "none"
              /\ Backs(r, "end")
              /\ UNCHANGED <<staged, place, durable, unclean, faults>>
           \/ /\ staged[r][side] # "none" /\ ~IsOut(r, side)
              /\ Backs(r, "discard")
              /\ UNCHANGED <<staged, place, durable, unclean, faults>>
           \/ /\ staged[r][side] # "none" /\ IsOut(r, side)
              /\ \/ /\ Name(Target(r, side), None)
                    /\ staged' = [staged EXCEPT ![r][side] = "full"]
                    /\ Backs(r, "resync")
                    /\ UNCHANGED <<unclean, faults>>
                 \/ Stuck(r) /\ UNCHANGED <<staged, place, durable>>
    /\ UNCHANGED <<made, reads>>

Resync(r) ==
    /\ At(r, "resync")
    /\ LET x == Target(r, Side(r))
       IN  \/ /\ durable' = [durable EXCEPT ![x] = {place[x]}]
              /\ Backs(r, "discard")
              /\ UNCHANGED <<unclean, faults>>
           \/ Stuck(r) /\ UNCHANGED durable
    /\ UNCHANGED <<made, staged, place, reads>>

\* rmtree of the staging directory
Discard(r) ==
    /\ At(r, "discard")
    /\ \/ /\ staged' = [staged EXCEPT ![r][Side(r)] = "none"]
          /\ Backs(r, "end")
          /\ UNCHANGED <<unclean, faults>>
       \/ Stuck(r) /\ UNCHANGED staged
    /\ UNCHANGED <<made, place, durable, reads>>

-----------------------------------------------------------------------------
\* read_private_holdout_task

Read(q, label) == reading' = [reading EXCEPT ![q] = label]

\* Load the manifest at some public path; only a task it lists may be asked for
Look(q) ==
    /\ reading[q] = "idle"
    /\ \E x \in PublicPath, t \in Task :
        /\ place[x] # None
        /\ access' = [access EXCEPT ![q] = [task |-> t, manifest |-> place[x]]]
        /\ Read(q, IF t \in made[place[x]].held THEN "append" ELSE "refused")
    /\ UNCHANGED <<publication, opened, log, lost, faults>>

\* os.open with O_CREAT, and a write with O_APPEND of a whole line, a part of one, or its end
Writes(q, piece) ==
    log' = [log EXCEPT !.name = IF @ = "none" THEN "cached" ELSE @, !.pieces = Append(@, <<q, piece>>)]

\* _append_access_event: after a short write comes another; what an error or a kill
\* leaves stays
Write(q) ==
    /\ \/ /\ reading[q] = "append" /\ Read(q, "flush")
          /\ Writes(q, "line") /\ UNCHANGED faults
       \/ /\ reading[q] = "append" /\ Read(q, "rest")
          /\ Writes(q, "part") /\ Fault("log")
       \/ /\ reading[q] = "rest" /\ Read(q, "flush")
          /\ Writes(q, "end") /\ UNCHANGED faults
       \/ /\ reading[q] \in {"append", "rest"} /\ Read(q, "refused")
          /\ Fault("log") /\ UNCHANGED log
    /\ UNCHANGED <<publication, access, opened, lost>>

\* Variant: a log that cannot be synced does not prevent the read
FlushAnyway(q) ==
    /\ reading[q] = "flush"
    /\ Read(q, "open")
    /\ \/ log' = [log EXCEPT !.synced = Len(log.pieces)] /\ UNCHANGED faults
       \/ Fault("log") /\ UNCHANGED log
    /\ UNCHANGED <<publication, access, opened, lost>>

\* The file is synced, its directory is not
Flush(q) ==
    /\ reading[q] = "flush"
    /\ \/ /\ Read(q, "open")
          /\ log' = [log EXCEPT !.synced = Len(log.pieces)] /\ UNCHANGED faults
       \/ Fault("log") /\ Read(q, "refused") /\ UNCHANGED log
    /\ UNCHANGED <<publication, access, opened, lost>>

\* Variant: the body is not verified
HashIgnored(r, s, t) == TRUE

\* The salted hash in the manifest is that of the body
HashMatches(r, s, t) == Body(r, t) = Body(s, t)

\* Open the body in some private store, where it may be missing, and verify it
Open(q) ==
    /\ reading[q] = "open"
    /\ LET r == access[q].manifest
           t == access[q].task
       IN  \E x \in PrivatePath :
            LET s == place[x]
                found == s # None /\ t \in Tasks(s, "private")
            IN  /\ opened' = [opened EXCEPT ![q] = IF found THEN s ELSE None]
                /\ Read(q, IF found /\ HashMatches(r, s, t) THEN "returned" ELSE "refused")
    /\ UNCHANGED <<publication, access, log, lost, faults>>

-----------------------------------------------------------------------------
Calling == {"append", "rest", "flush", "open"}

\* A run or a call is killed or interrupted: no rollback
Kill ==
    /\ Fault("kill")
    /\ \/ /\ \E r \in Release : ~(step[r][1] \in Ends) /\ step' = [step EXCEPT ![r] = <<"dead", @[2]>>]
          /\ UNCHANGED reading
       \/ /\ \E q \in Reader : reading[q] \in Calling /\ Read(q, "refused")
          /\ UNCHANGED step
    /\ UNCHANGED <<made, staged, place, durable, unclean, access, opened, log, lost>>

NoLog == [name |-> "none", pieces |-> <<>>, synced |-> 0]

\* A log whose name is not durable may be gone, with all that was synced
LogGoes ==
    /\ log.name # "durable"
    /\ log' = NoLog
    /\ lost' = lost \cup {log.pieces[i][1] : i \in DOMAIN log.pieces}

\* Otherwise its first n pieces are left, the last of them perhaps torn
Left(n, torn) ==
    [i \in 1 .. n |-> IF torn /\ i = n THEN <<log.pieces[i][1], "part">> ELSE log.pieces[i]]

LogStays ==
    /\ log.name # "none"
    /\ \E n \in log.synced .. Len(log.pieces), torn \in BOOLEAN :
        /\ torn => n > log.synced
        /\ log' = [name |-> "durable", pieces |-> Left(n, torn), synced |-> n]
    /\ UNCHANGED lost

\* Everything stops; the name of a tree is one that the disk may hold
PowerLoss ==
    /\ Fault("power")
    /\ \E d \in [Path -> Release \cup {None}] :
        /\ \A x \in Path : d[x] \in durable[x]
        /\ place' = d
        /\ durable' = [x \in Path |-> {d[x]}]
    /\ step' = [r \in Release |-> IF step[r][1] \in Ends THEN step[r] ELSE <<"dead", Side(r)>>]
    /\ reading' = [q \in Reader |-> IF reading[q] \in Calling THEN "refused" ELSE reading[q]]
    /\ LogGoes \/ LogStays
    /\ UNCHANGED <<made, staged, unclean, access, opened>>

-----------------------------------------------------------------------------
Init ==
    /\ step = [r \in Release |-> <<"idle", "public">>]
    /\ made = [r \in Release |-> None]
    /\ staged = [r \in Release |-> [side \in Sides |-> "none"]]
    /\ place = [x \in Path |-> None]
    /\ durable = [x \in Path |-> {None}]
    /\ unclean = {}
    /\ reading = [q \in Reader |-> "idle"]
    /\ access = [q \in Reader |-> None]
    /\ opened = [q \in Reader |-> None]
    /\ log \in {NoLog, [NoLog EXCEPT !.name = "durable"]}
    /\ lost = {}
    /\ faults = 0

Publish(r) ==
    \/ Prepare(r) \/ Mkdir(r) \/ Fill(r) \/ Rename(r) \/ Sync(r)
    \/ Withdraw(r) \/ Resync(r) \/ Discard(r)

ReadTask(q) == Look(q) \/ Write(q) \/ Flush(q) \/ Open(q)

Next ==
    \/ \E r \in Release : Publish(r)
    \/ \E q \in Reader : ReadTask(q)
    \/ Kill \/ PowerLoss

Spec == Init /\ [][Next]_vars

-----------------------------------------------------------------------------
\* Properties

Steps == Ends \cup {"mkdir", "fill", "rename", "sync", "withdraw", "resync", "discard"}

\* The type invariant.  The tree at a path is one that the disk may keep there; a
\* run that has read its corpus has a split of an approved one, so that no released
\* tree has another; a tree at a path belongs to a run that has it as its target
\* (prepare_corpus_release).
TypeOK ==
    /\ step \in [Release -> Steps \X Sides]
    /\ made \in [Release -> Plans \cup {None}]
    /\ \A r \in Release :
        IF At(r, "idle") THEN made[r] = None
        ELSE made[r] # None /\ Approved(made[r].corpus) /\ made[r].held \in Splits(made[r].corpus)
    /\ staged \in [Release -> [Sides -> {"none", "part", "full", "moved"}]]
    /\ place \in [Path -> Release \cup {None}]
    /\ durable \in [Path -> SUBSET (Release \cup {None})]
    /\ \A x \in Path : place[x] \in durable[x]
    /\ \A x \in Path : \A r \in durable[x] \ {None} :
        made[r] # None /\ \E side \in Sides : x = Target(r, side)
    /\ unclean \subseteq Release
    /\ reading \in [Reader -> {"idle", "refused", "returned"} \cup Calling]
    /\ access \in [Reader -> [task : Task, manifest : Release] \cup {None}]
    /\ opened \in [Reader -> Release \cup {None}]
    /\ log \in [name : {"none", "cached", "durable"},
                pieces : Seq(Reader \X {"line", "part", "end"}), synced : Nat]
    /\ log.synced <= Len(log.pieces)
    /\ lost \subseteq Reader
    /\ faults \in 0 .. MaxFaults

\* Wherever a loss of power may leave a public tree, its private counterpart is at
\* its path for sure: it is renamed and synced first, and goes last in a rollback.
\* A run that asks for manual cleanup is excepted: a public tree that cannot be
\* withdrawn does not keep the private one (D013, eval/README).
PublicHasPrivate ==
    \A x \in PublicPath : \A r \in durable[x] \ (unclean \cup {None}) :
        durable[made[r].private] = {r}

\* A run that ended with an error and without asking for manual cleanup has left
\* nothing, neither at its targets, whatever the disk keeps, nor beside them.
FailedLeavesNothing ==
    \A r \in Release \ unclean :
        At(r, "failed") =>
            /\ \A x \in Path : r \notin durable[x]
            /\ \A side \in Sides : staged[r][side] = "none"

\* Once the name of a tree is durable only its own run takes it away: no run
\* replaces or withdraws what another one has published (existing outputs are
\* rejected instead of merged or overwritten).
NeverOverwritten ==
    [][\A x \in Path :
        durable[x] = {place[x]} /\ place[x] # None /\ place'[x] # place[x] =>
            place'[x] = None /\ At(place[x], "withdraw")]_vars

\* All of the event of q is in the first n pieces of the log
Logged(q, n) ==
    \E j \in 1 .. n :
        \/ log.pieces[j] = <<q, "line">>
        \/ log.pieces[j] = <<q, "end">> /\ \E i \in 1 .. j - 1 : log.pieces[i] = <<q, "part">>

\* A body was read only after the whole event of this access had been written and
\* the log synced, also when the body turns out to be wrong; a log that failed
\* prevents the read (D017).  From then on no other reader, kill or power loss takes
\* any of the event away, but for one case that eval/README's "durably append" does
\* not allow: a power loss may take a new log, whose directory nobody synced, with
\* every event in it (lost).  The event is in the log, not always on a line of its
\* own: it may go on from the part of a line that a failed write has left.
ReadsLogged ==
    \A q \in Reader : opened[q] # None => q \in lost \/ Logged(q, log.synced)

\* A task that is returned is held out by the manifest that was read, with the same
\* body, even when the private store has the tree of another release.
ReturnedIsListed ==
    \A q \in Reader : reading[q] = "returned" =>
        LET a == access[q]
        IN  a.task \in made[a.manifest].held /\ Body(opened[q], a.task) = Body(a.manifest, a.task)

=============================================================================
